-------------------------------- MODULE MCDte -------------------------------
(* The two dialects on small invoices. *)
EXTENDS DteProps

\* NITs of up to two of these symbols, and what a third may stand between.
Symbols == {"CF", "cf", "7", "-", " ", "tab"}
MCNits == UNION {[1 .. n -> Symbols] : n \in 0 .. 2}
          \cup ({"CF", "7"} \X {"-", " ", "tab"} \X {"CF", "7"})
=============================================================================
