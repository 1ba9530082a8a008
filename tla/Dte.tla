-------------------------------- MODULE Dte ---------------------------------
(***************************************************************************)
(* What certify_now makes of an invoice before it calls the provider: the  *)
(* local XML DTE, line by line, and the payload in FELplex's dialect.      *)
(*                                                                         *)
(* Callers give money in parts of a cent, Unit of them to the cent, the    *)
(* documents round it to cents; quantities are in hundredths, tax rates in *)
(* percent.  A NIT is a sequence of symbols, of which "cf" and "CF" stand  *)
(* for the two letters together and "tab" for any whitespace but the       *)
(* blank.  Texts, addresses and dates are left out.                        *)
(***************************************************************************)
EXTENDS Integers, Sequences

CONSTANTS
    None,
    Unit,                                   \* parts of a cent that callers write
    Prices, Quantities, Discounts, Rates,   \* what callers send
    Nits, Types, Originals, CreditDays, Totals, Taxes,
    MaxLines                                \* bound: items of an invoice

ASSUME AmountsAssumption ==
    /\ Unit \in Nat \ {0}
    /\ Prices \cup Discounts \cup Taxes \subseteq Nat /\ Totals \subseteq Nat \ {0}
    /\ Quantities \subseteq Nat \ {0} /\ Rates \subseteq 0 .. 100
    /\ CreditDays \subseteq Nat
ASSUME NitsAssumption == Nits \subseteq Seq(STRING)
ASSUME LinesAreNat == MaxLines \in Nat
ASSUME TypesAssumption == Types \subseteq {"FACT", "FCAM", "FPEQ", "NCRE", "NDEB"}

VARIABLES
    invoice,    \* request_payload, as it was validated
    pc,         \* xml: building the XML;  payload: FELplex's turn;  done
    lines,      \* the Items of the XML so far
    dte,        \* the rest of the XML, None before it is written
    felplex     \* the payload for FELplex, None before it is built

vars == <<invoice, pc, lines, dte, felplex>>
-----------------------------------------------------------------------------
(* NITs. *)

\* str.replace of each of cs by nothing, a symbol at a time.
Without(s, cs) ==
    LET kept[n \in 0 .. Len(s)] ==
            IF n = 0 THEN <<>>
            ELSE IF s[n] \in cs THEN kept[n - 1] ELSE Append(kept[n - 1], s[n])
    IN  kept[Len(s)]
Upper(s) == [i \in DOMAIN s |-> IF s[i] = "cf" THEN "CF" ELSE s[i]]
OrCF(s) == IF s = <<>> THEN <<"CF">> ELSE s

Whitespace == {" ", "tab"}

\* str.strip
Strip(s) ==
    LET ink == {i \in DOMAIN s : s[i] \notin Whitespace}
    IN  IF ink = {} THEN <<>>
        ELSE SubSeq(s, CHOOSE i \in ink : \A j \in ink : i <= j,
                       CHOOSE i \in ink : \A j \in ink : j <= i)

\* A faulty validator that leaves blanks alone.
normalize_nitDashes(s) == OrCF(Upper(Without(s, {"-"})))

\* InvoiceReceiver's validator, the XML's cleaning, and FELplex's.
normalize_nit(s) == OrCF(Upper(Without(s, {"-", " "})))
strip_nit(s)     == OrCF(Upper(Without(s, {"-", " "})))
nit_limpio(s)    == OrCF(Strip(Upper(Without(s, {"-"}))))
-----------------------------------------------------------------------------
(* Amounts. *)

\* n/d to the nearest integer, ties away from zero: quantize, ROUND_HALF_UP.
RoundHalfUp(n, d) == IF n >= 0 THEN (2 * n + d) \div (2 * d)
                     ELSE -((2 * (-n) + d) \div (2 * d))

\* float, formatted to two places: the nearest cent, and at a tie the one that the
\* binary fraction happens to be nearer to.
TwoPlaces(amount) ==
    {c \in {amount \div Unit, amount \div Unit + 1} :
        2 * (Unit * c) <= 2 * amount + Unit /\ 2 * amount <= 2 * (Unit * c) + Unit}

\* A faulty price without tax that is cut instead of rounded.
pu_sin_ivaCut(it, incluido, tasa) ==
    IF incluido /\ tasa > 0 THEN Unit * ((100 * it.price) \div ((100 + tasa) * Unit))
    ELSE it.price

\* A faulty price without tax that takes the tax from prices that have none.
pu_sin_ivaAlways(it, incluido, tasa) ==
    Unit * RoundHalfUp(100 * it.price, (100 + tasa) * Unit)

\* Only the price that the tax is taken from is rounded, to a cent.
pu_sin_iva(it, incluido, tasa) ==
    IF incluido /\ tasa > 0 THEN Unit * RoundHalfUp(100 * it.price, (100 + tasa) * Unit)
    ELSE it.price

\* A faulty total that is not kept from going below zero.
total_sin_ivaUnclamped(it, incluido, tasa) ==
    RoundHalfUp(pu_sin_iva(it, incluido, tasa) * it.qty - 100 * it.discount, 100 * Unit)

\* In cents, as all that follows.
total_sin_iva(it, incluido, tasa) ==
    LET total == RoundHalfUp(pu_sin_iva(it, incluido, tasa) * it.qty - 100 * it.discount,
                             100 * Unit)
    IN  IF total < 0 THEN 0 ELSE total

iva_item(it, incluido, tasa) == RoundHalfUp(total_sin_iva(it, incluido, tasa) * tasa, 100)

\* One Item of the XML.
XmlLine(it, incluido, tasa) ==
    [precio_unitario |-> RoundHalfUp(pu_sin_iva(it, incluido, tasa), Unit),
     gravable        |-> total_sin_iva(it, incluido, tasa),
     impuesto        |-> iva_item(it, incluido, tasa),
     total           |-> total_sin_iva(it, incluido, tasa) + iva_item(it, incluido, tasa)]
-----------------------------------------------------------------------------
Item == [price : Prices, qty : Quantities, discount : Discounts]

\* InvoiceCreate, of which nothing ties dias_credito or ncre_reference to tipo.
Invoice == [tipo : Types, iva_incluido : BOOLEAN, tasa : Rates,
            nit : {normalize_nit(n) : n \in Nits},
            items : UNION {[1 .. n -> Item] : n \in 1 .. MaxLines},
            total : Totals, monto_iva : Taxes,
            dias_credito : CreditDays \cup {None}, ncre : Originals \cup {None}]

Init == /\ invoice \in Invoice
        /\ pc = "xml" /\ lines = <<>> /\ dte = None /\ felplex = None

\* The loop over the items.
xml_item ==
    /\ pc = "xml" /\ Len(lines) < Len(invoice.items)
    /\ lines' = Append(lines, XmlLine(invoice.items[Len(lines) + 1],
                                      invoice.iva_incluido, invoice.tasa))
    /\ UNCHANGED <<invoice, pc, dte, felplex>>

\* The general data, the receiver, the totals and the note's reference.
build_xml_dte ==
    /\ pc = "xml" /\ Len(lines) = Len(invoice.items)
    /\ LET id == strip_nit(invoice.nit)
       IN  dte' = [tipo |-> invoice.tipo, receptor |-> id, cf |-> id = <<"CF">>,
                   gran_total |-> RoundHalfUp(invoice.total, Unit),
                   total_impuesto |-> RoundHalfUp(invoice.monto_iva, Unit),
                   origen |-> IF invoice.tipo = "NCRE" THEN invoice.ncre ELSE None]
    /\ pc' = "payload"
    /\ UNCHANGED <<invoice, lines, felplex>>

\* Items and total go as the caller gave them, without rounding.
build_felplex_payload ==
    /\ pc = "payload"
    /\ LET id == nit_limpio(invoice.nit)
           en_cuotas == invoice.tipo = "FCAM" /\ invoice.dias_credito \notin {None, 0}
       IN  \E tax \in TwoPlaces(invoice.monto_iva) :
           felplex' = [type |-> invoice.tipo, items |-> invoice.items,
                       without_iva |-> ~invoice.iva_incluido,
                       total |-> invoice.total, total_tax |-> tax,
                       to_cf |-> id = <<"CF">>,
                       tax_code |-> IF id = <<"CF">> THEN None ELSE id,
                       payments |-> IF en_cuotas THEN <<invoice.total>> ELSE <<>>,
                       parent |-> IF invoice.tipo = "NCRE" THEN invoice.ncre ELSE None]
    /\ pc' = "done"
    /\ UNCHANGED <<invoice, lines, dte>>

Next == xml_item \/ build_xml_dte \/ build_felplex_payload

Spec == Init /\ [][Next]_vars
=============================================================================
