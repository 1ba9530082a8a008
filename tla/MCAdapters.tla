----------------------------- MODULE MCAdapters -----------------------------
(* The adapters on a small instance. *)
EXTENDS AdapterProps
=============================================================================
