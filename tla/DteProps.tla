------------------------------ MODULE DteProps ------------------------------
(***************************************************************************)
(* The XML the gateway keeps and the payload FELplex is sent describe one  *)
(* invoice: how far they agree.                                            *)
(***************************************************************************)
EXTENDS Dte

TypeOK == /\ pc \in {"xml", "payload", "done"}
          /\ \A n \in DOMAIN lines : \A amount \in {lines[n].precio_unitario,
                lines[n].gravable, lines[n].impuesto, lines[n].total} : amount \in Nat

Abs(n) == IF n < 0 THEN -n ELSE n

\* No document has a line below zero.
NotBelowZero(amount) == IF amount < 0 THEN 0 ELSE amount

\* What the XML means a line to cost, tax included, in 1/(10000 * Unit) cents and
\* without rounding: the discount is taken from the amount without tax.
Exact(it, incluido, tasa) ==
    NotBelowZero(IF incluido THEN 100 * it.price * it.qty - 100 * (100 + tasa) * it.discount
                 ELSE (100 + tasa) * (it.price * it.qty - 100 * it.discount))

\* ... and what FELplex is sent: price, quantity and discount as the caller gave
\* them, all with tax or all without.
Sent(it, incluido, tasa) ==
    NotBelowZero(IF incluido THEN 100 * (it.price * it.qty - 100 * it.discount)
                 ELSE (100 + tasa) * (it.price * it.qty - 100 * it.discount))

\* Half a cent of the unit price per unit, half a cent of the line's net total, with
\* the tax of both, and half a cent of the tax; doubled.
Drift(it, tasa) == Unit * ((100 + tasa) * (it.qty + 100) + 10000)

Within(total, amount, drift) == 2 * Abs(10000 * (Unit * total) - amount) <= drift

\* The price without tax is rounded before it is multiplied, the total before it is
\* taxed, the tax once more: all in all the lines of the XML stay within Drift of
\* exact arithmetic, whatever prices, quantities, discounts and rates callers send.
LinesAgree ==
    \A n \in DOMAIN lines : LET it == invoice.items[n] IN
       Within(lines[n].total, Exact(it, invoice.iva_incluido, invoice.tasa),
              Drift(it, invoice.tasa))

\* A discount is taken from the price without tax in the XML, from the price as it was
\* given in FELplex's payload: the tax on the discount lies between the two.
TaxOnDiscount(it, tasa) == 100 * tasa * it.discount

\* A line of the XML says of an item no more than FELplex is told it costs, and less by
\* the tax on its discount at most; by rounding alone if it has none.
Tells(line, it, incluido, tasa) ==
    LET told == 10000 * (Unit * line.total)
        sent == Sent(it, incluido, tasa)
        gap  == IF incluido THEN TaxOnDiscount(it, tasa) ELSE 0
    IN  /\ 2 * (told - sent) <= Drift(it, tasa)
        /\ 2 * (sent - told) <= Drift(it, tasa) + 2 * gap

\* "The gateway is the source of truth for what was sent to SAT", models.py:65: the XML
\* that is kept has a line for every item FELplex was sent, and tells what it costs, but
\* for rounding and for the tax on a discount that was given with prices including it.
XmlTellsWhatWasSent ==
    pc = "done" =>
       \A n \in DOMAIN felplex.items :
          /\ n \in DOMAIN lines
          /\ Tells(lines[n], felplex.items[n], ~felplex.without_iva, invoice.tasa)

\* Whom FELplex is told to bill.
Billed == IF felplex.to_cf THEN <<"CF">> ELSE felplex.tax_code

\* Both dialects name one type, one original note and one receiver: however the caller
\* wrote the NIT, they differ in whitespace at its ends that is no blank, and in nothing
\* else.  Nobody recalculates the total and the tax, but the XML rounds them and FELplex
\* is sent the total as it is: they are half a cent apart at most, the taxes a cent, and
\* that only where half a cent is rounded either way.  The scheduled payment is the
\* total.
SameInvoice ==
    pc = "done" =>
       /\ felplex.type = dte.tipo
       /\ felplex.parent = dte.origen
       /\ Billed = OrCF(Strip(dte.receptor))
       /\ (\A n \in DOMAIN dte.receptor : dte.receptor[n] \notin Whitespace)
             => Billed = dte.receptor /\ felplex.to_cf = dte.cf
       /\ 2 * Abs(felplex.total - Unit * dte.gran_total) <= Unit
       /\ felplex.payments \in {<<>>, <<felplex.total>>}
       /\ \/ dte.total_impuesto = felplex.total_tax
          \/ /\ dte.total_impuesto = felplex.total_tax + 1
             /\ 2 * invoice.monto_iva = Unit * (dte.total_impuesto + felplex.total_tax)
=============================================================================
