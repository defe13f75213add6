----------------------------- MODULE MCInvoicing -----------------------------
(* Model checking of Invoicing. *)
EXTENDS Invoicing, TLC

\* A cfg file cannot write a negative number.
MCManuals == {-1, 1}

InvoicingSymmetry == Permutations(Requests)
=============================================================================
