---------------------------- MODULE MCRemittance ----------------------------
(* Model checking of Remittance and its views. *)
EXTENDS RemittanceViews, TLC

RemittanceSymmetry == Permutations(Payments) \cup Permutations(Workers)

\* One worker at a time is late with its write, and what may change meanwhile is
\* the payout option, by the command.
Late == {w \in Workers : job[w].missing # NoPeriod}
MCNext ==
  /\ Next
  /\ Cardinality(Late') <= 1
  /\ Late' # {} => changes' = 0 \/ (Late' = Late /\ option'.previous # "")
MCSpec == Init /\ [][MCNext]_vars
=============================================================================
