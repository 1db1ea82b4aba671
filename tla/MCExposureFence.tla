-------------------------- MODULE MCExposureFence --------------------------
(* ExposureFence with one entry order.  The guards are evaluated in every  *)
(* state as a second order would meet them.                                *)
EXTENDS ExposureFence

CONSTANT o1

(* Bound of the run fence: a partial fill is explored without a run or a   *)
(* restart beside it.                                                      *)
PartialFillsAlone ==
  (\E o \in Orders : "partialFill" \in executed[o]) => recon.step = "idle" /\ ~hold /\ session = 1

(* Bound of the run fence: a reconciliation run starts while a row waits   *)
(* for its dispatch or is ambiguous.  The code's timer starts runs at      *)
(* other times as well; those write no row, they compare the positions and *)
(* ask for the executions again.                                           *)
RunsForProposedRows ==
  recon.step = "idle" /\ recon'.step # "idle" => \E o \in Orders : row[o] = "PROPOSED"

=============================================================================
