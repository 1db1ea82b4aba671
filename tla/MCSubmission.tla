---------------------------- MODULE MCSubmission ----------------------------
(* Submission on a small instance: o1 and o2 compete for instrument aapl,  *)
(* o3 trades pko; two requests run at a time and the process crashes once. *)
EXTENDS Submission, TLC

CONSTANTS o1, o2, o3, h1, h2, aapl, pko

MCInstrumentOf == [o \in Orders |-> IF o = o3 THEN pko ELSE aapl]

HandlerSymmetry == Permutations(Handlers)

=============================================================================
