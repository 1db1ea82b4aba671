-------------------------- MODULE MCReconciliation --------------------------
(* Reconciliation on a small instance: o1 and o2 trade one instrument each *)
(* or compete for the same one.                                            *)
EXTENDS Reconciliation, TLC

CONSTANTS o1, o2, h1, h2, aapl, pko

SameInstrument == [o \in Orders |-> aapl]

OwnInstruments == [o \in Orders |-> IF o = o1 THEN aapl ELSE pko]

HandlerSymmetry == Permutations(Handlers)
=============================================================================
