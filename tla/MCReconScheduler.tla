-------------------------- MODULE MCReconScheduler -------------------------
(* Instances of the scheduler: three calls, a timer and a short clock.     *)
EXTENDS ReconScheduler

CONSTANTS f1, f2, e1
=============================================================================
