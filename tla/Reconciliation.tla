--------------------------- MODULE Reconciliation ---------------------------
(***************************************************************************)
(* Reconciliation composed with order submission: the run that reads the   *)
(* broker, matches the rows whose submission is ambiguous (PROPOSED with   *)
(* the marker set) and publishes transitions and holds; the gate that the  *)
(* submission's INSERT and claim pass; and the operator who resolves a     *)
(* hold.  A run reads the broker and the database outside any transaction, *)
(* so requests, callbacks and the operator go on between its steps.        *)
(*                                                                         *)
(* The completed-order source answers for the current state only, so a run *)
(* that has ambiguous rows is never recovery-complete and the hold for an  *)
(* unmatched row is recovery_source_missing.  Position mismatch is module  *)
(* ExposureFence; orders of other owners and the age of the last run can   *)
(* only refuse an entry and are left out.                                  *)
(***************************************************************************)
EXTENDS Submission

CONSTANTS
  MaxRuns,   \* bound: reconciliation runs
  Operating  \* an operator resolves holds

ASSUME ReconciliationAssumption == MaxRuns \in Nat /\ Operating \in BOOLEAN

VARIABLES
  run,      \* the run in progress and what it has read
  lastRun,  \* the latest run of this session: none, exposed or failed
  hold,     \* per instrument: the order an active hold's payload names
  linked,   \* orders whose parent link has left the status PLANNED
  observed, \* ids observed by the session's latest complete run
  runs,     \* history: runs started
  confirmed \* history: orders an operator confirmed as not submitted

reconVars == <<run, lastRun, hold, linked, observed, runs, confirmed>>
allVars == <<vars, reconVars>>

RunSteps == {"idle", "capture", "plan", "publish"}

Transitions == {"SUBMITTED", "FILLED", "CANCELLED", "REJECTED"}

IdleRun == [step |-> "idle", exposure |-> FALSE, complete |-> FALSE,
            seen |-> [i \in OrderIds |-> "NONE"],
            transition |-> [o \in Orders |-> "NONE"],
            unmatched |-> {}, lifts |-> {}]

-----------------------------------------------------------------------------
(* A submission whose outcome is unknown to the database.                  *)
Ambiguous(o) == status[o] = "PROPOSED" /\ marker[o]

(* checkReconciliationGate: no run in progress, the session's latest run   *)
(* saw the whole exposure, and no hold on the instrument.                  *)
GateOpen(o) ==
  /\ run.step = "idle"
  /\ lastRun = "exposed"
  /\ hold[InstrumentOf[o]] = NoOrder

(* What a capture may show of an order: nothing while it is on the wire,   *)
(* nothing either when the source that has it did not answer, or answers   *)
(* for a window that the closed order has left.                            *)
Visible(s, exposure) ==
  CASE s = "WORKING" -> {"WORKING"} \cup (IF exposure THEN {} ELSE {"NONE"})
    [] s \in {"FILLED", "CANCELLED"} -> {s, "NONE"}
    [] OTHER -> {"NONE"}

ReconInit ==
  /\ Init
  /\ run = IdleRun
  /\ lastRun = "none"
  /\ hold = [a \in Instruments |-> NoOrder]
  /\ linked = {}
  /\ observed = {}
  /\ runs = 0
  /\ confirmed = {}

-----------------------------------------------------------------------------
(* The system of Submission with the gate in front of it *)

(* The INSERT and the claim are the two transactions that ask the gate;    *)
(* nothing asks it again before the send.                                  *)
GatedRequest(h) ==
  /\ Request(h)
  /\ InsertProposed(h) \/ Claim(h) => GateOpen(serving[h])
  /\ UNCHANGED reconVars

Unaffected ==
  /\ \/ \E o \in Orders : RejectPending(o)
     \/ \E i \in OrderIds : Broker(i)
     \/ Callback
     \/ Restart
  /\ UNCHANGED reconVars

(* The run in progress dies with the process; the new session has no run   *)
(* of its own.  Holds and links are in the database.                       *)
CrashWithRun ==
  /\ Crash
  /\ run' = IdleRun
  /\ lastRun' = "none"
  /\ observed' = {}
  /\ UNCHANGED <<hold, linked, runs, confirmed>>

-----------------------------------------------------------------------------
(* A run *)

RunAt(s) == up /\ run.step = s

(* Phase A: the RUNNING row is published.                                  *)
RunStart ==
  /\ RunAt("idle")
  /\ runs < MaxRuns
  /\ runs' = runs + 1
  /\ run' = [IdleRun EXCEPT !.step = "capture"]
  /\ UNCHANGED <<vars, lastRun, hold, linked, observed, confirmed>>

(* Phase B: the broker is read; a source that did not answer leaves the    *)
(* exposure incomplete.                                                    *)
RunCapture ==
  /\ RunAt("capture")
  /\ \E seen \in [OrderIds -> BrokerStates], exposure \in BOOLEAN :
       /\ \A i \in OrderIds : seen[i] \in Visible(broker[i], exposure)
       /\ run' = [run EXCEPT !.step = "plan", !.seen = seen, !.exposure = exposure]
  /\ UNCHANGED <<vars, lastRun, hold, linked, observed, runs, confirmed>>

(* Mutation of Matches: a row is matched by any order of its instrument.   *)
MatchesByInstrument(o, i) ==
  /\ run.seen[i] # "NONE"
  /\ owner[i] \in Orders /\ InstrumentOf[owner[i]] = InstrumentOf[o]

(* The id an ambiguous row is matched by: its order's own reference in the *)
(* capture, or else the id its persisted plan names, whoever's order the   *)
(* broker has under that id.                                               *)
Matches(o, i) ==
  /\ run.seen[i] # "NONE"
  /\ owner[i] = o \/ plan[o] = i

Matched(o) == \E i \in OrderIds : Matches(o, i)

(* Mutation of Derived: an order that waits at the broker is taken for an  *)
(* inactive one.                                                           *)
DerivedInactive(s) ==
  CASE s = "FILLED" -> {"FILLED"}
    [] s \in {"WORKING", "CANCELLED"} -> {"CANCELLED", "REJECTED"}
    [] OTHER -> {"NONE"}

(* deriveStatusFromBroker: a pending status is no evidence, ApiCancelled   *)
(* and Inactive derive REJECTED.                                           *)
Derived(s) ==
  CASE s = "WORKING" -> {"SUBMITTED", "NONE"}
    [] s = "FILLED" -> {"FILLED"}
    [] s = "CANCELLED" -> {"CANCELLED", "REJECTED"}
    [] OTHER -> {"NONE"}

(* Mutation of RecoveryComplete: ambiguous rows do not take it away.       *)
ExposureIsRecovery == run.exposure

(* The completed orders answer for now only: with ambiguous rows the run   *)
(* has not recovered everything.                                           *)
RecoveryComplete == run.exposure /\ \A o \in Orders : ~Ambiguous(o)

(* #reconcile: the ambiguous rows as they are NOW are matched against the  *)
(* broker as it was at the capture.                                        *)
RunPlan ==
  LET rows == {o \in Orders : Ambiguous(o)} IN
  /\ RunAt("plan")
  /\ \E t \in [Orders -> Transitions \cup {"NONE"}] :
       /\ \A o \in Orders :
            IF o \in rows /\ Matched(o)
              THEN \E i \in OrderIds : Matches(o, i) /\ t[o] \in Derived(run.seen[i])
              ELSE t[o] = "NONE"
       /\ run' = [run EXCEPT
            !.step = "publish",
            !.transition = t,
            !.complete = RecoveryComplete,
            !.unmatched = {o \in rows : run.exposure /\ ~Matched(o)},
            !.lifts = {InstrumentOf[o] : o \in {p \in rows :
                         t[p] # "NONE" /\ hold[InstrumentOf[p]] # NoOrder}}]
  /\ UNCHANGED <<vars, lastRun, hold, linked, observed, runs, confirmed>>

(* The guard of a transition's UPDATE on the row as it is at publication.  *)
Lands(o) ==
  CASE run.transition[o] \in {"SUBMITTED", "FILLED"} -> status[o] = "PROPOSED"
    [] run.transition[o] \in {"CANCELLED", "REJECTED"} -> status[o] \in {"PROPOSED", "SUBMITTED"}
    [] OTHER -> FALSE

Landed == {o \in Orders : Lands(o)}

(* The unmatched rows of an instrument: one of them is its hold's payload. *)
Held(a) == {o \in run.unmatched : InstrumentOf[o] = a}

(* Mutation of Lifted: a run that saw the whole exposure lifts the holds it *)
(* found.                                                                  *)
LiftedByCapture(a) == run.exposure /\ hold[a] \in Orders

(* A hold is lifted by a transition that was planned while it was active   *)
(* and that landed.                                                        *)
Lifted(a) == a \in run.lifts /\ \E o \in Landed : InstrumentOf[o] = a

(* Phase C, one transaction: holds are inserted, transitions applied where *)
(* their guard still holds, and holds lifted.                              *)
RunPublish ==
  /\ RunAt("publish")
  /\ status' = [o \in Orders |-> IF o \in Landed THEN run.transition[o] ELSE status[o]]
  /\ brokerId' = [o \in Orders |-> IF o \in Landed /\ brokerId[o] = 0 THEN plan[o]
                                                                   ELSE brokerId[o]]
  /\ linked' = linked \cup Landed
  /\ \E named \in [Instruments -> Orders \cup {NoOrder}] :
       /\ \A a \in Instruments :
            IF Held(a) # {} THEN named[a] \in Held(a) ELSE named[a] = hold[a]
       /\ hold' = [a \in Instruments |-> IF Lifted(a) THEN NoOrder ELSE named[a]]
  /\ lastRun' = IF run.exposure THEN "exposed" ELSE "failed"
  /\ observed' = IF run.complete THEN {i \in OrderIds : run.seen[i] # "NONE"} ELSE observed
  /\ run' = IdleRun
  /\ UNCHANGED <<marker, plan, up, nextId, requestVars, brokerVars, inbox, sends,
                 crashes, runs, confirmed>>

(* The run times out, or one of its calls throws: ABANDONED or FAILED.     *)
RunFails ==
  /\ up /\ run.step # "idle"
  /\ run' = IdleRun
  /\ lastRun' = "failed"
  /\ UNCHANGED <<vars, hold, linked, observed, runs, confirmed>>

-----------------------------------------------------------------------------
(* The operator *)

(* CONFIRMED_NOT_SUBMITTED, by an operator who sees no order of the row at *)
(* the broker.                                                             *)
ConfirmNotSubmitted(a) ==
  LET o == hold[a] IN
  /\ Operating /\ up
  /\ o \in Orders
  /\ \A i \in OrderIds : owner[i] = o => broker[i] \in {"NONE", "WIRE"}
  /\ o \notin linked
  /\ status[o] = "PROPOSED"
  /\ status' = [status EXCEPT ![o] = "REJECTED"]
  /\ confirmed' = confirmed \cup {o}
  /\ hold' = [hold EXCEPT ![a] = NoOrder]
  /\ UNCHANGED <<marker, brokerId, plan, up, nextId, requestVars, brokerVars, inbox,
                 sends, crashes, run, lastRun, linked, observed, runs>>

(* LINK_TO_BROKER_ORDER: the id must be observed by the session's latest   *)
(* complete run, and its reference must be the row's.  The row's status is *)
(* not touched.                                                            *)
LinkToBrokerOrder(a, i) ==
  LET o == hold[a] IN
  /\ Operating /\ up
  /\ o \in Orders
  /\ i \in observed /\ owner[i] = o
  /\ linked' = linked \cup {o}
  /\ hold' = [hold EXCEPT ![a] = NoOrder]
  /\ UNCHANGED <<vars, run, lastRun, observed, runs, confirmed>>

Reconcile == RunStart \/ RunCapture \/ RunPlan \/ RunPublish \/ RunFails

Operator ==
  \E a \in Instruments :
    ConfirmNotSubmitted(a) \/ \E i \in OrderIds : LinkToBrokerOrder(a, i)

ReconNext ==
  \/ \E h \in Handlers : GatedRequest(h)
  \/ Unaffected
  \/ CrashWithRun
  \/ Reconcile
  \/ Operator

ReconSpec == ReconInit /\ [][ReconNext]_allVars

-----------------------------------------------------------------------------
(* Properties *)

(* A row leaves the active statuses, by a callback or by a run, only when  *)
(* its order is no longer live at the broker: a run that overlaps the      *)
(* dispatch of a request never frees an instrument that still has an order *)
(* at work.  An operator's word is not the code's.                         *)
ClosedRowsAreDead ==
  \A o \in Orders \ confirmed : status[o] \in {"FILLED", "CANCELLED", "REJECTED"} =>
    \A i \in OrderIds : owner[i] = o => broker[i] \notin {"WIRE", "WORKING"}

(* No order is sent twice, and two orders of one instrument are never      *)
(* alive at the broker together, whatever runs and crashes do to the rows, *)
(* unless an operator confirmed one of them as not submitted while its     *)
(* request was still to be sent.                                           *)
OneLiveUnlessConfirmed ==
  /\ AtMostOneDispatch
  /\ \A i, j \in OrderIds :
    (/\ i # j
     /\ broker[i] \in {"WIRE", "WORKING"} /\ broker[j] \in {"WIRE", "WORKING"}
     /\ {owner[i], owner[j]} \cap confirmed = {})
      => InstrumentOf[owner[i]] # InstrumentOf[owner[j]]

(* A hold leaves an instrument only together with, or after, its row       *)
(* leaving the ambiguous state: no run, no overlap of runs with requests   *)
(* and no operator's link frees the instrument of a submission whose       *)
(* outcome is still unknown.                                               *)
HoldLiftsWithItsRow ==
  [][\A a \in Instruments :
       hold[a] \in Orders /\ hold'[a] = NoOrder => status'[hold[a]] # "PROPOSED"]_allVars

(* "On its own that only blocks *ambiguous instruments*": an active hold   *)
(* names a row whose submission is ambiguous.                              *)
HoldsOnlyOnAmbiguous ==
  \A a \in Instruments : hold[a] \in Orders => status[hold[a]] = "PROPOSED"

(* "REJECTED rows are immutable."                                          *)
RejectedIsImmutable ==
  [][\A o \in Orders : status[o] = "REJECTED" => status'[o] = "REJECTED"]_allVars

(* "Row A must only be matchable against A's own persisted refs": a row    *)
(* that carries a broker id carries the id of its own order.               *)
RowCarriesItsOwnOrder ==
  \A o \in Orders : brokerId[o] # 0 => owner[brokerId[o]] = o
=============================================================================
