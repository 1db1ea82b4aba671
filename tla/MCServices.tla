----------------------------- MODULE MCServices -----------------------------
(***************************************************************************)
(* The services around the order path on one small instance: the admission *)
(* of entries and the alerts of the execution engine, the trading loop of  *)
(* the signal engine, the research agent, and the readers and the session  *)
(* schedules of the ingestion service.  Where one depends on another its   *)
(* module already has the other as a step that may refuse, so here a       *)
(* behaviour is one of a single service, the part, and their state spaces  *)
(* add up.                                                                 *)
(***************************************************************************)
EXTENDS Naturals, FiniteSets

CONSTANTS
    Proposals, Contracts, Agents, MaxDay,           \* EntryAdmission
    Workers,                                        \* processes of a service
    MaxAttempts, MaxEpisodes, MaxGeneration,        \* AlertOutbox
    N, MaxConcurrent, MaxBucket, MaxWaiting, MaxRestarts,    \* TradingLoop
    MaxClaims, MaxReboots,                          \* ResearchAttempts
    MaxTicks, MaxControls, MaxFaults,               \* ReadRecovery
    MaxInvalidations, MaxTroubles                   \* SessionSchedule

VARIABLES
    part,
    policy, contract, entry, review, agent, call, paused, day, sentOn,
    fault, onTime, outbox, sent, gen, owed, worker, enabled,
    configured, stopping, waiting, startIndex, run, bucket, wire, order, placed, passed, restarts,
    att, held, tick, head, domain,
    auto, durable, proc, controls, intact, asked, faults,
    schedule, version, settled, lost, persisted, ensure, initialized, recent, called, troubles

Admission == INSTANCE EntryAdmission
Alerts == INSTANCE AlertOutbox
Loop == INSTANCE TradingLoop
Research == INSTANCE ResearchAttempts
Readers == INSTANCE ReadRecovery
Schedules == INSTANCE SessionSchedule

ASSUME ServicesAssumption ==
    /\ Admission!AdmissionAssumption
    /\ Alerts!AlertAssumption
    /\ Loop!LoopAssumption
    /\ Research!ResearchAssumption
    /\ Readers!RecoveryAssumption
    /\ Schedules!ScheduleAssumption

entryVars == <<policy, contract, entry, review, agent, call, paused, day, sentOn>>
alertVars == <<fault, onTime, outbox, sent, gen, owed, worker, enabled>>
loopVars == <<configured, stopping, waiting, startIndex, run, bucket, wire, order, placed, passed, restarts>>
researchVars == <<att, held, tick, head, domain>>
readerVars == <<auto, durable, proc, controls, intact, asked, faults>>
scheduleVars == <<schedule, version, settled, lost, persisted, ensure, initialized, recent, called, troubles>>

vars == <<part, entryVars, alertVars, loopVars, researchVars, readerVars, scheduleVars>>

AContract == CHOOSE c \in Contracts : TRUE
AProposal == CHOOSE p \in Proposals : TRUE

\* A service that is not the part keeps one of its initial states.
Init ==
    /\ part \in {"admission", "alerts", "loop", "research", "readers", "schedules"}
    /\ Admission!Init /\ (part # "admission" => policy = 1 /\ contract = [p \in Proposals |-> AContract])
    /\ contract[AProposal] = AContract      \* the names of the contracts do not matter
    /\ Alerts!Init /\ (part # "alerts" => enabled = [w \in Workers |-> TRUE])
    /\ Loop!Init /\ (part # "loop" => ~configured)
    /\ Research!Init
    /\ Readers!Init /\ (part # "readers" => ~auto /\ durable)
    /\ Schedules!Init

Next ==
    /\ \/ part = "admission" /\ Admission!Next
          /\ UNCHANGED <<alertVars, loopVars, researchVars, readerVars, scheduleVars>>
       \/ part = "alerts" /\ Alerts!Next
          /\ UNCHANGED <<entryVars, loopVars, researchVars, readerVars, scheduleVars>>
       \/ part = "loop" /\ Loop!Next
          /\ UNCHANGED <<entryVars, alertVars, researchVars, readerVars, scheduleVars>>
       \/ part = "research" /\ Research!Next
          /\ UNCHANGED <<entryVars, alertVars, loopVars, readerVars, scheduleVars>>
       \/ part = "readers" /\ Readers!Next
          /\ UNCHANGED <<entryVars, alertVars, loopVars, researchVars, scheduleVars>>
       \/ part = "schedules" /\ Schedules!Next
          /\ UNCHANGED <<entryVars, alertVars, loopVars, researchVars, readerVars>>
    /\ UNCHANGED part

Step(w) ==
    \/ part = "alerts" /\ (Alerts!Deliver(w) \/ Alerts!CheckAgain(w))
       /\ UNCHANGED <<researchVars, readerVars, scheduleVars>>
    \/ part = "research" /\ Research!Refresh(w) /\ UNCHANGED <<alertVars, readerVars, scheduleVars>>
    \/ part = "readers" /\ Readers!Controller /\ UNCHANGED <<alertVars, researchVars, scheduleVars>>
    \/ part = "schedules" /\ Schedules!Refresh /\ UNCHANGED <<alertVars, researchVars, readerVars>>

Time ==
    \/ part = "alerts" /\ Alerts!Time /\ UNCHANGED <<researchVars, readerVars, scheduleVars>>
    \/ part = "research" /\ Research!Time /\ UNCHANGED <<alertVars, readerVars, scheduleVars>>
    \/ part = "readers" /\ Readers!Storage /\ UNCHANGED <<alertVars, researchVars, scheduleVars>>
    \/ part = "schedules" /\ Schedules!Elapsed /\ UNCHANGED <<alertVars, researchVars, readerVars>>

timed == <<alertVars, researchVars, readerVars, scheduleVars>>

\* The fairness of the modules that state one, for the part that runs.
Fairness == (\A w \in Workers : WF_timed(Step(w))) /\ WF_timed(Time)

Spec == Init /\ [][Next]_vars /\ Fairness

-----------------------------------------------------------------------------
(* The properties, each explained in the module of its service.            *)

\* The state of every service keeps its type, and the trading loop its cap.
TypeOK ==
    /\ Admission!TypeOK /\ Alerts!TypeOK /\ Loop!TypeOK /\ Research!TypeOK
    /\ Readers!TypeOK /\ Schedules!TypeOK

\* paper-entry-budget.ts: the sends of a day stay within the policy's budget.
DailyBudget == Admission!DailyBudget

\* entry-control.ts: what the claim of an entry found still holds when it is sent.
AdmittedWhenSent == Admission!AdmittedWhenSent

\* ai-proposal-review.ts: an entry that was sent keeps its approval and its row.
SentStaysApproved == Admission!SentStaysApproved

\* lifecycle-alerts.ts: a coalesced alert was resolved in time and is never sent.
CoalescedIsSilent == Alerts!CoalescedIsSilent

\* lifecycle-alerts.ts: every alert is delivered, coalesced or tried to the limit.
EveryAlertSettles == Alerts!EveryAlertSettles

\* execution-runtime.ts: a trigger trades once, whatever is retried or restarted.
OneOrderPerTrigger == Loop!OneOrderPerTrigger

\* trading-loop-service.ts: stop() refuses the work of a cycle in its await.
StoppedStartsNothing == Loop!StoppedStartsNothing

\* trading-loop-service.ts: the cap on concurrent instruments starves none of them.
RotationReachesAll == Loop!RotationReachesAll

\* instrument-research/store.ts: never two calls to the provider for one issuer.
OneCallAtATime == Research!OneCallAtATime

\* instrument-research/store.ts: a late finalizer never replaces newer news.
NewsNeverFallBack == Research!NewsNeverFallBack

\* instrument-research/store.ts: a prepared challenge can be committed or replaced.
ChallengeStaysAnswerable == Research!ChallengeStaysAnswerable

\* instrument-research/store.ts: no attempt closes the ledger for ever.
EveryAttemptResolves == Research!EveryAttemptResolves

\* publication-fence.ts, session-schedule-refresh.ts: what was begun for readers that are
\* retired is neither written beside their successors nor taken for READY.
RetiredReadsAreGone == Readers!RetiredWritesDrained /\ Schedules!ReadyIsUninvalidated

\* auto-bootstrap.ts: the operator's durable stop wins over the starts it raced with.
DurableStopHolds == Readers!DurableStopHolds

\* auto-bootstrap.ts: nothing is certified or admitted over a break in the readings.
EvidenceIsUnbroken == Readers!EvidenceIsUnbroken

\* auto-bootstrap.ts, session-schedule-refresh.ts: readers and schedules come back.
ReadersRecover ==
    []<>(/\ part = "readers" => Readers!AtRest
         /\ part = "schedules" => schedule.status = "READY")

=============================================================================
