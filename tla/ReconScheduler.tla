--------------------------- MODULE ReconScheduler --------------------------
(***************************************************************************)
(* The reconciliation scheduler: it drops ticks that overlap, lets callers *)
(* of triggerFresh wait for a capture that begins after their call, lets a *)
(* periodic tick be skipped on the receipt of a recent complete capture,   *)
(* and stops for good.                                                     *)
(*                                                                         *)
(* One account, one process.  #running and #inflight are set and cleared   *)
(* together and are one variable, with the locals of the tick in flight.   *)
(* The wall clock, the age of the acquisition and the accounting evidence  *)
(* can only refuse a receipt and are one nondeterministic refusal.         *)
(***************************************************************************)
EXTENDS Integers, SequencesExt

CONSTANTS
  FreshCalls,     \* calls of triggerFresh
  ExplicitCalls,  \* calls of triggerNow
  SkipWindow,     \* age up to which a receipt is fresh
  MaxClock,       \* bound: the monotonic clock
  MaxGeneration,  \* bound: connection generations
  MaxCaptures     \* bound: the timer begins no capture above it

ASSUME SchedulerAssumption ==
  /\ FreshCalls \cap ExplicitCalls = {}
  /\ "periodic" \notin FreshCalls \cup ExplicitCalls
  /\ SkipWindow \in Nat
  /\ MaxClock \in Nat
  /\ MaxGeneration \in Nat
  /\ MaxCaptures \in Nat

Calls == FreshCalls \cup ExplicitCalls

CallStatuses == {"new", "waiting", "running", "answered", "noReport",
                 "busy", "stopping", "noAccount"}

TickSteps == {"idle", "skipProof", "skipDecide", "start", "fetch", "publish",
              "receiptProof", "receiptDecide"}

VARIABLES
  tick,      \* the tick in flight: #running, #inflight and its locals
  waiting,   \* triggerFresh calls that await #inflight, in order
  settled,   \* the calls whose awaited promise is over and that resume next
  call,      \* per call: its status, the captures begun when it was made, its report
  receipt,   \* #receipt
  stop,      \* stop(): not called, awaiting #inflight, returned
  row,       \* the latest reconciliation_runs row of the account
  holds,     \* the account has active holds
  connected, \* tws.isConnected()
  generation,\* tws.getConnectionGeneration()
  known,     \* lastActiveAccountId is set
  now,       \* the monotonic clock
  captures,  \* history: captures begun by this scheduler
  last       \* history: what became of the last capture begun

sessionVars == <<connected, generation, known>>
vars == <<tick, waiting, settled, call, receipt, stop, row, holds, sessionVars, now,
          captures, last>>

Ticks == [step : TickSteps, caller : Calls \cup {"periodic"}, run : Nat,
          started : 0..MaxClock, gen : 0..MaxGeneration, fetchGen : 0..MaxGeneration,
          complete : BOOLEAN, proof : 0..MaxGeneration]

CallStates == [status : CallStatuses, asked : Nat, report : Nat]
Receipts == [run : Nat, started : 0..MaxClock, gen : 0..MaxGeneration]
Rows == [run : Nat, clean : BOOLEAN, gen : 0..MaxGeneration]
Outcomes == [clean : BOOLEAN, started : 0..MaxClock, unbroken : BOOLEAN]

IdleTick == [step |-> "idle", caller |-> "periodic", run |-> 0, started |-> 0,
             gen |-> 0, fetchGen |-> 0, complete |-> FALSE, proof |-> 0]

NoReceipt == [run |-> 0, started |-> 0, gen |-> 0]

NoRow == [run |-> 0, clean |-> FALSE, gen |-> 0]

Init ==
  /\ tick = IdleTick
  /\ waiting = <<>> /\ settled = <<>>
  /\ call = [c \in Calls |-> [status |-> "new", asked |-> 0, report |-> 0]]
  /\ receipt = NoReceipt
  /\ stop = "no"
  /\ row = NoRow
  /\ holds = FALSE
  /\ connected = FALSE /\ generation = 0 /\ known = FALSE
  /\ now = 0
  /\ captures = 0
  /\ last = [clean |-> FALSE, started |-> 0, unbroken |-> FALSE]

-----------------------------------------------------------------------------
(* Beginning a tick *)

Idle == tick.step = "idle"

Stopping == stop # "no"

(* Why #tick returns null before it does anything, for an idle scheduler.  *)
Refusal == IF Stopping THEN "stopping" ELSE "noAccount"

Admitted == ~Stopping /\ known

(* currentContext() is null: the receipt goes with the account.            *)
ForgetReceipt == receipt' = IF Stopping \/ known THEN receipt ELSE NoReceipt

(* The connected session is still the one of the given generation.         *)
IdentityMatches(g) == connected /\ known /\ generation = g

ReceiptFresh(r) == now - r.started <= SkipWindow

(* The capture of a tick begins: runOnce is called.                        *)
BeginCapture(c) ==
  /\ tick' = [IdleTick EXCEPT !.step = "start", !.caller = c, !.run = captures + 1,
                              !.started = now, !.gen = generation]
  /\ receipt' = NoReceipt
  /\ captures' = captures + 1
  /\ last' = [clean |-> FALSE, started |-> now, unbroken |-> connected]

(* A periodic tick with a receipt asks for the proof of it first.          *)
BeginPeriodic ==
  IF receipt # NoReceipt /\ ReceiptFresh(receipt) /\ IdentityMatches(receipt.gen)
    THEN /\ tick' = [IdleTick EXCEPT !.step = "skipProof"]
         /\ UNCHANGED <<receipt, captures, last>>
    ELSE BeginCapture("periodic")

(* The timer fires; timers wait until the promise jobs have run.           *)
PeriodicTick ==
  /\ settled = <<>>
  /\ Idle /\ ~Stopping
  /\ captures < MaxCaptures
  /\ IF known THEN BeginPeriodic
              ELSE ForgetReceipt /\ UNCHANGED <<tick, captures, last>>
  /\ UNCHANGED <<waiting, settled, call, stop, row, holds, sessionVars, now>>

Ask(c, s) == call' = [call EXCEPT ![c].status = s, ![c].asked = captures]

(* A call that reaches #tick while no tick is in flight.                   *)
TickNow(c) ==
  IF Admitted
    THEN BeginCapture(c) /\ Ask(c, "running")
    ELSE /\ Ask(c, Refusal) /\ ForgetReceipt
         /\ UNCHANGED <<tick, captures, last>>

(* triggerNow: an overlapping tick is dropped.                             *)
TriggerNow(c) ==
  /\ call[c].status = "new"
  /\ \/ Idle /\ TickNow(c)
     \/ /\ ~Idle
        /\ Ask(c, "busy")
        /\ UNCHANGED <<tick, receipt, captures, last>>
  /\ UNCHANGED <<waiting, settled, stop, row, holds, sessionVars, now>>

(* triggerFresh: the capture in flight is awaited, never joined.           *)
TriggerFresh(c) ==
  /\ call[c].status = "new"
  /\ \/ /\ Idle /\ TickNow(c)
        /\ UNCHANGED waiting
     \/ /\ ~Idle
        /\ Ask(c, "waiting")
        /\ waiting' = Append(waiting, c)
        /\ UNCHANGED <<tick, receipt, captures, last>>
  /\ UNCHANGED <<settled, stop, row, holds, sessionVars, now>>

(* The calls cs get a status in the step that resumes them.                *)
Mark(cs, s) == [c \in Calls |-> IF c \in cs THEN [call[c] EXCEPT !.status = s] ELSE call[c]]

(* A call that finds a tick in flight when it resumes awaits that one.     *)
AwaitAgain(s) == waiting' = waiting \o s /\ UNCHANGED call

(* Mutation of ResumeWaiters: only the first waiter is resumed.            *)
ResumeFirstWaiter ==
  /\ settled # <<>> /\ settled' = <<>>
  /\ IF Idle /\ Admitted
       THEN BeginCapture(Head(settled)) /\ call' = Mark({Head(settled)}, "running")
       ELSE UNCHANGED <<tick, receipt, captures, last, call>>
  /\ UNCHANGED <<waiting, stop, row, holds, sessionVars, now>>

(* The awaited promise has settled: its waiters resume one after the other *)
(* in one go.  The first begins its capture and the others await that one; *)
(* or all of them await the one that began in between, or are refused.     *)
ResumeWaiters ==
  /\ settled # <<>> /\ settled' = <<>>
  /\ \/ /\ ~Idle
        /\ AwaitAgain(settled)
        /\ UNCHANGED <<tick, receipt, captures, last>>
     \/ /\ Idle /\ Admitted
        /\ BeginCapture(Head(settled))
        /\ call' = Mark({Head(settled)}, "running")
        /\ waiting' = Tail(settled)
     \/ /\ Idle /\ ~Admitted /\ ForgetReceipt
        /\ call' = Mark(ToSet(settled), Refusal)
        /\ UNCHANGED <<tick, waiting, captures, last>>
  /\ UNCHANGED <<stop, row, holds, sessionVars, now>>

-----------------------------------------------------------------------------
(* The tick in flight *)

(* The report r, 0 for null, reaches the calls cs.                         *)
Answer(cs, r) ==
  [c \in Calls |->
     IF c \in cs THEN [call[c] EXCEPT !.status = IF r = 0 THEN "noReport" ELSE "answered",
                                      !.report = r]
                 ELSE call[c]]

StopReturns == stop' = IF stop = "awaiting" THEN "returned" ELSE stop

(* Mutation of Finish: the waiters take the report they waited for.        *)
FinishForAll(r) ==
  /\ tick' = IdleTick
  /\ waiting' = <<>> /\ settled' = <<>>
  /\ StopReturns
  /\ call' = Answer({tick.caller} \cup ToSet(waiting), r)

(* The finally block and the settling of the promise: the caller has its   *)
(* report, the waiters are due, and a stop() that waited returns.          *)
Finish(r) ==
  /\ tick' = IdleTick
  /\ settled' = waiting /\ waiting' = <<>>
  /\ StopReturns
  /\ call' = Answer({tick.caller}, r)

At(s) == settled = <<>> /\ tick.step = s

Goto(s) == tick' = [tick EXCEPT !.step = s]

Outside == UNCHANGED <<row, holds, sessionVars, now>>

InFlight == UNCHANGED <<waiting, settled, call, stop>>

(* readPeriodicProof reads the latest row and the holds: the row must be   *)
(* that run's, clean and complete.  Anything else it asks may refuse.      *)
Proves(r) == row.run = r /\ row.clean /\ ~holds

ReadProof ==
  /\ \/ /\ At("skipProof")
        /\ tick' \in {[tick EXCEPT !.step = "skipDecide", !.proof = p] :
                        p \in {0} \cup (IF Proves(receipt.run) THEN {row.gen} ELSE {})}
     \/ /\ At("receiptProof")
        /\ tick' \in {[tick EXCEPT !.step = "receiptDecide", !.proof = p] :
                        p \in {0} \cup (IF Proves(tick.run) THEN {row.gen} ELSE {})}
  /\ InFlight /\ Outside
  /\ UNCHANGED <<receipt, captures, last>>

(* The proof is back: its generation is the connection's now.              *)
ProofHolds(g) == tick.proof # 0 /\ tick.proof = generation /\ generation = g

(* Mutation of MaySkip: the identity and the age are not asked again.      *)
MaySkipOnProof == tick.proof # 0 /\ tick.proof = receipt.gen

MaySkip ==
  /\ ProofHolds(receipt.gen)
  /\ ReceiptFresh(receipt)
  /\ IdentityMatches(receipt.gen)

(* Mutation of DecideSkip: a stop during the proof is not seen.            *)
DecideSkipUnstopped ==
  /\ At("skipDecide")
  /\ \/ MaySkip /\ Finish(0) /\ UNCHANGED <<receipt, captures, last>>
     \/ ~MaySkip /\ BeginCapture("periodic") /\ InFlight
  /\ Outside

DecideSkip ==
  /\ At("skipDecide")
  /\ \/ (MaySkip \/ Stopping) /\ Finish(0) /\ UNCHANGED <<receipt, captures, last>>
     \/ ~MaySkip /\ ~Stopping /\ BeginCapture("periodic") /\ InFlight
  /\ Outside

(* The run inserts its RUNNING row, and the capture notes the generation   *)
(* of the connection it reads from.                                        *)
StartFetch ==
  /\ At("start")
  /\ tick' = [tick EXCEPT !.step = "fetch", !.fetchGen = generation]
  /\ row' = [run |-> tick.run, clean |-> FALSE, gen |-> generation]
  /\ InFlight
  /\ UNCHANGED <<receipt, holds, sessionVars, now, captures, last>>

(* The account's lock is another process's, or the database fails.         *)
RunYieldsNothing ==
  /\ At("start") \/ At("fetch") \/ At("publish")
  /\ Finish(0)
  /\ Outside
  /\ UNCHANGED <<receipt, captures, last>>

(* What was read is complete only if the connection lasted to the end.     *)
FetchEnds ==
  /\ At("fetch")
  /\ \E complete \in {FALSE, connected /\ generation = tick.fetchGen} :
       tick' = [tick EXCEPT !.step = "publish", !.complete = complete]
  /\ InFlight /\ Outside
  /\ UNCHANGED <<receipt, captures, last>>

(* The run's row gets its final status.  A clean report of a complete      *)
(* capture over an unchanged session asks for a receipt.                   *)
Publish ==
  /\ At("publish")
  /\ \E clean \in {FALSE, tick.complete} :
       /\ row' = [run |-> tick.run, clean |-> clean, gen |-> tick.fetchGen]
       /\ last' = [last EXCEPT !.clean = clean]
       /\ IF clean /\ IdentityMatches(tick.gen)
            THEN Goto("receiptProof") /\ InFlight
            ELSE Finish(tick.run)
  /\ UNCHANGED <<receipt, captures, holds, sessionVars, now>>

DecideReceipt ==
  /\ At("receiptDecide")
  /\ receipt' =
       IF ProofHolds(tick.gen) /\ ReceiptFresh(tick) /\ IdentityMatches(tick.gen)
         THEN [run |-> tick.run, started |-> tick.started, gen |-> tick.gen]
         ELSE receipt
  /\ Finish(tick.run)
  /\ Outside
  /\ UNCHANGED <<captures, last>>

-----------------------------------------------------------------------------
(* stop(), and the world around the scheduler *)

(* Mutation of StopCalled: stop() does not wait for the run in flight.     *)
StopAtOnce ==
  /\ stop = "no"
  /\ stop' = "returned"
  /\ UNCHANGED <<tick, waiting, settled, call, receipt, row, holds, sessionVars, now,
                 captures, last>>

StopCalled ==
  /\ stop = "no"
  /\ stop' = IF Idle THEN "returned" ELSE "awaiting"
  /\ UNCHANGED <<tick, waiting, settled, call, receipt, row, holds, sessionVars, now,
                 captures, last>>

SchedulerUnchanged ==
  /\ settled = <<>>
  /\ UNCHANGED <<tick, waiting, settled, call, receipt, stop, captures>>

(* Another process reconciles the account while this one is not at it.     *)
ForeignRun ==
  /\ tick.step \notin {"fetch", "publish"}
  /\ row' = NoRow
  /\ UNCHANGED <<holds, sessionVars, now, last>>
  /\ SchedulerUnchanged

HoldChanges ==
  /\ holds' = ~holds
  /\ UNCHANGED <<row, sessionVars, now, last>>
  /\ SchedulerUnchanged

TimePasses ==
  /\ now < MaxClock
  /\ now' = now + 1
  /\ UNCHANGED <<row, holds, sessionVars, last>>
  /\ SchedulerUnchanged

(* Connecting and disconnecting each open a generation.                    *)
ConnectionChanges ==
  /\ generation < MaxGeneration
  /\ generation' = generation + 1
  /\ connected' = ~connected
  /\ last' = [last EXCEPT !.unbroken = FALSE]
  /\ UNCHANGED <<row, holds, known, now>>
  /\ SchedulerUnchanged

(* ensureBrokerSession confirms the account of the connection or refuses a *)
(* wrong one.                                                              *)
AccountChanges ==
  /\ connected
  /\ known' = ~known
  /\ UNCHANGED <<row, holds, connected, generation, now, last>>
  /\ SchedulerUnchanged

TickProceeds ==
  \/ ReadProof \/ DecideSkip \/ StartFetch \/ RunYieldsNothing \/ FetchEnds \/ Publish
  \/ DecideReceipt

Next ==
  \/ PeriodicTick
  \/ \E c \in ExplicitCalls : TriggerNow(c)
  \/ \E c \in FreshCalls : TriggerFresh(c)
  \/ ResumeWaiters
  \/ TickProceeds
  \/ StopCalled
  \/ ForeignRun \/ HoldChanges \/ TimePasses \/ ConnectionChanges \/ AccountChanges

Spec == Init /\ [][Next]_vars

-----------------------------------------------------------------------------
(* Properties *)

(* Every variable keeps its type, only a tick in flight has waiters, and a *)
(* triggerFresh call is never dropped as an overlapping tick: it gets null *)
(* only from a stopped scheduler, without an account, or from its own run. *)
TypeOK ==
  /\ tick \in Ticks /\ receipt \in Receipts /\ row \in Rows /\ last \in Outcomes
  /\ waiting \in Seq(FreshCalls) /\ settled \in Seq(FreshCalls)
  /\ call \in [Calls -> CallStates]
  /\ stop \in {"no", "awaiting", "returned"}
  /\ holds \in BOOLEAN /\ connected \in BOOLEAN /\ known \in BOOLEAN
  /\ generation \in 0..MaxGeneration /\ now \in 0..MaxClock /\ captures \in Nat
  /\ tick.run <= captures /\ receipt.run <= captures /\ row.run <= captures
  /\ \A c \in Calls : call[c].asked <= captures /\ call[c].report <= captures
  /\ Idle => waiting = <<>>
  /\ \A c \in FreshCalls : call[c].status # "busy"

(* The report a triggerFresh call gets is of a capture that began after    *)
(* the call, however many calls wait and whoever slips in between: "Await  *)
(* the old capture rather than treating its completion as a new            *)
(* observation" (scheduler.ts).                                            *)
FreshReportIsFresh ==
  \A c \in FreshCalls : call[c].status = "answered" => call[c].report > call[c].asked

(* A periodic tick is skipped only when the last capture begun was clean   *)
(* and complete, is no older than the window, and the connection it read   *)
(* has been up without a break since it began.                             *)
SkipIsCovered ==
  [][tick.step = "skipDecide" /\ Idle' /\ ~Stopping =>
       /\ last.clean /\ last.unbroken
       /\ connected /\ known
       /\ now - last.started <= SkipWindow]_vars

(* From the moment stop() is called no capture begins, not even from a     *)
(* tick that was already validating its receipt or from a queued call.     *)
NoCaptureAfterStop == [][Stopping => captures' = captures]_vars

(* When stop() has returned no tick is in flight: the pools behind it may  *)
(* be closed.                                                              *)
StopDrains == stop = "returned" => Idle

(* Nobody is left behind: a call that waits is in the queue of a promise   *)
(* that is open or of one that just settled, and a stop() that waits has a *)
(* tick to wait for, whatever ended the ticks before.                      *)
NobodyIsForgotten ==
  /\ TypeOK
  /\ \A c \in Calls :
       /\ call[c].status = "waiting" => c \in ToSet(waiting \o settled)
       /\ call[c].status = "running" => ~Idle /\ tick.caller = c
  /\ stop = "awaiting" => ~Idle
=============================================================================
