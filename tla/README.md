# Verification of ikbr-trader

TLA+ specifications, TLC models and TLAPS proofs for the trading system in this
repository. The system turns strategy signals into orders at Interactive Brokers
(TWS) and must not send an order twice, must not open a position it cannot see,
and must find every order again after a crash. The part that decides this is the
**execution engine** (`apps/execution-engine`; `EE/` below stands for
`src/apps/execution-engine/src/`); its client, the trading loop of the signal engine, the
research agent beside it and the readers of the ingestion service are modelled too.

## Inventory

| Component | State it keeps | Operations | Interacts through |
|---|---|---|---|
| Submission service (`EE/reconciliation/submission-service.ts`, `EE/repository.ts`) | `proposed_orders` (status, marker `execution_attempted_at`, `broker_order_id`), `broker_order_links`, `broker_order_ref_map` | `submitTicket`, `executeProposed`, `rejectPendingProposal`, `tryStartSubmissionWithPlan`, `markSubmitted`, `markFilled` | HTTP, Postgres, TWS client |
| TWS client (`EE/tws-execution-client.ts`) | `nextOrderId`, connection generation, listeners | `connect`, `prepareBrokerPlan`, `dispatchPlan`, status / execution listeners | TWS socket, callbacks |
| Broker callbacks (`EE/index.ts`) | none of its own | order status, execution details | row writes, snapshot invalidation, refresh |
| Position snapshot (`EE/repository.ts`, `EE/refresh-coordinator.ts`) | `broker_snapshot_syncs` (session, complete, generation), positions; in memory: health, desired generation, invalidation version, loop in flight; in `EE/index.ts` the copy of the health that `/ready` reads | begin / complete / invalidate, `refresh`, `markInvalidated` | exposure guard of the INSERT and the claim, `/ready` |
| Reconciliation (`EE/reconciliation/*`) | `reconciliation_runs`, `_holds`, `_broker_order_observations` | run (RUNNING, capture, reconcile, publish), gate, operator `LINK_TO_BROKER_ORDER` / `CONFIRMED_NOT_SUBMITTED` / `KEEP_BLOCKED` | rows, links, gate of the INSERT and the claim |
| Reconciliation scheduler (`scheduler.ts`) | in-flight run, last receipt | tick, `triggerNow`, `triggerFresh` | runner |
| Completed-orders client | a child process per request | `load` | capture |
| Position lifecycle (`EE/lifecycle`) | ownership rows, close operations and their markers, observer state | close, cancel, observe | rows, TWS client, captures |
| Lifecycle alerts (`EE/lifecycle/lifecycle-alerts.ts`) | faults, outbox rows, delivery attempts, workers | record, resolve and coalesce, claim, send, complete | observer, watchdog, message transport |
| Entry control, paper budget, AI review, research guard | attempts, reviews, entry controls | reserve, review, permit | policy checks of submission |
| Accounting (`EE/accounting`) | source ownership, leases, recovery records | collect, own, recover | readiness, permits |
| Signal engine trading loop | tick state, idempotency keys | tick, submit, reconcile-read | HTTP to the execution engine |
| LLM agent workers, research store | claimed reviews; attempts, calls, snapshots, recovery challenges | claim, review, expire; claim, call, fence, publish, recover | HTTP, Postgres, news provider |
| Ingestion: readers (`apps/ingestion/src/auto-bootstrap.ts`, `read-recovery-session.ts`, `publication-fence.ts`) | durable stop; generation, flight, probe, fence of the writes | tick, start, stop, shutdown, invalidate, drain, bootstrap | TWS, Postgres, Redis |
| Ingestion: session schedules (`session-schedule-refresh.ts`, `db.ts`) | row with generation and status; invalidation version | ensure, invalidate, begin, finish | TWS, Postgres; readers of candles |
| Ingestion: backfill, aggregation, final bars | candles | aggregate, confirm, write | TWS, Postgres |
| Shared pipeline, backtest, UI, paper verification stack | pure functions, offline simulation, presentation | | |

What is hard here: several HTTP requests for the same order or instrument; a send
whose outcome is unknown; a crash between the claim, the send and the mark;
callbacks that are started without being awaited and so apply in any order, or find
no row yet; a position snapshot that is fetched slowly while fills arrive; a
reconciliation run that reads the broker, then the database, then writes both, with
requests and callbacks in between. The list, line by line, is `hazards` in
`PROJECT.json`.

Correctness of each component:

* **Submission**: at most one send per order; whatever is at the broker is named by a
  persisted plan; one live order per instrument; statuses agree with the broker.
* **Snapshot**: no trusted flat snapshot once a filled row has given up its intent;
  the coordinator is not healthy over an untrusted snapshot, and what `/ready` says is
  behind it by one running refresh at most; a refresh that was asked for happens.
* **Reconciliation**: a run closes only rows whose order is dead, attributes the
  broker's orders to the right rows, and lifts a hold only with its row.
* **Scheduler**: one run at a time; a fresh request is never answered by an older run.
* **Lifecycle**: a close sells once, and never what a leg may sell again; it is complete only
  when the account is flat; no alert is lost, and a coalesced one was never sent.
* **Entry admission**: what was granted at the claim still holds at the send, pauses,
  midnight, late agents and other entries notwithstanding.
* **Trading loop**: a trigger trades once, however often it is evaluated; stop means stop.
* **Research**: one call to the provider at a time; late results never replace newer ones;
  no attempt closes the ledger for ever.
* **Ingestion**: market data is written by the readers that are current; what was read
  across a break is not certified; the operator's stop lasts; readers and schedules come back.
* **Accounting**: one owner.

## Modules

```
OrderLedger                      what submission promises
   ^ implements (TLC and TLAPS)
Submission  <---- EXTENDS ---- Reconciliation            ExposureFence
   ^                              ^                          ^
MCSubmission                   MCReconciliation          MCExposureFence
Submission_proof               Reconciliation_proof      ExposureFence_proof

ReconScheduler  (which runs take place, and when)  <---- MCReconScheduler, ReconScheduler_proof
FullClose       (the close of one owned bracket)   <---- MCFullClose, FullClose_proof

EntryAdmission  AlertOutbox  TradingLoop  ResearchAttempts  ReadRecovery  SessionSchedule
      ^              ^            ^              ^               ^               ^
      +--------------+-------- INSTANCE: MCServices -------------+---------------+
                                     ^ EXTENDS
EntryAdmission_proof --INSTANCE--> MCServices_proof <--INSTANCE-- TradingLoop_proof
```

How they fit: `TradingLoop` is the client whose requests `Submission` handles;
`EntryAdmission` is what an entry must be granted before and while `Submission` sends
it; `ReconScheduler` decides when the runs of `Reconciliation` take place, whose captures
`FullClose` and `EntryAdmission` rest on; `ExposureFence` guards the INSERT and the claim;
`ReadRecovery` is what `TradingLoop` reads its prices from, and every invalidation of it is
one of `SessionSchedule`.
A module that depends on another has it as a step that may refuse.

### Submission
One action per await-delimited step of a request, and one per callback and broker
move. An order is its client order id (a unique index), so it also names its row.

| Definition | Code |
|---|---|
| `SubmitTicket`, `ExecuteProposed` | the lookups of `submitTicket` and `executeProposed` |
| `InsertProposed` | the INSERT transaction with its active-intent check; a unique violation resumes the existing row without classifying it again |
| `Prepare` | `prepareBrokerPlan`: the id comes from memory, nothing is written |
| `Claim` | `tryStartSubmissionWithPlan`: the guarded UPDATE and the plan, one transaction |
| `RefuseBeforeClaim`, `DenyDispatch` | every early return before and after the claim |
| `Send` | the synchronous `placeOrder` loop inside the entry permit |
| `Acknowledge` | `onOrderStatus` of the waiting promise, and the emission of the callbacks |
| `MarkSubmitted`, `MarkFilled`, `DispatchUnknown` | the three ends of `runDispatch` |
| `ApplyBrokerStatus`, `ApplyExecution` | `applyBrokerStatusUpdate`, `upsertBrokerExecutionFill` |
| `Crash`, `Restart` | process death; `connect` with `nextValidId` |

Abstracted: a bracket is its parent leg (all legs are claimed in one transaction and
written in one loop); checks that can only refuse are a nondeterministic refusal of
their phase; a callback that finds no row with its broker id is dropped, as in the
code. `BrokerReject` has no status event, as for IB error codes.

### OrderLedger
The promise: `absent -> intent -> committed -> sent -> closed`, or withdrawn before the
commit; one open order per instrument. `Submission!Stage` is the refinement mapping:
a claimed row without a send is *committed*, its marker and the history of sends decide
the rest.

### ExposureFence
The generation fence. A broker event is a task (invalidate, mark in memory, write the
row, ask for a refresh), the refresh loop is another process, and `EntryAllowed` is the
exposure guard together with the active-intent check and the reconciliation gate. One
account and instrument; position size is "some or none"; snapshot age, which can only
refuse, is left out. Reconciliation appears with its two effects on this state: rows
that become FILLED, and the position-mismatch hold. `CaptureOrders` restarts the
execution task of a fill that was missed, because the requested executions pass the same
listener. There are two healths. `health` is the coordinator's own, in flight from the start
of a loop; `published` is `snapshotHealthByAccount`, which `/ready` and the summary read. A
mark closes both (`Marked`); a loop that starts leaves `published` alone, and whoever awaits
the loop copies the health when it is over, in jobs of the same turn of the event loop, so
`LoopEnds` writes both.

### Reconciliation
Extends Submission with the run, the gate, the holds and the operator. The gate guards
the two transactions that ask it (INSERT and claim). The run has the code's three
moments: the capture, the reading of the ambiguous rows, the publication, each an action
of its own. A row is matched by its own order's reference or by the broker id its plan
persisted, whoever's order the broker has under that id (`Matches`). Because the
completed-order source answers for the current state only, a run with ambiguous rows is
never recovery-complete: unmatched rows get `recovery_source_missing`, and
`LINK_TO_BROKER_ORDER`, which wants the observations of a complete run, is possible only
for a hold whose row is no longer ambiguous. The operator who confirms "not submitted"
is assumed to see the broker as it is at that moment. Not modelled: orders of other
owners, cash classification, external-order approvals, the age of the last run (it can
only refuse).

### ReconScheduler
One action per event of `scheduler.ts`: the timer, `triggerNow`, `triggerFresh`, `stop`,
and the steps of the tick in flight between its awaits. `#running` and `#inflight` are set
and cleared together and are one variable, `tick`. `waiting` are the calls that await
`#inflight`, in the order of their promise reactions. When the tick ends they move to
`settled`: until their jobs run (`ResumeWaiters`) no timer and no I/O can come in between,
but another call can, from a job that was queued earlier. The jobs of one promise run in
one go. The run itself is reduced to what the scheduler sees of it: no report, an unclean
report or a clean one, the last only if the connection of the capture lasted to its end.
A skipped tick is decided from the receipt, the proof that `readPeriodicProof` reads from
the database and the identity after it; connection, account, holds, time and runs of
another process change freely in between. The wall clock, the age of the acquisition and
the accounting evidence can only refuse the proof and are one nondeterministic refusal.

### FullClose
The close of one owned position (`EE/lifecycle/close-service.ts`, `close-repository.ts`,
`close-evidence.ts`, `ownership.ts`) with the observer that reconciles it. The bracket is
PARENT, TP and SL of one share. The request cancels the legs that still work, one after
the other, each under a committed marker, waits for the confirmations, captures again, and
claims and sends one SELL. A capture reads positions, open orders and executions at three
different moments; a fill invalidates the position snapshot; a terminal is evidence only
for the connection that confirmed it (`Confirmed`). Evidence that completes the close early
is evaluated again by the transaction that observes it (`CompleteEarly`, `ObserveRequest`).
With `TimerRuns` the scheduler's timer starts runs as well as those who ask. A reconnect and a new process are the
same to this state. What can only refuse (the age of evidence, quotes, gates) is
`RequestFails`, possible at every step. Not modelled: the automatic close before the end of
the session, the watchdog of the protection and the terminal round-trip proof.

### EntryAdmission
Who may open a position, and when (`EE/repository.ts`, `paper-entry-budget.ts`,
`ai-proposal-review.ts`, `entry-control.ts`, `bound-review-*.ts` of the LLM agent). A
proposal is inserted, claimed and finalized by an agent, delivered, claimed by the engine
and sent; each transaction holds the account's advisory lock and is one action. In between
reviews and leases age, the operator pauses or rejects, midnight passes, other entries
fill, close or lose their observation. The three policies differ by `Cap`, `Beside` and
`Alone`. The send is inside the permit's transaction (`withEntryDispatchPermit`), so the
checks and the send are one action too.

### AlertOutbox
The fault BROKER_STATE_STALE, its outbox row and the workers (`EE/lifecycle/lifecycle-alerts.ts`).
A proof that the account is flat is the connection generation it was read for; `gen` moves
on, and after a commit under a proof `CheckAgain` is owed, as `isCurrent` is called once more
after the commit. The text of a message, the transport's retries inside one send and the
other fault codes, which never carry the policy, are left out.

### TradingLoop
Cycles, runs, requests (`trading-loop-service.ts`, `execution-runtime.ts`, `submitter.ts` of
the signal engine). Both runtimes are modelled: the legacy cycle has an await between its
start and its runs, the configured one rotates its first instrument. `wire` holds the
requests the engine has not received: a run may time out, and its process may die, before
its request arrives. The engine is reduced to what Submission shows of it: one row per
client order id, one live intent per instrument. `passed` is a history of cycles that each
began with every run at its end.

### ResearchAttempts
The ledger of the paid news provider for one issuer (`instrument-research/store.ts`,
`research-refresh.ts`). One action per transaction and per step between two of them; an
attempt's deadline, the margin behind it and the boot of the host are its `clock` and
`domain`. Recovery is automatic when the margin is over on the clock of the same boot, or an
operator's: a challenge names the predecessors it found and holds the ledger until it is
committed or replaced. The process that is taken to be dead may still be running.

### ReadRecovery
The recovery of the market data readers (`apps/ingestion/src`: `auto-bootstrap.ts`,
`read-recovery-session.ts`, `publication-fence.ts`, their wiring in `index.ts` and
`connect`, `probe`, `disconnect` of `tws-client.ts`). The process is one record, `proc`, and
the synchronous methods are functions on it: `Invalidated`, `Launched`, `Failed`,
`Certified`. The flight of a bootstrap has one stage per await, each followed by
`assertCurrent` (`Await`). Generations are only compared with the present one, so each
piece of work has a bit: is it still of this generation. Every action that asks
`continuous()` first notices a jump of the clock (`Checked`), as the method does; `gap` is
the jump nobody has noticed yet. A drain that a second invalidation overtakes may end without
it (`Overtaken`), since the code awaits the invalidations it found; the flight then fails. In
`EvidenceIsUnbroken` a market event is admitted when it enters the fence; a write that
was admitted and waits there is dropped or done later, which `RetiredReadsAreGone` is about. Operator calls queue in `controls` and have a step for the
durable flag, the end of the flight, and the end of the writes. The preparation of history
may fail and is otherwise left out.

### SessionSchedule
The evidence of one instrument's schedule (`session-schedule-refresh.ts` and the two UPDATEs
of `db.ts`). The refresh has one action per await; the chain of invalidations has its own
and reaches the row between any two of them. `until` names the invalidation whose promise is
awaited. A query that fails may have been applied. `of` and `persisted` are histories: the
invalidation the evidence is newer than, and the last that reached the row.

### MCServices
The six services above share no variable, and each has the others as steps that may
refuse. A behaviour of MCServices is one of a single service, chosen by `part`; the state
spaces add up instead of multiplying and one run checks all six.

## Runs

| Run | Bounds | What it shows |
|---|---|---|
| `submission` | 2 orders of one instrument, 2 requests, 3 broker ids, 1 crash | all safety properties, and that the machinery implements the ledger |
| `fence` | 1 order, failing calls, lost events, partial fills, runs, 2 processes, 1 loop iteration | the fence under faults, reconciliation and a restart, and that neither health is healthy over what it must not hide |
| `fence_refresh` | 8 iterations (the real limit), no faults, fairness | the loop converges |
| `recon` | 2 orders of one instrument, 1 request, 2 broker ids, 3 runs, 1 crash, an operator | runs close and free only what is dead, at most one send, holds last as long as they must |
| `scheduler` | 2 fresh calls, 1 explicit call, timer, stop, 3 generations, one clock step, window 0 | fresh calls get fresh captures and are not dropped, skipped ticks are covered, a stop drains |
| `close` | one bracket, one close, 2 connections | never two SELLs or a short account, complete only when flat, a filled close is noticed |
| `services` | 2 proposals, 2 contracts, 2 agents, 2 days; 2 workers, 2 attempts, 1 episode, 2 generations; 2 instruments, cap 1, 2 triggers, 2 waiting cycles, 1 restart; 2 research attempts, 1 reboot; 2 market events, 2 operator calls, 2 faults; 2 invalidations, 2 troubles | the seventeen properties of the six services |
| `fence_cancel`, `recon_restart`, `recon_hold`, `recon_rejected`, `close_pending` | as small as shows it | the findings below |

Why the bounds are enough to be interesting.

* **submission, recon**: two orders of one instrument and two requests give every race of a
  duplicate, a resume and a competitor; three broker ids leave one for a retry after the
  crash. Three runs are needed, not two: the first opens the gate, the second makes a hold,
  the third lifts it, completes or matches a reused id. `confirmed` is a history of the
  orders an operator declared not submitted: only his word may free an instrument whose
  order is still to be sent.
* **fence**: one entry order suffices because the guards are evaluated in every state as a
  second order would meet them. `MaxGeneration` keeps an idle loop from being restarted for
  ever; it is 2 so that a second refresh can start between the entry and its fill, fetch
  before the fill and write after it: that is the race the generation check of
  `completePositionSnapshotRefresh` exists for. The constraint `PartialFillsAlone` explores a
  partial fill without a run or a restart beside it, and `RunsForProposedRows` lets a run
start only beside a PROPOSED row: a run that the timer starts at another time writes no row,
it compares the positions and asks for the executions again. The theorems have neither
bound. Deadlock is not checked here: an
  instance stops when its order is done and its bounds are used; so in every run but `close`.
* **scheduler**: two fresh calls and an explicit one give a queue with a call that slips in
  before it; three generations let a connection drop and come back while a proof is read,
  and with a window of 0 one clock step lets a receipt age out.
* **close**: one reconnect separates a terminal from the connection that confirmed it, and
  one crash any marker from its write; the broker may cancel or fill every leg at any time.
  Runs start when the request or the observer asks (`TimerRuns = FALSE`), and the observer
  asks at any time, but refreshes the position first; `close_pending` and the theorems have
  the runs of the timer too.
* **types**: the runs `fence`, `scheduler` and `close` check their type invariant as a part of
  `CallbackReleaseIsFenced`, `NobodyIsForgotten` and `WritesAreMarked`, and `recon` checks
  `AtMostOneDispatch` as a part of `OneLiveUnlessConfirmed`.
* **services**: two proposals and two agents give the second entry and the late agent, two
  days one midnight; two workers and two attempts give a lease that is taken over and a
  limit, two generations one proof that goes stale; two instruments under a cap of one
  starve each other if anything does; two attempts are an attempt and its successor, and one
  reboot takes its clock away; two market events give a write behind a write, two operator
  calls a start that races a stop, two faults a failure of the recovery from a failure; two
  invalidations one that is superseded by another. The first proposal trades the first
  contract, since the names of contracts do not matter; services that do not run stand still in one initial state.

**Fairness.**
* `RefreshConverges`: `FairSpec` of ExposureFence gives weak fairness to the started tasks and
  to the loop, each of which continues when the promise it awaits is resolved. It is checked
  without faults, since a failed call ends the loop as `failed` until the next refresh, as
  coded. It is not true for any limit: each callback can spoil two iterations, once by its
  commit and once by its mark in memory, so three callbacks can exhaust six iterations and
  are survived with eight. A fill in two parts with both statuses is four callbacks and could
  exhaust the eight; the coordinator then reports `failed` and the write path stays closed,
  which is the safe side.
* `FilledCloseCompletes`: the callbacks of a fill run, refreshes and captures end, the observer's interval
  keeps firing, and every step of a request ends or throws. Nothing more is assumed of the
  request, which may have died with its acknowledgement.
* `EveryAlertSettles`: a worker's interval keeps firing, every await of its tick ends (the
  transport has a timeout) and time passes. It holds while some process has a transport.
* `EveryAttemptResolves`: the refresh timer of every agent process fires, its awaits end (a
  call is aborted at its deadline) and time passes. An attempt that is older than the boot of
  the host is excepted, because the code refuses to compare the two clocks and leaves it to
  the operator, and so is a ledger that an operator holds.
* `ReadersRecover`: the timer of the controller and the minute timer of the candles fire,
  operator calls are taken up, and probes, fetches and queries settle. Every wait of the code
  has a timeout but those for the database: that a query settles, with or without success, is
  an assumption (a query that hangs leaves the service in `DRAIN_WAITING_STORAGE`, which the
  code reports and does not leave). A process that is stopped, or whose recovery is left to
  its operator, is at rest.

**Symmetry** is used only for the requests, which are interchangeable, and no run with a
liveness property uses it.

## Proofs

Every safety invariant and every action property of the passing runs is a theorem, for
every value of the constants. A proof module extends the module it is about, begins with
the reason why its properties hold, defines the inductive invariant as a conjunction of
named parts, and has a preservation lemma per action with a step per part the action can
disturb. What is assumed of the constants is named in the modules, evaluated by TLC in
every run, and only says what they are: the bounds are natural numbers, every order has an
instrument, the two kinds of calls of the scheduler are disjoint. No set of orders, requests,
proposals, agents or workers is assumed to be finite.

| Module | Assumption | Theorems |
|---|---|---|
| `Submission_proof` | `ConstantsAssumption` | `Invariance`, `TypeCorrect`, `AtMostOnce`, `DispatchPersisted`, `OneLive`, `RowTruth`, `TerminalFinal`, `Refinement` |
| `Reconciliation_proof` | the same and `ReconciliationAssumption` | `ClosedRowsAreDeadHolds`, `OneLiveUnlessConfirmedHolds`, `HoldLiftsWithItsRowHolds` |
| `ExposureFence_proof` | `FenceAssumption` | `ReleaseIsFenced`, `HealthIsTrusted` |
| `ReconScheduler_proof` | `SchedulerAssumption` | `FreshReports`, `NobodyForgotten`, `StopHasDrained`, `NoneAfterStop`, `SkipsAreCovered` |
| `FullClose_proof` | `ConnectionsAssumption` | `NeverOversoldHolds`, `CompletedIsFlatHolds`, `WritesAreMarkedHolds`, `ParentFirstHolds` |
| `EntryAdmission_proof` | `AdmissionAssumption`, a hypothesis | the invariant of the module, for `MCServices_proof` |
| `TradingLoop_proof` | `LoopAssumption`, a hypothesis | the invariant of the module, for `MCServices_proof` |
| `MCServices_proof` | `ServicesAssumption`, which implies those two | `TypesHold` and the thirteen properties of the six services |

**Submission.** No property is inductive alone. *At most one send* needs to know that a
claimed row has one claiming request (`DistinctInv`) and that a request past its claim owns
the row: it is still PROPOSED and carries no broker id, so no callback can match it
(`RequestInv`). *Persisted dispatch* and *row truth* need broker ids to be fresh: the
counter is above every id the broker has seen (`CounterInv`), two requests never hold the
same id (`DistinctInv`), and a row's id belongs to its own order (`RowInv`, `BrokerInv`). A
callback in flight reports a state that its order never leaves (`EventInv`). *One live
order* is the active-intent check (`IntentInv`) plus the fact that a live order's row is
active (`LiveOrderIsActive`). `Refinement` is `Spec => Ledger!Spec`, by one lemma per kind
of step (`LedgerMoves`, `LedgerStutters`, `CallbackMoves`).

**Reconciliation.** The main fact of Submission's proof is false here: a run writes rows
whose request still waits, and a row may carry the id of another order's plan (finding 2).
What remains goes through the plan, which is written once: what a row says of its outcome,
the broker has said of the id its plan names, for good (`RowInv`), and an id at the broker is
the plan of the order that was sent with it, once (`BrokerInv`). `RunInv` is about what a
run holds from its capture to its publication: the broker has only moved on since, and the
transitions it is about to write are those of claimed rows whose plan's id ended so. A late
acknowledgement can reopen a row whose order is over, and an operator can give one up;
`IntentInv` says that of the orders for which neither is so an instrument has one, and one
PROPOSED row. `HoldInv` and `ObservedInv` tie holds and observations to claimed rows and to
rows that were not ambiguous.

**ExposureFence.** An invalidation leaves every refresh under way behind (`GenerationInv`),
so only positions fetched after it can complete the snapshot, and those show what was
invalidated for (`TaskInv`). A task past its invalidation has therefore fenced its order
(`FencedInv`), which the part of `Fenced` about the refresh that is about to write makes
inductive, and what it releases stays fenced (`ReleaseInv`). `HealthInv` is the same in
memory: a loop that is about to report healthy has seen the snapshot there is, or the version
has moved since or is about to. `PublishedInv` carries it to `/ready`: while it says healthy
a loop runs or the coordinator is healthy too, and the stored positions show every order that
a callback has reported (`Reported`), because a mark closes `published` before the callback
goes on to its row, and a loop that ends healthy has read a snapshot that fences it.

**ReconScheduler.** A tick carries at most one call, made before its capture began
(`CallerInv`), and a call that waits is in a queue (`QueueInv`): however ticks end, nobody
is forgotten and a report is fresh (`ReportInv`). For the skip, a receipt is for the last
capture begun, and says that its connection is unbroken exactly as long as the generation
has not moved (`CaptureInv`, `ReceiptInv`).

**FullClose.** Orders only move forward, so what a capture saw is out of date in one
direction: a leg it does not list as working will not work again, and a fill it lists stays
(`CaptureInv`, `RunInv`, `LegInv`). When the SELL is claimed, the entry is filled and the
exits are gone for good (`SubmittedInv`), whenever it is sent. `MarkerInv` counts writes
against markers, `CompletedInv` carries the flat account past the completion.

**EntryAdmission.** What was sent was charged and is never un-charged (`ChargeInv`), so the
sends of a day are among its charges, which the claim keeps within the budget
(`BudgetInv`, with the cardinality lemmas of the library). A charged row is no longer
`Untouched`, which is what every late agent, expiry and rejection asks for. A claim that is
under way found every other attempt over (`ClaimInv`): that carries the claim's checks to
the send under policy 1, whose send does not repeat them.

**TradingLoop.** A trigger trades once because its request is named after it (`WireInv`) and
the engine's row of that name outlives loop and process (`OrderInv`). That the cap starves
nobody is a count: an instrument was passed at most as often as the start index has moved
since it stood there (`RotationInv`), and an idle loop starts the instrument it stands at.
The cap is the pigeonhole principle: the instruments a cycle starts have different places
below the room there is.

**The services put together.** A behaviour of MCServices, seen through the variables of one
service, is a behaviour of that service (`AdmissionImplemented` and its five companions): a
step of another part leaves them alone. The first two services take their invariants from
the proof modules above; the other four are proved in `MCServices_proof`.

* *ResearchAttempts*: attempts are claimed in order and only the latest is unresolved
  (`AttemptOrderInv`, `LatestInv`); the attempt of a process at work is its own and stays
  unresolved until its margin is over (`RefreshInv`, `DistinctInv`), which is when a recovery
  may end it, so no two processes wait for an answer; what a challenge names can be decided
  by nothing else (`HeldInv`); the head is an attempt's (`HeadInv`), so a late finalizer is
  recognised by the order of attempts.
* *AlertOutbox*: a row has a lease exactly while it is SENDING (`LeaseInv`), a fault and its
  row come together (`EpisodeInv`), and what was sent together with what is being sent never
  exceeds the attempts (`SentInv`): a row that is coalesced unattempted was never sent, not
  even by a worker that lost its lease and is still sending.
* *SessionSchedule*: a refresh whose generation the row still has is newer than every
  invalidation the row has seen (`FetchInv`); `AwaitInv` says which one it waited for.
  `VersionInv` counts invalidations against calls and troubles, which is the bound of the type.
* *ReadRecovery*: `SafeReaders` is stated of the process record, since the methods are
  functions on it: what was revoked or stopped is neither connected nor being opened
  (`Quiet`), what is open has no write of a predecessor on its way (`Clean`), and readings
  are unbroken but for a gap that the next look at the clock notices. `OperatorInv` follows a
  stop from the flag in memory to the durable one. Each method has a lemma, each action
  cites those of the methods it calls.

**Only model-checked.** Liveness, which is out of the proof system's reach:
`RefreshConverges`, `FilledCloseCompletes`, `EveryAlertSettles`, `EveryAttemptResolves`,
`ReadersRecover`. `RefreshConverges` could not be a theorem in this form anyway: it
needs eight iterations against three callbacks and is false for fewer. The runs of the
findings are counterexamples and have nothing to prove.

## Findings

1. **Cancellation after a partial fill** (`fence_cancel`). The status callback does not
   invalidate for CANCELLED; the row stops being an active intent while the flat snapshot
   is still trusted, if it overtakes the execution callback.
2. **A reused broker id resolves the wrong row** (`recon_restart`). A claimed and unsent
   plan keeps its id, the broker hands it out again, and the runner matches by it.
3. **A hold on a known submission** (`recon_hold`). A run that overlaps an ordinary
   dispatch inserts `recovery_source_missing` for a row that `markSubmitted` resolves;
   the hold stays until an operator acts.
4. **REJECTED (and FILLED) rows are reopened** (`recon_rejected`). `markSubmitted`
   updates by id alone and overwrites what a run published in the meantime. This is why
   `TerminalRowsStay` is claimed of Submission alone and not of Reconciliation.

5. **A close of an unfilled entry may never complete** (`close_pending`). When the broker
   cancels the children with their parent, no terminal is recorded for them, and
   `canComplete` asks for one of every leg; the plan of the close says their absence is
   enough.

Also seen while reading, and not claimed by a run: a callback that arrives before the
row has its broker id is lost, and a SUBMITTED row is not recovered by any run, so it may
stay SUBMITTED after its order ended. `publishResult` makes a row FILLED under a trusted flat
snapshot, against the comment of `invalidatePositionSnapshot`
(`ReconciliationReleaseIsFenced` in ExposureFence states what would have to hold). A refresh
that no invalidation preceded (a confirmed session, the summary, the refresh endpoint, a close) makes
the snapshot incomplete when it begins, while `/ready` goes on to say healthy until it ends,
against the comment at `index.ts:1338-1342` ("so a stale / in-flight / failed refresh flips
`/ready` to 503"); the write path is closed all the same, and `HealthyMeansTrusted` says what
is left.

## Plan

Done: submission and its proof, the fence, reconciliation, the scheduler, the full close,
the six services, and the proofs of every safety invariant and action property of the
passing runs. Left, the most consequential first:

1. Proofs: what each of the other components promises as a small specification of its own,
   in the way of OrderLedger, with the refinement proved by the invariants there are; and the
   engine as TradingLoop sees it (one row per name, one live intent per instrument) as a
   coarser ledger that OrderLedger and TradingLoop both implement.
2. `AccountingOwner`: the lease of the accounting source and its recovery handover.
3. `CandlePublication` of ingestion: the bar a minute ends with, its confirmation by the broker
   and the flush of a stop, beside ReadRecovery.
4. `PositionSupervision`: the watchdog of the protection and the automatic close before the
   end of the session, composed with FullClose.
5. The calendar ledger of the research store, as a second instance of ResearchAttempts.

The project keeps to a dozen runs: a component added later shares a run with the one it
is composed with, as the services do.

## Not modelled

* Strategies, indicators, regime detection, backtests and the risk arithmetic: floating-point
  numerics without concurrency.
* The change of a paper policy, which the code admits only for a flat and paused account, and
  the session of the engine for which a review is good: both can only refuse an entry.
* Accounting source, owner and clock recovery, session recovery: planned above.
* Completed-orders client: a process per request with a timeout; Reconciliation has its
  result, which may be missing.
* Of ingestion the backfill and its arithmetic, the aggregation of candles, request pacing,
  final bars and the flush of buffered candles after a stop.
* The shared pipeline (pure functions), UI, diagnostics, HTTP, configuration.
