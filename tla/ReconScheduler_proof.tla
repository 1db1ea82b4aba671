------------------------ MODULE ReconScheduler_proof ------------------------
(***************************************************************************)
(* Proofs about ReconScheduler for any calls, any skip window and any      *)
(* bounds on the clock, the generations and the timer's captures.          *)
(*                                                                         *)
(* A tick carries at most one call, which was made before the tick's       *)
(* capture began (CallerInv), and a call that waits is in a queue          *)
(* (QueueInv): so a report is fresh and nobody is forgotten, whichever way *)
(* the ticks end.  That a skip is covered needs what a receipt remembers   *)
(* of the capture it is for (ReceiptInv) and, while that capture runs,     *)
(* what its generation says of the connection (CaptureInv): the history    *)
(* variable says unbroken exactly as long as the generation has not moved. *)
(***************************************************************************)
EXTENDS ReconScheduler, SequenceTheorems, TLAPS

CaptureSteps == {"start", "fetch", "publish", "receiptProof", "receiptDecide"}

(* The call whose report the tick will be was made before its capture; the *)
(* proof for a skip is read for no call.                                   *)
CallerInv ==
  /\ tick.step \notin CaptureSteps => tick.caller = "periodic"
  /\ tick.caller # "periodic" =>
       call[tick.caller].status = "running" /\ call[tick.caller].asked < tick.run
  /\ \A c \in Calls : call[c].status = "running" => tick.caller = c

QueueInv ==
  \A c \in Calls : call[c].status = "waiting" => c \in ToSet(waiting) \cup ToSet(settled)

(* A report is of a capture that began after its call, for every call.     *)
ReportInv ==
  \A c \in Calls : call[c].status = "answered" => call[c].asked < call[c].report

StopInv ==
  /\ stop = "awaiting" => ~Idle
  /\ stop = "returned" => Idle

(* While a capture runs there is no receipt, and as long as the generation *)
(* is the one it began in, the connection is as it was when it began.      *)
CaptureInv ==
  tick.step \in CaptureSteps =>
    /\ receipt = NoReceipt
    /\ last.started = tick.started
    /\ tick.gen <= generation
    /\ generation = tick.gen => last.unbroken = connected
    /\ tick.step \in {"receiptProof", "receiptDecide"} => last.clean

(* A receipt is for the last capture begun.                                *)
ReceiptInv ==
  receipt # NoReceipt =>
    /\ last.clean
    /\ last.started = receipt.started
    /\ receipt.gen <= generation
    /\ generation = receipt.gen => last.unbroken

(* The inductive invariant.                                                *)
CallInv == CallerInv /\ QueueInv /\ ReportInv /\ StopInv
SessionInv == CaptureInv /\ ReceiptInv
Inv == TypeOK /\ CallInv /\ SessionInv

-----------------------------------------------------------------------------
(* Sequences as sets of calls *)

LEMMA SetOfEmpty == ToSet(<<>>) = {}
BY DEF ToSet

LEMMA SetOfConcat ==
  ASSUME NEW S, NEW s \in Seq(S), NEW t \in Seq(S)
  PROVE  /\ s \o t \in Seq(S)
         /\ ToSet(s \o t) = ToSet(s) \cup ToSet(t)
<1>1. /\ s \o t \in Seq(S) /\ Len(s \o t) = Len(s) + Len(t)
      /\ \A i \in 1..(Len(s) + Len(t)) :
           (s \o t)[i] = IF i <= Len(s) THEN s[i] ELSE t[i - Len(s)]
  BY ConcatProperties
<1>2. /\ DOMAIN s = 1..Len(s) /\ Len(s) \in Nat
      /\ DOMAIN t = 1..Len(t) /\ Len(t) \in Nat
      /\ DOMAIN (s \o t) = 1..(Len(s) + Len(t))
  BY <1>1, LenProperties
<1>3. ToSet(s \o t) \subseteq ToSet(s) \cup ToSet(t)
  BY <1>1, <1>2 DEF ToSet
<1>4. ASSUME NEW i \in 1..Len(s)
      PROVE  s[i] \in ToSet(s \o t)
  <2>1. i \in 1..(Len(s) + Len(t)) /\ (s \o t)[i] = s[i]
    BY <1>1, <1>2
  <2>. QED  BY <1>2, <2>1 DEF ToSet
<1>5. ASSUME NEW i \in 1..Len(t)
      PROVE  t[i] \in ToSet(s \o t)
  <2>1. i + Len(s) \in 1..(Len(s) + Len(t)) /\ (s \o t)[i + Len(s)] = t[i]
    BY <1>1, <1>2
  <2>. QED  BY <1>2, <2>1 DEF ToSet
<1>6. ToSet(s) \subseteq ToSet(s \o t) /\ ToSet(t) \subseteq ToSet(s \o t)
  BY <1>2, <1>4, <1>5 DEF ToSet
<1>. QED  BY <1>1, <1>3, <1>6

LEMMA SetOfAppend ==
  ASSUME NEW S, NEW s \in Seq(S), NEW e \in S
  PROVE  /\ Append(s, e) \in Seq(S)
         /\ ToSet(Append(s, e)) = ToSet(s) \cup {e}
<1>. DEFINE t == <<e>>
<1>1. Append(s, e) = s \o t /\ t \in Seq(S) /\ ToSet(t) = {e}
  BY AppendIsConcat DEF ToSet
<1>. HIDE DEF t
<1>2. s \o t \in Seq(S) /\ ToSet(s \o t) = ToSet(s) \cup ToSet(t)
  BY <1>1, SetOfConcat
<1>. QED  BY <1>1, <1>2

LEMMA SetOfTail ==
  ASSUME NEW S, NEW s \in Seq(S), s # <<>>
  PROVE  /\ Head(s) \in S /\ Tail(s) \in Seq(S)
         /\ ToSet(s) = {Head(s)} \cup ToSet(Tail(s))
<1>. DEFINE h == <<Head(s)>>
            t == Tail(s)
<1>1. /\ Head(s) \in S /\ t \in Seq(S)
      /\ s = h \o t /\ h \in Seq(S)
  BY HeadTailProperties
<1>2. ToSet(h) = {Head(s)}
  BY DEF ToSet
<1>. HIDE DEF h, t
<1>3. ToSet(h \o t) = ToSet(h) \cup ToSet(t)
  BY <1>1, SetOfConcat
<1>4. ToSet(s) = {Head(s)} \cup ToSet(t)
  BY <1>1, <1>2, <1>3
<1>. QED  BY <1>1, <1>4 DEF t

LEMMA SetOfSeq ==
  ASSUME NEW S, NEW s \in Seq(S)
  PROVE  ToSet(s) \subseteq S
BY ElementOfSeq, LenProperties DEF ToSet

-----------------------------------------------------------------------------
(* How ticks begin, go on and end *)

LEMMA Constants ==
  /\ IdleTick \in Ticks /\ NoReceipt \in Receipts /\ NoRow \in Rows
  /\ "periodic" \notin Calls
  /\ 0 \in 0..MaxClock /\ 0 \in 0..MaxGeneration
<1>1. 0 \in 0..MaxClock /\ 0 \in 0..MaxGeneration
  BY SchedulerAssumption
<1>2. "periodic" \notin Calls
  BY SchedulerAssumption DEF Calls
<1>3. IdleTick \in Ticks
  BY <1>1 DEF IdleTick, Ticks, TickSteps
<1>. QED  BY <1>1, <1>2, <1>3 DEF NoReceipt, Receipts, NoRow, Rows

LEMMA BeginsCapture ==
  ASSUME Inv, NEW c \in Calls \cup {"periodic"}, BeginCapture(c)
  PROVE  /\ tick' \in Ticks /\ receipt' \in Receipts /\ last' \in Outcomes
         /\ captures' \in Nat /\ captures' = captures + 1
         /\ tick'.run = captures' /\ receipt'.run <= captures'
         /\ tick'.step = "start" /\ tick'.caller = c
         /\ UNCHANGED <<connected, generation>> => SessionInv'
<1>1. /\ generation \in 0..MaxGeneration /\ now \in 0..MaxClock
      /\ connected \in BOOLEAN /\ captures \in Nat
  BY DEF Inv, TypeOK
<1>2. tick' = [step |-> "start", caller |-> c, run |-> captures + 1, started |-> now,
               gen |-> generation, fetchGen |-> 0, complete |-> FALSE, proof |-> 0]
  BY DEF BeginCapture, IdleTick
<1>3. tick' \in Ticks
  BY <1>1, <1>2, Constants DEF Ticks, TickSteps
<1>4. last' \in Outcomes /\ last'.started = now /\ last'.unbroken = connected
  BY <1>1 DEF BeginCapture, Outcomes
<1>5. receipt' = NoReceipt /\ NoReceipt.run = 0 /\ captures' = captures + 1
  BY DEF BeginCapture, NoReceipt
<1>6. UNCHANGED <<connected, generation>> => SessionInv'
  BY <1>1, <1>2, <1>4, <1>5 DEF SessionInv, CaptureInv, ReceiptInv
<1>. QED  BY <1>1, <1>2, <1>3, <1>4, <1>5, <1>6, Constants

(* The receipt is kept or forgotten.                                       *)
LEMMA ReceiptForgotten ==
  ASSUME Inv, receipt' = receipt \/ receipt' = NoReceipt
  PROVE  receipt' \in Receipts /\ receipt'.run <= captures
         /\ (UNCHANGED <<connected, generation, last>> => ReceiptInv')
         /\ (UNCHANGED <<connected, generation, last, tick>> => SessionInv')
<1>1. receipt' \in Receipts /\ receipt'.run <= captures
  BY Constants DEF Inv, TypeOK, NoReceipt
<1>. QED  BY <1>1 DEF Inv, SessionInv, CaptureInv, ReceiptInv

(* The tick is over: its call has its report, its waiters are due.         *)
LEMMA Finishes ==
  ASSUME Inv, NEW r \in {0, tick.run}, Finish(r), settled = <<>>,
         tick.step \in CaptureSteps \/ r = 0,
         UNCHANGED captures
  PROVE  /\ tick' \in Ticks /\ tick'.run <= captures
         /\ waiting' \in Seq(FreshCalls) /\ settled' \in Seq(FreshCalls)
         /\ call' \in [Calls -> CallStates]
         /\ \A c \in Calls : call'[c].asked <= captures /\ call'[c].report <= captures
         /\ stop' \in {"no", "awaiting", "returned"}
         /\ Idle' /\ waiting' = <<>>
         /\ \A c \in FreshCalls : call'[c].status # "busy"
         /\ CallInv'
         /\ tick'.step \notin CaptureSteps
<1>1. /\ tick' = IdleTick /\ settled' = waiting /\ waiting' = <<>>
      /\ stop' = IF stop = "awaiting" THEN "returned" ELSE stop
  BY DEF Finish, StopReturns
<1>2. IdleTick.run = 0 /\ IdleTick.step = "idle" /\ IdleTick.caller = "periodic"
  BY DEF IdleTick
<1>3. /\ waiting' \in Seq(FreshCalls) /\ settled' \in Seq(FreshCalls)
      /\ stop' \in {"no", "awaiting", "returned"}
  BY <1>1, EmptySeq DEF Inv, TypeOK
<1>4. \A c \in Calls : call'[c] =
        IF c = tick.caller
        THEN [call[c] EXCEPT !.status = IF r = 0 THEN "noReport" ELSE "answered", !.report = r]
        ELSE call[c]
  BY DEF Finish, Answer
<1>5. r \in Nat /\ r <= captures /\ captures \in Nat
  BY DEF Inv, TypeOK, Ticks
<1>6. ASSUME NEW c \in Calls
      PROVE  /\ call'[c] \in CallStates /\ call'[c].asked = call[c].asked
             /\ call'[c].report <= captures
             /\ call'[c].status = IF c = tick.caller
                                  THEN IF r = 0 THEN "noReport" ELSE "answered"
                                  ELSE call[c].status
             /\ call'[c].report = IF c = tick.caller THEN r ELSE call[c].report
  <2>1. call[c] \in CallStates /\ call[c].report <= captures
    BY DEF Inv, TypeOK
  <2>2. CASE c = tick.caller
    <3>1. /\ call'[c] = [call[c] EXCEPT !.status = IF r = 0 THEN "noReport" ELSE "answered",
                                        !.report = r]
      BY <1>4, <2>2
    <3>2. CASE r = 0
      BY <1>5, <2>1, <2>2, <3>1, <3>2 DEF CallStates, CallStatuses
    <3>3. CASE r # 0
      BY <1>5, <2>1, <2>2, <3>1, <3>3 DEF CallStates, CallStatuses
    <3>. QED  BY <3>2, <3>3
  <2>3. CASE c # tick.caller
    BY <1>4, <2>1, <2>3
  <2>. QED  BY <2>2, <2>3
<1>7. call' \in [Calls -> CallStates]
  <2>1. call' = [c \in Calls |-> call'[c]]
    BY DEF Finish, Answer
  <2>. QED  BY <1>6, <2>1
<1>8. \A c \in Calls : call'[c].asked <= captures /\ call'[c].report <= captures
  BY <1>6 DEF Inv, TypeOK
<1>9. \A c \in FreshCalls : call'[c].status # "busy"
  BY <1>6 DEF Inv, TypeOK, Calls
<1>10. CallerInv'
  <2>1. \A c \in Calls : call'[c].status # "running"
    BY <1>6 DEF Inv, CallInv, CallerInv
  <2>. QED  BY <1>1, <1>2, <2>1 DEF CallerInv
<1>11. QueueInv'
  BY <1>1, <1>6, SetOfEmpty DEF Inv, CallInv, QueueInv
<1>12. ReportInv'
  <2> SUFFICES ASSUME NEW c \in Calls, call'[c].status = "answered"
               PROVE  call'[c].asked < call'[c].report
    BY DEF ReportInv
  <2>1. CASE c = tick.caller
    <3>1. call'[c].report = r /\ r # 0 /\ call'[c].asked = call[c].asked
      BY <1>6, <2>1
    <3>2. c # "periodic"
      BY Constants
    <3>. QED  BY <2>1, <3>1, <3>2 DEF Inv, CallInv, CallerInv
  <2>2. CASE c # tick.caller
    BY <1>6, <2>2 DEF Inv, CallInv, ReportInv
  <2>. QED  BY <2>1, <2>2
<1>13. StopInv' /\ Idle'
  BY <1>1, <1>2 DEF Inv, CallInv, StopInv, TypeOK, Idle
<1>. QED  BY <1>1, <1>2, <1>3, <1>5, <1>7, <1>8, <1>9, <1>10, <1>11, <1>12, <1>13, Constants
          DEF CallInv, CaptureSteps

(* A tick that goes on: for its call and the queues nothing changes.       *)
LEMMA TickGoesOn ==
  ASSUME Inv, InFlight, UNCHANGED captures,
         tick' \in Ticks, tick'.run = tick.run, tick'.caller = tick.caller,
         ~Idle, tick'.step # "idle",
         tick.caller # "periodic" => tick'.step \in CaptureSteps
  PROVE  /\ waiting' \in Seq(FreshCalls) /\ settled' \in Seq(FreshCalls)
         /\ call' \in [Calls -> CallStates]
         /\ \A c \in Calls : call'[c].asked <= captures' /\ call'[c].report <= captures'
         /\ stop' \in {"no", "awaiting", "returned"}
         /\ captures' \in Nat /\ tick'.run <= captures'
         /\ ~Idle'
         /\ \A c \in FreshCalls : call'[c].status # "busy"
         /\ CallInv'
<1>1. UNCHANGED <<waiting, settled, call, stop>>
  BY DEF InFlight
<1>2. /\ waiting' \in Seq(FreshCalls) /\ settled' \in Seq(FreshCalls)
      /\ call' \in [Calls -> CallStates]
      /\ \A c \in Calls : call'[c].asked <= captures' /\ call'[c].report <= captures'
      /\ stop' \in {"no", "awaiting", "returned"}
      /\ captures' \in Nat /\ tick'.run <= captures'
      /\ \A c \in FreshCalls : call'[c].status # "busy"
  BY <1>1 DEF Inv, TypeOK
<1>3. ~Idle'
  BY DEF Idle
<1>4. CallerInv' /\ QueueInv' /\ ReportInv' /\ StopInv'
  BY <1>1, <1>3 DEF Inv, CallInv, CallerInv, QueueInv, ReportInv, StopInv
<1>. QED  BY <1>2, <1>3, <1>4 DEF CallInv

(* A call that finds the scheduler idle.                                   *)
LEMMA TickNowKeeps ==
  ASSUME Inv, Idle, NEW c \in Calls, call[c].status = "new", TickNow(c),
         UNCHANGED <<waiting, settled, stop, row, holds, sessionVars, now>>
  PROVE  Inv'
<1>1. UNCHANGED <<connected, generation, known>>
  BY DEF sessionVars
<1>2. /\ tick.caller = "periodic" /\ c # "periodic"
      /\ \A d \in Calls : call[d].status # "running"
  BY Constants DEF Inv, CallInv, CallerInv, Idle, CaptureSteps
<1>3. ASSUME NEW s \in CallStatuses, Ask(c, s)
      PROVE  /\ call' \in [Calls -> CallStates]
             /\ call'[c].status = s /\ call'[c].asked = captures
             /\ call'[c].report = call[c].report
             /\ \A d \in Calls \ {c} : call'[d] = call[d]
  BY <1>3 DEF Inv, TypeOK, Ask, CallStates
<1>4. CASE Admitted /\ BeginCapture(c) /\ Ask(c, "running")
  <2>1. /\ tick' \in Ticks /\ receipt' \in Receipts /\ last' \in Outcomes
        /\ captures' \in Nat /\ captures' = captures + 1
        /\ tick'.run = captures' /\ receipt'.run <= captures'
        /\ tick'.step = "start" /\ tick'.caller = c
        /\ SessionInv'
    BY <1>1, <1>4, BeginsCapture
  <2>2. /\ call' \in [Calls -> CallStates]
        /\ call'[c].status = "running" /\ call'[c].asked = captures
        /\ call'[c].report = call[c].report
        /\ \A d \in Calls \ {c} : call'[d] = call[d]
    BY <1>3, <1>4 DEF CallStatuses
  <2>3. captures \in Nat /\ captures' \in Nat /\ captures < captures'
        /\ \A d \in Calls : call[d].asked \in Nat /\ call[d].report \in Nat
    BY <2>1 DEF Inv, TypeOK, CallStates
  <2>4. /\ tick'.run <= captures' /\ row'.run <= captures'
        /\ \A d \in Calls : call'[d].asked <= captures' /\ call'[d].report <= captures'
    BY <2>1, <2>2, <2>3 DEF Inv, TypeOK, Rows
  <2>5. ~Idle' /\ \A d \in FreshCalls : call'[d].status # "busy"
    BY <2>1, <2>2 DEF Idle, Inv, TypeOK, Calls
  <2>6. TypeOK'
    BY <1>1, <2>1, <2>2, <2>4, <2>5 DEF Inv, TypeOK
  <2>7. CallerInv'
    BY <1>2, <2>1, <2>2, <2>3 DEF CallerInv, CaptureSteps
  <2>8. QueueInv' /\ ReportInv'
    BY <2>2 DEF Inv, CallInv, QueueInv, ReportInv
  <2>9. StopInv'
    BY <1>4, <2>5 DEF Inv, CallInv, StopInv, Admitted, Stopping
  <2>. QED  BY <2>1, <2>6, <2>7, <2>8, <2>9 DEF Inv, CallInv
<1>5. CASE Ask(c, Refusal) /\ ForgetReceipt /\ UNCHANGED <<tick, captures, last>>
  <2>1. receipt' = receipt \/ receipt' = NoReceipt
    BY <1>5 DEF ForgetReceipt
  <2>2. receipt' \in Receipts /\ receipt'.run <= captures /\ SessionInv'
    BY <1>1, <1>5, <2>1, ReceiptForgotten
  <2>3. /\ call' \in [Calls -> CallStates]
        /\ call'[c].status = Refusal /\ call'[c].asked = captures
        /\ call'[c].report = call[c].report
        /\ \A d \in Calls \ {c} : call'[d] = call[d]
    BY <1>3, <1>5 DEF CallStatuses, Refusal
  <2>4. Refusal \in {"stopping", "noAccount"}
    BY DEF Refusal
  <2>5. captures \in Nat
        /\ \A d \in Calls : call'[d].asked <= captures /\ call'[d].report <= captures
    BY <2>3 DEF Inv, TypeOK
  <2>6. \A d \in FreshCalls : call'[d].status # "busy"
    BY <2>3, <2>4 DEF Inv, TypeOK, Calls
  <2>7. TypeOK'
    BY <1>1, <1>5, <2>2, <2>3, <2>5, <2>6 DEF Inv, TypeOK, Idle
  <2>8. CallInv'
    BY <1>2, <1>5, <2>3, <2>4
       DEF Inv, CallInv, CallerInv, QueueInv, ReportInv, StopInv, Idle
  <2>. QED  BY <2>2, <2>7, <2>8 DEF Inv
<1>. QED  BY <1>4, <1>5 DEF TickNow

(* A call that finds a tick in flight: dropped, or queued behind it.       *)
LEMMA CallDuringTick ==
  ASSUME Inv, ~Idle, NEW c \in Calls, call[c].status = "new", NEW s \in {"busy", "waiting"},
         Ask(c, s), s = "busy" => c \notin FreshCalls,
         waiting' \in Seq(FreshCalls), ToSet(waiting) \subseteq ToSet(waiting'),
         s = "waiting" => c \in ToSet(waiting'),
         UNCHANGED <<tick, receipt, captures, last, settled, stop, row, holds, sessionVars, now>>
  PROVE  Inv'
<1>1. /\ call' \in [Calls -> CallStates]
      /\ call'[c].status = s /\ call'[c].asked = captures
      /\ call'[c].report = call[c].report
      /\ \A d \in Calls \ {c} : call'[d] = call[d]
  BY DEF Inv, TypeOK, Ask, CallStates, CallStatuses
<1>2. captures \in Nat
      /\ \A d \in Calls : call'[d].asked <= captures /\ call'[d].report <= captures
  BY <1>1 DEF Inv, TypeOK
<1>3. \A d \in FreshCalls : call'[d].status # "busy"
  BY <1>1 DEF Inv, TypeOK, Calls
<1>4. TypeOK'
  BY <1>1, <1>2, <1>3 DEF Inv, TypeOK, Idle, sessionVars
<1>5. CallerInv' /\ ReportInv' /\ StopInv'
  <2>1. tick.caller # c /\ tick.caller \in Calls \cup {"periodic"} /\ c # "periodic"
    BY Constants DEF Inv, TypeOK, Ticks, CallInv, CallerInv
  <2>2. CallerInv'
    BY <1>1, <2>1 DEF Inv, CallInv, CallerInv
  <2>3. ReportInv'
    BY <1>1 DEF Inv, CallInv, ReportInv
  <2>4. StopInv'
    BY DEF Inv, CallInv, StopInv, Idle
  <2>. QED  BY <2>2, <2>3, <2>4
<1>6. QueueInv'
  BY <1>1 DEF Inv, CallInv, QueueInv
<1>7. SessionInv'
  BY DEF Inv, SessionInv, CaptureInv, ReceiptInv, sessionVars
<1>. QED  BY <1>4, <1>5, <1>6, <1>7 DEF Inv, CallInv

LEMMA TriggerNowKeepsInv ==
  ASSUME Inv, NEW c \in ExplicitCalls, TriggerNow(c)
  PROVE  Inv'
<1>1. c \in Calls /\ c \notin FreshCalls /\ call[c].status = "new"
  BY SchedulerAssumption DEF Calls, TriggerNow
<1>2. CASE Idle /\ TickNow(c)
  BY <1>1, <1>2, TickNowKeeps DEF TriggerNow
<1>3. CASE ~Idle /\ Ask(c, "busy") /\ UNCHANGED <<tick, receipt, captures, last>>
  <2>1. UNCHANGED <<waiting, settled, stop, row, holds, sessionVars, now>>
    BY DEF TriggerNow
  <2>2. waiting' \in Seq(FreshCalls)
    BY <2>1 DEF Inv, TypeOK
  <2>. QED  BY <1>1, <1>3, <2>1, <2>2, CallDuringTick
<1>. QED  BY <1>2, <1>3 DEF TriggerNow

LEMMA TriggerFreshKeepsInv ==
  ASSUME Inv, NEW c \in FreshCalls, TriggerFresh(c)
  PROVE  Inv'
<1>1. c \in Calls /\ call[c].status = "new"
  BY DEF Calls, TriggerFresh
<1>2. UNCHANGED <<settled, stop, row, holds, sessionVars, now>>
  BY DEF TriggerFresh
<1>3. CASE Idle /\ TickNow(c) /\ UNCHANGED waiting
  BY <1>1, <1>2, <1>3, TickNowKeeps
<1>4. CASE /\ ~Idle /\ Ask(c, "waiting") /\ waiting' = Append(waiting, c)
           /\ UNCHANGED <<tick, receipt, captures, last>>
  <2>1. waiting \in Seq(FreshCalls)
    BY DEF Inv, TypeOK
  <2>2. waiting' \in Seq(FreshCalls) /\ ToSet(waiting') = ToSet(waiting) \cup {c}
    BY <1>4, <2>1, SetOfAppend
  <2>. QED  BY <1>1, <1>2, <1>4, <2>2, CallDuringTick
<1>. QED  BY <1>3, <1>4 DEF TriggerFresh

(* The timer: a capture, or the proof for a skip, or nothing.              *)
LEMMA PeriodicTickKeepsInv ==
  ASSUME Inv, PeriodicTick
  PROVE  Inv'
<1>1. /\ UNCHANGED <<waiting, settled, call, stop, row, holds, sessionVars, now>>
      /\ UNCHANGED <<connected, generation, known>>
      /\ Idle /\ ~Stopping /\ stop = "no"
  BY DEF PeriodicTick, sessionVars, Stopping
<1>2. tick.caller = "periodic" /\ \A d \in Calls : call[d].status # "running"
  BY <1>1, Constants DEF Inv, CallInv, CallerInv, Idle, CaptureSteps
<1>3. CASE BeginCapture("periodic")
  <2>1. /\ tick' \in Ticks /\ receipt' \in Receipts /\ last' \in Outcomes
        /\ captures' \in Nat /\ captures' = captures + 1
        /\ tick'.run = captures' /\ receipt'.run <= captures'
        /\ tick'.step = "start" /\ tick'.caller = "periodic"
        /\ SessionInv'
    BY <1>1, <1>3, BeginsCapture
  <2>2. /\ tick'.run <= captures' /\ row'.run <= captures'
        /\ \A d \in Calls : call'[d].asked <= captures' /\ call'[d].report <= captures'
    BY <1>1, <2>1 DEF Inv, TypeOK, Rows, CallStates
  <2>3. TypeOK'
    BY <1>1, <2>1, <2>2 DEF Inv, TypeOK, Idle
  <2>4. CallInv'
    BY <1>1, <1>2, <2>1 DEF Inv, CallInv, CallerInv, QueueInv, ReportInv, StopInv, Idle
  <2>. QED  BY <2>1, <2>3, <2>4 DEF Inv
<1>4. CASE tick' = [IdleTick EXCEPT !.step = "skipProof"] /\ UNCHANGED <<receipt, captures, last>>
  <2>1. /\ tick' \in Ticks /\ tick'.run = 0 /\ tick'.step = "skipProof"
        /\ tick'.caller = "periodic"
    BY <1>4, Constants DEF IdleTick, Ticks, TickSteps
  <2>2. TypeOK'
    BY <1>1, <1>4, <2>1 DEF Inv, TypeOK, Idle
  <2>3. CallInv'
    BY <1>1, <1>2, <2>1 DEF Inv, CallInv, CallerInv, QueueInv, ReportInv, StopInv, Idle
  <2>4. SessionInv'
    BY <1>1, <1>4, <2>1 DEF Inv, SessionInv, CaptureInv, ReceiptInv, CaptureSteps
  <2>. QED  BY <2>2, <2>3, <2>4 DEF Inv
<1>5. CASE ForgetReceipt /\ UNCHANGED <<tick, captures, last>>
  <2>1. receipt' = receipt \/ receipt' = NoReceipt
    BY <1>5 DEF ForgetReceipt
  <2>2. receipt' \in Receipts /\ receipt'.run <= captures /\ SessionInv'
    BY <1>1, <1>5, <2>1, ReceiptForgotten
  <2>3. TypeOK'
    BY <1>1, <1>5, <2>2 DEF Inv, TypeOK, Idle
  <2>4. CallInv'
    BY <1>1, <1>5 DEF Inv, CallInv, CallerInv, QueueInv, ReportInv, StopInv, Idle
  <2>. QED  BY <2>2, <2>3, <2>4 DEF Inv
<1>. QED  BY <1>3, <1>4, <1>5 DEF PeriodicTick, BeginPeriodic

(* The waiters of a settled promise: one begins, or all wait again, or all *)
(* are refused; none is dropped between two queues.                        *)
LEMMA ResumeKeepsInv ==
  ASSUME Inv, ResumeWaiters
  PROVE  Inv'
<1>1. /\ UNCHANGED <<stop, row, holds, sessionVars, now>>
      /\ UNCHANGED <<connected, generation, known>>
      /\ settled # <<>> /\ settled' = <<>>
  BY DEF ResumeWaiters, sessionVars
<1>2. /\ waiting \in Seq(FreshCalls) /\ settled \in Seq(FreshCalls)
      /\ settled' \in Seq(FreshCalls) /\ ToSet(settled') = {}
      /\ ToSet(settled) \subseteq FreshCalls
  BY <1>1, EmptySeq, SetOfEmpty, SetOfSeq DEF Inv, TypeOK
<1>3. CASE ~Idle /\ AwaitAgain(settled) /\ UNCHANGED <<tick, receipt, captures, last>>
  <2>1. /\ waiting' \in Seq(FreshCalls) /\ ToSet(waiting') = ToSet(waiting) \cup ToSet(settled)
        /\ call' = call
    BY <1>2, <1>3, SetOfConcat DEF AwaitAgain
  <2>2. TypeOK'
    BY <1>1, <1>2, <1>3, <2>1 DEF Inv, TypeOK, Idle
  <2>3. QueueInv'
    BY <2>1 DEF Inv, CallInv, QueueInv
  <2>4. CallerInv' /\ ReportInv' /\ StopInv'
    BY <1>1, <1>3, <2>1 DEF Inv, CallInv, CallerInv, ReportInv, StopInv, Idle
  <2>5. SessionInv'
    BY <1>1, <1>3 DEF Inv, SessionInv, CaptureInv, ReceiptInv
  <2>. QED  BY <2>2, <2>3, <2>4, <2>5 DEF Inv, CallInv
<1>4. CASE /\ Idle /\ Admitted /\ BeginCapture(Head(settled))
           /\ call' = Mark({Head(settled)}, "running") /\ waiting' = Tail(settled)
  <2>. DEFINE h == Head(settled)
  <2>1. /\ h \in FreshCalls /\ h \in Calls /\ h # "periodic"
        /\ Tail(settled) \in Seq(FreshCalls)
        /\ ToSet(settled) = {h} \cup ToSet(Tail(settled))
        /\ waiting = <<>> /\ ToSet(waiting) = {}
    BY <1>1, <1>2, <1>4, SetOfTail, SetOfEmpty, Constants DEF Inv, TypeOK, Calls
  <2>. HIDE DEF h
  <2>2. BeginCapture(h) /\ call' = Mark({h}, "running")
    BY <1>4 DEF h
  <2>3. /\ tick' \in Ticks /\ receipt' \in Receipts /\ last' \in Outcomes
        /\ captures' \in Nat /\ captures' = captures + 1
        /\ tick'.run = captures' /\ receipt'.run <= captures'
        /\ tick'.step = "start" /\ tick'.caller = h
        /\ SessionInv'
    BY <1>1, <2>1, <2>2, BeginsCapture
  <2>4. /\ call' \in [Calls -> CallStates]
        /\ call'[h].status = "running" /\ call'[h].asked = call[h].asked
        /\ call'[h].report = call[h].report
        /\ \A d \in Calls \ {h} : call'[d] = call[d]
    BY <2>1, <2>2 DEF Inv, TypeOK, Mark, CallStates, CallStatuses
  <2>5. /\ captures \in Nat /\ captures < captures'
        /\ \A d \in Calls : /\ call[d].asked \in Nat /\ call[d].report \in Nat
                            /\ call[d].asked <= captures /\ call[d].report <= captures
    BY <2>3 DEF Inv, TypeOK, CallStates
  <2>6. /\ tick'.run <= captures' /\ row'.run <= captures'
        /\ \A d \in Calls : call'[d].asked <= captures' /\ call'[d].report <= captures'
    BY <1>1, <2>3, <2>4, <2>5 DEF Inv, TypeOK, Rows
  <2>7. ~Idle' /\ \A d \in FreshCalls : call'[d].status # "busy"
    BY <2>3, <2>4 DEF Idle, Inv, TypeOK, Calls
  <2>8. TypeOK'
    BY <1>1, <1>2, <1>4, <2>1, <2>3, <2>4, <2>6, <2>7 DEF Inv, TypeOK
  <2>9. \A d \in Calls : call[d].status # "running"
    BY <1>4, Constants DEF Inv, CallInv, CallerInv, Idle, CaptureSteps
  <2>10. CallerInv'
    BY <2>1, <2>3, <2>4, <2>5, <2>9 DEF CallerInv, CaptureSteps
  <2>11. QueueInv'
    BY <1>4, <2>1, <2>4 DEF Inv, CallInv, QueueInv
  <2>12. ReportInv'
    BY <2>4 DEF Inv, CallInv, ReportInv
  <2>13. StopInv'
    BY <1>1, <1>4, <2>7 DEF Inv, CallInv, StopInv, Admitted, Stopping
  <2>. QED  BY <2>3, <2>8, <2>10, <2>11, <2>12, <2>13 DEF Inv, CallInv
<1>5. CASE /\ Idle /\ ~Admitted /\ ForgetReceipt
           /\ call' = Mark(ToSet(settled), Refusal) /\ UNCHANGED <<tick, waiting, captures, last>>
  <2>1. receipt' = receipt \/ receipt' = NoReceipt
    BY <1>5 DEF ForgetReceipt
  <2>2. receipt' \in Receipts /\ receipt'.run <= captures /\ SessionInv'
    BY <1>1, <1>5, <2>1, ReceiptForgotten
  <2>3. Refusal \in {"stopping", "noAccount"}
    BY DEF Refusal
  <2>4. \A d \in Calls : /\ call'[d] \in CallStates
                         /\ call'[d].status = IF d \in ToSet(settled) THEN Refusal
                                              ELSE call[d].status
                         /\ call'[d].asked = call[d].asked /\ call'[d].report = call[d].report
    BY <1>5, <2>3 DEF Inv, TypeOK, Mark, CallStates, CallStatuses
  <2>5. call' \in [Calls -> CallStates]
    BY <1>5, <2>4 DEF Mark
  <2>6. waiting = <<>> /\ ToSet(waiting) = {}
    BY <1>5, SetOfEmpty DEF Inv, TypeOK
  <2>7. \A d \in FreshCalls : call'[d].status # "busy"
    BY <2>3, <2>4 DEF Inv, TypeOK, Calls
  <2>8. TypeOK'
    BY <1>1, <1>2, <1>5, <2>2, <2>4, <2>5, <2>7 DEF Inv, TypeOK, Idle
  <2>9. tick.caller = "periodic" /\ \A d \in Calls : call[d].status # "running"
    BY <1>5, Constants DEF Inv, CallInv, CallerInv, Idle, CaptureSteps
  <2>10. CallerInv'
    BY <1>5, <2>3, <2>4, <2>9 DEF Inv, CallInv, CallerInv
  <2>11. QueueInv'
    BY <2>3, <2>4, <2>6 DEF Inv, CallInv, QueueInv
  <2>12. ReportInv'
    BY <2>3, <2>4 DEF Inv, CallInv, ReportInv
  <2>13. StopInv'
    BY <1>1, <1>5 DEF Inv, CallInv, StopInv, Idle
  <2>. QED  BY <2>2, <2>8, <2>10, <2>11, <2>12, <2>13 DEF Inv, CallInv
<1>. QED  BY <1>3, <1>4, <1>5 DEF ResumeWaiters

-----------------------------------------------------------------------------
(* The tick in flight *)

(* A tick that ends: what is left to show is the receipt.                  *)
LEMMA TickEnds ==
  ASSUME Inv, NEW r \in {0, tick.run}, Finish(r), settled = <<>>,
         tick.step \in CaptureSteps \/ r = 0,
         UNCHANGED <<captures, sessionVars, holds, now>>,
         receipt' \in Receipts, receipt'.run <= captures,
         row' \in Rows, row'.run <= captures, last' \in Outcomes,
         ReceiptInv'
  PROVE  Inv'
<1>1. UNCHANGED <<connected, generation, known>>
  BY DEF sessionVars
<1>2. /\ tick' \in Ticks /\ tick'.run <= captures
      /\ waiting' \in Seq(FreshCalls) /\ settled' \in Seq(FreshCalls)
      /\ call' \in [Calls -> CallStates]
      /\ \A c \in Calls : call'[c].asked <= captures /\ call'[c].report <= captures
      /\ stop' \in {"no", "awaiting", "returned"}
      /\ Idle' /\ waiting' = <<>>
      /\ \A c \in FreshCalls : call'[c].status # "busy"
      /\ CallInv'
      /\ tick'.step \notin CaptureSteps
  BY Finishes
<1>3. TypeOK'
  BY <1>1, <1>2 DEF Inv, TypeOK
<1>4. SessionInv'
  BY <1>2 DEF SessionInv, CaptureInv
<1>. QED  BY <1>2, <1>3, <1>4 DEF Inv

(* A tick that goes on: what is left to show is what it knows of the       *)
(* session.                                                                *)
LEMMA TickStays ==
  ASSUME Inv, InFlight, UNCHANGED <<captures, sessionVars, holds, now, receipt>>,
         tick' \in Ticks, tick'.run = tick.run, tick'.caller = tick.caller,
         ~Idle, tick'.step # "idle",
         tick.step \notin CaptureSteps \/ tick'.step \in CaptureSteps,
         row' \in Rows, row'.run <= captures, last' \in Outcomes,
         SessionInv'
  PROVE  Inv'
<1>1. UNCHANGED <<connected, generation, known>>
  BY DEF sessionVars
<1>2. tick.caller # "periodic" => tick'.step \in CaptureSteps
  BY DEF Inv, CallInv, CallerInv
<1>3. /\ waiting' \in Seq(FreshCalls) /\ settled' \in Seq(FreshCalls)
      /\ call' \in [Calls -> CallStates]
      /\ \A c \in Calls : call'[c].asked <= captures' /\ call'[c].report <= captures'
      /\ stop' \in {"no", "awaiting", "returned"}
      /\ captures' \in Nat /\ tick'.run <= captures'
      /\ ~Idle'
      /\ \A c \in FreshCalls : call'[c].status # "busy"
      /\ CallInv'
  BY <1>2, TickGoesOn
<1>4. TypeOK'
  BY <1>1, <1>3 DEF Inv, TypeOK
<1>. QED  BY <1>3, <1>4 DEF Inv

LEMMA ReadProofKeepsInv ==
  ASSUME Inv, ReadProof
  PROVE  Inv'
<1>1. /\ InFlight /\ UNCHANGED <<row, holds, sessionVars, now, receipt, captures, last>>
      /\ UNCHANGED <<connected, generation>>
  BY DEF ReadProof, Outside, sessionVars
<1>2. tick \in Ticks /\ row \in Rows /\ row.run <= captures /\ last \in Outcomes
  BY DEF Inv, TypeOK
<1>3. row.gen \in 0..MaxGeneration /\ 0 \in 0..MaxGeneration
  BY <1>2, Constants DEF Rows
<1>4. CASE tick.step = "skipProof"
  <2>1. PICK p \in 0..MaxGeneration : tick' = [tick EXCEPT !.step = "skipDecide", !.proof = p]
    BY <1>3, <1>4 DEF ReadProof, At
  <2>2. /\ tick' \in Ticks /\ tick'.run = tick.run /\ tick'.caller = tick.caller
        /\ tick'.step = "skipDecide"
    BY <1>2, <2>1 DEF Ticks, TickSteps
  <2>3. SessionInv'
    BY <1>1, <2>2 DEF Inv, SessionInv, CaptureInv, ReceiptInv, CaptureSteps
  <2>. QED  BY <1>1, <1>2, <1>4, <2>2, <2>3, TickStays DEF Idle, CaptureSteps
<1>5. CASE tick.step = "receiptProof"
  <2>1. PICK p \in 0..MaxGeneration :
          tick' = [tick EXCEPT !.step = "receiptDecide", !.proof = p]
    BY <1>3, <1>5 DEF ReadProof, At
  <2>2. /\ tick' \in Ticks /\ tick'.run = tick.run /\ tick'.caller = tick.caller
        /\ tick'.step = "receiptDecide" /\ tick'.started = tick.started
        /\ tick'.gen = tick.gen
    BY <1>2, <2>1 DEF Ticks, TickSteps
  <2>3. SessionInv'
    BY <1>1, <1>5, <2>2 DEF Inv, SessionInv, CaptureInv, ReceiptInv, CaptureSteps
  <2>. QED  BY <1>1, <1>2, <1>5, <2>2, <2>3, TickStays DEF Idle, CaptureSteps
<1>. QED  BY <1>4, <1>5 DEF ReadProof, At

LEMMA DecideSkipKeepsInv ==
  ASSUME Inv, DecideSkip
  PROVE  Inv'
<1>1. /\ UNCHANGED <<row, holds, sessionVars, now>>
      /\ UNCHANGED <<connected, generation, known>>
      /\ tick.step = "skipDecide" /\ settled = <<>>
  BY DEF DecideSkip, Outside, sessionVars, At
<1>2. /\ row' \in Rows /\ row'.run <= captures /\ receipt \in Receipts
      /\ receipt.run <= captures /\ last \in Outcomes
  BY <1>1 DEF Inv, TypeOK
<1>3. CASE Finish(0) /\ UNCHANGED <<receipt, captures, last>>
  <2>1. ReceiptInv'
    BY <1>1, <1>3 DEF Inv, SessionInv, ReceiptInv
  <2>. QED  BY <1>1, <1>2, <1>3, <2>1, TickEnds
<1>4. CASE ~Stopping /\ BeginCapture("periodic") /\ InFlight
  <2>1. /\ tick' \in Ticks /\ receipt' \in Receipts /\ last' \in Outcomes
        /\ captures' \in Nat /\ captures' = captures + 1
        /\ tick'.run = captures' /\ receipt'.run <= captures'
        /\ tick'.step = "start" /\ tick'.caller = "periodic"
        /\ SessionInv'
    BY <1>1, <1>4, BeginsCapture
  <2>2. UNCHANGED <<waiting, settled, call, stop>>
    BY <1>4 DEF InFlight
  <2>3. /\ tick'.run <= captures' /\ row'.run <= captures'
        /\ \A d \in Calls : call'[d].asked <= captures' /\ call'[d].report <= captures'
    BY <1>1, <2>1, <2>2 DEF Inv, TypeOK, Rows, CallStates
  <2>4. TypeOK'
    BY <1>1, <2>1, <2>2, <2>3 DEF Inv, TypeOK, Idle
  <2>5. tick.caller = "periodic" /\ \A d \in Calls : call[d].status # "running"
    BY <1>1, Constants DEF Inv, CallInv, CallerInv, CaptureSteps
  <2>6. CallInv'
    BY <1>1, <1>4, <2>1, <2>2, <2>5
       DEF Inv, CallInv, CallerInv, QueueInv, ReportInv, StopInv, Idle
  <2>. QED  BY <2>1, <2>4, <2>6 DEF Inv
<1>. QED  BY <1>3, <1>4 DEF DecideSkip

LEMMA StartFetchKeepsInv ==
  ASSUME Inv, StartFetch
  PROVE  Inv'
<1>1. /\ InFlight /\ UNCHANGED <<receipt, holds, sessionVars, now, captures, last>>
      /\ UNCHANGED <<connected, generation>>
      /\ tick.step = "start"
      /\ tick' = [tick EXCEPT !.step = "fetch", !.fetchGen = generation]
      /\ row' = [run |-> tick.run, clean |-> FALSE, gen |-> generation]
  BY DEF StartFetch, sessionVars, At
<1>2. tick \in Ticks /\ tick.run <= captures /\ last' \in Outcomes
      /\ generation \in 0..MaxGeneration
  BY <1>1 DEF Inv, TypeOK
<1>3. /\ tick' \in Ticks /\ tick'.run = tick.run /\ tick'.caller = tick.caller
      /\ tick'.step = "fetch" /\ tick'.started = tick.started /\ tick'.gen = tick.gen
      /\ row' \in Rows /\ row'.run <= captures
  BY <1>1, <1>2 DEF Ticks, TickSteps, Rows
<1>4. SessionInv'
  BY <1>1, <1>3 DEF Inv, SessionInv, CaptureInv, ReceiptInv, CaptureSteps
<1>. QED  BY <1>1, <1>2, <1>3, <1>4, TickStays DEF Idle, CaptureSteps

LEMMA RunYieldsNothingKeepsInv ==
  ASSUME Inv, RunYieldsNothing
  PROVE  Inv'
<1>1. /\ Finish(0) /\ settled = <<>>
      /\ UNCHANGED <<row, holds, sessionVars, now, receipt, captures, last>>
      /\ UNCHANGED <<connected, generation>>
  BY DEF RunYieldsNothing, Outside, sessionVars, At
<1>2. /\ row' \in Rows /\ row'.run <= captures /\ receipt' \in Receipts
      /\ receipt'.run <= captures /\ last' \in Outcomes /\ ReceiptInv'
  BY <1>1 DEF Inv, TypeOK, SessionInv, ReceiptInv
<1>. QED  BY <1>1, <1>2, TickEnds

LEMMA FetchEndsKeepsInv ==
  ASSUME Inv, FetchEnds
  PROVE  Inv'
<1>1. /\ InFlight /\ UNCHANGED <<row, receipt, holds, sessionVars, now, captures, last>>
      /\ UNCHANGED <<connected, generation>>
      /\ tick.step = "fetch"
  BY DEF FetchEnds, Outside, sessionVars, At
<1>2. tick \in Ticks /\ row' \in Rows /\ row'.run <= captures /\ last' \in Outcomes
  BY <1>1 DEF Inv, TypeOK
<1>3. PICK complete \in BOOLEAN : tick' = [tick EXCEPT !.step = "publish", !.complete = complete]
  <2>1. connected \in BOOLEAN /\ (connected /\ generation = tick.fetchGen) \in BOOLEAN
    BY DEF Inv, TypeOK
  <2>. QED  BY <2>1 DEF FetchEnds
<1>4. /\ tick' \in Ticks /\ tick'.run = tick.run /\ tick'.caller = tick.caller
      /\ tick'.step = "publish" /\ tick'.started = tick.started /\ tick'.gen = tick.gen
  BY <1>2, <1>3 DEF Ticks, TickSteps
<1>5. SessionInv'
  BY <1>1, <1>4 DEF Inv, SessionInv, CaptureInv, ReceiptInv, CaptureSteps
<1>. QED  BY <1>1, <1>2, <1>4, <1>5, TickStays DEF Idle, CaptureSteps

LEMMA PublishKeepsInv ==
  ASSUME Inv, Publish
  PROVE  Inv'
<1>1. /\ tick.step = "publish" /\ settled = <<>>
      /\ UNCHANGED <<receipt, captures, holds, sessionVars, now>>
      /\ UNCHANGED <<connected, generation>>
  BY DEF Publish, sessionVars, At
<1>2. tick \in Ticks /\ tick.run <= captures /\ last \in Outcomes
      /\ receipt' \in Receipts /\ receipt'.run <= captures
      /\ tick.complete \in BOOLEAN /\ tick.fetchGen \in 0..MaxGeneration
  BY <1>1 DEF Inv, TypeOK, Ticks
<1>3. PICK clean \in BOOLEAN :
        /\ row' = [run |-> tick.run, clean |-> clean, gen |-> tick.fetchGen]
        /\ last' = [last EXCEPT !.clean = clean]
        /\ IF clean /\ IdentityMatches(tick.gen)
             THEN Goto("receiptProof") /\ InFlight
             ELSE Finish(tick.run)
  BY <1>2 DEF Publish
<1>4. /\ row' \in Rows /\ row'.run <= captures
      /\ last' \in Outcomes /\ last'.clean = clean /\ last'.started = last.started
      /\ last'.unbroken = last.unbroken
  BY <1>2, <1>3 DEF Rows, Outcomes, Ticks
<1>5. receipt = NoReceipt /\ ReceiptInv'
  BY <1>1 DEF Inv, SessionInv, CaptureInv, ReceiptInv, CaptureSteps
<1>6. CASE clean /\ IdentityMatches(tick.gen)
  <2>1. InFlight /\ tick' = [tick EXCEPT !.step = "receiptProof"]
    BY <1>3, <1>6 DEF Goto
  <2>2. /\ tick' \in Ticks /\ tick'.run = tick.run /\ tick'.caller = tick.caller
        /\ tick'.step = "receiptProof" /\ tick'.started = tick.started
        /\ tick'.gen = tick.gen
    BY <1>2, <2>1 DEF Ticks, TickSteps
  <2>3. CaptureInv'
    BY <1>1, <1>4, <1>5, <1>6, <2>2 DEF Inv, SessionInv, CaptureInv, CaptureSteps
  <2>. QED  BY <1>1, <1>2, <1>4, <1>5, <2>1, <2>2, <2>3, TickStays
            DEF Idle, SessionInv, CaptureSteps
<1>7. CASE ~(clean /\ IdentityMatches(tick.gen))
  <2>1. Finish(tick.run)
    BY <1>3, <1>7
  <2>. QED  BY <1>1, <1>2, <1>4, <1>5, <2>1, TickEnds DEF CaptureSteps
<1>. QED  BY <1>6, <1>7

(* The receipt is for the capture of this tick, over a session that is     *)
(* still the one it began in.                                              *)
LEMMA DecideReceiptKeepsInv ==
  ASSUME Inv, DecideReceipt
  PROVE  Inv'
<1>1. /\ tick.step = "receiptDecide" /\ settled = <<>> /\ Finish(tick.run)
      /\ UNCHANGED <<row, captures, last, holds, sessionVars, now>>
      /\ UNCHANGED <<connected, generation>>
  BY DEF DecideReceipt, Outside, sessionVars, At
<1>2. /\ tick \in Ticks /\ tick.run <= captures /\ last' \in Outcomes
      /\ row' \in Rows /\ row'.run <= captures
      /\ receipt \in Receipts /\ receipt.run <= captures
  BY <1>1 DEF Inv, TypeOK
<1>3. CASE /\ ProofHolds(tick.gen) /\ IdentityMatches(tick.gen)
           /\ receipt' = [run |-> tick.run, started |-> tick.started, gen |-> tick.gen]
  <2>1. receipt' \in Receipts /\ receipt'.run <= captures
    BY <1>2, <1>3 DEF Ticks, Receipts
  <2>2. ReceiptInv'
    BY <1>1, <1>3 DEF Inv, SessionInv, CaptureInv, ReceiptInv, CaptureSteps, IdentityMatches
  <2>. QED  BY <1>1, <1>2, <2>1, <2>2, TickEnds DEF CaptureSteps
<1>4. CASE receipt' = receipt
  <2>1. ReceiptInv'
    BY <1>1, <1>4 DEF Inv, SessionInv, ReceiptInv
  <2>. QED  BY <1>1, <1>2, <1>4, <2>1, TickEnds DEF CaptureSteps
<1>. QED  BY <1>3, <1>4 DEF DecideReceipt

-----------------------------------------------------------------------------
(* stop() and the world *)

LEMMA StopCalledKeepsInv ==
  ASSUME Inv, StopCalled
  PROVE  Inv'
<1>1. /\ UNCHANGED <<tick, waiting, settled, call, receipt, row, holds, sessionVars, now>>
      /\ UNCHANGED <<captures, last, connected, generation, known>>
      /\ stop' = IF Idle THEN "returned" ELSE "awaiting"
  BY DEF StopCalled, sessionVars
<1>2. TypeOK'
  BY <1>1 DEF Inv, TypeOK, Idle
<1>3. CallInv'
  BY <1>1 DEF Inv, CallInv, CallerInv, QueueInv, ReportInv, StopInv, Idle
<1>4. SessionInv'
  BY <1>1 DEF Inv, SessionInv, CaptureInv, ReceiptInv
<1>. QED  BY <1>2, <1>3, <1>4 DEF Inv

(* What happens around the scheduler breaks the connection or leaves it.   *)
LEMMA WorldKeepsInv ==
  ASSUME Inv, SchedulerUnchanged,
         row' \in Rows, row'.run <= captures, holds' \in BOOLEAN, known' \in BOOLEAN,
         connected' \in BOOLEAN, generation' \in 0..MaxGeneration, now' \in 0..MaxClock,
         \/ UNCHANGED <<connected, generation, last>>
         \/ generation' = generation + 1 /\ last' = [last EXCEPT !.unbroken = FALSE]
  PROVE  Inv'
<1>1. UNCHANGED <<tick, waiting, settled, call, receipt, stop, captures>>
  BY DEF SchedulerUnchanged
<1>2. /\ last' \in Outcomes /\ last'.clean = last.clean /\ last'.started = last.started
      /\ \/ UNCHANGED <<connected, generation, last>>
         \/ generation' = generation + 1
  BY DEF Inv, TypeOK, Outcomes
<1>3. TypeOK'
  BY <1>1, <1>2 DEF Inv, TypeOK, Idle
<1>4. CallInv'
  BY <1>1 DEF Inv, CallInv, CallerInv, QueueInv, ReportInv, StopInv, Idle
<1>5. /\ generation \in Int /\ tick.gen \in Int /\ receipt.gen \in Int
  BY DEF Inv, TypeOK, Ticks, Receipts
<1>6. CaptureInv'
  BY <1>1, <1>2, <1>5 DEF Inv, SessionInv, CaptureInv
<1>7. ReceiptInv'
  BY <1>1, <1>2, <1>5 DEF Inv, SessionInv, ReceiptInv
<1>. QED  BY <1>3, <1>4, <1>6, <1>7 DEF Inv, SessionInv

LEMMA WorldStepsKeepInv ==
  ASSUME Inv, ForeignRun \/ HoldChanges \/ TimePasses \/ ConnectionChanges \/ AccountChanges
  PROVE  Inv'
<1>1. /\ SchedulerUnchanged
      /\ row \in Rows /\ row.run <= captures /\ holds \in BOOLEAN /\ known \in BOOLEAN
      /\ connected \in BOOLEAN /\ generation \in 0..MaxGeneration /\ now \in 0..MaxClock
      /\ captures \in Nat
  BY DEF Inv, TypeOK, ForeignRun, HoldChanges, TimePasses, ConnectionChanges, AccountChanges
<1>2. NoRow \in Rows /\ NoRow.run <= captures
  BY <1>1, Constants DEF NoRow
<1>3. CASE ForeignRun
  BY <1>1, <1>2, <1>3, WorldKeepsInv DEF ForeignRun, sessionVars
<1>4. CASE HoldChanges
  BY <1>1, <1>4, WorldKeepsInv DEF HoldChanges, sessionVars
<1>5. CASE TimePasses
  <2>1. now' \in 0..MaxClock
    BY <1>1, <1>5, SchedulerAssumption DEF TimePasses
  <2>. QED  BY <1>1, <1>5, <2>1, WorldKeepsInv DEF TimePasses, sessionVars
<1>6. CASE ConnectionChanges
  <2>1. generation' \in 0..MaxGeneration /\ connected' \in BOOLEAN
    BY <1>1, <1>6, SchedulerAssumption DEF ConnectionChanges
  <2>. QED  BY <1>1, <1>6, <2>1, WorldKeepsInv DEF ConnectionChanges
<1>7. CASE AccountChanges
  <2>1. known' \in BOOLEAN
    BY <1>1, <1>7 DEF AccountChanges
  <2>. QED  BY <1>1, <1>7, <2>1, WorldKeepsInv DEF AccountChanges
<1>. QED  BY <1>3, <1>4, <1>5, <1>6, <1>7

LEMMA InitInv == Init => Inv
<1> SUFFICES ASSUME Init
             PROVE  Inv
  OBVIOUS
<1>1. /\ IdleTick.run = 0 /\ IdleTick.step = "idle" /\ IdleTick.caller = "periodic"
      /\ NoReceipt.run = 0 /\ NoRow.run = 0
  BY DEF IdleTick, NoReceipt, NoRow
<1>2. call \in [Calls -> CallStates]
      /\ \A c \in Calls : call[c].status = "new" /\ call[c].asked = 0 /\ call[c].report = 0
  BY DEF Init, CallStates, CallStatuses
<1>3. last \in Outcomes /\ <<>> \in Seq(FreshCalls)
  BY Constants, EmptySeq DEF Init, Outcomes
<1>4. TypeOK
  <2>1. /\ tick \in Ticks /\ receipt \in Receipts /\ row \in Rows
        /\ tick.run <= captures /\ receipt.run <= captures /\ row.run <= captures
        /\ captures \in Nat
    BY <1>1, Constants DEF Init
  <2>2. /\ waiting \in Seq(FreshCalls) /\ settled \in Seq(FreshCalls) /\ waiting = <<>>
    BY <1>3 DEF Init
  <2>3. /\ \A c \in Calls : call[c].asked <= captures /\ call[c].report <= captures
        /\ \A c \in FreshCalls : call[c].status # "busy"
    BY <1>2 DEF Init, Calls
  <2>4. /\ stop \in {"no", "awaiting", "returned"}
        /\ holds \in BOOLEAN /\ connected \in BOOLEAN /\ known \in BOOLEAN
        /\ generation \in 0..MaxGeneration /\ now \in 0..MaxClock
    BY Constants DEF Init
  <2>. QED  BY <1>2, <1>3, <2>1, <2>2, <2>3, <2>4 DEF TypeOK
<1>5. CallInv
  BY <1>1, <1>2 DEF Init, CallInv, CallerInv, QueueInv, ReportInv, StopInv
<1>6. SessionInv
  BY <1>1 DEF Init, SessionInv, CaptureInv, ReceiptInv, CaptureSteps
<1>. QED  BY <1>4, <1>5, <1>6 DEF Inv

LEMMA StepInv ==
  ASSUME Inv, [Next]_vars
  PROVE  Inv'
<1>1. CASE UNCHANGED vars
  <2>1. /\ UNCHANGED <<tick, waiting, settled, call, receipt, stop, row, holds>>
        /\ UNCHANGED <<connected, generation, known, now, captures, last>>
    BY <1>1 DEF vars, sessionVars
  <2>2. TypeOK' /\ CallInv' /\ SessionInv'
    BY <2>1 DEF Inv, TypeOK, CallInv, CallerInv, QueueInv, ReportInv, StopInv, SessionInv,
                CaptureInv, ReceiptInv, Idle
  <2>. QED  BY <2>2 DEF Inv
<1>2. CASE PeriodicTick \/ ResumeWaiters \/ StopCalled
  BY <1>2, PeriodicTickKeepsInv, ResumeKeepsInv, StopCalledKeepsInv
<1>3. CASE (\E c \in ExplicitCalls : TriggerNow(c)) \/ (\E c \in FreshCalls : TriggerFresh(c))
  BY <1>3, TriggerNowKeepsInv, TriggerFreshKeepsInv
<1>4. CASE TickProceeds
  BY <1>4, ReadProofKeepsInv, DecideSkipKeepsInv, StartFetchKeepsInv, RunYieldsNothingKeepsInv,
     FetchEndsKeepsInv, PublishKeepsInv, DecideReceiptKeepsInv DEF TickProceeds
<1>5. CASE ForeignRun \/ HoldChanges \/ TimePasses \/ ConnectionChanges \/ AccountChanges
  BY <1>5, WorldStepsKeepInv
<1>. QED  BY <1>1, <1>2, <1>3, <1>4, <1>5 DEF Next

LEMMA Invariance == Spec => []Inv
BY InitInv, StepInv, PTL DEF Spec

-----------------------------------------------------------------------------
(* Theorems *)

(***************************************************************************)
(* The report a triggerFresh call gets is of a capture that began after    *)
(* the call, for any number of calls, ticks and connections.               *)
(***************************************************************************)
THEOREM FreshReports == Spec => []FreshReportIsFresh
<1>1. Inv => FreshReportIsFresh
  <2> SUFFICES ASSUME Inv, NEW c \in FreshCalls, call[c].status = "answered"
               PROVE  call[c].report > call[c].asked
    BY DEF FreshReportIsFresh
  <2>1. c \in Calls /\ call[c].asked \in Nat /\ call[c].report \in Nat
    BY DEF Inv, TypeOK, Calls, CallStates
  <2>2. call[c].asked < call[c].report
    BY <2>1 DEF Inv, CallInv, ReportInv
  <2>. QED  BY <2>1, <2>2
<1>. QED  BY <1>1, Invariance, PTL

(***************************************************************************)
(* A stop() that has returned leaves no tick in flight.                    *)
(***************************************************************************)
THEOREM StopHasDrained == Spec => []StopDrains
<1>1. Inv => StopDrains
  BY DEF Inv, CallInv, StopInv, StopDrains
<1>. QED  BY <1>1, Invariance, PTL

(***************************************************************************)
(* Type correctness, and with it: a call that waits is in a queue, a call  *)
(* that runs has its tick, a stop() that waits has one to wait for.        *)
(***************************************************************************)
THEOREM NobodyForgotten == Spec => []NobodyIsForgotten
<1>1. Inv => NobodyIsForgotten
  <2> SUFFICES ASSUME Inv
               PROVE  NobodyIsForgotten
    OBVIOUS
  <2>1. waiting \in Seq(FreshCalls) /\ settled \in Seq(FreshCalls)
    BY DEF Inv, TypeOK
  <2>2. ToSet(waiting \o settled) = ToSet(waiting) \cup ToSet(settled)
    BY <2>1, SetOfConcat
  <2>3. \A c \in Calls : call[c].status = "running" => ~Idle /\ tick.caller = c
    BY Constants DEF Inv, CallInv, CallerInv, Idle, CaptureSteps
  <2>. QED  BY <2>2, <2>3 DEF Inv, CallInv, QueueInv, StopInv, NobodyIsForgotten
<1>. QED  BY <1>1, Invariance, PTL

(***************************************************************************)
(* No capture begins once stop() was called.                               *)
(***************************************************************************)
THEOREM NoneAfterStop == Spec => NoCaptureAfterStop
<1>1. [Next]_vars => [Stopping => captures' = captures]_vars
  <2> SUFFICES ASSUME Next, Stopping
               PROVE  captures' = captures
    OBVIOUS
  <2>1. CASE PeriodicTick \/ ResumeWaiters \/ StopCalled
    BY <2>1 DEF PeriodicTick, ResumeWaiters, Admitted, StopCalled
  <2>2. CASE \/ \E c \in ExplicitCalls : TriggerNow(c)
             \/ \E c \in FreshCalls : TriggerFresh(c)
    BY <2>2 DEF TriggerNow, TriggerFresh, TickNow, Admitted
  <2>3. CASE TickProceeds
    BY <2>3 DEF TickProceeds, ReadProof, DecideSkip, StartFetch, RunYieldsNothing, FetchEnds,
                Publish, DecideReceipt
  <2>4. CASE ForeignRun \/ HoldChanges \/ TimePasses \/ ConnectionChanges \/ AccountChanges
    BY <2>4 DEF ForeignRun, HoldChanges, TimePasses, ConnectionChanges, AccountChanges,
                SchedulerUnchanged
  <2>. QED  BY <2>1, <2>2, <2>3, <2>4 DEF Next
<1>. QED  BY <1>1, PTL DEF Spec, NoCaptureAfterStop

(* Only the decision ends a tick that was to be skipped.                   *)
LEMMA SkipDecides ==
  ASSUME Inv, Next, tick.step = "skipDecide", Idle', ~Stopping
  PROVE  MaySkip
<1>1. ~Idle /\ tick.step \notin {"start", "fetch", "publish", "skipProof", "receiptProof",
                                 "receiptDecide"}
  BY DEF Idle
<1>2. tick' # tick
  BY <1>1 DEF Idle
<1>3. DecideSkip
  <2>1. CASE PeriodicTick \/ ResumeWaiters \/ StopCalled
    BY <1>1, <1>2, <2>1 DEF PeriodicTick, ResumeWaiters, StopCalled
  <2>2. CASE \/ \E c \in ExplicitCalls : TriggerNow(c)
             \/ \E c \in FreshCalls : TriggerFresh(c)
    BY <1>1, <1>2, <2>2 DEF TriggerNow, TriggerFresh
  <2>3. CASE TickProceeds
    BY <1>1, <2>3 DEF TickProceeds, ReadProof, StartFetch, RunYieldsNothing, FetchEnds,
                      Publish, DecideReceipt, At
  <2>4. CASE ForeignRun \/ HoldChanges \/ TimePasses \/ ConnectionChanges \/ AccountChanges
    BY <1>2, <2>4 DEF ForeignRun, HoldChanges, TimePasses, ConnectionChanges, AccountChanges,
                      SchedulerUnchanged
  <2>. QED  BY <2>1, <2>2, <2>3, <2>4 DEF Next
<1>4. CASE BeginCapture("periodic")
  <2>1. tick'.step = "start"
    BY <1>4 DEF BeginCapture, IdleTick
  <2>. QED  BY <2>1 DEF Idle
<1>. QED  BY <1>3, <1>4 DEF DecideSkip

(***************************************************************************)
(* A periodic tick is skipped only on the receipt of the last capture      *)
(* begun, which was clean, is no older than the window, and over whose     *)
(* connection nothing has changed since.                                   *)
(***************************************************************************)
THEOREM SkipsAreCovered == Spec => SkipIsCovered
<1>1. Inv /\ [Next]_vars =>
        [tick.step = "skipDecide" /\ Idle' /\ ~Stopping =>
           /\ last.clean /\ last.unbroken
           /\ connected /\ known
           /\ now - last.started <= SkipWindow]_vars
  <2> SUFFICES ASSUME Inv, Next, tick.step = "skipDecide", Idle', ~Stopping
               PROVE  /\ last.clean /\ last.unbroken
                      /\ connected /\ known
                      /\ now - last.started <= SkipWindow
    OBVIOUS
  <2>1. /\ tick.proof # 0 /\ tick.proof = generation /\ generation = receipt.gen
        /\ now - receipt.started <= SkipWindow
        /\ connected /\ known
    BY SkipDecides DEF MaySkip, ProofHolds, ReceiptFresh, IdentityMatches
  <2>2. receipt # NoReceipt
    BY <2>1 DEF NoReceipt
  <2>. QED  BY <2>1, <2>2 DEF Inv, SessionInv, ReceiptInv
<1>. QED  BY <1>1, Invariance, PTL DEF Spec, SkipIsCovered

=============================================================================
