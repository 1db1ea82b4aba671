---------------------------- MODULE OrderLedger ----------------------------
(***************************************************************************)
(* What order submission promises, without requests, broker ids, callbacks *)
(* or crashes: an order moves once through                                 *)
(*                                                                         *)
(*     absent -> intent -> committed -> sent -> closed                     *)
(*                  \-> withdrawn                                          *)
(*                                                                         *)
(* so it is sent at most once and never after being withdrawn, and at most *)
(* one order of an instrument is open at a time.                           *)
(***************************************************************************)
CONSTANTS Orders, Instruments, InstrumentOf

VARIABLE ledger

Stages == {"absent", "intent", "withdrawn", "committed", "sent", "closed"}

Open(o) == ledger[o] \in {"intent", "committed", "sent"}

Advance(o, from, to) ==
  /\ ledger[o] = from
  /\ ledger' = [ledger EXCEPT ![o] = to]

Init == ledger = [o \in Orders |-> "absent"]

(* An intent is opened only on an instrument that has no open order.       *)
Propose(o) ==
  /\ Advance(o, "absent", "intent")
  /\ \A p \in Orders : InstrumentOf[p] = InstrumentOf[o] => ~Open(p)

(* An intent is withdrawn only before it is committed.                     *)
Withdraw(o) == Advance(o, "intent", "withdrawn")

(* The order's broker plan becomes durable.                                *)
Commit(o) == Advance(o, "intent", "committed")

(* The one write to the broker.                                            *)
Dispatch(o) == Advance(o, "committed", "sent")

(* The order's outcome is recorded.                                        *)
Settle(o) == Advance(o, "sent", "closed")

Next == \E o \in Orders :
          Propose(o) \/ Withdraw(o) \/ Commit(o) \/ Dispatch(o) \/ Settle(o)

Spec == Init /\ [][Next]_ledger
=============================================================================
