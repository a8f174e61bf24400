---------------------------- MODULE WLIPGateway ----------------------------
(***************************************************************************)
(* The retry queue of Services/WLIPGateway.js: IP packets wait in          *)
(* packetsQueue under their wireline call id, the packetSender coroutine   *)
(* transmits them, at most maxPending awaiting an answer, and the          *)
(* repeater's DataCallStatus messages confirm or fail them.                *)
(*                                                                         *)
(* JavaScript runs a turn to completion: a message handler or a user call  *)
(* can only run while packetSender is between two turns (its 100 ms timer, *)
(* the 500 ms wait before a retry, the 100 ms pause after a send), that is *)
(* while pc # "loop".                                                      *)
(***************************************************************************)
EXTENDS Integers, FiniteSets

CONSTANTS SeqMax,       \* largest call id: 0xFFFFFE in the code
          RetryLimit,   \* the constructor's retryCount
          MaxPending,   \* maxPending
          MaxStrays     \* BOUND: stray statuses (see strays) in a behaviour

ASSUME SeqMaxAssumption     == SeqMax \in Nat \ {0}
ASSUME RetryLimitAssumption == RetryLimit \in Nat \ {0}
ASSUME MaxPendingAssumption == MaxPending \in Nat \ {0}
ASSUME MaxStraysAssumption  == MaxStrays \in Nat

CallIds == 1..SeqMax

VARIABLES
  packetSeq,      \* last call id given out
  packetsQueue,   \* the keys of packetsQueue
  retryCount,     \* packetsQueue[id].retryCount
  sent,           \* packetsQueue[id].sent
  expired,        \* packetsQueue[id].sentTime + timeout < getTime()
  pendingCount,
  pc,             \* where packetSender is
  todo,           \* the part of Object.keys(packetsQueue) still to visit
  cur,            \* the key packetSender holds across the 500 ms wait
  tx,             \* history: transmissions of the packet under an id
  strays,         \* history: statuses that took a slot nobody gave back
  late            \* history: ids a late confirmation freed in this pass

queueVars == <<packetsQueue, retryCount, sent, expired, tx>>
senderVars == <<pc, todo, cur>>
vars == <<packetSeq, queueVars, pendingCount, senderVars, strays, late>>

TypeOK ==
  /\ packetSeq \in 0..SeqMax + 1
  /\ packetsQueue \subseteq CallIds
  /\ retryCount \in [CallIds -> Nat]
  /\ sent \in [CallIds -> {0, 1}]
  /\ expired \in [CallIds -> BOOLEAN]
  /\ pendingCount \in Int
  /\ pc \in {"idle", "loop", "retryWait", "paceWait", "dead"}
  /\ todo \subseteq CallIds
  /\ cur \in CallIds
  /\ tx \in [CallIds -> Nat]
  /\ strays \in 0..MaxStrays
  /\ late \subseteq CallIds

(***************************************************************************)
(* The constructor starts packetSender on the empty queue, which only arms *)
(* the 100 ms timer; packetSeq is random.                                  *)
(***************************************************************************)
Init ==
  /\ packetSeq \in 0..SeqMax + 1
  /\ packetsQueue = {}
  /\ retryCount = [p \in CallIds |-> 0]
  /\ sent = [p \in CallIds |-> 0]
  /\ expired = [p \in CallIds |-> FALSE]
  /\ pendingCount = 0
  /\ pc = "idle"
  /\ todo = {}
  /\ cur = 1
  /\ tx = [p \in CallIds |-> 0]
  /\ strays = 0
  /\ late = {}

InFlight == {p \in packetsQueue : sent[p] = 1}

(***************************************************************************)
(* A packet leaves the queue.  Its fields are reset so that absent entries *)
(* all look alike; sendIPPacket initialises them again anyway.             *)
(***************************************************************************)
Delete(p) ==
  /\ packetsQueue' = packetsQueue \ {p}
  /\ retryCount' = [retryCount EXCEPT ![p] = 0]
  /\ sent' = [sent EXCEPT ![p] = 0]
  /\ expired' = [expired EXCEPT ![p] = FALSE]
  /\ tx' = [tx EXCEPT ![p] = 0]

-----------------------------------------------------------------------------
(***************************************************************************)
(* sendIPPacket.  BOUND: the next id is free.  The code would overwrite a  *)
(* live entry after a wrap, with 2^24 packets sent while one is queued.    *)
(***************************************************************************)
NextSeq == IF packetSeq + 1 > SeqMax THEN 1 ELSE packetSeq + 1

SendIPPacket ==
  /\ pc # "loop"
  /\ NextSeq \notin packetsQueue
  /\ packetSeq' = NextSeq
  /\ packetsQueue' = packetsQueue \cup {NextSeq}
  /\ retryCount' = [retryCount EXCEPT ![NextSeq] = 0]
  /\ sent' = [sent EXCEPT ![NextSeq] = 0]
  /\ expired' = [expired EXCEPT ![NextSeq] = FALSE]
  /\ tx' = [tx EXCEPT ![NextSeq] = 0]
  /\ late' = late \ {NextSeq}
  /\ UNCHANGED <<pendingCount, senderVars, strays>>

-----------------------------------------------------------------------------
(***************************************************************************)
(* onWLPacket for a DataCallStatus.  The repeater may answer any call it   *)
(* was sent, late and more than once.  A status is a stray when it takes   *)
(* pendingCount down without ending a transmission: a failure (the entry   *)
(* stays sent = 1), or a late confirmation, which comes when the timeout   *)
(* has already taken the transmission back.                                *)
(* BOUND: at most MaxStrays of them.                                       *)
(***************************************************************************)
StatusFor(p) == pc # "loop" /\ p \in packetsQueue /\ tx[p] > 0

TakenBack(p) == sent[p] = 0 /\ expired[p]

CountStray(isStray) ==
  /\ isStray => strays < MaxStrays
  /\ strays' = IF isStray THEN strays + 1 ELSE strays

Confirmed(p) ==
  /\ CountStray(sent[p] = 0)
  /\ late' = IF TakenBack(p) THEN late \cup {p} ELSE late
  /\ Delete(p)

\* mutant of StatusOk: the slot is not given back
StatusOkKeepsSlot(p) ==
  /\ StatusFor(p)
  /\ Confirmed(p)
  /\ UNCHANGED <<packetSeq, pendingCount, senderVars>>

\* STATUS_TRANSMIT_OK
StatusOk(p) ==
  /\ StatusFor(p)
  /\ Confirmed(p)
  /\ pendingCount' = pendingCount - 1
  /\ UNCHANGED <<packetSeq, senderVars>>

\* mutant of StatusFail: the entry is deleted, as the statement commented out
\* on line 125 would do
StatusFailDeletes(p) ==
  /\ StatusFor(p)
  /\ CountStray(TRUE)
  /\ pendingCount' = pendingCount - 1
  /\ Delete(p)
  /\ UNCHANGED <<packetSeq, senderVars, late>>

\* every status above STATUS_TRANSMIT_OK, STATUS_GRANT among them
StatusFail(p) ==
  /\ StatusFor(p)
  /\ CountStray(TRUE)
  /\ pendingCount' = pendingCount - 1
  /\ retryCount' = [retryCount EXCEPT ![p] = @ + 1]
  /\ UNCHANGED <<packetSeq, packetsQueue, sent, expired, tx, senderVars, late>>

\* the clock passes sentTime + timeout
Expire(p) ==
  /\ p \in InFlight
  /\ ~expired[p]
  /\ expired' = [expired EXCEPT ![p] = TRUE]
  /\ UNCHANGED <<packetSeq, packetsQueue, retryCount, sent, tx, pendingCount,
                 senderVars, strays, late>>

-----------------------------------------------------------------------------
(***************************************************************************)
(* packetSender.  Object.keys is a snapshot in ascending order, so todo is *)
(* a set visited by its least element.                                     *)
(***************************************************************************)
StartPass ==
  /\ pc = "idle"
  /\ pc' = "loop"
  /\ todo' = packetsQueue
  /\ late' = {}
  /\ UNCHANGED <<packetSeq, queueVars, pendingCount, cur, strays>>

\* the body of the loop for the key p
Visit(p) ==
  /\ pc = "loop"
  /\ p \in todo
  /\ \A q \in todo : p <= q
  /\ todo' = todo \ {p}

\* mutant of MaySend: the window is not tested
MaySendNoWindow(p) == p \in packetsQueue /\ sent[p] = 0

MaySend(p) == p \in packetsQueue /\ sent[p] = 0 /\ pendingCount < MaxPending

TimedOut(p) == p \in InFlight /\ expired[p]

Skip(p) ==
  /\ Visit(p)
  /\ ~MaySend(p) /\ ~TimedOut(p)
  /\ UNCHANGED <<packetSeq, queueVars, pendingCount, pc, cur, strays, late>>

\* mutant of GiveUp: one retry short
GiveUpEarly(p) ==
  /\ Visit(p)
  /\ MaySend(p)
  /\ retryCount[p] + 1 >= RetryLimit
  /\ Delete(p)
  /\ UNCHANGED <<packetSeq, pendingCount, pc, cur, strays, late>>

GiveUp(p) ==
  /\ Visit(p)
  /\ MaySend(p)
  /\ retryCount[p] >= RetryLimit
  /\ Delete(p)
  /\ UNCHANGED <<packetSeq, pendingCount, pc, cur, strays, late>>

\* lines 60-65: mark, count, send, pause
Transmit(p) ==
  /\ sent' = [sent EXCEPT ![p] = 1]
  /\ expired' = [expired EXCEPT ![p] = FALSE]
  /\ pendingCount' = pendingCount + 1
  /\ tx' = [tx EXCEPT ![p] = @ + 1]
  /\ pc' = "paceWait"

FirstSend(p) ==
  /\ Visit(p)
  /\ MaySend(p)
  /\ retryCount[p] = 0
  /\ Transmit(p)
  /\ UNCHANGED <<packetSeq, packetsQueue, retryCount, cur, strays, late>>

BeginRetry(p) ==
  /\ Visit(p)
  /\ MaySend(p)
  /\ retryCount[p] \in 1..RetryLimit - 1
  /\ pc' = "retryWait"
  /\ cur' = p
  /\ UNCHANGED <<packetSeq, queueVars, pendingCount, strays, late>>

\* after the 500 ms the entry is used without looking at it again
Resend ==
  /\ pc = "retryWait"
  /\ cur \in packetsQueue
  /\ Transmit(cur)
  /\ UNCHANGED <<packetSeq, packetsQueue, retryCount, todo, cur, strays, late>>

\* ... and when it was deleted meanwhile the access throws: the async
\* function rejects and its timer is never armed again
ResendThrows ==
  /\ pc = "retryWait"
  /\ cur \notin packetsQueue
  /\ pc' = "dead"
  /\ UNCHANGED <<packetSeq, queueVars, pendingCount, todo, cur, strays, late>>

EndPause ==
  /\ pc = "paceWait"
  /\ pc' = "loop"
  /\ UNCHANGED <<packetSeq, queueVars, pendingCount, todo, cur, strays, late>>

\* mutant of TimeOut: the timeout is not counted as a retry
TimeOutUncounted(p) ==
  /\ Visit(p)
  /\ TimedOut(p)
  /\ sent' = [sent EXCEPT ![p] = 0]
  /\ pendingCount' = pendingCount - 1
  /\ UNCHANGED <<packetSeq, packetsQueue, retryCount, expired, tx, pc, cur, strays, late>>

\* mutant of TimeOut: the slot is not given back
TimeOutKeepsSlot(p) ==
  /\ Visit(p)
  /\ TimedOut(p)
  /\ sent' = [sent EXCEPT ![p] = 0]
  /\ retryCount' = [retryCount EXCEPT ![p] = @ + 1]
  /\ UNCHANGED <<packetSeq, packetsQueue, expired, tx, pendingCount, pc, cur, strays, late>>

TimeOut(p) ==
  /\ Visit(p)
  /\ TimedOut(p)
  /\ sent' = [sent EXCEPT ![p] = 0]
  /\ retryCount' = [retryCount EXCEPT ![p] = @ + 1]
  /\ pendingCount' = pendingCount - 1
  /\ UNCHANGED <<packetSeq, packetsQueue, expired, tx, pc, cur, strays, late>>

EndPass ==
  /\ pc = "loop"
  /\ todo = {}
  /\ pc' = "idle"
  /\ UNCHANGED <<packetSeq, queueVars, pendingCount, todo, cur, strays, late>>

-----------------------------------------------------------------------------
VisitStep(p) ==
  Skip(p) \/ GiveUp(p) \/ FirstSend(p) \/ BeginRetry(p) \/ TimeOut(p)

Sender ==
  \/ StartPass \/ Resend \/ ResendThrows \/ EndPause \/ EndPass
  \/ \E p \in CallIds : VisitStep(p)

Environment ==
  \/ SendIPPacket
  \/ \E p \in CallIds : StatusOk(p) \/ StatusFail(p) \/ Expire(p)

Next == Sender \/ Environment

Spec == Init /\ [][Next]_vars

(***************************************************************************)
(* Timers fire, so the coroutine keeps running, and the clock keeps going. *)
(* Nothing is assumed of the user or of the repeater.                      *)
(***************************************************************************)
Fairness == WF_vars(Sender) /\ \A p \in CallIds : WF_vars(Expire(p))

FairSpec == Spec /\ Fairness

-----------------------------------------------------------------------------
(***************************************************************************)
(* Slot accounting: pendingCount is the number of packets awaiting an      *)
(* answer, less one for each stray status.  It is never above that number, *)
(* so no slot is lost and the gateway cannot stall.                        *)
(***************************************************************************)
SlotsAccounted == pendingCount = Cardinality(InFlight) - strays

(***************************************************************************)
(* The window: packets awaiting an answer exceed maxPending only by the    *)
(* number of stray statuses, although packetSender tests pendingCount      *)
(* 500 ms before it takes the slot.                                        *)
(***************************************************************************)
WindowRespected == Cardinality(InFlight) <= MaxPending + strays

(***************************************************************************)
(* No packet is transmitted more than retryCount times, whatever statuses  *)
(* arrive and however late.                                                *)
(***************************************************************************)
TxBounded == \A p \in packetsQueue : tx[p] <= RetryLimit

(***************************************************************************)
(* A packet is given up only after all its transmissions, but for those    *)
(* that failure statuses have used up.                                     *)
(***************************************************************************)
GivenUpAfterRetries ==
  [][\A p \in packetsQueue :
       pc = "loop" /\ p \notin packetsQueue' => tx[p] + strays >= RetryLimit]_vars

(***************************************************************************)
(* packetSender dies of a TypeError only over a packet whose confirmation  *)
(* came after its timeout: the entry it holds across the 500 ms wait is    *)
(* deleted by nothing else, not by a failure, a retry that is used up, a   *)
(* wrap of the ids or a confirmation in time.                              *)
(***************************************************************************)
DiesOnlyOfLateConfirmation ==
  [][pc' = "dead" /\ pc # "dead" => cur \in late]_vars

(***************************************************************************)
(* The inductive invariant behind these: each retry is paid for by a       *)
(* transmission or by a stray, and what packetSender saw before the 500 ms *)
(* wait still holds after it, unless a late confirmation came between.     *)
(***************************************************************************)
RetriesPaidFor ==
  \A p \in packetsQueue : /\ tx[p] <= retryCount[p] + sent[p]
                          /\ retryCount[p] + sent[p] <= tx[p] + strays

\* a packet that was transmitted and does not wait for an answer has timed out
RetriesTimedOut ==
  \A p \in packetsQueue : tx[p] > 0 /\ sent[p] = 0 => expired[p]

RetryWaitSafe ==
  pc = "retryWait" =>
    /\ pendingCount < MaxPending
    /\ cur \in packetsQueue => sent[cur] = 0 /\ tx[cur] < RetryLimit
    /\ cur \notin packetsQueue => cur \in late

IInv == /\ TypeOK
        /\ SlotsAccounted
        /\ pendingCount <= MaxPending
        /\ TxBounded
        /\ RetriesPaidFor
        /\ RetryWaitSafe
        /\ RetriesTimedOut

(***************************************************************************)
(* Every packet is confirmed or given up, unless packetSender died.        *)
(***************************************************************************)
EveryPacketSettles ==
  \A p \in CallIds : p \in packetsQueue ~> (p \notin packetsQueue \/ pc = "dead")

(***************************************************************************)
(* The gateway keeps the promise of RetryDelivery: at most retryCount      *)
(* transmissions whatever statuses arrive and however late, and a packet   *)
(* is let go only after a confirmation or after its retries.               *)
(***************************************************************************)
Delivery == INSTANCE RetryDelivery
              WITH Ids <- CallIds, Slack <- MaxStrays,
                   held <- packetsQueue, tries <- tx

DeliverySpec == Delivery!ASpec
=============================================================================
