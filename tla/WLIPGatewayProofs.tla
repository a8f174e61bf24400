------------------------- MODULE WLIPGatewayProofs -------------------------
(***************************************************************************)
(* Theorems about WLIPGateway for every id range, retry limit, window and  *)
(* number of stray statuses.                                               *)
(***************************************************************************)
EXTENDS WLIPGateway, FiniteSetTheorems, TLAPS

USE SeqMaxAssumption, RetryLimitAssumption, MaxPendingAssumption,
    MaxStraysAssumption

LEMMA TypeStep == TypeOK /\ [Next]_vars => TypeOK'
<1> SUFFICES ASSUME TypeOK, [Next]_vars PROVE TypeOK'
  OBVIOUS
<1> USE DEF TypeOK, CallIds, queueVars, senderVars
<1>1. CASE SendIPPacket
  BY <1>1 DEF SendIPPacket, NextSeq
<1>2. ASSUME NEW p \in CallIds, StatusOk(p) PROVE TypeOK'
  BY <1>2 DEF StatusOk, StatusFor, Confirmed, CountStray, Delete
<1>3. ASSUME NEW p \in CallIds, StatusFail(p) PROVE TypeOK'
  BY <1>3 DEF StatusFail, StatusFor, CountStray
<1>4. ASSUME NEW p \in CallIds, Expire(p) PROVE TypeOK'
  BY <1>4 DEF Expire
<1>5. CASE StartPass
  BY <1>5 DEF StartPass
<1>6. ASSUME NEW p \in CallIds, Skip(p) PROVE TypeOK'
  BY <1>6 DEF Skip, Visit
<1>7. ASSUME NEW p \in CallIds, GiveUp(p) PROVE TypeOK'
  BY <1>7 DEF GiveUp, Visit, Delete
<1>8. ASSUME NEW p \in CallIds, FirstSend(p) PROVE TypeOK'
  BY <1>8 DEF FirstSend, Visit, Transmit
<1>9. ASSUME NEW p \in CallIds, BeginRetry(p) PROVE TypeOK'
  BY <1>9 DEF BeginRetry, Visit
<1>10. ASSUME NEW p \in CallIds, TimeOut(p) PROVE TypeOK'
  BY <1>10, SMTT(30) DEF TimeOut, Visit
<1>11. CASE Resend
  BY <1>11 DEF Resend, Transmit
<1>12. CASE ResendThrows
  BY <1>12 DEF ResendThrows
<1>13. CASE EndPause
  BY <1>13 DEF EndPause
<1>14. CASE EndPass
  BY <1>14 DEF EndPass
<1>15. CASE UNCHANGED vars
  BY <1>15 DEF vars
<1>16. QED
  BY <1>1, <1>2, <1>3, <1>4, <1>5, <1>6, <1>7, <1>8, <1>9, <1>10, <1>11,
     <1>12, <1>13, <1>14, <1>15 DEF Next, Sender, Environment, VisitStep

(***************************************************************************)
(* Type correctness of the gateway's queue and of its sender.              *)
(***************************************************************************)
THEOREM TypeInvariant == Spec => []TypeOK
<1>1. Init => TypeOK
  BY DEF Init, TypeOK, CallIds
<1>2. QED
  BY <1>1, TypeStep, PTL DEF Spec

-----------------------------------------------------------------------------
(***************************************************************************)
(* How the packets in flight change when one flag or entry does.           *)
(***************************************************************************)
LEMMA InFlightFinite == TypeOK => IsFiniteSet(InFlight)
<1> SUFFICES ASSUME TypeOK PROVE IsFiniteSet(InFlight)
  OBVIOUS
<1>1. IsFiniteSet(CallIds)
  BY FS_Interval DEF CallIds
<1>2. InFlight \in SUBSET CallIds
  BY DEF InFlight, TypeOK
<1>3. QED
  BY <1>1, <1>2, FS_Subset

LEMMA InFlightNat == TypeOK => Cardinality(InFlight) \in Nat
BY InFlightFinite, FS_CardinalityType

LEMMA InFlightGrows ==
  ASSUME TypeOK, NEW p, InFlight' = InFlight \cup {p}, p \notin InFlight
  PROVE  Cardinality(InFlight') = Cardinality(InFlight) + 1
BY InFlightFinite, FS_AddElement

LEMMA InFlightShrinks ==
  ASSUME TypeOK, NEW p, InFlight' = InFlight \ {p}, p \in InFlight
  PROVE  Cardinality(InFlight') = Cardinality(InFlight) - 1
BY InFlightFinite, FS_RemoveElement

LEMMA TransmitInFlight ==
  ASSUME TypeOK, NEW p \in CallIds, p \in packetsQueue, sent[p] = 0,
         Transmit(p), UNCHANGED packetsQueue
  PROVE  Cardinality(InFlight') = Cardinality(InFlight) + 1
<1>1. InFlight' = InFlight \cup {p} /\ p \notin InFlight
  BY DEF InFlight, Transmit, TypeOK
<1>2. QED
  BY <1>1, InFlightGrows

LEMMA SameInFlight ==
  ASSUME TypeOK, InFlight' = InFlight, SlotsAccounted,
         pendingCount' - pendingCount = strays - strays',
         pendingCount' \in Int, strays' \in Int
  PROVE  SlotsAccounted'
BY InFlightNat DEF SlotsAccounted, TypeOK

-----------------------------------------------------------------------------
LEMMA InitIInv == Init => IInv
<1> SUFFICES ASSUME Init PROVE IInv
  OBVIOUS
<1>1. TypeOK
  BY DEF Init, TypeOK, CallIds
<1>2. SlotsAccounted
  <2>1. InFlight = {}
    BY DEF Init, InFlight
  <2>2. QED
    BY <2>1, FS_EmptySet DEF Init, SlotsAccounted
<1>3. QED
  BY <1>1, <1>2
     DEF Init, IInv, TxBounded, RetriesPaidFor, RetryWaitSafe, RetriesTimedOut

(***************************************************************************)
(* Every conjunct of IInv but the slot accounting is first-order in the    *)
(* queue; SlotsAccounted goes through the cardinality lemmas.              *)
(***************************************************************************)
Rest == /\ pendingCount <= MaxPending
        /\ TxBounded
        /\ RetriesPaidFor
        /\ RetryWaitSafe
        /\ RetriesTimedOut

LEMMA NextIInv == IInv /\ [Next]_vars => IInv'
<1> SUFFICES ASSUME IInv, TypeOK', [Next]_vars PROVE SlotsAccounted' /\ Rest'
  BY TypeStep DEF IInv, Rest
<1> USE DEF IInv, Rest, TypeOK, queueVars, senderVars, TxBounded,
            RetriesPaidFor, RetryWaitSafe, RetriesTimedOut
<1>1. CASE SendIPPacket
  <2>1. InFlight' = InFlight
    BY <1>1 DEF SendIPPacket, InFlight
  <2>2. SlotsAccounted'
    BY <1>1, <2>1, SameInFlight DEF SendIPPacket
  <2>3. Rest'
    BY <1>1 DEF SendIPPacket
  <2>4. QED
    BY <2>2, <2>3
<1>2. ASSUME NEW p \in CallIds, StatusOk(p) PROVE SlotsAccounted' /\ Rest'
  <2>1. CASE sent[p] = 1
    <3>1. InFlight' = InFlight \ {p} /\ p \in InFlight
      BY <1>2, <2>1 DEF StatusOk, Confirmed, StatusFor, Delete, InFlight
    <3>2. SlotsAccounted'
      <4>1. Cardinality(InFlight') = Cardinality(InFlight) - 1
        BY <3>1, InFlightShrinks
      <4>2. QED
        BY <1>2, <2>1, <4>1, InFlightNat DEF StatusOk, Confirmed, CountStray, SlotsAccounted
    <3>3. Rest'
      BY <1>2, <2>1 DEF StatusOk, Confirmed, StatusFor, CountStray, Delete
    <3>4. QED
      BY <3>2, <3>3
  <2>2. CASE sent[p] = 0
    <3>1. InFlight' = InFlight
      BY <1>2, <2>2 DEF StatusOk, Confirmed, StatusFor, Delete, InFlight
    <3>2. SlotsAccounted'
      BY <1>2, <2>2, <3>1, SameInFlight DEF StatusOk, Confirmed, CountStray
    <3>3. Rest'
      BY <1>2, <2>2 DEF StatusOk, TakenBack, Confirmed, StatusFor, CountStray, Delete
    <3>4. QED
      BY <3>2, <3>3
  <2>3. QED
    BY <2>1, <2>2
<1>3. ASSUME NEW p \in CallIds, StatusFail(p) PROVE SlotsAccounted' /\ Rest'
  <2>1. InFlight' = InFlight
    BY <1>3 DEF StatusFail, InFlight
  <2>2. SlotsAccounted'
    BY <1>3, <2>1, SameInFlight DEF StatusFail, CountStray
  <2>3. Rest'
    BY <1>3 DEF StatusFail, StatusFor, CountStray
  <2>4. QED
    BY <2>2, <2>3
<1>4. ASSUME NEW p \in CallIds, Expire(p) PROVE SlotsAccounted' /\ Rest'
  BY <1>4, SameInFlight DEF Expire, InFlight
<1>5. CASE StartPass
  BY <1>5, SameInFlight DEF StartPass, InFlight
<1>6. ASSUME NEW p \in CallIds, Skip(p) PROVE SlotsAccounted' /\ Rest'
  BY <1>6, SameInFlight DEF Skip, Visit, InFlight
<1>7. ASSUME NEW p \in CallIds, GiveUp(p) PROVE SlotsAccounted' /\ Rest'
  <2>1. InFlight' = InFlight
    BY <1>7 DEF GiveUp, MaySend, Delete, InFlight
  <2>2. SlotsAccounted'
    BY <1>7, <2>1, SameInFlight DEF GiveUp
  <2>3. Rest'
    BY <1>7 DEF GiveUp, Visit, Delete
  <2>4. QED
    BY <2>2, <2>3
<1>8. ASSUME NEW p \in CallIds, FirstSend(p) PROVE SlotsAccounted' /\ Rest'
  <2>1. Cardinality(InFlight') = Cardinality(InFlight) + 1
    BY <1>8, TransmitInFlight DEF FirstSend, MaySend
  <2>2. SlotsAccounted'
    BY <1>8, <2>1, InFlightNat DEF FirstSend, Transmit, SlotsAccounted
  <2>3. Rest'
    BY <1>8 DEF FirstSend, MaySend, Transmit
  <2>4. QED
    BY <2>2, <2>3
<1>9. ASSUME NEW p \in CallIds, BeginRetry(p) PROVE SlotsAccounted' /\ Rest'
  <2>1. SlotsAccounted'
    BY <1>9, SameInFlight DEF BeginRetry, InFlight
  <2>2. Rest'
    BY <1>9 DEF BeginRetry, MaySend
  <2>3. QED
    BY <2>1, <2>2
<1>10. ASSUME NEW p \in CallIds, TimeOut(p) PROVE SlotsAccounted' /\ Rest'
  <2>1. InFlight' = InFlight \ {p} /\ p \in InFlight
    BY <1>10 DEF TimeOut, TimedOut, InFlight
  <2>2. SlotsAccounted'
    <3>1. Cardinality(InFlight') = Cardinality(InFlight) - 1
      BY <2>1, InFlightShrinks
    <3>2. QED
      BY <1>10, <3>1, InFlightNat DEF TimeOut, SlotsAccounted
  <2>3. Rest'
    BY <1>10 DEF TimeOut, Visit, TimedOut, InFlight
  <2>4. QED
    BY <2>2, <2>3
<1>11. CASE Resend
  <2>1. Cardinality(InFlight') = Cardinality(InFlight) + 1
    BY <1>11, TransmitInFlight DEF Resend
  <2>2. SlotsAccounted'
    BY <1>11, <2>1, InFlightNat DEF Resend, Transmit, SlotsAccounted
  <2>3. Rest'
    BY <1>11 DEF Resend, Transmit
  <2>4. QED
    BY <2>2, <2>3
<1>12. CASE ResendThrows
  BY <1>12, SameInFlight DEF ResendThrows, InFlight
<1>13. CASE EndPause
  BY <1>13, SameInFlight DEF EndPause, InFlight
<1>14. CASE EndPass
  BY <1>14, SameInFlight DEF EndPass, InFlight
<1>15. CASE UNCHANGED vars
  BY <1>15, SameInFlight DEF vars, InFlight
<1>16. QED
  BY <1>1, <1>2, <1>3, <1>4, <1>5, <1>6, <1>7, <1>8, <1>9, <1>10, <1>11,
     <1>12, <1>13, <1>14, <1>15 DEF Next, Sender, Environment, VisitStep

LEMMA InductiveInvariant == Spec => []IInv
BY InitIInv, NextIInv, PTL DEF Spec
-----------------------------------------------------------------------------
(***************************************************************************)
(* pendingCount is exact up to the stray statuses: no slot is ever lost.   *)
(***************************************************************************)
THEOREM SlotsAlwaysAccounted == Spec => []SlotsAccounted
BY InductiveInvariant, PTL DEF IInv

(***************************************************************************)
(* The window is exceeded by stray statuses only.                          *)
(***************************************************************************)
THEOREM WindowAlwaysRespected == Spec => []WindowRespected
<1>1. IInv => WindowRespected
  BY InFlightNat DEF IInv, SlotsAccounted, WindowRespected, TypeOK
<1>2. QED
  BY <1>1, InductiveInvariant, PTL

(***************************************************************************)
(* No packet is transmitted more often than the configured retry count.    *)
(***************************************************************************)
THEOREM TxAlwaysBounded == Spec => []TxBounded
BY InductiveInvariant, PTL DEF IInv

(***************************************************************************)
(* packetSender throws only over a packet that was transmitted, timed out  *)
(* and then confirmed while packetSender held it across the 500 ms wait.   *)
(***************************************************************************)
THEOREM SenderDiesOnlyOfLateConfirmation == Spec => DiesOnlyOfLateConfirmation
<1> DEFINE Late == pc' = "dead" /\ pc # "dead" => cur \in late
<1>1. IInv /\ [Next]_vars => [Late]_vars
  <2> SUFFICES ASSUME IInv, Next, pc' = "dead", pc # "dead" PROVE cur \in late
    OBVIOUS
  <2>1. ResendThrows
    BY DEF Next, Sender, Environment, VisitStep, SendIPPacket, StatusOk,
           StatusFail, Expire, StartPass, Skip, GiveUp, FirstSend, BeginRetry,
           Transmit, TimeOut, Resend, EndPause, EndPass, senderVars
  <2>2. QED
    BY <2>1 DEF ResendThrows, IInv, RetryWaitSafe
<1>2. QED
  BY <1>1, InductiveInvariant, PTL DEF Spec, DiesOnlyOfLateConfirmation

(***************************************************************************)
(* A packet is given up only when its retries are used up.                 *)
(***************************************************************************)
THEOREM NothingGivenUpEarly == Spec => GivenUpAfterRetries
<1> DEFINE Paid == \A p \in packetsQueue :
                     pc = "loop" /\ p \notin packetsQueue'
                       => tx[p] + strays >= RetryLimit
<1>1. IInv /\ [Next]_vars => [Paid]_vars
  <2> SUFFICES ASSUME IInv, Next, NEW p \in packetsQueue,
                      pc = "loop", p \notin packetsQueue'
               PROVE  tx[p] + strays >= RetryLimit
    OBVIOUS
  <2>1. PICK q \in CallIds : GiveUp(q)
    BY DEF Next, Sender, Environment, VisitStep, SendIPPacket, StatusOk, Confirmed,
           StatusFail, StatusFor, Expire, StartPass, Skip, FirstSend, BeginRetry,
           TimeOut, Resend, ResendThrows, EndPause, EndPass, queueVars, InFlight
  <2>2. q = p
    BY <2>1 DEF GiveUp, Delete
  <2>3. QED
    BY <2>1, <2>2 DEF IInv, TypeOK, RetriesPaidFor, GiveUp, MaySend, CallIds
<1>2. QED
  BY <1>1, InductiveInvariant, PTL DEF Spec, GivenUpAfterRetries

-----------------------------------------------------------------------------
(***************************************************************************)
(* The gateway implements RetryDelivery, safety part: every step of the    *)
(* gateway is an abstract step or leaves held packets and tries alone.     *)
(***************************************************************************)
LEMMA StepRefines == IInv /\ [Next]_vars => [Delivery!ANext]_(Delivery!avars)
<1> SUFFICES ASSUME IInv, [Next]_vars
             PROVE  Delivery!ANext \/ UNCHANGED <<packetsQueue, tx>>
  BY DEF Delivery!avars
<1> USE DEF IInv, TypeOK, TxBounded, RetriesPaidFor, queueVars
<1>1. CASE SendIPPacket
  <2>1. NextSeq \in CallIds
    BY DEF NextSeq, CallIds
  <2>2. Delivery!Submit(NextSeq)
    BY <1>1 DEF SendIPPacket, Delivery!Submit
  <2>3. QED
    BY <2>1, <2>2 DEF Delivery!ANext
<1>2. ASSUME NEW p \in CallIds, StatusOk(p) PROVE Delivery!ANext
  <2>1. Delivery!Confirm(p)
    BY <1>2 DEF StatusOk, StatusFor, Confirmed, Delete, Delivery!Confirm, Delivery!Release
  <2>2. QED
    BY <2>1 DEF Delivery!ANext
<1>3. ASSUME NEW p \in CallIds, GiveUp(p) PROVE Delivery!ANext
  <2>1. Delivery!Abandon(p)
    BY <1>3 DEF GiveUp, MaySend, Delete, Delivery!Abandon, Delivery!Release
  <2>2. QED
    BY <2>1 DEF Delivery!ANext
<1>4. ASSUME NEW p \in CallIds, FirstSend(p) PROVE Delivery!ANext
  <2>1. Delivery!Attempt(p)
    BY <1>4 DEF FirstSend, MaySend, Transmit, Delivery!Attempt
  <2>2. QED
    BY <2>1 DEF Delivery!ANext
<1>5. CASE Resend
  <2>1. Delivery!Attempt(cur)
    BY <1>5 DEF Resend, Transmit, RetryWaitSafe, Delivery!Attempt
  <2>2. QED
    BY <2>1 DEF Delivery!ANext
<1>6. ASSUME NEW p \in CallIds,
             StatusFail(p) \/ Expire(p) \/ Skip(p) \/ BeginRetry(p) \/ TimeOut(p)
      PROVE  UNCHANGED <<packetsQueue, tx>>
  BY <1>6 DEF StatusFail, Expire, Skip, BeginRetry, TimeOut
<1>7. CASE StartPass \/ ResendThrows \/ EndPause \/ EndPass \/ UNCHANGED vars
  BY <1>7 DEF StartPass, ResendThrows, EndPause, EndPass, vars
<1>8. QED
  BY <1>1, <1>2, <1>3, <1>4, <1>5, <1>6, <1>7
     DEF Next, Sender, Environment, VisitStep

(***************************************************************************)
(* At most retryCount transmissions, a release only after a confirmation   *)
(* of a transmission or after the retries: the promise of RetryDelivery.   *)
(***************************************************************************)
THEOREM ImplementsRetryDelivery == Spec => DeliverySpec
<1>1. Init => Delivery!AInit
  BY DEF Init, Delivery!AInit
<1>2. QED
  BY <1>1, StepRefines, InductiveInvariant, PTL
     DEF Spec, DeliverySpec, Delivery!ASpec

=============================================================================
