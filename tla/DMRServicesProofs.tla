------------------------- MODULE DMRServicesProofs -------------------------
(***************************************************************************)
(* What holds of DMRServices for any radios, any number of location        *)
(* requests, any retry limits and any options: the bounds on what is sent  *)
(* and the registration that follows the radio.                            *)
(*                                                                         *)
(* Each bound needs its account: the requests sent before the last reset   *)
(* of a retry count use up the resets before it, and those since are the   *)
(* retry count (LRRPCounted, BMSCounted); what a visit still may send to a *)
(* radio that is gone is left of the deregistration (VisitCounted).        *)
(***************************************************************************)
EXTENDS DMRServices, TLAPS

LRRPLimit == AtLeastOne(LRRPRetryCount)
BMSLimit  == AtLeastOne(BMSRetryCount)

(***************************************************************************)
(* The account of a request: with limit l, n resets of its retry count,    *)
(* s sent and retry count t, the resets but the last are used up.          *)
(***************************************************************************)
Account(l, n, s, t) == IF n = 0 THEN s = 0 /\ t = 0 ELSE s + l <= l * n + t

(* A radio that is registered, or visited, has registered before. *)
Admitted ==
  /\ \A r \in Radios : IsRegistered(r) \/ worker.at = r => count[r].regs > 0
  /\ worker.at # NONE /\ worker.pc = "await" => worker.item > 1
  /\ worker.pc = "timer" => worker.at = NONE

(* Each registration resets the retry counts of the location requests. *)
LRRPCounted ==
  \A r \in Radios, i \in LRRPIds :
    /\ lrrp[r][i].retryCount <= LRRPLimit
    /\ lrrp[r][i].status = LRRP_STATUS_NONE => lrrp[r][i].retryCount < LRRPLimit
    /\ Account(LRRPLimit, count[r].regs, count[r].lrrp[i], lrrp[r][i].retryCount)

(* The retry count of the battery is reset by a timer of each registration, *)
(* and by a refusal.                                                        *)
Resets(r) == count[r].regs - pending[r].bmsReset + count[r].refusals

BMSCounted ==
  \A r \in Radios :
    /\ pending[r].bmsReset <= count[r].regs
    /\ bms[r].retryCount <= BMSLimit
    /\ bms[r].status = BMS_STATUS_UNREGISTERED => bms[r].retryCount < BMSLimit
    /\ Account(BMSLimit, Resets(r), count[r].discoveries, bms[r].retryCount)
    /\ bms[r].status \in {BMS_STATUS_UNREGISTERED, BMS_STATUS_DISCOVERY_SENT} => Resets(r) > 0

(* A registration that waits is overwritten by no deregistration unheard. *)
Waiting ==
  \A r \in Radios :
    /\ heard[r].last = "none" => pending[r].register = 0
    /\ heard[r].last = "dereg" /\ ~heard[r].hasty => pending[r].register = 0

(* What is left of the visit to a radio that is gone. *)
VisitCounted ==
  \A r \in Radios :
    worker.at = r /\ ~IsRegistered(r) =>
      count[r].gone + (BMSItem + 1 - worker.item) <= LRRPRequests * count[r].deregs

IInv ==
  /\ TypeOK /\ Admitted
  /\ LRRPCounted /\ BMSCounted
  /\ Waiting /\ RegistrationFollowsRadio
  /\ VisitCounted /\ FewSentToTheGone

USE NoneAssumption, OptionsAssumption, BoundsAssumption

-----------------------------------------------------------------------------
(* The records that are kept for a radio. *)
Request == [status : LRRP_STATUS_NONE..LRRP_STATUS_RECEIVED, retryCount : Nat, due : BOOLEAN]
Battery == [status : BMS_STATUS_NONE..BMS_STATUS_RECEIVED, retryCount : Nat,
            due : BOOLEAN, queryDue : BOOLEAN]
Pending == [register : Nat, bmsReset : Nat, bmsAck : Nat, bmsRegister : Nat]
Heart   == [last : {"none", "reg", "dereg"}, hasty : BOOLEAN]
Counter == [regs : Nat, deregs : Nat, refusals : Nat, lrrp : [LRRPIds -> Nat],
            discoveries : Nat, gone : Nat]

LEMMA TypesAre ==
  ASSUME TypeOK
  PROVE  /\ lrrp \in [Radios -> [LRRPIds -> Request]] /\ bms \in [Radios -> Battery]
         /\ pending \in [Radios -> Pending] /\ heard \in [Radios -> Heart]
         /\ count \in [Radios -> Counter]
         /\ ars \in [Radios -> {ARS_STATUS_UNREGISTERED, ARS_STATUS_REGISTERED}]
BY DEF TypeOK, Request, Battery, Pending, Heart, Counter

(* One request of one radio changes. *)
LEMMA RequestSet ==
  ASSUME NEW f \in [Radios -> [LRRPIds -> Request]],
         NEW r \in Radios, NEW i \in LRRPIds, NEW y \in Request,
         NEW g, g = [f EXCEPT ![r][i] = y]
  PROVE  /\ g \in [Radios -> [LRRPIds -> Request]]
         /\ g[r][i] = y
         /\ \A q \in Radios, j \in LRRPIds : q # r \/ j # i => g[q][j] = f[q][j]
BY DEF LRRPIds

LEMMA RequestsAre ==
  ASSUME NEW f \in [Radios -> [LRRPIds -> Request]], NEW r \in Radios, NEW i \in LRRPIds
  PROVE  f[r][i] \in Request
BY DEF LRRPIds

(* The states a request and a battery can be set to. *)
LEMMA Statuses ==
  /\ {LRRP_STATUS_NONE, LRRP_STATUS_SENT, LRRP_STATUS_CONFIRMED, LRRP_STATUS_RECEIVED}
       \subseteq LRRP_STATUS_NONE..LRRP_STATUS_RECEIVED
  /\ {BMS_STATUS_NONE, BMS_STATUS_UNREGISTERED, BMS_STATUS_DISCOVERY_SENT,
      BMS_STATUS_REGISTERED, BMS_STATUS_RECEIVED} \subseteq BMS_STATUS_NONE..BMS_STATUS_RECEIVED
BY DEF LRRP_STATUS_NONE, LRRP_STATUS_SENT, LRRP_STATUS_CONFIRMED, LRRP_STATUS_RECEIVED,
       BMS_STATUS_NONE, BMS_STATUS_UNREGISTERED, BMS_STATUS_DISCOVERY_SENT,
       BMS_STATUS_REGISTERED, BMS_STATUS_RECEIVED

(* What the setters make of a request, and of a battery. *)
LEMMA RequestSetters ==
  ASSUME NEW x \in Request
  PROVE  /\ \A status \in LRRP_STATUS_NONE..LRRP_STATUS_RECEIVED :
              /\ LRRPSet(x, status) \in Request
              /\ LRRPSet(x, status).status = status
              /\ LRRPSet(x, status).retryCount = x.retryCount
         /\ [x EXCEPT !.due = TRUE] \in Request
         /\ [x EXCEPT !.due = TRUE].status = x.status
         /\ [x EXCEPT !.due = TRUE].retryCount = x.retryCount
         /\ LRRPAnew(x) \in Request /\ LRRPAnew(x).retryCount = 0
         /\ LRRPSent(x) \in Request /\ LRRPSent(x).retryCount = x.retryCount + 1
         /\ LRRPSent(x).status = LRRP_STATUS_SENT
<1>1. \A status \in LRRP_STATUS_NONE..LRRP_STATUS_RECEIVED :
        /\ LRRPSet(x, status) \in Request
        /\ LRRPSet(x, status).status = status
        /\ LRRPSet(x, status).retryCount = x.retryCount
  BY DEF LRRPSet, Request
<1>2. /\ [x EXCEPT !.due = TRUE] \in Request
      /\ [x EXCEPT !.due = TRUE].status = x.status
      /\ [x EXCEPT !.due = TRUE].retryCount = x.retryCount
  BY DEF Request
<1>3. ASSUME NEW y \in Request, NEW n \in Nat
      PROVE  /\ [y EXCEPT !.retryCount = n] \in Request
             /\ [y EXCEPT !.retryCount = n].status = y.status
             /\ [y EXCEPT !.retryCount = n].retryCount = n
  BY DEF Request
<1>4. LRRPAnew(x) \in Request /\ LRRPAnew(x).retryCount = 0
  BY <1>1, <1>3, Statuses DEF LRRPAnew
<1>5. /\ LRRPSent(x) \in Request /\ LRRPSent(x).retryCount = x.retryCount + 1
      /\ LRRPSent(x).status = LRRP_STATUS_SENT
  <2>1. PICK y \in Request : /\ y = LRRPSet(x, LRRP_STATUS_SENT)
                             /\ y.status = LRRP_STATUS_SENT /\ y.retryCount = x.retryCount
    BY <1>1, Statuses
  <2>2. PICK n \in Nat : n = y.retryCount + 1
    BY DEF Request
  <2>3. LRRPSent(x) = [y EXCEPT !.retryCount = n]
    BY <2>1, <2>2 DEF LRRPSent
  <2> QED
    BY <1>3, <2>1, <2>2, <2>3
<1> QED
  BY <1>1, <1>2, <1>4, <1>5

LEMMA BatterySetters ==
  ASSUME NEW x \in Battery
  PROVE  /\ \A status \in BMS_STATUS_NONE..BMS_STATUS_RECEIVED :
              /\ BMSSet(x, status) \in Battery
              /\ BMSSet(x, status).status = status
              /\ BMSSet(x, status).retryCount = x.retryCount
         /\ \A b \in BOOLEAN : /\ [x EXCEPT !.due = b] \in Battery
                               /\ [x EXCEPT !.due = b].status = x.status
                               /\ [x EXCEPT !.due = b].retryCount = x.retryCount
                               /\ [x EXCEPT !.queryDue = b] \in Battery
                               /\ [x EXCEPT !.queryDue = b].status = x.status
                               /\ [x EXCEPT !.queryDue = b].retryCount = x.retryCount
         /\ BMSAnew(x) \in Battery /\ BMSAnew(x).retryCount = 0
         /\ BMSSent(x) \in Battery /\ BMSSent(x).retryCount = x.retryCount + 1
         /\ BMSSent(x).status = BMS_STATUS_DISCOVERY_SENT
<1>1. \A status \in BMS_STATUS_NONE..BMS_STATUS_RECEIVED :
        /\ BMSSet(x, status) \in Battery
        /\ BMSSet(x, status).status = status
        /\ BMSSet(x, status).retryCount = x.retryCount
  BY DEF BMSSet, Battery
<1>2. ASSUME NEW y \in Battery, NEW n \in Nat
      PROVE  /\ [y EXCEPT !.retryCount = n] \in Battery
             /\ [y EXCEPT !.retryCount = n].status = y.status
             /\ [y EXCEPT !.retryCount = n].retryCount = n
  BY DEF Battery
<1>3. BMSAnew(x) \in Battery /\ BMSAnew(x).retryCount = 0
  BY <1>1, <1>2, Statuses DEF BMSAnew
<1>4. /\ BMSSent(x) \in Battery /\ BMSSent(x).retryCount = x.retryCount + 1
      /\ BMSSent(x).status = BMS_STATUS_DISCOVERY_SENT
  <2>1. PICK y \in Battery : /\ y = BMSSet(x, BMS_STATUS_DISCOVERY_SENT)
                             /\ y.status = BMS_STATUS_DISCOVERY_SENT
                             /\ y.retryCount = x.retryCount
    BY <1>1, Statuses
  <2>2. PICK n \in Nat : n = y.retryCount + 1
    BY DEF Battery
  <2>3. BMSSent(x) = [y EXCEPT !.retryCount = n]
    BY <2>1, <2>2 DEF BMSSent
  <2> QED
    BY <1>2, <2>1, <2>2, <2>3
<1>5. ASSUME NEW b \in BOOLEAN
      PROVE  /\ [x EXCEPT !.due = b] \in Battery
             /\ [x EXCEPT !.due = b].status = x.status
             /\ [x EXCEPT !.due = b].retryCount = x.retryCount
             /\ [x EXCEPT !.queryDue = b] \in Battery
             /\ [x EXCEPT !.queryDue = b].status = x.status
             /\ [x EXCEPT !.queryDue = b].retryCount = x.retryCount
  BY DEF Battery
<1> QED
  BY <1>1, <1>3, <1>4, <1>5

(* One counter of a radio changes. *)
LEMMA RegsSet ==
  ASSUME NEW x \in Counter, NEW n \in Nat, NEW y, y = [x EXCEPT !.regs = n]
  PROVE  /\ y \in Counter /\ y.regs = n
         /\ y.deregs = x.deregs /\ y.refusals = x.refusals /\ y.lrrp = x.lrrp
         /\ y.discoveries = x.discoveries /\ y.gone = x.gone
BY DEF Counter

LEMMA DeregsSet ==
  ASSUME NEW x \in Counter, NEW n \in Nat, NEW y, y = [x EXCEPT !.deregs = n]
  PROVE  /\ y \in Counter /\ y.deregs = n
         /\ y.regs = x.regs /\ y.refusals = x.refusals /\ y.lrrp = x.lrrp
         /\ y.discoveries = x.discoveries /\ y.gone = x.gone
BY DEF Counter

LEMMA RefusalsSet ==
  ASSUME NEW x \in Counter, NEW n \in Nat, NEW y, y = [x EXCEPT !.refusals = n]
  PROVE  /\ y \in Counter /\ y.refusals = n
         /\ y.regs = x.regs /\ y.deregs = x.deregs /\ y.lrrp = x.lrrp
         /\ y.discoveries = x.discoveries /\ y.gone = x.gone
BY DEF Counter

LEMMA GoneSet ==
  ASSUME NEW x \in Counter, NEW n \in Nat, NEW y, y = [x EXCEPT !.gone = n]
  PROVE  /\ y \in Counter /\ y.gone = n
         /\ y.regs = x.regs /\ y.deregs = x.deregs /\ y.refusals = x.refusals
         /\ y.lrrp = x.lrrp /\ y.discoveries = x.discoveries
BY DEF Counter

-----------------------------------------------------------------------------
(***************************************************************************)
(* What the actions do, with the records they leave.                       *)
(***************************************************************************)
LEMMA NextCases ==
  ASSUME [Next]_vars
  PROVE  \/ WakeUp \/ Resume \/ EndPass \/ UNCHANGED vars
         \/ \E r \in Radios : NextRadio(r) \/ LeaveRadio(r)
         \/ \E r \in Radios : SendLRRP(r) \/ PassLRRP(r)
         \/ \E r \in Radios : DiscoveryBMS(r) \/ QueryBMS(r) \/ PassBMS(r)
         \/ \E r \in Radios : Register(r) \/ BMSReset(r) \/ BMSAck(r) \/ BMSRegister(r)
         \/ \E r \in Radios : OnRegistration(r) \/ OnDeregistration(r) \/ OnOtherPacket(r)
         \/ \E r \in Radios : OnBMSRegistration(r) \/ OnBMSReply(r) \/ OnBMSRefusal(r)
         \/ \E r \in Radios, i \in LRRPIds : OnLRRPPacket(r, i) \/ LRRPElapses(r, i)
         \/ \E r \in Radios : BMSElapses(r) \/ QueryElapses(r)
BY DEF Next, Worker, Visit, Continue, Listen, RetryElapses

(* Requests and batteries after a step of theirs. *)
LRRPGoes(r, i, x) ==
  /\ lrrp' \in [Radios -> [LRRPIds -> Request]] /\ lrrp'[r][i] = x
  /\ \A q \in Radios, j \in LRRPIds : q # r \/ j # i => lrrp'[q][j] = lrrp[q][j]

BMSGoes(r, x) ==
  bms' \in [Radios -> Battery] /\ bms'[r] = x /\ \A q \in Radios \ {r} : bms'[q] = bms[q]

(* A packet about a request, or its delay passing, leaves its retry count. *)
LEMMA RequestAnswered ==
  ASSUME TypeOK, NEW r \in Radios, NEW i \in LRRPIds, OnLRRPPacket(r, i) \/ LRRPElapses(r, i)
  PROVE  \E x \in Request : /\ LRRPGoes(r, i, x) /\ x.retryCount = lrrp[r][i].retryCount
                            /\ x.status # LRRP_STATUS_NONE
<1>1. lrrp \in [Radios -> [LRRPIds -> Request]] /\ lrrp[r][i] \in Request
  BY TypesAre, RequestsAre
<1>2. CASE OnLRRPPacket(r, i)
  <2>1. PICK status \in {LRRP_STATUS_CONFIRMED, LRRP_STATUS_RECEIVED} :
          lrrp' = [lrrp EXCEPT ![r][i] = LRRPSet(lrrp[r][i], status)]
    BY <1>2 DEF OnLRRPPacket
  <2>2. status \in LRRP_STATUS_NONE..LRRP_STATUS_RECEIVED /\ status # LRRP_STATUS_NONE
    BY Statuses DEF LRRP_STATUS_NONE, LRRP_STATUS_CONFIRMED, LRRP_STATUS_RECEIVED
  <2>3. /\ LRRPSet(lrrp[r][i], status) \in Request
        /\ LRRPSet(lrrp[r][i], status).status = status
        /\ LRRPSet(lrrp[r][i], status).retryCount = lrrp[r][i].retryCount
    BY <1>1, <2>2, RequestSetters, Zenon
  <2>4. PICK x \in Request : x = LRRPSet(lrrp[r][i], status) /\ x.status = status
                             /\ x.retryCount = lrrp[r][i].retryCount
    BY <2>3, Zenon
  <2>5. LRRPGoes(r, i, x)
    BY <1>1, <2>1, <2>4, RequestSet DEF LRRPGoes
  <2>6. QED
    BY <2>2, <2>4, <2>5, Zenon
<1>3. CASE LRRPElapses(r, i)
  <2>1. PICK x \in Request : x = [lrrp[r][i] EXCEPT !.due = TRUE] /\ x.status = lrrp[r][i].status
                             /\ x.retryCount = lrrp[r][i].retryCount
    BY <1>1, RequestSetters
  <2>2. lrrp' = [lrrp EXCEPT ![r][i] = x]
    BY <1>1, <1>3, <2>1 DEF LRRPElapses
  <2>3. LRRPGoes(r, i, x)
    BY <1>1, <2>2, RequestSet DEF LRRPGoes
  <2>4. x.status # LRRP_STATUS_NONE
    BY <1>3, <2>1 DEF LRRPElapses, LRRP_STATUS_NONE, LRRP_STATUS_SENT
  <2> QED
    BY <2>1, <2>3, <2>4
<1> QED
  BY <1>2, <1>3

LEMMA RequestSent ==
  ASSUME TypeOK, NEW r \in Radios, SendLRRP(r)
  PROVE  /\ worker.item \in LRRPIds /\ lrrp[r][worker.item].status = LRRP_STATUS_NONE
         /\ \E x \in Request : /\ LRRPGoes(r, worker.item, x)
                               /\ x.retryCount = lrrp[r][worker.item].retryCount + 1
                               /\ x.status # LRRP_STATUS_NONE
<1>1. PICK i \in LRRPIds : i = worker.item /\ lrrp[r][i].status = LRRP_STATUS_NONE
  BY DEF SendLRRP
<1>2. lrrp \in [Radios -> [LRRPIds -> Request]] /\ lrrp[r][i] \in Request
  BY TypesAre, RequestsAre
<1>3. PICK x \in Request : /\ x = LRRPSent(lrrp[r][i]) /\ x.status = LRRP_STATUS_SENT
                           /\ x.retryCount = lrrp[r][i].retryCount + 1
  BY <1>2, RequestSetters
<1>4. lrrp' = [lrrp EXCEPT ![r][i] = x]
  BY <1>1, <1>3 DEF SendLRRP
<1>5. LRRPGoes(r, i, x)
  BY <1>2, <1>4, RequestSet DEF LRRPGoes
<1> QED
  BY <1>1, <1>3, <1>5 DEF LRRP_STATUS_NONE, LRRP_STATUS_SENT

LEMMA RequestPassed ==
  ASSUME TypeOK, NEW r \in Radios, PassLRRP(r)
  PROVE  /\ worker.item \in LRRPIds
         /\ \E x \in Request : /\ LRRPGoes(r, worker.item, x)
                               /\ x.retryCount = lrrp[r][worker.item].retryCount
                               /\ x.status = LRRP_STATUS_NONE => x.retryCount < LRRPRetryCount
<1>1. PICK i \in LRRPIds : i = worker.item /\ lrrp[r][i].status # LRRP_STATUS_NONE
  BY DEF PassLRRP
<1>2. lrrp \in [Radios -> [LRRPIds -> Request]] /\ lrrp[r][i] \in Request
  BY TypesAre, RequestsAre
<1>3. PICK x \in Request :
        /\ x = IF MayRetryLRRP(lrrp[r][i]) THEN LRRPSet(lrrp[r][i], LRRP_STATUS_NONE) ELSE lrrp[r][i]
        /\ x.retryCount = lrrp[r][i].retryCount
        /\ x.status = LRRP_STATUS_NONE => MayRetryLRRP(lrrp[r][i])
  <2>1. LRRP_STATUS_NONE \in LRRP_STATUS_NONE..LRRP_STATUS_RECEIVED
    BY Statuses
  <2>2. /\ LRRPSet(lrrp[r][i], LRRP_STATUS_NONE) \in Request
        /\ LRRPSet(lrrp[r][i], LRRP_STATUS_NONE).retryCount = lrrp[r][i].retryCount
    BY <1>2, <2>1, RequestSetters, Zenon
  <2>3. CASE MayRetryLRRP(lrrp[r][i])
    BY <2>2, <2>3, Zenon
  <2>4. CASE ~MayRetryLRRP(lrrp[r][i])
    BY <1>1, <1>2, <2>4, Zenon
  <2>5. QED
    BY <2>3, <2>4
<1>4. lrrp' = [lrrp EXCEPT ![r][i] = x]
  BY <1>1, <1>3 DEF PassLRRP
<1>5. LRRPGoes(r, i, x)
  BY <1>2, <1>4, RequestSet DEF LRRPGoes
<1> QED
  BY <1>1, <1>3, <1>5 DEF MayRetryLRRP

LEMMA BatteryAnswered ==
  ASSUME TypeOK, NEW r \in Radios,
         BMSRegister(r) \/ OnBMSReply(r) \/ BMSElapses(r) \/ QueryElapses(r) \/ QueryBMS(r)
  PROVE  \E x \in Battery :
           /\ BMSGoes(r, x) /\ x.retryCount = bms[r].retryCount
           /\ x.status \in {bms[r].status, BMS_STATUS_REGISTERED, BMS_STATUS_RECEIVED}
<1>1. bms \in [Radios -> Battery] /\ bms[r] \in Battery
  BY TypesAre
<1>2. ASSUME NEW x \in Battery, bms' = [bms EXCEPT ![r] = x]
      PROVE  BMSGoes(r, x)
  BY <1>1, <1>2 DEF BMSGoes
<1>3. ASSUME NEW status \in {BMS_STATUS_REGISTERED, BMS_STATUS_RECEIVED},
             bms' = [bms EXCEPT ![r] = BMSSet(@, status)]
      PROVE  \E x \in Battery : /\ BMSGoes(r, x) /\ x.retryCount = bms[r].retryCount
                                /\ x.status = status
  <2>1. status \in BMS_STATUS_NONE..BMS_STATUS_RECEIVED
    BY Statuses
  <2>2. /\ BMSSet(bms[r], status) \in Battery /\ BMSSet(bms[r], status).status = status
        /\ BMSSet(bms[r], status).retryCount = bms[r].retryCount
    BY <1>1, <2>1, BatterySetters
  <2>3. PICK x \in Battery : x = BMSSet(bms[r], status) /\ x.status = status
                             /\ x.retryCount = bms[r].retryCount
    BY <2>2
  <2> QED
    BY <1>2, <1>3, <2>3
<1>4. CASE BMSRegister(r) \/ OnBMSReply(r)
  BY <1>3, <1>4 DEF BMSRegister, OnBMSReply
<1>5. CASE BMSElapses(r)
  <2>1. PICK x \in Battery : x = [bms[r] EXCEPT !.due = TRUE] /\ x.status = bms[r].status
                             /\ x.retryCount = bms[r].retryCount
    BY <1>1, BatterySetters
  <2>2. bms' = [bms EXCEPT ![r] = x]
    BY <1>1, <1>5, <2>1 DEF BMSElapses
  <2> QED
    BY <1>2, <2>1, <2>2
<1>6. CASE QueryElapses(r)
  <2>1. PICK x \in Battery : x = [bms[r] EXCEPT !.queryDue = TRUE] /\ x.status = bms[r].status
                             /\ x.retryCount = bms[r].retryCount
    BY <1>1, BatterySetters
  <2>2. bms' = [bms EXCEPT ![r] = x]
    BY <1>1, <1>6, <2>1 DEF QueryElapses
  <2> QED
    BY <1>2, <2>1, <2>2
<1>7. CASE QueryBMS(r)
  <2>1. PICK x \in Battery : x = [bms[r] EXCEPT !.queryDue = FALSE] /\ x.status = bms[r].status
                             /\ x.retryCount = bms[r].retryCount
    BY <1>1, BatterySetters
  <2>2. bms' = [bms EXCEPT ![r] = x]
    BY <1>1, <1>7, <2>1 DEF QueryBMS
  <2> QED
    BY <1>2, <2>1, <2>2
<1> QED
  BY <1>4, <1>5, <1>6, <1>7

LEMMA BatteryAnew ==
  ASSUME TypeOK, NEW r \in Radios, BMSReset(r) \/ OnBMSRefusal(r)
  PROVE  \E x \in Battery : BMSGoes(r, x) /\ x.retryCount = 0
<1>1. bms \in [Radios -> Battery] /\ bms[r] \in Battery
  BY TypesAre
<1>2. PICK x \in Battery : x = BMSAnew(bms[r]) /\ x.retryCount = 0
  BY <1>1, BatterySetters
<1>3. bms' = [bms EXCEPT ![r] = x]
  BY <1>2 DEF BMSReset, OnBMSRefusal
<1> QED
  BY <1>1, <1>2, <1>3 DEF BMSGoes

LEMMA DiscoverySent ==
  ASSUME TypeOK, NEW r \in Radios, DiscoveryBMS(r)
  PROVE  /\ bms[r].status = BMS_STATUS_UNREGISTERED
         /\ \E x \in Battery : /\ BMSGoes(r, x) /\ x.retryCount = bms[r].retryCount + 1
                               /\ x.status = BMS_STATUS_DISCOVERY_SENT
<1>1. bms \in [Radios -> Battery] /\ bms[r] \in Battery
  BY TypesAre
<1>2. PICK x \in Battery : x = BMSSent(bms[r]) /\ x.retryCount = bms[r].retryCount + 1
                           /\ x.status = BMS_STATUS_DISCOVERY_SENT
  BY <1>1, BatterySetters
<1>3. bms' = [bms EXCEPT ![r] = x] /\ bms[r].status = BMS_STATUS_UNREGISTERED
  BY <1>2 DEF DiscoveryBMS
<1> QED
  BY <1>1, <1>2, <1>3 DEF BMSGoes

LEMMA BatteryPassed ==
  ASSUME TypeOK, NEW r \in Radios, PassBMS(r)
  PROVE  \E x \in Battery :
           /\ BMSGoes(r, x) /\ x.retryCount = bms[r].retryCount
           /\ \/ x.status = bms[r].status
              \/ /\ bms[r].status = BMS_STATUS_DISCOVERY_SENT
                 /\ x.status = BMS_STATUS_UNREGISTERED /\ x.retryCount < BMSRetryCount
<1>1. bms \in [Radios -> Battery] /\ bms[r] \in Battery
  BY TypesAre
<1>2. /\ BMSSet(bms[r], BMS_STATUS_UNREGISTERED) \in Battery
      /\ BMSSet(bms[r], BMS_STATUS_UNREGISTERED).status = BMS_STATUS_UNREGISTERED
      /\ BMSSet(bms[r], BMS_STATUS_UNREGISTERED).retryCount = bms[r].retryCount
  BY <1>1, Statuses, BatterySetters
<1>3. PICK x \in Battery :
        /\ x = IF options.BMSEnabled /\ MayRetryBMS(bms[r])
                 THEN BMSSet(bms[r], BMS_STATUS_UNREGISTERED) ELSE bms[r]
        /\ x.retryCount = bms[r].retryCount
        /\ \/ x.status = bms[r].status
           \/ MayRetryBMS(bms[r]) /\ x.status = BMS_STATUS_UNREGISTERED
  BY <1>1, <1>2
<1>4. bms' = [bms EXCEPT ![r] = x]
  BY <1>3 DEF PassBMS
<1>5. BMSGoes(r, x)
  BY <1>1, <1>4 DEF BMSGoes
<1> QED
  BY <1>3, <1>5 DEF MayRetryBMS

(* Counters after a step that counts for r. *)
Counts(r, c) ==
  count' \in [Radios -> Counter] /\ count'[r] = c /\ \A q \in Radios \ {r} : count'[q] = count[q]

(* A registration: the requests start again, the battery's timer is set. *)
LEMMA Registered ==
  ASSUME TypeOK, NEW r \in Radios, Register(r)
  PROVE  /\ ars' \in [Radios -> {ARS_STATUS_UNREGISTERED, ARS_STATUS_REGISTERED}]
         /\ ars'[r] = ARS_STATUS_REGISTERED
         /\ \A q \in Radios \ {r} : ars'[q] = ars[q]
         /\ lrrp' \in [Radios -> [LRRPIds -> Request]]
         /\ \A i \in LRRPIds : lrrp'[r][i].retryCount = 0
         /\ \A q \in Radios \ {r} : lrrp'[q] = lrrp[q]
         /\ pending' \in [Radios -> Pending]
         /\ pending[r].register > 0
         /\ pending'[r].register = pending[r].register - 1
         /\ pending'[r].bmsReset = pending[r].bmsReset + 1
         /\ \A q \in Radios \ {r} : pending'[q] = pending[q]
         /\ \E c \in Counter : /\ Counts(r, c) /\ c.regs = count[r].regs + 1
                               /\ c.deregs = count[r].deregs /\ c.refusals = count[r].refusals
                               /\ c.lrrp = count[r].lrrp /\ c.gone = count[r].gone
                               /\ c.discoveries = count[r].discoveries
<1>1. /\ ars \in [Radios -> {ARS_STATUS_UNREGISTERED, ARS_STATUS_REGISTERED}]
      /\ lrrp \in [Radios -> [LRRPIds -> Request]] /\ pending \in [Radios -> Pending]
      /\ count \in [Radios -> Counter]
  BY TypesAre
<1>2. /\ ars' \in [Radios -> {ARS_STATUS_UNREGISTERED, ARS_STATUS_REGISTERED}]
      /\ ars'[r] = ARS_STATUS_REGISTERED
      /\ \A q \in Radios \ {r} : ars'[q] = ars[q]
  BY <1>1 DEF Register, SetRegistered
<1>3. /\ lrrp' \in [Radios -> [LRRPIds -> Request]]
      /\ \A i \in LRRPIds : lrrp'[r][i].retryCount = 0
      /\ \A q \in Radios \ {r} : lrrp'[q] = lrrp[q]
  <2>1. \A i \in LRRPIds : /\ LRRPAnew(lrrp[r][i]) \in Request
                           /\ LRRPAnew(lrrp[r][i]).retryCount = 0
    BY <1>1, RequestsAre, RequestSetters
  <2>2. PICK h \in [LRRPIds -> Request] : h = [i \in LRRPIds |-> LRRPAnew(lrrp[r][i])]
    BY <2>1
  <2>3. lrrp' = [lrrp EXCEPT ![r] = h]
    BY <2>2 DEF Register, SetRegistered
  <2> QED
    BY <1>1, <2>1, <2>2, <2>3
<1>4. /\ pending' \in [Radios -> Pending] /\ pending[r].register > 0
      /\ pending'[r].register = pending[r].register - 1
      /\ pending'[r].bmsReset = pending[r].bmsReset + 1
      /\ \A q \in Radios \ {r} : pending'[q] = pending[q]
  BY <1>1 DEF Register, Pending
<1>5. count[r] \in Counter
  BY <1>1
<1>6. PICK n \in Nat : n = count[r].regs + 1
  BY <1>1 DEF Counter
<1>7. PICK c : c = [count[r] EXCEPT !.regs = n]
  OBVIOUS
<1>8. count' = [count EXCEPT ![r] = c]
  BY <1>1, <1>6, <1>7 DEF Register
<1>9. /\ c \in Counter /\ c.regs = n
      /\ c.deregs = count[r].deregs /\ c.refusals = count[r].refusals
      /\ c.lrrp = count[r].lrrp /\ c.gone = count[r].gone
       /\ c.discoveries = count[r].discoveries
  BY <1>6, <1>7, <1>5, RegsSet
<1>10. Counts(r, c)
  BY <1>1, <1>8, <1>9 DEF Counts
<1> QED
  BY <1>2, <1>3, <1>4, <1>6, <1>10, <1>9

LEMMA Deregistered ==
  ASSUME TypeOK, NEW r \in Radios, OnDeregistration(r)
  PROVE  /\ ars' \in [Radios -> {ARS_STATUS_UNREGISTERED, ARS_STATUS_REGISTERED}]
         /\ ars'[r] = ARS_STATUS_UNREGISTERED
         /\ \A q \in Radios \ {r} : ars'[q] = ars[q]
         /\ heard' \in [Radios -> Heart]
         /\ heard'[r].last = "dereg" /\ (pending[r].register > 0 => heard'[r].hasty)
         /\ \A q \in Radios \ {r} : heard'[q] = heard[q]
         /\ \E c \in Counter : /\ Counts(r, c) /\ c.deregs = count[r].deregs + 1
                               /\ c.regs = count[r].regs /\ c.refusals = count[r].refusals
                               /\ c.lrrp = count[r].lrrp /\ c.gone = count[r].gone
                               /\ c.discoveries = count[r].discoveries
<1>1. /\ ars \in [Radios -> {ARS_STATUS_UNREGISTERED, ARS_STATUS_REGISTERED}]
      /\ heard \in [Radios -> Heart] /\ count \in [Radios -> Counter]
  BY TypesAre
<1>2. /\ ars' \in [Radios -> {ARS_STATUS_UNREGISTERED, ARS_STATUS_REGISTERED}]
      /\ ars'[r] = ARS_STATUS_UNREGISTERED
      /\ \A q \in Radios \ {r} : ars'[q] = ars[q]
  BY <1>1 DEF OnDeregistration
<1>3. /\ heard' \in [Radios -> Heart]
      /\ heard'[r].last = "dereg" /\ (pending[r].register > 0 => heard'[r].hasty)
      /\ \A q \in Radios \ {r} : heard'[q] = heard[q]
  <2>1. PICK b \in BOOLEAN : b = (pending[r].register > 0)
    <3>1. pending[r].register \in Nat
      BY TypesAre DEF Pending
    <3>2. (pending[r].register > 0) \in BOOLEAN
      BY <3>1, SMT
    <3> QED
      BY <3>2, Zenon
  <2>2. PICK h \in Heart : h = [last |-> "dereg", hasty |-> b]
    BY DEF Heart
  <2>3. heard' = [heard EXCEPT ![r] = h]
    BY <2>1, <2>2 DEF OnDeregistration
  <2>4. heard' \in [Radios -> Heart] /\ heard'[r] = h /\ \A q \in Radios \ {r} : heard'[q] = heard[q]
    BY <1>1, <2>3
  <2>5. pending[r].register > 0 => b
    BY <2>1, Zenon
  <2> QED
    BY <2>2, <2>4, <2>5
<1>4. count[r] \in Counter
  BY <1>1
<1>5. PICK n \in Nat : n = count[r].deregs + 1
  BY <1>4 DEF Counter
<1>6. PICK c : c = [count[r] EXCEPT !.deregs = n]
  OBVIOUS
<1>7. count' = [count EXCEPT ![r] = c]
  BY <1>1, <1>5, <1>6 DEF OnDeregistration
<1>8. /\ c \in Counter /\ c.deregs = n
      /\ c.regs = count[r].regs /\ c.refusals = count[r].refusals
      /\ c.lrrp = count[r].lrrp /\ c.gone = count[r].gone
      /\ c.discoveries = count[r].discoveries
  BY <1>4, <1>5, <1>6, DeregsSet
<1>9. Counts(r, c)
  BY <1>1, <1>7, <1>8 DEF Counts
<1> QED
  BY <1>2, <1>3, <1>5, <1>8, <1>9

LEMMA Refused ==
  ASSUME TypeOK, NEW r \in Radios, OnBMSRefusal(r)
  PROVE  \E c \in Counter : /\ Counts(r, c) /\ c.refusals = count[r].refusals + 1
                            /\ c.regs = count[r].regs /\ c.deregs = count[r].deregs
                            /\ c.lrrp = count[r].lrrp /\ c.gone = count[r].gone
                            /\ c.discoveries = count[r].discoveries
<1>1. count \in [Radios -> Counter] /\ count[r] \in Counter
  BY TypesAre
<1>2. PICK n \in Nat : n = count[r].refusals + 1
  BY <1>1 DEF Counter
<1>3. PICK c : c = [count[r] EXCEPT !.refusals = n]
  OBVIOUS
<1>4. count' = [count EXCEPT ![r] = c]
  BY <1>1, <1>2, <1>3 DEF OnBMSRefusal
<1>5. /\ c \in Counter /\ c.refusals = n
      /\ c.regs = count[r].regs /\ c.deregs = count[r].deregs
      /\ c.lrrp = count[r].lrrp /\ c.gone = count[r].gone
      /\ c.discoveries = count[r].discoveries
  BY <1>1, <1>2, <1>3, RefusalsSet
<1>6. Counts(r, c)
  BY <1>1, <1>4, <1>5 DEF Counts
<1> QED
  BY <1>2, <1>5, <1>6

(* What a send to radio r leaves: it counts as gone if r is not registered. *)
LEMMA GoneIs ==
  ASSUME TypeOK, NEW r \in Radios
  PROVE  /\ Gone(r) \in Nat
         /\ IsRegistered(r) => Gone(r) = count[r].gone
         /\ ~IsRegistered(r) => Gone(r) = count[r].gone + 1
<1>1. count[r].gone \in Nat
  BY TypesAre DEF Counter
<1> QED
  BY <1>1 DEF Gone

LEMMA QueryCounted ==
  ASSUME TypeOK, NEW r \in Radios, QueryBMS(r)
  PROVE  \E c \in Counter : /\ Counts(r, c) /\ c.gone = Gone(r)
                            /\ c.regs = count[r].regs /\ c.deregs = count[r].deregs
                            /\ c.refusals = count[r].refusals /\ c.lrrp = count[r].lrrp
                            /\ c.discoveries = count[r].discoveries
<1>1. count \in [Radios -> Counter] /\ count[r] \in Counter
  BY TypesAre
<1>2. PICK n \in Nat : n = Gone(r)
  BY GoneIs
<1>3. PICK c : c = [count[r] EXCEPT !.gone = n]
  OBVIOUS
<1>4. count' = [count EXCEPT ![r] = c]
  BY <1>1, <1>2, <1>3 DEF QueryBMS
<1>5. /\ c \in Counter /\ c.gone = n
      /\ c.regs = count[r].regs /\ c.deregs = count[r].deregs
      /\ c.refusals = count[r].refusals /\ c.lrrp = count[r].lrrp
      /\ c.discoveries = count[r].discoveries
  BY <1>1, <1>2, <1>3, GoneSet
<1>6. Counts(r, c)
  BY <1>1, <1>4, <1>5 DEF Counts
<1> QED
  BY <1>2, <1>5, <1>6

LEMMA DiscoveryCounted ==
  ASSUME TypeOK, NEW r \in Radios, DiscoveryBMS(r)
  PROVE  \E c \in Counter : /\ Counts(r, c) /\ c.gone = Gone(r)
                            /\ c.discoveries = count[r].discoveries + 1
                            /\ c.regs = count[r].regs /\ c.deregs = count[r].deregs
                            /\ c.refusals = count[r].refusals /\ c.lrrp = count[r].lrrp
<1>1. count \in [Radios -> Counter] /\ count[r] \in Counter
  BY TypesAre
<1>2. PICK n \in Nat, k \in Nat : n = Gone(r) /\ k = count[r].discoveries + 1
  BY <1>1, GoneIs DEF Counter
<1>3. PICK c : c = [count[r] EXCEPT !.discoveries = k, !.gone = n]
  OBVIOUS
<1>4. count' = [count EXCEPT ![r] = c]
  BY <1>1, <1>2, <1>3 DEF DiscoveryBMS
<1>5. /\ c \in Counter /\ c.gone = n /\ c.discoveries = k
      /\ c.regs = count[r].regs /\ c.deregs = count[r].deregs
      /\ c.refusals = count[r].refusals /\ c.lrrp = count[r].lrrp
  BY <1>1, <1>2, <1>3 DEF Counter
<1>6. Counts(r, c)
  BY <1>1, <1>4, <1>5 DEF Counts
<1> QED
  BY <1>2, <1>5, <1>6

LEMMA SendCounted ==
  ASSUME TypeOK, NEW r \in Radios, SendLRRP(r)
  PROVE  \E c \in Counter :
           /\ Counts(r, c) /\ c.gone = Gone(r)
           /\ c.lrrp[worker.item] = count[r].lrrp[worker.item] + 1
           /\ \A j \in LRRPIds \ {worker.item} : c.lrrp[j] = count[r].lrrp[j]
           /\ c.regs = count[r].regs /\ c.deregs = count[r].deregs
           /\ c.refusals = count[r].refusals /\ c.discoveries = count[r].discoveries
<1>1. count \in [Radios -> Counter] /\ count[r] \in Counter
  BY TypesAre
<1>2. PICK n \in Nat : n = Gone(r)
  BY GoneIs
<1>3. PICK i \in LRRPIds : i = worker.item
  BY DEF SendLRRP
<1>4. PICK k \in Nat : k = count[r].lrrp[i] + 1
  BY <1>1 DEF Counter
<1>5. PICK c : c = [count[r] EXCEPT !.lrrp[i] = k, !.gone = n]
  OBVIOUS
<1>6. count' = [count EXCEPT ![r] = c]
  BY <1>1, <1>2, <1>3, <1>4, <1>5 DEF SendLRRP
<1>7. /\ c \in Counter /\ c.gone = n /\ c.lrrp[i] = k
      /\ \A j \in LRRPIds \ {i} : c.lrrp[j] = count[r].lrrp[j]
      /\ c.regs = count[r].regs /\ c.deregs = count[r].deregs
      /\ c.refusals = count[r].refusals /\ c.discoveries = count[r].discoveries
  BY <1>1, <1>5 DEF Counter
<1>8. Counts(r, c)
  BY <1>1, <1>6, <1>7 DEF Counts
<1> QED
  BY <1>2, <1>3, <1>4, <1>7, <1>8

-----------------------------------------------------------------------------
(* The worker's steps. *)
WorkerState == [pc : {"timer", "await", "run"}, todo : SUBSET Radios,
                at : Radios \cup {NONE}, item : FirstItem..BMSItem + 1]

LEMMA Items ==
  ASSUME TypeOK
  PROVE  /\ LRRPRequests \in Nat /\ BMSItem = LRRPRequests + 1 /\ BMSItem \in Nat
         /\ FirstItem \in 1..BMSItem
         /\ worker \in WorkerState /\ worker.item \in FirstItem..BMSItem + 1
         /\ worker.item \in Nat
<1>1. LRRPRequests \in Nat /\ BMSItem = LRRPRequests + 1 /\ BMSItem \in Nat
  BY DEF BMSItem
<1>2. FirstItem \in 1..BMSItem
  BY <1>1 DEF FirstItem
<1>3. worker \in WorkerState
  BY DEF TypeOK, WorkerState
<1>4. worker.item \in FirstItem..BMSItem + 1
  BY <1>3 DEF WorkerState
<1>5. worker.item \in Nat
  BY <1>1, <1>2, <1>4, SMT
<1> QED
  BY <1>1, <1>2, <1>3, <1>4, <1>5

LEMMA WorkerTurns ==
  ASSUME TypeOK, WakeUp \/ Resume \/ EndPass
  PROVE  /\ worker' \in WorkerState /\ worker'.item = worker.item
         /\ WakeUp => worker'.at = NONE /\ worker'.pc = "run"
         /\ Resume => worker'.at = worker.at /\ worker'.pc = "run"
         /\ EndPass => worker'.at = worker.at /\ worker.at = NONE /\ worker'.pc = "timer"
<1>1. worker \in WorkerState /\ known \subseteq Radios
  BY Items DEF TypeOK
<1>2. CASE WakeUp
  BY <1>1, <1>2 DEF WakeUp, WorkerState, Resume, EndPass, AtNoRadio
<1>3. CASE Resume
  BY <1>1, <1>3 DEF WakeUp, WorkerState, Resume, EndPass, AtNoRadio
<1>4. CASE EndPass
  BY <1>1, <1>4 DEF WakeUp, WorkerState, Resume, EndPass, AtNoRadio
<1> QED
  BY <1>2, <1>3, <1>4

LEMMA WorkerMoves ==
  ASSUME TypeOK, NEW r \in Radios, NextRadio(r) \/ LeaveRadio(r)
  PROVE  /\ worker' \in WorkerState /\ worker'.pc = "run"
         /\ \/ worker'.at = NONE
            \/ worker'.at = r /\ IsRegistered(r) /\ worker'.item = FirstItem
<1>1. worker \in WorkerState /\ FirstItem \in FirstItem..BMSItem + 1
  BY Items, SMT
<1>2. CASE NextRadio(r)
  <2>1. PICK at \in Radios \cup {NONE} : /\ at = IF MayVisit(r) THEN r ELSE NONE
                                         /\ at = NONE \/ (at = r /\ IsRegistered(r))
    BY DEF MayVisit
  <2>2. worker' = [worker EXCEPT !.todo = @ \ {r}, !.at = at, !.item = FirstItem]
        /\ worker.pc = "run"
    BY <1>2, <2>1 DEF NextRadio, AtNoRadio
  <2>3. worker' \in WorkerState /\ worker'.pc = "run" /\ worker'.at = at
        /\ worker'.item = FirstItem
    BY <1>1, <2>2 DEF WorkerState
  <2> QED
    BY <2>1, <2>3
<1>3. CASE LeaveRadio(r)
  BY <1>1, <1>3 DEF LeaveRadio, At, WorkerState
<1> QED
  BY <1>2, <1>3

LEMMA WorkerSends ==
  ASSUME TypeOK, NEW r \in Radios, SendLRRP(r) \/ DiscoveryBMS(r) \/ QueryBMS(r)
  PROVE  /\ worker' \in WorkerState /\ worker'.pc = "await"
         /\ worker.pc = "run" /\ worker.at = r /\ worker'.at = r
         /\ worker.item <= BMSItem /\ worker'.item = worker.item + 1
<1>1. worker \in WorkerState /\ worker.item \in FirstItem..BMSItem + 1 /\ FirstItem \in 1..BMSItem
      /\ BMSItem = LRRPRequests + 1 /\ LRRPRequests \in Nat
  BY Items
<1>2. worker.item <= BMSItem
  BY <1>1 DEF SendLRRP, DiscoveryBMS, QueryBMS, LRRPIds
<1>3. PICK n \in FirstItem..BMSItem + 1 : n = worker.item + 1
  BY <1>1, <1>2
<1>4. worker' = [worker EXCEPT !.pc = "await", !.item = n] /\ At(r)
  BY <1>3 DEF SendLRRP, DiscoveryBMS, QueryBMS
<1> QED
  BY <1>1, <1>2, <1>3, <1>4 DEF WorkerState, At

LEMMA WorkerPasses ==
  ASSUME TypeOK, NEW r \in Radios, PassLRRP(r) \/ PassBMS(r)
  PROVE  /\ worker' \in WorkerState /\ worker'.pc = "run"
         /\ worker.pc = "run" /\ worker.at = r /\ worker'.at = r
         /\ worker.item <= BMSItem /\ worker'.item = worker.item + 1
<1>1. worker \in WorkerState /\ worker.item \in FirstItem..BMSItem + 1 /\ FirstItem \in 1..BMSItem
      /\ BMSItem = LRRPRequests + 1 /\ LRRPRequests \in Nat
  BY Items
<1>2. worker.item <= BMSItem
  BY <1>1 DEF PassLRRP, PassBMS, LRRPIds
<1>3. PICK n \in FirstItem..BMSItem + 1 : n = worker.item + 1
  BY <1>1, <1>2
<1>4. worker' = [worker EXCEPT !.item = n] /\ At(r)
  BY <1>3 DEF PassLRRP, PassBMS
<1> QED
  BY <1>1, <1>2, <1>3, <1>4 DEF WorkerState, At

-----------------------------------------------------------------------------
(* Type correctness. *)
LEMMA TypeInit == Init => TypeOK
<1> SUFFICES ASSUME Init PROVE TypeOK
  OBVIOUS
<1>1. options \in Configurations /\ known \subseteq Radios
  BY DEF Init
<1>2. ars \in [Radios -> {ARS_STATUS_UNREGISTERED, ARS_STATUS_REGISTERED}]
  BY DEF Init
<1>3. lrrp \in [Radios -> [LRRPIds -> Request]]
  BY Statuses DEF Init, Request
<1>4. bms \in [Radios -> Battery]
  BY Statuses DEF Init, Battery
<1>5. pending \in [Radios -> Pending] /\ heard \in [Radios -> Heart]
  BY DEF Init, Pending, Heart
<1>6. worker \in WorkerState
  <2>1. LRRPRequests \in Nat /\ BMSItem = LRRPRequests + 1 /\ FirstItem \in {1, BMSItem}
    BY DEF BMSItem, FirstItem
  <2>2. FirstItem \in FirstItem..BMSItem + 1
    BY <2>1, SMT
  <2> QED
    BY <2>2 DEF Init, WorkerState
<1>7. count \in [Radios -> Counter]
  <2>1. [regs |-> 0, deregs |-> 0, refusals |-> 0, lrrp |-> [i \in LRRPIds |-> 0],
         discoveries |-> 0, gone |-> 0] \in Counter
    BY DEF Counter
  <2> QED
    BY <2>1 DEF Init
<1> QED
  BY <1>1, <1>2, <1>3, <1>4, <1>5, <1>6, <1>7
  DEF TypeOK, Request, Battery, Pending, Heart, Counter, WorkerState

LEMMA TypeFrom ==
  ASSUME options' = options, options \in Configurations, known' \subseteq Radios,
         ars' \in [Radios -> {ARS_STATUS_UNREGISTERED, ARS_STATUS_REGISTERED}],
         lrrp' \in [Radios -> [LRRPIds -> Request]], bms' \in [Radios -> Battery],
         pending' \in [Radios -> Pending], worker' \in WorkerState,
         heard' \in [Radios -> Heart], count' \in [Radios -> Counter]
  PROVE  TypeOK'
BY DEF TypeOK, Request, Battery, Pending, Heart, Counter, WorkerState, FirstItem, BMSItem

(* The continuations and the registrations that handlers leave behind. *)
LEMMA PendingTypes ==
  ASSUME TypeOK, NEW r \in Radios
  PROVE  /\ OnRegistration(r) => /\ pending' \in [Radios -> Pending]
                                 /\ heard' \in [Radios -> Heart]
         /\ BMSReset(r) \/ BMSAck(r) \/ BMSRegister(r) \/ OnBMSRegistration(r)
              => pending' \in [Radios -> Pending]
<1>1. pending \in [Radios -> Pending] /\ pending[r] \in Pending /\ heard \in [Radios -> Heart]
  BY TypesAre
<1>2. CASE OnRegistration(r)
  <2>1. PICK n \in Nat : n = pending[r].register + 1
    BY <1>1 DEF Pending
  <2>2. pending' = [pending EXCEPT ![r] = [pending[r] EXCEPT !.register = n]]
    BY <1>1, <1>2, <2>1 DEF OnRegistration
  <2>3. [pending[r] EXCEPT !.register = n] \in Pending
    BY <1>1 DEF Pending
  <2>4. heard' \in [Radios -> Heart]
    BY <1>1, <1>2 DEF OnRegistration, Heart
  <2> QED
    BY <1>1, <2>2, <2>3, <2>4 DEF BMSReset, BMSAck, BMSRegister, OnBMSRegistration
<1>3. BMSReset(r) => pending' \in [Radios -> Pending]
  BY <1>1 DEF BMSReset, Pending
<1>4. BMSAck(r) => pending' \in [Radios -> Pending]
  BY <1>1 DEF BMSAck, Pending
<1>5. BMSRegister(r) => pending' \in [Radios -> Pending]
  BY <1>1 DEF BMSRegister, Pending
<1>6. OnBMSRegistration(r) => pending' \in [Radios -> Pending]
  BY <1>1 DEF OnBMSRegistration, Pending
<1> QED
  BY <1>2, <1>3, <1>4, <1>5, <1>6

LEMMA TypeStep ==
  ASSUME TypeOK, [Next]_vars
  PROVE  TypeOK'
<1>1. /\ options \in Configurations /\ known \subseteq Radios /\ worker \in WorkerState
      /\ lrrp \in [Radios -> [LRRPIds -> Request]] /\ bms \in [Radios -> Battery]
      /\ pending \in [Radios -> Pending] /\ heard \in [Radios -> Heart]
      /\ count \in [Radios -> Counter]
      /\ ars \in [Radios -> {ARS_STATUS_UNREGISTERED, ARS_STATUS_REGISTERED}]
  BY TypesAre, Items DEF TypeOK
<1>2. CASE UNCHANGED vars
  BY <1>2 DEF TypeOK, vars, FirstItem, BMSItem
<1>3. CASE WakeUp \/ Resume \/ EndPass
  BY <1>1, <1>3, WorkerTurns, TypeFrom DEF WakeUp, Resume, EndPass
<1>4. ASSUME NEW r \in Radios, NextRadio(r) \/ LeaveRadio(r) PROVE TypeOK'
  BY <1>1, <1>4, WorkerMoves, TypeFrom DEF NextRadio, LeaveRadio
<1>5. ASSUME NEW r \in Radios, SendLRRP(r) PROVE TypeOK'
  BY <1>1, <1>5, WorkerSends, RequestSent, SendCounted, TypeFrom
  DEF SendLRRP, LRRPGoes, Counts
<1>6. ASSUME NEW r \in Radios, PassLRRP(r) PROVE TypeOK'
  BY <1>1, <1>6, WorkerPasses, RequestPassed, TypeFrom DEF PassLRRP, LRRPGoes
<1>7. ASSUME NEW r \in Radios, DiscoveryBMS(r) PROVE TypeOK'
  BY <1>1, <1>7, WorkerSends, DiscoverySent, DiscoveryCounted, TypeFrom
  DEF DiscoveryBMS, BMSGoes, Counts
<1>8. ASSUME NEW r \in Radios, QueryBMS(r) PROVE TypeOK'
  BY <1>1, <1>8, WorkerSends, BatteryAnswered, QueryCounted, TypeFrom
  DEF QueryBMS, BMSGoes, Counts
<1>9. ASSUME NEW r \in Radios, PassBMS(r) PROVE TypeOK'
  BY <1>1, <1>9, WorkerPasses, BatteryPassed, TypeFrom DEF PassBMS, BMSGoes
<1>10. ASSUME NEW r \in Radios, Register(r) PROVE TypeOK'
  BY <1>1, <1>10, Registered, TypeFrom DEF Register, Counts
<1>11. ASSUME NEW r \in Radios, BMSReset(r) PROVE TypeOK'
  BY <1>1, <1>11, BatteryAnew, PendingTypes, TypeFrom DEF BMSReset, BMSGoes
<1>12. ASSUME NEW r \in Radios, BMSAck(r) PROVE TypeOK'
  BY <1>1, <1>12, PendingTypes, TypeFrom DEF BMSAck
<1>13. ASSUME NEW r \in Radios, BMSRegister(r) PROVE TypeOK'
  BY <1>1, <1>13, BatteryAnswered, PendingTypes, TypeFrom DEF BMSRegister, BMSGoes
<1>14. ASSUME NEW r \in Radios, OnRegistration(r) PROVE TypeOK'
  BY <1>1, <1>14, PendingTypes, TypeFrom DEF OnRegistration, Heard
<1>15. ASSUME NEW r \in Radios, OnDeregistration(r) PROVE TypeOK'
  BY <1>1, <1>15, Deregistered, TypeFrom DEF OnDeregistration, Heard, Counts
<1>16. ASSUME NEW r \in Radios, OnOtherPacket(r) PROVE TypeOK'
  BY <1>1, <1>16, TypeFrom DEF OnOtherPacket, Heard
<1>17. ASSUME NEW r \in Radios, OnBMSRegistration(r) PROVE TypeOK'
  BY <1>1, <1>17, PendingTypes, TypeFrom DEF OnBMSRegistration, Heard
<1>18. ASSUME NEW r \in Radios, OnBMSReply(r) PROVE TypeOK'
  BY <1>1, <1>18, BatteryAnswered, TypeFrom DEF OnBMSReply, Heard, BMSGoes
<1>19. ASSUME NEW r \in Radios, OnBMSRefusal(r) PROVE TypeOK'
  BY <1>1, <1>19, BatteryAnew, Refused, TypeFrom DEF OnBMSRefusal, Heard, BMSGoes, Counts
<1>20. ASSUME NEW r \in Radios, NEW i \in LRRPIds, OnLRRPPacket(r, i) PROVE TypeOK'
  BY <1>1, <1>20, RequestAnswered, TypeFrom DEF OnLRRPPacket, Heard, LRRPGoes
<1>21. ASSUME NEW r \in Radios, NEW i \in LRRPIds, LRRPElapses(r, i) PROVE TypeOK'
  BY <1>1, <1>21, RequestAnswered, TypeFrom DEF LRRPElapses, LRRPGoes
<1>22. ASSUME NEW r \in Radios, BMSElapses(r) \/ QueryElapses(r) PROVE TypeOK'
  BY <1>1, <1>22, BatteryAnswered, TypeFrom DEF BMSElapses, QueryElapses, BMSGoes
<1> QED
  BY <1>2, <1>3, <1>4, <1>5, <1>6, <1>7, <1>8, <1>9, <1>10, <1>11, <1>12, <1>13, <1>14,
     <1>15, <1>16, <1>17, <1>18, <1>19, <1>20, <1>21, <1>22, NextCases

-----------------------------------------------------------------------------
(* A step that leaves r's counters but for what it sends, or all of them. *)
LEMMA RegsKept ==
  ASSUME TypeOK, [Next]_vars, NEW q \in Radios, \A r \in Radios : ~Register(r)
  PROVE  count'[q].regs = count[q].regs
<1>1. ASSUME NEW r \in Radios, NEW c, Counts(r, c), c.regs = count[r].regs
      PROVE  count'[q].regs = count[q].regs
  BY <1>1 DEF Counts
<1>2. CASE UNCHANGED count
  BY <1>2
<1>3. ASSUME NEW r \in Radios, SendLRRP(r) PROVE count'[q].regs = count[q].regs
  BY <1>1, <1>3, SendCounted
<1>4. ASSUME NEW r \in Radios, DiscoveryBMS(r) PROVE count'[q].regs = count[q].regs
  BY <1>1, <1>4, DiscoveryCounted
<1>5. ASSUME NEW r \in Radios, QueryBMS(r) PROVE count'[q].regs = count[q].regs
  BY <1>1, <1>5, QueryCounted
<1>6. ASSUME NEW r \in Radios, OnDeregistration(r) PROVE count'[q].regs = count[q].regs
  BY <1>1, <1>6, Deregistered
<1>7. ASSUME NEW r \in Radios, OnBMSRefusal(r) PROVE count'[q].regs = count[q].regs
  BY <1>1, <1>7, Refused
<1> QED
  BY <1>2, <1>3, <1>4, <1>5, <1>6, <1>7, NextCases
  DEF WakeUp, Resume, EndPass, NextRadio, LeaveRadio, PassLRRP, PassBMS, BMSReset, BMSAck,
      BMSRegister, OnRegistration, OnOtherPacket, OnBMSRegistration, OnBMSReply,
      OnLRRPPacket, LRRPElapses, BMSElapses, QueryElapses, vars

LEMMA AdmittedStep ==
  ASSUME TypeOK, Admitted, [Next]_vars
  PROVE  Admitted'
<1>1. /\ \A r \in Radios : IsRegistered(r) \/ worker.at = r => count[r].regs > 0
      /\ worker.at # NONE /\ worker.pc = "await" => worker.item > 1
      /\ worker.pc = "timer" => worker.at = NONE
  BY DEF Admitted
<1>2. ASSUME NEW r \in Radios, Register(r) PROVE Admitted'
  <2>1. PICK c \in Counter : Counts(r, c) /\ c.regs = count[r].regs + 1
    BY <1>2, Registered
  <2>2. count[r].regs \in Nat
    BY TypesAre DEF Counter
  <2>3. count'[r].regs > 0 /\ \A q \in Radios \ {r} : count'[q] = count[q]
    BY <2>1, <2>2 DEF Counts
  <2>4. \A q \in Radios \ {r} : ars'[q] = ars[q]
    BY <1>2, Registered
  <2>5. worker' = worker
    BY <1>2 DEF Register
  <2> QED
    BY <1>1, <2>3, <2>4, <2>5 DEF Admitted, IsRegistered
<1>3. ASSUME \A r \in Radios : ~Register(r) PROVE Admitted'
  <2>1. \A q \in Radios : count'[q].regs = count[q].regs
    BY <1>3, RegsKept
  <2>2. CASE UNCHANGED <<ars, worker>>
    BY <1>1, <2>1, <2>2 DEF Admitted, IsRegistered
  <2>3. CASE WakeUp \/ Resume \/ EndPass
    <3>1. UNCHANGED ars
      BY <2>3 DEF WakeUp, Resume, EndPass
    <3>2. worker'.at = NONE \/ (worker'.at = worker.at /\ worker'.pc = "run")
      BY <2>3, WorkerTurns
    <3> QED
      BY <1>1, <2>1, <3>1, <3>2, NoneAssumption DEF Admitted, IsRegistered
  <2>4. ASSUME NEW r \in Radios, NextRadio(r) \/ LeaveRadio(r) PROVE Admitted'
    <3>1. UNCHANGED ars
      BY <2>4 DEF NextRadio, LeaveRadio
    <3>2. worker'.pc = "run" /\ (worker'.at = NONE \/ (worker'.at = r /\ IsRegistered(r)))
      BY <2>4, WorkerMoves
    <3> QED
      BY <1>1, <2>1, <3>1, <3>2, NoneAssumption DEF Admitted, IsRegistered
  <2>5. ASSUME NEW r \in Radios, SendLRRP(r) \/ DiscoveryBMS(r) \/ QueryBMS(r)
        PROVE  Admitted'
    <3>1. UNCHANGED ars
      BY <2>5 DEF SendLRRP, DiscoveryBMS, QueryBMS
    <3>2. worker'.at = worker.at /\ worker'.pc = "await" /\ worker'.item = worker.item + 1
      BY <2>5, WorkerSends
    <3>3. worker'.item > 1
      BY <3>2, Items
    <3> QED
      BY <1>1, <2>1, <3>1, <3>2, <3>3 DEF Admitted, IsRegistered
  <2>6. ASSUME NEW r \in Radios, PassLRRP(r) \/ PassBMS(r) PROVE Admitted'
    <3>1. UNCHANGED ars
      BY <2>6 DEF PassLRRP, PassBMS
    <3>2. worker'.at = worker.at /\ worker'.pc = "run"
      BY <2>6, WorkerPasses
    <3> QED
      BY <1>1, <2>1, <3>1, <3>2 DEF Admitted, IsRegistered
  <2>7. ASSUME NEW r \in Radios, OnDeregistration(r) PROVE Admitted'
    <3>1. worker' = worker
      BY <2>7 DEF OnDeregistration
    <3>2. \A q \in Radios : IsRegistered(q)' => IsRegistered(q)
      BY <2>7, Deregistered
      DEF IsRegistered, ARS_STATUS_REGISTERED, ARS_STATUS_UNREGISTERED
    <3> QED
      BY <1>1, <2>1, <3>1, <3>2 DEF Admitted
  <2> QED
    BY <1>3, <2>2, <2>3, <2>4, <2>5, <2>6, <2>7, NextCases
    DEF BMSReset, BMSAck, BMSRegister, OnRegistration, OnOtherPacket, OnBMSRegistration,
        OnBMSReply, OnBMSRefusal, OnLRRPPacket, LRRPElapses, BMSElapses, QueryElapses, vars
<1> QED
  BY <1>2, <1>3

-----------------------------------------------------------------------------
(* The limits, and what one more reset adds to the account. *)
LEMMA Limits ==
  /\ LRRPLimit \in Nat /\ LRRPLimit >= 1 /\ LRRPRetryCount <= LRRPLimit
  /\ BMSLimit \in Nat /\ BMSLimit >= 1 /\ BMSRetryCount <= BMSLimit
BY DEF LRRPLimit, BMSLimit, AtLeastOne

LEMMA OneMore ==
  ASSUME NEW l \in Nat, NEW n \in Nat
  PROVE  l * (n + 1) = l * n + l /\ l * n \in Nat /\ l * 0 = 0 /\ l * 1 = l
BY SMT

LEMMA LessMore ==
  ASSUME NEW l \in Nat, NEW n \in Nat, NEW m \in Nat, n <= m
  PROVE  l * n <= l * m
<1>1. PICK k \in Nat : m = n + k
  <2>1. m - n \in Nat /\ m = n + (m - n)
    BY SMT
  <2> QED
    BY <2>1
<1>2. l * (n + k) = l * n + l * k /\ l * n \in Nat /\ l * k \in Nat
  BY SMT
<1> QED
  BY <1>1, <1>2, SMT

(* What a reset and a send do to an account, and what it bounds. *)
LEMMA AccountReset ==
  ASSUME NEW l \in Nat, NEW n \in Nat, NEW s \in Nat, NEW t \in Nat, t <= l,
         Account(l, n, s, t)
  PROVE  Account(l, n + 1, s, 0)
<1>1. l * (n + 1) = l * n + l /\ l * n \in Nat
  BY OneMore
<1>2. n = 0 => s = 0 /\ l * n = 0
  BY OneMore DEF Account
<1>3. n # 0 => s + l <= l * n + t
  BY DEF Account
<1>4. s + l <= (l * n + l) + 0
  BY <1>1, <1>2, <1>3, SMT
<1>5. n + 1 # 0
  BY SMT
<1> QED
  BY <1>1, <1>4, <1>5 DEF Account

LEMMA AccountBound ==
  ASSUME NEW l \in Nat, NEW n \in Nat, NEW s \in Nat, NEW t \in Nat, t <= l,
         Account(l, n, s, t)
  PROVE  s <= l * n
<1>1. l * n \in Nat
  BY OneMore
<1> QED
  BY <1>1, SMT DEF Account

LEMMA AccountSend ==
  ASSUME NEW l \in Nat, NEW n \in Nat, NEW s \in Nat, NEW t \in Nat, n # 0,
         Account(l, n, s, t)
  PROVE  Account(l, n, s + 1, t + 1)
<1>1. l * n \in Nat
  BY OneMore
<1> QED
  BY <1>1, SMT DEF Account

-----------------------------------------------------------------------------
(* The location requests of radio q, i of them, in account. *)
LRRPCountedAt(q, i) ==
  /\ lrrp[q][i].retryCount <= LRRPLimit
  /\ lrrp[q][i].status = LRRP_STATUS_NONE => lrrp[q][i].retryCount < LRRPLimit
  /\ Account(LRRPLimit, count[q].regs, count[q].lrrp[i], lrrp[q][i].retryCount)

LEMMA RequestTypes ==
  ASSUME TypeOK, NEW q \in Radios, NEW i \in LRRPIds
  PROVE  /\ lrrp[q][i].retryCount \in Nat /\ count[q].lrrp[i] \in Nat /\ count[q].regs \in Nat
<1>1. lrrp[q][i] \in Request
  BY TypesAre, RequestsAre
<1>2. count[q] \in Counter
  BY TypesAre
<1> QED
  BY <1>1, <1>2 DEF Request, Counter

LEMMA LRRPCountedStep ==
  ASSUME TypeOK, Admitted, LRRPCounted, [Next]_vars
  PROVE  LRRPCounted'
<1> SUFFICES ASSUME NEW q \in Radios, NEW j \in LRRPIds
             PROVE  LRRPCountedAt(q, j)'
  BY DEF LRRPCounted, LRRPCountedAt
<1>1. LRRPCountedAt(q, j)
  BY DEF LRRPCounted, LRRPCountedAt
<1>2. /\ lrrp[q][j].retryCount \in Nat /\ count[q].lrrp[j] \in Nat /\ count[q].regs \in Nat
      /\ LRRPLimit \in Nat /\ LRRPLimit >= 1 /\ LRRPRetryCount <= LRRPLimit
  BY RequestTypes, Limits
<1>3. ASSUME lrrp'[q][j] = lrrp[q][j], count'[q].lrrp[j] = count[q].lrrp[j],
             count'[q].regs = count[q].regs
      PROVE  LRRPCountedAt(q, j)'
  BY <1>1, <1>3 DEF LRRPCountedAt
<1>4. ASSUME NEW r \in Radios, Register(r) PROVE LRRPCountedAt(q, j)'
  <2>1. PICK c \in Counter : /\ Counts(r, c) /\ c.regs = count[r].regs + 1
                             /\ c.lrrp = count[r].lrrp
    BY <1>4, Registered
  <2>2. CASE q = r
    <3>1. lrrp'[q][j].retryCount = 0
      BY <1>4, <2>2, Registered
    <3>2. count'[q].lrrp[j] = count[q].lrrp[j] /\ count'[q].regs = count[q].regs + 1
      BY <2>1, <2>2 DEF Counts
    <3>3. Account(LRRPLimit, count[q].regs + 1, count[q].lrrp[j], 0)
      BY <1>1, <1>2, AccountReset DEF LRRPCountedAt
    <3>4. 0 < LRRPLimit /\ 0 <= LRRPLimit
      BY <1>2, SMT
    <3> QED
      BY <3>1, <3>2, <3>3, <3>4 DEF LRRPCountedAt
  <2>3. CASE q # r
    <3>1. lrrp'[q] = lrrp[q] /\ count'[q] = count[q]
      BY <1>4, <2>1, <2>3, Registered DEF Counts
    <3> QED
      BY <1>3, <3>1
  <2> QED
    BY <2>2, <2>3
<1>5. ASSUME NEW r \in Radios, SendLRRP(r) PROVE LRRPCountedAt(q, j)'
  <2>1. PICK c \in Counter :
          /\ Counts(r, c) /\ c.regs = count[r].regs
          /\ c.lrrp[worker.item] = count[r].lrrp[worker.item] + 1
          /\ \A i \in LRRPIds \ {worker.item} : c.lrrp[i] = count[r].lrrp[i]
    BY <1>5, SendCounted
  <2>2. PICK x \in Request : /\ LRRPGoes(r, worker.item, x)
                             /\ x.retryCount = lrrp[r][worker.item].retryCount + 1
                             /\ x.status # LRRP_STATUS_NONE
    BY <1>5, RequestSent
  <2>3. CASE q = r /\ j = worker.item
    <3>1. /\ lrrp'[q][j].retryCount = lrrp[q][j].retryCount + 1
          /\ lrrp'[q][j].status # LRRP_STATUS_NONE
      BY <2>2, <2>3 DEF LRRPGoes
    <3>2. count'[q].lrrp[j] = count[q].lrrp[j] + 1 /\ count'[q].regs = count[q].regs
      BY <2>1, <2>3 DEF Counts
    <3>3. count[q].regs # 0
      BY <1>2, <1>5, <2>3, WorkerSends DEF Admitted
    <3>4. Account(LRRPLimit, count[q].regs, count[q].lrrp[j] + 1, lrrp[q][j].retryCount + 1)
      BY <1>1, <1>2, <3>3, AccountSend DEF LRRPCountedAt
    <3>5. lrrp[q][j].retryCount < LRRPLimit
      BY <1>1, <1>5, <2>3, RequestSent DEF LRRPCountedAt
    <3>6. lrrp[q][j].retryCount + 1 <= LRRPLimit
      BY <1>2, <3>5, SMT
    <3> QED
      BY <3>1, <3>2, <3>4, <3>6 DEF LRRPCountedAt
  <2>4. CASE ~(q = r /\ j = worker.item)
    <3>1. lrrp'[q][j] = lrrp[q][j]
      BY <2>2, <2>4 DEF LRRPGoes
    <3>2. count'[q].lrrp[j] = count[q].lrrp[j] /\ count'[q].regs = count[q].regs
      BY <2>1, <2>4 DEF Counts
    <3> QED
      BY <1>3, <3>1, <3>2
  <2> QED
    BY <2>3, <2>4
<1>6. ASSUME NEW r \in Radios, NEW i \in LRRPIds, NEW x \in Request, LRRPGoes(r, i, x),
             x.retryCount = lrrp[r][i].retryCount,
             x.status = LRRP_STATUS_NONE => x.retryCount < LRRPRetryCount, UNCHANGED count
      PROVE  LRRPCountedAt(q, j)'
  <2>1. CASE q = r /\ j = i
    <3>1. lrrp'[q][j].retryCount = lrrp[q][j].retryCount
          /\ (lrrp'[q][j].status = LRRP_STATUS_NONE => lrrp[q][j].retryCount < LRRPRetryCount)
      BY <1>6, <2>1 DEF LRRPGoes
    <3>2. lrrp[q][j].retryCount < LRRPRetryCount => lrrp[q][j].retryCount < LRRPLimit
      BY <1>2, SMT
    <3> QED
      BY <1>1, <1>6, <3>1, <3>2 DEF LRRPCountedAt
  <2>2. CASE ~(q = r /\ j = i)
    BY <1>3, <1>6, <2>2 DEF LRRPGoes
  <2> QED
    BY <2>1, <2>2
<1>7. ASSUME NEW r \in Radios, PassLRRP(r) PROVE LRRPCountedAt(q, j)'
  BY <1>6, <1>7, RequestPassed DEF PassLRRP
<1>8. ASSUME NEW r \in Radios, NEW i \in LRRPIds, OnLRRPPacket(r, i) \/ LRRPElapses(r, i)
      PROVE  LRRPCountedAt(q, j)'
  BY <1>6, <1>8, RequestAnswered DEF OnLRRPPacket, LRRPElapses
<1>9. ASSUME UNCHANGED lrrp, NEW r \in Radios, NEW c, Counts(r, c), c.regs = count[r].regs,
             c.lrrp = count[r].lrrp
      PROVE  LRRPCountedAt(q, j)'
  BY <1>3, <1>9 DEF Counts
<1>10. ASSUME NEW r \in Radios,
              DiscoveryBMS(r) \/ QueryBMS(r) \/ OnDeregistration(r) \/ OnBMSRefusal(r)
       PROVE  LRRPCountedAt(q, j)'
  <2>1. UNCHANGED lrrp
    BY <1>10 DEF DiscoveryBMS, QueryBMS, OnDeregistration, OnBMSRefusal
  <2>2. PICK c \in Counter : Counts(r, c) /\ c.regs = count[r].regs /\ c.lrrp = count[r].lrrp
    BY <1>10, DiscoveryCounted, QueryCounted, Deregistered, Refused
  <2> QED
    BY <1>9, <2>1, <2>2
<1>11. CASE UNCHANGED <<lrrp, count>>
  BY <1>3, <1>11
<1> QED
  BY <1>4, <1>5, <1>7, <1>8, <1>10, <1>11, NextCases
  DEF WakeUp, Resume, EndPass, NextRadio, LeaveRadio, PassBMS, BMSReset, BMSAck, BMSRegister,
      OnRegistration, OnOtherPacket, OnBMSRegistration, OnBMSReply, BMSElapses, QueryElapses, vars

-----------------------------------------------------------------------------
(* The battery of radio q in account. *)
BMSCountedAt(q) ==
  /\ pending[q].bmsReset <= count[q].regs
  /\ bms[q].retryCount <= BMSLimit
  /\ bms[q].status = BMS_STATUS_UNREGISTERED => bms[q].retryCount < BMSLimit
  /\ Account(BMSLimit, Resets(q), count[q].discoveries, bms[q].retryCount)
  /\ bms[q].status \in {BMS_STATUS_UNREGISTERED, BMS_STATUS_DISCOVERY_SENT} => Resets(q) > 0

LEMMA BatteryTypes ==
  ASSUME TypeOK, NEW q \in Radios
  PROVE  /\ bms[q].retryCount \in Nat /\ count[q].discoveries \in Nat
         /\ count[q].regs \in Nat /\ count[q].refusals \in Nat /\ pending[q].bmsReset \in Nat
         /\ pending[q].bmsReset <= count[q].regs => Resets(q) \in Nat
<1>1. bms[q] \in Battery /\ count[q] \in Counter /\ pending[q] \in Pending
  BY TypesAre
<1>2. /\ bms[q].retryCount \in Nat /\ count[q].discoveries \in Nat
      /\ count[q].regs \in Nat /\ count[q].refusals \in Nat /\ pending[q].bmsReset \in Nat
  BY <1>1 DEF Battery, Counter, Pending
<1> QED
  BY <1>2, SMT DEF Resets

(* Continuations of other kinds leave the timers of the registrations. *)
LEMMA ResetsPending ==
  ASSUME TypeOK, NEW q \in Radios, NEW r \in Radios
  PROVE  /\ BMSAck(r) \/ BMSRegister(r) \/ OnRegistration(r) \/ OnBMSRegistration(r)
              => pending'[q].bmsReset = pending[q].bmsReset
         /\ BMSReset(r) => /\ pending[r].bmsReset > 0
                           /\ pending'[r].bmsReset = pending[r].bmsReset - 1
                           /\ q # r => pending'[q] = pending[q]
<1>1. pending \in [Radios -> Pending]
  BY TypesAre
<1>2. BMSAck(r) \/ BMSRegister(r) \/ OnRegistration(r) \/ OnBMSRegistration(r)
        => pending'[q].bmsReset = pending[q].bmsReset
  BY <1>1 DEF BMSAck, BMSRegister, OnRegistration, OnBMSRegistration, Pending
<1>3. BMSReset(r) => /\ pending[r].bmsReset > 0
                     /\ pending'[r].bmsReset = pending[r].bmsReset - 1
                     /\ q # r => pending'[q] = pending[q]
  BY <1>1 DEF BMSReset, Pending
<1> QED
  BY <1>2, <1>3

LEMMA BMSCountedStep ==
  ASSUME TypeOK, BMSCounted, [Next]_vars
  PROVE  BMSCounted'
<1> SUFFICES ASSUME NEW q \in Radios PROVE BMSCountedAt(q)'
  BY DEF BMSCounted, BMSCountedAt
<1>1. BMSCountedAt(q)
  BY DEF BMSCounted, BMSCountedAt
<1>2. /\ bms[q].retryCount \in Nat /\ count[q].discoveries \in Nat /\ Resets(q) \in Nat
      /\ count[q].regs \in Nat /\ count[q].refusals \in Nat /\ pending[q].bmsReset \in Nat
      /\ pending[q].bmsReset <= count[q].regs
      /\ BMSLimit \in Nat /\ BMSLimit >= 1 /\ BMSRetryCount <= BMSLimit
  BY <1>1, BatteryTypes, Limits DEF BMSCountedAt
(* the account stays, and so does what the status says of it *)
<1>3. ASSUME bms'[q].retryCount = bms[q].retryCount,
             bms'[q].status = BMS_STATUS_UNREGISTERED => bms[q].retryCount < BMSLimit,
             bms'[q].status \in {BMS_STATUS_UNREGISTERED, BMS_STATUS_DISCOVERY_SENT}
               => Resets(q) > 0,
             count'[q].discoveries = count[q].discoveries,
             Resets(q)' = Resets(q), pending'[q].bmsReset <= count'[q].regs
      PROVE  BMSCountedAt(q)'
  BY <1>1, <1>3 DEF BMSCountedAt
<1>4. ASSUME bms'[q] = bms[q], count'[q].discoveries = count[q].discoveries,
             count'[q].regs = count[q].regs, count'[q].refusals = count[q].refusals,
             pending'[q].bmsReset = pending[q].bmsReset
      PROVE  BMSCountedAt(q)'
  <2>1. Resets(q)' = Resets(q)
    BY <1>4 DEF Resets
  <2> QED
    BY <1>1, <1>4, <2>1 DEF BMSCountedAt
(* the retries start again *)
<1>5. ASSUME bms'[q].retryCount = 0, count'[q].discoveries = count[q].discoveries,
             Resets(q)' = Resets(q) + 1, pending'[q].bmsReset <= count'[q].regs
      PROVE  BMSCountedAt(q)'
  <2>1. Account(BMSLimit, Resets(q) + 1, count[q].discoveries, 0)
    BY <1>1, <1>2, AccountReset DEF BMSCountedAt
  <2>2. 0 <= BMSLimit /\ 0 < BMSLimit /\ Resets(q) + 1 > 0
    BY <1>2, SMT
  <2> QED
    BY <1>5, <2>1, <2>2 DEF BMSCountedAt
<1>6. ASSUME NEW r \in Radios, Register(r) PROVE BMSCountedAt(q)'
  <2>1. PICK c \in Counter :
          /\ Counts(r, c) /\ c.regs = count[r].regs + 1
          /\ c.refusals = count[r].refusals /\ c.discoveries = count[r].discoveries
    BY <1>6, Registered
  <2>2. bms' = bms
    BY <1>6 DEF Register
  <2>3. CASE q = r
    <3>1. /\ pending'[q].bmsReset = pending[q].bmsReset + 1
          /\ count'[q].regs = count[q].regs + 1 /\ count'[q].refusals = count[q].refusals
          /\ count'[q].discoveries = count[q].discoveries
      BY <1>6, <2>1, <2>3, Registered DEF Counts
    <3>2. Resets(q)' = Resets(q) /\ pending'[q].bmsReset <= count'[q].regs
      BY <1>2, <3>1, SMT DEF Resets
    <3> QED
      BY <1>1, <1>3, <2>2, <3>1, <3>2 DEF BMSCountedAt
  <2>4. CASE q # r
    BY <1>4, <1>6, <2>1, <2>2, <2>4, Registered DEF Counts
  <2> QED
    BY <2>3, <2>4
<1>7. ASSUME NEW r \in Radios, BMSReset(r) PROVE BMSCountedAt(q)'
  <2>1. PICK x \in Battery : BMSGoes(r, x) /\ x.retryCount = 0
    BY <1>7, BatteryAnew
  <2>2. count' = count
    BY <1>7 DEF BMSReset
  <2>3. CASE q = r
    <3>1. /\ bms'[q].retryCount = 0 /\ pending'[q].bmsReset = pending[q].bmsReset - 1
      BY <1>7, <2>1, <2>3, ResetsPending DEF BMSGoes
    <3>2. Resets(q)' = Resets(q) + 1 /\ pending'[q].bmsReset <= count'[q].regs
      BY <1>2, <2>2, <3>1, SMT DEF Resets
    <3> QED
      BY <1>5, <2>2, <3>1, <3>2
  <2>4. CASE q # r
    BY <1>4, <1>7, <2>1, <2>2, <2>4, ResetsPending DEF BMSGoes
  <2> QED
    BY <2>3, <2>4
<1>8. ASSUME NEW r \in Radios, OnBMSRefusal(r) PROVE BMSCountedAt(q)'
  <2>1. PICK x \in Battery : BMSGoes(r, x) /\ x.retryCount = 0
    BY <1>8, BatteryAnew
  <2>2. PICK c \in Counter :
          /\ Counts(r, c) /\ c.refusals = count[r].refusals + 1 /\ c.regs = count[r].regs
          /\ c.discoveries = count[r].discoveries
    BY <1>8, Refused
  <2>3. pending' = pending
    BY <1>8 DEF OnBMSRefusal
  <2>4. CASE q = r
    <3>1. /\ bms'[q].retryCount = 0 /\ count'[q].refusals = count[q].refusals + 1
          /\ count'[q].regs = count[q].regs /\ count'[q].discoveries = count[q].discoveries
      BY <2>1, <2>2, <2>4 DEF BMSGoes, Counts
    <3>2. Resets(q)' = Resets(q) + 1 /\ pending'[q].bmsReset <= count'[q].regs
      BY <1>2, <2>3, <3>1, SMT DEF Resets
    <3> QED
      BY <1>5, <3>1, <3>2
  <2>5. CASE q # r
    BY <1>4, <2>1, <2>2, <2>3, <2>5 DEF BMSGoes, Counts
  <2> QED
    BY <2>4, <2>5
<1>9. ASSUME NEW r \in Radios, DiscoveryBMS(r) PROVE BMSCountedAt(q)'
  <2>1. PICK x \in Battery : /\ BMSGoes(r, x) /\ x.retryCount = bms[r].retryCount + 1
                             /\ x.status = BMS_STATUS_DISCOVERY_SENT
    BY <1>9, DiscoverySent
  <2>2. PICK c \in Counter :
          /\ Counts(r, c) /\ c.discoveries = count[r].discoveries + 1
          /\ c.regs = count[r].regs /\ c.refusals = count[r].refusals
    BY <1>9, DiscoveryCounted
  <2>3. pending' = pending
    BY <1>9 DEF DiscoveryBMS
  <2>4. CASE q = r
    <3>1. /\ bms'[q].retryCount = bms[q].retryCount + 1
          /\ bms'[q].status = BMS_STATUS_DISCOVERY_SENT
          /\ count'[q].discoveries = count[q].discoveries + 1
          /\ count'[q].regs = count[q].regs /\ count'[q].refusals = count[q].refusals
      BY <2>1, <2>2, <2>4 DEF BMSGoes, Counts
    <3>2. bms[q].status = BMS_STATUS_UNREGISTERED
      BY <1>9, <2>4, DiscoverySent
    <3>3. Resets(q) > 0 /\ Resets(q) # 0 /\ bms[q].retryCount < BMSLimit
      BY <1>1, <1>2, <3>2 DEF BMSCountedAt
    <3>4. Account(BMSLimit, Resets(q), count[q].discoveries + 1, bms[q].retryCount + 1)
      BY <1>1, <1>2, <3>3, AccountSend DEF BMSCountedAt
    <3>5. bms[q].retryCount + 1 <= BMSLimit
      BY <1>2, <3>3, SMT
    <3>6. Resets(q)' = Resets(q) /\ pending'[q].bmsReset <= count'[q].regs
      BY <1>2, <2>3, <3>1 DEF Resets
    <3>7. BMS_STATUS_DISCOVERY_SENT # BMS_STATUS_UNREGISTERED
      BY DEF BMS_STATUS_DISCOVERY_SENT, BMS_STATUS_UNREGISTERED
    <3> QED
      BY <3>1, <3>3, <3>4, <3>5, <3>6, <3>7 DEF BMSCountedAt
  <2>5. CASE q # r
    BY <1>4, <2>1, <2>2, <2>3, <2>5 DEF BMSGoes, Counts
  <2> QED
    BY <2>4, <2>5
<1>10. ASSUME NEW r \in Radios, NEW x \in Battery, BMSGoes(r, x),
              x.retryCount = bms[r].retryCount,
              \/ x.status \in {bms[r].status, BMS_STATUS_REGISTERED, BMS_STATUS_RECEIVED}
              \/ /\ bms[r].status = BMS_STATUS_DISCOVERY_SENT
                 /\ x.status = BMS_STATUS_UNREGISTERED /\ x.retryCount < BMSRetryCount,
              \A p \in Radios : /\ pending'[p].bmsReset = pending[p].bmsReset
                                /\ count'[p].regs = count[p].regs
                                /\ count'[p].refusals = count[p].refusals
                                /\ count'[p].discoveries = count[p].discoveries
       PROVE  BMSCountedAt(q)'
  <2>1. CASE q = r
    <3>1. Resets(q)' = Resets(q) /\ pending'[q].bmsReset <= count'[q].regs
      BY <1>2, <1>10 DEF Resets
    <3>2. bms'[q] = x
      BY <1>10, <2>1 DEF BMSGoes
    <3>3. x.retryCount < BMSRetryCount => bms[q].retryCount < BMSLimit
      BY <1>2, <1>10, <2>1, SMT
    <3>4. x.status = BMS_STATUS_UNREGISTERED => bms[q].retryCount < BMSLimit
      BY <1>1, <1>10, <2>1, <3>3
      DEF BMSCountedAt, BMS_STATUS_UNREGISTERED, BMS_STATUS_REGISTERED, BMS_STATUS_RECEIVED
    <3>5. x.status \in {BMS_STATUS_UNREGISTERED, BMS_STATUS_DISCOVERY_SENT} => Resets(q) > 0
      BY <1>1, <1>10, <2>1
      DEF BMSCountedAt, BMS_STATUS_UNREGISTERED, BMS_STATUS_DISCOVERY_SENT,
          BMS_STATUS_REGISTERED, BMS_STATUS_RECEIVED
    <3> QED
      BY <1>3, <1>10, <2>1, <3>1, <3>2, <3>4, <3>5
  <2>2. CASE q # r
    BY <1>4, <1>10, <2>2 DEF BMSGoes
  <2> QED
    BY <2>1, <2>2
<1>11. ASSUME NEW r \in Radios, QueryBMS(r) PROVE BMSCountedAt(q)'
  <2>1. PICK x \in Battery :
           /\ BMSGoes(r, x) /\ x.retryCount = bms[r].retryCount
           /\ x.status \in {bms[r].status, BMS_STATUS_REGISTERED, BMS_STATUS_RECEIVED}
    BY <1>11, BatteryAnswered
  <2>2. PICK c \in Counter :
          /\ Counts(r, c) /\ c.discoveries = count[r].discoveries
          /\ c.regs = count[r].regs /\ c.refusals = count[r].refusals
    BY <1>11, QueryCounted
  <2>3. \A p \in Radios : /\ count'[p].regs = count[p].regs
                          /\ count'[p].refusals = count[p].refusals
                          /\ count'[p].discoveries = count[p].discoveries
    BY <2>2 DEF Counts
  <2>4. pending' = pending
    BY <1>11 DEF QueryBMS
  <2> QED
    BY <1>10, <2>1, <2>3, <2>4
<1>12. ASSUME NEW r \in Radios,
              BMSRegister(r) \/ OnBMSReply(r) \/ BMSElapses(r) \/ QueryElapses(r)
       PROVE  BMSCountedAt(q)'
  <2>1. PICK x \in Battery :
           /\ BMSGoes(r, x) /\ x.retryCount = bms[r].retryCount
           /\ x.status \in {bms[r].status, BMS_STATUS_REGISTERED, BMS_STATUS_RECEIVED}
    BY <1>12, BatteryAnswered
  <2>2. count' = count /\ \A p \in Radios : pending'[p].bmsReset = pending[p].bmsReset
    BY <1>12, ResetsPending DEF BMSRegister, OnBMSReply, BMSElapses, QueryElapses
  <2> QED
    BY <1>10, <2>1, <2>2
<1>13. ASSUME NEW r \in Radios, PassBMS(r) PROVE BMSCountedAt(q)'
  <2>1. PICK x \in Battery :
           /\ BMSGoes(r, x) /\ x.retryCount = bms[r].retryCount
           /\ \/ x.status = bms[r].status
              \/ /\ bms[r].status = BMS_STATUS_DISCOVERY_SENT
                 /\ x.status = BMS_STATUS_UNREGISTERED /\ x.retryCount < BMSRetryCount
    BY <1>13, BatteryPassed
  <2>2. UNCHANGED <<pending, count>>
    BY <1>13 DEF PassBMS
  <2> QED
    BY <1>10, <2>1, <2>2
<1>14. ASSUME NEW r \in Radios, SendLRRP(r) \/ OnDeregistration(r) PROVE BMSCountedAt(q)'
  <2>1. UNCHANGED <<bms, pending>>
    BY <1>14 DEF SendLRRP, OnDeregistration
  <2>2. PICK c \in Counter :
          /\ Counts(r, c) /\ c.discoveries = count[r].discoveries
          /\ c.regs = count[r].regs /\ c.refusals = count[r].refusals
    BY <1>14, SendCounted, Deregistered
  <2> QED
    BY <1>4, <2>1, <2>2 DEF Counts
<1>15. ASSUME NEW r \in Radios, BMSAck(r) \/ OnRegistration(r) \/ OnBMSRegistration(r)
       PROVE  BMSCountedAt(q)'
  BY <1>4, <1>15, ResetsPending DEF BMSAck, OnRegistration, OnBMSRegistration
<1>16. CASE UNCHANGED <<bms, pending, count>>
  BY <1>4, <1>16
<1> QED
  BY <1>6, <1>7, <1>8, <1>9, <1>11, <1>12, <1>13, <1>14, <1>15, <1>16, NextCases
  DEF WakeUp, Resume, EndPass, NextRadio, LeaveRadio, PassLRRP, OnOtherPacket, OnLRRPPacket,
      LRRPElapses, vars

-----------------------------------------------------------------------------
(* What the last ARS message of q says of its registration. *)
HeardAt(q) ==
  /\ heard[q].last = "none" => pending[q].register = 0
  /\ heard[q].last = "dereg" /\ ~heard[q].hasty => pending[q].register = 0
  /\ pending[q].register = 0 /\ heard[q].last # "none" /\ ~heard[q].hasty =>
       (IsRegistered(q) <=> heard[q].last = "reg")

LEMMA RegisterPending ==
  ASSUME TypeOK, NEW q \in Radios, NEW r \in Radios
  PROVE  /\ pending[q].register \in Nat
         /\ BMSReset(r) \/ BMSAck(r) \/ BMSRegister(r) \/ OnBMSRegistration(r)
              => pending'[q].register = pending[q].register
         /\ OnRegistration(r) => /\ pending'[r].register = pending[r].register + 1
                                 /\ heard'[r].last = "reg"
                                 /\ q # r => pending'[q] = pending[q] /\ heard'[q] = heard[q]
<1>1. pending \in [Radios -> Pending] /\ heard \in [Radios -> Heart]
  BY TypesAre
<1>2. BMSReset(r) \/ BMSAck(r) \/ BMSRegister(r) \/ OnBMSRegistration(r)
        => pending'[q].register = pending[q].register
  BY <1>1 DEF BMSReset, BMSAck, BMSRegister, OnBMSRegistration, Pending
<1>3. OnRegistration(r) => /\ pending'[r].register = pending[r].register + 1
                           /\ q # r => pending'[q] = pending[q]
  BY <1>1 DEF OnRegistration, Pending
<1>4. OnRegistration(r) => heard'[r].last = "reg" /\ (q # r => heard'[q] = heard[q])
  BY <1>1 DEF OnRegistration
<1>5. pending[q].register \in Nat
  BY <1>1 DEF Pending
<1> QED
  BY <1>2, <1>3, <1>4, <1>5

LEMMA HeardStep ==
  ASSUME TypeOK, Waiting, RegistrationFollowsRadio, [Next]_vars
  PROVE  Waiting' /\ RegistrationFollowsRadio'
<1> SUFFICES ASSUME NEW q \in Radios PROVE HeardAt(q)'
  BY DEF Waiting, RegistrationFollowsRadio, HeardAt
<1>1. HeardAt(q) /\ pending[q].register \in Nat
  BY RegisterPending DEF Waiting, RegistrationFollowsRadio, HeardAt
<1>2. ASSUME ars'[q] = ars[q], heard'[q] = heard[q],
             pending'[q].register = pending[q].register
      PROVE  HeardAt(q)'
  BY <1>1, <1>2 DEF HeardAt, IsRegistered
<1>3. ASSUME NEW r \in Radios, Register(r) PROVE HeardAt(q)'
  <2>1. heard' = heard
    BY <1>3 DEF Register
  <2>2. CASE q = r
    <3>1. /\ ars'[q] = ARS_STATUS_REGISTERED /\ pending[q].register > 0
          /\ pending'[q].register = pending[q].register - 1
      BY <1>3, <2>2, Registered
    <3>2. pending[q].register # 0
      BY <1>1, <3>1, SMT
    <3>3. heard[q].last \in {"none", "reg", "dereg"}
      BY TypesAre DEF Heart
    <3>4. heard[q].last # "none" /\ (heard[q].last = "dereg" => heard[q].hasty)
      BY <1>1, <3>2 DEF HeardAt
    <3>5. IsRegistered(q)'
      BY <3>1 DEF IsRegistered
    <3> QED
      BY <2>1, <3>3, <3>4, <3>5 DEF HeardAt
  <2>3. CASE q # r
    BY <1>2, <1>3, <2>1, <2>3, Registered
  <2> QED
    BY <2>2, <2>3
<1>4. ASSUME NEW r \in Radios, OnRegistration(r) PROVE HeardAt(q)'
  <2>1. ars' = ars
    BY <1>4 DEF OnRegistration
  <2>2. CASE q = r
    <3>1. pending'[q].register = pending[q].register + 1 /\ heard'[q].last = "reg"
      BY <1>4, <2>2, RegisterPending
    <3>2. pending'[q].register # 0
      BY <1>1, <3>1, SMT
    <3> QED
      BY <3>1, <3>2 DEF HeardAt
  <2>3. CASE q # r
    BY <1>2, <1>4, <2>1, <2>3, RegisterPending
  <2> QED
    BY <2>2, <2>3
<1>5. ASSUME NEW r \in Radios, OnDeregistration(r) PROVE HeardAt(q)'
  <2>1. pending' = pending
    BY <1>5 DEF OnDeregistration
  <2>2. CASE q = r
    <3>1. /\ ars'[q] = ARS_STATUS_UNREGISTERED /\ heard'[q].last = "dereg"
          /\ (pending[q].register > 0 => heard'[q].hasty)
      BY <1>5, <2>2, Deregistered
    <3>2. ~heard'[q].hasty => pending'[q].register = 0
      BY <1>1, <2>1, <3>1, SMT
    <3>3. ~IsRegistered(q)'
      BY <3>1 DEF IsRegistered, ARS_STATUS_REGISTERED, ARS_STATUS_UNREGISTERED
    <3> QED
      BY <3>1, <3>2, <3>3 DEF HeardAt
  <2>3. CASE q # r
    BY <1>2, <1>5, <2>1, <2>3, Deregistered
  <2> QED
    BY <2>2, <2>3
<1>6. ASSUME NEW r \in Radios,
             BMSReset(r) \/ BMSAck(r) \/ BMSRegister(r) \/ OnBMSRegistration(r)
      PROVE  HeardAt(q)'
  BY <1>2, <1>6, RegisterPending DEF BMSReset, BMSAck, BMSRegister, OnBMSRegistration
<1>7. CASE UNCHANGED <<ars, pending, heard>>
  BY <1>2, <1>7
<1> QED
  BY <1>3, <1>4, <1>5, <1>6, <1>7, NextCases
  DEF WakeUp, Resume, EndPass, NextRadio, LeaveRadio, SendLRRP, PassLRRP, DiscoveryBMS,
      QueryBMS, PassBMS, OnOtherPacket, OnBMSReply, OnBMSRefusal, OnLRRPPacket, LRRPElapses,
      BMSElapses, QueryElapses, vars

-----------------------------------------------------------------------------
(* What is sent to q after it left, and may still be. *)
GoneAt(q) ==
  /\ count[q].gone <= LRRPRequests * count[q].deregs
  /\ worker.at = q /\ ~IsRegistered(q) =>
       count[q].gone + (BMSItem + 1 - worker.item) <= LRRPRequests * count[q].deregs

LEMMA GoneStep ==
  ASSUME TypeOK, Admitted, VisitCounted, FewSentToTheGone, [Next]_vars
  PROVE  VisitCounted' /\ FewSentToTheGone'
<1> SUFFICES ASSUME NEW q \in Radios PROVE GoneAt(q)'
  BY DEF VisitCounted, FewSentToTheGone, GoneAt
<1>1. GoneAt(q)
  BY DEF VisitCounted, FewSentToTheGone, GoneAt
<1>2. /\ count[q].gone \in Nat /\ count[q].deregs \in Nat /\ LRRPRequests \in Nat
      /\ LRRPRequests * count[q].deregs \in Nat
      /\ LRRPRequests * (count[q].deregs + 1) = LRRPRequests * count[q].deregs + LRRPRequests
  <2>1. count[q] \in Counter
    BY TypesAre
  <2>2. count[q].gone \in Nat /\ count[q].deregs \in Nat /\ LRRPRequests \in Nat
    BY <2>1 DEF Counter
  <2> QED
    BY <2>2, OneMore
<1>3. /\ worker.item \in Nat /\ worker.item >= 1 /\ worker.item <= BMSItem + 1
      /\ BMSItem = LRRPRequests + 1
  BY Items, SMT
<1>4. q # NONE
  OBVIOUS
(* the worker stays, or comes to q when it is registered, or passes an item *)
<1>5. ASSUME count'[q].gone = count[q].gone, count'[q].deregs = count[q].deregs,
             \/ worker'.at # q
             \/ IsRegistered(q)'
             \/ /\ worker'.at = worker.at /\ IsRegistered(q)' = IsRegistered(q)
                /\ worker'.item = worker.item \/ worker'.item = worker.item + 1
      PROVE  GoneAt(q)'
  <2>1. BMSItem' = BMSItem
    BY DEF BMSItem
  <2>2. CASE worker'.at # q \/ IsRegistered(q)'
    BY <1>1, <1>5, <2>2 DEF GoneAt
  <2>3. CASE /\ worker'.at = q /\ worker.at = q /\ ~IsRegistered(q) /\ ~IsRegistered(q)'
             /\ worker'.item = worker.item \/ worker'.item = worker.item + 1
    <3>1. count[q].gone + (BMSItem + 1 - worker.item) <= LRRPRequests * count[q].deregs
      BY <1>1, <2>3 DEF GoneAt
    <3>2. count[q].gone + (BMSItem + 1 - worker'.item) <= LRRPRequests * count[q].deregs
      BY <1>2, <1>3, <2>3, <3>1, SMT
    <3> QED
      BY <1>1, <1>5, <2>1, <3>2 DEF GoneAt
  <2> QED
    BY <1>5, <2>2, <2>3
<1>6. CASE UNCHANGED <<ars, worker, count>>
  BY <1>5, <1>6 DEF IsRegistered
<1>7. CASE WakeUp \/ Resume \/ EndPass
  <2>1. UNCHANGED <<ars, count>>
    BY <1>7 DEF WakeUp, Resume, EndPass
  <2>2. worker'.item = worker.item /\ (worker'.at = NONE \/ worker'.at = worker.at)
    BY <1>7, WorkerTurns
  <2> QED
    BY <1>4, <1>5, <2>1, <2>2 DEF IsRegistered
<1>8. ASSUME NEW r \in Radios, NextRadio(r) \/ LeaveRadio(r) PROVE GoneAt(q)'
  <2>1. UNCHANGED <<ars, count>>
    BY <1>8 DEF NextRadio, LeaveRadio
  <2>2. worker'.at = NONE \/ (worker'.at = r /\ IsRegistered(r))
    BY <1>8, WorkerMoves
  <2> QED
    BY <1>4, <1>5, <2>1, <2>2 DEF IsRegistered
<1>9. ASSUME NEW r \in Radios, PassLRRP(r) \/ PassBMS(r) PROVE GoneAt(q)'
  <2>1. UNCHANGED <<ars, count>>
    BY <1>9 DEF PassLRRP, PassBMS
  <2>2. worker'.at = worker.at /\ worker'.item = worker.item + 1
    BY <1>9, WorkerPasses
  <2> QED
    BY <1>5, <2>1, <2>2 DEF IsRegistered
<1>10. ASSUME NEW r \in Radios, SendLRRP(r) \/ DiscoveryBMS(r) \/ QueryBMS(r)
       PROVE  GoneAt(q)'
  <2>1. PICK c \in Counter : Counts(r, c) /\ c.gone = Gone(r) /\ c.deregs = count[r].deregs
    BY <1>10, SendCounted, DiscoveryCounted, QueryCounted
  <2>2. ars' = ars
    BY <1>10 DEF SendLRRP, DiscoveryBMS, QueryBMS
  <2>3. /\ worker.at = r /\ worker'.at = r /\ worker'.item = worker.item + 1
    BY <1>10, WorkerSends
  <2>4. CASE q # r
    BY <1>5, <2>1, <2>3, <2>4 DEF Counts
  <2>5. CASE q = r /\ IsRegistered(q)
    <3>1. count'[q].gone = count[q].gone /\ count'[q].deregs = count[q].deregs
      BY <2>1, <2>5, GoneIs DEF Counts
    <3> QED
      BY <1>5, <2>2, <2>5, <3>1 DEF IsRegistered
  <2>6. CASE q = r /\ ~IsRegistered(q)
    <3>1. count'[q].gone = count[q].gone + 1 /\ count'[q].deregs = count[q].deregs
      BY <2>1, <2>6, GoneIs DEF Counts
    <3>2. count[q].gone + (BMSItem + 1 - worker.item) <= LRRPRequests * count[q].deregs
      BY <1>1, <2>3, <2>6 DEF GoneAt
    <3>3. worker.item <= BMSItem
      BY <1>10, WorkerSends
    <3>4. /\ count[q].gone + 1 <= LRRPRequests * count[q].deregs
          /\ count[q].gone + 1 + (BMSItem + 1 - (worker.item + 1)) <= LRRPRequests * count[q].deregs
      BY <1>2, <1>3, <3>2, <3>3, SMT
    <3>5. BMSItem' = BMSItem
      BY DEF BMSItem
    <3> QED
      BY <2>3, <3>1, <3>4, <3>5 DEF GoneAt
  <2> QED
    BY <2>4, <2>5, <2>6
<1>11. ASSUME NEW r \in Radios, Register(r) PROVE GoneAt(q)'
  <2>1. PICK c \in Counter : Counts(r, c) /\ c.gone = count[r].gone /\ c.deregs = count[r].deregs
    BY <1>11, Registered
  <2>2. count'[q].gone = count[q].gone /\ count'[q].deregs = count[q].deregs
    BY <2>1 DEF Counts
  <2>3. worker' = worker
    BY <1>11 DEF Register
  <2>4. IsRegistered(q)' \/ IsRegistered(q)' = IsRegistered(q)
    BY <1>11, Registered DEF IsRegistered
  <2> QED
    BY <1>5, <2>2, <2>3, <2>4
<1>12. ASSUME NEW r \in Radios, OnBMSRefusal(r) PROVE GoneAt(q)'
  <2>1. PICK c \in Counter : Counts(r, c) /\ c.gone = count[r].gone /\ c.deregs = count[r].deregs
    BY <1>12, Refused
  <2>2. UNCHANGED <<ars, worker>>
    BY <1>12 DEF OnBMSRefusal
  <2> QED
    BY <1>5, <2>1, <2>2 DEF Counts, IsRegistered
<1>13. ASSUME NEW r \in Radios, OnDeregistration(r) PROVE GoneAt(q)'
  <2>1. PICK c \in Counter : Counts(r, c) /\ c.gone = count[r].gone
                             /\ c.deregs = count[r].deregs + 1
    BY <1>13, Deregistered
  <2>2. worker' = worker /\ worker.pc # "run"
    BY <1>13 DEF OnDeregistration, Heard
  <2>3. CASE q = r
    <3>1. count'[q].gone = count[q].gone /\ count'[q].deregs = count[q].deregs + 1
      BY <2>1, <2>3 DEF Counts
    <3>2. worker.at = q => worker.item > 1
      <4>1. worker.pc \in {"timer", "await", "run"}
        BY Items DEF WorkerState
      <4> QED
        BY <1>4, <2>2, <4>1 DEF Admitted
    <3>3. count[q].gone <= LRRPRequests * count[q].deregs
      BY <1>1 DEF GoneAt
    <3>4. /\ count[q].gone <= LRRPRequests * count[q].deregs + LRRPRequests
          /\ worker.item > 1 => count[q].gone + (BMSItem + 1 - worker.item)
                                  <= LRRPRequests * count[q].deregs + LRRPRequests
      BY <1>2, <1>3, <3>3, SMT
    <3>5. BMSItem' = BMSItem
      BY DEF BMSItem
    <3> QED
      BY <1>2, <2>2, <3>1, <3>2, <3>4, <3>5 DEF GoneAt
  <2>4. CASE q # r
    <3>1. ars'[q] = ars[q] /\ count'[q] = count[q]
      BY <1>13, <2>1, <2>4, Deregistered DEF Counts
    <3> QED
      BY <1>5, <2>2, <3>1 DEF IsRegistered
  <2> QED
    BY <2>3, <2>4
<1> QED
  BY <1>6, <1>7, <1>8, <1>9, <1>10, <1>11, <1>12, <1>13, NextCases
  DEF BMSReset, BMSAck, BMSRegister, OnRegistration, OnOtherPacket, OnBMSRegistration,
      OnBMSReply, OnLRRPPacket, LRRPElapses, BMSElapses, QueryElapses, vars

-----------------------------------------------------------------------------
LEMMA InvInit == Init => IInv
<1> SUFFICES ASSUME Init PROVE IInv
  OBVIOUS
<1>1. TypeOK
  BY TypeInit
<1>2. ASSUME NEW r \in Radios
      PROVE  /\ ~IsRegistered(r) /\ worker.at = NONE /\ r # NONE
             /\ count[r].regs = 0 /\ count[r].deregs = 0 /\ count[r].refusals = 0
             /\ count[r].discoveries = 0 /\ count[r].gone = 0
             /\ pending[r].register = 0 /\ pending[r].bmsReset = 0
             /\ bms[r].retryCount = 0 /\ bms[r].status = BMS_STATUS_NONE
             /\ heard[r].last = "none"
             /\ \A i \in LRRPIds : count[r].lrrp[i] = 0 /\ lrrp[r][i].retryCount = 0
  BY DEF Init, IsRegistered, ARS_STATUS_UNREGISTERED, ARS_STATUS_REGISTERED
<1>3. Admitted
  BY <1>2 DEF Admitted, Init
<1>4. LRRPCounted
  <2> SUFFICES ASSUME NEW r \in Radios, NEW i \in LRRPIds PROVE LRRPCountedAt(r, i)
    BY DEF LRRPCounted, LRRPCountedAt
  <2>1. 0 < LRRPLimit /\ 0 <= LRRPLimit
    BY Limits, SMT
  <2> QED
    BY <1>2, <2>1 DEF LRRPCountedAt, Account
<1>5. BMSCounted
  <2> SUFFICES ASSUME NEW r \in Radios PROVE BMSCountedAt(r)
    BY DEF BMSCounted, BMSCountedAt
  <2>1. 0 < BMSLimit /\ 0 <= BMSLimit /\ 0 - 0 + 0 = 0 /\ 0 <= 0
    BY Limits, SMT
  <2>2. Resets(r) = 0
    BY <1>2, <2>1 DEF Resets
  <2>3. bms[r].status \notin {BMS_STATUS_UNREGISTERED, BMS_STATUS_DISCOVERY_SENT}
    BY <1>2 DEF BMS_STATUS_NONE, BMS_STATUS_UNREGISTERED, BMS_STATUS_DISCOVERY_SENT
  <2> QED
    BY <1>2, <2>1, <2>2, <2>3 DEF BMSCountedAt, Account
<1>6. Waiting /\ RegistrationFollowsRadio
  BY <1>2 DEF Waiting, RegistrationFollowsRadio
<1>7. VisitCounted /\ FewSentToTheGone
  <2>1. LRRPRequests * 0 = 0 /\ 0 <= 0
    BY SMT
  <2> QED
    BY <1>2, <2>1 DEF VisitCounted, FewSentToTheGone
<1> QED
  BY <1>1, <1>3, <1>4, <1>5, <1>6, <1>7 DEF IInv

LEMMA InvStep ==
  ASSUME IInv, [Next]_vars
  PROVE  IInv'
<1>1. TypeOK'
  BY TypeStep DEF IInv
<1>2. Admitted'
  BY AdmittedStep DEF IInv
<1>3. LRRPCounted'
  BY LRRPCountedStep DEF IInv
<1>4. BMSCounted'
  BY BMSCountedStep DEF IInv
<1>5. Waiting' /\ RegistrationFollowsRadio'
  BY HeardStep DEF IInv
<1>6. VisitCounted' /\ FewSentToTheGone'
  BY GoneStep DEF IInv
<1> QED
  BY <1>1, <1>2, <1>3, <1>4, <1>5, <1>6 DEF IInv

(* IInv holds in every state the handlers and the worker of DMRServices reach. *)
THEOREM Invariance == Spec => []IInv
BY InvInit, InvStep, PTL DEF Spec

(***************************************************************************)
(* Type correctness: the status of a radio, what its handlers have pending *)
(* and the place of serviceWorker.                                         *)
(***************************************************************************)
THEOREM ServicesTypeInvariant == Spec => []TypeOK
<1>1. IInv => TypeOK
  BY DEF IInv
<1> QED
  BY <1>1, Invariance, PTL

(***************************************************************************)
(* However answers, retries and registrations meet, sendLRRP is called for *)
(* a request at most LRRPRetryCount times per registration of the radio.   *)
(***************************************************************************)
THEOREM LRRPSendsAlwaysBounded == Spec => []LRRPSendsBounded
<1>1. ASSUME IInv PROVE LRRPSendsBounded
  <2> SUFFICES ASSUME NEW r \in Radios, NEW i \in LRRPIds
               PROVE  count[r].lrrp[i] <= LRRPLimit * count[r].regs
    BY DEF LRRPSendsBounded, LRRPLimit
  <2>1. LRRPCountedAt(r, i) /\ TypeOK
    BY <1>1 DEF IInv, LRRPCounted, LRRPCountedAt
  <2> QED
    BY <2>1, RequestTypes, Limits, AccountBound DEF LRRPCountedAt
<1> QED
  BY <1>1, Invariance, PTL

(***************************************************************************)
(* discoveryBMS is called at most BMSRetryCount times per registration of  *)
(* the radio and refusal of its battery, whichever timers are pending.     *)
(***************************************************************************)
THEOREM DiscoveriesAlwaysBounded == Spec => []DiscoveriesBounded
<1>1. ASSUME IInv PROVE DiscoveriesBounded
  <2> SUFFICES ASSUME NEW r \in Radios
               PROVE  count[r].discoveries <= BMSLimit * (count[r].regs + count[r].refusals)
    BY DEF DiscoveriesBounded, BMSLimit
  <2>1. BMSCountedAt(r) /\ TypeOK
    BY <1>1 DEF IInv, BMSCounted, BMSCountedAt
  <2>2. /\ bms[r].retryCount \in Nat /\ count[r].discoveries \in Nat /\ Resets(r) \in Nat
        /\ count[r].regs \in Nat /\ count[r].refusals \in Nat /\ pending[r].bmsReset \in Nat
    BY <2>1, BatteryTypes DEF BMSCountedAt
  <2>3. count[r].discoveries <= BMSLimit * Resets(r)
    BY <2>1, <2>2, Limits, AccountBound DEF BMSCountedAt
  <2>4. PICK n \in Nat : n = count[r].regs + count[r].refusals
    BY <2>2
  <2>5. Resets(r) <= n
    BY <2>2, <2>4, SMT DEF Resets
  <2>6. BMSLimit * Resets(r) <= BMSLimit * n
    BY <2>2, <2>5, Limits, LessMore
  <2>7. BMSLimit * Resets(r) \in Nat /\ BMSLimit * n \in Nat
    BY <2>2, Limits, OneMore
  <2>8. count[r].discoveries <= BMSLimit * n
    BY <2>2, <2>3, <2>6, <2>7, SMT
  <2> QED
    BY <2>4, <2>8
<1> QED
  BY <1>1, Invariance, PTL

(***************************************************************************)
(* With no registration waiting in onARSPacket, isRegistered agrees with   *)
(* the last ARS message, unless that was a deregistration within a         *)
(* registration's second.                                                  *)
(***************************************************************************)
THEOREM RegistrationAlwaysFollows == Spec => []RegistrationFollowsRadio
<1>1. IInv => RegistrationFollowsRadio
  BY DEF IInv
<1> QED
  BY <1>1, Invariance, PTL

(***************************************************************************)
(* A radio that deregisters is sent by serviceWorker at most what was left *)
(* of the visit it was in, for each time it does.                          *)
(***************************************************************************)
THEOREM FewAlwaysSentToTheGone == Spec => []FewSentToTheGone
<1>1. IInv => FewSentToTheGone
  BY DEF IInv
<1> QED
  BY <1>1, Invariance, PTL
=============================================================================
