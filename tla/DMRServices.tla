---------------------------- MODULE DMRServices ----------------------------
(***************************************************************************)
(* DMRServices: for every radio heard, its ARS registration, its location  *)
(* requests (LRRP) and its battery (BMS).  Handlers that await, timers and *)
(* the worker that walks the radios share the status of each radio.        *)
(*                                                                         *)
(* Code between two awaits is not interrupted: while worker.pc = "run" no  *)
(* handler runs.  Delays are left out: pending continuations and timers go *)
(* off in any order, more orders than their lengths allow.  The counter of *)
(* IP identifications and the texts kept for display are left out.         *)
(***************************************************************************)
EXTENDS Integers, FiniteSets

CONSTANTS Radios,
          LRRPRequests,       \* their number
          LRRPRetryCount,
          BMSRetryCount,
          Configurations,     \* of the other options, see Configuration
          NONE,               \* no radio
          MaxRegistrations,   \* BOUND: registration messages of a radio
          MaxDeregistrations, \* BOUND: deregistration messages of a radio
          MaxRefusals,        \* BOUND: replies "source not registered" of a radio
          MaxPending          \* BOUND: BMS registrations of a radio under way

\* BMSQueries: BMSQueryInterval > 0
Configuration == [LRRPEnabled : BOOLEAN, BMSEnabled : BOOLEAN,
                  BMSQueries : BOOLEAN, ignoreUnregistered : BOOLEAN]

ASSUME NoneAssumption == NONE \notin Radios
ASSUME OptionsAssumption ==
  /\ LRRPRequests \in Nat /\ LRRPRetryCount \in Nat /\ BMSRetryCount \in Nat
  /\ Configurations \subseteq Configuration
ASSUME BoundsAssumption ==
  {MaxRegistrations, MaxDeregistrations, MaxRefusals, MaxPending} \subseteq Nat

ARS_STATUS_UNREGISTERED == 0
ARS_STATUS_REGISTERED   == 1

BMS_STATUS_NONE           == 0
BMS_STATUS_UNREGISTERED   == 1
BMS_STATUS_DISCOVERY_SENT == 2
BMS_STATUS_REGISTERED     == 3
BMS_STATUS_RECEIVED       == 4

LRRP_STATUS_NONE      == 0
LRRP_STATUS_SENT      == 1
LRRP_STATUS_CONFIRMED == 2
LRRP_STATUS_RECEIVED  == 3

LRRPIds == 1..LRRPRequests

VARIABLES
  options,   \* one of Configurations, set once
  known,     \* radios that have a status
  ars,       \* ars[r]: status
  lrrp,      \* lrrp[r][i]: status, retryCount, due = updated + retryDelay has passed
  bms,       \* bms[r]: the same, and queryDue = lastQuery + BMSQueryInterval has passed
  pending,   \* pending[r]: continuations and timers of the handlers, counted by kind
  worker,    \* pc, radios still to visit, the radio it is at and its next item there
  heard,     \* history: heard[r]: last ARS message, and whether a
             \* deregistration came while a registration was pending
  count      \* history: count[r]: changes of registration and requests sent

vars == <<options, known, ars, lrrp, bms, pending, worker, heard, count>>

(***************************************************************************)
(* Items of the worker at a radio: the LRRP requests, then BMS.            *)
(***************************************************************************)
BMSItem == LRRPRequests + 1
FirstItem == IF options.LRRPEnabled THEN 1 ELSE BMSItem

TypeOK ==
  /\ options \in Configurations
  /\ known \subseteq Radios
  /\ ars \in [Radios -> {ARS_STATUS_UNREGISTERED, ARS_STATUS_REGISTERED}]
  /\ lrrp \in [Radios -> [LRRPIds -> [status : LRRP_STATUS_NONE..LRRP_STATUS_RECEIVED,
                                      retryCount : Nat, due : BOOLEAN]]]
  /\ bms \in [Radios -> [status : BMS_STATUS_NONE..BMS_STATUS_RECEIVED,
                         retryCount : Nat, due : BOOLEAN, queryDue : BOOLEAN]]
  /\ pending \in [Radios -> [register : Nat, bmsReset : Nat,
                             bmsAck : Nat, bmsRegister : Nat]]
  /\ worker \in [pc : {"timer", "await", "run"}, todo : SUBSET Radios,
                 at : Radios \cup {NONE}, item : FirstItem..BMSItem + 1]
  /\ heard \in [Radios -> [last : {"none", "reg", "dereg"}, hasty : BOOLEAN]]
  /\ count \in [Radios -> [regs : Nat, deregs : Nat, refusals : Nat,
                           lrrp : [LRRPIds -> Nat], discoveries : Nat, gone : Nat]]

\* generateStatus
Init ==
  /\ options \in Configurations
  /\ known = {}
  /\ ars = [r \in Radios |-> ARS_STATUS_UNREGISTERED]
  /\ lrrp = [r \in Radios |-> [i \in LRRPIds |->
               [status |-> LRRP_STATUS_NONE, retryCount |-> 0, due |-> FALSE]]]
  /\ bms = [r \in Radios |-> [status |-> BMS_STATUS_NONE, retryCount |-> 0,
                              due |-> FALSE, queryDue |-> TRUE]]
  /\ pending = [r \in Radios |-> [register |-> 0, bmsReset |-> 0,
                                  bmsAck |-> 0, bmsRegister |-> 0]]
  /\ worker = [pc |-> "timer", todo |-> {}, at |-> NONE, item |-> FirstItem]
  /\ heard = [r \in Radios |-> [last |-> "none", hasty |-> FALSE]]
  /\ count = [r \in Radios |-> [regs |-> 0, deregs |-> 0, refusals |-> 0,
                                lrrp |-> [i \in LRRPIds |-> 0],
                                discoveries |-> 0, gone |-> 0]]

IsRegistered(r) == ars[r] = ARS_STATUS_REGISTERED

\* setLRRPStatus, setBMSStatus: updated is set, so nothing is due
LRRPSet(x, status) == [x EXCEPT !.status = status, !.due = FALSE]
BMSSet(x, status)  == [x EXCEPT !.status = status, !.due = FALSE]

\* anew: the retries start again; sent: one more of them
LRRPAnew(x) == [LRRPSet(x, LRRP_STATUS_NONE) EXCEPT !.retryCount = 0]
LRRPSent(x) == [LRRPSet(x, LRRP_STATUS_SENT) EXCEPT !.retryCount = @ + 1]
BMSAnew(x)  == [BMSSet(x, BMS_STATUS_UNREGISTERED) EXCEPT !.retryCount = 0]
BMSSent(x)  == [BMSSet(x, BMS_STATUS_DISCOVERY_SENT) EXCEPT !.retryCount = @ + 1]

-----------------------------------------------------------------------------
(***************************************************************************)
(* onIPPacket.                                                             *)
(***************************************************************************)
Heard(r) == worker.pc # "run" /\ known' = known \cup {r}

\* DEVICE_REGISTRATION: the acknowledgement is sent, the rest follows in 1 s
OnRegistration(r) ==
  /\ Heard(r)
  /\ count[r].regs + pending[r].register < MaxRegistrations
  /\ pending' = [pending EXCEPT ![r].register = @ + 1]
  /\ heard' = [heard EXCEPT ![r] = [last |-> "reg", hasty |-> FALSE]]
  /\ UNCHANGED <<options, ars, lrrp, bms, worker, count>>

\* setARSStatus(ARS_STATUS_REGISTERED)
SetRegistered(r) ==
  /\ ars' = [ars EXCEPT ![r] = ARS_STATUS_REGISTERED]
  /\ lrrp' = [lrrp EXCEPT ![r] = [i \in LRRPIds |-> LRRPAnew(@[i])]]

\* onARSPacket after its await
Register(r) ==
  /\ worker.pc # "run"
  /\ pending[r].register > 0
  /\ SetRegistered(r)
  /\ pending' = [pending EXCEPT ![r].register = @ - 1, ![r].bmsReset = @ + 1]
  /\ count' = [count EXCEPT ![r].regs = @ + 1]
  /\ UNCHANGED <<options, known, bms, worker, heard>>

\* the 100 ms timer of setARSStatus
BMSReset(r) ==
  /\ worker.pc # "run"
  /\ pending[r].bmsReset > 0
  /\ pending' = [pending EXCEPT ![r].bmsReset = @ - 1]
  /\ bms' = [bms EXCEPT ![r] = BMSAnew(@)]
  /\ UNCHANGED <<options, known, ars, lrrp, worker, heard, count>>

\* mutant of OnDeregistration: not taken in while the worker is at the radio
OnDeregistrationUnlessVisited(r) ==
  /\ Heard(r)
  /\ count[r].deregs < MaxDeregistrations
  /\ ars' = IF worker.at = r THEN ars ELSE [ars EXCEPT ![r] = ARS_STATUS_UNREGISTERED]
  /\ count' = [count EXCEPT ![r].deregs = @ + 1]
  /\ heard' = [heard EXCEPT ![r] = [last |-> "dereg",
                                    hasty |-> pending[r].register > 0]]
  /\ UNCHANGED <<options, lrrp, bms, pending, worker>>

\* DEVICE_DEREGISTRATION: at once
OnDeregistration(r) ==
  /\ Heard(r)
  /\ count[r].deregs < MaxDeregistrations
  /\ ars' = [ars EXCEPT ![r] = ARS_STATUS_UNREGISTERED]
  /\ count' = [count EXCEPT ![r].deregs = @ + 1]
  /\ heard' = [heard EXCEPT ![r] = [last |-> "dereg",
                                    hasty |-> pending[r].register > 0]]
  /\ UNCHANGED <<options, lrrp, bms, pending, worker>>

\* LRRP, BMS and other packets; some change nothing but make the radio known
Listened(r) == options.ignoreUnregistered => IsRegistered(r)

OnOtherPacket(r) ==
  /\ Heard(r)
  /\ UNCHANGED <<options, ars, lrrp, bms, pending, worker, heard, count>>

\* onLRRPPacket: any answer with a known request id, asked for or not
OnLRRPPacket(r, i) ==
  /\ Heard(r)
  /\ Listened(r) /\ options.LRRPEnabled
  /\ \E status \in {LRRP_STATUS_CONFIRMED, LRRP_STATUS_RECEIVED} :
       lrrp' = [lrrp EXCEPT ![r][i] = LRRPSet(@, status)]
  /\ UNCHANGED <<options, ars, bms, pending, worker, heard, count>>

\* onBMSPacket: Registration, which is acknowledged in 1 s and done in 2 s
OnBMSRegistration(r) ==
  /\ Heard(r)
  /\ Listened(r) /\ options.BMSEnabled
  /\ pending[r].bmsAck + pending[r].bmsRegister < MaxPending
  /\ pending' = [pending EXCEPT ![r].bmsAck = @ + 1]
  /\ UNCHANGED <<options, ars, lrrp, bms, worker, heard, count>>

BMSAck(r) ==
  /\ worker.pc # "run"
  /\ pending[r].bmsAck > 0
  /\ pending' = [pending EXCEPT ![r].bmsAck = @ - 1, ![r].bmsRegister = @ + 1]
  /\ UNCHANGED <<options, known, ars, lrrp, bms, worker, heard, count>>

BMSRegister(r) ==
  /\ worker.pc # "run"
  /\ pending[r].bmsRegister > 0
  /\ pending' = [pending EXCEPT ![r].bmsRegister = @ - 1]
  /\ bms' = [bms EXCEPT ![r] = BMSSet(@, BMS_STATUS_REGISTERED)]
  /\ UNCHANGED <<options, known, ars, lrrp, worker, heard, count>>

\* onBMSPacket: QueryReply
OnBMSReply(r) ==
  /\ Heard(r)
  /\ Listened(r) /\ options.BMSEnabled
  /\ bms' = [bms EXCEPT ![r] = BMSSet(@, BMS_STATUS_RECEIVED)]
  /\ UNCHANGED <<options, ars, lrrp, pending, worker, heard, count>>

\* ... with STATUS_SOURCE_NOT_REGISTERED
OnBMSRefusal(r) ==
  /\ Heard(r)
  /\ Listened(r) /\ options.BMSEnabled
  /\ count[r].refusals < MaxRefusals
  /\ count' = [count EXCEPT ![r].refusals = @ + 1]
  /\ bms' = [bms EXCEPT ![r] = BMSAnew(@)]
  /\ UNCHANGED <<options, ars, lrrp, pending, worker, heard>>

-----------------------------------------------------------------------------
(***************************************************************************)
(* serviceWorker.                                                          *)
(***************************************************************************)
\* the 50 ms timer
WakeUp ==
  /\ worker.pc = "timer"
  /\ worker' = [worker EXCEPT !.pc = "run", !.todo = known, !.at = NONE]
  /\ UNCHANGED <<options, known, ars, lrrp, bms, pending, heard, count>>

\* 1 s after something was sent
Resume ==
  /\ worker.pc = "await"
  /\ worker' = [worker EXCEPT !.pc = "run"]
  /\ UNCHANGED <<options, known, ars, lrrp, bms, pending, heard, count>>

AtNoRadio == worker.pc = "run" /\ worker.at = NONE
At(r)     == worker.pc = "run" /\ worker.at = r

\* mutant of MayVisit: the registration is not looked at
MayVisitAnybody(r) == r \in known

MayVisit(r) == IsRegistered(r)

NextRadio(r) ==
  /\ AtNoRadio
  /\ r \in worker.todo
  /\ worker' = [worker EXCEPT !.todo = @ \ {r},
                              !.at = IF MayVisit(r) THEN r ELSE NONE,
                              !.item = FirstItem]
  /\ UNCHANGED <<options, known, ars, lrrp, bms, pending, heard, count>>

EndPass ==
  /\ AtNoRadio
  /\ worker.todo = {}
  /\ worker' = [worker EXCEPT !.pc = "timer"]
  /\ UNCHANGED <<options, known, ars, lrrp, bms, pending, heard, count>>

(* History: the worker's requests to a radio that is not registered. The   *)
(* acknowledgement of a battery (BMSAck), sent a second after its message  *)
(* whether the radio is still there or not, is not the worker's, and not   *)
(* counted.                                                                *)
Gone(r) == count[r].gone + (IF IsRegistered(r) THEN 0 ELSE 1)

SendLRRP(r) ==
  LET i == worker.item
  IN  /\ At(r) /\ i \in LRRPIds
      /\ lrrp[r][i].status = LRRP_STATUS_NONE
      /\ lrrp' = [lrrp EXCEPT ![r][i] = LRRPSent(@)]
      /\ count' = [count EXCEPT ![r].lrrp[i] = @ + 1, ![r].gone = Gone(r)]
      /\ worker' = [worker EXCEPT !.pc = "await", !.item = i + 1]
      /\ UNCHANGED <<options, known, ars, bms, pending, heard>>

\* mutants of MayRetryLRRP, MayRetryBMS: the limit is off by one
MayRetryLRRPOnceMore(x) ==
  x.status = LRRP_STATUS_SENT /\ x.retryCount <= LRRPRetryCount /\ x.due
MayRetryBMSOnceMore(x) ==
  x.status = BMS_STATUS_DISCOVERY_SENT /\ x.retryCount <= BMSRetryCount /\ x.due

\* another of MayRetryBMS: the comparison with the clock is inverted
MayRetryBMSEarly(x) ==
  x.status = BMS_STATUS_DISCOVERY_SENT /\ x.retryCount < BMSRetryCount /\ ~x.due

MayRetryLRRP(x) ==
  x.status = LRRP_STATUS_SENT /\ x.retryCount < LRRPRetryCount /\ x.due
MayRetryBMS(x) ==
  x.status = BMS_STATUS_DISCOVERY_SENT /\ x.retryCount < BMSRetryCount /\ x.due

PassLRRP(r) ==
  LET i == worker.item
  IN  /\ At(r) /\ i \in LRRPIds
      /\ lrrp[r][i].status # LRRP_STATUS_NONE
      /\ lrrp' = [lrrp EXCEPT ![r][i] =
                    IF MayRetryLRRP(@) THEN LRRPSet(@, LRRP_STATUS_NONE) ELSE @]
      /\ worker' = [worker EXCEPT !.item = i + 1]
      /\ UNCHANGED <<options, known, ars, bms, pending, heard, count>>

DiscoveryBMS(r) ==
  /\ At(r) /\ worker.item = BMSItem /\ options.BMSEnabled
  /\ bms[r].status = BMS_STATUS_UNREGISTERED
  /\ bms' = [bms EXCEPT ![r] = BMSSent(@)]
  /\ count' = [count EXCEPT ![r].discoveries = @ + 1, ![r].gone = Gone(r)]
  /\ worker' = [worker EXCEPT !.pc = "await", !.item = BMSItem + 1]
  /\ UNCHANGED <<options, known, ars, lrrp, pending, heard>>

MayQuery(x) ==
  x.status \in {BMS_STATUS_REGISTERED, BMS_STATUS_RECEIVED} /\ options.BMSQueries /\ x.queryDue

QueryBMS(r) ==
  /\ At(r) /\ worker.item = BMSItem /\ options.BMSEnabled
  /\ MayQuery(bms[r])
  /\ bms' = [bms EXCEPT ![r].queryDue = FALSE]
  /\ count' = [count EXCEPT ![r].gone = Gone(r)]
  /\ worker' = [worker EXCEPT !.pc = "await", !.item = BMSItem + 1]
  /\ UNCHANGED <<options, known, ars, lrrp, pending, heard>>

PassBMS(r) ==
  /\ At(r) /\ worker.item = BMSItem
  /\ options.BMSEnabled => bms[r].status # BMS_STATUS_UNREGISTERED /\ ~MayQuery(bms[r])
  /\ bms' = [bms EXCEPT ![r] = IF options.BMSEnabled /\ MayRetryBMS(@)
                                 THEN BMSSet(@, BMS_STATUS_UNREGISTERED) ELSE @]
  /\ worker' = [worker EXCEPT !.item = BMSItem + 1]
  /\ UNCHANGED <<options, known, ars, lrrp, pending, heard, count>>

LeaveRadio(r) ==
  /\ At(r) /\ worker.item = BMSItem + 1
  /\ worker' = [worker EXCEPT !.at = NONE, !.item = FirstItem]
  /\ UNCHANGED <<options, known, ars, lrrp, bms, pending, heard, count>>

Visit(r) ==
  SendLRRP(r) \/ PassLRRP(r) \/ DiscoveryBMS(r) \/ QueryBMS(r) \/ PassBMS(r)

Worker == \/ WakeUp \/ Resume \/ EndPass
          \/ \E r \in Radios : NextRadio(r) \/ Visit(r) \/ LeaveRadio(r)

-----------------------------------------------------------------------------
\* retryDelay passes
LRRPElapses(r, i) ==
  /\ lrrp[r][i].status = LRRP_STATUS_SENT /\ ~lrrp[r][i].due
  /\ lrrp' = [lrrp EXCEPT ![r][i].due = TRUE]
  /\ UNCHANGED <<options, known, ars, bms, pending, worker, heard, count>>

BMSElapses(r) ==
  /\ bms[r].status = BMS_STATUS_DISCOVERY_SENT /\ ~bms[r].due
  /\ bms' = [bms EXCEPT ![r].due = TRUE]
  /\ UNCHANGED <<options, known, ars, lrrp, pending, worker, heard, count>>

\* BMSQueryInterval passes
QueryElapses(r) ==
  /\ ~bms[r].queryDue
  /\ bms' = [bms EXCEPT ![r].queryDue = TRUE]
  /\ UNCHANGED <<options, known, ars, lrrp, pending, worker, heard, count>>

Continue(r) == Register(r) \/ BMSReset(r) \/ BMSAck(r) \/ BMSRegister(r)

Listen(r) ==
  \/ OnRegistration(r) \/ OnDeregistration(r) \/ OnOtherPacket(r)
  \/ \E i \in LRRPIds : OnLRRPPacket(r, i)
  \/ OnBMSRegistration(r) \/ OnBMSReply(r) \/ OnBMSRefusal(r)

RetryElapses(r) == (\E i \in LRRPIds : LRRPElapses(r, i)) \/ BMSElapses(r)

Next == \/ Worker
        \/ \E r \in Radios : Continue(r) \/ Listen(r) \/ RetryElapses(r) \/ QueryElapses(r)

Spec == Init /\ [][Next]_vars

(***************************************************************************)
(* Delays pass, the worker runs, and so do continuations and timers: the   *)
(* worker delays them, hence strong fairness.  Nothing is assumed of the   *)
(* radios.                                                                 *)
(***************************************************************************)
FairSpec ==
  /\ Spec
  /\ WF_vars(Worker)
  /\ \A r \in Radios : SF_vars(Continue(r)) /\ WF_vars(RetryElapses(r))

-----------------------------------------------------------------------------
AtLeastOne(n) == IF n = 0 THEN 1 ELSE n

(***************************************************************************)
(* However answers, retries and registrations meet, a location request     *)
(* goes out at most LRRPRetryCount times per registration (once when that  *)
(* is 0).                                                                  *)
(***************************************************************************)
LRRPSendsBounded ==
  \A r \in Radios, i \in LRRPIds :
    count[r].lrrp[i] <= AtLeastOne(LRRPRetryCount) * count[r].regs

(***************************************************************************)
(* The discovery of a battery goes out at most BMSRetryCount times per     *)
(* registration of the radio and per refusal of the battery.               *)
(***************************************************************************)
DiscoveriesBounded ==
  \A r \in Radios :
    count[r].discoveries <=
      AtLeastOne(BMSRetryCount) * (count[r].regs + count[r].refusals)

(***************************************************************************)
(* The worker looks at the registration once per visit and awaits between  *)
(* its requests: a radio that leaves is still sent what is left of one     *)
(* visit, and no more, by the worker; the acknowledgement its battery may  *)
(* have due is sent besides.                                               *)
(***************************************************************************)
FewSentToTheGone ==
  \A r \in Radios : count[r].gone <= LRRPRequests * count[r].deregs

(***************************************************************************)
(* Once no registration waits for its second, the radio is held to be      *)
(* registered exactly if its last ARS message says so; the exception is a  *)
(* deregistration that came within the second of a registration, which     *)
(* overwrites it.                                                          *)
(***************************************************************************)
RegistrationFollowsRadio ==
  \A r \in Radios :
    pending[r].register = 0 /\ heard[r].last # "none" /\ ~heard[r].hasty =>
      (IsRegistered(r) <=> heard[r].last = "reg")

(***************************************************************************)
(* What a registered radio is asked for comes to an end, its locations and *)
(* the discovery of its battery: it is answered, or it was asked for as    *)
(* often as allowed, or the radio leaves.  The battery's part begins with  *)
(* setARSStatus's timer or a refusal.                                      *)
(***************************************************************************)
LRRPEnds(r, i) ==
  \/ ~IsRegistered(r) \/ ~options.LRRPEnabled
  \/ lrrp[r][i].status \in {LRRP_STATUS_CONFIRMED, LRRP_STATUS_RECEIVED}
  \/ lrrp[r][i].status = LRRP_STATUS_SENT /\ lrrp[r][i].retryCount >= LRRPRetryCount

BMSEnds(r) ==
  \/ ~IsRegistered(r) \/ ~options.BMSEnabled
  \/ bms[r].status \in {BMS_STATUS_REGISTERED, BMS_STATUS_RECEIVED}
  \/ bms[r].status = BMS_STATUS_DISCOVERY_SENT /\ bms[r].retryCount >= BMSRetryCount

EveryRequestEnds ==
  \A r \in Radios :
    /\ \A i \in LRRPIds : IsRegistered(r) ~> LRRPEnds(r, i)
    /\ IsRegistered(r) ~> BMSEnds(r)
=============================================================================
