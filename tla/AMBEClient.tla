---------------------------- MODULE AMBEClient ----------------------------
(***************************************************************************)
(* AMBEClient: decode and encode send a frame to the vocoder server and    *)
(* return a promise of its answer.  The socket carries one request at a    *)
(* time; a request that finds it busy tries again every millisecond.  An   *)
(* answer names no request: ready gives it to whoever is current.          *)
(***************************************************************************)
EXTENDS Integers, Sequences

CONSTANTS Requests,   \* calls of decode and encode
          NONE        \* null

ASSUME NoneAssumption == NONE \notin Requests

VARIABLES
  isBusy,
  currentPromise,  \* the request that is served, or NONE
  timers,          \* requests whose timeout is armed
  waiting,         \* requests in the 1 ms timer of run
  result,          \* what a promise was resolved with: <<>> not yet, <<NONE>>
                   \* timed out or refused, <<r>> the answer to r
  late,            \* environment: can an answer come after the timeout of its
                   \* request?
  duplicates,      \* environment: can an answer come twice?
  network,         \* requests that are under way, or their answers
  sent             \* history: requests in the order they were sent

world == <<late, duplicates>>
vars == <<isBusy, currentPromise, timers, waiting, result, world, network, sent>>

TypeOK ==
  /\ isBusy \in BOOLEAN
  /\ currentPromise \in Requests \cup {NONE}
  /\ timers \subseteq Requests
  /\ waiting \subseteq Requests
  /\ result \in [Requests -> {<<>>} \cup {<<a>> : a \in Requests \cup {NONE}}]
  /\ late \in BOOLEAN
  /\ duplicates \in BOOLEAN
  /\ network \subseteq Requests
  /\ sent \in Seq(Requests)

Init ==
  /\ isBusy = FALSE
  /\ currentPromise = NONE
  /\ timers = {}
  /\ waiting = {}
  /\ result = [r \in Requests |-> <<>>]
  /\ late \in BOOLEAN
  /\ duplicates \in BOOLEAN
  /\ network = {}
  /\ sent = <<>>

-----------------------------------------------------------------------------
New(r) == /\ result[r] = <<>>
          /\ r \notin waiting
          /\ \A i \in 1..Len(sent) : sent[i] # r

\* the part of run behind its guard
Send(r) ==
  /\ isBusy' = TRUE
  /\ currentPromise' = r
  /\ timers' = timers \cup {r}
  /\ network' = network \cup {r}
  /\ sent' = Append(sent, r)
  /\ waiting' = waiting \ {r}
  /\ UNCHANGED <<world, result>>

\* mutant of MayRun: a busy socket is not looked at
MayRunBusy == TRUE

MayRun == ~isBusy

\* decode, encode with a buffer of the wrong length
Refuse(r) ==
  /\ New(r)
  /\ result' = [result EXCEPT ![r] = <<NONE>>]
  /\ UNCHANGED <<world, isBusy, currentPromise, timers, waiting, network, sent>>

\* decode, encode: run at once
CallIdle(r) == New(r) /\ MayRun /\ Send(r)

CallBusy(r) ==
  /\ New(r)
  /\ ~MayRun
  /\ waiting' = waiting \cup {r}
  /\ UNCHANGED <<world, isBusy, currentPromise, timers, result, network, sent>>

\* the 1 ms timer; one that finds the socket busy is only armed again
Retry(r) == r \in waiting /\ MayRun /\ Send(r)

(***************************************************************************)
(* ready(answer), armed being the timeouts that are armed when it begins.  *)
(***************************************************************************)
Resolve(answer) ==
  /\ result' = [result EXCEPT ![currentPromise] = <<answer>>]
  /\ currentPromise' = NONE

\* mutants of Ready: the timeout is not cleared, isBusy is not reset
ReadyKeepsTimer(answer, armed) ==
  IF currentPromise = NONE
    THEN timers' = armed /\ UNCHANGED <<isBusy, currentPromise, result>>
    ELSE Resolve(answer) /\ isBusy' = FALSE /\ timers' = armed

ReadyStaysBusy(answer, armed) ==
  IF currentPromise = NONE
    THEN timers' = armed /\ UNCHANGED <<isBusy, currentPromise, result>>
    ELSE Resolve(answer) /\ timers' = armed \ {currentPromise} /\ UNCHANGED isBusy

Ready(answer, armed) ==
  IF currentPromise = NONE
    THEN timers' = armed /\ UNCHANGED <<isBusy, currentPromise, result>>
    ELSE Resolve(answer) /\ timers' = armed \ {currentPromise} /\ isBusy' = FALSE

\* the timeout of r: ready(null)
TimeOut(r) ==
  /\ r \in timers
  /\ ~late => r \notin network
  /\ Ready(NONE, timers \ {r})
  /\ UNCHANGED <<world, waiting, network, sent>>

\* the socket's message listener
OnMessage(r, again) ==
  /\ r \in network
  /\ again => duplicates
  /\ Ready(r, timers)
  /\ network' = IF again THEN network ELSE network \ {r}
  /\ UNCHANGED <<world, waiting, sent>>

\* environment: a request or its answer is lost
Lose(r) ==
  /\ r \in network
  /\ network' = network \ {r}
  /\ UNCHANGED <<world, isBusy, currentPromise, timers, waiting, result, sent>>

Next ==
  \E r \in Requests :
    \/ Refuse(r) \/ CallIdle(r) \/ CallBusy(r) \/ Retry(r)
    \/ TimeOut(r)
    \/ OnMessage(r, FALSE) \/ OnMessage(r, TRUE)
    \/ Lose(r)

Spec == Init /\ [][Next]_vars

(***************************************************************************)
(* Timers fire.  An answer that is under way arrives or is lost: where     *)
(* late is FALSE the timeout of its request waits for that.                *)
(***************************************************************************)
FairSpec ==
  /\ Spec
  /\ \A r \in Requests : /\ WF_vars(Retry(r))
                         /\ WF_vars(TimeOut(r))
                         /\ WF_vars(OnMessage(r, FALSE) \/ Lose(r))

-----------------------------------------------------------------------------
(***************************************************************************)
(* The socket is busy exactly while a request is current, and then the     *)
(* timeout of that request and no other is armed: nobody is resolved by a  *)
(* timeout that is not his.                                                *)
(***************************************************************************)
TimerGuardsRequest ==
  /\ isBusy = (currentPromise # NONE)
  /\ timers = {currentPromise} \ {NONE}

(***************************************************************************)
(* A request and its answer do not mix with those of another one, as long  *)
(* as no answer outlives the timeout of its request or comes twice.        *)
(***************************************************************************)
Answered(r) == result[r] \notin {<<>>, <<NONE>>}

OwnAnswer ==
  ~late /\ ~duplicates => \A r \in Requests : Answered(r) => result[r] = <<r>>

(***************************************************************************)
(* In any network: a request that got the answer of another one was sent   *)
(* after it, and the mix began with a request that timed out or, where     *)
(* answers can be doubled, with a double.                                  *)
(***************************************************************************)
MixedOnlyAfterTimeout ==
  \A k \in 1..Len(sent) :
    LET r == sent[k]
    IN  Answered(r) /\ result[r] # <<r>> =>
          /\ \E i \in 1..k - 1 : result[r] = <<sent[i]>>
          /\ \/ duplicates
             \/ \E i \in 1..k - 1 : result[sent[i]] = <<NONE>>

(***************************************************************************)
(* Every call is resolved, with an answer or with null.                    *)
(***************************************************************************)
EveryCallResolves ==
  \A r \in Requests : (r \in waiting \/ r = currentPromise) ~> result[r] # <<>>
=============================================================================
