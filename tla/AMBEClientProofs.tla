------------------------- MODULE AMBEClientProofs --------------------------
(***************************************************************************)
(* AMBEClient for any set of requests: the timeout that is armed belongs   *)
(* to the request that is served, and without late or doubled answers      *)
(* every request gets its own.  With them, what is known of the requests   *)
(* that were sent (History) says where a mix can begin.                    *)
(***************************************************************************)
EXTENDS AMBEClient, SequenceTheorems, TLAPS

(***************************************************************************)
(* What makes OwnAnswer inductive: only the current request is under way.  *)
(***************************************************************************)
NothingLeftOver ==
  ~late /\ ~duplicates => network \subseteq {currentPromise} \ {NONE}

(***************************************************************************)
(* Type correctness: run, ready and the timers keep every field of the     *)
(* client in its type.                                                     *)
(***************************************************************************)
THEOREM ClientTypeInvariant == Spec => []TypeOK
<1>1. Init => TypeOK
  <2> SUFFICES ASSUME Init PROVE TypeOK
    OBVIOUS
  <2>1. sent \in Seq(Requests)
    BY DEF Init
  <2>2. result \in [Requests -> {<<>>} \cup {<<a>> : a \in Requests \cup {NONE}}]
    BY DEF Init
  <2> QED BY <2>1, <2>2 DEF Init, TypeOK
<1>2. TypeOK /\ [Next]_vars => TypeOK'
  <2> SUFFICES ASSUME TypeOK, [Next]_vars PROVE TypeOK'
    OBVIOUS
  <2> USE NoneAssumption DEF TypeOK, world
  <2>1. ASSUME NEW r \in Requests, Refuse(r) PROVE TypeOK'
    BY <2>1 DEF Refuse
  <2>2. ASSUME NEW r \in Requests, Send(r) PROVE TypeOK'
    BY <2>2 DEF Send
  <2>3. ASSUME NEW r \in Requests, CallBusy(r) PROVE TypeOK'
    BY <2>3 DEF CallBusy
  <2>4. ASSUME NEW r \in Requests, TimeOut(r) PROVE TypeOK'
    BY <2>4 DEF TimeOut, Ready, Resolve
  <2>5. ASSUME NEW r \in Requests, NEW again \in BOOLEAN, OnMessage(r, again)
        PROVE TypeOK'
    BY <2>5 DEF OnMessage, Ready, Resolve
  <2>6. ASSUME NEW r \in Requests, Lose(r) PROVE TypeOK'
    BY <2>6 DEF Lose
  <2>7. CASE UNCHANGED vars
    BY <2>7 DEF vars, world
  <2> QED BY <2>1, <2>2, <2>3, <2>4, <2>5, <2>6, <2>7 DEF Next, CallIdle, Retry
<1> QED BY <1>1, <1>2, PTL DEF Spec

(***************************************************************************)
(* The armed timeout is that of the request the socket serves: a timeout   *)
(* never resolves somebody else's promise.                                 *)
(***************************************************************************)
THEOREM TimerAlwaysGuards == Spec => []TimerGuardsRequest
<1>1. Init => TimerGuardsRequest
  BY DEF Init, TimerGuardsRequest
<1>2. TimerGuardsRequest /\ [Next]_vars => TimerGuardsRequest'
  <2> SUFFICES ASSUME TimerGuardsRequest, [Next]_vars PROVE TimerGuardsRequest'
    OBVIOUS
  <2> USE NoneAssumption DEF TimerGuardsRequest
  <2>1. ASSUME NEW r \in Requests, MayRun, Send(r) PROVE TimerGuardsRequest'
    BY <2>1 DEF MayRun, Send
  <2>2. ASSUME NEW r \in Requests, TimeOut(r) PROVE TimerGuardsRequest'
    BY <2>2 DEF TimeOut, Ready, Resolve
  <2>3. ASSUME NEW r \in Requests, NEW again \in BOOLEAN, OnMessage(r, again)
        PROVE TimerGuardsRequest'
    BY <2>3 DEF OnMessage, Ready, Resolve
  <2>4. ASSUME NEW r \in Requests, Refuse(r) \/ CallBusy(r) \/ Lose(r)
        PROVE TimerGuardsRequest'
    BY <2>4 DEF Refuse, CallBusy, Lose
  <2>5. CASE UNCHANGED vars
    BY <2>5 DEF vars, world
  <2> QED BY <2>1, <2>2, <2>3, <2>4, <2>5 DEF Next, CallIdle, Retry
<1> QED BY <1>1, <1>2, PTL DEF Spec

(***************************************************************************)
(* ready gives a request its own answer wherever no answer is late or      *)
(* doubled: then the only answer under way is the current request's.       *)
(***************************************************************************)
THEOREM OwnAnswerAlways == Spec => []OwnAnswer
<1> DEFINE Inv == NothingLeftOver /\ OwnAnswer
<1> USE DEF NothingLeftOver, OwnAnswer, Answered
<1>1. Init => Inv
  BY DEF Init
<1>2. TypeOK /\ TimerGuardsRequest /\ Inv /\ [Next]_vars => Inv'
  <2> SUFFICES ASSUME TypeOK, TimerGuardsRequest, Inv, [Next]_vars,
                      ~late, ~duplicates
               PROVE  Inv'
    BY DEF Next, vars, TypeOK, world, Refuse, CallIdle, CallBusy, Retry, Send,
           TimeOut, OnMessage, Lose
  <2> USE NoneAssumption DEF TypeOK, TimerGuardsRequest, world
  <2>1. ASSUME NEW r \in Requests, MayRun, Send(r)
        PROVE  Inv'
    BY <2>1 DEF MayRun, Send
  <2>2. ASSUME NEW r \in Requests, TimeOut(r)
        PROVE  Inv'
    BY <2>2 DEF TimeOut, Ready, Resolve
  <2>3. ASSUME NEW r \in Requests, NEW again \in BOOLEAN, OnMessage(r, again)
        PROVE  Inv'
    BY <2>3 DEF OnMessage, Ready, Resolve
  <2>4. ASSUME NEW r \in Requests, Refuse(r) \/ CallBusy(r) \/ Lose(r)
        PROVE  Inv'
    BY <2>4 DEF Refuse, CallBusy, Lose
  <2>5. CASE UNCHANGED vars
    BY <2>5 DEF vars, world
  <2> QED BY <2>1, <2>2, <2>3, <2>4, <2>5 DEF Next, CallIdle, Retry
<1>3. Spec => [](TypeOK /\ TimerGuardsRequest)
  BY ClientTypeInvariant, TimerAlwaysGuards, PTL
<1> QED BY <1>1, <1>2, <1>3, PTL DEF Spec

(***************************************************************************)
(* What the history knows in any network: requests are sent once, the last *)
(* one is current until it is resolved, and only they are under way.       *)
(***************************************************************************)
SentOnce == \A i, j \in 1..Len(sent) : sent[i] = sent[j] => i = j

SentAreResolved ==
  \A i \in 1..Len(sent) : /\ sent[i] \notin waiting
                          /\ sent[i] # currentPromise => result[sent[i]] # <<>>

CurrentIsLast ==
  currentPromise # NONE => /\ Len(sent) > 0
                           /\ sent[Len(sent)] = currentPromise
                           /\ result[currentPromise] = <<>>

WaitingUnresolved == \A r \in waiting : result[r] = <<>>

SentUnderWay == \A r \in network : \E i \in 1..Len(sent) : sent[i] = r

(***************************************************************************)
(* As NothingLeftOver, until the first timeout.                            *)
(***************************************************************************)
NothingLeftYet ==
  ~duplicates /\ (\A i \in 1..Len(sent) : result[sent[i]] # <<NONE>>)
    => network \subseteq {currentPromise} \ {NONE}

History ==
  /\ SentOnce
  /\ SentAreResolved
  /\ CurrentIsLast
  /\ WaitingUnresolved
  /\ SentUnderWay
  /\ NothingLeftYet
  /\ MixedOnlyAfterTimeout

(* A request is sent, at once or by its timer. *)
LEMMA SendKeepsHistory ==
  ASSUME TypeOK, TimerGuardsRequest, History, NEW r \in Requests,
         MayRun, Send(r), New(r) \/ r \in waiting
  PROVE  History'
<1> DEFINE n == Len(sent)
<1>1. /\ sent \in Seq(Requests)
      /\ sent' = Append(sent, r) /\ currentPromise' = r /\ currentPromise = NONE
      /\ network' = network \cup {r} /\ waiting' = waiting \ {r}
      /\ UNCHANGED <<result, late, duplicates>>
      /\ r # NONE
  BY NoneAssumption DEF TypeOK, TimerGuardsRequest, MayRun, Send, world
<1>2. /\ n \in Nat /\ Len(sent') = n + 1
      /\ sent'[n + 1] = r
      /\ \A i \in 1..n : sent'[i] = sent[i]
      /\ \A i \in 1..n+1 : i \in 1..n \/ i = n + 1
      /\ \A i \in 1..n : i \in 1..n+1 /\ i # n + 1
      /\ n + 1 \in 1..n+1 /\ n + 1 > 0
  BY <1>1, SMT
<1>3. result[r] = <<>> /\ \A i \in 1..n : sent[i] # r
  BY DEF New, History, WaitingUnresolved, SentAreResolved
<1> HIDE DEF n
<1>4. \A i \in 1..n : sent[i] # NONE
  <2>1. \A i \in 1..n : sent[i] \in Requests
    BY <1>1, ElementOfSeq DEF n
  <2> QED
    BY <2>1, NoneAssumption
<1>5. SentOnce'
  BY <1>2, <1>3 DEF History, SentOnce, n
<1>6. SentAreResolved'
  BY <1>1, <1>2, <1>3, <1>4 DEF History, SentAreResolved, n
<1>7. CurrentIsLast' /\ WaitingUnresolved'
  BY <1>1, <1>2, <1>3 DEF History, CurrentIsLast, WaitingUnresolved
<1>8. SentUnderWay'
  BY <1>1, <1>2 DEF History, SentUnderWay, n
<1>9. NothingLeftYet'
  BY <1>1, <1>2 DEF History, NothingLeftYet, n
<1>10. MixedOnlyAfterTimeout'
  <2> SUFFICES ASSUME NEW k \in 1..Len(sent'),
                      result'[sent'[k]] \notin {<<>>, <<NONE>>, <<sent'[k]>>}
               PROVE  /\ \E i \in 1..k - 1 : result'[sent'[k]] = <<sent'[i]>>
                      /\ \/ duplicates'
                         \/ \E i \in 1..k - 1 : result'[sent'[i]] = <<NONE>>
    BY DEF MixedOnlyAfterTimeout, Answered
  <2>1. k # n + 1
    BY <1>1, <1>2, <1>3 DEF Answered
  <2>2. k \in 1..n /\ \A i \in 1..k - 1 : i \in 1..n
    BY <1>2, <2>1, SMT
  <2>3. sent'[k] = sent[k] /\ \A i \in 1..k - 1 : sent'[i] = sent[i]
    BY <1>2, <2>2
  <2>4. Answered(sent[k]) /\ result[sent[k]] # <<sent[k]>>
    BY <1>1, <2>3 DEF Answered
  <2>5. /\ \E i \in 1..k - 1 : result[sent[k]] = <<sent[i]>>
        /\ \/ duplicates
           \/ \E i \in 1..k - 1 : result[sent[i]] = <<NONE>>
    BY <2>2, <2>4 DEF History, MixedOnlyAfterTimeout, n
  <2> QED
    BY <1>1, <2>3, <2>5
<1> QED
  BY <1>5, <1>6, <1>7, <1>8, <1>9, <1>10 DEF History

(* ready resolves the current request; what was resolved before stays so. *)
LEMMA ReadyKeepsHistory ==
  ASSUME TypeOK, History, currentPromise # NONE,
         NEW answer \in Requests \cup {NONE},
         NEW rest \in SUBSET network,
         answer \in network \cup {NONE},
         ~duplicates /\ answer # NONE => rest = network \ {answer},
         result' = [result EXCEPT ![currentPromise] = <<answer>>],
         currentPromise' = NONE,
         network' = rest,
         UNCHANGED <<sent, waiting, duplicates>>
  PROVE  History'
<1> DEFINE n == Len(sent)
           current == currentPromise
<1>1. /\ sent \in Seq(Requests) /\ n \in Nat
      /\ n > 0 /\ sent[n] = current /\ result[current] = <<>>
      /\ current \in Requests /\ current # NONE
  BY DEF TypeOK, History, CurrentIsLast
<1>2. n \in 1..n
  BY <1>1, SMT
<1>3. /\ result'[current] = <<answer>>
      /\ \A r \in Requests : r # current => result'[r] = result[r]
  BY <1>1 DEF TypeOK
<1> HIDE DEF n, current
<1>4. \A i \in 1..n : sent[i] \in Requests /\ sent[i] # NONE
  <2>1. \A i \in 1..n : sent[i] \in Requests
    BY <1>1, ElementOfSeq DEF n
  <2> QED
    BY <2>1, NoneAssumption
<1>5. <<answer>> # <<>>
  OBVIOUS
<1>6. SentOnce' /\ CurrentIsLast'
  BY DEF History, SentOnce, CurrentIsLast
<1>7. SentAreResolved'
  BY <1>3, <1>4, <1>5 DEF History, SentAreResolved, n, current
<1>8. WaitingUnresolved'
  <2>1. current \notin waiting
    BY <1>1, <1>2 DEF History, SentAreResolved, n
  <2> QED
    BY <1>3, <2>1 DEF TypeOK, History, WaitingUnresolved
<1>9. SentUnderWay'
  BY DEF History, SentUnderWay
<1>10. \A i \in 1..n : i # n => sent[i] # current
  BY <1>1, <1>2 DEF History, SentOnce, n
<1>11. NothingLeftYet'
  <2> SUFFICES ASSUME ~duplicates, \A i \in 1..n : result'[sent[i]] # <<NONE>>
               PROVE  rest = {}
    BY DEF NothingLeftYet, n
  <2>1. answer # NONE
    BY <1>1, <1>2, <1>3
  <2>2. \A i \in 1..n : result[sent[i]] # <<NONE>>
    <3> SUFFICES ASSUME NEW i \in 1..n PROVE result[sent[i]] # <<NONE>>
      OBVIOUS
    <3>1. CASE sent[i] = current
      <4>1. <<>> # <<NONE>>
        OBVIOUS
      <4> QED
        BY <1>1, <3>1, <4>1
    <3>2. CASE sent[i] # current
      BY <1>3, <1>4, <3>2
    <3> QED
      BY <3>1, <3>2
  <2>3. network \subseteq {current}
    BY <2>2 DEF History, NothingLeftYet, n, current
  <2>4. answer = current
    BY <2>1, <2>3
  <2> QED
    BY <2>1, <2>3, <2>4
<1>12. MixedOnlyAfterTimeout'
  <2> SUFFICES ASSUME NEW k \in 1..n, Answered(sent[k])', result'[sent[k]] # <<sent[k]>>
               PROVE  /\ \E i \in 1..k - 1 : result'[sent[k]] = <<sent[i]>>
                      /\ \/ duplicates
                         \/ \E i \in 1..k - 1 : result'[sent[i]] = <<NONE>>
    BY DEF MixedOnlyAfterTimeout, n
  <2>1. \A i \in 1..k - 1 : i \in 1..n /\ i # n /\ i # k
    BY <1>1, SMT
  <2>2. \A i \in 1..k - 1 : result'[sent[i]] = result[sent[i]]
    BY <1>3, <1>4, <1>10, <2>1
  <2>3. CASE k # n
    <3>1. result'[sent[k]] = result[sent[k]]
      BY <1>3, <1>4, <1>10, <2>3
    <3>2. Answered(sent[k]) /\ result[sent[k]] # <<sent[k]>>
      BY <3>1 DEF Answered
    <3> QED
      BY <2>2, <3>1, <3>2 DEF History, MixedOnlyAfterTimeout, n
  <2>4. CASE k = n
    <3>1. sent[k] = current /\ answer # NONE /\ answer # current
      BY <1>1, <1>3, <2>4 DEF Answered
    <3>2. PICK h \in 1..n : sent[h] = answer
      BY <3>1 DEF History, SentUnderWay, n
    <3>3. h \in 1..k - 1
      <4>1. h # n
        BY <1>1, <3>1, <3>2
      <4> QED
        BY <1>1, <2>4, <4>1, SMT
    <3>4. \E i \in 1..k - 1 : result'[sent[k]] = <<sent[i]>>
      BY <1>3, <3>1, <3>2, <3>3
    <3>5. CASE \A i \in 1..k - 1 : result[sent[i]] # <<NONE>>
      <4>1. \A i \in 1..n : i \in 1..k - 1 \/ i = n
        BY <1>1, <2>4, SMT
      <4>2. <<>> # <<NONE>>
        OBVIOUS
      <4>3. \A i \in 1..n : result[sent[i]] # <<NONE>>
        BY <1>1, <3>5, <4>1, <4>2
      <4>4. ~duplicates => network \subseteq {current}
        BY <4>3 DEF History, NothingLeftYet, n, current
      <4>5. duplicates
        BY <3>1, <4>4 DEF TypeOK
      <4> QED
        BY <3>4, <4>5
    <3> QED
      BY <2>2, <3>4, <3>5
  <2> QED
    BY <2>3, <2>4
<1> QED
  BY <1>6, <1>7, <1>8, <1>9, <1>11, <1>12 DEF History

(* Where nothing that was sent is resolved, answers may vanish. *)
LEMMA OthersKeepHistory ==
  ASSUME TypeOK, History, UNCHANGED <<currentPromise, sent, duplicates>>,
         network' \in SUBSET network,
         \A i \in 1..Len(sent) :
           result'[sent[i]] = result[sent[i]] /\ sent[i] \notin waiting',
         \A r \in waiting' : result'[r] = <<>>
  PROVE  History'
<1>1. SentOnce' /\ SentUnderWay' /\ SentAreResolved' /\ WaitingUnresolved'
  BY DEF History, SentOnce, SentUnderWay, SentAreResolved, WaitingUnresolved
<1>2. CurrentIsLast'
  <2> SUFFICES ASSUME currentPromise # NONE
               PROVE  /\ Len(sent) > 0 /\ sent[Len(sent)] = currentPromise
                      /\ result'[currentPromise] = <<>>
    BY DEF CurrentIsLast
  <2>1. Len(sent) > 0 /\ sent[Len(sent)] = currentPromise /\ result[currentPromise] = <<>>
    BY DEF History, CurrentIsLast
  <2>2. Len(sent) \in 1..Len(sent)
    BY <2>1, SMT DEF TypeOK
  <2> QED
    BY <2>1, <2>2
<1>3. NothingLeftYet'
  BY DEF History, NothingLeftYet
<1>4. MixedOnlyAfterTimeout'
  <2> SUFFICES ASSUME NEW k \in 1..Len(sent), Answered(sent[k])', result'[sent[k]] # <<sent[k]>>
               PROVE  /\ \E i \in 1..k - 1 : result'[sent[k]] = <<sent[i]>>
                      /\ \/ duplicates
                         \/ \E i \in 1..k - 1 : result'[sent[i]] = <<NONE>>
    BY DEF MixedOnlyAfterTimeout
  <2>1. \A i \in 1..k - 1 : i \in 1..Len(sent)
    BY SMT DEF TypeOK
  <2>2. Answered(sent[k]) /\ result[sent[k]] # <<sent[k]>>
    BY DEF Answered
  <2> QED
    BY <2>1, <2>2 DEF History, MixedOnlyAfterTimeout
<1> QED
  BY <1>1, <1>2, <1>3, <1>4 DEF History

(* A call of run's callers that is refused or has to wait. *)
LEMMA CallsKeepHistory ==
  ASSUME TypeOK, History, NEW r \in Requests, Refuse(r) \/ CallBusy(r)
  PROVE  History'
<1>1. \A i \in 1..Len(sent) : sent[i] # r /\ sent[i] \in Requests
  BY ElementOfSeq DEF Refuse, CallBusy, New, TypeOK
<1>2. /\ UNCHANGED <<currentPromise, sent, duplicates>>
      /\ network' \in SUBSET network
  BY DEF Refuse, CallBusy, world
<1>3. CASE Refuse(r)
  <2>1. r \notin waiting /\ waiting' = waiting /\ result' = [result EXCEPT ![r] = <<NONE>>]
    BY <1>3 DEF Refuse, New
  <2>2. \A q \in Requests : q # r => result'[q] = result[q]
    BY <2>1 DEF TypeOK
  <2>3. \A i \in 1..Len(sent) : result'[sent[i]] = result[sent[i]] /\ sent[i] \notin waiting'
    BY <1>1, <2>1, <2>2 DEF History, SentAreResolved
  <2>4. \A q \in waiting' : result'[q] = <<>>
    BY <2>1, <2>2 DEF TypeOK, History, WaitingUnresolved
  <2> QED
    BY <1>2, <2>3, <2>4, OthersKeepHistory
<1>4. CASE CallBusy(r)
  <2>1. result[r] = <<>> /\ waiting' = waiting \cup {r} /\ result' = result
    BY <1>4 DEF CallBusy, New
  <2>2. \A i \in 1..Len(sent) : result'[sent[i]] = result[sent[i]] /\ sent[i] \notin waiting'
    BY <1>1, <2>1 DEF History, SentAreResolved
  <2>3. \A q \in waiting' : result'[q] = <<>>
    BY <2>1 DEF History, WaitingUnresolved
  <2> QED
    BY <1>2, <2>2, <2>3, OthersKeepHistory
<1> QED
  BY <1>3, <1>4

LEMMA NextKeepsHistory ==
  TypeOK /\ TimerGuardsRequest /\ History /\ [Next]_vars => History'
<1> SUFFICES ASSUME TypeOK, TimerGuardsRequest, History, [Next]_vars PROVE History'
  OBVIOUS
<1>1. ASSUME NEW r \in Requests, CallIdle(r) \/ Retry(r) PROVE History'
  BY <1>1, SendKeepsHistory DEF CallIdle, Retry
<1>2. ASSUME NEW r \in Requests, Refuse(r) \/ CallBusy(r) PROVE History'
  BY <1>2, CallsKeepHistory
<1>3. ASSUME NEW r \in Requests, TimeOut(r) PROVE History'
  <2>1. currentPromise # NONE
    BY <1>3, NoneAssumption DEF TimeOut, TimerGuardsRequest
  <2>2. /\ result' = [result EXCEPT ![currentPromise] = <<NONE>>]
        /\ currentPromise' = NONE
        /\ network' = network
        /\ UNCHANGED <<sent, waiting, duplicates>>
    BY <1>3, <2>1 DEF TimeOut, Ready, Resolve, world
  <2> QED
    BY <2>1, <2>2, ReadyKeepsHistory
<1>4. ASSUME NEW r \in Requests, NEW again \in BOOLEAN, OnMessage(r, again) PROVE History'
  <2>1. /\ r \in network /\ r # NONE
        /\ network' \in SUBSET network
        /\ ~duplicates => network' = network \ {r}
        /\ UNCHANGED <<sent, waiting, duplicates>>
    BY <1>4, NoneAssumption DEF OnMessage, world
  <2>2. CASE currentPromise = NONE
    <3>1. UNCHANGED <<currentPromise, result>>
      BY <1>4, <2>2 DEF OnMessage, Ready
    <3> QED
      BY <2>1, <3>1, OthersKeepHistory DEF History, SentAreResolved, WaitingUnresolved
  <2>3. CASE currentPromise # NONE
    <3>1. result' = [result EXCEPT ![currentPromise] = <<r>>] /\ currentPromise' = NONE
      BY <1>4, <2>3 DEF OnMessage, Ready, Resolve
    <3> QED
      BY <2>1, <2>3, <3>1, ReadyKeepsHistory
  <2> QED
    BY <2>2, <2>3
<1>5. ASSUME UNCHANGED vars \/ \E r \in Requests : Lose(r) PROVE History'
  <2>1. /\ UNCHANGED <<currentPromise, sent, duplicates, result, waiting>>
        /\ network' \in SUBSET network
    BY <1>5 DEF Lose, vars, world
  <2> QED
    BY <2>1, OthersKeepHistory DEF History, SentAreResolved, WaitingUnresolved
<1> QED
  BY <1>1, <1>2, <1>3, <1>4, <1>5 DEF Next

(***************************************************************************)
(* In any network: a request with the answer of another one was sent after *)
(* it, and a timeout or a doubled answer came before.                      *)
(***************************************************************************)
THEOREM MixedOnlyAfterTimeoutAlways == Spec => []MixedOnlyAfterTimeout
<1>1. Init => History
  <2> SUFFICES ASSUME Init PROVE History
    OBVIOUS
  <2>1. sent = <<>> /\ \A i \in 1..Len(sent) : FALSE
    BY SMT DEF Init
  <2>2. currentPromise = NONE /\ network = {} /\ waiting = {}
    BY DEF Init
  <2> QED
    BY <2>1, <2>2 DEF History, SentOnce, SentAreResolved, CurrentIsLast, WaitingUnresolved,
                      SentUnderWay, NothingLeftYet, MixedOnlyAfterTimeout
<1>2. History => MixedOnlyAfterTimeout
  BY DEF History
<1>3. Spec => [](TypeOK /\ TimerGuardsRequest)
  BY ClientTypeInvariant, TimerAlwaysGuards, PTL
<1> QED
  BY <1>1, <1>2, <1>3, NextKeepsHistory, PTL DEF Spec
=============================================================================
