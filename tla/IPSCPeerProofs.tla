-------------------------- MODULE IPSCPeerProofs ---------------------------
(***************************************************************************)
(* Theorems about IPSCPeer for every environment: with or without          *)
(* re-entrant listeners, stale answers and duplicates.                     *)
(***************************************************************************)
EXTENDS IPSCPeer, TLAPS

USE WorldsAssumption
USE DEF fixed, STATE_NONE, STATE_OK, STATE_CONNECTING, STATE_XNL_INIT, STATE_WL_INIT,
        States

(***************************************************************************)
(* Next in terms of the branches of onData, for the case splits below.     *)
(***************************************************************************)
LEMMA NextCases ==
  ASSUME NEW P, [Next]_vars,
         connect => P, close => P, intervalFunction => P, MasterStops => P,
         OnMasterRegReply /\ HandlePacket => P,
         OnMasterAliveReply /\ HandlePacket => P,
         OnPeerReq /\ HandlePacket => P,
         OnXNLInit /\ HandlePacket => P,
         OnRegistrationReply /\ HandlePacket => P,
         OnRegistrationRefused => P, IgnorePacket => P,
         \A m \in Packets : Receive(m) => P,
         UNCHANGED vars => P
  PROVE  P
BY DEF Next, Handle, HandlePacket, Answered

(***************************************************************************)
(* The interval closes the connection or leaves it as it is.               *)
(***************************************************************************)
LEMMA IntervalEffect ==
  intervalFunction =>
    /\ handling = Nothing
    /\ \/ state' = STATE_NONE /\ interval' = FALSE /\ lastEvent' = "CLOSED"
       \/ UNCHANGED <<state, interval, lastEvent>>
    /\ UNCHANGED <<options, lostPings, handling, connects, closedInside>>
BY DEF intervalFunction, DoClose

(***************************************************************************)
(* TypeOK by sort: numbers, sets of requests and stages, and the rest.     *)
(***************************************************************************)
TypeNum == state \in States /\ lostPings \in Nat /\ connects \in 0..2

TypeSet == /\ asked \subseteq Requests
           /\ askedBefore \subseteq Requests
           /\ stage \subseteq Stages

TypeRest == /\ options \in Options
            /\ world \in Worlds
            /\ interval \in BOOLEAN
            /\ handling \in Packets \cup {Nothing}
            /\ masterUp \in BOOLEAN
            /\ lastEvent \in {"CONNECTED", "CLOSED"}
            /\ closedInside \in BOOLEAN

LEMMA TypeParts == TypeOK <=> TypeNum /\ TypeSet /\ TypeRest
BY DEF TypeOK, TypeNum, TypeSet, TypeRest

LEMMA TypeInit == Init => TypeOK
<1>1. Init => TypeNum
  BY DEF Init, TypeNum
<1>2. Init => TypeSet
  BY DEF Init, TypeSet
<1>3. Init => TypeRest
  BY DEF Init, TypeRest
<1>4. QED
  BY <1>1, <1>2, <1>3, TypeParts

LEMMA TypeNumStep == TypeOK /\ [Next]_vars => TypeNum'
<1> SUFFICES ASSUME TypeNum, [Next]_vars PROVE TypeNum'
  BY TypeParts
<1> USE DEF TypeNum, envVars, histVars
<1>1. connect => TypeNum'
  BY DEF connect
<1>2. close => TypeNum'
  BY DEF close, DoClose
<1>3. intervalFunction => TypeNum'
  BY IntervalEffect
<1>4. MasterStops => TypeNum'
  BY DEF MasterStops
<1>5. OnMasterRegReply /\ HandlePacket => TypeNum'
  BY DEF OnMasterRegReply, HandlePacket, initWireline, initDone
<1>6. OnMasterAliveReply /\ HandlePacket => TypeNum'
  BY DEF OnMasterAliveReply, HandlePacket
<1>7. OnPeerReq /\ HandlePacket => TypeNum'
  BY DEF OnPeerReq, HandlePacket, initDone
<1>8. OnXNLInit /\ HandlePacket => TypeNum'
  BY DEF OnXNLInit, HandlePacket, initWireline, initDone
<1>9. OnRegistrationReply /\ HandlePacket => TypeNum'
  BY DEF OnRegistrationReply, HandlePacket, initDone
<1>10. OnRegistrationRefused => TypeNum'
  BY DEF OnRegistrationRefused, DoClose
<1>11. IgnorePacket => TypeNum'
  BY DEF IgnorePacket
<1>12. \A m \in Packets : Receive(m) => TypeNum'
  BY DEF Receive
<1>13. UNCHANGED vars => TypeNum'
  BY DEF vars
<1> HIDE DEF TypeNum
<1>14. QED
  BY <1>1, <1>2, <1>3, <1>4, <1>5, <1>6, <1>7, <1>8, <1>9, <1>10, <1>11,
     <1>12, <1>13, NextCases

LEMMA TypeSetStep == TypeOK /\ [Next]_vars => TypeSet'
<1> SUFFICES ASSUME TypeSet, [Next]_vars PROVE TypeSet'
  BY TypeParts
<1> USE DEF TypeSet, Ask, Requests, Stages, envVars, histVars
<1>1. connect => TypeSet'
  BY DEF connect
<1>2. close => TypeSet'
  BY DEF close, DoClose
<1>3. intervalFunction => TypeSet'
  BY DEF intervalFunction, DoClose
<1>4. MasterStops => TypeSet'
  BY DEF MasterStops
<1>5. OnMasterRegReply /\ HandlePacket => TypeSet'
  BY DEF OnMasterRegReply, HandlePacket, initWireline, initDone
<1>6. OnMasterAliveReply /\ HandlePacket => TypeSet'
  BY DEF OnMasterAliveReply, HandlePacket
<1>7. OnPeerReq /\ HandlePacket => TypeSet'
  BY DEF OnPeerReq, HandlePacket, initDone
<1>8. OnXNLInit /\ HandlePacket => TypeSet'
  BY DEF OnXNLInit, HandlePacket, initWireline, initDone
<1>9. OnRegistrationReply /\ HandlePacket => TypeSet'
  BY DEF OnRegistrationReply, HandlePacket, initDone
<1>10. OnRegistrationRefused => TypeSet'
  BY DEF OnRegistrationRefused, DoClose
<1>11. IgnorePacket => TypeSet'
  BY DEF IgnorePacket
<1>12. \A m \in Packets : Receive(m) => TypeSet'
  BY DEF Receive
<1>13. UNCHANGED vars => TypeSet'
  BY DEF vars
<1> HIDE DEF TypeSet
<1>14. QED
  BY <1>1, <1>2, <1>3, <1>4, <1>5, <1>6, <1>7, <1>8, <1>9, <1>10, <1>11,
     <1>12, <1>13, NextCases

LEMMA TypeRestStep == TypeOK /\ [Next]_vars => TypeRest'
<1> SUFFICES ASSUME TypeRest, [Next]_vars PROVE TypeRest'
  BY TypeParts
<1> USE DEF TypeRest, envVars, histVars
<1>1. connect => TypeRest'
  BY DEF connect
<1>2. close => TypeRest'
  BY DEF close, DoClose
<1>3. intervalFunction => TypeRest'
  BY DEF intervalFunction, DoClose
<1>4. MasterStops => TypeRest'
  BY DEF MasterStops
<1>5. OnMasterRegReply /\ HandlePacket => TypeRest'
  BY DEF OnMasterRegReply, HandlePacket, initWireline, initDone
<1>6. OnMasterAliveReply /\ HandlePacket => TypeRest'
  BY DEF OnMasterAliveReply, HandlePacket
<1>7. OnPeerReq /\ HandlePacket => TypeRest'
  BY DEF OnPeerReq, HandlePacket, initDone
<1>8. OnXNLInit /\ HandlePacket => TypeRest'
  BY DEF OnXNLInit, HandlePacket, initWireline, initDone
<1>9. OnRegistrationReply /\ HandlePacket => TypeRest'
  BY DEF OnRegistrationReply, HandlePacket, initDone
<1>10. OnRegistrationRefused => TypeRest'
  BY DEF OnRegistrationRefused, DoClose
<1>11. IgnorePacket => TypeRest'
  BY DEF IgnorePacket
<1>12. \A m \in Packets : Receive(m) => TypeRest'
  BY DEF Receive
<1>13. UNCHANGED vars => TypeRest'
  BY DEF vars
<1> HIDE DEF TypeRest
<1>14. QED
  BY <1>1, <1>2, <1>3, <1>4, <1>5, <1>6, <1>7, <1>8, <1>9, <1>10, <1>11,
     <1>12, <1>13, NextCases

(***************************************************************************)
(* Type correctness of the peer and of the environment around it.          *)
(***************************************************************************)
THEOREM PeerTypeInvariant == Spec => []TypeOK
BY TypeInit, TypeNumStep, TypeSetStep, TypeRestStep, TypeParts, PTL DEF Spec

-----------------------------------------------------------------------------
(***************************************************************************)
(* The inductive invariant: a handler that goes on in STATE_NONE was       *)
(* closed under its listeners, and a peer that cannot be connected by a    *)
(* RegistrationReply has not been connected while a handshake is under     *)
(* way.                                                                    *)
(***************************************************************************)
HandlerInNone == handling # Nothing /\ state = STATE_NONE => closedInside

RepeatableConnect == options.wl /\ ~options.capPlus

NotYetConnected ==
  ~RepeatableConnect => /\ connects <= 1
                        /\ state \in {STATE_CONNECTING, STATE_XNL_INIT}
                             => connects = 0

IInv == /\ TypeOK
        /\ KeepAliveArmed
        /\ HandlerInNone
        /\ ListenersAgree
        /\ NotYetConnected

LEMMA PeerIInv == Spec => []IInv
<1> DEFINE J == KeepAliveArmed /\ HandlerInNone /\ ListenersAgree /\ NotYetConnected
<1>1. Init => IInv
  BY TypeInit DEF Init, IInv, KeepAliveArmed, HandlerInNone,
         ListenersAgree, NotYetConnected
<1>2. TypeOK /\ TypeOK' /\ J /\ [Next]_vars => J'
  <2> SUFFICES ASSUME TypeOK, TypeOK', J, [Next]_vars PROVE J'
    OBVIOUS
  <2> USE DEF TypeOK, KeepAliveArmed, HandlerInNone, ListenersAgree,
              NotYetConnected, RepeatableConnect, Ask, envVars, histVars,
              Nothing
  <2>1. connect => J'
    BY DEF connect
  <2>2. close => J'
    BY DEF close, DoClose
  <2>3. intervalFunction => J'
    BY IntervalEffect
  <2>4. MasterStops => J'
    BY DEF MasterStops
  <2>5. OnMasterRegReply /\ HandlePacket => J'
    BY DEF OnMasterRegReply, HandlePacket, initWireline, initDone
  <2>6. OnMasterAliveReply /\ HandlePacket => J'
    BY DEF OnMasterAliveReply, HandlePacket
  <2>7. OnPeerReq /\ HandlePacket => J'
    BY DEF OnPeerReq, HandlePacket, initDone
  <2>8. OnXNLInit /\ HandlePacket => J'
    BY DEF OnXNLInit, HandlePacket, initWireline, initDone
  <2>9. OnRegistrationReply /\ HandlePacket => J'
    BY DEF OnRegistrationReply, HandlePacket, initDone
  <2>10. OnRegistrationRefused => J'
    BY DEF OnRegistrationRefused, DoClose
  <2>11. IgnorePacket => J'
    BY DEF IgnorePacket
  <2>12. \A m \in Packets : Receive(m) => J'
    BY DEF Receive
  <2>13. UNCHANGED vars => J'
    BY DEF vars
  <2> HIDE DEF J
  <2>14. QED
    BY <2>1, <2>2, <2>3, <2>4, <2>5, <2>6, <2>7, <2>8, <2>9, <2>10, <2>11,
       <2>12, <2>13, NextCases
<1>3. QED
  BY <1>1, <1>2, PeerTypeInvariant, PTL DEF Spec, IInv

(***************************************************************************)
(* An open connection has its interval armed, unless a listener closed it  *)
(* under a handler: nothing else can leave a peer that is never checked.   *)
(***************************************************************************)
THEOREM IntervalAlwaysArmed == Spec => []KeepAliveArmed
BY PeerIInv, PTL DEF IInv

(***************************************************************************)
(* EVENT_CONNECTED and EVENT_CLOSED follow STATE_OK exactly.               *)
(***************************************************************************)
THEOREM EventsFollowState == Spec => []ListenersAgree
BY PeerIInv, PTL DEF IInv

(***************************************************************************)
(* Only a wireline peer outside Capacity Plus can be connected twice.      *)
(***************************************************************************)
THEOREM ConnectedOnceAlways == Spec => []ConnectedOnce
<1>1. IInv => ConnectedOnce
  BY DEF IInv, TypeOK, NotYetConnected, RepeatableConnect, ConnectedOnce
<1>2. QED
  BY <1>1, PeerIInv, PTL
-----------------------------------------------------------------------------
(***************************************************************************)
(* HandshakeComplete.  When only this connection's own answers arrive, a   *)
(* listener never closes it under a handler, and where the handshake has   *)
(* got to shows in the stages passed: in STATE_OK and in the state after   *)
(* STATE_CONNECTING the master has answered, and the wireline registration *)
(* is asked for, or its answer handled, only after what comes before it.   *)
(***************************************************************************)
XNLPassed == options.xnl => stage \cap {"xnlUp", "xnlRefused"} # {}
WLAsked == options.wl => "wlAsked" \in stage

RegistrationAnswers == {"RegistrationReply", "RegistrationRefused"}

StagesPassed ==
  /\ ~closedInside
  /\ state \in {STATE_XNL_INIT, STATE_OK} => "registered" \in stage
  /\ state = STATE_XNL_INIT /\ ~options.xnl => "wlAsked" \in stage
  /\ "RegistrationRequest" \in asked \/ handling \in RegistrationAnswers =>
       "registered" \in stage /\ XNLPassed /\ "wlAsked" \in stage
  /\ state = STATE_OK /\ ~AliasedInit => XNLPassed /\ WLAsked

(***************************************************************************)
(* Without duplicates the handshake is one token: of its requests at most  *)
(* one is unanswered and none while an answer is handled, and none is left *)
(* once the peer is connected.                                             *)
(***************************************************************************)
HandshakeRequests == {"DeviceMasterQuery", "AuthKeyRequest",
                      "ConnectionRequest", "RegistrationRequest"}

HandshakeAnswers == RegistrationAnswers \cup
  {"MasterStatusBroadcast", "AuthKeyReply", "ConnectionReply",
   "ConnectionRefused"}

Unanswered == asked \cap HandshakeRequests

OneInFlight ==
  /\ \A r, s \in Unanswered : r = s
  /\ handling \in HandshakeAnswers => Unanswered = {}
  /\ state = STATE_CONNECTING \/ connects > 0 =>
       Unanswered = {} /\ handling \notin HandshakeAnswers
  /\ state = STATE_CONNECTING => connects = 0
  /\ connects <= 1

Handshake ==
  /\ OwnAnswersOnly => StagesPassed
  /\ OwnAnswersOnly /\ ~world.duplicates /\ RepeatableConnect => OneInFlight

LEMMA IntervalAsks ==
  intervalFunction =>
    /\ \/ asked' = asked \cup {"DeregisterReq"}
       \/ asked' = asked \cup {"MasterAliveReq"}
    /\ UNCHANGED <<world, stage>>
BY DEF intervalFunction, DoClose, Ask

LEMMA StagesStep ==
  ASSUME TypeOK, OwnAnswersOnly, StagesPassed, [Next]_vars
  PROVE  StagesPassed'
<1> USE DEF TypeOK, StagesPassed, OwnAnswersOnly, UserMayCall, XNLPassed,
           WLAsked, AliasedInit, RegistrationAnswers, Ask, Nothing, envVars, histVars
<1>1. connect => StagesPassed'
  BY DEF connect
<1>2. close => StagesPassed'
  BY DEF close, DoClose
<1>3. intervalFunction => StagesPassed'
  BY IntervalEffect, IntervalAsks
<1>4. MasterStops => StagesPassed'
  BY DEF MasterStops
<1>5. OnMasterRegReply /\ HandlePacket => StagesPassed'
  BY DEF OnMasterRegReply, HandlePacket, initWireline, initDone
<1>6. OnMasterAliveReply /\ HandlePacket => StagesPassed'
  BY DEF OnMasterAliveReply, HandlePacket
<1>7. OnPeerReq /\ HandlePacket => StagesPassed'
  BY DEF OnPeerReq, HandlePacket, initDone
<1>8. OnXNLInit /\ HandlePacket => StagesPassed'
  BY DEF OnXNLInit, HandlePacket, initWireline, initDone
<1>9. OnRegistrationReply /\ HandlePacket => StagesPassed'
  BY DEF OnRegistrationReply, HandlePacket, initDone
<1>10. OnRegistrationRefused => StagesPassed'
  BY DEF OnRegistrationRefused, DoClose
<1>11. IgnorePacket => StagesPassed'
  BY DEF IgnorePacket
<1>12. \A m \in Packets : Receive(m) => StagesPassed'
  BY DEF Receive, InTransit, Packets, Answers
<1>13. UNCHANGED vars => StagesPassed'
  BY DEF vars
<1> HIDE DEF StagesPassed
<1>14. QED
  BY <1>1, <1>2, <1>3, <1>4, <1>5, <1>6, <1>7, <1>8,
     <1>9, <1>10, <1>11, <1>12, <1>13, NextCases

LEMMA TokenStep ==
  ASSUME TypeOK, OwnAnswersOnly, ~world.duplicates, RepeatableConnect,
         OneInFlight, [Next]_vars
  PROVE  OneInFlight'
<1> USE DEF TypeOK, OneInFlight, OwnAnswersOnly, UserMayCall,
           RepeatableConnect, RegistrationAnswers,
           Unanswered, HandshakeRequests, HandshakeAnswers, Ask, Nothing,
           envVars, histVars
<1>1. connect => OneInFlight'
  BY DEF connect
<1>2. close => OneInFlight'
  BY DEF close, DoClose
<1>3. intervalFunction => OneInFlight'
  BY IntervalEffect, IntervalAsks
<1>4. MasterStops => OneInFlight'
  BY DEF MasterStops
<1>5. OnMasterRegReply /\ HandlePacket => OneInFlight'
  BY DEF OnMasterRegReply, HandlePacket, initWireline, initDone
<1>6. OnMasterAliveReply /\ HandlePacket => OneInFlight'
  BY DEF OnMasterAliveReply, HandlePacket
<1>7. OnPeerReq /\ HandlePacket => OneInFlight'
  BY DEF OnPeerReq, HandlePacket, initDone
<1>8. OnXNLInit /\ HandlePacket => OneInFlight'
  BY DEF OnXNLInit, HandlePacket, initWireline, initDone
<1>9. OnRegistrationReply /\ HandlePacket => OneInFlight'
  BY DEF OnRegistrationReply, HandlePacket, initDone
<1>10. OnRegistrationRefused => OneInFlight'
  BY DEF OnRegistrationRefused, DoClose
<1>11. IgnorePacket => OneInFlight'
  BY DEF IgnorePacket
<1>12. \A m \in Packets : Receive(m) => OneInFlight'
  BY DEF Receive, InTransit, Packets, Answers
<1>13. UNCHANGED vars => OneInFlight'
  BY DEF vars
<1> HIDE DEF OneInFlight
<1>14. QED
  BY <1>1, <1>2, <1>3, <1>4, <1>5, <1>6, <1>7, <1>8,
     <1>9, <1>10, <1>11, <1>12, <1>13, NextCases

LEMMA SettingsFixed == [Next]_vars => options' = options /\ world' = world
<1> SUFFICES ASSUME [Next]_vars PROVE options' = options /\ world' = world
  OBVIOUS
<1> QED
  BY NextCases
     DEF connect, close, intervalFunction, MasterStops, HandlePacket,
         OnRegistrationRefused, IgnorePacket, Receive, vars

LEMMA PeerHandshake == Spec => []Handshake
<1>1. Init => Handshake
  <2> SUFFICES ASSUME Init PROVE Handshake
    OBVIOUS
  <2>1. StagesPassed
    BY DEF Init, StagesPassed, RegistrationAnswers, Nothing
  <2>2. OneInFlight
    BY DEF Init, OneInFlight, Unanswered, HandshakeRequests, HandshakeAnswers,
           RegistrationAnswers, Nothing
  <2>3. QED
    BY <2>1, <2>2 DEF Handshake
<1>2. TypeOK /\ Handshake /\ [Next]_vars => Handshake'
  <2> SUFFICES ASSUME TypeOK, Handshake, [Next]_vars PROVE Handshake'
    OBVIOUS
  <2>1. UNCHANGED <<OwnAnswersOnly, world.duplicates, RepeatableConnect>>
    BY SettingsFixed DEF OwnAnswersOnly, RepeatableConnect
  <2>2. OwnAnswersOnly' => StagesPassed'
    BY <2>1, StagesStep DEF Handshake
  <2>3. OwnAnswersOnly' /\ ~world.duplicates' /\ RepeatableConnect' => OneInFlight'
    BY <2>1, TokenStep DEF Handshake
  <2>4. QED
    BY <2>2, <2>3 DEF Handshake
<1>3. QED
  BY <1>1, <1>2, PeerTypeInvariant, PTL DEF Spec

(***************************************************************************)
(* STATE_OK is reached only through the enabled handshakes when answers    *)
(* belong to the connection that asked, and without duplicates it is       *)
(* announced once.                                                         *)
(***************************************************************************)
THEOREM HandshakeCompleteAlways == Spec => []HandshakeComplete
<1>1. IInv /\ Handshake => HandshakeComplete
  <2> SUFFICES ASSUME IInv, Handshake, OwnAnswersOnly PROVE HandshakeComplete
    BY DEF HandshakeComplete
  <2>1. state = STATE_OK /\ ~AliasedInit =>
          "registered" \in stage /\ XNLPassed /\ WLAsked
    BY DEF Handshake, StagesPassed
  <2>2. ~world.duplicates => connects <= 1
    BY DEF Handshake, OneInFlight, IInv, NotYetConnected
  <2>3. QED
    BY <2>1, <2>2 DEF HandshakeComplete, XNLPassed, WLAsked
<1>2. QED
  BY <1>1, PeerIInv, PeerHandshake, PTL
=============================================================================
