----------------------------- MODULE IPSCPeer ------------------------------
(***************************************************************************)
(* The connection state machine of Services/IPSCPeer.js: registration with *)
(* the master, the optional XNL and wireline handshakes, the 15 s interval *)
(* that keeps the connection alive or closes it, and the user's connect()  *)
(* and close().                                                            *)
(*                                                                         *)
(* onData first emits EVENT_DATA, and a listener may call connect() or     *)
(* close() before the handler goes on: handling is the packet whose        *)
(* listeners run.  No other handler or timer runs meanwhile.  The later    *)
(* events of a handler come last in it, or before nothing but a reply: a   *)
(* connect() or close() there is one between two handlers.                 *)
(***************************************************************************)
EXTENDS Integers

(***************************************************************************)
(* An environment: do listeners of EVENT_DATA call connect and close, do   *)
(* answers to an earlier connection arrive, do answers arrive twice?       *)
(***************************************************************************)
World == [reentrant : BOOLEAN, staleReplies : BOOLEAN, duplicates : BOOLEAN]

CONSTANT Worlds

ASSUME WorldsAssumption == Worlds \subseteq World

STATE_NONE       == 0
STATE_OK         == 1
STATE_CONNECTING == 2
STATE_XNL_INIT   == 3
STATE_WL_INIT    == 3     \* the same value in the code

States == 0..3

Options == [xnl : BOOLEAN, wl : BOOLEAN, capPlus : BOOLEAN]

Requests == {"MasterRegReq", "MasterAliveReq", "DeregisterReq",
             "DeviceMasterQuery", "AuthKeyRequest", "ConnectionRequest",
             "RegistrationRequest", "PeerListReq"}

(***************************************************************************)
(* What the far end sends, and the request each packet answers.  Another   *)
(* peer of the site (PeerReq: PeerRegReq or PeerAliveReq) speaks up unasked *)
(* and whenever it likes.                                                  *)
(***************************************************************************)
Packets == {"MasterRegReply", "MasterAliveReply", "PeerReq",
            "MasterStatusBroadcast", "AuthKeyReply", "ConnectionReply",
            "ConnectionRefused", "RegistrationReply", "RegistrationRefused"}

Answers(m) ==
  CASE m = "MasterRegReply" -> "MasterRegReq"
    [] m = "MasterAliveReply" -> "MasterAliveReq"
    [] m = "MasterStatusBroadcast" -> "DeviceMasterQuery"
    [] m = "AuthKeyReply" -> "AuthKeyRequest"
    [] m \in {"ConnectionReply", "ConnectionRefused"} -> "ConnectionRequest"
    [] m \in {"RegistrationReply", "RegistrationRefused"} -> "RegistrationRequest"

Nothing == "nothing"

VARIABLES
  options,      \* xnlEnabled, wlEnabled, wlCapPusRevert: set once
  world,        \* environment: one of Worlds, set once
  state,
  interval,     \* is the 15 s interval armed?
  lostPings,
  handling,     \* packet whose EVENT_DATA listeners run, or Nothing
  masterUp,     \* environment: the master answers
  asked,        \* environment: requests of this connection not yet answered
  askedBefore,  \* environment: requests of earlier connections
  stage,        \* history: handshakes begun and passed since connect()
  connects,     \* history: EVENT_CONNECTED since connect(), capped at 2
  lastEvent,    \* history: the last of EVENT_CONNECTED and EVENT_CLOSED
  closedInside  \* history: close() was called by a listener of EVENT_DATA

envVars  == <<masterUp, asked, askedBefore>>
histVars == <<stage, connects, lastEvent, closedInside>>
fixed == <<options, world>>
vars == <<fixed, state, interval, lostPings, handling, envVars, histVars>>

Stages == {"registered", "xnlUp", "xnlRefused", "wlAsked"}

TypeOK ==
  /\ options \in Options
  /\ world \in Worlds
  /\ state \in States
  /\ interval \in BOOLEAN
  /\ lostPings \in Nat
  /\ handling \in Packets \cup {Nothing}
  /\ masterUp \in BOOLEAN
  /\ asked \subseteq Requests
  /\ askedBefore \subseteq Requests
  /\ stage \subseteq Stages
  /\ connects \in 0..2
  /\ lastEvent \in {"CONNECTED", "CLOSED"}
  /\ closedInside \in BOOLEAN

Init ==
  /\ options \in Options
  /\ world \in Worlds
  /\ state = STATE_NONE
  /\ interval = FALSE
  /\ lostPings = 0
  /\ handling = Nothing
  /\ masterUp = TRUE
  /\ asked = {}
  /\ askedBefore = {}
  /\ stage = {}
  /\ connects = 0
  /\ lastEvent = "CLOSED"
  /\ closedInside = FALSE

-----------------------------------------------------------------------------
\* send(): the request is on its way
Ask(requests) == asked' = asked \cup requests

\* mutant of initDone: the listeners are not told
initDoneSilent ==
  /\ state' = STATE_OK
  /\ UNCHANGED <<connects, lastEvent>>

initDone ==
  /\ state' = STATE_OK
  /\ connects' = IF connects < 2 THEN connects + 1 ELSE 2
  /\ lastEvent' = "CONNECTED"

\* initWireline: begin the wireline registration, having passed more stages
initWireline(passed) ==
  /\ state' = STATE_WL_INIT
  /\ stage' = stage \cup passed \cup {"wlAsked"}
  /\ Ask({"RegistrationRequest"})
  /\ UNCHANGED <<connects, lastEvent>>

\* mutant of DoClose: the interval stays armed
DoCloseKeepsInterval ==
  /\ Ask({"DeregisterReq"})
  /\ state' = STATE_NONE
  /\ lastEvent' = "CLOSED"
  /\ UNCHANGED interval

\* close() in a state other than STATE_NONE
DoClose ==
  /\ Ask({"DeregisterReq"})
  /\ state' = STATE_NONE
  /\ interval' = FALSE
  /\ lastEvent' = "CLOSED"

UserMayCall == handling # Nothing => world.reentrant

connect ==
  /\ UserMayCall
  /\ state = STATE_NONE
  /\ state' = STATE_CONNECTING
  /\ lostPings' = 0
  /\ interval' = TRUE
  /\ asked' = {"MasterRegReq"}
  /\ askedBefore' = askedBefore \cup asked
  /\ stage' = {}
  /\ connects' = 0
  /\ closedInside' = FALSE
  /\ UNCHANGED <<fixed, handling, masterUp, lastEvent>>

close ==
  /\ UserMayCall
  /\ state # STATE_NONE
  /\ DoClose
  /\ closedInside' = (handling # Nothing)
  /\ UNCHANGED <<fixed, lostPings, handling, masterUp, askedBefore, stage,
                 connects>>

\* mutant of intervalFunction: only lost pings close, not a stuck handshake
intervalIgnoresState ==
  /\ handling = Nothing
  /\ interval
  /\ state # STATE_NONE
  /\ \/ lostPings > 2 /\ DoClose
     \/ /\ lostPings <= 2
        /\ Ask({"MasterAliveReq"})
        /\ UNCHANGED <<state, interval, lastEvent>>
  /\ UNCHANGED <<fixed, lostPings, handling, masterUp, askedBefore, stage,
                 connects, closedInside>>

\* the 15 s interval; in STATE_NONE it does nothing
intervalFunction ==
  /\ handling = Nothing
  /\ interval
  /\ state # STATE_NONE
  /\ \/ /\ state # STATE_OK \/ lostPings > 2
        /\ DoClose
     \/ /\ state = STATE_OK
        /\ lostPings <= 2
        /\ Ask({"MasterAliveReq"})
        /\ UNCHANGED <<state, interval, lastEvent>>
  /\ UNCHANGED <<fixed, lostPings, handling, masterUp, askedBefore, stage,
                 connects, closedInside>>

-----------------------------------------------------------------------------
(***************************************************************************)
(* The environment.  A packet that answers a request may arrive at any     *)
(* time after it, in any order, or never.                                  *)
(***************************************************************************)
InTransit(m) ==
  m # "PeerReq" =>
    /\ masterUp
    /\ Answers(m) \in asked \cup (IF world.staleReplies THEN askedBefore ELSE {})

MasterStops ==
  /\ masterUp
  /\ masterUp' = FALSE
  /\ UNCHANGED <<fixed, state, interval, lostPings, handling, asked,
                 askedBefore, histVars>>

\* onData up to the emit of EVENT_DATA
Receive(m) ==
  /\ handling = Nothing
  /\ state # STATE_NONE
  /\ InTransit(m)
  /\ handling' = m
  /\ IF world.duplicates \/ m = "PeerReq"
       THEN UNCHANGED <<asked, askedBefore>>
       ELSE /\ asked' = asked \ {Answers(m)}
            /\ askedBefore' = askedBefore \ {Answers(m)}
  /\ UNCHANGED <<fixed, state, interval, lostPings, masterUp, histVars>>

-----------------------------------------------------------------------------
(***************************************************************************)
(* onData after the emit, onWlData and onXNLData: one disjunct per branch. *)
(***************************************************************************)
OnMasterRegReply ==
  /\ handling = "MasterRegReply"
  /\ state = STATE_CONNECTING
  /\ \/ /\ options.xnl
        /\ state' = STATE_XNL_INIT
        /\ Ask({"DeviceMasterQuery"})
        /\ stage' = stage \cup {"registered"}
        /\ UNCHANGED <<connects, lastEvent>>
     \/ /\ ~options.xnl /\ options.wl
        /\ initWireline({"registered"})
     \/ /\ ~options.xnl /\ ~options.wl
        /\ initDone
        /\ stage' = stage \cup {"registered"}
        /\ UNCHANGED asked
  /\ UNCHANGED lostPings

OnMasterAliveReply ==
  /\ handling = "MasterAliveReply"
  /\ lostPings' = 0
  /\ UNCHANGED <<state, asked, stage, connects, lastEvent>>

\* mutant of OnPeerReq: every PeerReq completes the handshake
OnPeerReqAlways ==
  /\ handling = "PeerReq"
  /\ options.wl /\ options.capPlus
  /\ initDone
  /\ UNCHANGED <<asked, stage, lostPings>>

\* a peer of a Capacity Plus site completes the wireline handshake; the
\* reply to it goes to the peer and not to the master
OnPeerReq ==
  /\ handling = "PeerReq"
  /\ options.wl /\ options.capPlus
  /\ IF state = STATE_WL_INIT
       THEN initDone
       ELSE UNCHANGED <<state, connects, lastEvent>>
  /\ UNCHANGED <<asked, stage, lostPings>>

\* mutant of OnXNLInit: the wireline registration is left out
OnXNLInitNoWireline ==
  /\ options.xnl
  /\ state = STATE_XNL_INIT
  /\ \/ /\ handling = "MasterStatusBroadcast"
        /\ Ask({"AuthKeyRequest"})
        /\ UNCHANGED <<state, stage, connects, lastEvent>>
     \/ /\ handling = "AuthKeyReply"
        /\ Ask({"ConnectionRequest"})
        /\ UNCHANGED <<state, stage, connects, lastEvent>>
     \/ /\ handling = "ConnectionReply"
        /\ initDone
        /\ stage' = stage \cup {"xnlUp"}
        /\ UNCHANGED asked
  /\ UNCHANGED lostPings

OnXNLInit ==
  /\ options.xnl
  /\ state = STATE_XNL_INIT
  /\ \/ /\ handling = "MasterStatusBroadcast"
        /\ Ask({"AuthKeyRequest"})
        /\ UNCHANGED <<state, stage, connects, lastEvent>>
     \/ /\ handling = "AuthKeyReply"
        /\ Ask({"ConnectionRequest"})
        /\ UNCHANGED <<state, stage, connects, lastEvent>>
     \/ /\ handling \in {"ConnectionReply", "ConnectionRefused"}
        /\ LET result == IF handling = "ConnectionReply" THEN "xnlUp"
                                                         ELSE "xnlRefused"
           IN  IF options.wl
                 THEN initWireline({result})
                 ELSE /\ initDone
                      /\ stage' = stage \cup {result}
                      /\ UNCHANGED asked
  /\ UNCHANGED lostPings

OnRegistrationReply ==
  /\ handling = "RegistrationReply"
  /\ options.wl
  /\ IF options.capPlus
       THEN /\ Ask({"PeerListReq"})
            /\ UNCHANGED <<state, connects, lastEvent>>
       ELSE /\ initDone
            /\ UNCHANGED asked
  /\ UNCHANGED <<stage, lostPings>>

Answered == OnMasterRegReply \/ OnMasterAliveReply \/ OnPeerReq \/ OnXNLInit
              \/ OnRegistrationReply

HandlePacket ==
  /\ Answered
  /\ handling' = Nothing
  /\ UNCHANGED <<fixed, interval, masterUp, askedBefore, closedInside>>

\* a refused wireline registration closes the connection
OnRegistrationRefused ==
  /\ handling = "RegistrationRefused"
  /\ options.wl /\ state # STATE_NONE
  /\ DoClose
  /\ handling' = Nothing
  /\ UNCHANGED <<fixed, lostPings, masterUp, askedBefore, stage, connects,
                 closedInside>>

\* every other case falls through to the end of onData
IgnorePacket ==
  /\ handling # Nothing
  /\ \/ handling = "MasterRegReply" /\ state # STATE_CONNECTING
     \/ handling = "PeerReq" /\ ~(options.wl /\ options.capPlus)
     \/ /\ handling \in {"MasterStatusBroadcast", "AuthKeyReply",
                         "ConnectionReply", "ConnectionRefused"}
        /\ ~options.xnl \/ state # STATE_XNL_INIT
     \/ handling = "RegistrationReply" /\ ~options.wl
     \/ handling = "RegistrationRefused" /\ (~options.wl \/ state = STATE_NONE)
  /\ handling' = Nothing
  /\ UNCHANGED <<fixed, state, interval, lostPings, envVars, histVars>>

Handle == HandlePacket \/ OnRegistrationRefused \/ IgnorePacket

Next == \/ connect \/ close \/ intervalFunction \/ MasterStops \/ Handle
        \/ \E m \in Packets : Receive(m)

Spec == Init /\ [][Next]_vars

(***************************************************************************)
(* Handlers run to their end, and an armed interval fires although packets *)
(* keep arriving: a handler delays it, hence strong fairness.  Nothing is  *)
(* assumed of the user, the network or the master.                         *)
(***************************************************************************)
FairSpec == Spec /\ WF_vars(Handle) /\ SF_vars(intervalFunction)

-----------------------------------------------------------------------------
(***************************************************************************)
(* An open connection has its interval armed, which is what closes a stuck *)
(* handshake, and a closed one has none; the exception is a connection     *)
(* that a listener of EVENT_DATA closed under a handler.                   *)
(***************************************************************************)
KeepAliveArmed ==
  /\ state # STATE_NONE => interval \/ closedInside
  /\ state = STATE_NONE => ~interval

(***************************************************************************)
(* A listener that follows the events knows the state: the peer is in      *)
(* STATE_OK exactly between EVENT_CONNECTED and EVENT_CLOSED.              *)
(***************************************************************************)
ListenersAgree == (state = STATE_OK) = (lastEvent = "CONNECTED")

(***************************************************************************)
(* STATE_OK is reached only through the handshakes that are enabled, when  *)
(* answers belong to the connection that asked, duplicates included.       *)
(* Excepted is a Capacity Plus peer with XNL: STATE_XNL_INIT and           *)
(* STATE_WL_INIT are one value, and a PeerReq during the XNL handshake     *)
(* ends it.  Without duplicates it is announced once.                      *)
(***************************************************************************)
AliasedInit == options.xnl /\ options.wl /\ options.capPlus
OwnAnswersOnly == ~world.staleReplies /\ ~world.reentrant

HandshakeComplete ==
  OwnAnswersOnly =>
    /\ state = STATE_OK /\ ~AliasedInit =>
         /\ "registered" \in stage
         /\ options.xnl => stage \cap {"xnlUp", "xnlRefused"} # {}
         /\ options.wl => "wlAsked" \in stage
    /\ ~world.duplicates => connects <= 1

(***************************************************************************)
(* EVENT_CONNECTED comes once per connection, except for the wireline peer *)
(* whose RegistrationReply is accepted in every state.                     *)
(***************************************************************************)
ConnectedOnce == connects > 1 => options.wl /\ ~options.capPlus

(***************************************************************************)
(* A handshake never hangs: it completes or the interval closes it.        *)
(***************************************************************************)
HandshakeEnds ==
  state \notin {STATE_NONE, STATE_OK} ~> state \in {STATE_NONE, STATE_OK}

(***************************************************************************)
(* "maintains master connection": a master that stopped answering is       *)
(* noticed.  lostPings is never incremented, so it is not.                 *)
(***************************************************************************)
MasterLossNoticed == ~masterUp /\ state = STATE_OK ~> state # STATE_OK

(***************************************************************************)
(* A device whose XNL connection was refused is not reported as connected. *)
(***************************************************************************)
RefusalRespected == state = STATE_OK => "xnlRefused" \notin stage
=============================================================================
