---------------------------- MODULE MCIPSCPeer -----------------------------
(***************************************************************************)
(* Model checking of IPSCPeer: the environments of the runs.               *)
(***************************************************************************)
EXTENDS IPSCPeer

\* everything that can happen, and the milder environments in which more holds
MCWorlds == [reentrant : {TRUE}, staleReplies : {TRUE}, duplicates : {TRUE}]
              \cup [reentrant : {FALSE}, staleReplies : {FALSE}, duplicates : BOOLEAN]

\* an orderly network and listeners that only listen
OrderlyWorld == [reentrant : {FALSE}, staleReplies : {FALSE}, duplicates : {FALSE}]
=============================================================================
