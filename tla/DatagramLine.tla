---------------------------- MODULE DatagramLine ----------------------------
(***************************************************************************)
(* What the sender of a gateway promises whoever listens to its datagrams. *)
(* Datagrams are accepted whole, and are heard one frame at a time in the  *)
(* order they were accepted in, none of their frames lost, heard twice or  *)
(* among those of another datagram.  Frames are numbered without a gap,    *)
(* and all those of a datagram bear the id of one stream.                  *)
(*                                                                         *)
(* What the frames say is left out: of those that wait it is only told     *)
(* how many there are and where datagrams end among them.                  *)
(***************************************************************************)
EXTENDS Integers, Sequences

CONSTANTS Modulus,      \* sequence numbers run from 0 to Modulus - 1
          Streams,      \* ids of streams
          Distinct      \* whether neighbouring datagrams bear different ids

VARIABLES waiting,      \* frames accepted and not heard yet
          ends,         \* the places among them where a datagram ends
          heard         \* the last frame heard, as a sequence of at most one

avars == <<waiting, ends, heard>>

ATypeOK == /\ waiting \in Nat
           /\ ends \subseteq 1..waiting
           /\ heard = <<>> \/ \E n \in 0..Modulus - 1, s \in Streams, f, l \in BOOLEAN :
                heard = <<[number |-> n, stream |-> s, first |-> f, last |-> l]>>

AInit == /\ waiting = 0
         /\ ends = {}
         /\ heard = <<>>

\* whether the next frame begins a datagram, and which number it has
Opens     == heard = <<>> \/ heard[1].last
Following == ((IF heard = <<>> THEN 0 ELSE heard[1].number) + 1) % Modulus

\* the stream of the next frame: the same within a datagram
Continues(s) ==
  heard # <<>> => /\ ~heard[1].last => s = heard[1].stream
                  /\ heard[1].last /\ Distinct => s # heard[1].stream

Accept == /\ waiting' > waiting
          /\ ends' = ends \cup {waiting'}
          /\ UNCHANGED heard

Hear == /\ waiting > 0
        /\ waiting' = waiting - 1
        /\ ends' = {e - 1 : e \in ends \ {1}}
        /\ \E s \in Streams :
             /\ Continues(s)
             /\ heard' = <<[number |-> Following, stream |-> s,
                            first |-> Opens, last |-> 1 \in ends]>>

ANext == Accept \/ Hear

ASpec == AInit /\ [][ANext]_avars
=============================================================================
