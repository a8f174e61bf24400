--------------------------- MODULE RetryDelivery ---------------------------
(***************************************************************************)
(* What a retrying gateway promises its user.  Each call id is free or     *)
(* holds one packet.  A packet is transmitted at most RetryLimit times; it *)
(* leaves the gateway because the far end confirmed a transmission, or     *)
(* because the retries are used up.  Failure reports may cost at most      *)
(* Slack of those retries.                                                 *)
(***************************************************************************)
EXTENDS Integers

CONSTANTS Ids,          \* call ids
          RetryLimit,   \* transmissions a packet may have
          Slack         \* retries failure reports may use up

VARIABLES held,         \* ids whose packet the gateway still holds
          tries         \* transmissions of the packet an id holds

avars == <<held, tries>>

ATypeOK == /\ held \subseteq Ids
           /\ tries \in [Ids -> 0..RetryLimit]

AInit == /\ held = {}
         /\ tries = [p \in Ids |-> 0]

Submit(p) == /\ p \notin held
             /\ held' = held \cup {p}
             /\ tries' = [tries EXCEPT ![p] = 0]

Attempt(p) == /\ p \in held
              /\ tries[p] < RetryLimit
              /\ tries' = [tries EXCEPT ![p] = @ + 1]
              /\ UNCHANGED held

Release(p) == /\ held' = held \ {p}
              /\ tries' = [tries EXCEPT ![p] = 0]

Confirm(p) == /\ p \in held
              /\ tries[p] > 0
              /\ Release(p)

Abandon(p) == /\ p \in held
              /\ tries[p] + Slack >= RetryLimit
              /\ Release(p)

ANext == \E p \in Ids : Submit(p) \/ Attempt(p) \/ Confirm(p) \/ Abandon(p)

ASpec == AInit /\ [][ANext]_avars
=============================================================================
