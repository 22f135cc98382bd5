------------------------------- MODULE Delivery -------------------------------
(***************************************************************************)
(* What the way from a writer to the data receiver promises: the receiver  *)
(* gets each item in one step, as it is to arrive, before the next one is  *)
(* submitted.  An item may be refused at once, but once it is under way it *)
(* does not get lost.                                                      *)
(***************************************************************************)
CONSTANTS
  Items,      \* what may be submitted
  Refusable,  \* the items that may be refused
  Arrives(_), \* what the receiver may get of an item
  None        \* no item

VARIABLES
  underway,   \* the item submitted and not yet received
  got         \* what the receiver got last, None once another one is submitted

vars == <<underway, got>>

Init == underway = None /\ got = None

Submit(item) ==
  /\ underway = None
  /\ underway' = item
  /\ got' = None

Refuse(item) ==
  /\ underway = None
  /\ got' = None
  /\ UNCHANGED underway

Deliver ==
  /\ underway # None
  /\ got' \in Arrives(underway)
  /\ underway' = None

Next ==
  \/ \E item \in Items : Submit(item)
  \/ \E item \in Refusable : Refuse(item)
  \/ Deliver

Spec == Init /\ [][Next]_vars
=============================================================================
