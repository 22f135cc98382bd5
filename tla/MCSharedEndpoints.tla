------------------------- MODULE MCSharedEndpoints --------------------------
(* Constants for model checking SharedEndpoints: one topic, which was      *)
(* created with a small stream type, another small one and a large one.    *)
EXTENDS SharedEndpoints

CONSTANTS r1, w1, t1

Raw       == "raw"
Plain     == "plain-array"

Small     == [metaType |-> Raw, maxByteSize |-> 1, maxArraySize |-> Unset]
AlsoSmall == [metaType |-> Raw, maxByteSize |-> Unset, maxArraySize |-> Unset]
Large     == [metaType |-> Raw, maxByteSize |-> 16, maxArraySize |-> Unset]

OneTopic   == {t1}
SmallTopic == [t \in OneTopic |-> Small]
AllTypes   == {Small, AlsoSmall, Large}

=============================================================================
