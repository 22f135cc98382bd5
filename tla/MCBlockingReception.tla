------------------------- MODULE MCBlockingReception -------------------------
(* Constants for model checking BlockingReception: one or two readers of a *)
(* topic each, and peers that publish samples only (as the writers of this *)
(* plugin do) or stream types as well, which may change the profile or     *)
(* fail to parse.  Of two readers the first has peers that publish types.  *)
EXTENDS BlockingReception

CONSTANTS r1, r2, t1, t2

Raw        == "raw"
Plain      == "plain-array"
MCMaxSize  == 16
MCIntMax   == 31

Small      == [metaType |-> Raw, maxByteSize |-> 1, maxArraySize |-> Unset]
Large      == [metaType |-> Raw, maxByteSize |-> 16, maxArraySize |-> Unset]
Unreadable == [metaType |-> Raw, maxByteSize |-> NotANumber, maxArraySize |-> Unset]

AllTypes   == {Small, Large, Unreadable}
OneReader  == {r1}
TwoReaders == {r1, r2}
TwoTopics  == {t1, t2}
OwnTopic1  == [r \in OneReader |-> t1]
OwnTopic2  == [r \in TwoReaders |-> IF r = r1 THEN t1 ELSE t2]
NoTypes    == [r \in OneReader |-> {}]
AnyType    == [r \in OneReader |-> AllTypes]
ValidType  == [r \in OneReader |-> {Small, Large}]
FirstOnly  == [r \in TwoReaders |-> IF r = r1 THEN {Large, Unreadable} ELSE {}]
SmallTopic == [t \in TwoTopics |-> Small]
=============================================================================
