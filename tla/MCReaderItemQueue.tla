-------------------------- MODULE MCReaderItemQueue --------------------------
(* Constants for model checking ReaderItemQueue: stream types of a small,  *)
(* a large and an unreadable byte size, and an array whose size in bits    *)
(* overflows int, with the message limit scaled from 64000 to 16 and int   *)
(* from 32 bits to 6.                                                      *)
EXTENDS ReaderItemQueue

CONSTANTS r1, t1

Raw        == "raw"
Plain      == "plain-array"
MCMaxSize  == 16
MCIntMax   == 31

Small      == [metaType |-> Raw, maxByteSize |-> 1, maxArraySize |-> Unset]
AlsoSmall  == [metaType |-> Raw, maxByteSize |-> Unset, maxArraySize |-> Unset]
Large      == [metaType |-> Raw, maxByteSize |-> 16, maxArraySize |-> Unset]
Unreadable == [metaType |-> Raw, maxByteSize |-> NotANumber, maxArraySize |-> Unset]

Overflowing == [metaType |-> Plain, maxByteSize |-> Unset, maxArraySize |-> 8]

OneReader      == {r1}
OneTopic       == {t1}
ReaderTopic    == [r \in OneReader |-> t1]
SmallTopic     == [t \in OneTopic |-> Small]
AllTypes       == {Small, AlsoSmall, Large, Unreadable, Overflowing}
AnyType        == [r \in OneReader |-> AllTypes]
ReadableType   == [r \in OneReader |-> {Small, AlsoSmall, Large}]
=============================================================================
