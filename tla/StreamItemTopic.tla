--------------------------- MODULE StreamItemTopic ---------------------------
(***************************************************************************)
(* The topic object of the simulation bus (class StreamItemTopic).  It     *)
(* chooses the QoS profile that the DDS readers and writers of the topic   *)
(* are created with, from the stream type, and keeps that choice in the    *)
(* one field _qos_profile that every reader and writer of the topic in     *)
(* this participant shares.                                                *)
(*                                                                         *)
(* A stream type is the record of what findQosProfile reads of it: the     *)
(* name of its meta type and two properties that are decimal texts, parsed *)
(* by std::stoi.  A property is Unset (the empty text), NotANumber (a text *)
(* std::stoi refuses) or the natural number it spells.                     *)
(***************************************************************************)
EXTENDS Integers

CONSTANTS
  Topics,          \* the topics of one participant (_topics)
  StreamTypes,     \* the stream types in use
  InitialType,     \* the stream type each topic was created with (_stream_type)
  Unset,           \* the value of a property the type does not have
  NotANumber,      \* the value of a property std::stoi throws on
  PlainArray,      \* the name of the meta type "plain-array"
  MaxMessageSize,  \* FEP3_TRANSPORT_LAYER_MAX_MESSAGE_SIZE
  IntMax           \* the largest C++ int

NumberText == {Unset, NotANumber} \cup Nat

ASSUME TopicAssumption ==
  /\ StreamTypes \subseteq
       [metaType : STRING, maxByteSize : NumberText, maxArraySize : NumberText]
  /\ InitialType \in [Topics -> StreamTypes]
  /\ PlainArray \in STRING
  /\ MaxMessageSize \in Nat
  /\ IntMax \in Nat

VARIABLE qosProfile   \* _qos_profile of each topic

SmallData      == "fep3::smalldata"
LargeData      == "fep3::largedata"
DefaultProfile == "fep3::default_profile"
Profiles       == {SmallData, LargeData, DefaultProfile}

-----------------------------------------------------------------------------
(* std::stoi throws invalid_argument or out_of_range.                      *)
StoiThrows(text) == text \notin 0..IntMax

(* A product beyond int is undefined: the build either compares without    *)
(* overflow or sees the two's complement remainder.                        *)
WrapInt(n) == ((n + IntMax + 1) % (2 * (IntMax + 1))) - (IntMax + 1)

ByteSizeIsBig(t) == t.maxByteSize # Unset /\ t.maxByteSize >= MaxMessageSize

ReadsArraySize(t) == t.metaType = PlainArray /\ t.maxArraySize # Unset

(* Evaluating isBigStreamType throws: the byte size does not parse, or it  *)
(* is not big and the array size, looked at next, does not parse.          *)
SizeThrows(t) ==
  \/ t.maxByteSize # Unset /\ StoiThrows(t.maxByteSize)
  \/ /\ ~ (t.maxByteSize # Unset /\ StoiThrows(t.maxByteSize))
     /\ ~ ByteSizeIsBig(t)
     /\ ReadsArraySize(t)
     /\ StoiThrows(t.maxArraySize)

(* The set of answers a build may give when no std::stoi throws.           *)
isBigStreamType(t) ==
  IF ByteSizeIsBig(t) THEN {TRUE}
  ELSE IF ReadsArraySize(t)
       THEN { bytes >= MaxMessageSize :
                bytes \in {8 * t.maxArraySize, WrapInt(8 * t.maxArraySize)} }
       ELSE {FALSE}

(* The lookup in USER_QOS_PROFILES.xml is commented out.                   *)
containsProfile(name) == TRUE

findQosProfile(t) ==
  { IF big /\ containsProfile(t.metaType) THEN LargeData
    ELSE IF containsProfile(t.metaType) THEN SmallData
    ELSE DefaultProfile : big \in isBigStreamType(t) }

(* StreamItemTopic::updateStreamType compares with the type the topic was  *)
(* created with, which no code ever replaces.                              *)
SameAsInitial(topic, t) == t = InitialType[topic]

updateThrows(topic, t) == ~ SameAsInitial(topic, t) /\ SizeThrows(t)

(* updateStreamType returns TRUE: profile becomes the topic's profile.     *)
updateTakes(topic, t, profile) ==
  /\ ~ SameAsInitial(topic, t)
  /\ ~ SizeThrows(t)
  /\ profile \in findQosProfile(t)
  /\ profile # qosProfile[topic]

(* updateStreamType returns FALSE and leaves the profile as it is.         *)
updateIgnores(topic, t) ==
  \/ SameAsInitial(topic, t)
  \/ ~ SizeThrows(t) /\ qosProfile[topic] \in findQosProfile(t)

TopicInit ==
  /\ qosProfile \in [Topics -> Profiles]
  /\ \A topic \in Topics :
       /\ ~ SizeThrows(InitialType[topic])
       /\ qosProfile[topic] \in findQosProfile(InitialType[topic])

TopicTypeOK == qosProfile \in [Topics -> Profiles]
=============================================================================
