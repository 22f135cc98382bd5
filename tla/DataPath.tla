------------------------------ MODULE DataPath -------------------------------
(***************************************************************************)
(* The way of one sample, or of one stream type, from a writer to the data *)
(* receiver: StreamItemDataWriter::write builds the DDS object, DDS asks   *)
(* the size provider for a payload and has the type support serialize the  *)
(* object into it and, at the reader, deserialize it into an object that   *)
(* it uses again and again, from which createSample and createStreamType   *)
(* make what the receiver gets.  Each turn of the loops over the           *)
(* properties is a step.                                                   *)
(*                                                                         *)
(* One item is under way at a time; which of them DDS keeps and how the    *)
(* reader takes them is the subject of ReaderItemQueue.                    *)
(*                                                                         *)
(* This plugin's writer builds the DDS stream type and leaves it at that:  *)
(* it never gives it to its stream type writer.  The stream types that     *)
(* arrive come from peers, which build them in the same way.               *)
(***************************************************************************)
EXTENDS StreamCodec

CONSTANTS
  SampleData,    \* the data of the samples the application writes
  Times,         \* their times, in nanoseconds
  StreamTypes,   \* the stream types peers publish, properties in some order
  Giga,          \* nanoseconds per second
  WordSize,      \* 2^32: number of values of an uint32_t
  MaxSize        \* getMaxCdrSerializedSize of a sample and of a stream type

Kinds == {"sample", "type"}

ASSUME PathAssumption ==
  /\ SampleData \subseteq Seq(Octets)
  /\ Times \subseteq Int
  /\ StreamTypes \subseteq StreamType
  /\ Giga \in Nat \ {0}
  /\ WordSize \in Nat /\ WordSize % 2 = 0 /\ Giga < WordSize
  /\ MaxSize \in [Kinds -> Nat]

(* A stream type names each of its properties once.                        *)
ASSUME NamesAreUnique ==
  \A t \in StreamTypes : \A i, j \in 1..Len(t.properties) :
    t.properties[i].name = t.properties[j].name => i = j

VARIABLES
  pc,       \* where the item is
  item,     \* what was written: a sample, or a stream type
  object,   \* the DDS object built from it, and the timestamp of a sample
  sizes,    \* the size computed so far, after each step of the computation
  room,     \* max_size of the payload the pool gives next, for each kind
  buffer,   \* the octets of the payload behind its header
  done,     \* number of properties written or read
  pos,      \* position of the deserialization in the buffer
  reused,   \* the stream type object into which the reader deserializes
  result,   \* what the receiver got
  failed    \* why the last item that was written did not get there

vars == <<pc, item, object, sizes, room, buffer, done, pos, reused, result, failed>>

NoResult == [kind |-> "none"]
NoStamp  == [seconds |-> 0, nanosec |-> 0]

Init ==
  /\ pc = "idle"
  /\ item = NoResult
  /\ object = [kind |-> "type", body |-> EmptyStreamType, stamp |-> NoStamp]
  /\ sizes = <<>>
  /\ room = [k \in Kinds |-> typeSize(MaxSize[k])]
  /\ buffer = <<>>
  /\ done = 0
  /\ pos = 0
  /\ reused = EmptyStreamType
  /\ result = NoResult
  /\ failed = "no"
-----------------------------------------------------------------------------
(* Timestamps.                                                             *)

(* duration_cast cuts towards 0.                                           *)
Seconds(t) == IF t >= 0 THEN t \div Giga ELSE -((-t) \div Giga)

(* uint32_t to int32_t.                                                    *)
Signed(n) == IF n < WordSize \div 2 THEN n ELSE n - WordSize

(* Mutant of toStamp: of the nanoseconds, all are given, not the rest.     *)
toStampWhole(t) == [seconds |-> Signed(Seconds(t) % WordSize), nanosec |-> t % WordSize]

(* convertTimestamp, to DDS.                                               *)
toStamp(t) ==
  [seconds |-> Signed(Seconds(t) % WordSize),
   nanosec |-> (t - Seconds(t) * Giga) % WordSize]

(* DDS keeps a proper timestamp; of one whose nanoseconds are a second or  *)
(* more, as negative times give, it may make anything.                     *)
Transported(stamp) ==
  IF stamp.nanosec < Giga THEN {stamp}
  ELSE [seconds : {stamp.seconds}, nanosec : 0..(WordSize - 1)]

(* convertTimestamp, from DDS.                                             *)
fromStamp(stamp) == stamp.seconds * Giga + stamp.nanosec
-----------------------------------------------------------------------------
(* The writer.                                                             *)

Ready == pc \in {"idle", "received"}

(* data_sample.read(raw_memory), convertTimestamp, and write_w_timestamp,  *)
(* which returns an error for a negative time: nobody looks at it.         *)
write(data, t) ==
  /\ Ready
  /\ item' = [kind |-> "sample", data |-> data, time |-> t]
  /\ object' = [kind |-> "sample", body |-> MakeBusData(data), stamp |-> toStamp(t)]
  /\ IF toStamp(t).seconds < 0
     THEN pc' = "idle" /\ failed' = "time"
     ELSE pc' = "size" /\ failed' = "no"
  /\ sizes' = <<>>
  /\ result' = NoResult
  /\ UNCHANGED <<room, buffer, done, pos, reused>>

(* The loop of write(stream_type) over the property names.                 *)
ddsStreamType(t) ==
  MakeStreamType(t.metatype,
    [i \in 1..Len(t.properties) |->
       MakeProperty(t.properties[i].name, t.properties[i].type, t.properties[i].value)])

PeerWrites(t) ==
  /\ Ready
  /\ item' = [kind |-> "type", type |-> t]
  /\ object' = [kind |-> "type", body |-> ddsStreamType(t), stamp |-> NoStamp]
  /\ pc' = "size"
  /\ failed' = "no"
  /\ sizes' = <<>>
  /\ result' = NoResult
  /\ UNCHANGED <<room, buffer, done, pos, reused>>
-----------------------------------------------------------------------------
(* getCdrSerializedSize.                                                   *)

Sizing ==
  /\ pc = "size"
  /\ UNCHANGED <<pc, item, object, room, buffer, done, pos, reused, result, failed>>

SizeBusData ==
  /\ Sizing
  /\ object.kind = "sample"
  /\ sizes = <<>>
  /\ sizes' = <<AfterBusData(0, object.body)>>

SizeHead ==
  /\ Sizing
  /\ object.kind = "type"
  /\ sizes = <<>>
  /\ sizes' = <<AfterHead(0, object.body)>>

SizeProperty ==
  /\ Sizing
  /\ object.kind = "type"
  /\ Len(sizes) \in 1..Len(object.body.properties)
  /\ sizes' = Append(sizes, AfterProperty(sizes[Len(sizes)],
                                          object.body.properties[Len(sizes)]))

NumberOfSizes ==
  IF object.kind = "sample" THEN 1 ELSE 1 + Len(object.body.properties)

(* The pool gives a payload that is large enough, and keeps it: it is not  *)
(* smaller than the payload given before.                                  *)
GetPayload ==
  /\ pc = "size"
  /\ Len(sizes) = NumberOfSizes
  /\ LET size == providedSize(sizes[NumberOfSizes])
     IN  room' = [room EXCEPT ![object.kind] = IF size > @ THEN size ELSE @]
  /\ pc' = "put"
  /\ buffer' = <<>>
  /\ done' = 0
  /\ UNCHANGED <<item, object, sizes, pos, reused, result, failed>>
-----------------------------------------------------------------------------
(* serialize.                                                              *)

(* The octets are in the payload, or the write fails.                      *)
Put(octets, next) ==
  /\ buffer' = octets
  /\ IF FitsIn(octets, room[object.kind])
     THEN pc' = next /\ failed' = "no"
     ELSE pc' = "idle" /\ failed' = "room"
  /\ UNCHANGED <<item, object, sizes, room, pos, reused, result>>

serializeBusData ==
  /\ pc = "put"
  /\ object.kind = "sample"
  /\ Put(PutBusData(<<>>, object.body), "sent")
  /\ UNCHANGED done

serializeHead ==
  /\ pc = "put"
  /\ object.kind = "type"
  /\ Put(PutHead(<<>>, object.body), "put_properties")
  /\ UNCHANGED done

serializeProperty ==
  /\ pc = "put_properties"
  /\ done < Len(object.body.properties)
  /\ Put(PutProperty(buffer, object.body.properties[done + 1]), "put_properties")
  /\ done' = done + 1

Send ==
  /\ pc = "put_properties"
  /\ done = Len(object.body.properties)
  /\ pc' = "sent"
  /\ UNCHANGED <<item, object, sizes, room, buffer, done, pos, reused, result, failed>>
-----------------------------------------------------------------------------
(* The reader.                                                             *)

(* deserialize and createSample.                                           *)
createSample ==
  /\ pc = "sent"
  /\ object.kind = "sample"
  /\ \E stamp \in Transported(object.stamp) :
       result' = [kind |-> "sample",
                  data |-> GetBusData(buffer, 0).data,
                  time |-> fromStamp(stamp)]
  /\ pc' = "received"
  /\ UNCHANGED <<item, object, sizes, room, buffer, done, pos, reused, failed>>

deserializeHead ==
  /\ pc = "sent"
  /\ object.kind = "type"
  /\ reused' = GetHead(buffer, 0, reused).type
  /\ pos' = GetHead(buffer, 0, reused).pos
  /\ done' = 0
  /\ pc' = "get"
  /\ UNCHANGED <<item, object, sizes, room, buffer, result, failed>>

deserializeProperty ==
  /\ pc = "get"
  /\ done < Len(reused.properties)
  /\ LET got == GetProperty(buffer, pos)
     IN  /\ reused' = [reused EXCEPT !.properties[done + 1] = got.property]
         /\ pos' = got.pos
  /\ done' = done + 1
  /\ UNCHANGED <<pc, item, object, sizes, room, buffer, result, failed>>

(* setProperty for one after the other: of two of a name, the last counts. *)
byName(properties) ==
  [name \in { properties[i].name : i \in 1..Len(properties) } |->
     LET last == CHOOSE i \in 1..Len(properties) :
                   /\ properties[i].name = name
                   /\ \A j \in (i + 1)..Len(properties) : properties[j].name # name
     IN  [type |-> properties[last].type, value |-> properties[last].value]]

createStreamType ==
  /\ pc = "get"
  /\ done = Len(reused.properties)
  /\ result' = [kind |-> "type", metatype |-> reused.metatype,
                properties |-> byName(reused.properties)]
  /\ pc' = "received"
  /\ UNCHANGED <<item, object, sizes, room, buffer, done, pos, reused, failed>>
-----------------------------------------------------------------------------
Next ==
  \/ \E data \in SampleData, t \in Times : write(data, t)
  \/ \E t \in StreamTypes : PeerWrites(t)
  \/ SizeBusData \/ SizeHead \/ SizeProperty \/ GetPayload
  \/ serializeBusData \/ serializeHead \/ serializeProperty \/ Send
  \/ createSample \/ deserializeHead \/ deserializeProperty \/ createStreamType

Spec == Init /\ [][Next]_vars
-----------------------------------------------------------------------------
(* The values of the variables; no property is longer than its members may *)
(* be, neither written nor read.                                           *)
ShortProperty(p) == Len(p.name) <= NameMax /\ Len(p.type) <= TypeMax

PathTypeOK ==
  /\ pc \in {"idle", "size", "put", "put_properties", "sent", "get", "received"}
  /\ item.kind \in Kinds \cup {"none"}
  /\ object.kind \in Kinds
  /\ object.kind = "sample" => object.body \in BusData
  /\ object.kind = "type" =>
       /\ object.body \in StreamType
       /\ \A i \in 1..Len(object.body.properties) : ShortProperty(object.body.properties[i])
  /\ object.stamp.seconds \in Int /\ object.stamp.nanosec \in 0..(WordSize - 1)
  /\ sizes \in Seq(Nat)
  /\ room \in [Kinds -> Nat]
  /\ buffer \in Seq(Octets \cup Nat)
  /\ done \in Nat
  /\ pos \in Nat
  /\ result.kind \in Kinds \cup {"none"}
  /\ failed \in {"no", "time", "room"}

(* The size provider covers what serialize writes, its padding and final   *)
(* Nuls included, whatever the pool kept: no write fails for lack of room, *)
(* a failure that write would not even report.                             *)
NeverTooShort == failed # "room"

(* Times from 0 up to 2^31 seconds: the others are refused or come out     *)
(* as another time.                                                        *)
InRange(t) == t >= 0 /\ t < (WordSize \div 2) * Giga

(* A sample reaches the receiver with the data and, if it is in range, the *)
(* time that it was written with, to the nanosecond.                       *)
SamplesArriveIntact ==
  pc = "received" /\ item.kind = "sample" =>
    /\ result.data = item.data
    /\ InRange(item.time) => result.time = item.time

(* Nothing of a stream type is cut away: no text contains the octet Nul,   *)
(* and the names and types of its properties fit in their fixed_strings.   *)
Fits(t) ==
  /\ NoNul(t.metatype)
  /\ \A i \in 1..Len(t.properties) :
       /\ ShortProperty(t.properties[i])
       /\ NoNul(t.properties[i].name)
       /\ NoNul(t.properties[i].type)
       /\ NoNul(t.properties[i].value)

(* A stream type of which nothing is cut away reaches the receiver as it   *)
(* was written, with all its properties and no other, whichever stream     *)
(* type the reader's object held before.                                   *)
TypesArriveIntact ==
  pc = "received" /\ item.kind = "type" /\ Fits(item.type) =>
    /\ result.metatype = item.type.metatype
    /\ result.properties = byName(item.type.properties)
-----------------------------------------------------------------------------
(* The whole way as one step (Delivery).                                   *)

Items ==
  [kind : {"sample"}, data : SampleData, time : Times]
    \cup [kind : {"type"}, type : StreamTypes]

Refusable == { i \in Items : i.kind = "sample" /\ ~ InRange(i.time) }

(* As much of a text as fits in max characters and stands before a Nul.    *)
IsKept(text, max, n) ==
  /\ n <= max
  /\ \A i \in 1..n : text[i] # Nul
  /\ n < Len(text) /\ n < max => text[n + 1] = Nul

Beginning(text, max) ==
  SubSeq(text, 1, CHOOSE n \in 0..Len(text) : IsKept(text, max, n))

Cut(properties) ==
  [i \in 1..Len(properties) |->
     LET p == properties[i]
     IN  [name  |-> Beginning(p.name, NameMax),
          type  |-> Beginning(p.type, TypeMax),
          value |-> Beginning(p.value, Len(p.value))]]

Arrives(i) ==
  IF i.kind = "sample"
  THEN [kind : {"sample"}, data : {i.data},
        time : IF i.time >= 0 THEN {i.time % (WordSize * Giga)} ELSE Int]
  ELSE {[kind       |-> "type",
         metatype   |-> Beginning(i.type.metatype, Len(i.type.metatype)),
         properties |-> byName(Cut(i.type.properties))]}

Way == INSTANCE Delivery WITH
         None     <- NoResult,
         underway <- IF Ready THEN NoResult ELSE item,
         got      <- result

(* All steps between a write and the receiver look like one: what was      *)
(* accepted is received before anything else is written, whole or cut as   *)
(* the DDS types cut it, its time reduced to the 2^32 seconds that travel, *)
(* and only a sample whose time is out of range is refused.  No step loses *)
(* an item, mixes it with an earlier one or hands on a part of it.         *)
PathIsDelivery == Way!Spec
=============================================================================
