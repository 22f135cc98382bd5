----------------------------- MODULE StreamCodec -----------------------------
(***************************************************************************)
(* The types that travel through DDS (classes Property, StreamType and     *)
(* BusData and their PubSubTypes): what they hold, how many octets they    *)
(* take and how they are written and read, in CDR.                         *)
(*                                                                         *)
(* A buffer is the sequence of the octets after the encapsulation header,  *)
(* from where alignment is counted.  A number takes a word of four octets, *)
(* of which the first holds it here and the others are 0.  A payload is    *)
(* read as it was written: DDS cuts none short.                            *)
(***************************************************************************)
EXTENDS Integers, Sequences

CONSTANTS
  Octets,       \* octets of a sample and characters of a text
  Nul,          \* the octet that ends a C string
  NameMax,      \* 256: capacity of the name of a property
  TypeMax,      \* 64: capacity of the type of a property
  Encapsulation \* 4: octets of the encapsulation header

ASSUME CodecAssumption ==
  /\ Nul \in Octets
  /\ NameMax \in Nat /\ TypeMax \in Nat /\ Encapsulation \in Nat

Text == Seq(Octets)
-----------------------------------------------------------------------------
(* The values.  Copying, moving, assigning and comparing them is memberwise*)

Property   == [name : Text, type : Text, value : Text]
StreamType == [metatype : Text, properties : Seq(Property)]
BusData    == [data : Seq(Octets)]

(* Mutant of Fixed: the last place is kept for a Nul.                      *)
FixedWithNul(text, max) == IF Len(text) < max THEN text ELSE SubSeq(text, 1, max - 1)

(* fixed_string<max> keeps what fits.                                      *)
Fixed(text, max) == IF Len(text) <= max THEN text ELSE SubSeq(text, 1, max)

(* Mutant of MakeProperty: a name of any length.                           *)
MakeLongProperty(name, type, value) ==
  [name |-> name, type |-> Fixed(type, TypeMax), value |-> value]

(* A property whose three members were set.                                *)
MakeProperty(name, type, value) ==
  [name |-> Fixed(name, NameMax), type |-> Fixed(type, TypeMax), value |-> value]

EmptyProperty == [name |-> <<>>, type |-> <<>>, value |-> <<>>]

EmptyStreamType == [metatype |-> <<>>, properties |-> <<>>]

(* A stream type and a sample whose members were set.                      *)
MakeStreamType(metatype, properties) ==
  [metatype |-> metatype, properties |-> properties]

MakeBusData(buffer) == [data |-> buffer]
-----------------------------------------------------------------------------
(* The position after what is written at position n: getCdrSerializedSize  *)
(* adds these up, from 0.                                                  *)

Padding(n) == (4 - (n % 4)) % 4

AfterWord(n) == n + Padding(n) + 4

(* Mutant of AfterText: the final Nul is forgotten.                        *)
AfterBareText(n, text) == AfterWord(n) + Len(text)

AfterText(n, text) == AfterWord(n) + Len(text) + 1

AfterProperty(n, p) == AfterText(AfterText(AfterText(n, p.name), p.type), p.value)

(* The meta type and the number of properties, before the properties.      *)
AfterHead(n, t) == AfterWord(AfterText(n, t.metatype))

AfterBusData(n, d) == AfterWord(n) + Len(d.data)

(* m_typeSize: the size of the payloads the pool holds from the beginning. *)
typeSize(max) == max + Padding(max) + Encapsulation

(* getSerializedSizeProvider.                                              *)
providedSize(size) == size + Encapsulation
-----------------------------------------------------------------------------
(* serialize.                                                              *)

PutWord(buf, n) == buf \o [i \in 1..Padding(Len(buf)) |-> 0] \o <<n, 0, 0, 0>>

NoNul(text) == \A i \in 1..Len(text) : text[i] # Nul

IsEnd(text, n) == text[n] = Nul /\ \A i \in 1..(n - 1) : text[i] # Nul

(* c_str(), as the reader of a C string sees it.                           *)
CStr(text) ==
  IF \E n \in 1..Len(text) : text[n] = Nul
  THEN SubSeq(text, 1, (CHOOSE n \in 1..Len(text) : IsEnd(text, n)) - 1)
  ELSE text

PutText(buf, text) == PutWord(buf, Len(CStr(text)) + 1) \o CStr(text) \o <<Nul>>

(* Mutant of PutProperty: the value before the type.                       *)
PutPropertySwapped(buf, p) == PutText(PutText(PutText(buf, p.name), p.value), p.type)

PutProperty(buf, p) == PutText(PutText(PutText(buf, p.name), p.type), p.value)

PutHead(buf, t) == PutWord(PutText(buf, t.metatype), Len(t.properties))

PutBusData(buf, d) == PutWord(buf, Len(d.data)) \o d.data

(* FastBuffer of max_size octets: beyond it, NotEnoughMemoryException.     *)
FitsIn(buf, room) == Len(buf) + Encapsulation <= room
-----------------------------------------------------------------------------
(* deserialize, from the position pos on; the Nul is not part of a text.   *)

GetWord(buf, pos) ==
  [value |-> buf[pos + Padding(pos) + 1], pos |-> AfterWord(pos)]

GetText(buf, pos) ==
  LET length == GetWord(buf, pos).value
  IN  [text |-> SubSeq(buf, AfterWord(pos) + 1, AfterWord(pos) + length - 1),
       pos  |-> AfterWord(pos) + length]

GetProperty(buf, pos) ==
  LET name  == GetText(buf, pos)
      type  == GetText(buf, name.pos)
      value == GetText(buf, type.pos)
  IN  [property |-> MakeProperty(name.text, type.text, value.text), pos |-> value.pos]

(* The properties are resized: those that the object has remain, to be     *)
(* overwritten one by one.                                                 *)
Resized(properties, n) ==
  [i \in 1..n |-> IF i <= Len(properties) THEN properties[i] ELSE EmptyProperty]

GetHead(buf, pos, old) ==
  LET metatype == GetText(buf, pos)
      count    == GetWord(buf, metatype.pos)
  IN  [type |-> [metatype |-> metatype.text,
                 properties |-> Resized(old.properties, count.value)],
       pos  |-> count.pos]

GetBusData(buf, pos) ==
  LET length == GetWord(buf, pos).value
  IN  [data |-> SubSeq(buf, AfterWord(pos) + 1, AfterWord(pos) + length)]
=============================================================================
