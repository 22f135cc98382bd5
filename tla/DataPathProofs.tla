---------------------------- MODULE DataPathProofs ----------------------------
(* Theorems about DataPath, for samples, times and stream types of any     *)
(* number and length, and any sizes that the plugin announces to DDS.      *)
EXTENDS DataPath, StreamCodecProofs

(***************************************************************************)
(* The invariants.                                                         *)
(***************************************************************************)

(* What is under way is what was written.                                  *)
ItemInv ==
  /\ reused \in StreamType
  /\ pc # "idle" => item.kind = object.kind
  /\ pc # "idle" /\ object.kind = "sample" =>
       /\ object.body.data = item.data
       /\ item.time \in Times
       /\ object.stamp = toStamp(item.time)
       /\ object.stamp.seconds >= 0
  /\ pc # "idle" /\ object.kind = "type" =>
       /\ item.type \in StreamTypes
       /\ object.body = ddsStreamType(item.type)

Number == Len(object.body.properties)

(* The sizes are those of what is serialized, and the payload holds them.  *)
SizeInv ==
  pc \in {"size", "put", "put_properties"} =>
    /\ Len(sizes) <= NumberOfSizes
    /\ \A i, j \in 1..Len(sizes) : i <= j => sizes[i] <= sizes[j]
    /\ object.kind = "sample" /\ Len(sizes) > 0 => sizes[1] = AfterBusData(0, object.body)
    /\ object.kind = "type" /\ Len(sizes) > 0 => sizes[1] = AfterHead(0, object.body)
    /\ object.kind = "type" =>
         \A i \in 1..(Len(sizes) - 1) :
           sizes[i + 1] = AfterProperty(sizes[i], object.body.properties[i])
    /\ pc # "size" =>
         Len(sizes) = NumberOfSizes /\ providedSize(sizes[NumberOfSizes]) <= room[object.kind]

(* k properties of t stand in the payload, and s says where.               *)
Layout(buf, t, k, s) ==
  /\ HeadAt(buf, CStr(t.metatype), Len(t.properties))
  /\ s[0] = AfterWord(AfterText(0, CStr(t.metatype)))
  /\ \A i \in 1..k :
       /\ PropertyAt(buf, s[i - 1], Bare(t.properties[i]))
       /\ s[i] = AfterProperty(s[i - 1], Bare(t.properties[i]))

PutInv ==
  /\ pc = "put" => done = 0
  /\ pc = "put_properties" =>
       /\ object.kind = "type"
       /\ done <= Number
       /\ Len(buffer) <= sizes[done + 1]
       /\ \E s \in [0..done -> Nat] :
            Layout(buffer, object.body, done, s) /\ s[done] = Len(buffer)
  /\ pc = "sent" /\ object.kind = "sample" => buffer = PutBusData(<<>>, object.body)

GetInv ==
  /\ pc = "sent" /\ object.kind = "type" =>
       \E s \in [0..Number -> Nat] : Layout(buffer, object.body, Number, s)
  /\ pc = "get" =>
       /\ object.kind = "type"
       /\ done <= Number
       /\ Len(reused.properties) = Number
       /\ reused.metatype = CStr(object.body.metatype)
       /\ \A i \in 1..done : reused.properties[i] = Bare(object.body.properties[i])
       /\ \E s \in [0..Number -> Nat] :
            Layout(buffer, object.body, Number, s) /\ pos = s[done]

PathInv ==
  /\ PathTypeOK /\ ItemInv /\ SizeInv /\ PutInv /\ GetInv
  /\ NeverTooShort /\ SamplesArriveIntact /\ TypesArriveIntact

(***************************************************************************)
(* Timestamps.                                                             *)
(***************************************************************************)

LEMMA StampFacts ==
  ASSUME NEW t \in Int
  PROVE  toStamp(t).seconds \in Int /\ toStamp(t).nanosec \in 0..(WordSize - 1)
<1>0. WordSize \in Nat /\ WordSize > 0 /\ Giga \in Nat \ {0}
  BY PathAssumption
<1>1. Seconds(t) \in Int
  BY <1>0 DEF Seconds
<1> DEFINE n == Seconds(t) % WordSize
           r == t - Seconds(t) * Giga
<1>2. n \in Int /\ r \in Int
  BY <1>0, <1>1
<1>3. Signed(n) \in Int
  BY <1>0, <1>2 DEF Signed
<1>4. r % WordSize \in 0..(WordSize - 1)
  BY <1>0, <1>2
<1> QED BY <1>3, <1>4 DEF toStamp

(* A time in range is given to DDS in whole seconds and the rest.          *)
LEMMA StampInRange ==
  ASSUME NEW t \in Int, InRange(t)
  PROVE  /\ toStamp(t) = [seconds |-> t \div Giga, nanosec |-> t % Giga]
         /\ t \div Giga \in Nat
<1> DEFINE half == WordSize \div 2
           q == t \div Giga
           r == t % Giga
<1>0. /\ WordSize \in Nat /\ Giga \in Nat /\ Giga > 0 /\ Giga < WordSize
      /\ half \in Nat /\ half <= WordSize
      /\ t >= 0 /\ t < half * Giga
  BY PathAssumption DEF InRange
<1>1. q \in Nat /\ r \in 0..(Giga - 1) /\ t = q * Giga + r
  BY <1>0
<1> HIDE DEF half, q, r
<1>2. q < half
  <2> SUFFICES ASSUME ~ (q < half) PROVE FALSE
    OBVIOUS
  <2>1. PICK k \in Nat : q = half + k
    BY <1>0, <1>1
  <2>2. q * Giga = half * Giga + k * Giga /\ k * Giga >= 0
    BY <1>0, <2>1
  <2>3. q * Giga \in Int /\ half * Giga \in Int /\ k * Giga \in Int
    BY <1>0, <1>1
  <2> QED BY <1>0, <1>1, <2>2, <2>3
<1>3. Seconds(t) = q
  BY <1>0 DEF Seconds, q
<1>4. q % WordSize = q /\ Signed(q) = q
  BY <1>0, <1>1, <1>2 DEF Signed, half
<1>5. t - q * Giga = r /\ r \in Nat /\ r < Giga
  <2>1. q * Giga \in Int
    BY <1>0, <1>1
  <2> QED BY <1>0, <1>1, <2>1
<1>6. r % WordSize = r
  BY <1>0, <1>5
<1>7. toStamp(t) = [seconds |-> q, nanosec |-> r]
  BY <1>3, <1>4, <1>5, <1>6 DEF toStamp
<1> QED BY <1>1, <1>7 DEF q, r

(* It comes back to the nanosecond.                                        *)
LEMMA TimeReturns ==
  ASSUME NEW t \in Int, InRange(t), NEW stamp \in Transported(toStamp(t))
  PROVE  fromStamp(stamp) = t
<1> DEFINE q == t \div Giga
           r == t % Giga
<1>0. Giga \in Nat /\ Giga > 0
  BY PathAssumption
<1>1. q \in Int /\ r \in 0..(Giga - 1) /\ t = q * Giga + r
  BY <1>0
<1>2. toStamp(t) = [seconds |-> q, nanosec |-> r]
  BY StampInRange
<1> HIDE DEF q, r
<1>3. stamp = toStamp(t)
  BY <1>0, <1>1, <1>2 DEF Transported
<1> QED BY <1>1, <1>2, <1>3 DEF fromStamp
-----------------------------------------------------------------------------
(* The stream type that is built, and what is left of it.                  *)
LEMMA DdsFacts ==
  ASSUME NEW t \in StreamTypes
  PROVE  LET d == ddsStreamType(t)
         IN  /\ d \in StreamType
             /\ Len(d.properties) = Len(t.properties)
             /\ \A i \in 1..Len(d.properties) : ShortProperty(d.properties[i])
             /\ Fits(t) =>
                  /\ CStr(d.metatype) = t.metatype
                  /\ \A i \in 1..Len(d.properties) : Bare(d.properties[i]) = t.properties[i]
<1> DEFINE d == ddsStreamType(t)
           n == Len(t.properties)
           made(i) == MakeProperty(t.properties[i].name, t.properties[i].type,
                                   t.properties[i].value)
<1>0. /\ t \in StreamType /\ t.metatype \in Text /\ t.properties \in Seq(Property) /\ n \in Nat
  BY PathAssumption, LenProperties DEF StreamType
<1>1. ASSUME NEW i \in 1..n
      PROVE  /\ made(i) \in Property /\ ShortProperty(made(i))
             /\ ShortProperty(t.properties[i]) => made(i) = t.properties[i]
             /\ t.properties[i] \in Property
  <2> DEFINE p == t.properties[i]
  <2>1. p \in Property
    BY <1>0, ElementOfSeq
  <2>2. /\ p.name \in Text /\ p.type \in Text /\ p.value \in Text
        /\ p = [name |-> p.name, type |-> p.type, value |-> p.value]
    BY <2>1 DEF Property
  <2> HIDE DEF p
  <2>3. LET m == MakeProperty(p.name, p.type, p.value)
        IN  /\ m \in Property /\ Len(m.name) <= NameMax /\ Len(m.type) <= TypeMax
            /\ Len(p.name) <= NameMax /\ Len(p.type) <= TypeMax =>
                 m = [name |-> p.name, type |-> p.type, value |-> p.value]
    BY <2>2, MakePropertyFacts
  <2> QED BY <2>1, <2>2, <2>3 DEF ShortProperty, p
<1>2. /\ d.metatype = t.metatype
      /\ d.properties = [i \in 1..n |-> made(i)]
      /\ d = [metatype |-> d.metatype, properties |-> d.properties]
  BY DEF ddsStreamType, MakeStreamType
<1> HIDE DEF made, d
<1>3. d.properties \in [1..n -> Property]
  BY <1>1, <1>2
<1>4. d.properties \in Seq(Property) /\ Len(d.properties) = n
  BY <1>0, <1>3
<1>5. d \in StreamType
  BY <1>0, <1>2, <1>4 DEF StreamType
<1>6. \A i \in 1..n : d.properties[i] = made(i)
  BY <1>2
<1>7. ASSUME Fits(t)
      PROVE  /\ CStr(d.metatype) = t.metatype
             /\ \A i \in 1..n : Bare(d.properties[i]) = t.properties[i]
  <2>1. CStr(d.metatype) = t.metatype
    BY <1>0, <1>2, <1>7, CStrFacts DEF Fits
  <2>2. ASSUME NEW i \in 1..n PROVE Bare(d.properties[i]) = t.properties[i]
    <3>1. d.properties[i] = t.properties[i]
      BY <1>1, <1>6, <1>7 DEF Fits
    <3>2. /\ NoNul(t.properties[i].name) /\ NoNul(t.properties[i].type)
          /\ NoNul(t.properties[i].value)
      BY <1>7 DEF Fits
    <3>3. Bare(t.properties[i]) = t.properties[i]
      BY <1>1, <3>2, BareFacts
    <3> QED BY <3>1, <3>3
  <2> QED BY <2>1, <2>2
<1> QED BY <1>1, <1>4, <1>5, <1>6, <1>7 DEF d
-----------------------------------------------------------------------------
(* What the invariant says of the object and the sizes.                    *)
LEMMA BodyFacts ==
  ASSUME PathTypeOK
  PROVE  /\ object.kind = "type" =>
              /\ object.body \in StreamType
              /\ object.body.metatype \in Text
              /\ object.body.properties \in Seq(Property)
              /\ Number \in Nat
              /\ \A i \in 1..Number :
                   /\ object.body.properties[i] \in Property
                   /\ ShortProperty(object.body.properties[i])
         /\ NumberOfSizes \in Nat /\ NumberOfSizes >= 1
         /\ object.kind = "type" => NumberOfSizes = Number + 1
         /\ object.kind = "sample" => NumberOfSizes = 1
         /\ Len(sizes) \in Nat
         /\ \A i \in 1..Len(sizes) : sizes[i] \in Nat
<1>0. Len(sizes) \in Nat /\ \A i \in 1..Len(sizes) : sizes[i] \in Nat
  BY LenProperties, ElementOfSeq DEF PathTypeOK
<1>1. CASE object.kind = "type"
  <2>1. /\ object.body \in StreamType
        /\ \A i \in 1..Number : ShortProperty(object.body.properties[i])
    BY <1>1 DEF PathTypeOK, Number
  <2>2. object.body.metatype \in Text /\ object.body.properties \in Seq(Property)
    BY <2>1 DEF StreamType
  <2>3. Number \in Nat /\ \A i \in 1..Number : object.body.properties[i] \in Property
    BY <2>2, LenProperties, ElementOfSeq DEF Number
  <2>4. NumberOfSizes = Number + 1
    BY <1>1, <2>3 DEF NumberOfSizes, Number
  <2>5. NumberOfSizes \in Nat /\ NumberOfSizes >= 1
    BY <2>3, <2>4
  <2> QED BY <1>0, <1>1, <2>1, <2>2, <2>3, <2>4, <2>5
<1>2. CASE object.kind # "type"
  <2>1. object.kind = "sample"
    BY <1>2 DEF PathTypeOK, Kinds
  <2>2. NumberOfSizes = 1
    BY <2>1 DEF NumberOfSizes
  <2> QED BY <1>0, <1>2, <2>2
<1> QED BY <1>1, <1>2

(* What is not longer than one of the sizes fits in the payload.           *)
LEMMA RoomFacts ==
  ASSUME PathTypeOK, SizeInv, pc \in {"put", "put_properties"},
         NEW i \in 1..NumberOfSizes, NEW octets \in Payload
  PROVE  Len(octets) <= sizes[i] => FitsIn(octets, room[object.kind])
<1>0. /\ NumberOfSizes \in Nat /\ NumberOfSizes >= 1
      /\ \A j \in 1..Len(sizes) : sizes[j] \in Nat
  BY BodyFacts
<1>1. /\ Len(sizes) = NumberOfSizes
      /\ providedSize(sizes[NumberOfSizes]) <= room[object.kind]
      /\ \A j, k \in 1..Len(sizes) : j <= k => sizes[j] <= sizes[k]
  BY DEF SizeInv
<1> DEFINE n == NumberOfSizes
<1>i. n \in Nat /\ n >= 1 /\ i \in 1..n
  BY <1>0
<1> HIDE DEF n
<1>2. n \in 1..n /\ i <= n
  BY <1>i
<1>3. sizes[i] <= sizes[n] /\ sizes[i] \in Nat /\ sizes[n] \in Nat
  BY <1>0, <1>1, <1>2, <1>i DEF n
<1>4. Encapsulation \in Nat /\ room[object.kind] \in Nat
  BY CodecAssumption DEF PathTypeOK
<1>5. sizes[n] + Encapsulation <= room[object.kind]
  BY <1>1 DEF providedSize, n
<1>6. Len(octets) <= sizes[i] => Len(octets) + Encapsulation <= room[object.kind]
  <2>1. Len(octets) \in Nat
    BY LenProperties DEF Payload
  <2> QED BY <1>3, <1>4, <1>5, <2>1
<1> QED BY <1>6 DEF FitsIn

(***************************************************************************)
(* The steps.                                                              *)
(***************************************************************************)

LEMMA PathInitially == Init => PathInv
<1> SUFFICES ASSUME Init PROVE PathInv
  OBVIOUS
<1> USE DEF Init
<1>1. EmptyStreamType \in StreamType /\ Len(EmptyStreamType.properties) = 0
  BY EmptySeq DEF EmptyStreamType, StreamType, Text
<1>2. room \in [Kinds -> Nat]
  <2>1. ASSUME NEW k \in Kinds PROVE typeSize(MaxSize[k]) \in Nat
    <3>1. MaxSize[k] \in Nat /\ Encapsulation \in Nat
      BY PathAssumption, CodecAssumption
    <3>2. Padding(MaxSize[k]) \in Nat
      BY <3>1, WordFacts
    <3> QED BY <3>1, <3>2 DEF typeSize
  <2> QED BY <2>1
<1>3. object.stamp.seconds \in Int /\ object.stamp.nanosec \in 0..(WordSize - 1)
  BY PathAssumption DEF NoStamp
<1>4. PathTypeOK
  BY <1>1, <1>2, <1>3, EmptySeq DEF PathTypeOK, Kinds, NoResult
<1>5. ItemInv /\ SizeInv /\ PutInv /\ GetInv
  BY <1>1 DEF ItemInv, SizeInv, PutInv, GetInv
<1>6. NeverTooShort /\ SamplesArriveIntact /\ TypesArriveIntact
  BY DEF NeverTooShort, SamplesArriveIntact, TypesArriveIntact
<1> QED BY <1>4, <1>5, <1>6 DEF PathInv

(* Before the first size is computed.                                      *)
LEMMA NoSizes ==
  ASSUME pc' \in {"idle", "size"}, Len(sizes') = 0, NumberOfSizes' \in Nat
  PROVE  SizeInv'
<1>1. \A i \in 1..Len(sizes') : FALSE
  OBVIOUS
<1>2. \A i \in 1..(Len(sizes') - 1) : FALSE
  OBVIOUS
<1>3. Len(sizes') <= NumberOfSizes' /\ ~ (Len(sizes') > 0)
  OBVIOUS
<1> QED BY <1>1, <1>2, <1>3 DEF SizeInv

LEMMA WriteStep ==
  ASSUME PathInv, NEW data \in SampleData, NEW t \in Times, write(data, t)
  PROVE  PathInv'
<1> USE DEF write
<1>0. data \in Seq(Octets) /\ t \in Int
  BY PathAssumption
<1>1. toStamp(t).seconds \in Int /\ toStamp(t).nanosec \in 0..(WordSize - 1)
  BY <1>0, StampFacts
<1>2. /\ object'.kind = "sample" /\ object'.body = MakeBusData(data)
      /\ object'.stamp = toStamp(t)
      /\ item'.kind = "sample" /\ item'.data = data /\ item'.time = t
      /\ result'.kind = "none"
  BY DEF NoResult
<1>3. MakeBusData(data) \in BusData /\ MakeBusData(data).data = data
  BY <1>0 DEF MakeBusData, BusData
<1>4. pc' \in {"idle", "size"} /\ failed' \in {"no", "time"}
  OBVIOUS
<1>5. Len(sizes') = 0 /\ sizes' \in Seq(Nat)
  BY EmptySeq
<1>6. PathTypeOK'
  BY <1>1, <1>2, <1>3, <1>4, <1>5 DEF PathInv, PathTypeOK, Kinds
<1>7. ItemInv'
  <2>1. pc' # "idle" => toStamp(t).seconds >= 0
    BY <1>1
  <2> QED BY <1>2, <1>3, <2>1 DEF PathInv, ItemInv
<1>8. SizeInv'
  <2>1. NumberOfSizes' = 1
    BY <1>2 DEF NumberOfSizes
  <2> QED BY <1>4, <1>5, <2>1, NoSizes
<1>9. PutInv' /\ GetInv'
  BY <1>4 DEF PutInv, GetInv
<1>10. (NeverTooShort /\ SamplesArriveIntact /\ TypesArriveIntact)'
  BY <1>4 DEF NeverTooShort, SamplesArriveIntact, TypesArriveIntact
<1> QED BY <1>6, <1>7, <1>8, <1>9, <1>10 DEF PathInv

LEMMA PeerStep ==
  ASSUME PathInv, NEW t \in StreamTypes, PeerWrites(t)
  PROVE  PathInv'
<1> USE DEF PeerWrites
<1>1. /\ ddsStreamType(t) \in StreamType
      /\ \A i \in 1..Len(ddsStreamType(t).properties) :
           ShortProperty(ddsStreamType(t).properties[i])
  BY DdsFacts
<1>2. /\ object'.kind = "type" /\ object'.body = ddsStreamType(t) /\ object'.stamp = NoStamp
      /\ item'.kind = "type" /\ item'.type = t
      /\ result'.kind = "none"
  BY DEF NoResult
<1>3. NoStamp.seconds \in Int /\ NoStamp.nanosec \in 0..(WordSize - 1)
  BY PathAssumption DEF NoStamp
<1>4. pc' = "size" /\ failed' = "no"
  OBVIOUS
<1>5. Len(sizes') = 0 /\ sizes' \in Seq(Nat)
  BY EmptySeq
<1>6. PathTypeOK'
  BY <1>1, <1>2, <1>3, <1>4, <1>5 DEF PathInv, PathTypeOK, Kinds
<1>7. ItemInv'
  BY <1>2 DEF PathInv, ItemInv
<1>8. SizeInv'
  <2>1. NumberOfSizes' = 1 + Len(ddsStreamType(t).properties)
    BY <1>2 DEF NumberOfSizes
  <2>2. Len(ddsStreamType(t).properties) \in Nat
    BY <1>1, LenProperties DEF StreamType
  <2>3. NumberOfSizes' \in Nat
    BY <2>1, <2>2
  <2> QED BY <1>4, <1>5, <2>3, NoSizes
<1>9. PutInv' /\ GetInv'
  BY <1>4 DEF PutInv, GetInv
<1>10. (NeverTooShort /\ SamplesArriveIntact /\ TypesArriveIntact)'
  BY <1>4 DEF NeverTooShort, SamplesArriveIntact, TypesArriveIntact
<1> QED BY <1>6, <1>7, <1>8, <1>9, <1>10 DEF PathInv
-----------------------------------------------------------------------------
(* The size provider.                                                      *)
LEMMA HeadPosition ==
  ASSUME NEW t \in StreamType
  PROVE  /\ AfterHead(0, t) \in Nat
         /\ AfterWord(AfterText(0, CStr(t.metatype))) \in Nat
         /\ AfterWord(AfterText(0, CStr(t.metatype))) <= AfterHead(0, t)
<1>1. /\ t.metatype \in Text /\ CStr(t.metatype) \in Text
      /\ Len(CStr(t.metatype)) <= Len(t.metatype)
  BY CStrFacts DEF StreamType
<1>2. /\ AfterText(0, CStr(t.metatype)) \in Nat /\ AfterText(0, t.metatype) \in Nat
      /\ AfterText(0, CStr(t.metatype)) <= AfterText(0, t.metatype)
  BY <1>1, TextPosition, TextGrows
<1> QED BY <1>2, WordFacts, AfterWordGrows DEF AfterHead

(* Only the sizes change.                                                  *)
LEMMA SizingFrame ==
  ASSUME PathInv, Sizing, sizes' \in Seq(Nat)
  PROVE  /\ PathTypeOK' /\ ItemInv' /\ PutInv' /\ GetInv'
         /\ (NeverTooShort /\ SamplesArriveIntact /\ TypesArriveIntact)'
         /\ NumberOfSizes' = NumberOfSizes
<1> USE DEF PathInv, Sizing
<1>1. PathTypeOK'
  BY DEF PathTypeOK
<1>2. ItemInv'
  BY DEF ItemInv
<1>3. PutInv' /\ GetInv'
  BY DEF PutInv, GetInv
<1>4. (NeverTooShort /\ SamplesArriveIntact /\ TypesArriveIntact)'
  BY DEF NeverTooShort, SamplesArriveIntact, TypesArriveIntact
<1> QED BY <1>1, <1>2, <1>3, <1>4 DEF NumberOfSizes

LEMMA SizeFirstStep ==
  ASSUME PathInv, SizeBusData \/ SizeHead
  PROVE  PathInv'
<1>0. PathTypeOK /\ NumberOfSizes \in Nat /\ NumberOfSizes >= 1
  BY BodyFacts DEF PathInv
<1>1. Sizing /\ pc' = "size" /\ object' = object
  BY DEF SizeBusData, SizeHead, Sizing
<1>2. \E n \in Nat :
        /\ sizes' = <<n>>
        /\ object.kind = "sample" => n = AfterBusData(0, object.body)
        /\ object.kind = "type" => n = AfterHead(0, object.body)
  <2>1. CASE SizeBusData
    <3>1. object.kind = "sample" /\ object.body \in BusData
      BY <1>0, <2>1 DEF SizeBusData, PathTypeOK
    <3>2. AfterBusData(0, object.body) \in Nat
      BY <3>1, BusDataFacts, LenProperties DEF Payload
    <3> QED BY <2>1, <3>1, <3>2 DEF SizeBusData
  <2>2. CASE SizeHead
    <3>1. object.kind = "type" /\ object.body \in StreamType
      BY <1>0, <2>2 DEF SizeHead, PathTypeOK
    <3>2. AfterHead(0, object.body) \in Nat
      BY <3>1, HeadPosition
    <3> QED BY <2>2, <3>1, <3>2 DEF SizeHead
  <2> QED BY <2>1, <2>2
<1>3. PICK n \in Nat :
        /\ sizes' = <<n>>
        /\ object.kind = "sample" => n = AfterBusData(0, object.body)
        /\ object.kind = "type" => n = AfterHead(0, object.body)
  BY <1>2
<1>4. sizes' \in Seq(Nat) /\ Len(sizes') = 1 /\ sizes'[1] = n
  BY <1>3
<1>5. NumberOfSizes' = NumberOfSizes
  BY <1>1, <1>4, SizingFrame
<1>6. SizeInv'
  <2>1. Len(sizes') <= NumberOfSizes'
    BY <1>0, <1>4, <1>5
  <2>2. \A i, j \in 1..Len(sizes') : i <= j => sizes'[i] <= sizes'[j]
    BY <1>4
  <2>3. \A i \in 1..(Len(sizes') - 1) : FALSE
    BY <1>4
  <2> QED BY <1>1, <1>3, <1>4, <2>1, <2>2, <2>3 DEF SizeInv
<1> QED BY <1>1, <1>4, <1>6, SizingFrame DEF PathInv

LEMMA SizePropertyStep ==
  ASSUME PathInv, SizeProperty
  PROVE  PathInv'
<1> DEFINE n == Len(sizes)
           p == object.body.properties[n]
           next == AfterProperty(sizes[n], p)
<1>0. /\ pc = "size" /\ pc' = "size" /\ object' = object /\ object.kind = "type"
      /\ n \in 1..Number /\ Sizing
      /\ sizes' = Append(sizes, next)
  BY DEF SizeProperty, Sizing, Number
<1>1. /\ PathTypeOK /\ SizeInv /\ Number \in Nat /\ NumberOfSizes = Number + 1
      /\ n \in Nat /\ n >= 1 /\ p \in Property /\ sizes \in Seq(Nat)
      /\ \A i \in 1..n : sizes[i] \in Nat
  BY <1>0, BodyFacts DEF PathInv, PathTypeOK
<1>2. next \in Nat /\ next > sizes[n]
  <2>1. sizes[n] \in Nat /\ p \in Property
    BY <1>1
  <2> QED BY <2>1, PropertyPosition
<1>3. /\ \A i, j \in 1..n : i <= j => sizes[i] <= sizes[j]
      /\ sizes[1] = AfterHead(0, object.body)
      /\ \A i \in 1..(n - 1) : sizes[i + 1] = AfterProperty(sizes[i], object.body.properties[i])
  <2>1. pc = "size" /\ object.kind = "type" /\ SizeInv /\ Len(sizes) > 0
    BY <1>0, <1>1
  <2>2. \A i, j \in 1..n : i <= j => sizes[i] <= sizes[j]
    BY <2>1 DEF SizeInv
  <2>3. sizes[1] = AfterHead(0, object.body)
    BY <2>1 DEF SizeInv
  <2>4. \A i \in 1..(n - 1) : sizes[i + 1] = AfterProperty(sizes[i], object.body.properties[i])
    BY <2>1 DEF SizeInv
  <2> QED BY <2>2, <2>3, <2>4
<1> HIDE DEF next
<1>4. /\ sizes' \in Seq(Nat) /\ Len(sizes') = n + 1
      /\ \A i \in 1..n : sizes'[i] = sizes[i]
      /\ sizes'[n + 1] = next
  BY <1>0, <1>1, <1>2, AppendProperties
<1>5. NumberOfSizes' = NumberOfSizes
  BY <1>0, <1>4, SizingFrame
<1>6. Len(sizes') <= NumberOfSizes'
  BY <1>0, <1>1, <1>4, <1>5
<1>7. ASSUME NEW i \in 1..Len(sizes'), NEW j \in 1..Len(sizes'), i <= j
      PROVE  sizes'[i] <= sizes'[j]
  <2>1. CASE j \in 1..n
    <3>1. i \in 1..n
      BY <1>1, <1>7, <2>1
    <3> QED BY <1>3, <1>4, <1>7, <2>1, <3>1
  <2>2. CASE j = n + 1 /\ i \in 1..n
    <3>1. sizes[i] <= sizes[n] /\ sizes[i] \in Nat /\ sizes[n] \in Nat
      BY <1>1, <1>3, <2>2
    <3> QED BY <1>2, <1>4, <2>2, <3>1
  <2>3. CASE j = n + 1 /\ i = n + 1
    BY <1>2, <1>4, <2>3
  <2> QED BY <1>1, <1>4, <2>1, <2>2, <2>3
<1>8. ASSUME NEW i \in 1..(Len(sizes') - 1)
      PROVE  sizes'[i + 1] = AfterProperty(sizes'[i], object.body.properties[i])
  <2>1. CASE i \in 1..(n - 1)
    <3>1. i \in 1..n /\ i + 1 \in 1..n
      BY <1>1, <2>1
    <3> QED BY <1>3, <1>4, <2>1, <3>1
  <2>2. CASE i = n
    BY <1>1, <1>4, <2>2 DEF next
  <2> QED BY <1>1, <1>4, <2>1, <2>2
<1>9. sizes'[1] = AfterHead(0, object.body)
  BY <1>1, <1>3, <1>4
<1>10. SizeInv'
  BY <1>0, <1>6, <1>7, <1>8, <1>9 DEF SizeInv
<1> QED BY <1>0, <1>4, <1>10, SizingFrame DEF PathInv

(* The pool gives room for the last of the sizes.                          *)
LEMMA GetPayloadStep ==
  ASSUME PathInv, GetPayload
  PROVE  PathInv'
<1> DEFINE size == providedSize(sizes[NumberOfSizes])
           kind == object.kind
<1>0. /\ pc = "size" /\ pc' = "put" /\ done' = 0 /\ buffer' = <<>>
      /\ Len(sizes) = NumberOfSizes
      /\ room' = [room EXCEPT ![kind] = IF size > room[kind] THEN size ELSE room[kind]]
      /\ UNCHANGED <<item, object, sizes, pos, reused, result, failed>>
  BY DEF GetPayload
<1>1. /\ PathTypeOK /\ SizeInv /\ NumberOfSizes \in 1..Len(sizes) /\ kind \in Kinds
      /\ room \in [Kinds -> Nat]
  BY <1>0, BodyFacts DEF PathInv, PathTypeOK
<1>2. sizes[NumberOfSizes] \in Nat
  BY <1>1, BodyFacts
<1>3. size \in Nat
  BY <1>2, CodecAssumption DEF providedSize
<1> HIDE DEF size
<1>4. room' \in [Kinds -> Nat] /\ size <= room'[kind]
  BY <1>0, <1>1, <1>3
<1>5. PathTypeOK'
  BY <1>0, <1>1, <1>4, EmptySeq DEF PathTypeOK
<1>6. SizeInv'
  <2>1. NumberOfSizes' = NumberOfSizes
    BY <1>0 DEF NumberOfSizes
  <2>2. providedSize(sizes'[NumberOfSizes']) <= room'[object'.kind]
    BY <1>0, <1>4, <2>1 DEF size
  <2> QED BY <1>0, <1>1, <2>1, <2>2 DEF SizeInv
<1>7. ItemInv'
  BY <1>0 DEF PathInv, ItemInv
<1>8. PutInv' /\ GetInv'
  BY <1>0 DEF PutInv, GetInv
<1>9. (NeverTooShort /\ SamplesArriveIntact /\ TypesArriveIntact)'
  BY <1>0 DEF PathInv, NeverTooShort, SamplesArriveIntact, TypesArriveIntact
<1> QED BY <1>5, <1>6, <1>7, <1>8, <1>9 DEF PathInv
-----------------------------------------------------------------------------
(* serialize.                                                              *)

(* What fits is put in the payload, and the rest stays.                    *)
LEMMA PutFrame ==
  ASSUME PathInv, NEW octets \in Payload, NEW next \in {"sent", "put_properties"},
         pc \in {"put", "put_properties"},
         FitsIn(octets, room[object.kind]), Put(octets, next), done' \in Nat
  PROVE  /\ PathTypeOK' /\ ItemInv' /\ buffer' = octets /\ pc' = next
         /\ (NeverTooShort /\ SamplesArriveIntact /\ TypesArriveIntact)'
         /\ UNCHANGED <<item, object, sizes, room, reused>>
         /\ NumberOfSizes' = NumberOfSizes /\ Number' = Number
<1>1. /\ buffer' = octets /\ pc' = next /\ failed' = "no"
      /\ UNCHANGED <<item, object, sizes, room, pos, reused, result>>
  BY DEF Put
<1>2. PathTypeOK'
  BY <1>1 DEF PathInv, PathTypeOK, Payload
<1>3. ItemInv'
  BY <1>1 DEF PathInv, ItemInv
<1>4. (NeverTooShort /\ SamplesArriveIntact /\ TypesArriveIntact)'
  BY <1>1 DEF NeverTooShort, SamplesArriveIntact, TypesArriveIntact
<1> QED BY <1>1, <1>2, <1>3, <1>4 DEF NumberOfSizes, Number

LEMMA PutBusDataStep ==
  ASSUME PathInv, serializeBusData
  PROVE  PathInv'
<1> DEFINE octets == PutBusData(<<>>, object.body)
<1>0. pc = "put" /\ object.kind = "sample" /\ Put(octets, "sent") /\ done' = done
  BY DEF serializeBusData
<1>1. PathTypeOK /\ SizeInv /\ object.body \in BusData /\ done \in Nat
  BY <1>0 DEF PathInv, PathTypeOK
<1>2. octets \in Payload /\ Len(octets) = AfterBusData(0, object.body)
  BY <1>1, BusDataFacts
<1> HIDE DEF octets
<1>3. NumberOfSizes = 1 /\ Len(sizes) = 1 /\ 1 \in 1..NumberOfSizes
  BY <1>0, <1>1, BodyFacts DEF SizeInv
<1>4. Len(octets) <= sizes[1]
  <2>1. sizes[1] = Len(octets)
    BY <1>0, <1>1, <1>2, <1>3 DEF SizeInv
  <2>2. Len(octets) \in Nat
    BY <1>2, LenProperties DEF Payload
  <2> QED BY <2>1, <2>2
<1>5. FitsIn(octets, room[object.kind])
  BY <1>0, <1>1, <1>2, <1>3, <1>4, RoomFacts
<1>6. /\ PathTypeOK' /\ ItemInv' /\ buffer' = octets /\ pc' = "sent"
      /\ (NeverTooShort /\ SamplesArriveIntact /\ TypesArriveIntact)'
      /\ UNCHANGED <<item, object, sizes, room, reused>>
  BY <1>0, <1>1, <1>2, <1>5, PutFrame
<1>7. SizeInv' /\ PutInv' /\ GetInv'
  BY <1>0, <1>6 DEF SizeInv, PutInv, GetInv, octets
<1> QED BY <1>6, <1>7 DEF PathInv

(* The sizes do not change while the payload is filled.                    *)
LEMMA SizesStay ==
  ASSUME SizeInv, pc \in {"put", "put_properties"}, pc' = "put_properties",
         UNCHANGED <<object, sizes, room>>, NumberOfSizes' = NumberOfSizes
  PROVE  SizeInv'
BY DEF SizeInv

LEMMA PutHeadStep ==
  ASSUME PathInv, serializeHead
  PROVE  PathInv'
<1> DEFINE t == object.body
           octets == PutHead(<<>>, t)
           c == CStr(t.metatype)
           first == AfterWord(AfterText(0, c))
<1>0. /\ pc = "put" /\ object.kind = "type" /\ Put(octets, "put_properties")
      /\ done' = done /\ done = 0
  BY DEF serializeHead, PathInv, PutInv
<1>1. PathTypeOK /\ SizeInv /\ t \in StreamType
  BY <1>0 DEF PathInv, PathTypeOK
<1>2. /\ octets \in Payload /\ Len(octets) = first /\ HeadAt(octets, c, Len(t.properties))
      /\ first \in Nat /\ first <= AfterHead(0, t)
  BY <1>1, PutHeadFacts, HeadPosition
<1> HIDE DEF octets
<1>3. /\ Number \in Nat /\ NumberOfSizes = Number + 1 /\ Len(sizes) = NumberOfSizes
      /\ 1 \in 1..NumberOfSizes
  BY <1>0, <1>1, BodyFacts DEF SizeInv
<1>4. Len(octets) <= sizes[1]
  BY <1>0, <1>1, <1>2, <1>3 DEF SizeInv
<1>5. FitsIn(octets, room[object.kind])
  BY <1>0, <1>1, <1>2, <1>3, <1>4, RoomFacts
<1>6. /\ PathTypeOK' /\ ItemInv' /\ buffer' = octets /\ pc' = "put_properties"
      /\ (NeverTooShort /\ SamplesArriveIntact /\ TypesArriveIntact)'
      /\ UNCHANGED <<item, object, sizes, room, reused>>
      /\ NumberOfSizes' = NumberOfSizes /\ Number' = Number
  BY <1>0, <1>2, <1>5, PutFrame
<1>7. SizeInv'
  BY <1>0, <1>1, <1>6, SizesStay
<1>8. PutInv'
  <2> DEFINE s == [i \in 0..0 |-> first]
  <2>1. s \in [0..0 -> Nat] /\ s[0] = first
    BY <1>2
  <2>2. Layout(octets, t, 0, s)
    BY <1>2, <2>1 DEF Layout
  <2>3. \E z \in [0..0 -> Nat] : Layout(octets, t, 0, z) /\ z[0] = Len(octets)
    BY <1>2, <2>1, <2>2
  <2>4. \E z \in [0..done' -> Nat] : Layout(buffer', object'.body, done', z) /\ z[done'] = Len(buffer')
    BY <1>0, <1>6, <2>3
  <2>5. done' <= Number' /\ Len(buffer') <= sizes'[done' + 1]
    BY <1>0, <1>3, <1>4, <1>6
  <2> QED BY <1>0, <1>6, <2>4, <2>5 DEF PutInv
<1>9. GetInv'
  BY <1>6 DEF GetInv
<1> QED BY <1>6, <1>7, <1>8, <1>9 DEF PathInv

(* One more property stands behind those that are there.                   *)
LEMMA LayoutGrows ==
  ASSUME NEW t \in StreamType, NEW k \in Nat, k < Len(t.properties),
         NEW buf \in Payload, NEW s \in [0..k -> Nat],
         Layout(buf, t, k, s), s[k] = Len(buf)
  PROVE  LET more == PutProperty(buf, t.properties[k + 1])
         IN  \E z \in [0..(k + 1) -> Nat] :
               Layout(more, t, k + 1, z) /\ z[k + 1] = Len(more)
<1> DEFINE p == t.properties[k + 1]
           more == PutProperty(buf, p)
           last == AfterProperty(s[k], Bare(p))
           z == [i \in 0..(k + 1) |-> IF i <= k THEN s[i] ELSE last]
<1>0. /\ t.metatype \in Text /\ t.properties \in Seq(Property) /\ Len(t.properties) \in Nat
      /\ k + 1 \in 1..Len(t.properties) /\ s[k] \in Nat
  BY LenProperties DEF StreamType
<1>p. \A i \in 1..Len(t.properties) :
        t.properties[i] \in Property /\ Bare(t.properties[i]) \in Property
  BY <1>0, ElementOfSeq, BareFacts
<1>1. /\ more \in Payload /\ Len(more) = last /\ Extends(more, buf)
      /\ PropertyAt(more, s[k], Bare(p))
  BY <1>0, <1>p, PutPropertyFacts
<1>2. last \in Nat
  BY <1>1, LenProperties DEF Payload
<1> HIDE DEF more, last
<1>3. /\ z \in [0..(k + 1) -> Nat]
      /\ \A i \in 0..k : z[i] = s[i]
      /\ z[k + 1] = last
  BY <1>2
<1> HIDE DEF z
<1>4. HeadAt(more, CStr(t.metatype), Len(t.properties))
  <2>1. CStr(t.metatype) \in Text /\ HeadAt(buf, CStr(t.metatype), Len(t.properties))
    BY <1>0, CStrFacts DEF Layout
  <2> QED BY <1>0, <1>1, <2>1, HeadStays
<1>5. z[0] = AfterWord(AfterText(0, CStr(t.metatype)))
  <2>1. z[0] = s[0]
    BY <1>3, 0 \in 0..k
  <2> QED BY <2>1 DEF Layout
<1>6. ASSUME NEW i \in 1..(k + 1)
      PROVE  /\ PropertyAt(more, z[i - 1], Bare(t.properties[i]))
             /\ z[i] = AfterProperty(z[i - 1], Bare(t.properties[i]))
  <2>1. CASE i \in 1..k
    <3>1. /\ i - 1 \in 0..k /\ i \in 0..k /\ i \in 1..Len(t.properties)
          /\ z[i - 1] = s[i - 1] /\ z[i] = s[i] /\ s[i - 1] \in Nat
      BY <1>0, <1>3, <2>1
    <3>2. /\ PropertyAt(buf, s[i - 1], Bare(t.properties[i]))
          /\ s[i] = AfterProperty(s[i - 1], Bare(t.properties[i]))
      BY <2>1 DEF Layout
    <3>3. PropertyAt(more, s[i - 1], Bare(t.properties[i]))
      BY <1>p, <1>1, <3>1, <3>2, PropertyStays
    <3> QED BY <3>1, <3>2, <3>3
  <2>2. CASE i = k + 1
    <3>1. z[i - 1] = s[k] /\ z[i] = last
      BY <1>3, <2>2
    <3> QED BY <1>1, <2>2, <3>1 DEF last
  <2> QED BY <2>1, <2>2
<1>7. Layout(more, t, k + 1, z)
  BY <1>4, <1>5, <1>6 DEF Layout
<1> QED BY <1>1, <1>3, <1>7 DEF more

LEMMA PutPropertyStep ==
  ASSUME PathInv, serializeProperty
  PROVE  PathInv'
<1> DEFINE t == object.body
           p == t.properties[done + 1]
           octets == PutProperty(buffer, p)
<1>0. /\ pc = "put_properties" /\ done < Number /\ Put(octets, "put_properties")
      /\ done' = done + 1
  BY DEF serializeProperty, Number
<1>1. /\ PathTypeOK /\ SizeInv /\ object.kind = "type" /\ t \in StreamType /\ done \in Nat
      /\ buffer \in Payload /\ Number \in Nat /\ NumberOfSizes = Number + 1
      /\ \A i \in 1..Number : t.properties[i] \in Property
      /\ \A i \in 1..Len(sizes) : sizes[i] \in Nat
      /\ Len(buffer) <= sizes[done + 1] /\ Len(buffer) \in Nat
  BY <1>0, BodyFacts, LenProperties DEF PathInv, PathTypeOK, PutInv, Payload
<1>2. /\ done + 1 \in 1..Number /\ Len(sizes) = NumberOfSizes
      /\ done + 1 \in 1..Len(sizes) /\ done + 2 \in 1..NumberOfSizes
      /\ done + 1 \in 1..(Len(sizes) - 1)
  <2>1. Len(sizes) = Number + 1
    BY <1>0, <1>1 DEF SizeInv
  <2> QED BY <1>0, <1>1, <2>1
<1>3. p \in Property /\ sizes[done + 1] \in Nat
  BY <1>1, <1>2
<1>4. octets \in Payload /\ Len(octets) = AfterProperty(Len(buffer), Bare(p))
  BY <1>1, <1>3, PutPropertyFacts
<1>5. Len(octets) <= sizes[done + 2]
  <2>1. Len(octets) <= AfterProperty(sizes[done + 1], p)
    BY <1>1, <1>3, <1>4, BareGrows
  <2>2. sizes[(done + 1) + 1] = AfterProperty(sizes[done + 1], p) /\ (done + 1) + 1 = done + 2
    BY <1>0, <1>1, <1>2 DEF SizeInv
  <2> QED BY <2>1, <2>2
<1>6. FitsIn(octets, room[object.kind])
  BY <1>0, <1>1, <1>2, <1>4, <1>5, RoomFacts
<1>7. \E z \in [0..(done + 1) -> Nat] :
        Layout(octets, t, done + 1, z) /\ z[done + 1] = Len(octets)
  <2>1. PICK s \in [0..done -> Nat] : Layout(buffer, t, done, s) /\ s[done] = Len(buffer)
    BY <1>0 DEF PathInv, PutInv
  <2>2. done < Len(t.properties)
    BY <1>0 DEF Number
  <2> QED BY <1>1, <2>1, <2>2, LayoutGrows
<1> HIDE DEF octets
<1>8. /\ PathTypeOK' /\ ItemInv' /\ buffer' = octets /\ pc' = "put_properties"
      /\ (NeverTooShort /\ SamplesArriveIntact /\ TypesArriveIntact)'
      /\ UNCHANGED <<item, object, sizes, room, reused>>
      /\ NumberOfSizes' = NumberOfSizes /\ Number' = Number
  BY <1>0, <1>1, <1>4, <1>6, PutFrame
<1>9. SizeInv'
  BY <1>0, <1>1, <1>8, SizesStay
<1>10. PutInv'
  <2>1. done' <= Number' /\ Len(buffer') <= sizes'[done' + 1]
    BY <1>0, <1>1, <1>5, <1>8
  <2>2. \E z \in [0..done' -> Nat] :
          Layout(buffer', object'.body, done', z) /\ z[done'] = Len(buffer')
    BY <1>0, <1>7, <1>8
  <2> QED BY <1>1, <1>8, <2>1, <2>2 DEF PutInv
<1>11. GetInv'
  BY <1>8 DEF GetInv
<1> QED BY <1>8, <1>9, <1>10, <1>11 DEF PathInv

LEMMA SendStep ==
  ASSUME PathInv, Send
  PROVE  PathInv'
<1>0. /\ pc = "put_properties" /\ pc' = "sent" /\ done = Number
      /\ UNCHANGED <<item, object, sizes, room, buffer, done, pos, reused, result, failed>>
  BY DEF Send, Number
<1>1. object.kind = "type" /\ \E s \in [0..Number -> Nat] : Layout(buffer, object.body, Number, s)
  BY <1>0 DEF PathInv, PutInv
<1>2. PathTypeOK' /\ ItemInv' /\ SizeInv' /\ PutInv'
  BY <1>0, <1>1 DEF PathInv, PathTypeOK, ItemInv, SizeInv, PutInv
<1>3. GetInv'
  BY <1>0, <1>1 DEF GetInv, Number
<1>4. (NeverTooShort /\ SamplesArriveIntact /\ TypesArriveIntact)'
  BY <1>0 DEF PathInv, NeverTooShort, SamplesArriveIntact, TypesArriveIntact
<1> QED BY <1>2, <1>3, <1>4 DEF PathInv
-----------------------------------------------------------------------------
(* deserialize.                                                            *)

(* From what was sent, the receiver gets a sample.                         *)
LEMMA CreateSampleStep ==
  ASSUME PathInv, createSample
  PROVE  PathInv'
<1>0. /\ pc = "sent" /\ pc' = "received" /\ object.kind = "sample"
      /\ UNCHANGED <<item, object, sizes, room, buffer, done, pos, reused, failed>>
  BY DEF createSample
<1>1. /\ PathTypeOK /\ object.body \in BusData /\ object.body.data = item.data
      /\ item.kind = "sample" /\ item.time \in Int /\ object.stamp = toStamp(item.time)
      /\ buffer = PutBusData(<<>>, object.body)
  BY <1>0, PathAssumption DEF PathInv, PathTypeOK, ItemInv, PutInv
<1>2. GetBusData(buffer, 0).data = item.data
  BY <1>1, BusDataFacts
<1>3. PICK stamp \in Transported(toStamp(item.time)) :
        result' = [kind |-> "sample", data |-> item.data, time |-> fromStamp(stamp)]
  BY <1>1, <1>2 DEF createSample
<1>4. InRange(item.time) => fromStamp(stamp) = item.time
  BY <1>1, TimeReturns
<1>5. /\ result'.kind = "sample" /\ result'.data = item.data
      /\ result'.time = fromStamp(stamp)
  BY <1>3
<1>6. PathTypeOK' /\ ItemInv'
  BY <1>0, <1>5 DEF PathInv, PathTypeOK, ItemInv, Kinds
<1>7. SizeInv' /\ PutInv' /\ GetInv'
  BY <1>0 DEF SizeInv, PutInv, GetInv
<1>8. SamplesArriveIntact'
  BY <1>0, <1>4, <1>5 DEF SamplesArriveIntact
<1>9. NeverTooShort' /\ TypesArriveIntact'
  BY <1>0, <1>1 DEF PathInv, NeverTooShort, TypesArriveIntact
<1> QED BY <1>6, <1>7, <1>8, <1>9 DEF PathInv

(* The reader's object has the meta type and room for the properties.      *)
LEMMA GetHeadStep ==
  ASSUME PathInv, deserializeHead
  PROVE  PathInv'
<1> DEFINE t == object.body
           c == CStr(t.metatype)
           n == Len(t.properties)
<1>0. /\ pc = "sent" /\ pc' = "get" /\ done' = 0 /\ object.kind = "type"
      /\ reused' = GetHead(buffer, 0, reused).type /\ pos' = GetHead(buffer, 0, reused).pos
      /\ UNCHANGED <<item, object, sizes, room, buffer, result, failed>>
  BY DEF deserializeHead
<1>1. PathTypeOK /\ buffer \in Payload /\ t \in StreamType /\ reused \in StreamType
  BY <1>0 DEF PathInv, PathTypeOK, ItemInv, Payload
<1>2. PICK s \in [0..Number -> Nat] : Layout(buffer, t, Number, s)
  BY <1>0 DEF PathInv, GetInv
<1>3. /\ HeadAt(buffer, c, n) /\ s[0] = AfterWord(AfterText(0, c))
      /\ c \in Text /\ n \in Nat /\ s[0] \in Nat /\ Number = n
  BY <1>1, <1>2, CStrFacts, LenProperties DEF Layout, StreamType, Number
<1>4. /\ reused' \in StreamType /\ reused'.metatype = c
      /\ Len(reused'.properties) = n /\ pos' = s[0]
  BY <1>0, <1>1, <1>3, GetHeadFacts
<1>5. PathTypeOK' /\ ItemInv'
  BY <1>0, <1>3, <1>4 DEF PathInv, PathTypeOK, ItemInv
<1>6. SizeInv' /\ PutInv'
  BY <1>0 DEF SizeInv, PutInv
<1>7. GetInv'
  <2>1. Number' = n /\ Number = n
    BY <1>0, <1>3 DEF Number
  <2>2. \E z \in [0..Number' -> Nat] : Layout(buffer', object'.body, Number', z) /\ pos' = z[done']
    BY <1>0, <1>2, <1>4, <2>1
  <2>3. \A i \in 1..done' : FALSE
    BY <1>0
  <2> QED BY <1>0, <1>3, <1>4, <2>1, <2>2, <2>3 DEF GetInv
<1>8. (NeverTooShort /\ SamplesArriveIntact /\ TypesArriveIntact)'
  BY <1>0 DEF PathInv, NeverTooShort, SamplesArriveIntact, TypesArriveIntact
<1> QED BY <1>5, <1>6, <1>7, <1>8 DEF PathInv

LEMMA GetPropertyStep ==
  ASSUME PathInv, deserializeProperty
  PROVE  PathInv'
<1> DEFINE t == object.body
           q == Bare(t.properties[done + 1])
           got == GetProperty(buffer, pos)
<1>0. /\ pc = "get" /\ pc' = "get" /\ done < Len(reused.properties) /\ done' = done + 1
      /\ reused' = [reused EXCEPT !.properties[done + 1] = got.property] /\ pos' = got.pos
      /\ UNCHANGED <<item, object, sizes, room, buffer, result, failed>>
  BY DEF deserializeProperty
<1>1. /\ PathTypeOK /\ object.kind = "type" /\ Len(reused.properties) = Number
      /\ reused.metatype = CStr(t.metatype)
      /\ \A i \in 1..done : reused.properties[i] = Bare(t.properties[i])
      /\ reused \in StreamType /\ done \in Nat
  BY <1>0 DEF PathInv, PathTypeOK, ItemInv, GetInv
<1>2. /\ t \in StreamType /\ Number \in Nat /\ buffer \in Payload /\ done + 1 \in 1..Number
      /\ t.properties[done + 1] \in Property /\ ShortProperty(t.properties[done + 1])
  <2>1. done + 1 \in 1..Number
    BY <1>0, <1>1, BodyFacts
  <2> QED BY <1>1, <2>1, BodyFacts DEF PathTypeOK, Payload
<1>3. PICK s \in [0..Number -> Nat] : Layout(buffer, t, Number, s) /\ pos = s[done]
  BY <1>0 DEF PathInv, GetInv
<1>4. /\ PropertyAt(buffer, pos, q) /\ s[done + 1] = AfterProperty(pos, q)
      /\ pos \in Nat /\ s[done + 1] \in Nat
  <2>1. (done + 1) - 1 = done /\ done \in 0..Number /\ done + 1 \in 0..Number
    BY <1>1, <1>2
  <2> QED BY <1>2, <1>3, <2>1 DEF Layout
<1>5. q \in Property /\ Len(q.name) <= NameMax /\ Len(q.type) <= TypeMax
  <2> DEFINE p == t.properties[done + 1]
  <2>1. /\ q \in Property /\ Len(q.name) <= Len(p.name) /\ Len(q.type) <= Len(p.type)
        /\ Len(p.name) <= NameMax /\ Len(p.type) <= TypeMax
        /\ p.name \in Text /\ p.type \in Text
    BY <1>2, BareFacts DEF ShortProperty, Property
  <2>2. /\ q.name \in Text /\ q.type \in Text
    BY <2>1 DEF Property
  <2>3. /\ Len(p.name) \in Nat /\ Len(p.type) \in Nat
        /\ Len(q.name) \in Nat /\ Len(q.type) \in Nat
    BY <2>1, <2>2, LenProperties DEF Text
  <2> QED BY <2>1, <2>3, CodecAssumption
<1>6. got.property = q /\ got.pos = s[done + 1]
  BY <1>2, <1>4, <1>5, GetPropertyFacts
<1> HIDE DEF got, q
<1>7. /\ reused' \in StreamType /\ reused'.metatype = reused.metatype
      /\ Len(reused'.properties) = Number
      /\ \A i \in 1..Number :
           reused'.properties[i] = IF i = done + 1 THEN q ELSE reused.properties[i]
  <2> DEFINE new == [reused.properties EXCEPT ![done + 1] = q]
  <2>1. reused.properties \in Seq(Property)
    BY <1>1 DEF StreamType
  <2>2. /\ new \in Seq(Property) /\ Len(new) = Number
        /\ \A i \in 1..Number : new[i] = IF i = done + 1 THEN q ELSE reused.properties[i]
    BY <1>1, <1>2, <1>5, <2>1, ExceptSeq
  <2>3. reused' = [metatype |-> reused.metatype, properties |-> new]
    BY <1>0, <1>1, <1>6 DEF StreamType
  <2> HIDE DEF new
  <2> QED BY <1>1, <2>2, <2>3 DEF StreamType
<1>8. pos' = s[done'] /\ pos' \in Nat /\ done' \in Nat
  BY <1>0, <1>1, <1>4, <1>6
<1>9. PathTypeOK' /\ ItemInv'
  BY <1>0, <1>7, <1>8 DEF PathInv, PathTypeOK, ItemInv
<1>10. SizeInv' /\ PutInv'
  BY <1>0 DEF SizeInv, PutInv
<1>11. GetInv'
  <2>1. Number' = Number /\ done' <= Number
    BY <1>0, <1>1, <1>2 DEF Number
  <2>2. \E z \in [0..Number' -> Nat] : Layout(buffer', object'.body, Number', z) /\ pos' = z[done']
    BY <1>0, <1>3, <1>8, <2>1
  <2>3. ASSUME NEW i \in 1..done' PROVE reused'.properties[i] = Bare(t.properties[i])
    <3>1. i \in 1..Number
      BY <1>0, <1>1, <1>2
    <3>2. CASE i = done + 1
      BY <1>7, <3>1, <3>2 DEF q
    <3>3. CASE i # done + 1
      <4>1. i \in 1..done
        BY <1>0, <1>1, <3>3
      <4> QED BY <1>1, <1>7, <3>1, <3>3, <4>1
    <3> QED BY <3>2, <3>3
  <2> QED BY <1>0, <1>1, <1>7, <2>1, <2>2, <2>3 DEF GetInv
<1>12. (NeverTooShort /\ SamplesArriveIntact /\ TypesArriveIntact)'
  BY <1>0 DEF PathInv, NeverTooShort, SamplesArriveIntact, TypesArriveIntact
<1> QED BY <1>9, <1>10, <1>11, <1>12 DEF PathInv

(* From all properties read, the receiver gets a stream type.              *)
LEMMA CreateTypeStep ==
  ASSUME PathInv, createStreamType
  PROVE  PathInv'
<1> DEFINE t == item.type
<1>0. /\ pc = "get" /\ pc' = "received" /\ done = Len(reused.properties)
      /\ result' = [kind |-> "type", metatype |-> reused.metatype,
                    properties |-> byName(reused.properties)]
      /\ UNCHANGED <<item, object, sizes, room, buffer, done, pos, reused, failed>>
  BY DEF createStreamType
<1>1. /\ PathTypeOK /\ object.kind = "type" /\ item.kind = "type" /\ t \in StreamTypes
      /\ object.body = ddsStreamType(t)
      /\ Len(reused.properties) = Number /\ reused.metatype = CStr(object.body.metatype)
      /\ \A i \in 1..Number : reused.properties[i] = Bare(object.body.properties[i])
      /\ reused \in StreamType
  BY <1>0 DEF PathInv, ItemInv, GetInv
<1>2. ASSUME Fits(t)
      PROVE  reused.metatype = t.metatype /\ reused.properties = t.properties
  <2>1. /\ CStr(object.body.metatype) = t.metatype
        /\ Number = Len(t.properties)
        /\ \A i \in 1..Number : Bare(object.body.properties[i]) = t.properties[i]
    BY <1>1, <1>2, DdsFacts DEF Number
  <2>2. reused.properties \in Seq(Property) /\ t.properties \in Seq(Property)
    BY <1>1, PathAssumption DEF StreamType
  <2>3. \A i \in 1..Len(reused.properties) : reused.properties[i] = t.properties[i]
    BY <1>1, <2>1
  <2>4. reused.properties = t.properties
    BY <1>1, <2>1, <2>2, <2>3, SeqEqual
  <2> QED BY <1>1, <2>1, <2>4
<1>3. /\ result'.kind = "type" /\ result'.metatype = reused.metatype
      /\ result'.properties = byName(reused.properties)
  BY <1>0
<1>4. PathTypeOK' /\ ItemInv'
  BY <1>0, <1>3 DEF PathInv, PathTypeOK, ItemInv, Kinds
<1>5. SizeInv' /\ PutInv' /\ GetInv'
  BY <1>0 DEF SizeInv, PutInv, GetInv
<1>6. TypesArriveIntact'
  <2> SUFFICES ASSUME Fits(t)
               PROVE  /\ result'.metatype = t.metatype
                      /\ result'.properties = byName(t.properties)
    BY <1>0 DEF TypesArriveIntact
  <2> QED BY <1>2, <1>3
<1>7. NeverTooShort' /\ SamplesArriveIntact'
  BY <1>0, <1>1 DEF PathInv, NeverTooShort, SamplesArriveIntact
<1> QED BY <1>4, <1>5, <1>6, <1>7 DEF PathInv

LEMMA PathUnchanged == PathInv /\ UNCHANGED vars => PathInv'
<1> SUFFICES ASSUME PathInv, UNCHANGED vars PROVE PathInv'
  OBVIOUS
<1>0. UNCHANGED <<pc, item, object, sizes, room, buffer, done, pos, reused, result, failed>>
  BY DEF vars
<1>1. PathTypeOK' /\ ItemInv' /\ SizeInv'
  BY <1>0 DEF PathInv, PathTypeOK, ItemInv, SizeInv, NumberOfSizes
<1>2. PutInv' /\ GetInv'
  BY <1>0 DEF PathInv, PutInv, GetInv, Number
<1>3. (NeverTooShort /\ SamplesArriveIntact /\ TypesArriveIntact)'
  BY <1>0 DEF PathInv, NeverTooShort, SamplesArriveIntact, TypesArriveIntact
<1> QED BY <1>1, <1>2, <1>3 DEF PathInv

LEMMA PathStep == PathInv /\ [Next]_vars => PathInv'
BY WriteStep, PeerStep, SizeFirstStep, SizePropertyStep, GetPayloadStep, PutBusDataStep,
   PutHeadStep, PutPropertyStep, SendStep, CreateSampleStep, GetHeadStep, GetPropertyStep,
   CreateTypeStep, PathUnchanged DEF Next

LEMMA PathInvariant == Spec => []PathInv
BY PathInitially, PathStep, PTL DEF Spec
-----------------------------------------------------------------------------
(* The values of the variables; in particular no property is longer than   *)
(* its fixed_strings, and the position stays a number: no length that is   *)
(* read is anything but a length that was written.                         *)
THEOREM PathTypeCorrect == Spec => []PathTypeOK
<1>1. PathInv => PathTypeOK
  BY DEF PathInv
<1> QED BY <1>1, PathInvariant, PTL

(* The size that the provider computes is never too small for what         *)
(* serialize writes, whatever the texts, their Nuls and their number.      *)
THEOREM PayloadsAreLargeEnough == Spec => []NeverTooShort
<1>1. PathInv => NeverTooShort
  BY DEF PathInv
<1> QED BY <1>1, PathInvariant, PTL

(* Every sample arrives with its data and, in range, to the nanosecond     *)
(* with its time.                                                          *)
THEOREM SamplesReturn == Spec => []SamplesArriveIntact
<1>1. PathInv => SamplesArriveIntact
  BY DEF PathInv
<1> QED BY <1>1, PathInvariant, PTL

(* Every stream type of which nothing is cut away arrives as it was        *)
(* written, whichever was read into the same object before.                *)
THEOREM TypesReturn == Spec => []TypesArriveIntact
<1>1. PathInv => TypesArriveIntact
  BY DEF PathInv
<1> QED BY <1>1, PathInvariant, PTL
-----------------------------------------------------------------------------
(* The way as one step.                                                    *)

(* What is less than m is what is left of it and any number of m.          *)
LEMMA ModFacts ==
  ASSUME NEW m \in Nat, NEW k \in Nat, NEW x \in 0..(m - 1)
  PROVE  (k * m + x) % m = x
<1> DEFINE y == (k * m + x) % m
           d == (k * m + x) \div m
<1>1. m > 0 /\ k * m \in Nat
  OBVIOUS
<1>2. y \in 0..(m - 1) /\ d \in Int /\ k * m + x = d * m + y
  BY <1>1
<1> HIDE DEF y, d
<1>3. (k - d) * m = y - x
  <2>1. (k - d) * m = k * m - d * m /\ d * m \in Int
    BY <1>2
  <2> QED BY <1>1, <1>2, <2>1
<1>4. ~ (k - d >= 1)
  <2> SUFFICES ASSUME k - d >= 1 PROVE FALSE
    OBVIOUS
  <2>1. (k - d) * m >= m
    BY <1>1, <1>2
  <2> QED BY <1>2, <1>3, <2>1
<1>5. ~ (k - d <= -1)
  <2> SUFFICES ASSUME k - d <= -1 PROVE FALSE
    OBVIOUS
  <2>1. (k - d) * m <= -m
    BY <1>1, <1>2
  <2> QED BY <1>2, <1>3, <2>1
<1>6. k = d
  BY <1>2, <1>4, <1>5
<1> QED BY <1>1, <1>2, <1>6 DEF y

(* A time from 0 on that is sent loses what is beyond the 2^32 seconds.    *)
LEMMA TimeWraps ==
  ASSUME NEW t \in Int, t >= 0, toStamp(t).seconds >= 0,
         NEW stamp \in Transported(toStamp(t))
  PROVE  fromStamp(stamp) = t % (WordSize * Giga)
<1> DEFINE q == t \div Giga
           r == t % Giga
           k == q \div WordSize
           n == q % WordSize
<1>0. /\ WordSize \in Nat /\ WordSize > 0 /\ Giga \in Nat /\ Giga > 0 /\ Giga < WordSize
  BY PathAssumption
<1>1. q \in Nat /\ r \in 0..(Giga - 1) /\ t = q * Giga + r
  BY <1>0
<1>2. k \in Nat /\ n \in 0..(WordSize - 1) /\ q = k * WordSize + n
  BY <1>0, <1>1
<1>3. Seconds(t) = q
  BY <1>0 DEF Seconds
<1> HIDE DEF q, r, k, n
<1>4. t - q * Giga = r /\ r % WordSize = r
  <2>1. q * Giga \in Int
    BY <1>0, <1>1
  <2> QED BY <1>0, <1>1, <2>1
<1>5. toStamp(t) = [seconds |-> n, nanosec |-> r]
  <2>1. toStamp(t) = [seconds |-> Signed(n), nanosec |-> r]
    BY <1>3, <1>4 DEF toStamp, n
  <2>2. Signed(n) >= 0
    BY <2>1
  <2>3. Signed(n) = n
    BY <1>0, <1>2, <2>2 DEF Signed
  <2> QED BY <2>1, <2>3
<1>6. stamp = toStamp(t)
  BY <1>0, <1>1, <1>5 DEF Transported
<1>7. fromStamp(stamp) = n * Giga + r
  BY <1>5, <1>6 DEF fromStamp
<1> DEFINE m == WordSize * Giga
           x == n * Giga + r
<1>8. m \in Nat /\ x \in 0..(m - 1)
  <2>1. n * Giga \in Nat /\ m \in Nat
    BY <1>0, <1>2
  <2>2. n * Giga <= (WordSize - 1) * Giga
    BY <1>0, <1>2
  <2>3. (WordSize - 1) * Giga = m - Giga
    BY <1>0
  <2> HIDE DEF m
  <2> QED BY <1>0, <1>1, <1>2, <2>1, <2>2, <2>3
<1>9. t = k * m + x
  <2>1. q * Giga = (k * WordSize) * Giga + n * Giga
    BY <1>0, <1>2
  <2>2. (k * WordSize) * Giga = k * m
    BY <1>0, <1>2
  <2>3. k * m \in Int /\ n * Giga \in Int
    BY <1>0, <1>2
  <2> HIDE DEF m
  <2> QED BY <1>1, <2>1, <2>2, <2>3
<1> HIDE DEF m, x
<1>10. t % m = x
  BY <1>2, <1>8, <1>9, ModFacts
<1> QED BY <1>7, <1>10 DEF m, x

(* How much of a text is kept is one number.                               *)
LEMMA OneIsKept ==
  ASSUME NEW text \in Text, NEW max \in Nat,
         NEW n \in 0..Len(text), IsKept(text, max, n),
         NEW m \in 0..Len(text), IsKept(text, max, m)
  PROVE  n = m
<1>0. Len(text) \in Nat
  BY LenProperties DEF Text
<1>1. ASSUME NEW j \in 0..Len(text), IsKept(text, max, j),
             NEW k \in 0..Len(text), IsKept(text, max, k), j < k
      PROVE  FALSE
  <2>1. j + 1 \in 1..k /\ j < Len(text) /\ j < max
    BY <1>0, <1>1 DEF IsKept
  <2> QED BY <1>1, <2>1 DEF IsKept
<1>2. ~ (n < m) /\ ~ (m < n)
  BY <1>1
<1> QED BY <1>0, <1>2

(* A fixed_string, read by c_str(), is the beginning of the text.          *)
LEMMA BeginningFacts ==
  ASSUME NEW text \in Text, NEW max \in Nat
  PROVE  CStr(Fixed(text, max)) = Beginning(text, max)
<1> DEFINE f == Fixed(text, max)
           c == CStr(f)
           k == Len(c)
           kept == CHOOSE n \in 0..Len(text) : IsKept(text, max, n)
<1>0. Len(text) \in Nat
  BY LenProperties DEF Text
<1>1. /\ f \in Text /\ Len(f) = (IF Len(text) <= max THEN Len(text) ELSE max)
      /\ \A i \in 1..Len(f) : f[i] = text[i]
  BY FixedFacts
<1> HIDE DEF f
<1>2. /\ c \in Text /\ k <= Len(f)
      /\ \A i \in 1..k : c[i] = f[i] /\ f[i] # Nul
      /\ k < Len(f) => f[k + 1] = Nul
  BY <1>1, CStrFacts
<1>3. k \in Nat
  BY <1>2, LenProperties DEF Text
<1> HIDE DEF c, k
<1>4. k \in 0..Len(text) /\ IsKept(text, max, k)
  <2>1. k <= Len(text) /\ k <= max
    BY <1>0, <1>1, <1>2, <1>3
  <2>2. \A i \in 1..k : i \in 1..Len(f)
    BY <1>0, <1>1, <1>2, <1>3
  <2>3. \A i \in 1..k : text[i] # Nul
    BY <1>1, <1>2, <2>2
  <2>4. ASSUME k < Len(text), k < max PROVE text[k + 1] = Nul
    <3>1. k < Len(f) /\ k + 1 \in 1..Len(f)
      BY <1>0, <1>1, <1>3, <2>4
    <3> QED BY <1>1, <1>2, <3>1
  <2> QED BY <1>0, <1>3, <2>1, <2>3, <2>4 DEF IsKept
<1>5. kept = k
  <2>1. kept \in 0..Len(text) /\ IsKept(text, max, kept)
    BY <1>4
  <2> HIDE DEF kept
  <2> QED BY <1>4, <2>1, OneIsKept
<1>6. Beginning(text, max) = SubSeq(text, 1, k)
  BY <1>5 DEF Beginning
<1>7. \A i \in 1..k : text[i] \in Octets
  BY <1>0, <1>4, ElementOfSeq DEF Text
<1>8. /\ SubSeq(text, 1, k) \in Seq(Octets)
      /\ Len(SubSeq(text, 1, k)) = k
      /\ \A i \in 1..k : SubSeq(text, 1, k)[i] = text[i]
  <2>1. /\ SubSeq(text, 1, k) \in Seq(Octets)
        /\ Len(SubSeq(text, 1, k)) = IF 1 <= k THEN k - 1 + 1 ELSE 0
        /\ \A i \in 1..(k - 1 + 1) : SubSeq(text, 1, k)[i] = text[1 + i - 1]
    BY <1>3, <1>7, SubSeqProperties
  <2> QED BY <1>3, <2>1
<1>9. \A i \in 1..k : c[i] = text[i]
  <2>1. \A i \in 1..k : i \in 1..Len(f)
    BY <1>0, <1>1, <1>2, <1>3
  <2> QED BY <1>1, <1>2, <2>1
<1>10. c = SubSeq(text, 1, k)
  <2>1. c \in Seq(Octets) /\ Len(c) = k
    BY <1>2 DEF Text, k
  <2> QED BY <1>8, <1>9, <2>1, SeqEqual
<1> QED BY <1>6, <1>10 DEF c, f

(* Without a capacity, of a text all is kept up to the first Nul.          *)
LEMMA WholeBeginning ==
  ASSUME NEW text \in Text
  PROVE  CStr(text) = Beginning(text, Len(text))
<1>1. Len(text) \in Nat /\ Fixed(text, Len(text)) = text
  BY LenProperties DEF Text, Fixed
<1> QED BY <1>1, BeginningFacts

(* What is left of the properties once they are built and serialized.      *)
LEMMA CutFacts ==
  ASSUME NEW t \in StreamTypes
  PROVE  LET d == ddsStreamType(t)
         IN  /\ d.metatype = t.metatype
             /\ CStr(d.metatype) = Beginning(t.metatype, Len(t.metatype))
             /\ Len(d.properties) = Len(t.properties)
             /\ Cut(t.properties) = [i \in 1..Len(t.properties) |-> Bare(d.properties[i])]
<1> DEFINE d == ddsStreamType(t)
           n == Len(t.properties)
<1>0. t.metatype \in Text /\ t.properties \in Seq(Property)
  BY PathAssumption DEF StreamType
<1>1. d.metatype = t.metatype /\ Len(d.properties) = n
  BY DdsFacts DEF ddsStreamType, MakeStreamType
<1>2. CStr(d.metatype) = Beginning(t.metatype, Len(t.metatype))
  BY <1>0, <1>1, WholeBeginning
<1>3. ASSUME NEW i \in 1..n
      PROVE  Bare(d.properties[i]) = Cut(t.properties)[i]
  <2> DEFINE p == t.properties[i]
  <2>1. Bare(d.properties[i]) = [name  |-> CStr(Fixed(p.name, NameMax)),
                                 type  |-> CStr(Fixed(p.type, TypeMax)),
                                 value |-> CStr(p.value)]
    BY DEF ddsStreamType, MakeStreamType, MakeProperty, Bare
  <2>2. p.name \in Text /\ p.type \in Text /\ p.value \in Text
    <3>1. p \in Property
      BY <1>0, ElementOfSeq
    <3> QED BY <3>1 DEF Property
  <2>3. /\ CStr(Fixed(p.name, NameMax)) = Beginning(p.name, NameMax)
        /\ CStr(Fixed(p.type, TypeMax)) = Beginning(p.type, TypeMax)
        /\ CStr(p.value) = Beginning(p.value, Len(p.value))
    BY <2>2, BeginningFacts, WholeBeginning, CodecAssumption
  <2> QED BY <2>1, <2>3 DEF Cut
<1>4. Cut(t.properties) = [i \in 1..n |-> Cut(t.properties)[i]]
  BY DEF Cut
<1> QED BY <1>1, <1>2, <1>3, <1>4

(* No item is under way at the beginning.                                  *)
LEMMA WayInit == Init => Way!Init
BY DEF Init, Way!Init, Ready

(* What is accepted of a sample is submitted, and only a time out of range *)
(* is refused.                                                             *)
LEMMA WayWrite ==
  ASSUME NEW data \in SampleData, NEW t \in Times, write(data, t)
  PROVE  Way!Next
<1> DEFINE i == [kind |-> "sample", data |-> data, time |-> t]
<1>1. Ready /\ item' = i /\ result' = NoResult /\ i \in Items /\ i.kind = "sample" /\ i.time = t
  BY DEF write, Items
<1>2. CASE toStamp(t).seconds < 0
  <2>1. pc' = "idle"
    BY <1>2 DEF write
  <2>2. ~ InRange(t)
    <3> SUFFICES ASSUME InRange(t) PROVE FALSE
      OBVIOUS
    <3> QED BY <1>2, StampInRange, PathAssumption
  <2>3. i \in Refusable
    BY <1>1, <2>2 DEF Refusable
  <2>4. Way!Refuse(i)
    BY <1>1, <2>1 DEF Way!Refuse, Ready
  <2> QED BY <2>3, <2>4 DEF Way!Next
<1>3. CASE ~ (toStamp(t).seconds < 0)
  <2>1. pc' = "size"
    BY <1>3 DEF write
  <2>2. Way!Submit(i)
    BY <1>1, <2>1 DEF Way!Submit, Ready
  <2> QED BY <1>1, <2>2 DEF Way!Next
<1> QED BY <1>2, <1>3

LEMMA WayPeer ==
  ASSUME NEW t \in StreamTypes, PeerWrites(t)
  PROVE  Way!Next
<1> DEFINE i == [kind |-> "type", type |-> t]
<1>1. Ready /\ item' = i /\ result' = NoResult /\ i \in Items /\ pc' = "size"
  BY DEF PeerWrites, Items
<1>2. Way!Submit(i)
  BY <1>1 DEF Way!Submit, Ready
<1> QED BY <1>1, <1>2 DEF Way!Next

(* Until it is received, the item stays under way.                         *)
LEMMA WayStutters ==
  ASSUME ~ Ready, pc' \notin {"idle", "received"}, UNCHANGED <<item, result>>
  PROVE  UNCHANGED Way!vars
BY DEF Way!vars, Ready

(* The sample received is the one submitted.                               *)
LEMMA WaySample ==
  ASSUME PathInv, createSample
  PROVE  Way!Next
<1>0. /\ pc = "sent" /\ pc' = "received" /\ object.kind = "sample"
  BY DEF createSample
<1>1. /\ PathTypeOK /\ object.body \in BusData /\ object.body.data = item.data
      /\ item.kind = "sample" /\ item.time \in Int /\ object.stamp = toStamp(item.time)
      /\ buffer = PutBusData(<<>>, object.body)
      /\ toStamp(item.time).seconds >= 0
  BY <1>0, PathAssumption DEF PathInv, PathTypeOK, ItemInv, PutInv
<1>2. GetBusData(buffer, 0).data = item.data
  BY <1>1, BusDataFacts
<1>3. PICK stamp \in Transported(toStamp(item.time)) :
        result' = [kind |-> "sample", data |-> item.data, time |-> fromStamp(stamp)]
  BY <1>1, <1>2 DEF createSample
<1>4. item.time >= 0 => fromStamp(stamp) = item.time % (WordSize * Giga)
  BY <1>1, TimeWraps
<1>5. fromStamp(stamp) \in Int
  <2>1. /\ toStamp(item.time).seconds \in Int
        /\ toStamp(item.time).nanosec \in 0..(WordSize - 1)
    BY <1>1, StampFacts
  <2>2. stamp.seconds \in Int /\ stamp.nanosec \in Int
    BY <2>1, PathAssumption DEF Transported
  <2> QED BY <2>2, PathAssumption DEF fromStamp
<1>6. result' \in Arrives(item)
  BY <1>1, <1>3, <1>4, <1>5 DEF Arrives
<1>7. item # NoResult
  BY <1>1 DEF NoResult
<1>8. Way!Deliver
  BY <1>0, <1>6, <1>7 DEF Way!Deliver, Ready
<1> QED BY <1>8 DEF Way!Next

(* The stream type received is what is left of the one submitted.          *)
LEMMA WayType ==
  ASSUME PathInv, createStreamType
  PROVE  Way!Next
<1> DEFINE t == item.type
<1>0. /\ pc = "get" /\ pc' = "received" /\ done = Len(reused.properties)
      /\ result' = [kind |-> "type", metatype |-> reused.metatype,
                    properties |-> byName(reused.properties)]
  BY DEF createStreamType
<1>1. /\ PathTypeOK /\ object.kind = "type" /\ item.kind = "type" /\ t \in StreamTypes
      /\ object.body = ddsStreamType(t)
      /\ Len(reused.properties) = Number /\ reused.metatype = CStr(object.body.metatype)
      /\ \A i \in 1..Number : reused.properties[i] = Bare(object.body.properties[i])
      /\ reused \in StreamType
  BY <1>0 DEF PathInv, ItemInv, GetInv
<1>2. /\ CStr(object.body.metatype) = Beginning(t.metatype, Len(t.metatype))
      /\ Number = Len(t.properties)
      /\ Cut(t.properties) = [i \in 1..Len(t.properties) |-> Bare(object.body.properties[i])]
  BY <1>1, CutFacts DEF Number
<1>3. reused.properties = Cut(t.properties)
  <2>1. reused.properties = [i \in 1..Len(reused.properties) |-> reused.properties[i]]
    BY <1>1 DEF StreamType
  <2> QED BY <1>1, <1>2, <2>1
<1>4. result' \in Arrives(item)
  BY <1>0, <1>1, <1>2, <1>3 DEF Arrives
<1>5. item # NoResult
  BY <1>1 DEF NoResult
<1>6. Way!Deliver
  BY <1>0, <1>4, <1>5 DEF Way!Deliver, Ready
<1> QED BY <1>6 DEF Way!Next

(* Every step is one of Delivery or leaves its variables alone; that no    *)
(* payload is too small is what keeps the item from being lost.            *)
LEMMA WayStep == PathInv /\ [Next]_vars => [Way!Next]_Way!vars
<1> SUFFICES ASSUME PathInv, [Next]_vars PROVE [Way!Next]_Way!vars
  OBVIOUS
<1>1. NeverTooShort'
  BY PathStep DEF PathInv
<1>2. ASSUME NEW octets, NEW next \in {"sent", "put_properties"}, Put(octets, next)
      PROVE  pc' = next /\ UNCHANGED <<item, result>>
  BY <1>1, <1>2 DEF Put, NeverTooShort
<1>3. ASSUME SizeBusData \/ SizeHead \/ SizeProperty \/ GetPayload
      PROVE  UNCHANGED Way!vars
  <2>1. pc = "size" /\ pc' \in {"size", "put"} /\ UNCHANGED <<item, result>>
    BY <1>3 DEF SizeBusData, SizeHead, SizeProperty, GetPayload, Sizing
  <2> QED BY <2>1, WayStutters DEF Ready
<1>4. ASSUME serializeBusData \/ serializeHead \/ serializeProperty
      PROVE  UNCHANGED Way!vars
  <2>1. pc \in {"put", "put_properties"} /\ pc' \in {"sent", "put_properties"}
        /\ UNCHANGED <<item, result>>
    BY <1>2, <1>4 DEF serializeBusData, serializeHead, serializeProperty
  <2> QED BY <2>1, WayStutters DEF Ready
<1>5. ASSUME Send \/ deserializeHead \/ deserializeProperty
      PROVE  UNCHANGED Way!vars
  <2>1. pc \notin {"idle", "received"} /\ pc' \notin {"idle", "received"}
        /\ UNCHANGED <<item, result>>
    BY <1>5 DEF Send, deserializeHead, deserializeProperty
  <2> QED BY <2>1, WayStutters DEF Ready
<1>6. CASE UNCHANGED vars
  BY <1>6 DEF vars, Way!vars, Ready
<1> QED
  BY <1>3, <1>4, <1>5, <1>6, WayWrite, WayPeer, WaySample, WayType DEF Next

(* The fourteen steps of the way are one: every item that is accepted is   *)
(* received whole, or cut as the DDS types cut it, and none is lost on the *)
(* way.                                                                    *)
THEOREM PathImplementsDelivery == Spec => PathIsDelivery
BY WayInit, WayStep, PathInvariant, PTL DEF Spec, PathIsDelivery, Way!Spec
=============================================================================
