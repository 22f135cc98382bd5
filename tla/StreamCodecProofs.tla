-------------------------- MODULE StreamCodecProofs --------------------------
(* What serialize writes and deserialize reads, for texts of any length    *)
(* over any alphabet, wherever they stand in a payload.                    *)
EXTENDS StreamCodec, SequenceTheorems, WellFoundedInduction, TLAPS

(* The octets of a payload: those of samples and texts, and words.         *)
Payload == Seq(Octets \cup Nat)

(* What one payload begins with, the other begins with.                    *)
Extends(long, short) ==
  /\ Len(short) <= Len(long)
  /\ \A i \in 1..Len(short) : long[i] = short[i]

(* A text without Nul, or what is left of it, written at pos.              *)
TextAt(buf, pos, text) ==
  /\ AfterText(pos, text) <= Len(buf)
  /\ buf[pos + Padding(pos) + 1] = Len(text) + 1
  /\ \A i \in 1..Len(text) : buf[AfterWord(pos) + i] = text[i]

(* What is left of a property: c_str() of its three members.               *)
Bare(p) == [name |-> CStr(p.name), type |-> CStr(p.type), value |-> CStr(p.value)]

PropertyAt(buf, pos, p) ==
  /\ TextAt(buf, pos, p.name)
  /\ TextAt(buf, AfterText(pos, p.name), p.type)
  /\ TextAt(buf, AfterText(AfterText(pos, p.name), p.type), p.value)

HeadAt(buf, metatype, n) ==
  LET pos == AfterText(0, metatype)
  IN  /\ TextAt(buf, 0, metatype)
      /\ AfterWord(pos) <= Len(buf)
      /\ buf[pos + Padding(pos) + 1] = n
-----------------------------------------------------------------------------
(* The least number of a set.                                              *)
LEMMA LeastNumber ==
  ASSUME NEW S \in SUBSET Nat, S # {}
  PROVE  \E m \in S : \A k \in S : m <= k
<1> DEFINE Less == { p \in Nat \X Nat : p[1] < p[2] }
<1>1. Less = OpToRel(<, Nat)
  BY DEF OpToRel
<1>2. IsWellFoundedOn(Less, Nat)
  BY <1>1, NatLessThanWellFounded
<1>3. \A k, m \in Nat : k < m => <<k, m>> \in Less
  OBVIOUS
<1> HIDE DEF Less
<1>4. PICK m \in S : \A k \in S : <<k, m>> \notin Less
  BY <1>2, WFMin
<1>5. \A k \in S : ~ (k < m)
  BY <1>3, <1>4
<1> QED BY <1>4, <1>5

(* c_str() ends before the first Nul.                                      *)
LEMMA CStrFacts ==
  ASSUME NEW text \in Text
  PROVE  /\ CStr(text) \in Text
         /\ Len(CStr(text)) <= Len(text)
         /\ NoNul(text) => CStr(text) = text
         /\ \A i \in 1..Len(CStr(text)) : CStr(text)[i] = text[i] /\ text[i] # Nul
         /\ Len(CStr(text)) < Len(text) => text[Len(CStr(text)) + 1] = Nul
<1>0. Len(text) \in Nat
  BY LenProperties DEF Text
<1>1. CASE \E n \in 1..Len(text) : text[n] = Nul
  <2> DEFINE Ends == { n \in 1..Len(text) : text[n] = Nul }
             end == CHOOSE n \in 1..Len(text) : IsEnd(text, n)
  <2>1. PICK m \in Ends : \A k \in Ends : m <= k
    <3>1. Ends \in SUBSET Nat /\ Ends # {}
      BY <1>0, <1>1
    <3> QED BY <3>1, LeastNumber
  <2>2. m \in 1..Len(text) /\ IsEnd(text, m)
    <3>1. ASSUME NEW i \in 1..(m - 1) PROVE text[i] # Nul
      <4>1. i \in 1..Len(text) /\ ~ (m <= i)
        BY <1>0
      <4> QED BY <2>1, <4>1
    <3> QED BY <3>1 DEF IsEnd
  <2>3. end \in 1..Len(text) /\ IsEnd(text, end)
    BY <2>2
  <2>4. CStr(text) = SubSeq(text, 1, end - 1)
    BY <1>1 DEF CStr
  <2> HIDE DEF end
  <2>5. end - 1 \in Int /\ 1 \in Int /\ end - 1 <= Len(text) /\ end - 1 >= 0
    BY <1>0, <2>3
  <2>6. \A i \in 1..(end - 1) : text[i] \in Octets
    BY <1>0, <2>3, <2>5, ElementOfSeq DEF Text
  <2>7. /\ SubSeq(text, 1, end - 1) \in Seq(Octets)
        /\ Len(SubSeq(text, 1, end - 1)) = IF 1 <= end - 1 THEN end - 1 - 1 + 1 ELSE 0
        /\ \A i \in 1..(end - 1 - 1 + 1) : SubSeq(text, 1, end - 1)[i] = text[1 + i - 1]
    BY <2>5, <2>6, SubSeqProperties
  <2>8. ~ NoNul(text)
    BY <1>1 DEF NoNul
  <2>9. /\ Len(CStr(text)) = end - 1
        /\ \A i \in 1..(end - 1) : CStr(text)[i] = text[i] /\ text[i] # Nul
        /\ text[end] = Nul
    BY <2>3, <2>4, <2>5, <2>7 DEF IsEnd
  <2> QED BY <1>0, <2>3, <2>4, <2>5, <2>7, <2>8, <2>9 DEF Text
<1>2. CASE ~ \E n \in 1..Len(text) : text[n] = Nul
  BY <1>0, <1>2 DEF CStr
<1> QED BY <1>1, <1>2

(* A fixed_string holds what fits, and all of a text that fits.            *)
LEMMA FixedFacts ==
  ASSUME NEW text \in Text, NEW max \in Nat
  PROVE  /\ Fixed(text, max) \in Text
         /\ Len(Fixed(text, max)) = IF Len(text) <= max THEN Len(text) ELSE max
         /\ Len(Fixed(text, max)) <= max
         /\ Len(text) <= max => Fixed(text, max) = text
         /\ \A i \in 1..Len(Fixed(text, max)) : Fixed(text, max)[i] = text[i]
<1>0. Len(text) \in Nat
  BY LenProperties DEF Text
<1>1. CASE Len(text) <= max
  BY <1>1 DEF Fixed
<1>2. CASE ~ (Len(text) <= max)
  <2>1. \A i \in 1..max : text[i] \in Octets
    BY <1>0, <1>2, ElementOfSeq DEF Text
  <2>2. /\ SubSeq(text, 1, max) \in Seq(Octets)
        /\ Len(SubSeq(text, 1, max)) = IF 1 <= max THEN max - 1 + 1 ELSE 0
        /\ \A i \in 1..(max - 1 + 1) : SubSeq(text, 1, max)[i] = text[1 + i - 1]
    BY <2>1, SubSeqProperties
  <2>3. Len(SubSeq(text, 1, max)) = max
    BY <2>2
  <2> QED BY <1>2, <2>2, <2>3 DEF Fixed, Text
<1> QED BY <1>1, <1>2

LEMMA MakePropertyFacts ==
  ASSUME NEW name \in Text, NEW type \in Text, NEW value \in Text
  PROVE  LET p == MakeProperty(name, type, value)
         IN  /\ p \in Property
             /\ Len(p.name) <= NameMax /\ Len(p.type) <= TypeMax
             /\ Len(name) <= NameMax /\ Len(type) <= TypeMax =>
                  p = [name |-> name, type |-> type, value |-> value]
<1>1. /\ Fixed(name, NameMax) \in Text /\ Len(Fixed(name, NameMax)) <= NameMax
      /\ Len(name) <= NameMax => Fixed(name, NameMax) = name
  BY CodecAssumption, FixedFacts
<1>2. /\ Fixed(type, TypeMax) \in Text /\ Len(Fixed(type, TypeMax)) <= TypeMax
      /\ Len(type) <= TypeMax => Fixed(type, TypeMax) = type
  BY CodecAssumption, FixedFacts
<1> QED BY <1>1, <1>2 DEF MakeProperty, Property

LEMMA BareFacts ==
  ASSUME NEW p \in Property
  PROVE  /\ Bare(p) \in Property
         /\ Len(Bare(p).name) <= Len(p.name)
         /\ Len(Bare(p).type) <= Len(p.type)
         /\ Len(Bare(p).value) <= Len(p.value)
         /\ NoNul(p.name) /\ NoNul(p.type) /\ NoNul(p.value) => Bare(p) = p
<1>1. p.name \in Text /\ p.type \in Text /\ p.value \in Text
      /\ p = [name |-> p.name, type |-> p.type, value |-> p.value]
  BY DEF Property
<1> QED BY <1>1, CStrFacts DEF Bare, Property
-----------------------------------------------------------------------------
(* Positions.  A later start has a later end, and so has a longer text.    *)
LEMMA WordFacts ==
  ASSUME NEW n \in Nat
  PROVE  /\ Padding(n) \in Nat
         /\ AfterWord(n) \in Nat
         /\ AfterWord(n) = n + Padding(n) + 4
BY DEF Padding, AfterWord

LEMMA AfterWordGrows ==
  ASSUME NEW n \in Nat, NEW m \in Nat, n <= m
  PROVE  AfterWord(n) <= AfterWord(m)
BY DEF Padding, AfterWord

LEMMA TextPosition ==
  ASSUME NEW n \in Nat, NEW text \in Text
  PROVE  /\ AfterText(n, text) \in Nat
         /\ AfterText(n, text) = AfterWord(n) + Len(text) + 1
         /\ AfterText(n, text) > n
<1>1. Len(text) \in Nat
  BY LenProperties DEF Text
<1>2. AfterWord(n) \in Nat /\ AfterWord(n) > n
  BY WordFacts
<1> QED BY <1>1, <1>2 DEF AfterText

LEMMA TextGrows ==
  ASSUME NEW n \in Nat, NEW m \in Nat, NEW s \in Text, NEW t \in Text,
         n <= m, Len(s) <= Len(t)
  PROVE  AfterText(n, s) <= AfterText(m, t)
<1>1. AfterWord(n) <= AfterWord(m) /\ AfterWord(n) \in Nat /\ AfterWord(m) \in Nat
  BY AfterWordGrows, WordFacts
<1>2. Len(s) \in Nat /\ Len(t) \in Nat
  BY LenProperties DEF Text
<1> QED BY <1>1, <1>2 DEF AfterText

LEMMA PropertyPosition ==
  ASSUME NEW n \in Nat, NEW p \in Property
  PROVE  /\ AfterProperty(n, p) \in Nat
         /\ AfterProperty(n, p) > n
         /\ AfterText(n, p.name) \in Nat
         /\ AfterText(AfterText(n, p.name), p.type) \in Nat
         /\ p.name \in Text /\ p.type \in Text /\ p.value \in Text
<1>1. p.name \in Text /\ p.type \in Text /\ p.value \in Text
  BY DEF Property
<1>2. AfterText(n, p.name) \in Nat /\ AfterText(n, p.name) > n
  BY <1>1, TextPosition
<1>3. /\ AfterText(AfterText(n, p.name), p.type) \in Nat
      /\ AfterText(AfterText(n, p.name), p.type) > AfterText(n, p.name)
  BY <1>1, <1>2, TextPosition
<1>4. AfterProperty(n, p) \in Nat /\ AfterProperty(n, p) > AfterText(AfterText(n, p.name), p.type)
  BY <1>1, <1>3, TextPosition DEF AfterProperty
<1> QED BY <1>1, <1>2, <1>3, <1>4

LEMMA BareGrows ==
  ASSUME NEW n \in Nat, NEW m \in Nat, NEW p \in Property, n <= m
  PROVE  AfterProperty(n, Bare(p)) <= AfterProperty(m, p)
<1> DEFINE q == Bare(p)
<1>1. /\ q \in Property /\ Len(q.name) <= Len(p.name)
      /\ Len(q.type) <= Len(p.type) /\ Len(q.value) <= Len(p.value)
  BY BareFacts
<1> HIDE DEF q
<1>2. /\ p.name \in Text /\ p.type \in Text /\ p.value \in Text
      /\ q.name \in Text /\ q.type \in Text /\ q.value \in Text
      /\ AfterText(n, q.name) \in Nat /\ AfterText(m, p.name) \in Nat
      /\ AfterText(AfterText(n, q.name), q.type) \in Nat
      /\ AfterText(AfterText(m, p.name), p.type) \in Nat
  BY <1>1, PropertyPosition
<1>3. AfterText(n, q.name) <= AfterText(m, p.name)
  BY <1>1, <1>2, TextGrows
<1>4. AfterText(AfterText(n, q.name), q.type) <= AfterText(AfterText(m, p.name), p.type)
  BY <1>1, <1>2, <1>3, TextGrows
<1>5. AfterProperty(n, q) <= AfterProperty(m, p)
  BY <1>1, <1>2, <1>4, TextGrows DEF AfterProperty
<1> QED BY <1>5 DEF q
-----------------------------------------------------------------------------
(* What extends a payload keeps all that was written in it.                *)
LEMMA ExtendsTransitive ==
  ASSUME NEW r \in Payload, NEW s \in Payload, NEW t \in Payload,
         Extends(r, s), Extends(s, t)
  PROVE  Extends(r, t)
<1>1. Len(r) \in Nat /\ Len(s) \in Nat /\ Len(t) \in Nat
  BY LenProperties DEF Payload
<1>2. 1..Len(t) \subseteq 1..Len(s)
  BY <1>1 DEF Extends
<1> QED BY <1>1, <1>2 DEF Extends

LEMMA TextStays ==
  ASSUME NEW long \in Payload, NEW short \in Payload, Extends(long, short),
         NEW pos \in Nat, NEW text \in Text, TextAt(short, pos, text)
  PROVE  TextAt(long, pos, text)
<1>1. Len(long) \in Nat /\ Len(short) \in Nat /\ Len(text) \in Nat
  BY LenProperties DEF Payload, Text
<1>2. /\ Padding(pos) \in Nat /\ AfterWord(pos) \in Nat
      /\ AfterWord(pos) = pos + Padding(pos) + 4
      /\ AfterText(pos, text) = AfterWord(pos) + Len(text) + 1
  BY WordFacts, TextPosition
<1>3. AfterText(pos, text) <= Len(short) /\ AfterText(pos, text) <= Len(long)
  BY <1>1, <1>2 DEF TextAt, Extends
<1>4. pos + Padding(pos) + 1 \in 1..Len(short)
  BY <1>1, <1>2, <1>3
<1>5. \A i \in 1..Len(text) : AfterWord(pos) + i \in 1..Len(short)
  BY <1>1, <1>2, <1>3
<1> QED BY <1>3, <1>4, <1>5 DEF TextAt, Extends

LEMMA PropertyStays ==
  ASSUME NEW long \in Payload, NEW short \in Payload, Extends(long, short),
         NEW pos \in Nat, NEW p \in Property, PropertyAt(short, pos, p)
  PROVE  PropertyAt(long, pos, p)
BY PropertyPosition, TextStays DEF PropertyAt

LEMMA HeadStays ==
  ASSUME NEW long \in Payload, NEW short \in Payload, Extends(long, short),
         NEW metatype \in Text, NEW n \in Nat, HeadAt(short, metatype, n)
  PROVE  HeadAt(long, metatype, n)
<1> DEFINE pos == AfterText(0, metatype)
<1>1. pos \in Nat
  BY TextPosition
<1>2. TextAt(long, 0, metatype)
  BY TextStays DEF HeadAt
<1>3. AfterWord(pos) <= Len(short) /\ short[pos + Padding(pos) + 1] = n
  BY DEF HeadAt
<1>4. Len(long) \in Nat /\ Len(short) \in Nat
  BY LenProperties DEF Payload
<1> HIDE DEF pos
<1>w. Padding(pos) \in Nat /\ AfterWord(pos) \in Nat /\ AfterWord(pos) = pos + Padding(pos) + 4
  BY <1>1, WordFacts
<1>5. pos + Padding(pos) + 1 \in 1..Len(short) /\ AfterWord(pos) <= Len(long)
  BY <1>1, <1>w, <1>3, <1>4 DEF Extends
<1>6. long[pos + Padding(pos) + 1] = n
  BY <1>3, <1>5 DEF Extends
<1> QED BY <1>2, <1>5, <1>6 DEF HeadAt, pos
-----------------------------------------------------------------------------
(* What serialize writes.                                                  *)
LEMMA ConcatExtends ==
  ASSUME NEW s \in Payload, NEW t \in Payload
  PROVE  /\ s \o t \in Payload
         /\ Len(s \o t) = Len(s) + Len(t)
         /\ Extends(s \o t, s)
         /\ \A i \in 1..Len(t) : (s \o t)[Len(s) + i] = t[i]
<1>1. Len(s) \in Nat /\ Len(t) \in Nat
  BY LenProperties DEF Payload
<1>2. /\ s \o t \in Seq(Octets \cup Nat)
      /\ Len(s \o t) = Len(s) + Len(t)
      /\ \A i \in 1..Len(s) + Len(t) :
           (s \o t)[i] = IF i <= Len(s) THEN s[i] ELSE t[i - Len(s)]
  BY ConcatProperties DEF Payload
<1>3. ASSUME NEW i \in 1..Len(t) PROVE (s \o t)[Len(s) + i] = t[i]
  <2>1. Len(s) + i \in 1..Len(s) + Len(t) /\ ~ (Len(s) + i <= Len(s))
    BY <1>1
  <2>2. Len(s) + i - Len(s) = i
    BY <1>1
  <2> QED BY <1>2, <2>1, <2>2
<1>4. \A i \in 1..Len(s) : i \in 1..Len(s) + Len(t) /\ i <= Len(s)
  BY <1>1
<1>5. Extends(s \o t, s)
  BY <1>1, <1>2, <1>4 DEF Extends
<1> QED BY <1>2, <1>3, <1>5 DEF Payload

LEMMA PutWordFacts ==
  ASSUME NEW buf \in Payload, NEW n \in Nat
  PROVE  /\ PutWord(buf, n) \in Payload
         /\ Len(PutWord(buf, n)) = AfterWord(Len(buf))
         /\ Extends(PutWord(buf, n), buf)
         /\ PutWord(buf, n)[Len(buf) + Padding(Len(buf)) + 1] = n
<1> DEFINE k == Padding(Len(buf))
           zeros == [i \in 1..k |-> 0]
           word == <<n, 0, 0, 0>>
<1>0. Len(buf) \in Nat
  BY LenProperties DEF Payload
<1>1. Len(buf) \in Nat /\ k \in Nat /\ AfterWord(Len(buf)) = Len(buf) + k + 4
  BY <1>0, WordFacts
<1> HIDE DEF k
<1>2. zeros \in Payload /\ Len(zeros) = k
  BY <1>1 DEF Payload
<1>3. word \in Payload /\ Len(word) = 4 /\ word[1] = n
  BY DEF Payload
<1>4. PutWord(buf, n) = (buf \o zeros) \o word
  BY DEF PutWord, k
<1> HIDE DEF zeros, word
<1> DEFINE padded == buf \o zeros
<1>5. padded \in Payload /\ Len(padded) = Len(buf) + k /\ Extends(padded, buf)
  BY <1>2, ConcatExtends
<1> HIDE DEF padded
<1>6. /\ PutWord(buf, n) \in Payload /\ Len(PutWord(buf, n)) = Len(buf) + k + 4
      /\ Extends(PutWord(buf, n), padded)
      /\ PutWord(buf, n)[Len(buf) + k + 1] = n
  <2>1. PutWord(buf, n) = padded \o word
    BY <1>4 DEF padded
  <2>2. /\ padded \o word \in Payload /\ Len(padded \o word) = Len(padded) + Len(word)
        /\ Extends(padded \o word, padded)
        /\ \A i \in 1..Len(word) : (padded \o word)[Len(padded) + i] = word[i]
    BY <1>3, <1>5, ConcatExtends
  <2>3. 1 \in 1..Len(word)
    BY <1>3
  <2> QED BY <1>3, <1>5, <2>1, <2>2, <2>3
<1>7. Extends(PutWord(buf, n), buf)
  BY <1>5, <1>6, ExtendsTransitive
<1> QED BY <1>1, <1>6, <1>7 DEF k

LEMMA PutTextFacts ==
  ASSUME NEW buf \in Payload, NEW text \in Text
  PROVE  /\ PutText(buf, text) \in Payload
         /\ Len(PutText(buf, text)) = AfterText(Len(buf), CStr(text))
         /\ Extends(PutText(buf, text), buf)
         /\ TextAt(PutText(buf, text), Len(buf), CStr(text))
<1> DEFINE c == CStr(text)
           w == PutWord(buf, Len(c) + 1)
           pos == Len(buf)
<1>1. c \in Text /\ Len(c) \in Nat /\ Len(c) + 1 \in Nat /\ pos \in Nat
  BY CStrFacts, LenProperties DEF Payload, Text
<1> HIDE DEF c
<1>2. /\ w \in Payload /\ Len(w) = AfterWord(pos) /\ Extends(w, buf)
      /\ w[pos + Padding(pos) + 1] = Len(c) + 1
  BY <1>1, PutWordFacts
<1>3. c \in Payload /\ <<Nul>> \in Payload /\ Len(<<Nul>>) = 1
  BY <1>1, CodecAssumption, SeqMonotonic DEF Payload, Text
<1>4. PutText(buf, text) = (w \o c) \o <<Nul>>
  BY DEF PutText, c
<1> HIDE DEF w
<1>5. /\ w \o c \in Payload /\ Len(w \o c) = AfterWord(pos) + Len(c)
      /\ Extends(w \o c, w)
      /\ \A i \in 1..Len(c) : (w \o c)[AfterWord(pos) + i] = c[i]
  <2>1. /\ w \o c \in Payload /\ Len(w \o c) = Len(w) + Len(c)
        /\ Extends(w \o c, w)
        /\ \A i \in 1..Len(c) : (w \o c)[Len(w) + i] = c[i]
    BY <1>2, <1>3, ConcatExtends
  <2> QED BY <1>2, <2>1
<1> DEFINE t == PutText(buf, text)
<1>6. t \in Payload /\ Len(t) = AfterWord(pos) + Len(c) + 1 /\ Extends(t, w \o c)
  BY <1>3, <1>4, <1>5, ConcatExtends
<1> HIDE DEF t
<1>7. Extends(t, w) /\ Extends(t, buf)
  BY <1>2, <1>5, <1>6, ExtendsTransitive
<1>8. Len(t) = AfterText(pos, c)
  BY <1>6 DEF AfterText
<1>9. TextAt(t, pos, c)
  <2>1. /\ Padding(pos) \in Nat /\ AfterWord(pos) \in Nat
        /\ AfterWord(pos) = pos + Padding(pos) + 4
    BY <1>1, WordFacts
  <2>2. pos + Padding(pos) + 1 \in 1..Len(w)
    BY <1>1, <1>2, <2>1
  <2>3. t[pos + Padding(pos) + 1] = Len(c) + 1
    BY <1>2, <1>7, <2>2 DEF Extends
  <2>4. \A i \in 1..Len(c) : AfterWord(pos) + i \in 1..Len(w \o c)
    BY <1>1, <1>5, <2>1
  <2>5. \A i \in 1..Len(c) : t[AfterWord(pos) + i] = c[i]
    BY <1>5, <1>6, <2>4 DEF Extends
  <2>6. AfterText(pos, c) <= Len(t)
    BY <1>1, <1>8, TextPosition
  <2> QED BY <2>3, <2>5, <2>6 DEF TextAt
<1> QED BY <1>6, <1>7, <1>8, <1>9 DEF t, c

LEMMA PutPropertyFacts ==
  ASSUME NEW buf \in Payload, NEW p \in Property
  PROVE  /\ PutProperty(buf, p) \in Payload
         /\ Len(PutProperty(buf, p)) = AfterProperty(Len(buf), Bare(p))
         /\ Extends(PutProperty(buf, p), buf)
         /\ PropertyAt(PutProperty(buf, p), Len(buf), Bare(p))
<1> DEFINE q == Bare(p)
           b1 == PutText(buf, p.name)
           b2 == PutText(b1, p.type)
           b3 == PutText(b2, p.value)
           n0 == Len(buf)
           n1 == AfterText(n0, q.name)
           n2 == AfterText(n1, q.type)
           n3 == AfterText(n2, q.value)
<1>0. /\ p.name \in Text /\ p.type \in Text /\ p.value \in Text /\ q \in Property
      /\ q.name = CStr(p.name) /\ q.type = CStr(p.type) /\ q.value = CStr(p.value)
      /\ PutProperty(buf, p) = b3 /\ AfterProperty(n0, q) = n3
  BY BareFacts DEF Property, Bare, PutProperty, AfterProperty
<1>t. q.name \in Text /\ q.type \in Text /\ q.value \in Text /\ n0 \in Nat
  BY <1>0, LenProperties DEF Property, Payload
<1> HIDE DEF q
<1>1. b1 \in Payload /\ Len(b1) = n1 /\ Extends(b1, buf) /\ TextAt(b1, n0, q.name)
  BY <1>0, PutTextFacts
<1> HIDE DEF b1
<1>2. b2 \in Payload /\ Len(b2) = n2 /\ Extends(b2, b1) /\ TextAt(b2, n1, q.type)
  BY <1>0, <1>1, PutTextFacts
<1> HIDE DEF b2
<1>3. b3 \in Payload /\ Len(b3) = n3 /\ Extends(b3, b2) /\ TextAt(b3, n2, q.value)
  BY <1>0, <1>2, PutTextFacts
<1> HIDE DEF b3
<1>4. Extends(b3, b1) /\ Extends(b3, buf)
  BY <1>1, <1>2, <1>3, ExtendsTransitive
<1>5. n1 \in Nat
  BY <1>t, TextPosition
<1>6. TextAt(b3, n0, q.name) /\ TextAt(b3, n1, q.type)
  BY <1>t, <1>1, <1>2, <1>3, <1>4, <1>5, TextStays
<1>7. PropertyAt(b3, n0, q)
  BY <1>3, <1>6 DEF PropertyAt
<1> QED BY <1>0, <1>3, <1>4, <1>7 DEF q

LEMMA PutHeadFacts ==
  ASSUME NEW t \in StreamType
  PROVE  LET c == CStr(t.metatype)
         IN  /\ PutHead(<<>>, t) \in Payload
             /\ Len(PutHead(<<>>, t)) = AfterWord(AfterText(0, c))
             /\ HeadAt(PutHead(<<>>, t), c, Len(t.properties))
<1> DEFINE c == CStr(t.metatype)
           b1 == PutText(<<>>, t.metatype)
           b2 == PutHead(<<>>, t)
           n1 == AfterText(0, c)
<1>0. /\ t.metatype \in Text /\ c \in Text /\ Len(t.properties) \in Nat
      /\ <<>> \in Payload /\ Len(<<>>) = 0
  BY CStrFacts, LenProperties, EmptySeq DEF StreamType, Payload
<1>1. b1 \in Payload /\ Len(b1) = n1 /\ TextAt(b1, 0, c)
  BY <1>0, PutTextFacts
<1>2. b2 = PutWord(b1, Len(t.properties))
  BY DEF PutHead
<1> HIDE DEF b1, b2, c
<1>3. /\ b2 \in Payload /\ Len(b2) = AfterWord(n1) /\ Extends(b2, b1)
      /\ b2[n1 + Padding(n1) + 1] = Len(t.properties)
  BY <1>0, <1>1, <1>2, PutWordFacts
<1>4. TextAt(b2, 0, c)
  BY <1>0, <1>1, <1>3, TextStays
<1>5. AfterWord(n1) \in Nat
  BY <1>0, TextPosition, WordFacts
<1>6. HeadAt(b2, c, Len(t.properties))
  BY <1>3, <1>4, <1>5 DEF HeadAt
<1> QED BY <1>3, <1>6 DEF b2, c
-----------------------------------------------------------------------------
(* What deserialize reads.                                                 *)
LEMMA SliceFacts ==
  ASSUME NEW buf, NEW from \in Nat, NEW t \in Seq(Octets),
         \A i \in 1..Len(t) : buf[from + i] = t[i]
  PROVE  SubSeq(buf, from + 1, from + Len(t)) = t
<1> DEFINE lo == from + 1
           hi == from + Len(t)
           got == SubSeq(buf, lo, hi)
<1>1. Len(t) \in Nat
  BY LenProperties
<1>2. lo \in Int /\ hi \in Int /\ hi - lo + 1 = Len(t) /\ (lo <= hi <=> 1 <= Len(t))
  BY <1>1
<1>3. \A i \in lo..hi : buf[i] \in Octets
  <2> SUFFICES ASSUME NEW i \in lo..hi PROVE buf[i] \in Octets
    OBVIOUS
  <2>1. i - from \in 1..Len(t) /\ from + (i - from) = i
    BY <1>1
  <2> QED BY <2>1, ElementOfSeq
<1>4. \A i \in 1..Len(t) : lo + i - 1 = from + i
  BY <1>1
<1> HIDE DEF lo, hi
<1>5. /\ got \in Seq(Octets)
      /\ Len(got) = IF lo <= hi THEN hi - lo + 1 ELSE 0
      /\ \A i \in 1..(hi - lo + 1) : got[i] = buf[lo + i - 1]
  BY <1>2, <1>3, SubSeqProperties
<1>6. Len(got) = Len(t)
  BY <1>1, <1>2, <1>5
<1>7. \A i \in 1..Len(got) : got[i] = t[i]
  BY <1>2, <1>4, <1>5, <1>6
<1>8. got = t
  BY <1>5, <1>6, <1>7, SeqEqual
<1> QED BY <1>8 DEF lo, hi

LEMMA GetTextFacts ==
  ASSUME NEW buf \in Payload, NEW pos \in Nat, NEW text \in Text, TextAt(buf, pos, text)
  PROVE  GetText(buf, pos) = [text |-> text, pos |-> AfterText(pos, text)]
<1> DEFINE from == AfterWord(pos)
           n == Len(text)
           got == SubSeq(buf, from + 1, from + n)
<1>1. n \in Nat /\ from \in Nat
  BY LenProperties, WordFacts DEF Text
<1>2. /\ buf[pos + Padding(pos) + 1] = n + 1
      /\ \A i \in 1..n : buf[from + i] = text[i]
  BY DEF TextAt
<1> HIDE DEF n, from
<1>9. got = text
  BY <1>1, <1>2, SliceFacts DEF Text, n
<1> HIDE DEF got
<1>10. from + (n + 1) - 1 = from + n /\ from + (n + 1) = from + n + 1
  BY <1>1
<1>11. /\ GetText(buf, pos).text = SubSeq(buf, from + 1, from + (n + 1) - 1)
       /\ GetText(buf, pos).pos = from + (n + 1)
       /\ GetText(buf, pos) = [text |-> GetText(buf, pos).text, pos |-> GetText(buf, pos).pos]
  BY <1>2 DEF GetText, GetWord, from
<1>12. AfterText(pos, text) = from + n + 1
  BY DEF AfterText, from, n
<1> QED BY <1>9, <1>10, <1>11, <1>12 DEF got

(* What was left of a property is what is read.                            *)
LEMMA GetPropertyFacts ==
  ASSUME NEW buf \in Payload, NEW pos \in Nat, NEW p \in Property,
         Len(p.name) <= NameMax, Len(p.type) <= TypeMax, PropertyAt(buf, pos, p)
  PROVE  GetProperty(buf, pos) = [property |-> p, pos |-> AfterProperty(pos, p)]
<1> DEFINE n1 == AfterText(pos, p.name)
           n2 == AfterText(n1, p.type)
           n3 == AfterText(n2, p.value)
<1>0. /\ n1 \in Nat /\ n2 \in Nat
      /\ p.name \in Text /\ p.type \in Text /\ p.value \in Text
  BY PropertyPosition
<1>1. /\ GetText(buf, pos) = [text |-> p.name, pos |-> n1]
      /\ GetText(buf, n1) = [text |-> p.type, pos |-> n2]
      /\ GetText(buf, n2) = [text |-> p.value, pos |-> n3]
  BY <1>0, GetTextFacts DEF PropertyAt
<1>2. AfterProperty(pos, p) = n3
  BY DEF AfterProperty
<1> HIDE DEF n1, n2, n3
<1>3. GetProperty(buf, pos) = [property |-> MakeProperty(p.name, p.type, p.value), pos |-> n3]
  BY <1>1 DEF GetProperty
<1>4. MakeProperty(p.name, p.type, p.value) =
        [name |-> p.name, type |-> p.type, value |-> p.value]
  BY <1>0, MakePropertyFacts
<1>5. p = [name |-> p.name, type |-> p.type, value |-> p.value]
  BY DEF Property
<1> QED BY <1>2, <1>3, <1>4, <1>5

(* The object that is used again has as many properties as were written.   *)
LEMMA GetHeadFacts ==
  ASSUME NEW buf \in Payload, NEW metatype \in Text, NEW n \in Nat,
         HeadAt(buf, metatype, n), NEW old \in StreamType
  PROVE  LET head == GetHead(buf, 0, old)
         IN  /\ head.type \in StreamType
             /\ head.type.metatype = metatype
             /\ Len(head.type.properties) = n
             /\ head.pos = AfterWord(AfterText(0, metatype))
<1> DEFINE n1 == AfterText(0, metatype)
           fresh == Resized(old.properties, n)
<1>1. GetText(buf, 0) = [text |-> metatype, pos |-> n1]
  BY GetTextFacts DEF HeadAt
<1>2. GetWord(buf, n1) = [value |-> n, pos |-> AfterWord(n1)]
  BY DEF GetWord, HeadAt
<1> HIDE DEF n1
<1>3. GetHead(buf, 0, old) =
        [type |-> [metatype |-> metatype, properties |-> fresh], pos |-> AfterWord(n1)]
  BY <1>1, <1>2 DEF GetHead
<1>4. fresh \in Seq(Property) /\ Len(fresh) = n
  <2>1. EmptyProperty \in Property
    BY EmptySeq DEF EmptyProperty, Property, Text
  <2>2. old.properties \in Seq(Property) /\ Len(old.properties) \in Nat
    BY LenProperties DEF StreamType
  <2>3. \A i \in 1..n : i <= Len(old.properties) => old.properties[i] \in Property
    BY <2>2, ElementOfSeq
  <2>4. fresh \in [1..n -> Property]
    BY <2>1, <2>3 DEF Resized
  <2> QED BY <2>4
<1> HIDE DEF fresh
<1> QED BY <1>3, <1>4 DEF StreamType, n1

(* A sample is read as it was written.                                     *)
LEMMA BusDataFacts ==
  ASSUME NEW d \in BusData
  PROVE  /\ PutBusData(<<>>, d) \in Payload
         /\ Len(PutBusData(<<>>, d)) = AfterBusData(0, d)
         /\ GetBusData(PutBusData(<<>>, d), 0) = d
<1> DEFINE n == Len(d.data)
           w == PutWord(<<>>, n)
           buf == PutBusData(<<>>, d)
           from == AfterWord(0)
           got == SubSeq(buf, from + 1, from + n)
<1>0. /\ d.data \in Seq(Octets) /\ n \in Nat /\ d = [data |-> d.data]
      /\ <<>> \in Payload /\ Len(<<>>) = 0 /\ from \in Nat /\ d.data \in Payload
      /\ Padding(0) \in Nat /\ from = 0 + Padding(0) + 4
  BY LenProperties, EmptySeq, WordFacts, SeqMonotonic DEF BusData, Payload
<1>1. w \in Payload /\ Len(w) = from /\ w[0 + Padding(0) + 1] = n
  BY <1>0, PutWordFacts
<1>2. buf = w \o d.data
  BY DEF PutBusData
<1> HIDE DEF w, buf, from, n
<1>3. /\ buf \in Payload /\ Len(buf) = Len(w) + Len(d.data) /\ Extends(buf, w)
      /\ \A i \in 1..Len(d.data) : buf[Len(w) + i] = d.data[i]
  BY <1>0, <1>1, <1>2, ConcatExtends
<1>4. /\ buf \in Payload /\ Len(buf) = from + n /\ Extends(buf, w)
      /\ \A i \in 1..n : buf[from + i] = d.data[i]
  BY <1>1, <1>3 DEF n
<1>5. buf[0 + Padding(0) + 1] = n
  <2>1. 0 + Padding(0) + 1 \in 1..Len(w)
    BY <1>0, <1>1
  <2> QED BY <1>1, <1>4, <2>1 DEF Extends
<1>12. got = d.data
  <2>1. \A i \in 1..Len(d.data) : buf[from + i] = d.data[i]
    BY <1>4 DEF n
  <2>2. from \in Nat /\ d.data \in Seq(Octets)
    BY <1>0
  <2> HIDE DEF got
  <2>3. SubSeq(buf, from + 1, from + Len(d.data)) = d.data
    BY <2>1, <2>2, SliceFacts
  <2> QED BY <2>3 DEF n, got
<1>13. GetBusData(buf, 0) = [data |-> got]
  BY <1>5 DEF GetBusData, GetWord, from
<1>14. AfterBusData(0, d) = from + n
  BY DEF AfterBusData, from, n
<1> QED BY <1>0, <1>4, <1>12, <1>13, <1>14 DEF buf
=============================================================================
