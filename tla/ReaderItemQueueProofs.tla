------------------------ MODULE ReaderItemQueueProofs ------------------------
(* Theorems about ReaderItemQueue: its type invariant, and that each       *)
(* reader hands on samples, and stream types, in order and at most once.   *)
EXTENDS ReaderItemQueue, SequenceTheorems, TLAPS

(***************************************************************************)
(* The caches.                                                             *)
(***************************************************************************)

(* The first len2 items of new are those of old from position d + 1 on.    *)
Shifted(new, len2, old, len, d) ==
  \A i \in 1..len2 : i + d \in 1..len /\ new[i] = old[i + d]

(* Before its last item, new is cache, perhaps without the first item.     *)
Extends(new, cache) ==
  \E d \in {0, 1} : Shifted(new, Len(new) - 1, cache, Len(cache), d)

(* KeepLast puts e last, keeps within the history depth, and keeps the     *)
(* order of what was there, shifted by the element it may drop.            *)
LEMMA KeepLastFacts ==
  ASSUME NEW S, NEW cache \in Seq(S), NEW e \in S, Len(cache) <= HistoryDepth
  PROVE  /\ KeepLast(cache, e) \in Seq(S)
         /\ Len(KeepLast(cache, e)) \in 1..HistoryDepth
         /\ KeepLast(cache, e)[Len(KeepLast(cache, e))] = e
         /\ Extends(KeepLast(cache, e), cache)
<1>d. HistoryDepth \in Nat /\ HistoryDepth > 0
  BY QueueAssumption
<1>l. Len(cache) \in Nat
  BY LenProperties
<1>1. CASE Len(cache) < HistoryDepth
  <2>1. KeepLast(cache, e) = Append(cache, e)
    BY <1>1 DEF KeepLast
  <2>2. /\ Append(cache, e) \in Seq(S)
        /\ Len(Append(cache, e)) = Len(cache) + 1
        /\ \A i \in 1..Len(cache) : Append(cache, e)[i] = cache[i]
        /\ Append(cache, e)[Len(cache) + 1] = e
    BY AppendProperties
  <2>3. Shifted(Append(cache, e), Len(Append(cache, e)) - 1, cache, Len(cache), 0)
    BY <2>2, <1>l DEF Shifted
  <2>4. Len(Append(cache, e)) \in 1..HistoryDepth
    BY <2>2, <1>1, <1>l, <1>d
  <2> QED BY <2>1, <2>2, <2>3, <2>4 DEF Extends
<1>2. CASE ~ (Len(cache) < HistoryDepth)
  <2>1. KeepLast(cache, e) = Append(Tail(cache), e)
    BY <1>2 DEF KeepLast
  <2>2. cache # <<>>
    BY <1>2, <1>d, EmptySeq
  <2>3. /\ Tail(cache) \in Seq(S)
        /\ Len(Tail(cache)) = Len(cache) - 1
        /\ \A i \in 1..Len(Tail(cache)) : Tail(cache)[i] = cache[i + 1]
    BY <2>2, HeadTailProperties
  <2>4. /\ Append(Tail(cache), e) \in Seq(S)
        /\ Len(Append(Tail(cache), e)) = Len(Tail(cache)) + 1
        /\ \A i \in 1..Len(Tail(cache)) : Append(Tail(cache), e)[i] = Tail(cache)[i]
        /\ Append(Tail(cache), e)[Len(Tail(cache)) + 1] = e
    BY <2>3, AppendProperties
  <2>5. Len(Append(Tail(cache), e)) = Len(cache)
    BY <2>3, <2>4, <1>l
  <2>6. ASSUME NEW i \in 1..(Len(Append(Tail(cache), e)) - 1)
        PROVE  i + 1 \in 1..Len(cache) /\ Append(Tail(cache), e)[i] = cache[i + 1]
    <3>1. i \in 1..Len(Tail(cache)) /\ i + 1 \in 1..Len(cache)
      BY <2>3, <2>5, <2>6, <1>l
    <3>2. Append(Tail(cache), e)[i] = Tail(cache)[i]
      BY <2>4, <3>1
    <3>3. Tail(cache)[i] = cache[i + 1]
      BY <2>3, <3>1
    <3> QED BY <3>1, <3>2, <3>3
  <2>7. Len(Append(Tail(cache), e)) \in 1..HistoryDepth
    BY <2>5, <1>2, <1>l, <1>d
  <2>8. Shifted(Append(Tail(cache), e), Len(Append(Tail(cache), e)) - 1,
                cache, Len(cache), 1)
    BY <2>6 DEF Shifted
  <2> QED BY <2>1, <2>3, <2>4, <2>5, <2>7, <2>8, <1>l DEF Extends
<1> QED BY <1>1, <1>2

(* A take removes between one and all elements of a cache that has some.   *)
LEMMA BatchFacts ==
  ASSUME NEW S, NEW cache \in Seq(S)
  PROVE  /\ BatchSize(cache) \in 0..Len(cache)
         /\ cache # <<>> => BatchSize(cache) > 0
         /\ Len(cache) <= MaxSamplesPerRead => BatchSize(cache) = Len(cache)
<1>1. MaxSamplesPerRead \in Nat /\ MaxSamplesPerRead > 0
  BY QueueAssumption
<1>2. Len(cache) \in Nat /\ (cache # <<>> => Len(cache) > 0)
  BY LenProperties, EmptySeq
<1> QED BY <1>1, <1>2 DEF BatchSize

(* What is left after a take is the rest of the cache, in its order.       *)
LEMMA LeftFacts ==
  ASSUME NEW S, NEW cache \in Seq(S)
  PROVE  /\ Left(cache) \in Seq(S)
         /\ Len(Left(cache)) = Len(cache) - BatchSize(cache)
         /\ Shifted(Left(cache), Len(Left(cache)), cache, Len(cache), BatchSize(cache))
<1> DEFINE b == BatchSize(cache)
<1>1. b \in 0..Len(cache) /\ Len(cache) \in Nat
  BY BatchFacts, LenProperties
<1>2. \A i \in (b + 1)..Len(cache) : cache[i] \in S
  BY <1>1, ElementOfSeq
<1>3. /\ SubSeq(cache, b + 1, Len(cache)) \in Seq(S)
      /\ Len(SubSeq(cache, b + 1, Len(cache))) =
           IF b + 1 <= Len(cache) THEN Len(cache) - (b + 1) + 1 ELSE 0
      /\ \A i \in 1..(Len(cache) - (b + 1) + 1) :
           SubSeq(cache, b + 1, Len(cache))[i] = cache[b + 1 + i - 1]
  BY <1>1, <1>2, b + 1 \in Int, Len(cache) \in Int, SubSeqProperties
<1> QED BY <1>1, <1>3 DEF Left, Shifted

(* What a take returns is the front of the cache.                          *)
LEMMA TakenFacts ==
  ASSUME NEW S, NEW cache \in Seq(S)
  PROVE  /\ Taken(cache) \in Seq(S)
         /\ Len(Taken(cache)) = BatchSize(cache)
         /\ cache # <<>> => /\ Taken(cache) # <<>>
                            /\ 1 \in 1..Len(cache)
                            /\ Head(Taken(cache)) = cache[1]
<1> DEFINE b == BatchSize(cache)
<1>1. /\ b \in 0..Len(cache)
      /\ Len(cache) \in Nat
      /\ cache # <<>> => b > 0
  BY BatchFacts, LenProperties
<1>2. \A i \in 1..b : cache[i] \in S
  BY <1>1, ElementOfSeq
<1>3. /\ SubSeq(cache, 1, b) \in Seq(S)
      /\ Len(SubSeq(cache, 1, b)) = IF 1 <= b THEN b - 1 + 1 ELSE 0
  BY <1>1, <1>2, 1 \in Int, b \in Int, SubSeqProperties
<1>4. ASSUME cache # <<>>
      PROVE  /\ Taken(cache) # <<>>
             /\ 1 \in 1..Len(cache)
             /\ Head(Taken(cache)) = cache[1]
  <2>1. 1 \in 1..Len(cache) /\ b \in 1..Len(cache)
    BY <1>1, <1>4
  <2>2. Head(SubSeq(cache, 1, b)) = cache[1]
    BY <2>1, HeadTailOfSubSeq
  <2>3. SubSeq(cache, 1, b) # <<>>
    BY <1>3, <2>1, EmptySeq
  <2> QED BY <2>1, <2>2, <2>3 DEF Taken
<1> QED BY <1>1, <1>3, <1>4 DEF Taken

(* The elements of a sequence over S are in S.                             *)
LEMMA ElementsFacts ==
  ASSUME NEW S, NEW cache \in Seq(S)
  PROVE  Elements(cache) \subseteq S
  BY ElementOfSeq DEF Elements

(* The rest of a batch is over the same set.                               *)
LEMMA RestFacts ==
  ASSUME NEW S, NEW cache \in Seq(S)
  PROVE  /\ Elements(Taken(cache)) \subseteq S
         /\ cache # <<>> => Elements(Tail(Taken(cache))) \subseteq S
<1>1. Elements(Taken(cache)) \subseteq S
  BY TakenFacts, ElementsFacts
<1>2. ASSUME cache # <<>>
      PROVE  Elements(Tail(Taken(cache))) \subseteq S
  <2>1. Taken(cache) \in Seq(S) /\ Taken(cache) # <<>>
    BY <1>2, TakenFacts
  <2>2. Tail(Taken(cache)) \in Seq(S)
    BY <2>1, HeadTailProperties
  <2> QED BY <2>2, ElementsFacts
<1> QED BY <1>1, <1>2

(***************************************************************************)
(* The calls of popFrom.                                                   *)
(***************************************************************************)

(* A call that is not in progress is suspended by no other, and only a     *)
(* call above another one recreates the reader.                            *)
Shaped(c) ==
  /\ c \in Calls
  /\ c.pc \in {"idle", "done"} => c.depth = 0
  /\ c.pc = "create" => c.depth > 0

CallShape == \A r \in Readers : Shaped(call[r])

(* However a call returns or is entered, the state of the call is legal.   *)
LEMMA ReturnFacts ==
  ASSUME NEW depth \in Nat, NEW got \in BOOLEAN
  PROVE  Shaped(Return(depth, got)) /\ Shaped(Enter(depth)) /\ Shaped(Idle)
  BY DEF Shaped, Return, Result, Enter, Idle, Calls

(* Taking the first of a batch keeps the histories in their types.         *)
LEMMA DiscardFacts ==
  ASSUME NEW numbers \in SUBSET Nat, NEW cause \in Causes
  PROVE  Discards(numbers, cause) \subseteq [n : Nat, by : Causes]
  BY DEF Discards

(***************************************************************************)
(* The type invariant, made inductive by the shape of the calls: a call    *)
(* that recreates the reader returns to a call below it.                   *)
(***************************************************************************)
TypeInv == QueueTypeOK /\ CallShape

(* The queue starts with its variables in their types, and no call open.   *)
LEMMA TypeInit == QueueInit => TypeInv
<1> SUFFICES ASSUME QueueInit PROVE TypeInv
  OBVIOUS
<1>1. QueueTypeOK
  <2>1. \A S : <<>> \in Seq(S) /\ Len(<<>>) = 0
    BY EmptySeq
  <2>2. readerProfile \in [Readers -> Profiles]
    BY QueueAssumption DEF QueueInit, TopicInit
  <2>3. HistoryDepth \in Nat
    BY QueueAssumption
  <2>4. Idle \in Calls
    BY DEF Idle, Calls
  <2> QED BY <2>1, <2>2, <2>3, <2>4 DEF QueueInit, TopicInit, QueueTypeOK, TopicTypeOK
<1>2. CallShape
  BY ReturnFacts DEF QueueInit, CallShape, Shaped, Idle, Calls
<1> QED BY <1>1, <1>2 DEF TypeInv

(* Every step of the queue keeps the types and the shape of the calls.     *)
LEMMA TypeStep == TypeInv /\ [QueueNext]_queueVars => TypeInv'
<1> SUFFICES ASSUME TypeInv, [QueueNext]_queueVars PROVE TypeInv'
  OBVIOUS
<1> USE DEF TypeInv, QueueTypeOK, TopicTypeOK, cacheVars, historyVars
<1>e. /\ HistoryDepth \in Nat /\ TopicOf \in [Readers -> Topics]
      /\ PeerTypes \in [Readers -> SUBSET StreamTypes]
  BY QueueAssumption
<1>1. ASSUME NEW r \in Readers, SampleArrives(r) PROVE TypeInv'
  <2>1. arrived[r] + 1 \in Nat
    OBVIOUS
  <2>2. /\ KeepLast(samples[r], arrived[r] + 1) \in Seq(Nat)
        /\ Len(KeepLast(samples[r], arrived[r] + 1)) <= HistoryDepth
    BY <2>1, <1>e, KeepLastFacts
  <2>3. QueueTypeOK'
    BY <1>1, <2>1, <2>2 DEF SampleArrives
  <2> QED BY <1>1, <2>3 DEF SampleArrives, CallShape
<1>2. ASSUME NEW r \in Readers, NEW t \in PeerTypes[r], StreamTypeArrives(r, t)
      PROVE  TypeInv'
  <2> DEFINE e == [n |-> arrived[r] + 1, type |-> t]
  <2>1. e \in Item
    BY <1>e DEF Item
  <2>2. KeepLast(types[r], e) \in Seq(Item) /\ Len(KeepLast(types[r], e)) <= HistoryDepth
    BY <2>1, <1>e, KeepLastFacts
  <2>3. QueueTypeOK'
    BY <1>2, <2>2 DEF StreamTypeArrives
  <2> QED BY <1>2, <2>3 DEF StreamTypeArrives, CallShape
<1>3. ASSUME NEW r \in Readers, PeerLeaves(r) PROVE TypeInv'
  BY <1>3 DEF PeerLeaves, CallShape
<1>4. ASSUME NEW r \in Readers, PeerReturns(r) PROVE TypeInv'
  BY <1>4 DEF PeerReturns, CallShape
<1>c. ASSUME NEW r \in Readers, NEW c, Shaped(c), call' = [call EXCEPT ![r] = c]
      PROVE  call' \in [Readers -> Calls] /\ CallShape'
  BY <1>c DEF CallShape, Shaped
<1>d. \A r \in Readers : call[r].depth \in Nat /\ call[r].got \in BOOLEAN
  BY DEF Calls
<1>5. ASSUME NEW r \in Readers, BeginPop(r) PROVE TypeInv'
  <2>1. call' \in [Readers -> Calls] /\ CallShape'
    BY <1>5, <1>c, ReturnFacts DEF BeginPop
  <2> QED BY <1>5, <2>1 DEF BeginPop
<1>6. ASSUME NEW r \in Readers, PopSample(r) PROVE TypeInv'
  <2> DEFINE gives == samples[r] # <<>> /\ alive[r]
             batch == Taken(samples[r])
             rest  == IF gives THEN Elements(Tail(batch)) ELSE Elements(batch)
  <2>1. Left(samples[r]) \in Seq(Nat) /\ Len(Left(samples[r])) <= HistoryDepth
    <3>1. BatchSize(samples[r]) \in 0..Len(samples[r]) /\ Len(samples[r]) \in Nat
      BY BatchFacts, LenProperties
    <3> QED BY <3>1, <1>e, LeftFacts
  <2>2. (IF gives THEN Append(received[r], Head(batch)) ELSE received[r]) \in Seq(Nat)
    <3>1. gives => Head(batch) \in Nat
      BY TakenFacts, ElementOfSeq
    <3> QED BY <3>1, AppendProperties
  <2>3. Discards(rest, IF gives THEN "batch" ELSE "not alive") \subseteq [n : Nat, by : Causes]
    <3>1. rest \subseteq Nat
      BY RestFacts
    <3> QED BY <3>1, DiscardFacts DEF Causes
  <2>4. call' \in [Readers -> Calls] /\ CallShape'
    <3>1. Shaped([call[r] EXCEPT !.pc = "type", !.got = gives])
      BY DEF Shaped, Calls
    <3>2. call' = [call EXCEPT ![r] = [call[r] EXCEPT !.pc = "type", !.got = gives]]
      BY <1>6 DEF PopSample, Calls
    <3> QED BY <3>1, <3>2, <1>c
  <2> HIDE DEF gives, batch, rest
  <2>5. /\ samples' = [samples EXCEPT ![r] = Left(samples[r])]
        /\ received' = [received EXCEPT ![r] =
                          IF gives THEN Append(received[r], Head(batch)) ELSE received[r]]
        /\ discarded' = [discarded EXCEPT ![r] =
              discarded[r] \cup Discards(rest, IF gives THEN "batch" ELSE "not alive")]
    BY <1>6 DEF PopSample, gives, batch, rest
  <2>6. /\ samples' \in [Readers -> Seq(Nat)]
        /\ \A q \in Readers : Len(samples'[q]) <= HistoryDepth
    BY <2>1, <2>5
  <2>7. received' \in [Readers -> Seq(Nat)]
    BY <2>2, <2>5
  <2>8. discarded' \in [Readers -> SUBSET [n : Nat, by : Causes]]
    BY <2>3, <2>5
  <2>9. UNCHANGED <<qosProfile, arrived, types, alive, newView, readerProfile,
                    receivedTypes, mark, cutShort>>
    BY <1>6 DEF PopSample
  <2> QED BY <2>4, <2>6, <2>7, <2>8, <2>9
<1>7. ASSUME NEW r \in Readers, PopNoStreamType(r) PROVE TypeInv'
  <2>1. call' \in [Readers -> Calls] /\ CallShape'
    BY <1>7, <1>c, <1>d, ReturnFacts DEF PopNoStreamType
  <2> QED BY <1>7, <2>1 DEF PopNoStreamType
<1>t. ASSUME NEW r \in Readers, TakeStreamTypes(r)
      PROVE  /\ types' \in [Readers -> Seq(Item)]
             /\ \A q \in Readers : Len(types'[q]) <= HistoryDepth
             /\ newView' \in [Readers -> BOOLEAN]
  <2>1. Left(types[r]) \in Seq(Item) /\ Len(Left(types[r])) <= HistoryDepth
    <3>1. BatchSize(types[r]) \in 0..Len(types[r]) /\ Len(types[r]) \in Nat
      BY BatchFacts, LenProperties
    <3> QED BY <3>1, <1>e, LeftFacts
  <2> QED BY <1>t, <2>1 DEF TakeStreamTypes
<1>8. ASSUME NEW r \in Readers, PopDeadStreamType(r) PROVE TypeInv'
  <2>1. call' \in [Readers -> Calls] /\ CallShape'
    BY <1>8, <1>c, <1>d, ReturnFacts DEF PopDeadStreamType
  <2>2. TakeStreamTypes(r)
    BY <1>8 DEF PopDeadStreamType
  <2> QED BY <1>8, <2>1, <2>2, <1>t DEF PopDeadStreamType, TakeStreamTypes
<1>h. ASSUME NEW r \in Readers, DeliverStreamType(r)
      PROVE  receivedTypes' \in [Readers -> Seq(Nat)]
  <2>1. Head(types[r]).n \in Nat
    <3>1. types[r] \in Seq(Item) /\ types[r] # <<>>
      BY <1>h DEF DeliverStreamType, TakeStreamTypes
    <3>2. Head(types[r]) \in Item
      BY <3>1, HeadTailProperties
    <3> QED BY <3>2 DEF Item
  <2>2. Append(receivedTypes[r], Head(types[r]).n) \in Seq(Nat)
    BY <2>1, AppendProperties
  <2> QED BY <1>h, <2>2 DEF DeliverStreamType
<1>9. ASSUME NEW r \in Readers, PopStreamType(r) PROVE TypeInv'
  <2>1. call' \in [Readers -> Calls] /\ CallShape'
    BY <1>9, <1>c, <1>d, ReturnFacts DEF PopStreamType
  <2>2. DeliverStreamType(r) /\ TakeStreamTypes(r)
    BY <1>9 DEF PopStreamType, DeliverStreamType
  <2> QED BY <1>9, <2>1, <2>2, <1>t, <1>h DEF PopStreamType, TakeStreamTypes
<1>10. ASSUME NEW r \in Readers, PopNewProfile(r) PROVE TypeInv'
  <2>1. call' \in [Readers -> Calls] /\ CallShape'
    BY <1>10, <1>c, <1>d, ReturnFacts, call[r].depth + 1 \in Nat DEF PopNewProfile
  <2>2. DeliverStreamType(r) /\ TakeStreamTypes(r)
    BY <1>10 DEF PopNewProfile, DeliverStreamType
  <2>3. qosProfile' \in [Topics -> Profiles]
    BY <1>10, <1>e DEF PopNewProfile
  <2> QED BY <1>10, <2>1, <2>2, <2>3, <1>t, <1>h DEF PopNewProfile, TakeStreamTypes
<1>11. ASSUME NEW r \in Readers, PopThrows(r) PROVE TypeInv'
  <2>1. call' \in [Readers -> Calls] /\ CallShape'
    BY <1>11, <1>c, ReturnFacts DEF PopThrows
  <2>2. DeliverStreamType(r) /\ TakeStreamTypes(r)
    BY <1>11 DEF PopThrows, DeliverStreamType
  <2>3. (cutShort[r] \/ call[r].depth > 0) \in BOOLEAN
    BY <1>d
  <2>4. cutShort' \in [Readers -> BOOLEAN]
    BY <1>11, <2>3 DEF PopThrows
  <2> QED BY <1>11, <2>1, <2>2, <2>4, <1>t, <1>h DEF PopThrows, TakeStreamTypes
<1>12. ASSUME NEW r \in Readers, createReader(r) PROVE TypeInv'
  <2>1. call' \in [Readers -> Calls] /\ CallShape'
    <3>1. call[r].depth - 1 \in Nat
      BY <1>12, <1>d DEF createReader, CallShape, Shaped
    <3> QED BY <1>12, <3>1, <1>c, ReturnFacts DEF createReader
  <2>2. samples' \in [Readers -> Seq(Nat)] /\ \A q \in Readers : Len(samples'[q]) <= HistoryDepth
    BY <1>12, <1>e, EmptySeq DEF createReader
  <2>3. discarded' \in [Readers -> SUBSET [n : Nat, by : Causes]]
    <3>1. Discards(Elements(samples[r]), "recreate") \subseteq [n : Nat, by : Causes]
      BY ElementsFacts, DiscardFacts DEF Causes
    <3> QED BY <1>12, <3>1 DEF createReader
  <2>4. readerProfile' \in [Readers -> Profiles]
    BY <1>12, <1>e DEF createReader
  <2> QED BY <1>12, <2>1, <2>2, <2>3, <2>4 DEF createReader
<1>13. ASSUME NEW r \in Readers, EndPop(r) PROVE TypeInv'
  <2>1. call' \in [Readers -> Calls] /\ CallShape'
    BY <1>13, <1>c, ReturnFacts DEF EndPop
  <2> QED BY <1>13, <2>1 DEF EndPop
<1>14. CASE UNCHANGED queueVars
  BY <1>14 DEF queueVars, CallShape
<1> QED
  BY <1>1, <1>2, <1>3, <1>4, <1>5, <1>6, <1>7, <1>8, <1>9, <1>10, <1>11, <1>12, <1>13,
     <1>14 DEF QueueNext, Arrival, PopStep

(* No step of the queue leaves the types of its variables, and no cache    *)
(* outgrows the history depth of its DDS reader, however calls of popFrom  *)
(* nest and whatever arrives between their steps.                          *)
THEOREM QueueTypeCorrect == QueueSpec => []QueueTypeOK
<1>1. QueueSpec => []TypeInv
  BY TypeInit, TypeStep, PTL DEF QueueSpec
<1>2. TypeInv => QueueTypeOK
  BY DEF TypeInv
<1> QED BY <1>1, <1>2, PTL

(***************************************************************************)
(* The order of what is handed on.  The items of a cache rise, none is     *)
(* beyond the last arrival, and all of them are newer than whatever was    *)
(* handed on: the strengthening that makes the order inductive.            *)
(***************************************************************************)
InOrder(numbers, len, given, n) ==
  /\ \A i \in 1..len : numbers[i] \in 1..n
  /\ \A i, j \in 1..len : i < j => numbers[i] < numbers[j]
  /\ \A i \in 1..Len(given) : given[i] <= n
  /\ \A i \in 1..Len(given), j \in 1..len : given[i] < numbers[j]

TypeNumbers(r) == [i \in 1..Len(types[r]) |-> types[r][i].n]

SampleOrder ==
  \A r \in Readers : InOrder(samples[r], Len(samples[r]), received[r], arrived[r])
TypeOrder ==
  \A r \in Readers : InOrder(TypeNumbers(r), Len(types[r]), receivedTypes[r], arrived[r])

OrderInv == TypeInv /\ SampleOrder /\ TypeOrder

(* An item arrives in this cache, as the last; or in the other one.        *)
LEMMA ArrivalKeepsOrder ==
  ASSUME NEW numbers, NEW len \in Nat, NEW given \in Seq(Nat), NEW n \in Nat,
         InOrder(numbers, len, given, n),
         NEW numbers2, NEW len2 \in Nat, len2 > 0, NEW d \in Nat,
         Shifted(numbers2, len2 - 1, numbers, len, d),
         numbers2[len2] = n + 1
  PROVE  InOrder(numbers2, len2, given, n + 1)
<1>1. \A i \in 1..Len(given) : given[i] \in Nat
  BY ElementOfSeq
<1>2. \A i \in 1..len2 : numbers2[i] \in 1..(n + 1)
  <2> SUFFICES ASSUME NEW i \in 1..len2 PROVE numbers2[i] \in 1..(n + 1)
    OBVIOUS
  <2>1. CASE i = len2
    BY <2>1
  <2>2. CASE i < len2
    <3>1. i + d \in 1..len /\ numbers2[i] = numbers[i + d]
      BY <2>2 DEF Shifted
    <3>2. numbers[i + d] \in 1..n
      BY <3>1 DEF InOrder
    <3> QED BY <3>1, <3>2
  <2> QED BY <2>1, <2>2
<1>3. \A i, j \in 1..len2 : i < j => numbers2[i] < numbers2[j]
  <2> SUFFICES ASSUME NEW i \in 1..len2, NEW j \in 1..len2, i < j
               PROVE  numbers2[i] < numbers2[j]
    OBVIOUS
  <2>1. i + d \in 1..len /\ numbers2[i] = numbers[i + d] /\ numbers[i + d] \in 1..n
    <3>1. i < len2
      OBVIOUS
    <3>2. i + d \in 1..len /\ numbers2[i] = numbers[i + d]
      BY <3>1 DEF Shifted
    <3> QED BY <3>2 DEF InOrder
  <2>2. CASE j = len2
    BY <2>1, <2>2
  <2>3. CASE j < len2
    <3>1. j + d \in 1..len /\ numbers2[j] = numbers[j + d]
      BY <2>3 DEF Shifted
    <3> QED BY <2>1, <3>1 DEF InOrder
  <2> QED BY <2>2, <2>3
<1>4. \A i \in 1..Len(given) : given[i] <= n + 1
  BY <1>1 DEF InOrder
<1>5. \A i \in 1..Len(given), j \in 1..len2 : given[i] < numbers2[j]
  <2> SUFFICES ASSUME NEW i \in 1..Len(given), NEW j \in 1..len2
               PROVE  given[i] < numbers2[j]
    OBVIOUS
  <2>1. CASE j = len2
    BY <2>1, <1>1 DEF InOrder
  <2>2. CASE j < len2
    BY <2>2, <1>1 DEF InOrder, Shifted
  <2> QED BY <2>1, <2>2
<1> QED BY <1>2, <1>3, <1>4, <1>5 DEF InOrder

(* An arrival in the other cache only raises the bound on the numbers.     *)
LEMMA OtherArrivalKeepsOrder ==
  ASSUME NEW numbers, NEW len \in Nat, NEW given \in Seq(Nat), NEW n \in Nat,
         InOrder(numbers, len, given, n)
  PROVE  InOrder(numbers, len, given, n + 1)
<1>1. \A i \in 1..Len(given) : given[i] \in Nat
  BY ElementOfSeq
<1> QED BY <1>1 DEF InOrder

(* A take that hands on the first item, or drops the whole batch.          *)
LEMMA TakeKeepsOrder ==
  ASSUME NEW numbers, NEW len \in Nat, NEW given \in Seq(Nat), NEW n \in Nat,
         InOrder(numbers, len, given, n),
         NEW numbers2, NEW len2 \in Nat, NEW b \in Nat,
         Shifted(numbers2, len2, numbers, len, b)
  PROVE  /\ InOrder(numbers2, len2, given, n)
         /\ b > 0 /\ len > 0 => InOrder(numbers2, len2, Append(given, numbers[1]), n)
<1>1. \A i \in 1..Len(given) : given[i] \in Nat
  BY ElementOfSeq
<1>2. /\ \A i \in 1..len2 : numbers2[i] \in 1..n
      /\ \A i, j \in 1..len2 : i < j => numbers2[i] < numbers2[j]
      /\ \A i \in 1..Len(given), j \in 1..len2 : given[i] < numbers2[j]
  BY <1>1 DEF InOrder, Shifted
<1>3. InOrder(numbers2, len2, given, n)
  BY <1>2 DEF InOrder
<1>4. ASSUME b > 0, len > 0
      PROVE  InOrder(numbers2, len2, Append(given, numbers[1]), n)
  <2>1. numbers[1] \in 1..n /\ numbers[1] \in Nat
    BY <1>4 DEF InOrder
  <2>2. /\ Len(Append(given, numbers[1])) = Len(given) + 1
        /\ \A i \in 1..Len(given) : Append(given, numbers[1])[i] = given[i]
        /\ Append(given, numbers[1])[Len(given) + 1] = numbers[1]
        /\ Len(given) \in Nat
    BY <2>1, AppendProperties, LenProperties
  <2>3. \A j \in 1..len2 : numbers[1] < numbers2[j]
    BY <1>4 DEF InOrder, Shifted
  <2> DEFINE more == Append(given, numbers[1])
  <2> HIDE DEF more
  <2>4. ASSUME NEW i \in 1..Len(more)
        PROVE  more[i] <= n /\ \A j \in 1..len2 : more[i] < numbers2[j]
    <3>1. CASE i = Len(given) + 1
      <4>1. more[i] = numbers[1]
        BY <3>1, <2>2 DEF more
      <4> QED BY <4>1, <2>1, <2>3
    <3>2. CASE i \in 1..Len(given)
      BY <3>2, <2>2, <1>3 DEF InOrder, more
    <3>3. i = Len(given) + 1 \/ i \in 1..Len(given)
      BY <2>2 DEF more
    <3> QED BY <3>1, <3>2, <3>3
  <2>5. InOrder(numbers2, len2, more, n)
    BY <1>2, <2>4 DEF InOrder
  <2> QED BY <2>5 DEF more
<1> QED BY <1>3, <1>4

(* The queue starts with empty caches, so in order.                        *)
LEMMA OrderInit == QueueInit => OrderInv
<1> SUFFICES ASSUME QueueInit PROVE OrderInv
  OBVIOUS
<1>1. TypeInv
  BY TypeInit
<1>2. Len(<<>>) = 0
  BY EmptySeq
<1>3. SampleOrder
  BY <1>2 DEF QueueInit, SampleOrder, InOrder
<1>4. TypeOrder
  BY <1>2 DEF QueueInit, TypeOrder, InOrder
<1> QED BY <1>1, <1>3, <1>4 DEF OrderInv

(* Every step keeps each cache in order and newer than what was handed on. *)
LEMMA OrderStep == OrderInv /\ [QueueNext]_queueVars => OrderInv'
<1> SUFFICES ASSUME OrderInv, [QueueNext]_queueVars PROVE OrderInv'
  OBVIOUS
<1>0. TypeInv'
  BY TypeStep DEF OrderInv
<1> USE DEF OrderInv, TypeInv, QueueTypeOK, cacheVars, historyVars
<1>e. HistoryDepth \in Nat /\ PeerTypes \in [Readers -> SUBSET StreamTypes]
  BY QueueAssumption
<1>l. \A r \in Readers : /\ Len(samples[r]) \in Nat /\ Len(types[r]) \in Nat
                         /\ Len(samples'[r]) \in Nat /\ Len(types'[r]) \in Nat
  BY <1>0, LenProperties
<1>s. ASSUME UNCHANGED <<samples, received, arrived>> PROVE SampleOrder'
  BY <1>s DEF SampleOrder
<1>k. ASSUME UNCHANGED <<types, receivedTypes, arrived>> PROVE TypeOrder'
  BY <1>k DEF TypeOrder, TypeNumbers
<1>1. ASSUME NEW r \in Readers, SampleArrives(r) PROVE SampleOrder' /\ TypeOrder'
  <2> DEFINE e   == arrived[r] + 1
             new == KeepLast(samples[r], e)
  <2>1. /\ new \in Seq(Nat) /\ Len(new) \in Nat /\ Len(new) > 0
        /\ new[Len(new)] = arrived[r] + 1
        /\ Extends(new, samples[r])
    <3>1. e \in Nat /\ samples[r] \in Seq(Nat) /\ Len(samples[r]) <= HistoryDepth
      OBVIOUS
    <3> HIDE DEF OrderInv, TypeInv, QueueTypeOK, e
    <3>2. /\ new \in Seq(Nat) /\ Len(new) \in 1..HistoryDepth
          /\ new[Len(new)] = e
          /\ Extends(new, samples[r])
      BY <3>1, <1>e, KeepLastFacts
    <3> HIDE DEF new
    <3> QED BY <3>2, <1>e DEF e
  <2>2. /\ samples' = [samples EXCEPT ![r] = new]
        /\ arrived' = [arrived EXCEPT ![r] = arrived[r] + 1]
        /\ UNCHANGED <<received, types, receivedTypes>>
    BY <1>1 DEF SampleArrives
  <2> HIDE DEF new
  <2>3. InOrder(new, Len(new), received[r], arrived[r] + 1)
    <3>1. PICK d \in {0, 1} : Shifted(new, Len(new) - 1, samples[r], Len(samples[r]), d)
      BY <2>1 DEF Extends
    <3>2. InOrder(samples[r], Len(samples[r]), received[r], arrived[r])
      BY DEF SampleOrder
    <3>3. received[r] \in Seq(Nat) /\ arrived[r] \in Nat /\ d \in Nat
      OBVIOUS
    <3> HIDE DEF OrderInv, TypeInv, QueueTypeOK
    <3> QED BY <2>1, <3>1, <3>2, <3>3, <1>l, ArrivalKeepsOrder
  <2>4. SampleOrder'
    BY <2>2, <2>3 DEF SampleOrder
  <2>5. InOrder(TypeNumbers(r), Len(types[r]), receivedTypes[r], arrived[r] + 1)
    <3>1. receivedTypes[r] \in Seq(Nat) /\ arrived[r] \in Nat
      OBVIOUS
    <3> QED BY <1>l, <3>1, OtherArrivalKeepsOrder DEF TypeOrder
  <2>6. TypeOrder'
    BY <2>2, <2>5 DEF TypeOrder, TypeNumbers
  <2> QED BY <2>4, <2>6
<1>2. ASSUME NEW r \in Readers, NEW t \in PeerTypes[r], StreamTypeArrives(r, t)
      PROVE  SampleOrder' /\ TypeOrder'
  <2> DEFINE e   == [n |-> arrived[r] + 1, type |-> t]
             new == KeepLast(types[r], e)
             num == [i \in 1..Len(new) |-> new[i].n]
  <2>1. e \in Item /\ e.n = arrived[r] + 1
    BY <1>e DEF Item
  <2>2. /\ new \in Seq(Item) /\ Len(new) \in Nat /\ Len(new) > 0
        /\ new[Len(new)] = e
        /\ Extends(new, types[r])
    <3>1. types[r] \in Seq(Item) /\ Len(types[r]) <= HistoryDepth
      OBVIOUS
    <3> HIDE DEF e
    <3> HIDE DEF OrderInv, TypeInv, QueueTypeOK
    <3>2. /\ new \in Seq(Item) /\ Len(new) \in 1..HistoryDepth /\ new[Len(new)] = e
          /\ Extends(new, types[r])
      BY <2>1, <3>1, <1>e, KeepLastFacts
    <3> HIDE DEF new
    <3> QED BY <3>2, <1>e
  <2>3. /\ types' = [types EXCEPT ![r] = new]
        /\ arrived' = [arrived EXCEPT ![r] = arrived[r] + 1]
        /\ UNCHANGED <<samples, received, receivedTypes>>
    BY <1>2 DEF StreamTypeArrives
  <2> HIDE DEF new, e
  <2>4. InOrder(num, Len(new), receivedTypes[r], arrived[r] + 1)
    <3>1. PICK d \in {0, 1} : Shifted(new, Len(new) - 1, types[r], Len(types[r]), d)
      BY <2>2 DEF Extends
    <3>2. Shifted(num, Len(new) - 1, TypeNumbers(r), Len(types[r]), d)
      <4> HIDE DEF OrderInv, TypeInv, QueueTypeOK
      <4> SUFFICES ASSUME NEW i \in 1..(Len(new) - 1)
                   PROVE  /\ i + d \in 1..Len(types[r])
                          /\ num[i] = TypeNumbers(r)[i + d]
        BY DEF Shifted
      <4>1. i + d \in 1..Len(types[r]) /\ new[i] = types[r][i + d]
        BY <3>1 DEF Shifted
      <4>2. i \in 1..Len(new)
        BY <2>2
      <4> QED BY <4>1, <4>2 DEF TypeNumbers
    <3>3. num[Len(new)] = arrived[r] + 1
      BY <2>1, <2>2
    <3>4. InOrder(TypeNumbers(r), Len(types[r]), receivedTypes[r], arrived[r])
      BY DEF TypeOrder
    <3>5. receivedTypes[r] \in Seq(Nat) /\ arrived[r] \in Nat /\ d \in Nat
      OBVIOUS
    <3> HIDE DEF num, OrderInv, TypeInv, QueueTypeOK
    <3> QED BY <2>2, <3>2, <3>3, <3>4, <3>5, <1>l, ArrivalKeepsOrder
  <2>5. TypeOrder'
    BY <2>3, <2>4 DEF TypeOrder, TypeNumbers
  <2>6. InOrder(samples[r], Len(samples[r]), received[r], arrived[r] + 1)
    <3>1. received[r] \in Seq(Nat) /\ arrived[r] \in Nat
      OBVIOUS
    <3> QED BY <1>l, <3>1, OtherArrivalKeepsOrder DEF SampleOrder
  <2>7. SampleOrder'
    BY <2>3, <2>6 DEF SampleOrder
  <2> QED BY <2>5, <2>7
<1>3. ASSUME NEW r \in Readers, PopSample(r) PROVE SampleOrder' /\ TypeOrder'
  <2> DEFINE b    == BatchSize(samples[r])
             left == Left(samples[r])
  <2>1. /\ b \in Nat /\ Len(left) \in Nat
        /\ Shifted(left, Len(left), samples[r], Len(samples[r]), b)
        /\ samples[r] # <<>> => b > 0 /\ Len(samples[r]) > 0
    <3>1. samples[r] \in Seq(Nat)
      OBVIOUS
    <3>2. b \in 0..Len(samples[r]) /\ (samples[r] # <<>> => b > 0)
      BY <3>1, BatchFacts
    <3> QED BY <3>1, <3>2, <1>l, LeftFacts
  <2>2. InOrder(samples[r], Len(samples[r]), received[r], arrived[r])
    BY DEF SampleOrder
  <2>3. received[r] \in Seq(Nat) /\ arrived[r] \in Nat
    OBVIOUS
  <2>4. samples' = [samples EXCEPT ![r] = left] /\ arrived' = arrived
    BY <1>3 DEF PopSample
  <2>5. \/ received' = received
        \/ /\ samples[r] # <<>>
           /\ received' = [received EXCEPT ![r] = Append(received[r], samples[r][1])]
    BY <1>3, TakenFacts DEF PopSample
  <2> HIDE DEF b, left
  <2>6. /\ InOrder(left, Len(left), received[r], arrived[r])
        /\ samples[r] # <<>> =>
             InOrder(left, Len(left), Append(received[r], samples[r][1]), arrived[r])
    BY <2>1, <2>2, <2>3, <1>l, TakeKeepsOrder
  <2>7. SampleOrder'
    BY <2>4, <2>5, <2>6 DEF SampleOrder
  <2> QED BY <2>7, <1>3, <1>k DEF PopSample
<1>4. ASSUME NEW r \in Readers, TakeStreamTypes(r),
             receivedTypes' = receivedTypes \/ DeliverStreamType(r)
      PROVE  SampleOrder' /\ TypeOrder'
  <2> DEFINE b    == BatchSize(types[r])
             left == Left(types[r])
             num  == [i \in 1..Len(left) |-> left[i].n]
  <2>1. /\ b \in Nat /\ Len(left) \in Nat /\ b > 0 /\ Len(types[r]) > 0
        /\ Shifted(left, Len(left), types[r], Len(types[r]), b)
    <3>1. types[r] \in Seq(Item) /\ types[r] # <<>>
      BY <1>4 DEF TakeStreamTypes
    <3>2. b \in 0..Len(types[r]) /\ b > 0
      BY <3>1, BatchFacts
    <3> QED BY <3>1, <3>2, <1>l, LeftFacts
  <2>2. InOrder(TypeNumbers(r), Len(types[r]), receivedTypes[r], arrived[r])
    BY DEF TypeOrder
  <2>3. receivedTypes[r] \in Seq(Nat) /\ arrived[r] \in Nat
    OBVIOUS
  <2>4. types' = [types EXCEPT ![r] = left] /\ arrived' = arrived
    BY <1>4 DEF TakeStreamTypes
  <2>5. \/ receivedTypes' = receivedTypes
        \/ receivedTypes' =
             [receivedTypes EXCEPT ![r] = Append(receivedTypes[r], TypeNumbers(r)[1])]
    <3>1. Head(types[r]) = types[r][1] /\ TypeNumbers(r)[1] = types[r][1].n
      BY <2>1, <1>l DEF TypeNumbers
    <3> QED BY <1>4, <3>1 DEF DeliverStreamType
  <2> HIDE DEF b, left
  <2>6. Shifted(num, Len(left), TypeNumbers(r), Len(types[r]), b)
    BY <2>1 DEF TypeNumbers, Shifted
  <2> HIDE DEF num
  <2>7. /\ InOrder(num, Len(left), receivedTypes[r], arrived[r])
        /\ InOrder(num, Len(left), Append(receivedTypes[r], TypeNumbers(r)[1]), arrived[r])
    <3> HIDE DEF OrderInv, TypeInv, QueueTypeOK
    <3>1. InOrder(num, Len(left), receivedTypes[r], arrived[r])
      BY <2>1, <2>2, <2>3, <2>6, <1>l, TakeKeepsOrder
    <3>2. InOrder(num, Len(left), Append(receivedTypes[r], TypeNumbers(r)[1]), arrived[r])
      BY <2>1, <2>2, <2>3, <2>6, <1>l, TakeKeepsOrder
    <3> QED BY <3>1, <3>2
  <2>8. TypeOrder'
    BY <2>4, <2>5, <2>7 DEF TypeOrder, TypeNumbers, num
  <2> QED BY <2>8, <1>4, <1>s DEF TakeStreamTypes
<1>5. ASSUME NEW r \in Readers, createReader(r) PROVE SampleOrder' /\ TypeOrder'
  <2>1. InOrder(<<>>, Len(<<>>), received[r], arrived[r])
    <3>1. Len(<<>>) = 0
      BY EmptySeq
    <3> QED BY <3>1 DEF SampleOrder, InOrder
  <2>2. /\ samples' = [samples EXCEPT ![r] = <<>>]
        /\ UNCHANGED <<received, arrived, types, receivedTypes>>
    BY <1>5 DEF createReader
  <2>3. SampleOrder'
    BY <2>1, <2>2 DEF SampleOrder
  <2> QED BY <2>2, <2>3, <1>k
<1>6. ASSUME NEW r \in Readers,
             \/ PopDeadStreamType(r) \/ PopStreamType(r) \/ PopNewProfile(r) \/ PopThrows(r)
      PROVE  SampleOrder' /\ TypeOrder'
  BY <1>6, <1>4
     DEF PopDeadStreamType, PopStreamType, PopNewProfile, PopThrows, DeliverStreamType
<1>7. ASSUME NEW r \in Readers,
             \/ PeerLeaves(r) \/ PeerReturns(r) \/ BeginPop(r) \/ PopNoStreamType(r)
             \/ EndPop(r)
      PROVE  SampleOrder' /\ TypeOrder'
  BY <1>7, <1>s, <1>k DEF PeerLeaves, PeerReturns, BeginPop, PopNoStreamType, EndPop
<1>8. CASE UNCHANGED queueVars
  BY <1>0, <1>8, <1>s, <1>k DEF queueVars
<1> QED
  BY <1>0, <1>1, <1>2, <1>3, <1>5, <1>6, <1>7, <1>8 DEF QueueNext, Arrival, PopStep

(* The order is an invariant of the queue.                                 *)
LEMMA OrderInvariant == QueueSpec => []OrderInv
  BY OrderInit, OrderStep, PTL DEF QueueSpec

(***************************************************************************)
(* The queue implements two lossy channels.                                *)
(***************************************************************************)

(* Nothing has arrived and nothing was received: the channel's Init.       *)
LEMMA SampleChannelInit == QueueInit => SampleChannel!Init
  BY DEF QueueInit, SampleChannel!Init

(* Only an arrival is a Send, only PopSample a Receive; the rest stutter.  *)
LEMMA SampleChannelStep ==
  OrderInv /\ [QueueNext]_queueVars => [SampleChannel!Next]_SampleChannel!vars
<1> SUFFICES ASSUME OrderInv, [QueueNext]_queueVars
             PROVE  [SampleChannel!Next]_SampleChannel!vars
  OBVIOUS
<1> USE DEF cacheVars, historyVars
<1>1. ASSUME NEW r \in Readers,
             SampleArrives(r) \/ \E t \in PeerTypes[r] : StreamTypeArrives(r, t)
      PROVE  SampleChannel!Next
  <2>1. SampleChannel!Send(r)
    BY <1>1 DEF SampleArrives, StreamTypeArrives, SampleChannel!Send
  <2> QED BY <2>1 DEF SampleChannel!Next
<1>2. ASSUME NEW r \in Readers, PopSample(r)
      PROVE  [SampleChannel!Next]_SampleChannel!vars
  <2>1. CASE samples[r] # <<>> /\ alive[r]
    <3>1. samples[r] \in Seq(Nat) /\ InOrder(samples[r], Len(samples[r]), received[r], arrived[r])
      BY DEF OrderInv, TypeInv, QueueTypeOK, SampleOrder
    <3>2. 1 \in 1..Len(samples[r]) /\ Head(Taken(samples[r])) = samples[r][1]
      BY <2>1, <3>1, TakenFacts
    <3>3. received' = [received EXCEPT ![r] = Append(received[r], samples[r][1])]
      BY <1>2, <2>1, <3>2 DEF PopSample
    <3>4. /\ samples[r][1] \in 1..arrived[r]
          /\ \A i \in 1..Len(received[r]) : received[r][i] < samples[r][1]
      BY <3>1, <3>2 DEF InOrder
    <3>5. SampleChannel!Receive(r, samples[r][1])
      BY <1>2, <3>3, <3>4 DEF PopSample, SampleChannel!Receive
    <3> QED BY <3>4, <3>5 DEF SampleChannel!Next
  <2>2. CASE ~ (samples[r] # <<>> /\ alive[r])
    <3>1. received' = [received EXCEPT ![r] = received[r]] /\ arrived' = arrived
      BY <1>2, <2>2 DEF PopSample
    <3>2. received' = received
      BY <3>1 DEF OrderInv, TypeInv, QueueTypeOK
    <3> QED BY <3>1, <3>2 DEF SampleChannel!vars
  <2> QED BY <2>1, <2>2
<1>3. ASSUME NEW r \in Readers,
             \/ PeerLeaves(r) \/ PeerReturns(r) \/ BeginPop(r) \/ PopNoStreamType(r)
             \/ PopDeadStreamType(r) \/ PopStreamType(r) \/ PopNewProfile(r) \/ PopThrows(r)
             \/ createReader(r) \/ EndPop(r)
      PROVE  UNCHANGED SampleChannel!vars
  BY <1>3 DEF PeerLeaves, PeerReturns, BeginPop, PopNoStreamType, PopDeadStreamType,
              PopStreamType, PopNewProfile, PopThrows, DeliverStreamType, TakeStreamTypes,
              createReader, EndPop, SampleChannel!vars
<1>4. CASE UNCHANGED queueVars
  BY <1>4 DEF queueVars, SampleChannel!vars
<1> QED BY <1>1, <1>2, <1>3, <1>4 DEF QueueNext, Arrival, PopStep

(* Each reader hands on a subsequence of the samples that its peer sent:   *)
(* none twice and none after a newer one, whatever the cache overwrites,   *)
(* a leaving peer makes popFrom drop and createReader closes away.         *)
THEOREM QueueIsSampleChannel == QueueSpec => SamplesAreLossyFifo
  BY SampleChannelInit, SampleChannelStep, OrderInvariant, PTL
     DEF QueueSpec, SamplesAreLossyFifo, SampleChannel!Spec

(* The same of the stream types: the channel's Init.                       *)
LEMMA TypeChannelInit == QueueInit => TypeChannel!Init
  BY DEF QueueInit, TypeChannel!Init

(* Only an arrival is a Send, only a delivered type a Receive.             *)
LEMMA TypeChannelStep ==
  OrderInv /\ [QueueNext]_queueVars => [TypeChannel!Next]_TypeChannel!vars
<1> SUFFICES ASSUME OrderInv, [QueueNext]_queueVars
             PROVE  [TypeChannel!Next]_TypeChannel!vars
  OBVIOUS
<1> USE DEF cacheVars, historyVars
<1>1. ASSUME NEW r \in Readers,
             SampleArrives(r) \/ \E t \in PeerTypes[r] : StreamTypeArrives(r, t)
      PROVE  TypeChannel!Next
  <2>1. TypeChannel!Send(r)
    BY <1>1 DEF SampleArrives, StreamTypeArrives, TypeChannel!Send
  <2> QED BY <2>1 DEF TypeChannel!Next
<1>2. ASSUME NEW r \in Readers, DeliverStreamType(r)
      PROVE  TypeChannel!Next
  <2> DEFINE n == Head(types[r]).n
  <2>1. /\ types[r] \in Seq(Item) /\ types[r] # <<>>
        /\ InOrder(TypeNumbers(r), Len(types[r]), receivedTypes[r], arrived[r])
    BY <1>2 DEF OrderInv, TypeInv, QueueTypeOK, TypeOrder, DeliverStreamType, TakeStreamTypes
  <2>2. 1 \in 1..Len(types[r]) /\ n = TypeNumbers(r)[1]
    <3>1. Len(types[r]) \in Nat /\ Len(types[r]) > 0
      BY <2>1, EmptySeq
    <3>2. Head(types[r]) = types[r][1]
      BY <2>1
    <3> QED BY <3>1, <3>2 DEF TypeNumbers
  <2>3. n \in 1..arrived[r] /\ \A i \in 1..Len(receivedTypes[r]) : receivedTypes[r][i] < n
    BY <2>1, <2>2 DEF InOrder
  <2>4. TypeChannel!Receive(r, n)
    BY <1>2, <2>3 DEF DeliverStreamType, TakeStreamTypes, TypeChannel!Receive
  <2> QED BY <2>3, <2>4 DEF TypeChannel!Next
<1>3. ASSUME NEW r \in Readers,
             PopStreamType(r) \/ PopNewProfile(r) \/ PopThrows(r)
      PROVE  TypeChannel!Next
  BY <1>2, <1>3 DEF PopStreamType, PopNewProfile, PopThrows
<1>4. ASSUME NEW r \in Readers,
             \/ PeerLeaves(r) \/ PeerReturns(r) \/ BeginPop(r) \/ PopSample(r)
             \/ PopNoStreamType(r) \/ PopDeadStreamType(r) \/ createReader(r) \/ EndPop(r)
      PROVE  UNCHANGED TypeChannel!vars
  BY <1>4 DEF PeerLeaves, PeerReturns, BeginPop, PopSample, PopNoStreamType,
              PopDeadStreamType, TakeStreamTypes, createReader, EndPop, TypeChannel!vars
<1>5. CASE UNCHANGED queueVars
  BY <1>5 DEF queueVars, TypeChannel!vars
<1> QED BY <1>1, <1>3, <1>4, <1>5 DEF QueueNext, Arrival, PopStep

(* The same of the stream types, in the order in which they were sent.     *)
THEOREM QueueIsTypeChannel == QueueSpec => TypesAreLossyFifo
  BY TypeChannelInit, TypeChannelStep, OrderInvariant, PTL
     DEF QueueSpec, TypesAreLossyFifo, TypeChannel!Spec
=============================================================================
