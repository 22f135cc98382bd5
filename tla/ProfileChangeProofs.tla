-------------------------- MODULE ProfileChangeProofs --------------------------
(* Theorems about the change of the QoS profile in ReaderItemQueue: what   *)
(* is read before the sample reader is recreated, which profile the reader *)
(* has between two pops, and when a take drops no sample.                  *)
EXTENDS ReaderItemQueueProofs

(* The elements a cache can have after an arrival.                         *)
LEMMA KeepLastElements ==
  ASSUME NEW S, NEW cache \in Seq(S), NEW e \in S, Len(cache) <= HistoryDepth
  PROVE  Elements(KeepLast(cache, e)) \subseteq Elements(cache) \cup {e}
<1> DEFINE new == KeepLast(cache, e)
<1>1. /\ Len(new) \in 1..HistoryDepth /\ new[Len(new)] = e /\ Extends(new, cache)
  BY KeepLastFacts
<1>2. HistoryDepth \in Nat
  BY QueueAssumption
<1> HIDE DEF new
<1>3. ASSUME NEW i \in 1..Len(new) PROVE new[i] \in Elements(cache) \cup {e}
  <2>1. CASE i = Len(new)
    BY <2>1, <1>1
  <2>2. CASE i # Len(new)
    <3>1. i \in 1..(Len(new) - 1)
      BY <2>2, <1>1, <1>2
    <3>2. PICK d \in {0, 1} : i + d \in 1..Len(cache) /\ new[i] = cache[i + d]
      BY <3>1, <1>1 DEF Extends, Shifted
    <3> QED BY <3>2 DEF Elements
  <2> QED BY <2>1, <2>2
<1>4. Elements(new) \subseteq Elements(cache) \cup {e}
  BY <1>3 DEF Elements
<1> QED BY <1>4 DEF new

(* A take that may return the whole cache leaves nothing in it.            *)
LEMMA WholeTake ==
  ASSUME NEW S, NEW cache \in Seq(S), Len(cache) <= MaxSamplesPerRead
  PROVE  Elements(Left(cache)) = {}
<1>1. Len(cache) \in Nat /\ BatchSize(cache) = Len(cache)
  BY BatchFacts, LenProperties
<1>2. Len(Left(cache)) = 0
  BY <1>1, LeftFacts
<1> QED BY <1>2 DEF Elements

(***************************************************************************)
(* A suspended call has changed the profile; mark is the last arrival at   *)
(* that time.  Once the call above it has taken its samples, all that the  *)
(* cache holds came later.                                                 *)
(***************************************************************************)
Drained(r) ==
  /\ mark[r] <= arrived[r]
  /\ call[r].depth > 0 /\ call[r].pc \in {"type", "create"} =>
       \A n \in Elements(samples[r]) : n > mark[r]

DrainInv == TypeInv /\ \A r \in Readers : Drained(r)

(* No call is open at the start, so none has a mark to keep to.            *)
LEMMA DrainInit == QueueInit => DrainInv
<1> SUFFICES ASSUME QueueInit PROVE DrainInv
  OBVIOUS
<1>1. TypeInv
  BY TypeInit
<1> QED BY <1>1 DEF QueueInit, DrainInv, Drained, Idle

(* Once a nested call has read the samples, only newer ones are cached.    *)
LEMMA DrainStep ==
  ASSUME HistoryDepth <= MaxSamplesPerRead
  PROVE  DrainInv /\ [QueueNext]_queueVars => DrainInv'
<1> SUFFICES ASSUME DrainInv, [QueueNext]_queueVars PROVE DrainInv'
  OBVIOUS
<1>0. TypeInv'
  BY TypeStep DEF DrainInv
<1> USE DEF cacheVars, historyVars
<1>t. /\ samples \in [Readers -> Seq(Nat)] /\ arrived \in [Readers -> Nat]
      /\ mark \in [Readers -> Nat] /\ call \in [Readers -> Calls]
      /\ \A r \in Readers : Len(samples[r]) <= HistoryDepth
  BY DEF DrainInv, TypeInv, QueueTypeOK
<1>d. \A r \in Readers : Drained(r)
  BY DEF DrainInv
<1>e. HistoryDepth \in Nat /\ MaxSamplesPerRead \in Nat
  BY QueueAssumption
(* A step of reader r that leaves the variables of the others alone.       *)
<1>o. ASSUME NEW r \in Readers, Drained(r)',
             \A q \in Readers \ {r} : /\ samples'[q] = samples[q] /\ arrived'[q] = arrived[q]
                                      /\ mark'[q] = mark[q] /\ call'[q] = call[q]
      PROVE  DrainInv'
  BY <1>o, <1>d, <1>0 DEF DrainInv, Drained
<1>1. ASSUME NEW r \in Readers, SampleArrives(r) PROVE DrainInv'
  <2> DEFINE e   == arrived[r] + 1
             new == KeepLast(samples[r], e)
  <2>1. e \in Nat /\ mark[r] < e /\ samples[r] \in Seq(Nat)
    BY <1>t, <1>d DEF Drained
  <2>2. samples' = [samples EXCEPT ![r] = new] /\ arrived' = [arrived EXCEPT ![r] = e]
        /\ UNCHANGED <<mark, call>>
    BY <1>1 DEF SampleArrives
  <2> HIDE DEF e
  <2>3. Elements(new) \subseteq Elements(samples[r]) \cup {e}
    BY <2>1, <1>t, KeepLastElements
  <2> HIDE DEF new
  <2>4. samples'[r] = new /\ arrived'[r] = e
    BY <2>2, <1>t
  <2>5. Drained(r)'
    BY <2>1, <2>2, <2>3, <2>4, <1>d, <1>t DEF Drained
  <2> QED BY <2>2, <2>5, <1>o, <1>t
<1>2. ASSUME NEW r \in Readers, NEW t \in PeerTypes[r], StreamTypeArrives(r, t) PROVE DrainInv'
  <2>1. arrived' = [arrived EXCEPT ![r] = arrived[r] + 1] /\ UNCHANGED <<samples, mark, call>>
    BY <1>2 DEF StreamTypeArrives
  <2>2. Drained(r)'
    BY <2>1, <1>d, <1>t DEF Drained
  <2> QED BY <2>1, <2>2, <1>o, <1>t
<1>3. ASSUME NEW r \in Readers, PopSample(r) PROVE DrainInv'
  <2>1. samples' = [samples EXCEPT ![r] = Left(samples[r])] /\ UNCHANGED <<arrived, mark>>
    BY <1>3 DEF PopSample
  <2>2. Elements(samples'[r]) = {}
    <3>1. samples[r] \in Seq(Nat) /\ Len(samples[r]) <= MaxSamplesPerRead
      BY <1>t, <1>e, LenProperties
    <3>2. samples'[r] = Left(samples[r])
      BY <2>1, <1>t
    <3> QED BY <3>1, <3>2, WholeTake
  <2>3. \A q \in Readers \ {r} : call'[q] = call[q]
    BY <1>3, <1>t DEF PopSample
  <2>4. Drained(r)'
    BY <2>1, <2>2, <1>d DEF Drained
  <2> QED BY <2>1, <2>3, <2>4, <1>o, <1>t
(* The innermost call returns from where the samples were already read.    *)
<1>r. ASSUME NEW r \in Readers, NEW got \in BOOLEAN, call[r].pc = "type",
             call' = [call EXCEPT ![r] = Return(call[r].depth, got)],
             UNCHANGED <<samples, arrived, mark>>
      PROVE  DrainInv'
  <2>1. /\ call'[r] = Return(call[r].depth, got)
        /\ call[r].depth \in Nat
        /\ \A q \in Readers \ {r} : call'[q] = call[q]
    BY <1>r, <1>t DEF Calls
  <2>2. call'[r].pc \in {"type", "create"} /\ call'[r].depth > 0 => call[r].depth > 0
    BY <2>1 DEF Return, Enter, Result
  <2>3. Drained(r)'
    BY <2>2, <1>r, <1>d DEF Drained
  <2> QED BY <2>1, <2>3, <1>r, <1>o
<1>4. ASSUME NEW r \in Readers,
             PopNoStreamType(r) \/ PopDeadStreamType(r) \/ PopStreamType(r)
      PROVE  DrainInv'
  <2>1. call[r].got \in BOOLEAN
    BY <1>t DEF Calls
  <2> QED BY <2>1, <1>4, <1>r DEF PopNoStreamType, PopDeadStreamType, PopStreamType,
                                  DeliverStreamType, TakeStreamTypes
<1>5. ASSUME NEW r \in Readers, PopNewProfile(r) PROVE DrainInv'
  <2>1. /\ mark' = [mark EXCEPT ![r] = arrived[r]]
        /\ call' = [call EXCEPT ![r] = Enter(call[r].depth + 1)]
        /\ UNCHANGED <<samples, arrived>>
    BY <1>5 DEF PopNewProfile, DeliverStreamType, TakeStreamTypes
  <2>2. Drained(r)'
    BY <2>1, <1>t DEF Drained, Enter
  <2> QED BY <2>1, <2>2, <1>o, <1>t
(* A call ends or begins, where nothing is claimed of the samples.         *)
<1>i. ASSUME NEW r \in Readers, NEW c, c.pc \notin {"type", "create"},
             call' = [call EXCEPT ![r] = c], UNCHANGED <<samples, arrived, mark>>
      PROVE  DrainInv'
  <2>1. Drained(r)'
    BY <1>i, <1>d, <1>t DEF Drained
  <2> QED BY <2>1, <1>i, <1>o, <1>t
<1>6. ASSUME NEW r \in Readers, PopThrows(r) \/ EndPop(r) PROVE DrainInv'
  BY <1>6, <1>i DEF PopThrows, EndPop, DeliverStreamType, TakeStreamTypes, Idle
<1>7. ASSUME NEW r \in Readers, BeginPop(r) PROVE DrainInv'
  BY <1>7, <1>i DEF BeginPop, Enter
<1>8. ASSUME NEW r \in Readers, createReader(r) PROVE DrainInv'
  <2>1. /\ samples' = [samples EXCEPT ![r] = <<>>]
        /\ call' = [call EXCEPT ![r] = Return(call[r].depth - 1, TRUE)]
        /\ UNCHANGED <<arrived, mark>>
    BY <1>8 DEF createReader
  <2>2. Elements(samples'[r]) = {}
    <3>1. samples'[r] = <<>> /\ Len(<<>>) = 0
      BY <2>1, <1>t, EmptySeq
    <3> QED BY <3>1 DEF Elements
  <2>3. Drained(r)'
    BY <2>1, <2>2, <1>d DEF Drained
  <2> QED BY <2>1, <2>3, <1>o, <1>t
<1>9. ASSUME NEW r \in Readers, PeerLeaves(r) \/ PeerReturns(r) PROVE DrainInv'
  BY <1>9, <1>d, <1>0 DEF PeerLeaves, PeerReturns, DrainInv, Drained
<1>10. CASE UNCHANGED queueVars
  BY <1>10, <1>d, <1>0 DEF queueVars, DrainInv, Drained
<1> QED
  BY <1>1, <1>2, <1>3, <1>4, <1>5, <1>6, <1>7, <1>8, <1>9, <1>10
     DEF QueueNext, Arrival, PopStep

(* If a take can return the whole cache, closing the sample reader loses   *)
(* no sample that had arrived when the new stream type was taken, however  *)
(* many profile changes nest and whatever arrives or leaves meanwhile.     *)
THEOREM ReadBeforeRecreate ==
  ASSUME HistoryDepth <= MaxSamplesPerRead
  PROVE  QueueSpec => []DrainedBeforeRecreate
<1>1. DrainInv => DrainedBeforeRecreate
  BY DEF DrainInv, Drained, DrainedBeforeRecreate, TypeInv, CallShape, Shaped
<1> QED BY <1>1, DrainInit, DrainStep, PTL DEF QueueSpec

(***************************************************************************)
(* A reader that shares its topic with no other has the profile in force   *)
(* unless a call of its own popFrom is suspended on the way to createReader*)
(* or an exception ended such a call.                                      *)
(***************************************************************************)
Sole(r) == \A q \in Readers \ {r} : TopicOf[q] # TopicOf[r]

InForce(r) ==
  call[r].depth = 0 /\ ~ cutShort[r] /\ Sole(r) => readerProfile[r] = qosProfile[TopicOf[r]]

ProfileInv == TypeInv /\ \A r \in Readers : InForce(r)

(* Each reader starts with the profile its topic has.                      *)
LEMMA ProfileInit == QueueInit => ProfileInv
<1> SUFFICES ASSUME QueueInit PROVE ProfileInv
  OBVIOUS
<1>1. TypeInv
  BY TypeInit
<1> QED BY <1>1 DEF QueueInit, ProfileInv, InForce

(* A call that returns to depth 0 has recreated the reader it must.        *)
LEMMA ProfileStep == ProfileInv /\ [QueueNext]_queueVars => ProfileInv'
<1> SUFFICES ASSUME ProfileInv, [QueueNext]_queueVars PROVE ProfileInv'
  OBVIOUS
<1>0. TypeInv'
  BY TypeStep DEF ProfileInv
<1> USE DEF cacheVars, historyVars
<1>t. /\ call \in [Readers -> Calls] /\ qosProfile \in [Topics -> Profiles]
      /\ readerProfile \in [Readers -> Profiles] /\ cutShort \in [Readers -> BOOLEAN]
      /\ TopicOf \in [Readers -> Topics]
  BY QueueAssumption DEF ProfileInv, TypeInv, QueueTypeOK, TopicTypeOK
<1>f. \A r \in Readers : InForce(r)
  BY DEF ProfileInv
<1>s. \A r \in Readers : Sole(r)' = Sole(r)
  BY DEF Sole
(* A step of reader r on its topic does not concern the sole reader of     *)
(* another topic.                                                          *)
<1>o. ASSUME NEW r \in Readers, InForce(r)',
             \A q \in Readers \ {r} :
               /\ call'[q] = call[q] /\ cutShort'[q] = cutShort[q]
               /\ readerProfile'[q] = readerProfile[q]
               /\ TopicOf[q] # TopicOf[r] => qosProfile'[TopicOf[q]] = qosProfile[TopicOf[q]]
      PROVE  ProfileInv'
  <2>1. ASSUME NEW q \in Readers \ {r} PROVE InForce(q)'
    BY <2>1, <1>o, <1>f, <1>s DEF InForce, Sole
  <2> QED BY <2>1, <1>o, <1>0 DEF ProfileInv
(* The call stays as deep as it was, or is above another one.              *)
<1>c. ASSUME NEW r \in Readers, NEW c, call' = [call EXCEPT ![r] = c],
             c.depth = 0 => call[r].depth = 0,
             UNCHANGED <<qosProfile, readerProfile, cutShort>>
      PROVE  ProfileInv'
  <2>1. InForce(r)'
    BY <1>c, <1>f, <1>t, <1>s DEF InForce
  <2> QED BY <2>1, <1>c, <1>o, <1>t
<1>r. \A depth \in Nat, got \in BOOLEAN :
        /\ Return(depth, got).depth = 0 => depth = 0
        /\ Enter(depth).depth = depth
  BY DEF Return, Enter, Result
<1>n. \A r \in Readers : call[r].depth \in Nat /\ call[r].got \in BOOLEAN
  BY <1>t DEF Calls
<1>1. ASSUME NEW r \in Readers, Arrival(r) PROVE ProfileInv'
  BY <1>1, <1>0, <1>f, <1>s
     DEF Arrival, SampleArrives, StreamTypeArrives, PeerLeaves, PeerReturns, ProfileInv, InForce
<1>2. ASSUME NEW r \in Readers, BeginPop(r) \/ EndPop(r) PROVE ProfileInv'
  <2>1. call[r].depth = 0
    BY <1>2 DEF BeginPop, EndPop, ProfileInv, TypeInv, CallShape, Shaped
  <2> QED BY <2>1, <1>2, <1>c DEF BeginPop, EndPop
<1>3. ASSUME NEW r \in Readers, PopSample(r) PROVE ProfileInv'
  <2> DEFINE gives == samples[r] # <<>> /\ alive[r]
             c     == [call[r] EXCEPT !.pc = "type", !.got = gives]
  <2>1. call' = [call EXCEPT ![r] = c] /\ UNCHANGED <<qosProfile, readerProfile, cutShort>>
    BY <1>3 DEF PopSample
  <2>2. c.depth = call[r].depth
    BY <1>t DEF Calls
  <2> HIDE DEF c
  <2> QED BY <2>1, <2>2, <1>c
<1>4. ASSUME NEW r \in Readers,
             PopNoStreamType(r) \/ PopDeadStreamType(r) \/ PopStreamType(r)
      PROVE  ProfileInv'
  BY <1>4, <1>c, <1>r, <1>n
     DEF PopNoStreamType, PopDeadStreamType, PopStreamType, DeliverStreamType, TakeStreamTypes
<1>5. ASSUME NEW r \in Readers, PopNewProfile(r) PROVE ProfileInv'
  <2>1. /\ call' = [call EXCEPT ![r] = Enter(call[r].depth + 1)]
        /\ UNCHANGED <<readerProfile, cutShort>>
        /\ \E profile \in Profiles : qosProfile' = [qosProfile EXCEPT ![TopicOf[r]] = profile]
    BY <1>5 DEF PopNewProfile, DeliverStreamType, TakeStreamTypes
  <2>2. Enter(call[r].depth + 1).depth # 0
    BY <1>n DEF Enter
  <2>3. InForce(r)'
    BY <2>1, <2>2, <1>t DEF InForce
  <2> QED BY <2>1, <2>3, <1>o, <1>t
<1>6. ASSUME NEW r \in Readers, PopThrows(r) PROVE ProfileInv'
  <2>1. /\ call' = [call EXCEPT ![r] = Idle]
        /\ cutShort' = [cutShort EXCEPT ![r] = cutShort[r] \/ call[r].depth > 0]
        /\ UNCHANGED <<readerProfile, qosProfile>>
    BY <1>6 DEF PopThrows, DeliverStreamType, TakeStreamTypes
  <2>2. ~ cutShort'[r] => ~ cutShort[r] /\ call[r].depth = 0
    <3>1. cutShort'[r] = (cutShort[r] \/ call[r].depth > 0)
      BY <2>1, <1>t
    <3>2. ~ cutShort'[r] => ~ cutShort[r] /\ ~ (call[r].depth > 0)
      BY <3>1, Zenon
    <3>3. ~ (call[r].depth > 0) => call[r].depth = 0
      BY <1>n
    <3> QED BY <3>2, <3>3
  <2>3. InForce(r)'
    BY <2>1, <2>2, <1>f, <1>s DEF InForce
  <2> QED BY <2>1, <2>3, <1>o, <1>t
<1>7. ASSUME NEW r \in Readers, createReader(r) PROVE ProfileInv'
  <2>1. /\ readerProfile' = [readerProfile EXCEPT ![r] = qosProfile[TopicOf[r]]]
        /\ call' = [call EXCEPT ![r] = Return(call[r].depth - 1, TRUE)]
        /\ UNCHANGED <<qosProfile, cutShort>>
    BY <1>7 DEF createReader
  <2>2. InForce(r)'
    BY <2>1, <1>t DEF InForce
  <2> QED BY <2>1, <2>2, <1>o, <1>t
<1>8. CASE UNCHANGED queueVars
  BY <1>8, <1>0, <1>f, <1>s DEF queueVars, ProfileInv, InForce
<1> QED
  BY <1>1, <1>2, <1>3, <1>4, <1>5, <1>6, <1>7, <1>8 DEF QueueNext, PopStep

(* Between two pops a reader that shares its topic with no other has the   *)
(* profile the topic chose last: only an exception between the choice and  *)
(* createReader leaves the two apart.                                      *)
THEOREM ProfileStaysInForce == QueueSpec => []ProfileInForce
<1>1. ProfileInv => ProfileInForce
  BY DEF ProfileInv, InForce, Sole, ProfileInForce, TypeInv, CallShape, Shaped
<1> QED BY <1>1, ProfileInit, ProfileStep, PTL DEF QueueSpec

(***************************************************************************)
(* Batches.                                                                *)
(***************************************************************************)
HandedOnInv == TypeInv /\ TakenIsHandedOn

(* A cache of one sample gives a batch with no second one.                 *)
LEMMA SingleBatch ==
  ASSUME NEW S, NEW cache \in Seq(S), cache # <<>>, Len(cache) <= 1
  PROVE  Elements(Tail(Taken(cache))) = {}
<1>1. Taken(cache) \in Seq(S) /\ Taken(cache) # <<>> /\ Len(Taken(cache)) \in 0..Len(cache)
  BY TakenFacts, BatchFacts
<1>2. Len(Tail(Taken(cache))) = Len(Taken(cache)) - 1
  BY <1>1, HeadTailProperties
<1>3. Len(Tail(Taken(cache))) <= 0
  BY <1>1, <1>2, LenProperties
<1> QED BY <1>3 DEF Elements

(* With a cache of one sample no step discards the rest of a batch.        *)
LEMMA HandedOnStep ==
  ASSUME HistoryDepth = 1
  PROVE  HandedOnInv /\ [QueueNext]_queueVars => HandedOnInv'
<1> SUFFICES ASSUME HandedOnInv, [QueueNext]_queueVars PROVE HandedOnInv'
  OBVIOUS
<1>0. TypeInv'
  BY TypeStep DEF HandedOnInv
<1> USE DEF cacheVars, historyVars
<1>t. /\ discarded \in [Readers -> SUBSET [n : Nat, by : Causes]]
      /\ samples \in [Readers -> Seq(Nat)]
      /\ \A r \in Readers : Len(samples[r]) <= 1
  BY DEF HandedOnInv, TypeInv, QueueTypeOK
<1>1. ASSUME UNCHANGED discarded PROVE HandedOnInv'
  BY <1>0, <1>1 DEF HandedOnInv, TakenIsHandedOn
<1>2. ASSUME NEW r \in Readers, NEW numbers, NEW cause, cause # "batch" \/ numbers = {},
             discarded' = [discarded EXCEPT ![r] = discarded[r] \cup Discards(numbers, cause)]
      PROVE  HandedOnInv'
  <2>1. \A d \in Discards(numbers, cause) : d.by # "batch"
    BY <1>2 DEF Discards
  <2> QED BY <2>1, <1>2, <1>0, <1>t DEF HandedOnInv, TakenIsHandedOn
<1>3. ASSUME NEW r \in Readers, PopSample(r) PROVE HandedOnInv'
  <2> DEFINE gives == samples[r] # <<>> /\ alive[r]
             batch == Taken(samples[r])
             rest  == IF gives THEN Elements(Tail(batch)) ELSE Elements(batch)
             cause == IF gives THEN "batch" ELSE "not alive"
  <2>1. discarded' = [discarded EXCEPT ![r] = discarded[r] \cup Discards(rest, cause)]
    BY <1>3 DEF PopSample
  <2>2. cause # "batch" \/ rest = {}
    BY <1>t, SingleBatch
  <2> HIDE DEF rest, cause
  <2> QED BY <2>1, <2>2, <1>2
<1>4. ASSUME NEW r \in Readers, createReader(r) PROVE HandedOnInv'
  BY <1>4, <1>2 DEF createReader
<1>5. ASSUME NEW r \in Readers,
             \/ Arrival(r) \/ BeginPop(r) \/ PopNoStreamType(r) \/ PopDeadStreamType(r)
             \/ PopStreamType(r) \/ PopNewProfile(r) \/ PopThrows(r) \/ EndPop(r)
      PROVE  HandedOnInv'
  BY <1>5, <1>1
     DEF Arrival, SampleArrives, StreamTypeArrives, PeerLeaves, PeerReturns, BeginPop,
         PopNoStreamType, PopDeadStreamType, PopStreamType, PopNewProfile, PopThrows,
         DeliverStreamType, TakeStreamTypes, EndPop
<1>6. CASE UNCHANGED queueVars
  BY <1>6, <1>1 DEF queueVars
<1> QED BY <1>3, <1>4, <1>5, <1>6 DEF QueueNext, PopStep

(* With the history depth of the shipped profiles popFrom, which hands on  *)
(* the first sample of the batch it takes, drops none of a living peer.    *)
THEOREM ShippedDepthDropsNoBatch ==
  ASSUME HistoryDepth = 1
  PROVE  QueueSpec => []TakenIsHandedOn
<1>1. QueueInit => HandedOnInv
  BY TypeInit DEF QueueInit, HandedOnInv, TakenIsHandedOn
<1>2. HandedOnInv => TakenIsHandedOn
  BY DEF HandedOnInv
<1> QED BY <1>1, <1>2, HandedOnStep, PTL DEF QueueSpec

(***************************************************************************)
(* Peers whose stream types all ask for the profile the topic was created  *)
(* with, and peers whose stream types all parse.                           *)
(***************************************************************************)

(* No stream type a peer publishes asks for a profile other than the one   *)
(* the topic was created with; a type that does not parse asks for none.   *)
(* Writers of this plugin publish no stream type at all.                   *)
OneProfile ==
  \A r \in Readers : \A t \in PeerTypes[r] :
    \/ SameAsInitial(TopicOf[r], t)
    \/ SizeThrows(t)
    \/ \A p \in findQosProfile(t), q \in findQosProfile(InitialType[TopicOf[r]]) : p = q

(* No stream type a peer publishes makes std::stoi throw.                  *)
ReadableTypes ==
  \A r \in Readers : \A t \in PeerTypes[r] : ~ updateThrows(TopicOf[r], t)

(* The caches hold stream types that peers published.                      *)
PeerItem(r) == [n : Nat, type : PeerTypes[r]]
Published   == \A r \in Readers : types[r] \in Seq(PeerItem(r))

PublishedInv == TypeInv /\ Published

(* The queue starts with empty caches.                                     *)
LEMMA PublishedInit == QueueInit => PublishedInv
  BY TypeInit, EmptySeq DEF QueueInit, PublishedInv, Published

(* Stream types enter the cache from peers only.                           *)
LEMMA PublishedStep == PublishedInv /\ [QueueNext]_queueVars => PublishedInv'
<1> SUFFICES ASSUME PublishedInv, [QueueNext]_queueVars PROVE PublishedInv'
  OBVIOUS
<1>0. TypeInv'
  BY TypeStep DEF PublishedInv
<1>t. /\ \A r \in Readers : types[r] \in Seq(PeerItem(r)) /\ Len(types[r]) <= HistoryDepth
      /\ types \in [Readers -> Seq(Item)]
      /\ arrived \in [Readers -> Nat]
  BY DEF PublishedInv, Published, TypeInv, QueueTypeOK
<1>q. SUFFICES \A r \in Readers : types'[r] \in Seq(PeerItem(r))
  BY <1>0 DEF PublishedInv, Published
<1>1. ASSUME NEW r \in Readers, NEW t \in PeerTypes[r], StreamTypeArrives(r, t)
      PROVE  \A q \in Readers : types'[q] \in Seq(PeerItem(q))
  <2> DEFINE e == [n |-> arrived[r] + 1, type |-> t]
  <2>1. e \in PeerItem(r)
    BY <1>t DEF PeerItem
  <2>2. KeepLast(types[r], e) \in Seq(PeerItem(r))
    BY <2>1, <1>t, KeepLastFacts
  <2>3. types' = [types EXCEPT ![r] = KeepLast(types[r], e)]
    BY <1>1 DEF StreamTypeArrives
  <2> QED BY <2>2, <2>3, <1>t
<1>2. ASSUME NEW r \in Readers, TakeStreamTypes(r)
      PROVE  \A q \in Readers : types'[q] \in Seq(PeerItem(q))
  <2>1. Left(types[r]) \in Seq(PeerItem(r))
    BY <1>t, LeftFacts
  <2> QED BY <1>2, <2>1, <1>t DEF TakeStreamTypes
<1>3. ASSUME UNCHANGED types PROVE \A q \in Readers : types'[q] \in Seq(PeerItem(q))
  BY <1>3, <1>t
<1>4. ASSUME NEW r \in Readers,
             \/ SampleArrives(r) \/ PeerLeaves(r) \/ PeerReturns(r) \/ BeginPop(r)
             \/ PopSample(r) \/ PopNoStreamType(r) \/ createReader(r) \/ EndPop(r)
      PROVE  UNCHANGED types
  BY <1>4 DEF SampleArrives, PeerLeaves, PeerReturns, BeginPop, PopSample, PopNoStreamType,
              createReader, EndPop, cacheVars
<1>5. ASSUME NEW r \in Readers,
             \/ PopDeadStreamType(r) \/ PopStreamType(r) \/ PopNewProfile(r) \/ PopThrows(r)
      PROVE  TakeStreamTypes(r)
  BY <1>5 DEF PopDeadStreamType, PopStreamType, PopNewProfile, PopThrows, DeliverStreamType
<1>6. UNCHANGED queueVars => UNCHANGED types
  BY DEF queueVars, cacheVars
<1> QED BY <1>1, <1>2, <1>3, <1>4, <1>5, <1>6 DEF QueueNext, Arrival, PopStep

(* The stream type that a call hands on was published by a peer.           *)
LEMMA HeadPublished ==
  ASSUME PublishedInv, NEW r \in Readers, DeliverStreamType(r)
  PROVE  Head(types[r]).type \in PeerTypes[r]
<1>1. types[r] \in Seq(PeerItem(r)) /\ types[r] # <<>>
  BY DEF PublishedInv, Published, DeliverStreamType, TakeStreamTypes
<1>2. Head(types[r]) \in PeerItem(r)
  BY <1>1, HeadTailProperties
<1> QED BY <1>2 DEF PeerItem

(* Where the peers' types parse, no call of popFrom ends by an exception.  *)
LEMMA NoPopThrows ==
  ASSUME ReadableTypes, PublishedInv, NEW r \in Readers
  PROVE  ~ PopThrows(r)
  BY HeadPublished DEF PopThrows, ReadableTypes

(* Every topic has the profile it was created with, no call is suspended   *)
(* in the loop that ends with createReader.                                *)
SteadyInv ==
  /\ PublishedInv
  /\ \A r \in Readers : /\ call[r].depth = 0
                        /\ call[r].pc # "create"
                        /\ qosProfile[TopicOf[r]] \in findQosProfile(InitialType[TopicOf[r]])

(* No call is open at the start, and the topics choose by their types.     *)
LEMMA SteadyInit == QueueInit => SteadyInv
  BY PublishedInit, QueueAssumption DEF QueueInit, TopicInit, SteadyInv, Idle

(* While the peers' types ask for one profile, updateStreamType never      *)
(* answers that the reader must be recreated.                              *)
LEMMA NoNewProfile ==
  ASSUME OneProfile, SteadyInv, NEW r \in Readers
  PROVE  ~ PopNewProfile(r)
<1> SUFFICES ASSUME PopNewProfile(r) PROVE FALSE
  OBVIOUS
<1>1. PICK profile \in Profiles : updateTakes(TopicOf[r], Head(types[r]).type, profile)
  BY DEF PopNewProfile
<1>2. Head(types[r]).type \in PeerTypes[r]
  BY HeadPublished DEF SteadyInv, PopNewProfile
<1>3. qosProfile[TopicOf[r]] \in findQosProfile(InitialType[TopicOf[r]])
  BY DEF SteadyInv
<1> QED BY <1>1, <1>2, <1>3 DEF OneProfile, updateTakes

(* No step changes a profile or suspends a call.                           *)
LEMMA SteadyStep ==
  ASSUME OneProfile
  PROVE  SteadyInv /\ [QueueNext]_queueVars => SteadyInv'
<1> SUFFICES ASSUME SteadyInv, [QueueNext]_queueVars PROVE SteadyInv'
  OBVIOUS
<1>0. PublishedInv'
  BY PublishedStep DEF SteadyInv
<1>t. /\ call \in [Readers -> Calls]
      /\ \A r \in Readers : /\ call[r].depth = 0
                            /\ call[r].pc # "create"
                            /\ qosProfile[TopicOf[r]] \in findQosProfile(InitialType[TopicOf[r]])
  BY DEF SteadyInv, PublishedInv, TypeInv, QueueTypeOK
<1>c. ASSUME NEW r \in Readers, NEW c, call' = [call EXCEPT ![r] = c],
             c.depth = 0, c.pc # "create", UNCHANGED qosProfile
      PROVE  SteadyInv'
  BY <1>c, <1>0, <1>t DEF SteadyInv
<1>r. \A got : /\ Return(0, got).depth = 0 /\ Return(0, got).pc # "create"
              /\ Enter(0).depth = 0 /\ Enter(0).pc # "create"
              /\ Idle.depth = 0 /\ Idle.pc # "create"
  BY DEF Return, Result, Enter, Idle
<1>1. ASSUME NEW r \in Readers, Arrival(r) PROVE SteadyInv'
  BY <1>1, <1>0, <1>t
     DEF Arrival, SampleArrives, StreamTypeArrives, PeerLeaves, PeerReturns, SteadyInv
<1>2. ASSUME NEW r \in Readers, BeginPop(r) \/ EndPop(r) \/ PopThrows(r) PROVE SteadyInv'
  BY <1>2, <1>c, <1>r DEF BeginPop, EndPop, PopThrows
<1>3. ASSUME NEW r \in Readers, PopSample(r) PROVE SteadyInv'
  <2> DEFINE gives == samples[r] # <<>> /\ alive[r]
             c     == [call[r] EXCEPT !.pc = "type", !.got = gives]
  <2>1. call' = [call EXCEPT ![r] = c] /\ UNCHANGED qosProfile
    BY <1>3 DEF PopSample
  <2>2. c.depth = 0 /\ c.pc # "create"
    BY <1>t DEF Calls
  <2> HIDE DEF c
  <2> QED BY <2>1, <2>2, <1>c
<1>4. ASSUME NEW r \in Readers,
             PopNoStreamType(r) \/ PopDeadStreamType(r) \/ PopStreamType(r)
      PROVE  SteadyInv'
  <2>1. UNCHANGED qosProfile
    BY <1>4 DEF PopNoStreamType, PopDeadStreamType, PopStreamType
  <2>2. \E got : call' = [call EXCEPT ![r] = Return(0, got)]
    BY <1>4, <1>t DEF PopNoStreamType, PopDeadStreamType, PopStreamType
  <2> QED BY <2>1, <2>2, <1>c, <1>r
<1>5. ASSUME NEW r \in Readers, PopNewProfile(r) PROVE SteadyInv'
  BY <1>5, NoNewProfile
<1>6. ASSUME NEW r \in Readers, createReader(r) PROVE SteadyInv'
  BY <1>6, <1>t DEF createReader
<1>7. CASE UNCHANGED queueVars
  BY <1>7, <1>0, <1>t DEF queueVars, SteadyInv
<1> QED
  BY <1>1, <1>2, <1>3, <1>4, <1>5, <1>6, <1>7 DEF QueueNext, PopStep
=============================================================================
