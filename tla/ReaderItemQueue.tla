--------------------------- MODULE ReaderItemQueue ---------------------------
(***************************************************************************)
(* The receiving end of a topic (class ReaderItemQueue): one DDS reader    *)
(* for samples, one for stream types, and popFrom, which moves at most one *)
(* sample and one stream type from them to the data receiver and replaces  *)
(* the sample reader when the stream type asks for another QoS profile.    *)
(*                                                                         *)
(* popFrom calls itself: having handed on a stream type that changes the   *)
(* profile it first pops until nothing is left, then recreates the reader. *)
(* The steps of a call are separate actions, because the DDS threads fill  *)
(* the readers' caches between them.  One thread pops from a given reader. *)
(*                                                                         *)
(* The items a reader gets from its peer are numbered 1, 2, ... in the     *)
(* order of their arrival, samples and stream types together; a sample is  *)
(* its number.  The number survives the recreation of the DDS reader.      *)
(***************************************************************************)
EXTENDS StreamItemTopic, Sequences

CONSTANTS
  Readers,            \* the data readers of the participant
  TopicOf,            \* the topic each of them reads
  HistoryDepth,       \* KEEP_LAST depth of the DDS readers (1 as shipped)
  MaxSamplesPerRead,  \* most samples one take_next_instance returns
  PeerTypes,          \* the stream types the peers of each reader publish
  MaxArrivals         \* bound: items that ever arrive at a reader

ASSUME QueueAssumption ==
  /\ TopicOf \in [Readers -> Topics]
  /\ HistoryDepth \in Nat \ {0}
  /\ MaxSamplesPerRead \in Nat \ {0}
  /\ PeerTypes \in [Readers -> SUBSET StreamTypes]
  /\ MaxArrivals \in Nat

VARIABLES
  arrived,        \* number of items that arrived at the reader so far
  samples,        \* cache of the sample reader, oldest first
  types,          \* cache of the stream type reader, oldest first
  alive,          \* the instance has a live writer (ALIVE_INSTANCE_STATE)
  newView,        \* the stream type instance was never read (NEW_VIEW_STATE)
  readerProfile,  \* the profile the current sample reader was created with
  call,           \* the call of popFrom in progress
  received,       \* history: the samples handed to the data receiver
  receivedTypes,  \* history: the stream types handed to it, by number
  discarded,      \* history: what the plugin took from DDS or closed away
  mark,           \* history: arrivals when a type last changed the profile
  cutShort        \* history: an exception came between change and recreation

cacheVars   == <<samples, types, alive, newView>>
historyVars == <<received, receivedTypes, discarded, mark, cutShort>>
queueVars   == <<qosProfile, arrived, cacheVars, readerProfile, call, historyVars>>

Item == [n : Nat, type : StreamTypes]

(* pc: where the innermost call of popFrom is.  depth: how many calls are  *)
(* suspended in the loop "first read all samples" below it.  got: its      *)
(* read_something; a suspended call has read a type, so its own is TRUE.   *)
Calls == [pc : {"idle", "sample", "type", "create", "done"},
          depth : Nat, got : BOOLEAN]

Idle         == [pc |-> "idle", depth |-> 0, got |-> FALSE]
Enter(depth) == [pc |-> "sample", depth |-> depth, got |-> FALSE]
Result(got)  == [pc |-> "done", depth |-> 0, got |-> got]

(* Mutant of Return: the call below returns without createReader.          *)
ReturnSkipsCreate(depth, got) ==
  IF depth = 0 \/ ~ got THEN Result(got) ELSE Enter(depth)

(* The innermost call returns got: to the caller of popFrom, or to the     *)
(* loop of the call below it, which calls again or goes on to createReader.*)
Return(depth, got) ==
  IF depth = 0 THEN Result(got)
  ELSE IF got THEN Enter(depth)
  ELSE [pc |-> "create", depth |-> depth, got |-> FALSE]

-----------------------------------------------------------------------------
(* Mutant of KeepLast: the readers keep all, as the topic's profile says.  *)
KeepAll(cache, e) == Append(cache, e)

(* KEEP_LAST: a full cache loses its oldest element to the new one.        *)
KeepLast(cache, e) ==
  IF Len(cache) < HistoryDepth THEN Append(cache, e) ELSE Append(Tail(cache), e)

(* take_next_instance removes a batch from the front of the cache.         *)
BatchSize(cache) ==
  IF Len(cache) < MaxSamplesPerRead THEN Len(cache) ELSE MaxSamplesPerRead

Taken(cache) == SubSeq(cache, 1, BatchSize(cache))

(* Mutant of Left: read_next_instance, which leaves the batch in the cache.*)
LeftByRead(cache) == cache

Left(cache) == SubSeq(cache, BatchSize(cache) + 1, Len(cache))

Elements(cache) == { cache[i] : i \in 1..Len(cache) }

Discards(numbers, cause) == { [n |-> n, by |-> cause] : n \in numbers }

QueueInit ==
  /\ TopicInit
  /\ arrived = [r \in Readers |-> 0]
  /\ samples = [r \in Readers |-> <<>>]
  /\ types = [r \in Readers |-> <<>>]
  /\ alive = [r \in Readers |-> TRUE]
  /\ newView = [r \in Readers |-> TRUE]
  /\ readerProfile = [r \in Readers |-> qosProfile[TopicOf[r]]]
  /\ call = [r \in Readers |-> Idle]
  /\ received = [r \in Readers |-> <<>>]
  /\ receivedTypes = [r \in Readers |-> <<>>]
  /\ discarded = [r \in Readers |-> {}]
  /\ mark = [r \in Readers |-> 0]
  /\ cutShort = [r \in Readers |-> FALSE]
-----------------------------------------------------------------------------
(* What the DDS threads do to the readers' caches.                         *)

SampleArrives(r) ==
  /\ alive[r]
  /\ arrived[r] < MaxArrivals
  /\ arrived' = [arrived EXCEPT ![r] = @ + 1]
  /\ samples' = [samples EXCEPT ![r] = KeepLast(@, arrived[r] + 1)]
  /\ UNCHANGED <<qosProfile, types, alive, newView, readerProfile, call, historyVars>>

StreamTypeArrives(r, t) ==
  /\ alive[r]
  /\ arrived[r] < MaxArrivals
  /\ arrived' = [arrived EXCEPT ![r] = @ + 1]
  /\ types' = [types EXCEPT ![r] = KeepLast(@, [n |-> arrived[r] + 1, type |-> t])]
  /\ UNCHANGED <<qosProfile, samples, alive, newView, readerProfile, call, historyVars>>

(* The last writer leaves: what it left in the caches is no longer ALIVE.  *)
PeerLeaves(r) ==
  /\ alive[r]
  /\ alive' = [alive EXCEPT ![r] = FALSE]
  /\ UNCHANGED <<qosProfile, arrived, samples, types, newView, readerProfile,
                 call, historyVars>>

(* A writer appears: the instance is reborn, and its view is new.          *)
PeerReturns(r) ==
  /\ ~ alive[r]
  /\ alive' = [alive EXCEPT ![r] = TRUE]
  /\ newView' = [newView EXCEPT ![r] = TRUE]
  /\ UNCHANGED <<qosProfile, arrived, samples, types, readerProfile, call, historyVars>>
-----------------------------------------------------------------------------
(* What the thread that pops does.                                         *)

BeginPop(r) ==
  /\ call[r].pc = "idle"
  /\ call' = [call EXCEPT ![r] = Enter(0)]
  /\ UNCHANGED <<qosProfile, arrived, cacheVars, readerProfile, historyVars>>

(* Takes a batch of samples and hands on the first, if it is ALIVE.        *)
PopSample(r) ==
  /\ call[r].pc = "sample"
  /\ LET gives == samples[r] # <<>> /\ alive[r]
         batch == Taken(samples[r])
         rest  == IF gives THEN Elements(Tail(batch)) ELSE Elements(batch)
     IN  /\ samples' = [samples EXCEPT ![r] = Left(@)]
         /\ received' = [received EXCEPT ![r] = IF gives THEN Append(@, Head(batch)) ELSE @]
         /\ discarded' =
              [discarded EXCEPT ![r] =
                 @ \cup Discards(rest, IF gives THEN "batch" ELSE "not alive")]
         /\ call' = [call EXCEPT ![r].pc = "type", ![r].got = gives]
  /\ UNCHANGED <<qosProfile, arrived, types, alive, newView, readerProfile,
                 receivedTypes, mark, cutShort>>

(* Nothing to hand on: no stream type in the cache.                        *)
PopNoStreamType(r) ==
  /\ call[r].pc = "type"
  /\ types[r] = <<>>
  /\ call' = [call EXCEPT ![r] = Return(call[r].depth, call[r].got)]
  /\ UNCHANGED <<qosProfile, arrived, cacheVars, readerProfile, historyVars>>

TakeStreamTypes(r) ==
  /\ call[r].pc = "type"
  /\ types[r] # <<>>
  /\ types' = [types EXCEPT ![r] = Left(@)]
  /\ newView' = [newView EXCEPT ![r] = FALSE]
  /\ UNCHANGED <<arrived, samples, alive, readerProfile, received, discarded>>

(* The types taken are not ALIVE and are dropped.                          *)
PopDeadStreamType(r) ==
  /\ TakeStreamTypes(r)
  /\ ~ alive[r]
  /\ call' = [call EXCEPT ![r] = Return(call[r].depth, call[r].got)]
  /\ UNCHANGED <<qosProfile, receivedTypes, mark, cutShort>>

DeliverStreamType(r) ==
  /\ TakeStreamTypes(r)
  /\ alive[r]
  /\ receivedTypes' = [receivedTypes EXCEPT ![r] = Append(@, Head(types[r]).n)]

PopStreamType(r) ==
  /\ DeliverStreamType(r)
  /\ updateIgnores(TopicOf[r], Head(types[r]).type)
  /\ call' = [call EXCEPT ![r] = Return(call[r].depth, TRUE)]
  /\ UNCHANGED <<qosProfile, mark, cutShort>>

(* Mutant of PopNewProfile: it does not read the samples first.            *)
PopNewProfileAtOnce(r) ==
  /\ DeliverStreamType(r)
  /\ \E profile \in Profiles :
       /\ updateTakes(TopicOf[r], Head(types[r]).type, profile)
       /\ qosProfile' = [qosProfile EXCEPT ![TopicOf[r]] = profile]
  /\ call' = [call EXCEPT ![r] = Return(call[r].depth + 1, FALSE)]
  /\ mark' = [mark EXCEPT ![r] = arrived[r]]
  /\ UNCHANGED cutShort

(* The type changes the profile: first read all samples, one call deeper.  *)
PopNewProfile(r) ==
  /\ DeliverStreamType(r)
  /\ \E profile \in Profiles :
       /\ updateTakes(TopicOf[r], Head(types[r]).type, profile)
       /\ qosProfile' = [qosProfile EXCEPT ![TopicOf[r]] = profile]
  /\ call' = [call EXCEPT ![r] = Enter(call[r].depth + 1)]
  /\ mark' = [mark EXCEPT ![r] = arrived[r]]
  /\ UNCHANGED cutShort

(* std::stoi throws, and no pop catches it: all calls of popFrom end.      *)
PopThrows(r) ==
  /\ DeliverStreamType(r)
  /\ updateThrows(TopicOf[r], Head(types[r]).type)
  /\ call' = [call EXCEPT ![r] = Idle]
  /\ cutShort' = [cutShort EXCEPT ![r] = @ \/ call[r].depth > 0]
  /\ UNCHANGED <<qosProfile, mark>>

(* Closes the sample reader, with whatever it caches, and creates another  *)
(* from the topic's profile; the call that asked for it returns TRUE.      *)
createReader(r) ==
  /\ call[r].pc = "create"
  /\ samples' = [samples EXCEPT ![r] = <<>>]
  /\ discarded' = [discarded EXCEPT ![r] = @ \cup Discards(Elements(samples[r]), "recreate")]
  /\ readerProfile' = [readerProfile EXCEPT ![r] = qosProfile[TopicOf[r]]]
  /\ call' = [call EXCEPT ![r] = Return(call[r].depth - 1, TRUE)]
  /\ UNCHANGED <<qosProfile, arrived, types, alive, newView, received, receivedTypes,
                 mark, cutShort>>

(* The caller takes the result.                                            *)
EndPop(r) ==
  /\ call[r].pc = "done"
  /\ call' = [call EXCEPT ![r] = Idle]
  /\ UNCHANGED <<qosProfile, arrived, cacheVars, readerProfile, historyVars>>
-----------------------------------------------------------------------------
Arrival(r) ==
  \/ SampleArrives(r)
  \/ \E t \in PeerTypes[r] : StreamTypeArrives(r, t)
  \/ PeerLeaves(r)
  \/ PeerReturns(r)

(* One step of popFrom, the recreation of the sample reader apart.         *)
PopStep(r) ==
  \/ PopSample(r)
  \/ PopNoStreamType(r)
  \/ PopDeadStreamType(r)
  \/ PopStreamType(r)
  \/ PopNewProfile(r)

QueueNext ==
  \E r \in Readers :
    \/ Arrival(r)
    \/ BeginPop(r)
    \/ PopStep(r)
    \/ PopThrows(r)
    \/ createReader(r)
    \/ EndPop(r)

QueueSpec == QueueInit /\ [][QueueNext]_queueVars
-----------------------------------------------------------------------------
Causes == {"batch", "not alive", "recreate"}

(* The values of the variables; no cache outgrows the history depth.       *)
QueueTypeOK ==
  /\ TopicTypeOK
  /\ arrived \in [Readers -> Nat]
  /\ samples \in [Readers -> Seq(Nat)]
  /\ types \in [Readers -> Seq(Item)]
  /\ \A r \in Readers : Len(samples[r]) <= HistoryDepth /\ Len(types[r]) <= HistoryDepth
  /\ alive \in [Readers -> BOOLEAN]
  /\ newView \in [Readers -> BOOLEAN]
  /\ readerProfile \in [Readers -> Profiles]
  /\ call \in [Readers -> Calls]
  /\ received \in [Readers -> Seq(Nat)]
  /\ receivedTypes \in [Readers -> Seq(Nat)]
  /\ discarded \in [Readers -> SUBSET [n : Nat, by : Causes]]
  /\ mark \in [Readers -> Nat]
  /\ cutShort \in [Readers -> BOOLEAN]

(* Whatever happens between two steps of popFrom, across overwritten       *)
(* caches, peers that leave and recreated DDS readers, each reader's data  *)
(* receiver sees a subsequence of what its peer sent: no sample twice,     *)
(* none after a newer one.  The same holds of the stream types.            *)
SampleChannel == INSTANCE LossyFifo WITH sent <- arrived, received <- received
TypeChannel   == INSTANCE LossyFifo WITH sent <- arrived, received <- receivedTypes

SamplesAreLossyFifo == SampleChannel!Spec
TypesAreLossyFifo   == TypeChannel!Spec

(* "First read all samples ... now recreate reader" (popFrom): closing the *)
(* sample reader loses no sample that had arrived when the stream type     *)
(* that asks for the new profile was taken.  It needs a take that empties  *)
(* the cache, HistoryDepth <= MaxSamplesPerRead, as peers may leave.       *)
DrainedBeforeRecreate ==
  \A r \in Readers :
    call[r].pc = "create" => \A n \in Elements(samples[r]) : n > mark[r]

(* Between two pops the sample reader of a topic that no other reader      *)
(* shares has the profile the topic chose last, unless an exception cut    *)
(* the recreation short: popFrom never leaves the two apart.               *)
ProfileInForce ==
  \A r \in Readers :
    /\ call[r].pc \in {"idle", "done"}
    /\ ~ cutShort[r]
    /\ \A q \in Readers \ {r} : TopicOf[q] # TopicOf[r]
    => readerProfile[r] = qosProfile[TopicOf[r]]

(* Samples and stream types reach the data receiver in the order in which  *)
(* they arrived, as the test ChangeStreamType expects of them: nothing is  *)
(* handed on after an item of the other kind that is newer.                *)
Newest(numbers, n) == \A i \in 1..Len(numbers) : numbers[i] < n

HandsOnInOrder(r) ==
  /\ Len(received'[r]) > Len(received[r]) =>
       Newest(receivedTypes[r], received'[r][Len(received'[r])])
  /\ Len(receivedTypes'[r]) > Len(receivedTypes[r]) =>
       Newest(received[r], receivedTypes'[r][Len(receivedTypes'[r])])

InArrivalOrder == [][\A r \in Readers : HandsOnInOrder(r)]_queueVars

(* popFrom hands on one sample of each batch it takes.  Only because the   *)
(* readers keep one sample (the shipped profiles set no reader history) it *)
(* takes none from DDS that it does not hand on while the peer lives.      *)
TakenIsHandedOn ==
  \A r \in Readers : \A d \in discarded[r] : d.by # "batch"
=============================================================================
