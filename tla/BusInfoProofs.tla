---------------------------- MODULE BusInfoProofs ----------------------------
(* Theorems about BusInfo and its InternalTopic, for any number of threads *)
(* that pop, any limit of the queue and any participants.                  *)
EXTENDS BusInfo, SequenceTheorems, TLAPS

(***************************************************************************)
(* The invariants.                                                         *)
(***************************************************************************)

(* The queue holds the last entries written, without a gap.                *)
QueueInv ==
  /\ Len(queue) <= written
  /\ \A i \in 1..Len(queue) : queue[i] = written - Len(queue) + i

(* A thread holds the mutex from front to the return of the receiver.      *)
HolderInv == \A p \in Poppers : mutex = p <=> popper[p].pc \in {"taken", "inside"}

(* What was delivered has left the queue, and what is taken comes next.    *)
OrderInv ==
  /\ \A i \in 1..Len(delivered) : delivered[i] \in 1..(written - Len(queue))
  /\ \A p \in Poppers :
       popper[p].pc = "taken" =>
         /\ popper[p].item \in 1..(written - Len(queue))
         /\ \A i \in 1..Len(delivered) : delivered[i] < popper[p].item

(* A thread that found an entry and finds none any more, or that another   *)
(* holds up, has been overtaken.                                           *)
RaceInv ==
  /\ crashed => raced
  /\ \A p \in Poppers :
       popper[p].pc = "checked" /\ (queue = <<>> \/ mutex # NoThread) => raced

TopicInv == TopicTypeOK /\ QueueInv /\ HolderInv /\ OrderInv

(* i is the last place where data speak of the participant n.              *)
IsLatest(data, n, i) ==
  /\ i \in 1..Len(data)
  /\ data[i].name = n
  /\ \A j \in (i + 1)..Len(data) : data[j].name # n

NamesIn(data) == { data[i].name : i \in 1..Len(data) }

HasLatest(data) == \A n \in NamesIn(data) : \E i \in 1..Len(data) : IsLatest(data, n, i)

(* The map is what the accepted data say, and each of them is reported or  *)
(* about to be.                                                            *)
MapInv ==
  /\ HasLatest(accepted)
  /\ infos = Description(accepted)
  /\ Len(accepted) = IF handler = "callback" THEN Len(reports) + 1 ELSE Len(reports)
  /\ ReportsAreCumulative

(***************************************************************************)
(* The operators.                                                          *)
(***************************************************************************)

(* A push keeps the newest entries, at most Limit of them, and adds one.   *)
LEMMA PushFacts ==
  ASSUME NEW q \in Seq(Nat), NEW n \in Nat
  PROVE  /\ KeepNewest(q) \in Seq(Nat)
         /\ Len(KeepNewest(q)) = IF Len(q) <= Limit THEN Len(q) ELSE Limit
         /\ \A i \in 1..Len(KeepNewest(q)) :
              KeepNewest(q)[i] = q[Len(q) - Len(KeepNewest(q)) + i]
         /\ Append(KeepNewest(q), n) \in Seq(Nat)
         /\ Append(KeepNewest(q), n) # <<>>
         /\ Len(Append(KeepNewest(q), n)) = Len(KeepNewest(q)) + 1
         /\ \A i \in 1..Len(KeepNewest(q)) :
              Append(KeepNewest(q), n)[i] = KeepNewest(q)[i]
         /\ Append(KeepNewest(q), n)[Len(KeepNewest(q)) + 1] = n
<1>l. Len(q) \in Nat /\ Limit \in Nat /\ Limit > 0
  BY LenProperties, InternalTopicAssumption
<1>1. /\ KeepNewest(q) \in Seq(Nat)
      /\ Len(KeepNewest(q)) = IF Len(q) <= Limit THEN Len(q) ELSE Limit
      /\ \A i \in 1..Len(KeepNewest(q)) :
           KeepNewest(q)[i] = q[Len(q) - Len(KeepNewest(q)) + i]
  <2>1. CASE Len(q) <= Limit
    BY <1>l, <2>1 DEF KeepNewest
  <2>2. CASE ~ (Len(q) <= Limit)
    <3> DEFINE m == Len(q) - Limit + 1
    <3>1. m \in Int /\ Len(q) \in Int /\ m >= 1 /\ Len(q) - m + 1 = Limit /\ m <= Len(q)
      BY <1>l, <2>2
    <3>2. \A i \in m..Len(q) : q[i] \in Nat
      BY <3>1, ElementOfSeq
    <3>3. KeepNewest(q) = SubSeq(q, m, Len(q))
      BY <2>2 DEF KeepNewest
    <3> HIDE DEF m
    <3>4. /\ SubSeq(q, m, Len(q)) \in Seq(Nat)
          /\ Len(SubSeq(q, m, Len(q))) = IF m <= Len(q) THEN Len(q) - m + 1 ELSE 0
          /\ \A i \in 1..(Len(q) - m + 1) : SubSeq(q, m, Len(q))[i] = q[m + i - 1]
      BY <3>1, <3>2, SubSeqProperties
    <3>5. Len(q) - Limit = m - 1
      BY <3>1, <1>l
    <3> QED BY <3>1, <3>3, <3>4, <3>5, <1>l, <2>2
  <2> QED BY <2>1, <2>2
<1>2. KeepNewest(q) \in Seq(Nat)
  BY <1>1
<1> DEFINE k == KeepNewest(q)
<1> HIDE DEF k
<1>3. /\ Append(k, n) \in Seq(Nat)
      /\ Append(k, n) # <<>>
      /\ Len(Append(k, n)) = Len(k) + 1
      /\ \A i \in 1..Len(k) : Append(k, n)[i] = k[i]
      /\ Append(k, n)[Len(k) + 1] = n
  BY <1>2, AppendProperties DEF k
<1> QED BY <1>1, <1>3 DEF k

(* The front goes, and the rest moves up.                                  *)
LEMMA FrontFacts ==
  ASSUME NEW q \in Seq(Nat), q # <<>>
  PROVE  /\ Len(q) \in Nat /\ Len(q) > 0
         /\ Head(q) = q[1] /\ Head(q) \in Nat
         /\ Tail(q) \in Seq(Nat)
         /\ Len(Tail(q)) = Len(q) - 1
         /\ \A i \in 1..Len(Tail(q)) : Tail(q)[i] = q[i + 1]
BY HeadTailProperties, EmptySeq

(* What the bus info does to the topic.                                    *)
LEMMA TopicSteps ==
  ASSUME [Next]_vars
  PROVE  \/ write
         \/ \E p \in Poppers : PopStep(p)
         \/ UNCHANGED topicVars
BY DEF Next, vars, Listen, NewsArrives, SkipNews, ParseThrows, onUserDataReceived, Report

(***************************************************************************)
(* The topic.                                                              *)
(***************************************************************************)

LEMMA TopicInitially == TopicInit => TopicInv /\ RaceInv /\ NewestAreKept
<1> SUFFICES ASSUME TopicInit PROVE TopicInv /\ RaceInv /\ NewestAreKept
  OBVIOUS
<1> USE InternalTopicAssumption DEF TopicInit
<1>1. <<>> \in Seq(Nat) /\ Len(<<>>) = 0
  BY EmptySeq
<1>2. Idle \in [pc : {"idle", "checked", "taken", "inside"}, item : Nat] /\ Idle.pc = "idle"
  BY DEF Idle, At
<1>3. TopicTypeOK
  <2>1. queue \in Seq(Nat) /\ Len(queue) <= Limit + 1 /\ delivered \in Seq(Nat)
    BY <1>1
  <2>2. popper \in [Poppers -> [pc : {"idle", "checked", "taken", "inside"}, item : Nat]]
    BY <1>2
  <2>3. written \in Nat /\ raced \in BOOLEAN /\ crashed \in BOOLEAN
    OBVIOUS
  <2> QED BY <2>1, <2>2, <2>3 DEF TopicTypeOK
<1> QED BY <1>1, <1>2, <1>3
        DEF TopicInv, QueueInv, HolderInv, OrderInv, RaceInv, NewestAreKept

(* The types.                                                              *)
LEMMA TopicTypeStep ==
  TopicTypeOK /\ (write \/ (\E p \in Poppers : PopStep(p)) \/ UNCHANGED topicVars)
    => TopicTypeOK'
<1> SUFFICES ASSUME TopicTypeOK,
                    write \/ (\E p \in Poppers : PopStep(p)) \/ UNCHANGED topicVars
             PROVE  TopicTypeOK'
  OBVIOUS
<1> USE DEF TopicTypeOK
<1>0. Limit \in Nat /\ Len(queue) \in Nat
  BY InternalTopicAssumption, LenProperties
<1>1. CASE write
  <2>1. written + 1 \in Nat
    OBVIOUS
  <2> QED BY <1>0, <1>1, <2>1, PushFacts DEF write
<1>2. ASSUME NEW p \in Poppers, CheckSize(p) \/ TakeFromEmpty(p) \/ Release(p)
      PROVE  TopicTypeOK'
  <2>1. \A place \in {"idle", "checked"} :
          At(place, 0) \in [pc : {"idle", "checked", "taken", "inside"}, item : Nat]
    BY DEF At
  <2> QED BY <1>2, <2>1 DEF CheckSize, TakeFromEmpty, Release, Idle
<1>3. ASSUME NEW p \in Poppers, TakeFront(p) \/ PopInside(p)
      PROVE  TopicTypeOK'
  <2>1. queue # <<>>
    BY <1>3 DEF TakeFront, PopInside
  <2>2. Tail(queue) \in Seq(Nat) /\ Len(Tail(queue)) <= Limit + 1
    BY <1>0, <2>1, FrontFacts
  <2>3. At("taken", Head(queue)) \in [pc : {"idle", "checked", "taken", "inside"}, item : Nat]
    BY <2>1, FrontFacts DEF At
  <2>4. raced' \in BOOLEAN /\ mutex' \in Poppers \cup {NoThread}
    BY <1>3 DEF TakeFront, PopInside
  <2> QED BY <1>3, <2>2, <2>3, <2>4 DEF TakeFront, PopInside
<1>4. ASSUME NEW p \in Poppers, Receive(p)
      PROVE  TopicTypeOK'
  <2>1. Append(delivered, popper[p].item) \in Seq(Nat)
    BY AppendProperties
  <2>2. At("inside", 0) \in [pc : {"idle", "checked", "taken", "inside"}, item : Nat]
    BY DEF At
  <2> QED BY <1>4, <2>1, <2>2 DEF Receive
<1>5. CASE UNCHANGED topicVars
  BY <1>5 DEF topicVars
<1> QED BY <1>1, <1>2, <1>3, <1>4, <1>5 DEF PopStep

(* What a write does to the numbers in the queue.                          *)
LEMMA WriteFacts ==
  ASSUME TopicTypeOK, QueueInv, write
  PROVE  /\ QueueInv'
         /\ written' - Len(queue') >= written - Len(queue)
         /\ \A n \in 1..written' :
              n >= written' - Limit /\ n > written - Len(queue) => InSequence(n, queue')
<1> DEFINE k == KeepNewest(queue)
<1>0. /\ Limit \in Nat /\ Limit > 0 /\ Len(queue) \in Nat /\ written \in Nat
      /\ queue \in Seq(Nat) /\ written + 1 \in Nat
  BY InternalTopicAssumption, LenProperties DEF TopicTypeOK
<1>1. /\ k \in Seq(Nat)
      /\ Len(k) = IF Len(queue) <= Limit THEN Len(queue) ELSE Limit
      /\ \A i \in 1..Len(k) : k[i] = queue[Len(queue) - Len(k) + i]
      /\ Len(queue') = Len(k) + 1
      /\ \A i \in 1..Len(k) : queue'[i] = k[i]
      /\ queue'[Len(k) + 1] = written + 1
      /\ written' = written + 1
  BY <1>0, PushFacts DEF write
<1>2. Len(k) \in Nat /\ Len(k) <= Len(queue) /\ Len(k) <= Limit
  BY <1>0, <1>1
<1>a. Len(k) = Len(queue) \/ Len(k) = Limit
  BY <1>1
<1>b. Len(queue') = Len(k) + 1 /\ written' = written + 1
  BY <1>1
<1> HIDE DEF k
<1>3. ASSUME NEW i \in 1..Len(k)
      PROVE  queue'[i] = written - Len(k) + i
  <2>1. Len(queue) - Len(k) + i \in 1..Len(queue)
    BY <1>0, <1>2
  <2>2. queue[Len(queue) - Len(k) + i] = written - Len(queue) + (Len(queue) - Len(k) + i)
    BY <2>1 DEF QueueInv
  <2>3. queue'[i] = queue[Len(queue) - Len(k) + i]
    BY <1>1
  <2>4. written - Len(queue) + (Len(queue) - Len(k) + i) = written - Len(k) + i
    BY <1>0, <1>2
  <2> QED BY <2>2, <2>3, <2>4
<1>4. ASSUME NEW i \in 1..Len(queue')
      PROVE  queue'[i] = written' - Len(queue') + i
  <2>0. written' - Len(queue') = written - Len(k)
    BY <1>0, <1>2, <1>b
  <2>1. CASE i \in 1..Len(k)
    BY <1>3, <2>0, <2>1
  <2>2. CASE i = Len(k) + 1
    <3>1. queue'[i] = written + 1
      BY <1>1, <2>2
    <3>2. written - Len(k) + i = written + 1
      BY <1>0, <1>2, <2>2
    <3> QED BY <2>0, <3>1, <3>2
  <2> QED BY <1>b, <1>2, <2>1, <2>2
<1>5. QueueInv'
  BY <1>0, <1>b, <1>2, <1>4 DEF QueueInv
<1>6. ASSUME NEW n \in 1..written', n >= written' - Limit, n > written - Len(queue)
      PROVE  InSequence(n, queue')
  <2> DEFINE i == n - (written' - Len(queue'))
  <2>0. written' - Len(queue') = written - Len(k)
    BY <1>0, <1>2, <1>b
  <2>1. i \in 1..Len(queue')
    BY <1>0, <1>2, <1>a, <1>b, <1>6, <2>0
  <2>2. written' - Len(queue') + i = n
    BY <1>0, <1>2, <1>b
  <2> HIDE DEF i
  <2>3. queue'[i] = n
    BY <1>4, <2>1, <2>2
  <2> QED BY <2>1, <2>3 DEF InSequence
<1>7. written' - Len(queue') >= written - Len(queue)
  BY <1>0, <1>2, <1>b
<1> QED BY <1>5, <1>6, <1>7
-----------------------------------------------------------------------------
(* Front and pop take the entry that comes next.                           *)
LEMMA TakeFacts ==
  ASSUME TopicTypeOK, QueueInv, queue # <<>>, queue' = Tail(queue), UNCHANGED written
  PROVE  /\ QueueInv'
         /\ written - Len(queue) \in Nat
         /\ Head(queue) = written - Len(queue) + 1
         /\ written' - Len(queue') = written - Len(queue) + 1
         /\ \A n \in Nat :
              InSequence(n, queue) => InSequence(n, queue') \/ n = Head(queue)
<1>0. queue \in Seq(Nat) /\ written \in Nat
  BY DEF TopicTypeOK
<1>1. /\ Len(queue) \in Nat /\ Len(queue) > 0
      /\ Head(queue) = queue[1]
      /\ Len(queue') = Len(queue) - 1
      /\ \A i \in 1..Len(queue') : queue'[i] = queue[i + 1]
  BY <1>0, FrontFacts
<1>2. Head(queue) = written - Len(queue) + 1
  BY <1>0, <1>1 DEF QueueInv
<1>3. ASSUME NEW i \in 1..Len(queue')
      PROVE  queue'[i] = written' - Len(queue') + i
  <2>1. i + 1 \in 1..Len(queue)
    BY <1>1
  <2>2. queue[i + 1] = written - Len(queue) + (i + 1)
    BY <2>1 DEF QueueInv
  <2> QED BY <1>0, <1>1, <2>2
<1>4. QueueInv'
  BY <1>0, <1>1, <1>3 DEF QueueInv
<1>5. ASSUME NEW n \in Nat, InSequence(n, queue)
      PROVE  InSequence(n, queue') \/ n = Head(queue)
  <2>1. PICK i \in 1..Len(queue) : queue[i] = n
    BY <1>5 DEF InSequence
  <2>2. CASE i = 1
    BY <1>1, <2>1, <2>2
  <2>3. CASE i # 1
    <3>1. i - 1 \in 1..Len(queue') /\ queue'[i - 1] = n
      BY <1>1, <2>1, <2>3
    <3> QED BY <3>1 DEF InSequence
  <2> QED BY <2>2, <2>3
<1> QED BY <1>0, <1>1, <1>2, <1>4, <1>5 DEF QueueInv

(* The queue, the mutex and the order of what was taken, step by step.     *)
LEMMA TopicStep ==
  TopicInv /\ (write \/ (\E p \in Poppers : PopStep(p)) \/ UNCHANGED topicVars)
    => TopicInv'
<1> SUFFICES ASSUME TopicInv,
                    write \/ (\E p \in Poppers : PopStep(p)) \/ UNCHANGED topicVars
             PROVE  QueueInv' /\ HolderInv' /\ OrderInv'
  BY TopicTypeStep DEF TopicInv
<1>t. /\ TopicTypeOK /\ QueueInv /\ HolderInv /\ OrderInv
      /\ NoThread \notin Poppers
      /\ written \in Nat /\ Len(queue) \in Nat /\ Len(delivered) \in Nat
      /\ delivered \in Seq(Nat)
      /\ popper \in [Poppers -> [pc : {"idle", "checked", "taken", "inside"}, item : Nat]]
  BY InternalTopicAssumption, LenProperties DEF TopicInv, TopicTypeOK
<1>1. CASE write
  <2>1. \A p \in Poppers : popper[p].pc \notin {"taken", "inside"}
    BY <1>t, <1>1 DEF write, HolderInv
  <2>2. QueueInv' /\ written' - Len(queue') >= written - Len(queue)
        /\ Len(queue') \in Nat /\ written' \in Nat
    BY <1>t, <1>1, WriteFacts, TopicTypeStep, LenProperties DEF TopicTypeOK
  <2>3. \A i \in 1..Len(delivered) : delivered[i] \in 1..(written' - Len(queue'))
    BY <1>t, <2>2 DEF OrderInv
  <2> QED BY <1>t, <1>1, <2>1, <2>2, <2>3 DEF write, HolderInv, OrderInv
<1>2. ASSUME NEW p \in Poppers, CheckSize(p) \/ TakeFromEmpty(p)
      PROVE  QueueInv' /\ HolderInv' /\ OrderInv'
  <2>1. UNCHANGED <<queue, mutex, written, delivered>>
    BY <1>2 DEF CheckSize, TakeFromEmpty
  <2>2. \/ popper' = popper
        \/ popper[p].pc = "idle" /\ popper' = [popper EXCEPT ![p] = At("checked", 0)]
    BY <1>2 DEF CheckSize, TakeFromEmpty
  <2>3. \A q \in Poppers :
          \/ popper'[q] = popper[q]
          \/ q = p /\ popper[q].pc = "idle" /\ popper'[q].pc = "checked"
    BY <1>t, <2>2 DEF At
  <2> QED BY <1>t, <2>1, <2>3 DEF QueueInv, HolderInv, OrderInv
<1>3. ASSUME NEW p \in Poppers, TakeFront(p) \/ PopInside(p)
      PROVE  QueueInv' /\ HolderInv' /\ OrderInv'
  <2>1. /\ queue # <<>> /\ queue' = Tail(queue) /\ UNCHANGED <<written, delivered>>
        /\ popper' = [popper EXCEPT ![p] = At("taken", Head(queue))]
    BY <1>3 DEF TakeFront, PopInside
  <2>2. /\ QueueInv'
        /\ written - Len(queue) \in Nat
        /\ Head(queue) = written - Len(queue) + 1
        /\ written' - Len(queue') = written - Len(queue) + 1
    BY <1>t, <2>1, TakeFacts
  <2>3. /\ popper'[p].pc = "taken" /\ popper'[p].item = Head(queue)
        /\ \A q \in Poppers \ {p} : popper'[q] = popper[q]
    BY <1>t, <2>1 DEF At
  <2>4. /\ mutex' = p
        /\ \A q \in Poppers \ {p} : popper[q].pc \notin {"taken", "inside"}
    BY <1>t, <1>3 DEF TakeFront, PopInside, HolderInv
  <2>5. HolderInv'
    BY <2>3, <2>4 DEF HolderInv
  <2>6. \A i \in 1..Len(delivered) :
          delivered[i] \in 1..(written' - Len(queue')) /\ delivered[i] < Head(queue)
    BY <1>t, <2>2 DEF OrderInv
  <2>7. Head(queue) \in 1..(written' - Len(queue'))
    BY <2>2
  <2> QED BY <2>1, <2>2, <2>3, <2>4, <2>5, <2>6, <2>7 DEF OrderInv
<1>4. ASSUME NEW p \in Poppers, Receive(p)
      PROVE  QueueInv' /\ HolderInv' /\ OrderInv'
  <2>1. /\ popper[p].pc = "taken" /\ UNCHANGED <<queue, mutex, written>>
        /\ delivered' = Append(delivered, popper[p].item)
        /\ popper' = [popper EXCEPT ![p] = At("inside", 0)]
    BY <1>4 DEF Receive
  <2>2. /\ popper'[p].pc = "inside"
        /\ \A q \in Poppers \ {p} : popper'[q] = popper[q]
    BY <1>t, <2>1 DEF At
  <2>3. mutex = p /\ \A q \in Poppers \ {p} : popper[q].pc \notin {"taken", "inside"}
    BY <1>t, <2>1 DEF HolderInv
  <2>4. /\ Len(delivered') = Len(delivered) + 1
        /\ \A i \in 1..Len(delivered) : delivered'[i] = delivered[i]
        /\ delivered'[Len(delivered) + 1] = popper[p].item
    BY <1>t, <2>1, popper[p].item \in Nat, AppendProperties
  <2>5. \A i \in 1..Len(delivered') : delivered'[i] \in 1..(written' - Len(queue'))
    BY <1>t, <2>1, <2>4 DEF OrderInv
  <2>6. QueueInv' /\ HolderInv'
    BY <1>t, <2>1, <2>2, <2>3 DEF QueueInv, HolderInv
  <2> QED BY <2>2, <2>3, <2>5, <2>6 DEF OrderInv
<1>5. ASSUME NEW p \in Poppers, Release(p)
      PROVE  QueueInv' /\ HolderInv' /\ OrderInv'
  <2>1. /\ popper[p].pc = "inside" /\ mutex' = NoThread
        /\ UNCHANGED <<queue, written, delivered>>
        /\ popper' = [popper EXCEPT ![p] = Idle]
    BY <1>5 DEF Release
  <2>2. /\ popper'[p].pc = "idle"
        /\ \A q \in Poppers \ {p} : popper'[q] = popper[q]
    BY <1>t, <2>1 DEF Idle, At
  <2>3. \A q \in Poppers \ {p} : popper[q].pc \notin {"taken", "inside"}
    BY <1>t, <2>1 DEF HolderInv
  <2> QED BY <1>t, <2>1, <2>2, <2>3 DEF QueueInv, HolderInv, OrderInv
<1>6. CASE UNCHANGED topicVars
  BY <1>t, <1>6 DEF topicVars, QueueInv, HolderInv, OrderInv
<1> QED BY <1>1, <1>2, <1>3, <1>4, <1>5, <1>6 DEF PopStep

(* The newest entries, step by step.                                       *)
LEMMA NewestStep ==
  TopicInv /\ NewestAreKept
  /\ (write \/ (\E p \in Poppers : PopStep(p)) \/ UNCHANGED topicVars)
    => NewestAreKept'
<1> SUFFICES ASSUME TopicInv, NewestAreKept,
                    write \/ (\E p \in Poppers : PopStep(p)) \/ UNCHANGED topicVars
             PROVE  NewestAreKept'
  OBVIOUS
<1>t. /\ TopicTypeOK /\ QueueInv /\ HolderInv
      /\ written \in Nat /\ Limit \in Nat /\ Len(queue) \in Nat
      /\ delivered \in Seq(Nat) /\ Len(delivered) \in Nat
      /\ popper \in [Poppers -> [pc : {"idle", "checked", "taken", "inside"}, item : Nat]]
  BY InternalTopicAssumption, LenProperties DEF TopicInv, TopicTypeOK
<1> DEFINE Taken(n) == \E p \in Poppers : popper[p] = At("taken", n)
<1>1. CASE write
  <2>1. UNCHANGED <<popper, delivered>> /\ written' = written + 1
    BY <1>1 DEF write
  <2>2. SUFFICES ASSUME NEW n \in 1..written', n >= written' - Limit
                 PROVE  InSequence(n, queue') \/ InSequence(n, delivered) \/ Taken(n)
    BY <2>1 DEF NewestAreKept
  <2>3. CASE n > written - Len(queue)
    BY <1>t, <1>1, <2>2, <2>3, WriteFacts
  <2>4. CASE ~ (n > written - Len(queue))
    <3>1. n \in 1..written /\ n >= written - Limit
      BY <1>t, <2>1, <2>2, <2>4
    <3>2. ~ InSequence(n, queue)
      <4>1. ASSUME NEW i \in 1..Len(queue)
            PROVE  queue[i] # n
        <5>1. queue[i] = written - Len(queue) + i
          BY <1>t DEF QueueInv
        <5> QED BY <1>t, <2>4, <3>1, <5>1
      <4> QED BY <4>1 DEF InSequence
    <3> QED BY <3>1, <3>2 DEF NewestAreKept
  <2> QED BY <2>3, <2>4
<1>2. ASSUME NEW p \in Poppers, TakeFront(p) \/ PopInside(p)
      PROVE  NewestAreKept'
  <2>1. /\ queue # <<>> /\ queue' = Tail(queue) /\ UNCHANGED <<written, delivered>>
        /\ popper' = [popper EXCEPT ![p] = At("taken", Head(queue))]
        /\ popper[p].pc # "taken"
    BY <1>2 DEF TakeFront, PopInside
  <2>2. SUFFICES ASSUME NEW n \in 1..written, n >= written - Limit
                 PROVE  InSequence(n, queue') \/ InSequence(n, delivered) \/ Taken(n)'
    BY <2>1 DEF NewestAreKept
  <2>3. InSequence(n, queue) \/ InSequence(n, delivered) \/ Taken(n)
    BY <2>2 DEF NewestAreKept
  <2>4. CASE InSequence(n, queue)
    <3>1. InSequence(n, queue') \/ n = Head(queue)
      BY <1>t, <2>1, <2>4, TakeFacts
    <3>2. popper'[p] = At("taken", Head(queue))
      BY <1>t, <2>1
    <3> QED BY <3>1, <3>2
  <2>5. CASE Taken(n)
    <3>1. PICK q \in Poppers : popper[q] = At("taken", n)
      BY <2>5
    <3>2. q # p /\ popper'[q] = popper[q]
      BY <1>t, <2>1, <3>1 DEF At
    <3> QED BY <3>1, <3>2
  <2> QED BY <2>3, <2>4, <2>5
<1>3. ASSUME NEW p \in Poppers, Receive(p)
      PROVE  NewestAreKept'
  <2>1. /\ popper[p].pc = "taken" /\ UNCHANGED <<queue, written>>
        /\ delivered' = Append(delivered, popper[p].item)
        /\ popper' = [popper EXCEPT ![p] = At("inside", 0)]
    BY <1>3 DEF Receive
  <2>2. /\ Len(delivered') = Len(delivered) + 1
        /\ \A i \in 1..Len(delivered) : delivered'[i] = delivered[i]
        /\ delivered'[Len(delivered) + 1] = popper[p].item
    BY <1>t, <2>1, popper[p].item \in Nat, AppendProperties
  <2>3. SUFFICES ASSUME NEW n \in 1..written, n >= written - Limit
                 PROVE  InSequence(n, queue) \/ InSequence(n, delivered') \/ Taken(n)'
    BY <2>1 DEF NewestAreKept
  <2>4. InSequence(n, queue) \/ InSequence(n, delivered) \/ Taken(n)
    BY <2>3 DEF NewestAreKept
  <2>5. CASE InSequence(n, delivered)
    <3>1. PICK i \in 1..Len(delivered) : delivered[i] = n
      BY <2>5 DEF InSequence
    <3>2. i \in 1..Len(delivered') /\ delivered'[i] = n
      BY <1>t, <2>2, <3>1
    <3> QED BY <3>2 DEF InSequence
  <2>6. CASE Taken(n)
    <3>1. PICK q \in Poppers : popper[q] = At("taken", n)
      BY <2>6
    <3>2. CASE q = p
      <4>1. popper[p].item = n
        BY <3>1, <3>2 DEF At
      <4>2. Len(delivered) + 1 \in 1..Len(delivered')
        BY <1>t, <2>2
      <4> QED BY <2>2, <4>1, <4>2 DEF InSequence
    <3>3. CASE q # p
      BY <1>t, <2>1, <3>1, <3>3
    <3> QED BY <3>2, <3>3
  <2> QED BY <2>4, <2>5, <2>6
<1>4. ASSUME NEW p \in Poppers, CheckSize(p) \/ TakeFromEmpty(p) \/ Release(p)
      PROVE  NewestAreKept'
  <2>1. /\ UNCHANGED <<queue, written, delivered>>
        /\ \/ popper' = popper
           \/ /\ popper[p].pc \in {"idle", "inside"}
              /\ \E place \in {"idle", "checked"} : popper' = [popper EXCEPT ![p] = At(place, 0)]
    BY <1>4 DEF CheckSize, TakeFromEmpty, Release, Idle
  <2>2. SUFFICES ASSUME NEW n \in 1..written, Taken(n)
                 PROVE  Taken(n)'
    BY <2>1 DEF NewestAreKept
  <2>3. PICK q \in Poppers : popper[q] = At("taken", n)
    BY <2>2
  <2>4. popper'[q] = popper[q]
    <3>1. CASE popper' = popper
      BY <3>1
    <3>2. CASE popper' # popper
      <4>1. q # p
        BY <2>1, <2>3, <3>2 DEF At
      <4> QED BY <1>t, <2>1, <3>2, <4>1
    <3> QED BY <3>1, <3>2
  <2> QED BY <2>3, <2>4
<1>5. CASE UNCHANGED topicVars
  BY <1>5 DEF topicVars, NewestAreKept
<1> QED BY <1>1, <1>2, <1>3, <1>4, <1>5 DEF PopStep

(* Who was overtaken, step by step.                                        *)
LEMMA RaceStep ==
  TopicInv /\ RaceInv
  /\ (write \/ (\E p \in Poppers : PopStep(p)) \/ UNCHANGED topicVars)
    => RaceInv'
<1> SUFFICES ASSUME TopicInv, RaceInv,
                    write \/ (\E p \in Poppers : PopStep(p)) \/ UNCHANGED topicVars
             PROVE  RaceInv'
  OBVIOUS
<1> USE DEF RaceInv
<1>t. /\ TopicTypeOK /\ HolderInv /\ NoThread \notin Poppers
      /\ popper \in [Poppers -> [pc : {"idle", "checked", "taken", "inside"}, item : Nat]]
  BY InternalTopicAssumption DEF TopicInv, TopicTypeOK
<1>1. CASE write
  <2>1. queue' # <<>>
    BY <1>t, <1>1, written + 1 \in Nat, PushFacts DEF write, TopicTypeOK
  <2> QED BY <1>1, <2>1 DEF write
<1>2. ASSUME NEW p \in Poppers, CheckSize(p)
      PROVE  RaceInv'
  BY <1>2 DEF CheckSize, FindsSome
<1>3. ASSUME NEW p \in Poppers, TakeFront(p)
      PROVE  RaceInv'
  <2>1. \A q \in Poppers : popper'[q].pc = "checked" => q # p /\ popper[q].pc = "checked"
    BY <1>t, <1>3 DEF TakeFront, At
  <2> QED BY <1>3, <2>1 DEF TakeFront
<1>4. ASSUME NEW p \in Poppers, TakeFromEmpty(p)
      PROVE  RaceInv'
  BY <1>4 DEF TakeFromEmpty
<1>5. ASSUME NEW p \in Poppers, Receive(p) \/ PopInside(p)
      PROVE  RaceInv'
  <2>1. mutex = p
    BY <1>t, <1>5 DEF Receive, PopInside, HolderInv
  <2>2. \A q \in Poppers : popper'[q].pc = "checked" => popper[q].pc = "checked"
    <3>1. \E n \in {"inside", "taken"} : \E i : popper' = [popper EXCEPT ![p] = At(n, i)]
      BY <1>5 DEF Receive, PopInside
    <3> QED BY <1>t, <3>1 DEF At
  <2> QED BY <1>t, <1>5, <2>1, <2>2 DEF Receive, PopInside
<1>6. ASSUME NEW p \in Poppers, Release(p)
      PROVE  RaceInv'
  <2>1. \A q \in Poppers : popper'[q].pc = "checked" => popper[q].pc = "checked"
    BY <1>t, <1>6 DEF Release, Idle, At
  <2> QED BY <1>6, <2>1 DEF Release
<1>7. CASE UNCHANGED topicVars
  BY <1>7 DEF topicVars
<1> QED BY <1>1, <1>2, <1>3, <1>4, <1>5, <1>6, <1>7 DEF PopStep

(* The topic keeps all that within the bus info.                           *)
LEMMA TopicInvariant == Spec => [](TopicInv /\ NewestAreKept /\ RaceInv)
<1>1. Init => TopicInv /\ NewestAreKept /\ RaceInv
  BY TopicInitially DEF Init
<1>2. TopicInv /\ NewestAreKept /\ RaceInv /\ [Next]_vars
        => (TopicInv /\ NewestAreKept /\ RaceInv)'
  BY TopicSteps, TopicStep, NewestStep, RaceStep
<1> QED BY <1>1, <1>2, PTL DEF Spec

(* Whatever a thread and the limit take away, of the last Limit + 1        *)
(* entries those are left that no receiver got.                            *)
THEOREM NewestStayInTopic == Spec => []NewestAreKept
BY TopicInvariant, PTL

(* One thread alone never takes the front of an empty queue.               *)
THEOREM EmptyFrontTakesTwo == Spec => []EmptyFrontNeedsRace
<1>1. RaceInv => EmptyFrontNeedsRace
  BY DEF RaceInv, EmptyFrontNeedsRace
<1> QED BY <1>1, TopicInvariant, PTL
-----------------------------------------------------------------------------
(* A write is a Send, a call of a receiver a Receive, the rest stutters.   *)
LEMMA FifoInit == TopicInit => Fifo!Init
BY DEF TopicInit, Fifo!Init

LEMMA FifoStep ==
  TopicInv /\ (write \/ (\E p \in Poppers : PopStep(p)) \/ UNCHANGED topicVars)
    => [Fifo!Next]_Fifo!vars
<1> SUFFICES ASSUME TopicInv,
                    write \/ (\E p \in Poppers : PopStep(p)) \/ UNCHANGED topicVars
             PROVE  [Fifo!Next]_Fifo!vars
  OBVIOUS
<1>1. CASE write
  <2>1. Fifo!Send("topic")
    BY <1>1 DEF write, Fifo!Send
  <2> QED BY <2>1 DEF Fifo!Next
<1>2. ASSUME NEW p \in Poppers, Receive(p)
      PROVE  Fifo!Next
  <2>1. /\ popper[p].item \in 1..written
        /\ \A i \in 1..Len(delivered) : delivered[i] < popper[p].item
    <3>1. written \in Nat /\ Len(queue) \in Nat
      BY LenProperties DEF TopicInv, TopicTypeOK
    <3>2. /\ popper[p].item \in 1..(written - Len(queue))
          /\ \A i \in 1..Len(delivered) : delivered[i] < popper[p].item
      BY <1>2 DEF TopicInv, OrderInv, Receive
    <3> QED BY <3>1, <3>2
  <2>2. Fifo!Receive("topic", popper[p].item)
    BY <1>2, <2>1 DEF Receive, Fifo!Receive
  <2> QED BY <2>1, <2>2 DEF Fifo!Next
<1>3. ASSUME NEW p \in Poppers,
             \/ CheckSize(p) \/ TakeFront(p) \/ TakeFromEmpty(p) \/ PopInside(p)
             \/ Release(p)
      PROVE  UNCHANGED Fifo!vars
  BY <1>3 DEF CheckSize, TakeFront, TakeFromEmpty, PopInside, Release, Fifo!vars
<1>4. CASE UNCHANGED topicVars
  BY <1>4 DEF topicVars, Fifo!vars
<1> QED BY <1>1, <1>2, <1>3, <1>4 DEF PopStep

(* The receivers get the entries in the order written, none twice, however *)
(* many threads pop and whatever their receivers do.                       *)
THEOREM TopicIsLossyFifo == Spec => EntriesAreLossyFifo
<1>1. Init => Fifo!Init
  BY FifoInit DEF Init
<1>2. TopicInv /\ [Next]_vars => [Fifo!Next]_Fifo!vars
  BY TopicSteps, FifoStep
<1> QED BY <1>1, <1>2, TopicInvariant, PTL DEF Spec, EntriesAreLossyFifo, Fifo!Spec
-----------------------------------------------------------------------------
(***************************************************************************)
(* The bus info.                                                           *)
(***************************************************************************)

(* The entry of a participant that is added or replaced keeps the map one. *)
LEMMA UpdateFacts ==
  ASSUME infos \in Infos, NEW data \in UserData
  PROVE  parsedVersion(data) \in Versions /\ updatedInfos(data) \in Infos
<1>1. parsedVersion(data) \in Versions
  BY BusInfoAssumption DEF parsedVersion, UserData
<1>2. PICK S \in SUBSET Names : infos \in [S -> Versions]
  BY DEF Infos
<1>3. data.name \in Names
  BY DEF UserData
<1>4. updatedInfos(data) \in [S \cup {data.name} -> Versions]
  BY <1>1, <1>2 DEF updatedInfos
<1>5. S \cup {data.name} \in SUBSET Names
  BY <1>3
<1> QED BY <1>1, <1>4, <1>5 DEF Infos

LEMMA InboxFacts ==
  ASSUME inbox \in Seq(News), inbox # <<>>
  PROVE  Head(inbox) \in News /\ Tail(inbox) \in Seq(News)
BY HeadTailProperties

(* The values of the variables, for any participants and any threads.      *)
LEMMA BusInfoTypeStep == BusInfoTypeOK /\ [Next]_vars => BusInfoTypeOK'
<1> SUFFICES ASSUME BusInfoTypeOK, [Next]_vars PROVE BusInfoTypeOK'
  OBVIOUS
<1> USE DEF BusInfoTypeOK
<1>0. TopicTypeOK'
  BY TopicSteps, TopicTypeStep
<1>1. ASSUME NEW news \in News, NewsArrives(news) PROVE BusInfoTypeOK'
  <2>1. inbox' \in Seq(News)
    BY <1>1, AppendProperties DEF NewsArrives
  <2> QED BY <1>0, <1>1, <2>1 DEF NewsArrives, topicVars
<1>2. CASE SkipNews
  BY <1>0, <1>2, InboxFacts DEF SkipNews, topicVars
<1>3. CASE ParseThrows
  BY <1>0, <1>3 DEF ParseThrows, topicVars
<1>4. CASE onUserDataReceived
  <2>1. infos' \in Infos
    BY <1>4, UpdateFacts DEF onUserDataReceived
  <2>2. accepted' \in Seq(UserData)
    BY <1>4, AppendProperties DEF onUserDataReceived
  <2>3. inbox' \in Seq(News)
    BY <1>4, InboxFacts DEF onUserDataReceived
  <2> QED BY <1>0, <1>4, <2>1, <2>2, <2>3 DEF onUserDataReceived, topicVars
<1>5. CASE Report
  <2>1. reports' \in Seq(Infos) /\ Len(reports') = Len(reports) + 1
    BY <1>5, AppendProperties DEF Report, asJson
  <2>2. written' = written + 1
    BY <1>5 DEF Report, write
  <2> QED BY <1>0, <1>5, <2>1, <2>2 DEF Report
<1>6. CASE (\E p \in Poppers : PopStep(p) /\ UNCHANGED infoVars)
  <2>1. UNCHANGED infoVars /\ UNCHANGED written
    BY <1>6 DEF PopStep, CheckSize, TakeFront, TakeFromEmpty, Receive, PopInside, Release
  <2> QED BY <1>0, <2>1 DEF infoVars
<1>7. CASE UNCHANGED vars
  BY <1>0, <1>7 DEF vars, infoVars, topicVars
<1> QED BY <1>1, <1>2, <1>3, <1>4, <1>5, <1>6, <1>7 DEF Next, Listen

(* Each report has its entry in the topic, and the map names participants. *)
THEOREM BusInfoTypeCorrect == Spec => []BusInfoTypeOK
<1>1. Init => BusInfoTypeOK
  <2> SUFFICES ASSUME Init PROVE BusInfoTypeOK
    OBVIOUS
  <2>1. TopicTypeOK
    BY TopicInitially DEF Init, TopicInv
  <2>2. infos \in Infos
    <3>1. infos \in [{} -> Versions] /\ {} \in SUBSET Names
      BY DEF Init
    <3> QED BY <3>1 DEF Infos
  <2>3. /\ inbox \in Seq(News) /\ reports \in Seq(Infos) /\ accepted \in Seq(UserData)
        /\ Len(reports) = written
    BY EmptySeq DEF Init, TopicInit
  <2> QED BY <2>1, <2>2, <2>3 DEF Init, BusInfoTypeOK
<1> QED BY <1>1, BusInfoTypeStep, PTL DEF Spec
-----------------------------------------------------------------------------
(* There is one last place.                                                *)
LEMMA LatestIs ==
  ASSUME NEW data \in Seq(UserData), NEW n, NEW i \in 1..Len(data), IsLatest(data, n, i)
  PROVE  Latest(data, n) = i
<1>l. Len(data) \in Nat
  BY LenProperties
<1>1. \A j \in 1..Len(data) : IsLatest(data, n, j) => j = i
  <2> SUFFICES ASSUME NEW j \in 1..Len(data), IsLatest(data, n, j), j # i
               PROVE  FALSE
    OBVIOUS
  <2>1. CASE j < i
    <3>1. i \in (j + 1)..Len(data)
      BY <1>l, <2>1
    <3> QED BY <3>1 DEF IsLatest
  <2>2. CASE i < j
    <3>1. j \in (i + 1)..Len(data)
      BY <1>l, <2>2
    <3> QED BY <3>1 DEF IsLatest
  <2> QED BY <1>l, <2>1, <2>2
<1>2. Latest(data, n) = CHOOSE j \in 1..Len(data) : IsLatest(data, n, j)
  BY DEF Latest, IsLatest
<1> QED BY <1>1, <1>2

(* One more of the data changes the description as it changes the map.     *)
LEMMA AppendDescription ==
  ASSUME NEW data \in Seq(UserData), NEW d \in UserData,
         HasLatest(data)
  PROVE  LET more == Append(data, d)
         IN  /\ HasLatest(more)
             /\ Description(more) =
                  [n \in NamesIn(data) \cup {d.name} |->
                     IF n = d.name THEN parsedVersion(d) ELSE Description(data)[n]]
<1> DEFINE more == Append(data, d)
<1>0. /\ Len(data) \in Nat /\ more \in Seq(UserData)
      /\ Len(more) = Len(data) + 1
      /\ \A i \in 1..Len(data) : more[i] = data[i]
      /\ more[Len(data) + 1] = d
  BY AppendProperties, LenProperties
<1> HIDE DEF more
<1>1. NamesIn(more) = NamesIn(data) \cup {d.name}
  <2>1. ASSUME NEW n \in NamesIn(more) PROVE n \in NamesIn(data) \cup {d.name}
    <3>1. PICK i \in 1..Len(more) : n = more[i].name
      BY <2>1 DEF NamesIn
    <3>2. CASE i \in 1..Len(data)
      BY <1>0, <3>1, <3>2 DEF NamesIn
    <3>3. CASE i = Len(data) + 1
      BY <1>0, <3>1, <3>3
    <3> QED BY <1>0, <3>2, <3>3
  <2>2. ASSUME NEW n \in NamesIn(data) PROVE n \in NamesIn(more)
    <3>1. PICK i \in 1..Len(data) : n = data[i].name
      BY <2>2 DEF NamesIn
    <3>2. i \in 1..Len(more) /\ n = more[i].name
      BY <1>0, <3>1
    <3> QED BY <3>2 DEF NamesIn
  <2>3. d.name \in NamesIn(more)
    <3>1. Len(data) + 1 \in 1..Len(more) /\ more[Len(data) + 1].name = d.name
      BY <1>0
    <3> QED BY <3>1 DEF NamesIn
  <2> QED BY <2>1, <2>2, <2>3
<1>2. IsLatest(more, d.name, Len(data) + 1) /\ Len(data) + 1 \in 1..Len(more)
  BY <1>0 DEF IsLatest
<1>3. ASSUME NEW n \in NamesIn(data), n # d.name
      PROVE  \E i \in 1..Len(data) : /\ i \in 1..Len(more) /\ more[i] = data[i]
                                    /\ IsLatest(data, n, i) /\ IsLatest(more, n, i)
  <2>1. PICK i \in 1..Len(data) : IsLatest(data, n, i)
    BY DEF HasLatest
  <2>2. i \in 1..Len(more) /\ more[i] = data[i]
    BY <1>0
  <2>3. ASSUME NEW j \in (i + 1)..Len(more) PROVE more[j].name # n
    <3>1. CASE j \in (i + 1)..Len(data)
      <4>1. j \in 1..Len(data)
        BY <1>0, <3>1
      <4> QED BY <1>0, <2>1, <3>1, <4>1 DEF IsLatest
    <3>2. CASE j = Len(data) + 1
      BY <1>0, <1>3, <3>2
    <3> QED BY <1>0, <2>3, <3>1, <3>2
  <2> QED BY <2>1, <2>2, <2>3 DEF IsLatest
<1>4. HasLatest(more)
  BY <1>1, <1>2, <1>3 DEF HasLatest
<1>5. parsedVersion(more[Latest(more, d.name)]) = parsedVersion(d)
  BY <1>0, <1>2, LatestIs
<1>6. ASSUME NEW n \in NamesIn(data), n # d.name
      PROVE  parsedVersion(more[Latest(more, n)]) = Description(data)[n]
  <2>1. PICK i \in 1..Len(data) : /\ i \in 1..Len(more) /\ more[i] = data[i]
                                  /\ IsLatest(data, n, i) /\ IsLatest(more, n, i)
    BY <1>3, <1>6
  <2>2. Latest(more, n) = i /\ Latest(data, n) = i
    BY <1>0, <2>1, LatestIs
  <2>3. Description(data)[n] = parsedVersion(data[Latest(data, n)])
    BY DEF Description, NamesIn
  <2> QED BY <2>1, <2>2, <2>3
<1>7. Description(more) = [n \in NamesIn(more) |-> parsedVersion(more[Latest(more, n)])]
  BY DEF Description, NamesIn
<1>8. Description(more) =
        [n \in NamesIn(data) \cup {d.name} |->
           IF n = d.name THEN parsedVersion(d) ELSE Description(data)[n]]
  BY <1>1, <1>5, <1>6, <1>7
<1> QED BY <1>4, <1>8 DEF more

(* What came first of the data is not disturbed by what comes later.       *)
LEMMA FirstOfAppend ==
  ASSUME NEW data \in Seq(UserData), NEW d \in UserData, NEW n \in 1..Len(data)
  PROVE  SubSeq(Append(data, d), 1, n) = SubSeq(data, 1, n)
<1>1. Len(data) \in Nat /\ n \in Nat /\ n <= Len(data) /\ n \in Int /\ 1 <= n
  BY LenProperties
<1>2. /\ Append(data, d) \in Seq(UserData)
      /\ Len(Append(data, d)) = Len(data) + 1
      /\ \A i \in 1..Len(data) : Append(data, d)[i] = data[i]
  BY AppendProperties
<1> DEFINE more == Append(data, d)
<1> HIDE DEF more
<1>3. \A i \in 1..n : data[i] \in UserData /\ more[i] = data[i] /\ more[i] \in UserData
  BY <1>1, <1>2, ElementOfSeq DEF more
<1>4. /\ SubSeq(data, 1, n) \in Seq(UserData) /\ SubSeq(more, 1, n) \in Seq(UserData)
      /\ Len(SubSeq(data, 1, n)) = n /\ Len(SubSeq(more, 1, n)) = n
      /\ \A i \in 1..n : SubSeq(data, 1, n)[i] = data[i]
      /\ \A i \in 1..n : SubSeq(more, 1, n)[i] = more[i]
  BY <1>1, <1>2, <1>3, SubSeqProperties DEF more
<1> QED BY <1>1, <1>3, <1>4, SeqEqual DEF more
-----------------------------------------------------------------------------
(* The property, in the next state.                                        *)
LEMMA ReportsPrimed ==
  (\A n \in 1..Len(reports') : reports'[n] = Description(SubSeq(accepted', 1, n)))
    => ReportsAreCumulative'
BY DEF ReportsAreCumulative, Description, Latest, parsedVersion

LEMMA MapPrimed ==
  HasLatest(accepted)' = HasLatest(accepted') /\ Description(accepted)' = Description(accepted')
BY DEF HasLatest, NamesIn, IsLatest, Description, Latest, parsedVersion

(* The map and the reports, step by step.                                  *)
LEMMA MapStep == BusInfoTypeOK /\ MapInv /\ [Next]_vars => MapInv'
<1> SUFFICES ASSUME BusInfoTypeOK, MapInv, [Next]_vars PROVE MapInv'
  OBVIOUS
<1> USE DEF MapInv
<1>t. /\ accepted \in Seq(UserData) /\ infos \in Infos /\ reports \in Seq(Infos)
      /\ Len(accepted) \in Nat /\ Len(reports) \in Nat
  BY LenProperties DEF BusInfoTypeOK
<1>1. CASE onUserDataReceived
  <2> DEFINE d == Head(inbox)
  <2>1. /\ d \in UserData /\ handler = "idle" /\ handler' = "callback"
        /\ accepted' = Append(accepted, d) /\ infos' = updatedInfos(d)
        /\ UNCHANGED reports
    BY <1>1 DEF onUserDataReceived
  <2> HIDE DEF d
  <2>2. /\ Len(accepted') = Len(accepted) + 1
        /\ HasLatest(accepted')
        /\ Description(accepted') =
             [n \in NamesIn(accepted) \cup {d.name} |->
                IF n = d.name THEN parsedVersion(d) ELSE Description(accepted)[n]]
    BY <1>t, <2>1, AppendDescription, AppendProperties
  <2>3. DOMAIN infos = NamesIn(accepted) /\ infos = Description(accepted)
    BY DEF Description, NamesIn
  <2>4. infos' = Description(accepted')
    BY <2>1, <2>2, <2>3 DEF updatedInfos
  <2>5. ReportsAreCumulative'
    <3>1. Len(accepted) = Len(reports)
      BY <2>1
    <3>2. \A n \in 1..Len(reports) : SubSeq(accepted', 1, n) = SubSeq(accepted, 1, n)
      BY <1>t, <2>1, <3>1, FirstOfAppend
    <3>3. \A n \in 1..Len(reports) : reports'[n] = Description(SubSeq(accepted', 1, n))
      BY <2>1, <3>2 DEF ReportsAreCumulative
    <3>4. Len(reports') = Len(reports)
      BY <2>1
    <3> QED BY <3>3, <3>4, ReportsPrimed
  <2> QED BY <1>t, <2>1, <2>2, <2>4, <2>5, MapPrimed
<1>2. CASE Report
  <2>1. /\ reports' = Append(reports, infos) /\ accepted' = accepted /\ infos' = infos
        /\ handler = "callback" /\ handler' = "idle"
    BY <1>2 DEF Report, asJson
  <2>2. /\ Len(reports') = Len(reports) + 1
        /\ \A n \in 1..Len(reports) : reports'[n] = reports[n]
        /\ reports'[Len(reports) + 1] = infos
    BY <1>t, <2>1, AppendProperties
  <2>3. Len(accepted) = Len(reports) + 1 /\ infos = Description(accepted)
    BY <2>1
  <2>4. ASSUME NEW n \in 1..Len(reports')
        PROVE  reports'[n] = Description(SubSeq(accepted', 1, n))
    <3>1. CASE n \in 1..Len(reports)
      BY <2>1, <2>2, <3>1 DEF ReportsAreCumulative
    <3>2. CASE n = Len(reports) + 1
      <4>1. SubSeq(accepted, 1, n) = accepted
        BY <1>t, <2>3, <3>2, SubSeqFull
      <4> QED BY <2>1, <2>2, <2>3, <3>2, <4>1
    <3> QED BY <1>t, <2>2, <3>1, <3>2
  <2>5. ReportsAreCumulative'
    BY <2>4, ReportsPrimed
  <2>6. HasLatest(accepted') /\ infos' = Description(accepted')
    BY <2>1, <2>3
  <2>7. Len(accepted') = Len(reports') /\ handler' # "callback"
    BY <1>t, <2>1, <2>2, <2>3
  <2> QED BY <2>5, <2>6, <2>7, MapPrimed
<1>3. CASE UNCHANGED <<accepted, infos, reports>> /\ (handler' = "callback" <=> handler = "callback")
  <2>1. accepted' = accepted /\ infos' = infos /\ reports' = reports
    BY <1>3
  <2>2. HasLatest(accepted') /\ infos' = Description(accepted')
    BY <2>1
  <2>3. \A n \in 1..Len(reports') : reports'[n] = Description(SubSeq(accepted', 1, n))
    BY <2>1 DEF ReportsAreCumulative
  <2> QED BY <1>3, <2>1, <2>2, <2>3, MapPrimed, ReportsPrimed
<1>4. ASSUME NEW news \in News, NewsArrives(news) PROVE MapInv'
  BY <1>3, <1>4 DEF NewsArrives
<1>5. CASE SkipNews \/ ParseThrows
  BY <1>3, <1>5 DEF SkipNews, ParseThrows
<1>6. CASE (\E p \in Poppers : PopStep(p) /\ UNCHANGED infoVars) \/ UNCHANGED vars
  BY <1>3, <1>6 DEF infoVars, vars
<1> QED BY <1>1, <1>2, <1>4, <1>5, <1>6 DEF Next, Listen

(* The n-th report describes all that the first n data said, although the  *)
(* listener goes on only when the report was written.                      *)
THEOREM EachReportDescribesAll == Spec => []ReportsAreCumulative
<1>1. Init => MapInv
  <2> SUFFICES ASSUME Init PROVE MapInv
    OBVIOUS
  <2>1. /\ Len(accepted) = 0 /\ Len(reports) = 0 /\ NamesIn(accepted) = {}
        /\ HasLatest(accepted) /\ handler = "idle"
    BY EmptySeq DEF Init, NamesIn, HasLatest
  <2>2. infos = Description(accepted)
    BY <2>1 DEF Init, Description, NamesIn
  <2> QED BY <2>1, <2>2 DEF MapInv, ReportsAreCumulative
<1>2. BusInfoTypeOK /\ MapInv /\ [Next]_vars => MapInv'
  BY MapStep
<1>3. MapInv => ReportsAreCumulative
  BY DEF MapInv
<1> QED BY <1>1, <1>2, <1>3, BusInfoTypeCorrect, PTL DEF Spec
=============================================================================
