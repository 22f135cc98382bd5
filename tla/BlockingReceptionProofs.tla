------------------------ MODULE BlockingReceptionProofs ------------------------
(* Theorems about BlockingReception: its reader queues are those of        *)
(* ReaderItemQueue, the preparation callback is called once, a stop is     *)
(* kept, a session ends for a cause, and the thread waits on current       *)
(* readers.                                                                *)
EXTENDS BlockingReception, ProfileChangeProofs, FiniteSetTheorems

(***************************************************************************)
(* The queues of the reception are those of ReaderItemQueue.               *)
(***************************************************************************)

(* Every step of the thread or of another one is a step of a reader queue, *)
(* or leaves them alone.                                                   *)
LEMMA QueueStep == [Next]_vars => [QueueNext]_queueVars
<1> SUFFICES ASSUME [Next]_vars PROVE [QueueNext]_queueVars
  OBVIOUS
<1>1. ASSUME NEW r \in Readers,
             \/ ServePop(r) \/ ServeCreateReader(r) \/ ServeEndPop(r) \/ CatchException(r)
      PROVE  QueueNext
  BY <1>1 DEF ServePop, ServeCreateReader, ServeEndPop, CatchException, QueueNext
<1>2. ASSUME DataArrives PROVE QueueNext
  BY <1>2 DEF DataArrives, QueueNext
<1>3. ASSUME \/ SetReceiving \/ EnterLoop \/ SkipLoop \/ AttachReader \/ ArmGuard
             \/ Announce \/ CheckGuard \/ Wait \/ WaitOnNull \/ EndServe \/ NextCondition
             \/ Leave
      PROVE  UNCHANGED queueVars
  BY <1>3 DEF SetReceiving, EnterLoop, SkipLoop, AttachReader, ArmGuard, Announce,
              CheckGuard, Wait, WaitOnNull, EndServe, NextCondition, Leave
<1>4. ASSUME \/ \E r \in Readers : ResetReceiver(r) \/ RemoveReceiver(r)
             \/ StopReceiving \/ TriggerGuard \/ Start
      PROVE  UNCHANGED queueVars
  BY <1>4 DEF ResetReceiver, RemoveReceiver, StopReceiving, TriggerGuard, Start
<1>5. CASE UNCHANGED vars
  BY <1>5 DEF vars
<1> QED BY <1>1, <1>2, <1>3, <1>4, <1>5 DEF Next, ReceptionStep, OtherThreads

(* Whatever the reception thread and the other threads do, the readers     *)
(* behave as ReaderItemQueue says, so that all its theorems hold here.     *)
THEOREM ReceptionUsesQueues == Spec => QueueSpec
<1>1. Init => QueueInit
  BY DEF Init
<1> QED BY <1>1, QueueStep, PTL DEF Spec, QueueSpec

(* The data receivers of the reception get their samples in the order sent *)
(* and at most once.                                                       *)
THEOREM ReceptionIsSampleChannel == Spec => SamplesAreLossyFifo
  BY ReceptionUsesQueues, QueueIsSampleChannel, PTL

(* The stream types, too, come in order and at most once.                  *)
THEOREM ReceptionIsTypeChannel == Spec => TypesAreLossyFifo
  BY ReceptionUsesQueues, QueueIsTypeChannel, PTL

(* A reader that shares its topic with no other has the profile the topic  *)
(* chose last whenever the thread is not in its popFrom, unless catch in   *)
(* startBlockingReception ended a call between choice and createReader.    *)
THEOREM ReceptionKeepsProfiles == Spec => []ProfileInForce
  BY ReceptionUsesQueues, ProfileStaysInForce, PTL

(***************************************************************************)
(* The protocol of a session.                                              *)
(***************************************************************************)

(* The callback was called when the thread gets to its inner loop, and not *)
(* before; at "leave" it may still be due.                                 *)
CallbackInv ==
  /\ pc \in PcValues
  /\ callbacks \in {0, 1}
  /\ pc \in {"entered", "loop", "attach", "announce"} => callbacks = 0
  /\ Looping \/ pc = "returned" => callbacks = 1

(* A stop is due only after the callback of a session, hence never where   *)
(* the guard is set back.                                                  *)
StopInv ==
  stopDue => guard /\ callbacks = 1 /\ pc \in {"check", "wait", "serve", "leave", "crashed"}

(* Within a session _receiving is cleared, and once armed the guard set,   *)
(* only by a stop of this session.                                         *)
CauseInv ==
  /\ pc = "loop" /\ ~ receiving => stopped
  /\ pc \in {"announce", "check", "wait", "serve"} /\ guard => stopped
  /\ pc = "leave" => stopped \/ threw \/ ~ initialized

ProtocolInv == CallbackInv /\ StopInv /\ CauseInv

(* No session runs at the start, no callback was called, no stop is due.   *)
LEMMA ProtocolInit == Init => ProtocolInv
  BY DEF Init, ProtocolInv, CallbackInv, StopInv, CauseInv, PcValues, Looping

(* Every step of every thread keeps callbacks, stops and causes together.  *)
LEMMA ProtocolStep == ProtocolInv /\ [Next]_vars => ProtocolInv'
<1> SUFFICES ASSUME ProtocolInv, [Next]_vars PROVE ProtocolInv'
  OBVIOUS
<1> USE DEF ProtocolInv, CallbackInv, StopInv, CauseInv, PcValues, Looping, Running,
            stopVars, waitVars, loopVars, pastVars
<1>1. ASSUME SetReceiving PROVE ProtocolInv'
  BY <1>1 DEF SetReceiving
<1>2. ASSUME EnterLoop PROVE ProtocolInv'
  BY <1>2 DEF EnterLoop
<1>3. ASSUME SkipLoop PROVE ProtocolInv'
  BY <1>3 DEF SkipLoop
<1>4. ASSUME AttachReader PROVE ProtocolInv'
  BY <1>4 DEF AttachReader
<1>5. ASSUME ArmGuard PROVE ProtocolInv'
  BY <1>5 DEF ArmGuard
<1>6. ASSUME Announce PROVE ProtocolInv'
  BY <1>6 DEF Announce
<1>7. ASSUME CheckGuard PROVE ProtocolInv'
  BY <1>7 DEF CheckGuard
<1>8. ASSUME Wait PROVE ProtocolInv'
  BY <1>8 DEF Wait
<1>9. ASSUME WaitOnNull PROVE ProtocolInv'
  BY <1>9 DEF WaitOnNull
<1>10. ASSUME EndServe PROVE ProtocolInv'
  BY <1>10 DEF EndServe
<1>11. ASSUME NextCondition PROVE ProtocolInv'
  BY <1>11 DEF NextCondition
<1>12. ASSUME NEW r \in Readers, ServePop(r) PROVE ProtocolInv'
  BY <1>12 DEF ServePop, receptionVars
<1>13. ASSUME NEW r \in Readers, ServeCreateReader(r) PROVE ProtocolInv'
  BY <1>13 DEF ServeCreateReader
<1>14. ASSUME NEW r \in Readers, ServeEndPop(r) PROVE ProtocolInv'
  BY <1>14 DEF ServeEndPop
<1>15. ASSUME NEW r \in Readers, CatchException(r) PROVE ProtocolInv'
  BY <1>15 DEF CatchException, Serving
<1>16. ASSUME Leave PROVE ProtocolInv'
  BY <1>16 DEF Leave
<1>17. ASSUME NEW r \in Readers, ResetReceiver(r) \/ RemoveReceiver(r) PROVE ProtocolInv'
  BY <1>17 DEF ResetReceiver, RemoveReceiver
<1>18. ASSUME StopReceiving PROVE ProtocolInv'
  BY <1>18 DEF StopReceiving
<1>19. ASSUME TriggerGuard PROVE ProtocolInv'
  <2>1. /\ guard' /\ UNCHANGED <<initialized, receiving, pc, callbacks, threw>>
        /\ stopped' <=> stopped \/ Running
        /\ stopDue' <=> stopDue \/ (Running /\ callbacks > 0)
    BY <1>19, Zenon DEF TriggerGuard
  <2>2. StopInv'
    <3>1. callbacks > 0 => callbacks = 1
      OBVIOUS
    <3> QED BY <2>1, <3>1
  <2> QED BY <2>1, <2>2
<1>20. ASSUME DataArrives PROVE ProtocolInv'
  BY <1>20 DEF DataArrives, receptionVars
<1>21. ASSUME Start PROVE ProtocolInv'
  BY <1>21 DEF Start
<1>22. CASE UNCHANGED vars
  BY <1>22 DEF vars, receptionVars
<1> QED
  BY <1>1, <1>2, <1>3, <1>4, <1>5, <1>6, <1>7, <1>8, <1>9, <1>10, <1>11, <1>12, <1>13,
     <1>14, <1>15, <1>16, <1>17, <1>18, <1>19, <1>20, <1>21, <1>22
     DEF Next, ReceptionStep, OtherThreads

(* The protocol's invariant holds always.                                  *)
LEMMA ProtocolInvariant == Spec => []ProtocolInv
  BY ProtocolInit, ProtocolStep, PTL DEF Spec

(* "RAII ensuring invocation of callback exactly once": at most once while *)
(* a session runs, and once when it has returned, whichever way it ended.  *)
THEOREM CallbackExactlyOnce == Spec => []CallbackOnce
<1>1. ProtocolInv => CallbackOnce
  BY DEF ProtocolInv, CallbackInv, CallbackOnce
<1> QED BY <1>1, ProtocolInvariant, PTL

(* A stop that completes after the callback stays in the guard until the   *)
(* reception has returned.                                                 *)
THEOREM StopNotLost == Spec => []StopIsKept
<1>1. ProtocolInv => StopIsKept
  BY DEF ProtocolInv, StopInv, StopIsKept
<1> QED BY <1>1, ProtocolInvariant, PTL

(* A session ends only by a stop of its own, an exception or for want of a *)
(* collection: the guard that an earlier stop left triggered ends none.    *)
THEOREM NoStaleStop == Spec => []SessionEndsForCause
<1>1. ProtocolInv => SessionEndsForCause
  BY DEF ProtocolInv, CauseInv, SessionEndsForCause
<1> QED BY <1>1, ProtocolInvariant, PTL

(***************************************************************************)
(* The collection and the WaitSet.                                         *)
(***************************************************************************)

(* Removing a reader leaves a sequence of readers.                         *)
LEMMA OthersFacts ==
  ASSUME NEW r \in Readers, collection \in Seq(Readers)
  PROVE  /\ Others(r) \in Seq(Readers)
         /\ r \notin Registered => Others(r) = collection
<1>1. CASE r \notin Registered
  BY <1>1 DEF Others
<1>2. CASE r \in Registered
  <2> DEFINE i == CHOOSE i \in 1..Len(collection) : collection[i] = r
  <2>1. i \in 1..Len(collection) /\ Len(collection) \in Nat
    BY <1>2, LenProperties DEF Registered
  <2>2. \A j \in 1..Len(collection) : collection[j] \in Readers
    BY ElementOfSeq
  <2> HIDE DEF i
  <2>3. SubSeq(collection, 1, i - 1) \in Seq(Readers)
    BY <2>1, <2>2, 1 \in Int, i - 1 \in Int, SubSeqProperties
  <2>4. SubSeq(collection, i + 1, Len(collection)) \in Seq(Readers)
    BY <2>1, <2>2, i + 1 \in Int, Len(collection) \in Int, SubSeqProperties
  <2>5. SubSeq(collection, 1, i - 1) \o SubSeq(collection, i + 1, Len(collection)) \in Seq(Readers)
    BY <2>3, <2>4, ConcatProperties
  <2> QED BY <1>2, <2>5 DEF Others, i
<1> QED BY <1>1, <1>2

(* The number of triggered conditions is a number while finitely many are  *)
(* attached.                                                               *)
LEMMA TriggeredFacts ==
  ASSUME IsFiniteSet(attached)
  PROVE  Triggered \in Nat
<1>1. /\ IsFiniteSet({ r \in attached : SampleReady(r) })
      /\ IsFiniteSet({ r \in attached : TypeReady(r) })
  BY FS_Subset
<1>2. /\ Cardinality({ r \in attached : SampleReady(r) }) \in Nat
      /\ Cardinality({ r \in attached : TypeReady(r) }) \in Nat
  BY <1>1, FS_CardinalityType
<1> QED BY <1>2 DEF Triggered

(* While a session runs the readers it started with stay registered; the   *)
(* loop that attaches has reached at, and what it attached stays so until  *)
(* a recreated reader clears the WaitSet.                                  *)
AttachInv ==
  /\ Running => expected \subseteq Registered
  /\ pc = "attach" => /\ at <= Len(collection) + 1
                      /\ \A i \in 1..Len(collection) : i < at => collection[i] \in attached
  /\ pc \in {"announce", "check", "wait", "serve"} /\ waitset = "set" => expected \subseteq attached

SessionInv == TypeInv /\ SessionTypeOK /\ IsFiniteSet(attached) /\ AttachInv

(* Nothing is registered, attached or running at the start.                *)
LEMMA SessionInit == Init => SessionInv
<1> SUFFICES ASSUME Init PROVE SessionInv
  OBVIOUS
<1>1. TypeInv
  BY TypeInit DEF Init
<1>2. IsFiniteSet(attached)
  BY FS_EmptySet DEF Init
<1>3. <<>> \in Seq(Readers)
  BY EmptySeq
<1>4. SessionTypeOK
  <2>1. /\ initialized \in BOOLEAN /\ collection = <<>> /\ receiving = FALSE /\ guard = FALSE
        /\ stopper = "idle" /\ pc = "unstarted" /\ waitset = "null" /\ attached = {}
        /\ hooked = {} /\ rounds = 0 /\ at = 1 /\ callbacks = 0 /\ stopped = FALSE
        /\ stopDue = FALSE /\ threw = FALSE /\ expected = {}
    BY DEF Init
  <2>2. attached \subseteq Readers /\ hooked \subseteq Readers /\ expected \subseteq Readers
    BY <2>1
  <2>3. rounds \in Nat /\ at \in Nat \ {0} /\ callbacks \in Nat /\ collection \in Seq(Readers)
    BY <1>3, <2>1
  <2>4. stopped \in BOOLEAN /\ stopDue \in BOOLEAN /\ threw \in BOOLEAN
        /\ receiving \in BOOLEAN /\ guard \in BOOLEAN
    BY <2>1
  <2> QED BY <2>1, <2>2, <2>3, <2>4 DEF SessionTypeOK, PcValues
<1>5. AttachInv
  BY DEF Init, AttachInv, Running
<1> QED BY <1>1, <1>2, <1>4, <1>5 DEF SessionInv

(* Every step keeps the types and what the WaitSet has attached.           *)
LEMMA SessionStep == SessionInv /\ [Next]_vars => SessionInv'
<1> SUFFICES ASSUME SessionInv, [Next]_vars PROVE SessionInv'
  OBVIOUS
<1>0. TypeInv'
  BY QueueStep, TypeStep DEF SessionInv
<1> DEFINE Own == SessionTypeOK /\ IsFiniteSet(attached) /\ AttachInv
<1> SUFFICES Own'
  BY <1>0 DEF SessionInv
<1>i. Own
  BY DEF SessionInv
<1>g. collection \in Seq(Readers) /\ Len(collection) \in Nat
  BY <1>i, LenProperties DEF SessionTypeOK
<1> USE <1>i DEF SessionTypeOK, AttachInv, PcValues, Running, Registered,
            stopVars, waitVars, loopVars, pastVars
<1>1. ASSUME SetReceiving PROVE Own'
  BY <1>1 DEF SetReceiving
<1>2. ASSUME EnterLoop PROVE Own'
  BY <1>2, FS_EmptySet DEF EnterLoop
<1>3. ASSUME SkipLoop PROVE Own'
  BY <1>3 DEF SkipLoop
<1>4. ASSUME AttachReader PROVE Own'
  <2>1. collection[at] \in Readers
    BY <1>4, <1>g, ElementOfSeq DEF AttachReader
  <2>2. IsFiniteSet(attached')
    BY <1>4, FS_AddElement DEF AttachReader
  <2>3. SessionTypeOK'
    BY <1>4, <2>1 DEF AttachReader
  <2>4. AttachInv'
    BY <1>4, <1>g DEF AttachReader
  <2> QED BY <2>2, <2>3, <2>4
<1>5. ASSUME ArmGuard PROVE Own'
  <2>1. Registered \subseteq attached
    BY <1>5, <1>g DEF ArmGuard
  <2> QED BY <1>5, <2>1 DEF ArmGuard
<1>6. ASSUME Announce PROVE Own'
  BY <1>6 DEF Announce
<1>7. ASSUME CheckGuard PROVE Own'
  BY <1>7 DEF CheckGuard
<1>8. ASSUME Wait PROVE Own'
  BY <1>8, TriggeredFacts DEF Wait
<1>9. ASSUME WaitOnNull PROVE Own'
  BY <1>9 DEF WaitOnNull
<1>10. ASSUME EndServe PROVE Own'
  BY <1>10 DEF EndServe
<1>11. ASSUME NextCondition PROVE Own'
  BY <1>11 DEF NextCondition
<1>12. ASSUME NEW r \in Readers, ServePop(r) PROVE Own'
  BY <1>12 DEF ServePop, receptionVars
<1>13. ASSUME NEW r \in Readers, ServeCreateReader(r) PROVE Own'
  <2>1. /\ pc = "serve" /\ attached' = attached \ {r} /\ waitset' \in HookOutcomes(r)
        /\ UNCHANGED <<initialized, collection, stopVars, pc, hooked, loopVars, pastVars>>
    BY <1>13 DEF ServeCreateReader, Serving
  <2>2. waitset' \in {"null", waitset} /\ (r \in attached => waitset' = "null")
    BY <2>1 DEF HookOutcomes
  <2>3. IsFiniteSet(attached')
    BY <2>1, FS_Subset
  <2>4. AttachInv'
    BY <2>1, <2>2
  <2> QED BY <2>1, <2>2, <2>3, <2>4
<1>14. ASSUME NEW r \in Readers, ServeEndPop(r) PROVE Own'
  BY <1>14 DEF ServeEndPop, Serving
<1>15. ASSUME NEW r \in Readers, CatchException(r) PROVE Own'
  BY <1>15 DEF CatchException, Serving
<1>16. ASSUME Leave PROVE Own'
  <2>1. IsFiniteSet(attached')
    BY <1>16, FS_EmptySet DEF Leave
  <2>2. SessionTypeOK'
    <3>1. callbacks' \in Nat
      BY <1>16 DEF Leave
    <3>2. /\ pc' = "returned" /\ waitset' = "null" /\ attached' = {} /\ rounds' = 0
          /\ at' = 1 /\ stopDue' = FALSE
          /\ UNCHANGED <<initialized, collection, stopVars, hooked, stopped, threw, expected>>
      BY <1>16 DEF Leave
    <3>3. attached' \subseteq Readers /\ rounds' \in Nat /\ at' \in Nat \ {0}
      BY <3>2
    <3> QED BY <3>1, <3>2, <3>3
  <2>3. AttachInv'
    BY <1>16 DEF Leave
  <2> QED BY <2>1, <2>2, <2>3
<1>17. ASSUME NEW r \in Readers, ResetReceiver(r) PROVE Own'
  <2>1. /\ collection' = Append(Others(r), r) /\ (r \in Registered => ~ Running)
        /\ UNCHANGED <<initialized, stopVars, pc, waitVars, loopVars, pastVars>>
    BY <1>17 DEF ResetReceiver
  <2>2. collection' \in Seq(Readers)
    BY <2>1, <1>g, OthersFacts, AppendProperties
  <2>3. ASSUME Running
        PROVE  /\ Len(collection') = Len(collection) + 1
               /\ \A i \in 1..Len(collection) : collection'[i] = collection[i]
    <3>1. collection' = Append(collection, r)
      BY <2>1, <2>3, <1>g, OthersFacts
    <3> QED BY <3>1, <1>g, AppendProperties
  <2>4. Running => Registered \subseteq Registered'
    <3>1. ASSUME Running, NEW i \in 1..Len(collection)
          PROVE  \E j \in 1..Len(collection') : collection'[j] = collection[i]
      BY <2>3, <3>1, <1>g
    <3> QED BY <3>1
  <2>5. AttachInv'
    <3>1. Running => expected' \subseteq Registered'
      BY <2>1, <2>4
    <3>2. pc' = "attach" => /\ at <= Len(collection') + 1
                            /\ \A i \in 1..Len(collection') : i < at => collection'[i] \in attached
      BY <2>1, <2>3, <1>g
    <3> QED BY <2>1, <3>1, <3>2
  <2> QED BY <2>1, <2>2, <2>5
<1>18. ASSUME NEW r \in Readers, RemoveReceiver(r) PROVE Own'
  <2>1. collection' \in Seq(Readers)
    BY <1>18, <1>g, OthersFacts DEF RemoveReceiver
  <2> QED BY <1>18, <2>1 DEF RemoveReceiver
<1>19. ASSUME StopReceiving PROVE Own'
  BY <1>19 DEF StopReceiving
<1>20. ASSUME TriggerGuard PROVE Own'
  BY <1>20 DEF TriggerGuard
<1>21. ASSUME DataArrives PROVE Own'
  BY <1>21 DEF DataArrives, receptionVars
<1>22. ASSUME Start PROVE Own'
  <2>1. Registered \subseteq Readers
    BY <1>g, ElementOfSeq
  <2> QED BY <1>22, <2>1 DEF Start
<1>23. CASE UNCHANGED vars
  BY <1>23 DEF vars, receptionVars
<1> HIDE DEF Own
<1> QED
  BY <1>1, <1>2, <1>3, <1>4, <1>5, <1>6, <1>7, <1>8, <1>9, <1>10, <1>11, <1>12, <1>13,
     <1>14, <1>15, <1>16, <1>17, <1>18, <1>19, <1>20, <1>21, <1>22, <1>23
     DEF Next, ReceptionStep, OtherThreads

(* The session's invariant holds always.                                   *)
LEMMA SessionInvariant == Spec => []SessionInv
  BY SessionInit, SessionStep, PTL DEF Spec

(* The variables of the reception keep their types; rounds never counts    *)
(* below zero.                                                             *)
THEOREM ReceptionTypeCorrect == Spec => []ReceptionTypeOK
<1>1. SessionInv => ReceptionTypeOK
  BY DEF SessionInv, TypeInv, ReceptionTypeOK
<1> QED BY <1>1, SessionInvariant, PTL

(* The thread never waits on a set that lacks the current DDS reader of a  *)
(* receiver registered before the start: recreating a reader clears the    *)
(* WaitSet that holds the closed one.                                      *)
THEOREM NoWaitOnClosedReader == Spec => []WaitsOnCurrentReaders
<1>1. SessionInv => WaitsOnCurrentReaders
  BY DEF SessionInv, AttachInv, WaitsOnCurrentReaders
<1> QED BY <1>1, SessionInvariant, PTL

(***************************************************************************)
(* When the thread runs until it is stopped: the condition on the peers    *)
(* under which the two statements of the source that it does not keep in   *)
(* general are true.                                                       *)
(***************************************************************************)

(* The caches of the reception hold only what its peers published.         *)
LEMMA ReceptionIsPublished == Spec => []PublishedInv
<1>1. QueueSpec => []PublishedInv
  BY PublishedInit, PublishedStep, PTL DEF QueueSpec
<1> QED BY <1>1, ReceptionUsesQueues, PTL

(* The thread catches no exception where the peers' types parse.           *)
LEMMA QuietStep ==
  ASSUME ReadableTypes
  PROVE  PublishedInv /\ ~ threw /\ [Next]_vars => ~ threw'
<1> SUFFICES ASSUME PublishedInv, ~ threw, [Next]_vars PROVE ~ threw'
  OBVIOUS
<1>1. ASSUME NEW r \in Readers PROVE ~ CatchException(r)
  BY NoPopThrows DEF CatchException
<1>2. ASSUME \/ SetReceiving \/ EnterLoop \/ SkipLoop \/ AttachReader \/ ArmGuard
             \/ Announce \/ CheckGuard \/ Wait \/ WaitOnNull \/ EndServe \/ NextCondition
             \/ Leave
      PROVE  UNCHANGED threw
  BY <1>2 DEF SetReceiving, EnterLoop, SkipLoop, AttachReader, ArmGuard, Announce,
              CheckGuard, Wait, WaitOnNull, EndServe, NextCondition, Leave, pastVars
<1>3. ASSUME NEW r \in Readers, ServePop(r) \/ ServeCreateReader(r) \/ ServeEndPop(r)
      PROVE  UNCHANGED threw
  BY <1>3 DEF ServePop, ServeCreateReader, ServeEndPop, receptionVars, pastVars
<1>4. ASSUME \/ \E r \in Readers : ResetReceiver(r) \/ RemoveReceiver(r)
             \/ StopReceiving \/ TriggerGuard \/ DataArrives
      PROVE  UNCHANGED threw
  BY <1>4 DEF ResetReceiver, RemoveReceiver, StopReceiving, TriggerGuard, DataArrives,
              receptionVars, pastVars
<1>5. ASSUME Start PROVE ~ threw'
  BY <1>5 DEF Start
<1>6. CASE UNCHANGED vars
  BY <1>6 DEF vars, receptionVars, pastVars
<1> QED BY <1>1, <1>2, <1>3, <1>4, <1>5, <1>6 DEF Next, ReceptionStep, OtherThreads

(* "Run until ::stop was called" is true of the thread as long as no peer  *)
(* publishes a stream type with a size that std::stoi refuses; a run shows *)
(* that one such type is enough to make it false.                          *)
THEOREM ReadableTypesRunUntilStop ==
  ASSUME ReadableTypes
  PROVE  Spec => []RunsUntilStop
<1>1. Init => ~ threw
  BY DEF Init
<1>2. Spec => []~ threw
  BY <1>1, QuietStep, ReceptionIsPublished, PTL DEF Spec
<1>3. ProtocolInv /\ ~ threw => RunsUntilStop
  BY DEF ProtocolInv, CauseInv, RunsUntilStop
<1> QED BY <1>2, <1>3, ProtocolInvariant, PTL

(* The local waitset points to a WaitSet from the attach loop on.          *)
UsableInv ==
  /\ pc # "crashed"
  /\ pc \in {"attach", "announce", "check", "wait", "serve"} => waitset = "set"

(* Where no reader is recreated no step takes the WaitSet away.            *)
LEMMA UsableStep ==
  ASSUME OneProfile
  PROVE  SteadyInv /\ UsableInv /\ [Next]_vars => UsableInv'
<1> SUFFICES ASSUME SteadyInv, UsableInv, [Next]_vars PROVE UsableInv'
  OBVIOUS
<1> USE DEF UsableInv
<1>1. ASSUME NEW r \in Readers PROVE ~ ServeCreateReader(r)
  BY DEF ServeCreateReader, createReader, SteadyInv
<1>2. ASSUME \/ SetReceiving \/ SkipLoop \/ AttachReader \/ ArmGuard \/ Announce
             \/ CheckGuard \/ Wait \/ EndServe \/ NextCondition
      PROVE  UsableInv'
  BY <1>2 DEF SetReceiving, SkipLoop, AttachReader, ArmGuard, Announce, CheckGuard, Wait,
              EndServe, NextCondition, waitVars
<1>3. ASSUME EnterLoop \/ Leave \/ Start PROVE UsableInv'
  BY <1>3 DEF EnterLoop, Leave, Start
<1>4. ASSUME WaitOnNull PROVE UsableInv'
  BY <1>4 DEF WaitOnNull
<1>5. ASSUME NEW r \in Readers, ServePop(r) \/ ServeEndPop(r) \/ CatchException(r)
      PROVE  UsableInv'
  BY <1>5 DEF ServePop, ServeEndPop, CatchException, receptionVars, waitVars
<1>6. ASSUME \/ \E r \in Readers : ResetReceiver(r) \/ RemoveReceiver(r)
             \/ StopReceiving \/ TriggerGuard \/ DataArrives
      PROVE  UNCHANGED <<pc, waitset>>
  BY <1>6 DEF ResetReceiver, RemoveReceiver, StopReceiving, TriggerGuard, DataArrives,
              receptionVars, waitVars
<1>7. CASE UNCHANGED vars
  BY <1>7 DEF vars, receptionVars, waitVars
<1> QED
  BY <1>1, <1>2, <1>3, <1>4, <1>5, <1>6, <1>7 DEF Next, ReceptionStep, OtherThreads

(* The thread never waits on the pointer that a hook cleared as long as no *)
(* peer publishes a stream type that asks for another profile, however     *)
(* many types arrive; a run shows that one such type ends the process.     *)
THEOREM OneProfileKeepsWaitSet ==
  ASSUME OneProfile
  PROVE  Spec => []WaitSetIsUsable
<1>1. Init => UsableInv
  BY DEF Init, UsableInv
<1>2. QueueSpec => []SteadyInv
  BY SteadyInit, SteadyStep, PTL DEF QueueSpec
<1>3. Spec => []UsableInv
  BY <1>1, <1>2, UsableStep, ReceptionUsesQueues, PTL DEF Spec
<1>4. UsableInv => WaitSetIsUsable
  BY DEF UsableInv, WaitSetIsUsable
<1> QED BY <1>3, <1>4, PTL
=============================================================================
