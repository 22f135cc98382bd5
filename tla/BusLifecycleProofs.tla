------------------------- MODULE BusLifecycleProofs -------------------------
(* Theorems about BusLifecycle, for any number of buses, names, handles    *)
(* and attempts at initialize.                                             *)
EXTENDS BusLifecycle, TLAPS

(* The section of initialize that holds the mutex.                         *)
InSection(b) == pc[b] \in {"info", "participant"}

(* Who is in the section holds the mutex, and nobody else does.            *)
MutexInv == \A b \in Buses : InSection(b) <=> lock = b

(* What the objects of a bus tell of its phase: outside of a complete      *)
(* initialize it has none, and within one they come in their order.        *)
PhaseInv ==
  \A b \in Buses :
    /\ pc[b] # "idle" => phase[b] = "created"
    /\ phase[b] = "initialized" =>
         /\ participant[b] = attempts[b]
         /\ collection[b] = attempts[b]
    /\ phase[b] # "initialized" => collection[b] = 0
    /\ pc[b] = "collection" => participant[b] = attempts[b]
    /\ phase[b] # "initialized" /\ pc[b] # "collection" => participant[b] = 0
    /\ phase[b] = "initialized" \/ pc[b] \in {"participant", "collection"} =>
         busInfo[b] /\ builtIn[b]

(* Participants in use exist, and topics and handles use those.            *)
ObjectInv ==
  /\ \A b \in Buses : participant[b] # 0 => <<b, participant[b]>> \in live
  /\ TopicsAreCurrent
  /\ HandlesStandOnLive

(* A reader never refers to the collection of an attempt still to be       *)
(* completed, so that an iterator never comes to life in a later one.      *)
Completed(b) == IF pc[b] = "idle" THEN attempts[b] ELSE attempts[b] - 1

IteratorInv ==
  /\ \A r \in Readers : reader[r].within <= Completed(BusOf[r])
  /\ IteratorIsValid

IInv == LifecycleTypeOK /\ MutexInv /\ PhaseInv /\ ObjectInv /\ IteratorInv
-----------------------------------------------------------------------------
(* Every step keeps the types.                                             *)
LEMMA TypeStep ==
  LifecycleTypeOK /\ [Next]_vars => LifecycleTypeOK'
<1> SUFFICES ASSUME LifecycleTypeOK, [Next]_vars PROVE LifecycleTypeOK'
  OBVIOUS
<1> USE LifecycleAssumption DEF LifecycleTypeOK, ReaderState, Handles,
        initVars, objectVars, handleVars
<1>1. ASSUME NEW b \in Buses, create(b)
     PROVE  LifecycleTypeOK'
  BY <1>1 DEF create
<1>2. ASSUME NEW b \in Buses, destroy(b)
     PROVE  LifecycleTypeOK'
  BY <1>2 DEF destroy
<1>3. ASSUME NEW b \in Buses, initialize(b)
     PROVE  LifecycleTypeOK'
  BY <1>3 DEF initialize
<1>4. ASSUME NEW b \in Buses, ReadProfileFile(b)
     PROVE  LifecycleTypeOK'
  BY <1>4 DEF ReadProfileFile, Goto
<1>5. ASSUME NEW b \in Buses, CheckSettings(b)
     PROVE  LifecycleTypeOK'
  BY <1>5 DEF CheckSettings, Goto
<1>6. ASSUME NEW b \in Buses, RejectSettings(b)
     PROVE  LifecycleTypeOK'
  BY <1>6 DEF RejectSettings, Goto
<1>7. ASSUME NEW b \in Buses, EnterSection(b)
     PROVE  LifecycleTypeOK'
  BY <1>7 DEF EnterSection, Goto
<1>8. ASSUME NEW b \in Buses, initBusInfo(b)
     PROVE  LifecycleTypeOK'
  BY <1>8 DEF initBusInfo, Goto
<1>9. ASSUME NEW b \in Buses, UserDataTooLong(b)
     PROVE  LifecycleTypeOK'
  BY <1>9 DEF UserDataTooLong, Goto
<1>10. ASSUME NEW b \in Buses, CreateParticipant(b)
      PROVE  LifecycleTypeOK'
  BY <1>10 DEF CreateParticipant, Goto
<1>11. ASSUME NEW b \in Buses, NoParticipant(b)
      PROVE  LifecycleTypeOK'
  BY <1>11 DEF NoParticipant
<1>12. ASSUME NEW b \in Buses, createDataAccessCollection(b)
      PROVE  LifecycleTypeOK'
  BY <1>12 DEF createDataAccessCollection, Goto
<1>13. ASSUME NEW b \in Buses, deinitialize(b)
      PROVE  LifecycleTypeOK'
  BY <1>13 DEF deinitialize
<1>14. ASSUME NEW b \in Buses, NEW n \in Names, getWriterWithCapacity(b, n)
      PROVE  LifecycleTypeOK'
  BY <1>14 DEF getWriterWithCapacity, getOrCreateTopic, CanGet
<1>15. ASSUME NEW r \in Readers, getReader(r)
      PROVE  LifecycleTypeOK'
  <2>1. getOrCreateTopic(BusOf[r], NameOf[r]) \in Nat
    BY DEF getOrCreateTopic
  <2>2. reader' \in [Readers -> ReaderState]
    BY <1>15, <2>1 DEF getReader
  <2>3. topics' \in [Buses -> [Names -> Nat]]
    BY <1>15, <2>1 DEF getReader
  <2>4. received' \in [Readers -> SUBSET {SystemOf[a] : a \in Buses}]
    BY <1>15 DEF getReader
  <2> QED BY <1>15, <2>2, <2>3, <2>4 DEF getReader
<1>16. ASSUME NEW r \in Readers, NEW receiver \in BOOLEAN, reset(r, receiver)
      PROVE  LifecycleTypeOK'
  <2>1. reader' \in [Readers -> ReaderState]
    <3>1. \A flag \in BOOLEAN :
            [reader EXCEPT ![r].registered = flag] \in [Readers -> ReaderState]
      OBVIOUS
    <3>2. (Locks(r) /\ receiver) \in BOOLEAN
      BY DEF Locks
    <3>3. reader' = [reader EXCEPT ![r].registered = Locks(r) /\ receiver]
      BY <1>16 DEF reset
    <3> HIDE DEF ReaderState, LifecycleTypeOK
    <3> QED BY <3>1, <3>2, <3>3
  <2>2. /\ entries' \in [Buses -> SUBSET Readers]
        /\ \A b \in Buses : \A q \in entries'[b] : BusOf[q] = b
    BY <1>16 DEF reset, Handles
  <2> QED BY <1>16, <2>1, <2>2 DEF reset
<1>17. ASSUME NEW r \in Readers, DropReader(r)
      PROVE  LifecycleTypeOK'
  <2>1. reader' \in [Readers -> ReaderState]
    BY <1>17 DEF DropReader, NoReader
  <2> QED BY <1>17, <2>1 DEF DropReader
<1>18. ASSUME NEW w \in Writers, getWriter(w)
      PROVE  LifecycleTypeOK'
  BY <1>18 DEF getWriter, getOrCreateTopic, CanGet
<1>19. ASSUME NEW w \in Writers, DropWriter(w)
      PROVE  LifecycleTypeOK'
  BY <1>19 DEF DropWriter
<1>20. ASSUME NEW w \in Writers, write(w)
      PROVE  LifecycleTypeOK'
  <2>1. received' \in [Readers -> SUBSET {SystemOf[a] : a \in Buses}]
    <3>1. BusOf[w] \in Buses
      BY DEF Handles
    <3> QED BY <1>20, <3>1 DEF write
  <2> QED BY <1>20, <2>1 DEF write
<1>21. CASE UNCHANGED vars
  BY <1>21 DEF vars
<1> HIDE DEF LifecycleTypeOK, ReaderState, Handles, initVars, objectVars,
             handleVars
<1> QED BY <1>1, <1>2, <1>3, <1>4, <1>5, <1>6, <1>7, <1>8, <1>9, <1>10, <1>11,
           <1>12, <1>13, <1>14, <1>15, <1>16, <1>17, <1>18, <1>19, <1>20,
           <1>21 DEF Next, InitializeStep

(* Every step that enters the section takes the mutex, and every step that  *)
(* leaves it gives it back.                                                *)
LEMMA MutexStep ==
  LifecycleTypeOK /\ MutexInv /\ [Next]_vars => MutexInv'
<1> SUFFICES ASSUME LifecycleTypeOK, MutexInv, [Next]_vars PROVE MutexInv'
  OBVIOUS
<1> USE LifecycleAssumption DEF LifecycleTypeOK, MutexInv, InSection,
        initVars, objectVars, handleVars
<1>1. ASSUME NEW b \in Buses, create(b)
     PROVE  MutexInv'
  BY <1>1 DEF create
<1>2. ASSUME NEW b \in Buses, destroy(b)
     PROVE  MutexInv'
  BY <1>2 DEF destroy
<1>3. ASSUME NEW b \in Buses, initialize(b)
     PROVE  MutexInv'
  BY <1>3 DEF initialize
<1>4. ASSUME NEW b \in Buses, ReadProfileFile(b)
     PROVE  MutexInv'
  BY <1>4 DEF ReadProfileFile, Goto
<1>5. ASSUME NEW b \in Buses, CheckSettings(b)
     PROVE  MutexInv'
  BY <1>5 DEF CheckSettings, Goto
<1>6. ASSUME NEW b \in Buses, RejectSettings(b)
     PROVE  MutexInv'
  BY <1>6 DEF RejectSettings, Goto
<1>7. ASSUME NEW b \in Buses, EnterSection(b)
     PROVE  MutexInv'
  BY <1>7 DEF EnterSection, Goto
<1>8. ASSUME NEW b \in Buses, initBusInfo(b)
     PROVE  MutexInv'
  BY <1>8 DEF initBusInfo, Goto
<1>9. ASSUME NEW b \in Buses, UserDataTooLong(b)
     PROVE  MutexInv'
  BY <1>9 DEF UserDataTooLong, Goto
<1>10. ASSUME NEW b \in Buses, CreateParticipant(b)
      PROVE  MutexInv'
  BY <1>10 DEF CreateParticipant, Goto
<1>11. ASSUME NEW b \in Buses, NoParticipant(b)
      PROVE  MutexInv'
  BY <1>11 DEF NoParticipant
<1>12. ASSUME NEW b \in Buses, createDataAccessCollection(b)
      PROVE  MutexInv'
  BY <1>12 DEF createDataAccessCollection, Goto
<1>13. ASSUME NEW b \in Buses, deinitialize(b)
      PROVE  MutexInv'
  BY <1>13 DEF deinitialize
<1>14. ASSUME NEW b \in Buses, NEW n \in Names, getWriterWithCapacity(b, n)
      PROVE  MutexInv'
  BY <1>14 DEF getWriterWithCapacity, getOrCreateTopic, CanGet
<1>15. ASSUME NEW r \in Readers, getReader(r)
      PROVE  MutexInv'
  BY <1>15 DEF getReader, getOrCreateTopic, CanGet, NoReader
<1>16. ASSUME NEW r \in Readers, NEW receiver \in BOOLEAN, reset(r, receiver)
      PROVE  MutexInv'
  BY <1>16 DEF reset, Locks, NoReader
<1>17. ASSUME NEW r \in Readers, DropReader(r)
      PROVE  MutexInv'
  BY <1>17 DEF DropReader, NoReader
<1>18. ASSUME NEW w \in Writers, getWriter(w)
      PROVE  MutexInv'
  BY <1>18 DEF getWriter, getOrCreateTopic, CanGet
<1>19. ASSUME NEW w \in Writers, DropWriter(w)
      PROVE  MutexInv'
  BY <1>19 DEF DropWriter
<1>20. ASSUME NEW w \in Writers, write(w)
      PROVE  MutexInv'
  BY <1>20 DEF write
<1>21. CASE UNCHANGED vars
  BY <1>21 DEF vars
<1> HIDE DEF LifecycleTypeOK, MutexInv, InSection, initVars, objectVars,
             handleVars
<1> QED BY <1>1, <1>2, <1>3, <1>4, <1>5, <1>6, <1>7, <1>8, <1>9, <1>10, <1>11,
           <1>12, <1>13, <1>14, <1>15, <1>16, <1>17, <1>18, <1>19, <1>20,
           <1>21 DEF Next, InitializeStep

(* Every step keeps phases and objects in agreement.                       *)
LEMMA PhaseStep ==
  LifecycleTypeOK /\ PhaseInv /\ [Next]_vars => PhaseInv'
<1> SUFFICES ASSUME LifecycleTypeOK, PhaseInv, [Next]_vars PROVE PhaseInv'
  OBVIOUS
<1> USE LifecycleAssumption DEF LifecycleTypeOK, PhaseInv, initVars,
        objectVars, handleVars
<1>1. ASSUME NEW b \in Buses, create(b)
     PROVE  PhaseInv'
  BY <1>1 DEF create
<1>2. ASSUME NEW b \in Buses, destroy(b)
     PROVE  PhaseInv'
  BY <1>2 DEF destroy
<1>3. ASSUME NEW b \in Buses, initialize(b)
     PROVE  PhaseInv'
  BY <1>3 DEF initialize
<1>4. ASSUME NEW b \in Buses, ReadProfileFile(b)
     PROVE  PhaseInv'
  BY <1>4 DEF ReadProfileFile, Goto
<1>5. ASSUME NEW b \in Buses, CheckSettings(b)
     PROVE  PhaseInv'
  BY <1>5 DEF CheckSettings, Goto
<1>6. ASSUME NEW b \in Buses, RejectSettings(b)
     PROVE  PhaseInv'
  BY <1>6 DEF RejectSettings, Goto
<1>7. ASSUME NEW b \in Buses, EnterSection(b)
     PROVE  PhaseInv'
  BY <1>7 DEF EnterSection, Goto
<1>8. ASSUME NEW b \in Buses, initBusInfo(b)
     PROVE  PhaseInv'
  BY <1>8 DEF initBusInfo, Goto
<1>9. ASSUME NEW b \in Buses, UserDataTooLong(b)
     PROVE  PhaseInv'
  BY <1>9 DEF UserDataTooLong, Goto
<1>10. ASSUME NEW b \in Buses, CreateParticipant(b)
      PROVE  PhaseInv'
  BY <1>10 DEF CreateParticipant, Goto
<1>11. ASSUME NEW b \in Buses, NoParticipant(b)
      PROVE  PhaseInv'
  BY <1>11 DEF NoParticipant
<1>12. ASSUME NEW b \in Buses, createDataAccessCollection(b)
      PROVE  PhaseInv'
  BY <1>12 DEF createDataAccessCollection, Goto
<1>13. ASSUME NEW b \in Buses, deinitialize(b)
      PROVE  PhaseInv'
  BY <1>13 DEF deinitialize
<1>14. ASSUME NEW b \in Buses, NEW n \in Names, getWriterWithCapacity(b, n)
      PROVE  PhaseInv'
  BY <1>14 DEF getWriterWithCapacity, getOrCreateTopic, CanGet
<1>15. ASSUME NEW r \in Readers, getReader(r)
      PROVE  PhaseInv'
  BY <1>15 DEF getReader, getOrCreateTopic, CanGet, NoReader
<1>16. ASSUME NEW r \in Readers, NEW receiver \in BOOLEAN, reset(r, receiver)
      PROVE  PhaseInv'
  BY <1>16 DEF reset, Locks, NoReader
<1>17. ASSUME NEW r \in Readers, DropReader(r)
      PROVE  PhaseInv'
  BY <1>17 DEF DropReader, NoReader
<1>18. ASSUME NEW w \in Writers, getWriter(w)
      PROVE  PhaseInv'
  BY <1>18 DEF getWriter, getOrCreateTopic, CanGet
<1>19. ASSUME NEW w \in Writers, DropWriter(w)
      PROVE  PhaseInv'
  BY <1>19 DEF DropWriter
<1>20. ASSUME NEW w \in Writers, write(w)
      PROVE  PhaseInv'
  BY <1>20 DEF write
<1>21. CASE UNCHANGED vars
  BY <1>21 DEF vars
<1> HIDE DEF LifecycleTypeOK, PhaseInv, initVars, objectVars, handleVars
<1> QED BY <1>1, <1>2, <1>3, <1>4, <1>5, <1>6, <1>7, <1>8, <1>9, <1>10, <1>11,
           <1>12, <1>13, <1>14, <1>15, <1>16, <1>17, <1>18, <1>19, <1>20,
           <1>21 DEF Next, InitializeStep

(* Every step leaves topics and handles on participants that exist.        *)
LEMMA ObjectStep ==
  LifecycleTypeOK /\ PhaseInv /\ ObjectInv /\ [Next]_vars => ObjectInv'
<1> SUFFICES ASSUME LifecycleTypeOK, PhaseInv, ObjectInv, [Next]_vars PROVE ObjectInv'
  OBVIOUS
<1> USE LifecycleAssumption DEF LifecycleTypeOK, PhaseInv, ObjectInv,
        TopicsAreCurrent, HandlesStandOnLive, Handles, initVars, objectVars,
        handleVars
<1>1. ASSUME NEW b \in Buses, create(b)
     PROVE  ObjectInv'
  BY <1>1 DEF create
<1>2. ASSUME NEW b \in Buses, destroy(b)
     PROVE  ObjectInv'
  BY <1>2 DEF destroy
<1>3. ASSUME NEW b \in Buses, initialize(b)
     PROVE  ObjectInv'
  BY <1>3 DEF initialize
<1>4. ASSUME NEW b \in Buses, ReadProfileFile(b)
     PROVE  ObjectInv'
  BY <1>4 DEF ReadProfileFile, Goto
<1>5. ASSUME NEW b \in Buses, CheckSettings(b)
     PROVE  ObjectInv'
  BY <1>5 DEF CheckSettings, Goto
<1>6. ASSUME NEW b \in Buses, RejectSettings(b)
     PROVE  ObjectInv'
  BY <1>6 DEF RejectSettings, Goto
<1>7. ASSUME NEW b \in Buses, EnterSection(b)
     PROVE  ObjectInv'
  BY <1>7 DEF EnterSection, Goto
<1>8. ASSUME NEW b \in Buses, initBusInfo(b)
     PROVE  ObjectInv'
  BY <1>8 DEF initBusInfo, Goto
<1>9. ASSUME NEW b \in Buses, UserDataTooLong(b)
     PROVE  ObjectInv'
  BY <1>9 DEF UserDataTooLong, Goto
<1>10. ASSUME NEW b \in Buses, CreateParticipant(b)
      PROVE  ObjectInv'
  BY <1>10 DEF CreateParticipant, Goto
<1>11. ASSUME NEW b \in Buses, NoParticipant(b)
      PROVE  ObjectInv'
  BY <1>11 DEF NoParticipant
<1>12. ASSUME NEW b \in Buses, createDataAccessCollection(b)
      PROVE  ObjectInv'
  BY <1>12 DEF createDataAccessCollection, Goto
<1>13. ASSUME NEW b \in Buses, deinitialize(b)
      PROVE  ObjectInv'
  BY <1>13 DEF deinitialize
<1>14. ASSUME NEW b \in Buses, NEW n \in Names, getWriterWithCapacity(b, n)
      PROVE  ObjectInv'
  BY <1>14 DEF getWriterWithCapacity, getOrCreateTopic, CanGet
<1>15. ASSUME NEW r \in Readers, getReader(r)
      PROVE  ObjectInv'
  <2> DEFINE b == BusOf[r]
             n == NameOf[r]
  <2>1. b \in Buses /\ n \in Names
    OBVIOUS
  <2>2. /\ getOrCreateTopic(b, n) = participant[b]
        /\ <<b, participant[b]>> \in live
    BY <1>15, <2>1 DEF getReader, getOrCreateTopic, CanGet
  <2>3. TopicsAreCurrent'
    BY <1>15, <2>1, <2>2 DEF getReader
  <2>4. HandlesStandOnLive'
    <3>1. \A q \in Readers : q # r => reader'[q] = reader[q]
      BY <1>15 DEF getReader
    <3>2. reader'[r].on = participant[b]
      BY <1>15, <2>2 DEF getReader
    <3>3. UNCHANGED <<live, writer>>
      BY <1>15 DEF getReader
    <3>4. ASSUME NEW q \in Readers, reader'[q] # NoReader
          PROVE  <<BusOf[q], reader'[q].on>> \in live'
      BY <2>2, <3>1, <3>2, <3>3, <3>4
    <3> QED BY <3>3, <3>4
  <2> QED BY <1>15, <2>3, <2>4 DEF getReader
<1>16. ASSUME NEW r \in Readers, NEW receiver \in BOOLEAN, reset(r, receiver)
      PROVE  ObjectInv'
  <2>1. \A q \in Readers : reader'[q] # NoReader => reader[q] # NoReader
    BY <1>16 DEF reset
  <2>2. \A q \in Readers : reader'[q].on = reader[q].on
    BY <1>16 DEF reset, ReaderState
  <2> QED BY <1>16, <2>1, <2>2 DEF reset
<1>17. ASSUME NEW r \in Readers, DropReader(r)
      PROVE  ObjectInv'
  BY <1>17 DEF DropReader, NoReader
<1>18. ASSUME NEW w \in Writers, getWriter(w)
      PROVE  ObjectInv'
  BY <1>18 DEF getWriter, getOrCreateTopic, CanGet
<1>19. ASSUME NEW w \in Writers, DropWriter(w)
      PROVE  ObjectInv'
  BY <1>19 DEF DropWriter
<1>20. ASSUME NEW w \in Writers, write(w)
      PROVE  ObjectInv'
  <2>1. UNCHANGED <<participant, live, topics, reader, writer>>
    BY <1>20 DEF write
  <2> QED BY <2>1
<1>21. CASE UNCHANGED vars
  BY <1>21 DEF vars
<1> HIDE DEF LifecycleTypeOK, PhaseInv, ObjectInv, TopicsAreCurrent,
             HandlesStandOnLive, Handles, initVars, objectVars, handleVars
<1> QED BY <1>1, <1>2, <1>3, <1>4, <1>5, <1>6, <1>7, <1>8, <1>9, <1>10, <1>11,
           <1>12, <1>13, <1>14, <1>15, <1>16, <1>17, <1>18, <1>19, <1>20,
           <1>21 DEF Next, InitializeStep

(* Every step keeps the iterators of the present collections valid.        *)
LEMMA IteratorStep ==
  LifecycleTypeOK /\ PhaseInv /\ IteratorInv /\ [Next]_vars => IteratorInv'
<1> SUFFICES ASSUME LifecycleTypeOK, PhaseInv, IteratorInv, [Next]_vars PROVE IteratorInv'
  OBVIOUS
<1> USE LifecycleAssumption DEF LifecycleTypeOK, PhaseInv, IteratorInv,
        IteratorIsValid, Completed, ReaderState, Handles, initVars,
        objectVars, handleVars
<1>1. ASSUME NEW b \in Buses, create(b)
     PROVE  IteratorInv'
  BY <1>1 DEF create, Locks
<1>2. ASSUME NEW b \in Buses, destroy(b)
     PROVE  IteratorInv'
  BY <1>2 DEF destroy, Locks
<1>3. ASSUME NEW b \in Buses, initialize(b)
     PROVE  IteratorInv'
  BY <1>3 DEF initialize, Locks
<1>4. ASSUME NEW b \in Buses, ReadProfileFile(b)
     PROVE  IteratorInv'
  BY <1>4 DEF ReadProfileFile, Goto, Locks
<1>5. ASSUME NEW b \in Buses, CheckSettings(b)
     PROVE  IteratorInv'
  BY <1>5 DEF CheckSettings, Goto, Locks
<1>6. ASSUME NEW b \in Buses, RejectSettings(b)
     PROVE  IteratorInv'
  BY <1>6 DEF RejectSettings, Goto, Locks
<1>7. ASSUME NEW b \in Buses, EnterSection(b)
     PROVE  IteratorInv'
  BY <1>7 DEF EnterSection, Goto, Locks
<1>8. ASSUME NEW b \in Buses, initBusInfo(b)
     PROVE  IteratorInv'
  BY <1>8 DEF initBusInfo, Goto, Locks
<1>9. ASSUME NEW b \in Buses, UserDataTooLong(b)
     PROVE  IteratorInv'
  BY <1>9 DEF UserDataTooLong, Goto, Locks
<1>10. ASSUME NEW b \in Buses, CreateParticipant(b)
      PROVE  IteratorInv'
  BY <1>10 DEF CreateParticipant, Goto, Locks
<1>11. ASSUME NEW b \in Buses, NoParticipant(b)
      PROVE  IteratorInv'
  BY <1>11 DEF NoParticipant, Locks
<1>12. ASSUME NEW b \in Buses, createDataAccessCollection(b)
      PROVE  IteratorInv'
  BY <1>12 DEF createDataAccessCollection, Goto, Locks
<1>13. ASSUME NEW b \in Buses, deinitialize(b)
      PROVE  IteratorInv'
  BY <1>13 DEF deinitialize, Locks
<1>14. ASSUME NEW b \in Buses, NEW n \in Names, getWriterWithCapacity(b, n)
      PROVE  IteratorInv'
  BY <1>14 DEF getWriterWithCapacity, getOrCreateTopic, CanGet, Locks
<1>15. ASSUME NEW r \in Readers, getReader(r)
      PROVE  IteratorInv'
  BY <1>15 DEF getReader, getOrCreateTopic, CanGet, NoReader, Locks
<1>16. ASSUME NEW r \in Readers, NEW receiver \in BOOLEAN, reset(r, receiver)
      PROVE  IteratorInv'
  BY <1>16 DEF reset, Locks, NoReader
<1>17. ASSUME NEW r \in Readers, DropReader(r)
      PROVE  IteratorInv'
  BY <1>17 DEF DropReader, NoReader, Locks
<1>18. ASSUME NEW w \in Writers, getWriter(w)
      PROVE  IteratorInv'
  BY <1>18 DEF getWriter, getOrCreateTopic, CanGet, Locks
<1>19. ASSUME NEW w \in Writers, DropWriter(w)
      PROVE  IteratorInv'
  BY <1>19 DEF DropWriter, Locks
<1>20. ASSUME NEW w \in Writers, write(w)
      PROVE  IteratorInv'
  BY <1>20 DEF write, Locks
<1>21. CASE UNCHANGED vars
  BY <1>21 DEF vars, Locks
<1> HIDE DEF LifecycleTypeOK, PhaseInv, IteratorInv, IteratorIsValid,
             Completed, ReaderState, Handles, initVars, objectVars, handleVars
<1> QED BY <1>1, <1>2, <1>3, <1>4, <1>5, <1>6, <1>7, <1>8, <1>9, <1>10, <1>11,
           <1>12, <1>13, <1>14, <1>15, <1>16, <1>17, <1>18, <1>19, <1>20,
           <1>21 DEF Next, InitializeStep
-----------------------------------------------------------------------------
(* The inductive invariant, and what follows from it.                      *)

(* The invariant holds before the first call.                              *)
LEMMA InitInv == Init => IInv
<1> SUFFICES ASSUME Init PROVE IInv
  OBVIOUS
<1> USE LifecycleAssumption DEF Init, NoReader
<1>1. LifecycleTypeOK
  BY DEF LifecycleTypeOK, ReaderState
<1>2. MutexInv
  BY DEF MutexInv, InSection
<1>3. PhaseInv
  BY DEF PhaseInv
<1>4. ObjectInv
  BY DEF ObjectInv, TopicsAreCurrent, HandlesStandOnLive
<1>5. IteratorInv
  BY DEF IteratorInv, IteratorIsValid, Completed, Handles
<1> QED BY <1>1, <1>2, <1>3, <1>4, <1>5 DEF IInv

(* It holds in every reachable state.                                      *)
THEOREM LifecycleInvariant == Spec => []IInv
<1>1. IInv /\ [Next]_vars => IInv'
  BY TypeStep, MutexStep, PhaseStep, ObjectStep, IteratorStep DEF IInv
<1> QED BY InitInv, <1>1, PTL DEF Spec

(* The variables keep their types, and the collection of each bus has      *)
(* entries of its own readers only.                                        *)
THEOREM LifecycleTypeCorrect == Spec => []LifecycleTypeOK
<1>1. IInv => LifecycleTypeOK
  BY DEF IInv
<1> QED BY <1>1, LifecycleInvariant, PTL

(* However many buses of a process initialize at once, and however they    *)
(* fail, one at a time constructs its participant.                         *)
THEOREM ConstructorIsExclusive == Spec => []OneConstructorAtATime
<1>1. IInv => OneConstructorAtATime
  BY DEF IInv, MutexInv, InSection, OneConstructorAtATime
<1> QED BY <1>1, LifecycleInvariant, PTL

(* An initialized bus has all that its last attempt made, and nothing      *)
(* deinitialize would dereference in vain.                                 *)
THEOREM NoHalfInitializedBus == Spec => []InitializedIsWhole
<1>1. IInv => InitializedIsWhole
  BY DEF IInv, PhaseInv, InitializedIsWhole
<1> QED BY <1>1, LifecycleInvariant, PTL

(* No topic of an earlier participant is handed out.                       *)
THEOREM NoStaleTopic == Spec => []TopicsAreCurrent
<1>1. IInv => TopicsAreCurrent
  BY DEF IInv, ObjectInv
<1> QED BY <1>1, LifecycleInvariant, PTL

(* reset erases only entries that are in the collection.                   *)
THEOREM NoStaleIterator == Spec => []IteratorIsValid
<1>1. IInv => IteratorIsValid
  BY DEF IInv, IteratorInv
<1> QED BY <1>1, LifecycleInvariant, PTL

(* A reader or a writer outlives the deinitialize of its bus.              *)
THEOREM HandlesOutliveBus == Spec => []HandlesStandOnLive
<1>1. IInv => HandlesStandOnLive
  BY DEF IInv, ObjectInv
<1> QED BY <1>1, LifecycleInvariant, PTL
-----------------------------------------------------------------------------
(* The steps of initialize as one (BusSessions).                           *)

(* Readers and writers stand on the participant of a completed attempt,    *)
(* and a reader refers to the collection of the same.                      *)
HandleInv ==
  /\ \A r \in Readers : reader[r].within = reader[r].on
  /\ \A r \in Readers : reader[r] # NoReader => reader[r].on # 0
  /\ \A r \in Readers : reader[r].on <= Completed(BusOf[r])
  /\ \A w \in Writers : writer[w] <= Completed(BusOf[w])
  /\ \A b \in Buses : attempts[b] <= MaxAttempts
  /\ \A b \in Buses : phase[b] = "initialized" \/ pc[b] # "idle" => attempts[b] # 0
  /\ \A b \in Buses : phase[b] # "initialized" => entries[b] = {}

(* A topic is got on the participant of the present session.               *)
LEMMA GotFacts ==
  ASSUME LifecycleTypeOK, PhaseInv, ObjectInv, NEW b \in Buses, NEW n \in Names, CanGet(b, n)
  PROVE  /\ phase[b] = "initialized"
         /\ getOrCreateTopic(b, n) = participant[b]
         /\ participant[b] = attempts[b] /\ collection[b] = attempts[b]
BY DEF LifecycleTypeOK, PhaseInv, ObjectInv, TopicsAreCurrent, CanGet, getOrCreateTopic

(* Every step keeps the handles with their sessions.                       *)
LEMMA HandleStep ==
  IInv /\ HandleInv /\ [Next]_vars => HandleInv'
<1> SUFFICES ASSUME IInv, HandleInv, [Next]_vars PROVE HandleInv'
  OBVIOUS
<1>i. LifecycleTypeOK /\ PhaseInv /\ ObjectInv
  BY DEF IInv
<1> USE <1>i, LifecycleAssumption DEF LifecycleTypeOK, PhaseInv, HandleInv, Completed,
        ReaderState, Handles, initVars, objectVars, handleVars
<1>1. ASSUME NEW b \in Buses, create(b)
     PROVE  HandleInv'
  BY <1>1 DEF create
<1>2. ASSUME NEW b \in Buses, destroy(b)
     PROVE  HandleInv'
  BY <1>2 DEF destroy
<1>3. ASSUME NEW b \in Buses, initialize(b)
     PROVE  HandleInv'
  BY <1>3 DEF initialize
<1>4. ASSUME NEW b \in Buses, ReadProfileFile(b)
     PROVE  HandleInv'
  BY <1>4 DEF ReadProfileFile, Goto
<1>5. ASSUME NEW b \in Buses, CheckSettings(b)
     PROVE  HandleInv'
  BY <1>5 DEF CheckSettings, Goto
<1>6. ASSUME NEW b \in Buses, RejectSettings(b)
     PROVE  HandleInv'
  BY <1>6 DEF RejectSettings, Goto
<1>7. ASSUME NEW b \in Buses, EnterSection(b)
     PROVE  HandleInv'
  BY <1>7 DEF EnterSection, Goto
<1>8. ASSUME NEW b \in Buses, initBusInfo(b)
     PROVE  HandleInv'
  BY <1>8 DEF initBusInfo, Goto
<1>9. ASSUME NEW b \in Buses, UserDataTooLong(b)
     PROVE  HandleInv'
  BY <1>9 DEF UserDataTooLong, Goto
<1>10. ASSUME NEW b \in Buses, CreateParticipant(b)
      PROVE  HandleInv'
  BY <1>10 DEF CreateParticipant, Goto
<1>11. ASSUME NEW b \in Buses, NoParticipant(b)
      PROVE  HandleInv'
  BY <1>11 DEF NoParticipant
<1>12. ASSUME NEW b \in Buses, createDataAccessCollection(b)
      PROVE  HandleInv'
  BY <1>12 DEF createDataAccessCollection, Goto
<1>13. ASSUME NEW b \in Buses, deinitialize(b)
      PROVE  HandleInv'
  BY <1>13 DEF deinitialize
<1>14. ASSUME NEW b \in Buses, NEW n \in Names, getWriterWithCapacity(b, n)
      PROVE  HandleInv'
  BY <1>14 DEF getWriterWithCapacity
<1>15. ASSUME NEW r \in Readers, getReader(r)
      PROVE  HandleInv'
  <2> DEFINE b == BusOf[r]
             n == NameOf[r]
  <2>1. b \in Buses /\ n \in Names /\ CanGet(b, n) /\ pc[b] = "idle"
    BY <1>15 DEF getReader, CanGet
  <2>2. /\ phase[b] = "initialized" /\ getOrCreateTopic(b, n) = attempts[b]
        /\ collection[b] = attempts[b]
    BY <2>1, GotFacts
  <2>3. /\ reader' = [reader EXCEPT ![r] =
                        [on |-> attempts[b], within |-> attempts[b], registered |-> FALSE]]
        /\ UNCHANGED <<initVars, entries, writer>>
    BY <1>15, <2>2 DEF getReader
  <2>4. /\ reader'[r].on = attempts[b] /\ reader'[r].within = attempts[b]
        /\ \A q \in Readers : q # r => reader'[q] = reader[q]
    BY <2>3
  <2> QED BY <2>1, <2>2, <2>3, <2>4
<1>16. ASSUME NEW r \in Readers, NEW receiver \in BOOLEAN, reset(r, receiver)
      PROVE  HandleInv'
  <2>1. \A q \in Readers : /\ reader'[q].on = reader[q].on
                           /\ reader'[q].within = reader[q].within
                           /\ reader'[q] # NoReader => reader[q] # NoReader
    BY <1>16 DEF reset
  <2>2. Locks(r) => phase[BusOf[r]] = "initialized"
    BY DEF Locks
  <2>3. UNCHANGED <<initVars, writer>>
    BY <1>16 DEF reset
  <2>4. \A b \in Buses : phase[b] # "initialized" => entries'[b] = {}
    BY <1>16, <2>2 DEF reset
  <2> QED BY <2>1, <2>3, <2>4
<1>17. ASSUME NEW r \in Readers, DropReader(r)
      PROVE  HandleInv'
  <2>1. /\ \A q \in Readers : q # r => reader'[q] = reader[q]
        /\ reader'[r] = NoReader
        /\ UNCHANGED <<initVars, entries, writer>>
    BY <1>17 DEF DropReader
  <2>2. NoReader.on = 0 /\ NoReader.within = 0
    BY DEF NoReader
  <2>3. BusOf[r] \in Buses /\ Completed(BusOf[r]) \in Nat
    OBVIOUS
  <2>4. \A q \in Readers : /\ reader'[q].within = reader'[q].on
                           /\ reader'[q] # NoReader => reader'[q].on # 0
                           /\ reader'[q].on <= Completed(BusOf[q])
    BY <2>1, <2>2, <2>3
  <2>5. UNCHANGED <<phase, pc, attempts, entries, writer>>
    BY <2>1
  <2> HIDE DEF ReaderState
  <2> QED BY <2>4, <2>5
<1>18. ASSUME NEW w \in Writers, getWriter(w)
      PROVE  HandleInv'
  <2>1. BusOf[w] \in Buses /\ NameOf[w] \in Names /\ pc[BusOf[w]] = "idle"
    BY <1>18 DEF getWriter, CanGet
  <2>2. getOrCreateTopic(BusOf[w], NameOf[w]) = attempts[BusOf[w]]
    BY <1>18, <2>1, GotFacts DEF getWriter
  <2> QED BY <1>18, <2>1, <2>2 DEF getWriter
<1>19. ASSUME NEW w \in Writers, DropWriter(w)
      PROVE  HandleInv'
  BY <1>19 DEF DropWriter
<1>20. ASSUME NEW w \in Writers, write(w)
      PROVE  HandleInv'
  <2>1. UNCHANGED <<initVars, reader, writer, entries>>
    BY <1>20 DEF write
  <2> QED BY <2>1
<1>21. CASE UNCHANGED vars
  BY <1>21 DEF vars
<1> HIDE DEF LifecycleTypeOK, PhaseInv, HandleInv, Completed, ReaderState, Handles, initVars,
             objectVars, handleVars
<1> QED BY <1>1, <1>2, <1>3, <1>4, <1>5, <1>6, <1>7, <1>8, <1>9, <1>10, <1>11,
           <1>12, <1>13, <1>14, <1>15, <1>16, <1>17, <1>18, <1>19, <1>20,
           <1>21 DEF Next, InitializeStep

LEMMA HandleInvariant == Spec => [](IInv /\ HandleInv)
<1>1. Init => HandleInv
  BY LifecycleAssumption DEF Init, HandleInv, Completed, NoReader, Handles
<1>2. IInv /\ [Next]_vars => IInv'
  BY TypeStep, MutexStep, PhaseStep, ObjectStep, IteratorStep DEF IInv
<1> QED BY InitInv, HandleStep, <1>1, <1>2, PTL DEF Spec

(* What is left alone, and what changes of one handle.                     *)
LEMMA SessionStays ==
  ASSUME phase' = phase,
         \A b \in Buses : phase[b] = "initialized" => participant'[b] = participant[b]
  PROVE  SessionOf' = SessionOf
BY DEF SessionOf

LEMMA HeldStays ==
  ASSUME \A r \in Readers : reader'[r].on = reader[r].on, writer' = writer
  PROVE  HeldFrom' = HeldFrom
BY DEF HeldFrom, Handles

LEMMA HeldChanges ==
  ASSUME NEW h \in Handles, NEW n,
         \A r \in Readers : reader'[r].on = IF r = h THEN n ELSE reader[r].on,
         \A w \in Writers : writer'[w] = IF w = h THEN n ELSE writer[w]
  PROVE  HeldFrom' = [HeldFrom EXCEPT ![h] = n]
BY DEF HeldFrom, Handles

(* Only the last step of initialize shows, and what the others leave       *)
(* behind is in no state of BusSessions.                                   *)
LEMMA PromisedInit == Init => Promised!Init
<1> SUFFICES ASSUME Init PROVE Promised!Init
  OBVIOUS
<1>1. SessionOf = [b \in Buses |-> 0]
  BY DEF Init, SessionOf
<1>2. HeldFrom = [h \in Handles |-> 0]
  BY DEF Init, HeldFrom, NoReader, Handles
<1> QED BY <1>1, <1>2 DEF Init, Promised!Init, Promised!Held, Handles

LEMMA PromisedInitialize ==
  ASSUME IInv, HandleInv, NEW b \in Buses, createDataAccessCollection(b)
  PROVE  Promised!Next
<1>i. LifecycleTypeOK /\ PhaseInv
  BY DEF IInv
<1>1. /\ pc[b] = "collection" /\ phase' = [phase EXCEPT ![b] = "initialized"]
      /\ UNCHANGED <<participant, reader, writer, entries>>
  BY DEF createDataAccessCollection, Goto, handleVars
<1>2. /\ phase[b] = "created" /\ participant[b] = attempts[b] /\ attempts[b] \in 1..MaxAttempts
      /\ entries[b] = {}
  BY <1>i, <1>1, LifecycleAssumption DEF PhaseInv, HandleInv, LifecycleTypeOK
<1>3. \A h \in Handles : BusOf[h] = b => HeldFrom[h] # attempts[b]
  <2>1. Completed(b) < attempts[b]
    BY <1>i, <1>1 DEF Completed, LifecycleTypeOK
  <2>2. ASSUME NEW h \in Handles, BusOf[h] = b PROVE HeldFrom[h] \in Nat /\ HeldFrom[h] <= Completed(b)
    BY <1>i, <2>2 DEF HeldFrom, HandleInv, LifecycleTypeOK, ReaderState, Handles
  <2>3. Completed(b) \in Nat /\ attempts[b] \in Nat
    BY <1>i, <1>2 DEF Completed, LifecycleTypeOK
  <2> QED BY <2>1, <2>2, <2>3
<1>4. SessionOf' = [SessionOf EXCEPT ![b] = attempts[b]]
  BY <1>i, <1>1, <1>2 DEF SessionOf, LifecycleTypeOK
<1>5. HeldFrom' = HeldFrom
  BY <1>1, HeldStays
<1>6. Promised!Initialize(b, attempts[b])
  BY <1>1, <1>2, <1>3, <1>4, <1>5
     DEF Promised!Initialize, Promised!Move, Promised!Held, Handles
<1> QED BY <1>2, <1>6 DEF Promised!Next

LEMMA PromisedDeinitialize ==
  ASSUME LifecycleTypeOK, NEW b \in Buses, deinitialize(b)
  PROVE  Promised!Next
<1>1. /\ phase[b] = "initialized" /\ phase' = [phase EXCEPT ![b] = "created"]
      /\ participant' = [participant EXCEPT ![b] = 0]
      /\ entries' = [entries EXCEPT ![b] = {}] /\ UNCHANGED <<reader, writer>>
  BY DEF deinitialize
<1>2. SessionOf' = [SessionOf EXCEPT ![b] = 0]
  BY <1>1 DEF SessionOf, LifecycleTypeOK
<1>3. HeldFrom' = HeldFrom
  BY <1>1, HeldStays
<1>4. Promised!Deinitialize(b)
  BY <1>1, <1>2, <1>3 DEF Promised!Deinitialize, Promised!Move
<1> QED BY <1>4 DEF Promised!Next

(* A reader or a writer is got from the present session of its bus.        *)
LEMMA PromisedGet ==
  ASSUME IInv, HandleInv,
         \/ \E r \in Readers : getReader(r)
         \/ \E w \in Writers : getWriter(w)
  PROVE  Promised!Next
<1>i. LifecycleTypeOK /\ PhaseInv /\ ObjectInv
  BY DEF IInv
<1>1. ASSUME NEW h \in Handles, phase[BusOf[h]] = "initialized", HeldFrom[h] = 0,
             HeldFrom' = [HeldFrom EXCEPT ![h] = participant[BusOf[h]]],
             UNCHANGED <<phase, participant, entries>>
      PROVE  Promised!Next
  <2>1. SessionOf' = SessionOf /\ SessionOf[BusOf[h]] = participant[BusOf[h]]
    BY <1>1, SessionStays, LifecycleAssumption DEF SessionOf
  <2>2. Promised!Get(h)
    BY <1>1, <2>1 DEF Promised!Get
  <2> QED BY <2>2 DEF Promised!Next, Promised!Held, Handles
<1>2. ASSUME NEW r \in Readers, getReader(r) PROVE Promised!Next
  <2> DEFINE b == BusOf[r]
             n == NameOf[r]
  <2>1. b \in Buses /\ n \in Names /\ CanGet(b, n) /\ r \in Handles
    BY <1>2, LifecycleAssumption DEF getReader, Handles
  <2>2. phase[b] = "initialized" /\ getOrCreateTopic(b, n) = participant[b]
    BY <1>i, <2>1, GotFacts
  <2>3. /\ reader[r] = NoReader
        /\ reader' = [reader EXCEPT ![r] =
                        [on |-> participant[b], within |-> collection[b], registered |-> FALSE]]
        /\ UNCHANGED <<phase, participant, entries, writer>>
    BY <1>2, <2>2 DEF getReader, initVars
  <2>4. HeldFrom[r] = 0
    BY <2>1, <2>3 DEF HeldFrom, NoReader
  <2>5. HeldFrom' = [HeldFrom EXCEPT ![r] = participant[b]]
    <3>1. \A q \in Readers : reader'[q].on = IF q = r THEN participant[b] ELSE reader[q].on
      BY <1>i, <2>3 DEF LifecycleTypeOK
    <3>2. \A w \in Writers : w # r
      BY LifecycleAssumption
    <3> QED BY <2>1, <2>3, <3>1, <3>2, HeldChanges
  <2> QED BY <1>1, <2>1, <2>2, <2>3, <2>4, <2>5
<1>3. ASSUME NEW w \in Writers, getWriter(w) PROVE Promised!Next
  <2> DEFINE b == BusOf[w]
             n == NameOf[w]
  <2>1. b \in Buses /\ n \in Names /\ CanGet(b, n) /\ w \in Handles /\ w \notin Readers
    BY <1>3, LifecycleAssumption DEF getWriter, Handles
  <2>2. phase[b] = "initialized" /\ getOrCreateTopic(b, n) = participant[b]
    BY <1>i, <2>1, GotFacts
  <2>3. /\ writer[w] = 0 /\ writer' = [writer EXCEPT ![w] = participant[b]]
        /\ UNCHANGED <<phase, participant, entries, reader>>
    BY <1>3, <2>2 DEF getWriter, initVars
  <2>4. HeldFrom[w] = 0
    BY <2>1, <2>3 DEF HeldFrom
  <2>5. HeldFrom' = [HeldFrom EXCEPT ![w] = participant[b]]
    <3>1. \A v \in Writers : writer'[v] = IF v = w THEN participant[b] ELSE writer[v]
      BY <1>i, <2>3 DEF LifecycleTypeOK
    <3>2. \A r \in Readers : r # w
      BY <2>1
    <3> QED BY <2>1, <2>3, <3>1, <3>2, HeldChanges
  <2> QED BY <1>1, <2>1, <2>2, <2>3, <2>4, <2>5
<1> QED BY <1>2, <1>3

LEMMA PromisedDrop ==
  ASSUME IInv, HandleInv,
         \/ \E r \in Readers : DropReader(r)
         \/ \E w \in Writers : DropWriter(w)
  PROVE  Promised!Next
<1>i. LifecycleTypeOK
  BY DEF IInv
<1>1. ASSUME NEW h \in Handles, HeldFrom[h] # 0, HeldFrom' = [HeldFrom EXCEPT ![h] = 0],
             UNCHANGED <<phase, participant, entries>>
      PROVE  Promised!Next
  <2>1. SessionOf' = SessionOf
    BY <1>1, SessionStays
  <2>2. Promised!Drop(h)
    BY <1>1, <2>1 DEF Promised!Drop
  <2> QED BY <2>2 DEF Promised!Next, Promised!Held, Handles
<1>2. ASSUME NEW r \in Readers, DropReader(r) PROVE Promised!Next
  <2>1. /\ reader[r] # NoReader /\ reader' = [reader EXCEPT ![r] = NoReader] /\ r \in Handles
        /\ UNCHANGED <<phase, participant, entries, writer>>
    BY <1>2 DEF DropReader, initVars, objectVars, Handles
  <2>2. HeldFrom[r] # 0
    BY <2>1 DEF HandleInv, HeldFrom
  <2>3. HeldFrom' = [HeldFrom EXCEPT ![r] = 0]
    <3>1. \A q \in Readers : reader'[q].on = IF q = r THEN 0 ELSE reader[q].on
      BY <1>i, <2>1 DEF LifecycleTypeOK, NoReader
    <3>2. \A w \in Writers : w # r
      BY LifecycleAssumption
    <3> QED BY <2>1, <3>1, <3>2, HeldChanges
  <2> QED BY <1>1, <2>1, <2>2, <2>3
<1>3. ASSUME NEW w \in Writers, DropWriter(w) PROVE Promised!Next
  <2>1. /\ writer[w] # 0 /\ writer' = [writer EXCEPT ![w] = 0] /\ w \in Handles /\ w \notin Readers
        /\ UNCHANGED <<phase, participant, entries, reader>>
    BY <1>3, LifecycleAssumption DEF DropWriter, initVars, objectVars, Handles
  <2>2. HeldFrom[w] # 0
    BY <2>1 DEF HeldFrom
  <2>3. HeldFrom' = [HeldFrom EXCEPT ![w] = 0]
    <3>1. \A v \in Writers : writer'[v] = IF v = w THEN 0 ELSE writer[v]
      BY <1>i, <2>1 DEF LifecycleTypeOK
    <3>2. \A r \in Readers : r # w
      BY <2>1
    <3> QED BY <2>1, <3>1, <3>2, HeldChanges
  <2> QED BY <1>1, <2>1, <2>2, <2>3
<1> QED BY <1>2, <1>3

(* reset reaches the collection of the session the reader was got in, or   *)
(* none.                                                                   *)
LEMMA PromisedReset ==
  ASSUME IInv, HandleInv, NEW r \in Readers, NEW receiver \in BOOLEAN, reset(r, receiver)
  PROVE  [Promised!Next]_Promised!vars
<1> DEFINE b == BusOf[r]
<1>i. LifecycleTypeOK /\ PhaseInv
  BY DEF IInv
<1>1. /\ b \in Buses /\ r \in Handles /\ reader[r] # NoReader
      /\ UNCHANGED <<phase, participant, writer>>
  BY LifecycleAssumption DEF reset, initVars, objectVars, Handles
<1>2. \A q \in Readers : reader'[q].on = reader[q].on
  BY <1>i DEF reset, LifecycleTypeOK, ReaderState
<1>3. HeldFrom' = HeldFrom /\ SessionOf' = SessionOf
  BY <1>1, <1>2, HeldStays, SessionStays
<1>4. CASE Locks(r)
  <2>1. /\ phase[b] = "initialized" /\ reader[r].within = participant[b]
    BY <1>i, <1>1, <1>4 DEF Locks, PhaseInv
  <2>2. HeldFrom[r] # 0 /\ HeldFrom[r] = SessionOf[b]
    BY <1>1, <2>1 DEF HeldFrom, SessionOf, HandleInv
  <2>3. \/ entries' = [entries EXCEPT ![b] = entries[b] \cup {r}]
        \/ entries' = [entries EXCEPT ![b] = entries[b] \ {r}]
    BY <1>4 DEF reset
  <2>4. Promised!Reset(r)
    BY <1>1, <1>3, <2>2, <2>3 DEF Promised!Reset
  <2> QED BY <2>4 DEF Promised!Next
<1>5. CASE ~ Locks(r)
  <2>1. entries' = entries
    BY <1>5 DEF reset
  <2> QED BY <1>1, <1>3, <2>1 DEF Promised!vars
<1> QED BY <1>4, <1>5

LEMMA PromisedStep ==
  IInv /\ HandleInv /\ [Next]_vars => [Promised!Next]_Promised!vars
<1> SUFFICES ASSUME IInv, HandleInv, [Next]_vars PROVE [Promised!Next]_Promised!vars
  OBVIOUS
<1>i. LifecycleTypeOK /\ PhaseInv
  BY DEF IInv
<1>1. ASSUME NEW b \in Buses, create(b) \/ destroy(b) PROVE Promised!Next
  <2>1. UNCHANGED <<participant, reader, writer, entries>>
    BY <1>1 DEF create, destroy, objectVars, handleVars
  <2>2. \/ phase[b] = "new" /\ phase' = [phase EXCEPT ![b] = "created"]
        \/ phase[b] = "created" /\ phase' = [phase EXCEPT ![b] = "new"]
    BY <1>1 DEF create, destroy
  <2>3. SessionOf' = SessionOf
    BY <1>i, <2>1, <2>2 DEF SessionOf, LifecycleTypeOK
  <2>4. HeldFrom' = HeldFrom
    BY <2>1, HeldStays
  <2>5. Promised!Create(b) \/ Promised!Destroy(b)
    BY <2>1, <2>2, <2>3, <2>4 DEF Promised!Create, Promised!Destroy, Promised!Move
  <2> QED BY <2>5 DEF Promised!Next
<1>2. ASSUME phase' = phase, entries' = entries, reader' = reader, writer' = writer,
             \A b \in Buses : phase[b] = "initialized" => participant'[b] = participant[b]
      PROVE  UNCHANGED Promised!vars
  BY <1>2, SessionStays, HeldStays DEF Promised!vars
<1>3. ASSUME NEW b \in Buses,
             \/ initialize(b) \/ ReadProfileFile(b) \/ CheckSettings(b) \/ RejectSettings(b)
             \/ EnterSection(b) \/ initBusInfo(b) \/ UserDataTooLong(b) \/ NoParticipant(b)
             \/ \E n \in Names : getWriterWithCapacity(b, n)
      PROVE  UNCHANGED Promised!vars
  <2>1. UNCHANGED <<phase, participant, entries, reader, writer>>
    BY <1>3 DEF initialize, ReadProfileFile, CheckSettings, RejectSettings, EnterSection,
                initBusInfo, UserDataTooLong, NoParticipant, getWriterWithCapacity,
                initVars, objectVars, handleVars
  <2> QED BY <1>2, <2>1
<1>4. ASSUME NEW b \in Buses, CreateParticipant(b)
      PROVE  UNCHANGED Promised!vars
  <2>1. /\ phase[b] = "created" /\ participant' = [participant EXCEPT ![b] = attempts[b]]
        /\ UNCHANGED <<phase, entries, reader, writer>>
    BY <1>i, <1>4 DEF CreateParticipant, Goto, PhaseInv, handleVars
  <2>2. \A a \in Buses : phase[a] = "initialized" => participant'[a] = participant[a]
    BY <1>i, <2>1 DEF LifecycleTypeOK
  <2> QED BY <1>2, <2>1, <2>2
<1>5. ASSUME NEW w \in Writers, write(w)
      PROVE  UNCHANGED Promised!vars
  BY <1>2, <1>5 DEF write, initVars, objectVars
<1>6. CASE UNCHANGED vars
  BY <1>2, <1>6 DEF vars, initVars, objectVars, handleVars
<1> QED
  BY <1>1, <1>3, <1>4, <1>5, <1>6, <1>i, PromisedInitialize, PromisedDeinitialize, PromisedGet,
     PromisedDrop, PromisedReset DEF Next, InitializeStep

(* To the application an initialize succeeds in one step or leaves no      *)
(* trace, for any number of buses that initialize at once and fail where   *)
(* they may; readers and writers stay with the session they were got in.   *)
THEOREM BusesKeepTheirPromise == Spec => InitializeIsAtomic
BY PromisedInit, PromisedStep, HandleInvariant, PTL DEF Spec, InitializeIsAtomic, Promised!Spec
=============================================================================
