---------------------------- MODULE BusLifecycle ----------------------------
(***************************************************************************)
(* The simulation buses of one process (class FastDDSSimulationBus) as     *)
(* components: create, initialize, deinitialize, destroy, the readers and  *)
(* writers they hand out, and the registration of data receivers.          *)
(*                                                                         *)
(* initialize runs in steps, because the buses of a process may initialize *)
(* at the same time and share one static mutex, and because it can fail at *)
(* several of them.  Participants and data access collections are numbered *)
(* by the attempt at initialize that made them; 0 stands for null.         *)
(*                                                                         *)
(* Readers and writers belong to the application, which may keep them over *)
(* a deinitialize and a new initialize: the bus cannot take them back.     *)
(*                                                                         *)
(* Assumed of the callers: the calls on one bus do not overlap, initialize *)
(* is called in the state created and deinitialize in the state            *)
(* initialized, while no reception runs.  All buses are in one DDS domain. *)
(***************************************************************************)
EXTENDS Naturals

CONSTANTS
  Buses,        \* the simulation buses of the process
  NoBus,        \* holds the mutex when no bus does
  Names,        \* topic names
  Readers,      \* handles on data readers the application may hold
  Writers,      \* handles on data writers
  BusOf,        \* the bus a handle is asked of
  NameOf,       \* the topic name it is asked for
  SystemOf,     \* the system name of each bus
  MaxAttempts   \* bound: calls of initialize per bus

Handles == Readers \cup Writers

ASSUME LifecycleAssumption ==
  /\ NoBus \notin Buses
  /\ BusOf \in [Handles -> Buses]
  /\ NameOf \in [Handles -> Names]
  /\ Readers \cap Writers = {}
  /\ MaxAttempts \in Nat

VARIABLES
  phase,        \* state of the component
  pc,           \* where initialize is
  lock,         \* domain_participant_constructor_mutex
  attempts,     \* calls of initialize so far
  participant,  \* _participant
  live,         \* the DDS participants that exist
  busInfo,      \* _bus_info is there
  builtIn,      \* _topics has "_built_in_topic_businfo"
  topics,       \* the participant each other topic of _topics was created on
  collection,   \* _data_access_collection
  entries,      \* the readers that have an entry in it
  reader,       \* the data readers
  writer,       \* the participant of each data writer, 0: none
  received,     \* history: the systems whose samples reached a reader
  crashed       \* the process has ended

initVars   == <<phase, pc, lock, attempts, busInfo, builtIn>>
objectVars == <<participant, live, topics, collection>>
handleVars == <<entries, reader, writer, received>>
vars       == <<initVars, objectVars, handleVars, crashed>>

(* on: the participant of its topic, 0 if there is no reader.  within: the *)
(* collection its weak pointer refers to.  registered: whether it holds a  *)
(* _data_access_iterator.                                                  *)
ReaderState == [on : Nat, within : Nat, registered : BOOLEAN]

NoReader == [on |-> 0, within |-> 0, registered |-> FALSE]

Init ==
  /\ phase = [b \in Buses |-> "new"]
  /\ pc = [b \in Buses |-> "idle"]
  /\ lock = NoBus
  /\ attempts = [b \in Buses |-> 0]
  /\ participant = [b \in Buses |-> 0]
  /\ live = {}
  /\ busInfo = [b \in Buses |-> FALSE]
  /\ builtIn = [b \in Buses |-> FALSE]
  /\ topics = [b \in Buses |-> [n \in Names |-> 0]]
  /\ collection = [b \in Buses |-> 0]
  /\ entries = [b \in Buses |-> {}]
  /\ reader = [r \in Readers |-> NoReader]
  /\ writer = [w \in Writers |-> 0]
  /\ received = [r \in Readers |-> {}]
  /\ crashed = FALSE
-----------------------------------------------------------------------------
(* create and destroy, and initialize step by step.                        *)

create(b) ==
  /\ phase[b] = "new"
  /\ phase' = [phase EXCEPT ![b] = "created"]
  /\ UNCHANGED <<pc, lock, attempts, busInfo, builtIn, objectVars, handleVars, crashed>>

destroy(b) ==
  /\ phase[b] = "created"
  /\ pc[b] = "idle"
  /\ phase' = [phase EXCEPT ![b] = "new"]
  /\ UNCHANGED <<pc, lock, attempts, busInfo, builtIn, objectVars, handleVars, crashed>>

initialize(b) ==
  /\ phase[b] = "created"
  /\ pc[b] = "idle"
  /\ attempts[b] < MaxAttempts
  /\ attempts' = [attempts EXCEPT ![b] = @ + 1]
  /\ pc' = [pc EXCEPT ![b] = "read"]
  /\ UNCHANGED <<phase, lock, busInfo, builtIn, objectVars, handleVars, crashed>>

Goto(b, from, to) == pc[b] = from /\ pc' = [pc EXCEPT ![b] = to]

(* The profile file is read under the mutex, given back at once.           *)
ReadProfileFile(b) ==
  /\ lock = NoBus
  /\ Goto(b, "read", "load")
  /\ UNCHANGED <<phase, lock, attempts, busInfo, builtIn, objectVars, handleVars, crashed>>

(* Neither the profiles nor the names are at fault.                        *)
CheckSettings(b) ==
  /\ Goto(b, "load", "enter")
  /\ UNCHANGED <<phase, lock, attempts, busInfo, builtIn, objectVars, handleVars, crashed>>

(* ERR_INVALID_FILE, ERR_NOT_FOUND or ERR_NOT_SUPPORTED.                   *)
RejectSettings(b) ==
  /\ Goto(b, "load", "idle")
  /\ UNCHANGED <<phase, lock, attempts, busInfo, builtIn, objectVars, handleVars, crashed>>

(* Mutant of EnterSection: a mutex of each call instead of a static one.    *)
EnterSectionUnlocked(b) ==
  /\ Goto(b, "enter", "info")
  /\ lock' = b
  /\ UNCHANGED <<phase, attempts, busInfo, builtIn, objectVars, handleVars, crashed>>

EnterSection(b) ==
  /\ lock = NoBus
  /\ Goto(b, "enter", "info")
  /\ lock' = b
  /\ UNCHANGED <<phase, attempts, busInfo, builtIn, objectVars, handleVars, crashed>>

initBusInfo(b) ==
  /\ Goto(b, "info", "participant")
  /\ busInfo' = [busInfo EXCEPT ![b] = TRUE]
  /\ builtIn' = [builtIn EXCEPT ![b] = TRUE]
  /\ UNCHANGED <<phase, lock, attempts, objectVars, handleVars, crashed>>

(* Mutant of UserDataTooLong: the error path keeps the mutex.              *)
UserDataTooLongKeepsLock(b) ==
  /\ Goto(b, "info", "idle")
  /\ busInfo' = [busInfo EXCEPT ![b] = TRUE]
  /\ UNCHANGED <<phase, lock, attempts, builtIn, objectVars, handleVars, crashed>>

(* Mutant of UserDataTooLong: the error is logged and initialize goes on.  *)
UserDataTooLongGoesOn(b) ==
  /\ Goto(b, "info", "collection")
  /\ lock' = NoBus
  /\ busInfo' = [busInfo EXCEPT ![b] = TRUE]
  /\ UNCHANGED <<phase, attempts, builtIn, objectVars, handleVars, crashed>>

(* registerUserData throws; ERR_UNEXPECTED, and the new bus info stays.    *)
UserDataTooLong(b) ==
  /\ Goto(b, "info", "idle")
  /\ lock' = NoBus
  /\ busInfo' = [busInfo EXCEPT ![b] = TRUE]
  /\ UNCHANGED <<phase, attempts, builtIn, objectVars, handleVars, crashed>>

CreateParticipant(b) ==
  /\ Goto(b, "participant", "collection")
  /\ lock' = NoBus
  /\ participant' = [participant EXCEPT ![b] = attempts[b]]
  /\ live' = live \cup {<<b, attempts[b]>>}
  /\ UNCHANGED <<phase, attempts, busInfo, builtIn, topics, collection, handleVars, crashed>>

(* create_participant returns null, and the types are registered with it.  *)
NoParticipant(b) ==
  /\ pc[b] = "participant"
  /\ crashed' = TRUE
  /\ UNCHANGED <<initVars, objectVars, handleVars>>

createDataAccessCollection(b) ==
  /\ Goto(b, "collection", "idle")
  /\ phase' = [phase EXCEPT ![b] = "initialized"]
  /\ collection' = [collection EXCEPT ![b] = attempts[b]]
  /\ UNCHANGED <<lock, attempts, busInfo, builtIn, participant, live, topics, handleVars,
                 crashed>>

InitializeStep(b) ==
  \/ ReadProfileFile(b) \/ CheckSettings(b) \/ RejectSettings(b) \/ EnterSection(b)
  \/ initBusInfo(b) \/ UserDataTooLong(b) \/ CreateParticipant(b) \/ NoParticipant(b)
  \/ createDataAccessCollection(b)

(* Mutant of deinitialize: the topics of the old participant stay.         *)
deinitializeKeepsTopics(b) ==
  /\ phase[b] = "initialized"
  /\ phase' = [phase EXCEPT ![b] = "created"]
  /\ collection' = [collection EXCEPT ![b] = 0]
  /\ entries' = [entries EXCEPT ![b] = {}]
  /\ participant' = [participant EXCEPT ![b] = 0]
  /\ busInfo' = [busInfo EXCEPT ![b] = FALSE]
  /\ builtIn' = [builtIn EXCEPT ![b] = FALSE]
  /\ UNCHANGED <<pc, lock, attempts, live, topics, reader, writer, received, crashed>>

(* Mutant of deinitialize: the commented-out delete_participant.           *)
deinitializeDeletes(b) ==
  /\ phase[b] = "initialized"
  /\ phase' = [phase EXCEPT ![b] = "created"]
  /\ collection' = [collection EXCEPT ![b] = 0]
  /\ entries' = [entries EXCEPT ![b] = {}]
  /\ topics' = [topics EXCEPT ![b] = [n \in Names |-> 0]]
  /\ participant' = [participant EXCEPT ![b] = 0]
  /\ live' = live \ {<<b, participant[b]>>}
  /\ busInfo' = [busInfo EXCEPT ![b] = FALSE]
  /\ builtIn' = [builtIn EXCEPT ![b] = FALSE]
  /\ UNCHANGED <<pc, lock, attempts, reader, writer, received, crashed>>

(* The participant is closed and forgotten, but not deleted.               *)
deinitialize(b) ==
  /\ phase[b] = "initialized"
  /\ phase' = [phase EXCEPT ![b] = "created"]
  /\ collection' = [collection EXCEPT ![b] = 0]
  /\ entries' = [entries EXCEPT ![b] = {}]
  /\ topics' = [topics EXCEPT ![b] = [n \in Names |-> 0]]
  /\ participant' = [participant EXCEPT ![b] = 0]
  /\ busInfo' = [busInfo EXCEPT ![b] = FALSE]
  /\ builtIn' = [builtIn EXCEPT ![b] = FALSE]
  /\ UNCHANGED <<pc, lock, attempts, live, reader, writer, received, crashed>>
-----------------------------------------------------------------------------
(* Readers and writers.                                                    *)

(* getOrCreateTopic finds the topic, or creates it on the participant; it  *)
(* throws if there is none.                                                *)
CanGet(b, n) == pc[b] = "idle" /\ (topics[b][n] # 0 \/ participant[b] # 0)

getOrCreateTopic(b, n) == IF topics[b][n] # 0 THEN topics[b][n] ELSE participant[b]

(* A handle is given out again once nothing is left of its former reader.  *)
getReader(r) ==
  LET b == BusOf[r]
      n == NameOf[r]
  IN  /\ CanGet(b, n)
      /\ reader[r] = NoReader
      /\ r \notin entries[b]
      /\ topics' = [topics EXCEPT ![b][n] = getOrCreateTopic(b, n)]
      /\ reader' = [reader EXCEPT ![r] =
           [on |-> getOrCreateTopic(b, n), within |-> collection[b], registered |-> FALSE]]
      /\ received' = [received EXCEPT ![r] = {}]
      /\ UNCHANGED <<initVars, participant, live, collection, entries, writer, crashed>>

getWriter(w) ==
  LET b == BusOf[w]
      n == NameOf[w]
  IN  /\ CanGet(b, n)
      /\ writer[w] = 0
      /\ topics' = [topics EXCEPT ![b][n] = getOrCreateTopic(b, n)]
      /\ writer' = [writer EXCEPT ![w] = getOrCreateTopic(b, n)]
      /\ UNCHANGED <<initVars, participant, live, collection, entries, reader, received,
                     crashed>>

(* The overload with a name and a capacity returns nullptr: the topic is   *)
(* all that stays.                                                         *)
getWriterWithCapacity(b, n) ==
  /\ CanGet(b, n)
  /\ topics' = [topics EXCEPT ![b][n] = getOrCreateTopic(b, n)]
  /\ UNCHANGED <<initVars, participant, live, collection, handleVars, crashed>>

(* The weak pointer of the reader still leads to its collection.           *)
Locks(r) == reader[r].within # 0 /\ reader[r].within = collection[BusOf[r]]

(* Mutant of reset: the iterator is kept when its entry is removed.        *)
resetKeepsIterator(r, receiver) ==
  /\ reader[r] # NoReader
  /\ reader' = [reader EXCEPT ![r].registered = @ \/ (Locks(r) /\ receiver)]
  /\ entries' =
       IF Locks(r)
       THEN [entries EXCEPT ![BusOf[r]] = IF receiver THEN @ \cup {r} ELSE @ \ {r}]
       ELSE entries
  /\ UNCHANGED <<initVars, objectVars, writer, received, crashed>>

(* Mutant of reset: one collection for the buses of the process.           *)
resetEverywhere(r, receiver) ==
  /\ reader[r] # NoReader
  /\ reader' = [reader EXCEPT ![r].registered = Locks(r) /\ receiver]
  /\ entries' =
       IF Locks(r)
       THEN [b \in Buses |-> IF receiver THEN entries[b] \cup {r} ELSE entries[b] \ {r}]
       ELSE entries
  /\ UNCHANGED <<initVars, objectVars, writer, received, crashed>>

(* reset, with a receiver or without: the previous entry is removed, the   *)
(* iterator forgotten, and a new entry added.                              *)
reset(r, receiver) ==
  /\ reader[r] # NoReader
  /\ reader' = [reader EXCEPT ![r].registered = Locks(r) /\ receiver]
  /\ entries' =
       IF Locks(r)
       THEN [entries EXCEPT ![BusOf[r]] = IF receiver THEN @ \cup {r} ELSE @ \ {r}]
       ELSE entries
  /\ UNCHANGED <<initVars, objectVars, writer, received, crashed>>

(* The destructor of the reader leaves its entry in the collection.        *)
DropReader(r) ==
  /\ reader[r] # NoReader
  /\ reader' = [reader EXCEPT ![r] = NoReader]
  /\ UNCHANGED <<initVars, objectVars, entries, writer, received, crashed>>

DropWriter(w) ==
  /\ writer[w] # 0
  /\ writer' = [writer EXCEPT ![w] = 0]
  /\ UNCHANGED <<initVars, objectVars, entries, reader, received, crashed>>

(* The name of the partition that the endpoints of a topic join:           *)
(* _system_name, which nothing assigns.                                    *)
getSystemName(b) == ""

(* A sample reaches the readers of the name in the same partition.         *)
write(w) ==
  /\ writer[w] # 0
  /\ received' =
       [r \in Readers |->
          IF /\ reader[r] # NoReader
             /\ NameOf[r] = NameOf[w]
             /\ getSystemName(BusOf[r]) = getSystemName(BusOf[w])
          THEN received[r] \cup {SystemOf[BusOf[w]]}
          ELSE received[r]]
  /\ UNCHANGED <<initVars, objectVars, entries, reader, writer, crashed>>
-----------------------------------------------------------------------------
Next ==
  /\ ~ crashed
  /\ \/ \E b \in Buses :
          \/ create(b) \/ destroy(b) \/ initialize(b) \/ InitializeStep(b) \/ deinitialize(b)
          \/ \E n \in Names : getWriterWithCapacity(b, n)
     \/ \E r \in Readers :
          \/ getReader(r)
          \/ \E receiver \in BOOLEAN : reset(r, receiver)
          \/ DropReader(r)
     \/ \E w \in Writers : getWriter(w) \/ DropWriter(w) \/ write(w)

(* A thread in initialize goes on.                                         *)
Spec == Init /\ [][Next]_vars /\ \A b \in Buses : WF_vars(InitializeStep(b) /\ ~ crashed)
-----------------------------------------------------------------------------
(* The values of the variables; what a bus refers to was made by one of    *)
(* its own attempts, and its collection has entries of its own readers.    *)
LifecycleTypeOK ==
  /\ phase \in [Buses -> {"new", "created", "initialized"}]
  /\ pc \in [Buses -> {"idle", "read", "load", "enter", "info", "participant", "collection"}]
  /\ lock \in Buses \cup {NoBus}
  /\ attempts \in [Buses -> Nat]
  /\ participant \in [Buses -> Nat]
  /\ live \subseteq Buses \X Nat
  /\ busInfo \in [Buses -> BOOLEAN]
  /\ builtIn \in [Buses -> BOOLEAN]
  /\ topics \in [Buses -> [Names -> Nat]]
  /\ collection \in [Buses -> Nat]
  /\ entries \in [Buses -> SUBSET Readers]
  /\ \A b \in Buses : \A r \in entries[b] : BusOf[r] = b
  /\ reader \in [Readers -> ReaderState]
  /\ writer \in [Writers -> Nat]
  /\ received \in [Readers -> SUBSET {SystemOf[b] : b \in Buses}]
  /\ crashed \in BOOLEAN

(* "ensures there are not parallel calls to the non thread safe            *)
(* constructor of DomainParticipant": at most one bus of the process is in *)
(* the section that constructs it, failed attempts included.               *)
OneConstructorAtATime ==
  \A a, b \in Buses :
    pc[a] \in {"info", "participant"} /\ pc[b] \in {"info", "participant"} => a = b

(* What deinitialize dereferences and the readers rely on: an initialized  *)
(* bus has the participant, the collection, the bus info and the built-in  *)
(* topic, all of its last attempt, whatever failed attempts left behind.   *)
InitializedIsWhole ==
  \A b \in Buses :
    phase[b] = "initialized" =>
      /\ participant[b] = attempts[b]
      /\ collection[b] = attempts[b]
      /\ busInfo[b] /\ builtIn[b]

(* The topics of a bus are topics of its present participant: over failed  *)
(* attempts, a deinitialize and a new initialize no topic of an earlier    *)
(* participant is handed out.                                              *)
TopicsAreCurrent ==
  \A b \in Buses : \A n \in Names : topics[b][n] \in {0, participant[b]}

(* A reader that holds an iterator into the present collection of its bus  *)
(* has its entry there, so that reset never erases what is not in the      *)
(* collection; an iterator into an earlier one is never used.              *)
IteratorIsValid ==
  \A r \in Readers :
    reader[r].registered /\ Locks(r) => r \in entries[BusOf[r]]

(* Every reader and writer the application still holds, whenever it got it *)
(* from the bus, stands on a participant that exists: its topic keeps a    *)
(* reference to it, which a deinitialize must not leave dangling.          *)
HandlesStandOnLive ==
  /\ \A r \in Readers : reader[r] # NoReader => <<BusOf[r], reader[r].on>> \in live
  /\ \A w \in Writers : writer[w] # 0 => <<BusOf[w], writer[w]>> \in live

(* initialize in one step (BusSessions): the session of a bus is named by  *)
(* the attempt that made its participant, and a handle is of the session   *)
(* whose participant it stands on.                                         *)
SessionOf == [b \in Buses |-> IF phase[b] = "initialized" THEN participant[b] ELSE 0]

HeldFrom == [h \in Handles |-> IF h \in Readers THEN reader[h].on ELSE writer[h]]

Promised == INSTANCE BusSessions WITH
              None     <- 0,
              Sessions <- 1..MaxAttempts,
              session  <- SessionOf,
              holds    <- HeldFrom,
              served   <- entries

(* To the application each initialize succeeds in one step or leaves no    *)
(* trace, however its steps mix with those of other buses and wherever it  *)
(* fails; what was got before a deinitialize works on in its own session   *)
(* and is never served by a later one.                                     *)
InitializeIsAtomic == Promised!Spec

(* initialize returns whatever the other buses of the process do: the      *)
(* mutex is given back on every way out.                                   *)
InitializeEnds == \A b \in Buses : pc[b] # "idle" ~> (pc[b] = "idle" \/ crashed)

(* "Participant with system name isolation": a reader gets no sample from  *)
(* a bus of another system.                                                *)
SystemsAreIsolated ==
  \A r \in Readers : received[r] \subseteq {SystemOf[BusOf[r]]}
=============================================================================
