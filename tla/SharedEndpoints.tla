--------------------------- MODULE SharedEndpoints ---------------------------
(***************************************************************************)
(* The readers and writers of one topic, which share the topic's QoS       *)
(* profile, and the reception sessions, which pop from the readers that    *)
(* are registered and plant in each a hook that refers to the session.     *)
(*                                                                         *)
(* Two threads call them: the application's, which creates, pops, writes,  *)
(* registers and drops, and the one that runs startBlockingReception.      *)
(* Nothing synchronizes them.  What popFrom does with samples, and how it  *)
(* handles stream types that throw, is in ReaderItemQueue.                 *)
(***************************************************************************)
EXTENDS StreamItemTopic, FiniteSets

CONSTANTS
  topic,       \* the topic
  Readers,     \* its readers
  Writers,     \* its writers
  NewTypes,    \* the stream types that are written or arrive
  MaxSessions, \* bound: sessions of reception
  MaxOwed      \* bound: changes of the profile one call of pop nests

Endpoints == Readers \cup Writers

Nobody == "nobody"
Torn   == "torn"    \* a string that two threads wrote, or wrote and read, at once

ASSUME EndpointAssumption ==
  /\ topic \in Topics
  /\ Readers \cap Writers = {} /\ Nobody \notin Endpoints
  /\ NewTypes \subseteq StreamTypes
  /\ \A t \in NewTypes : ~ SizeThrows(t)
  /\ MaxSessions \in Nat /\ MaxOwed \in Nat

VARIABLES
  exists,     \* the endpoints that exist; a reader stands for its item queue
  held,       \* the readers and writers that the application holds
  profile,    \* what the DDS reader or writer of each was created with
  call,       \* the call each is in
  seen,       \* the last stream type each compared
  entries,    \* the readers in the data access collection
  collection, \* the bus has its collection
  hook,       \* the session each reader's hook refers to, 0 without hook
  session,    \* the number of the session that runs, 0 without
  sessions,   \* number of sessions so far
  visiting,   \* the reader the session's iterator is at
  freed,      \* the readers whose entry was freed during this visit
  released,   \* a hook set the session's pointer to its waitset to null
  crashed,    \* the process ended by a null waitset, a freed entry or a dead hook
  attached,   \* history: the readers whose conditions the session attached
  overtaken,  \* history: those after whose change another changed it
  raced,      \* history: the profile was accessed by two threads at once
  disturbed   \* history: entries were removed while this session ran

endpointVars == <<exists, held, profile, call, seen>>
sessionVars  == <<session, sessions, visiting, released, crashed, attached>>
busVars      == <<entries, collection, freed>>
profileVars  == <<overtaken, raced>>
vars == <<qosProfile, endpointVars, hook, sessionVars, busVars, profileVars, disturbed>>

Calls == [pc : {"idle", "open", "store", "storing", "tearing"},
          by : {"app", "session"}, target : Profiles \cup {Torn}, owed : Nat]

Idle == [pc |-> "idle", by |-> "app", target |-> Torn, owed |-> 0]

Init ==
  /\ TopicInit
  /\ exists = {}
  /\ held = {}
  /\ profile = [e \in Endpoints |-> qosProfile[topic]]
  /\ call = [e \in Endpoints |-> Idle]
  /\ seen = [e \in Endpoints |-> InitialType[topic]]
  /\ entries = {}
  /\ collection = TRUE
  /\ hook = [r \in Readers |-> 0]
  /\ session = 0
  /\ sessions = 0
  /\ visiting = Nobody
  /\ freed = {}
  /\ released = FALSE
  /\ crashed = FALSE
  /\ attached = {}
  /\ overtaken = {}
  /\ raced = FALSE
  /\ disturbed = FALSE
-----------------------------------------------------------------------------
(* The profile of the topic, a string without a lock.                      *)

InStore == { e \in Endpoints : call[e].pc \in {"storing", "tearing"} }
Storing == InStore # {}

(* What a thread may read: the string, or while another stores a string,   *)
(* the old one, the new one or one that is neither.                        *)
Readable ==
  {qosProfile[topic]} \cup
  (IF Storing THEN {Torn} \cup { call[e].target : e \in InStore } ELSE {})
-----------------------------------------------------------------------------
(* Creation and end of readers and writers.                                *)

(* The reader's queue reads the profile and creates its DDS readers.  The  *)
(* writer does too, and createDataWriter writes the topic's stream type,   *)
(* which changes nothing.                                                  *)
getEndpoint(e) ==
  /\ collection
  /\ e \notin exists
  /\ call[e].pc = "idle"
  /\ exists' = exists \cup {e}
  /\ held' = held \cup {e}
  /\ \E p \in Readable : profile' = [profile EXCEPT ![e] = p]
  /\ raced' = (raced \/ Storing)
  /\ overtaken' = overtaken \ {e}
  /\ seen' = [seen EXCEPT ![e] = InitialType[topic]]
  /\ hook' = [r \in Readers |-> IF r = e THEN 0 ELSE hook[r]]
  /\ UNCHANGED <<qosProfile, call, busVars, sessionVars, disturbed>>

MayDrop(e) == e \in held /\ (call[e].pc # "idle" => call[e].by = "session")

(* Mutant of drop: the destructor removes the entry of the reader.         *)
dropWithEntry(e) ==
  /\ MayDrop(e)
  /\ held' = held \ {e}
  /\ entries' = entries \ {e}
  /\ freed' = freed \cup (entries \cap {e})
  /\ exists' = exists \ {e}
  /\ UNCHANGED <<qosProfile, profile, call, seen, collection, hook, sessionVars,
                 profileVars, disturbed>>

(* Mutant of drop: the item queue ends with its reader.                    *)
dropQueue(e) ==
  /\ MayDrop(e)
  /\ held' = held \ {e}
  /\ exists' = exists \ {e}
  /\ UNCHANGED <<qosProfile, profile, call, seen, busVars, hook, sessionVars,
                 profileVars, disturbed>>

(* The application gives a reader or writer up.  The item queue of a       *)
(* reader lives on in its entry, which the destructor leaves behind.       *)
drop(e) ==
  /\ MayDrop(e)
  /\ held' = held \ {e}
  /\ exists' = IF e \in entries THEN exists ELSE exists \ {e}
  /\ UNCHANGED <<qosProfile, profile, call, seen, busVars, hook, sessionVars,
                 profileVars, disturbed>>
-----------------------------------------------------------------------------
(* Calls: pop of a reader, popFrom of the session, write of a stream type. *)

CanCall(e, thread) ==
  \/ thread = "app" /\ e \in held
  \/ thread = "session" /\ session > 0 /\ visiting = e

(* No thread is in two calls, and no reader is popped by two threads.      *)
Enter(e, thread) ==
  /\ call[e].pc = "idle"
  /\ CanCall(e, thread)
  /\ \A f \in Endpoints : call[f].pc # "idle" => call[f].by # thread
  /\ call' = [call EXCEPT ![e] = [Idle EXCEPT !.pc = "open", !.by = thread]]
  /\ UNCHANGED <<qosProfile, exists, held, profile, seen, busVars, hook, sessionVars,
                 profileVars, disturbed>>

(* updateStreamType, with a type that arrived or is written: the type is   *)
(* compared with the topic's first, then its profile with the topic's.  A  *)
(* reader that owes a recreation pops on before it.                        *)
compare(e, t) ==
  /\ call[e].pc = "open"
  /\ call[e].owed < IF e \in Writers THEN 1 ELSE MaxOwed
  /\ seen' = [seen EXCEPT ![e] = t]
  /\ IF SameAsInitial(topic, t)
     THEN UNCHANGED <<call, raced>>
     ELSE /\ \E p \in findQosProfile(t), current \in Readable :
               call' = IF p = current THEN call
                       ELSE [call EXCEPT ![e].pc = "store", ![e].target = p]
          /\ raced' = (raced \/ Storing)
  /\ UNCHANGED <<qosProfile, exists, held, profile, busVars, hook, sessionVars,
                 overtaken, disturbed>>

(* _qos_profile = qos_profile, which takes time.                           *)
BeginStore(e) ==
  /\ call[e].pc = "store"
  /\ call' = [f \in Endpoints |->
                IF f # e /\ call[f].pc # "storing" THEN call[f]
                ELSE [call[f] EXCEPT !.pc = IF Storing THEN "tearing" ELSE "storing"]]
  /\ raced' = (raced \/ Storing)
  /\ UNCHANGED <<qosProfile, exists, held, profile, seen, busVars, hook, sessionVars,
                 overtaken, disturbed>>

(* Two threads that store at once leave the one, the other or a mixture.   *)
EndStore(e) ==
  /\ call[e].pc \in {"storing", "tearing"}
  /\ \E p \in {call[e].target} \cup IF call[e].pc = "tearing" THEN {Torn, qosProfile[topic]} ELSE {} :
       qosProfile' = [qosProfile EXCEPT ![topic] = p]
  /\ call' = [call EXCEPT ![e].pc = "open", ![e].owed = @ + 1]
  /\ overtaken' = exists \ {e}
  /\ UNCHANGED <<exists, held, profile, seen, busVars, hook, sessionVars,
                 raced, disturbed>>

(* The hook of a reader: waitset = nullptr, through a reference to a local *)
(* variable of the session that planted it.  Once that session is over,    *)
(* the store goes where something else may be.                             *)
CallHook(e) ==
  IF e \in Writers \/ hook[e] = 0 THEN UNCHANGED <<released, crashed>>
  ELSE IF hook[e] = session THEN released' = TRUE /\ UNCHANGED crashed
  ELSE crashed' \in BOOLEAN /\ UNCHANGED released

(* createReader or createWriter, with the profile it reads.                *)
recreate(e) ==
  /\ call[e].pc = "open"
  /\ call[e].owed > 0
  /\ CallHook(e)
  /\ \E p \in Readable : profile' = [profile EXCEPT ![e] = p]
  /\ raced' = (raced \/ Storing)
  /\ call' = [call EXCEPT ![e].owed = @ - 1]
  /\ UNCHANGED <<qosProfile, exists, held, seen, busVars, hook, session, sessions,
                 visiting, attached, overtaken, disturbed>>

(* Mutant of Leave: the call ends without the recreation it owes.          *)
LeaveAtOnce(e) ==
  /\ call[e].pc = "open"
  /\ call' = [call EXCEPT ![e] = Idle]
  /\ UNCHANGED <<qosProfile, exists, held, profile, seen, busVars, hook, sessionVars,
                 profileVars, disturbed>>

Leave(e) ==
  /\ call[e].pc = "open"
  /\ call[e].owed = 0
  /\ call' = [call EXCEPT ![e] = Idle]
  /\ UNCHANGED <<qosProfile, exists, held, profile, seen, busVars, hook, sessionVars,
                 profileVars, disturbed>>
-----------------------------------------------------------------------------
(* Reception.                                                              *)

(* Mutant of planted: a hook that is there already stays.                  *)
plantedOnce(n) == [r \in Readers |-> IF r \in entries /\ hook[r] = 0 THEN n ELSE hook[r]]

(* setRecreateWaitSetCondition of the registered readers.                  *)
planted(n) == [r \in Readers |-> IF r \in entries THEN n ELSE hook[r]]

(* A waitset for the entries of the moment, and the hooks.                 *)
startBlockingReception ==
  /\ collection
  /\ session = 0
  /\ sessions < MaxSessions
  /\ session' = sessions + 1
  /\ sessions' = sessions + 1
  /\ attached' = entries
  /\ hook' = planted(sessions + 1)
  /\ released' = FALSE
  /\ disturbed' = FALSE
  /\ UNCHANGED <<qosProfile, endpointVars, busVars, visiting, crashed, profileVars>>

(* The loop over the collection, whose iterator the thread holds while it  *)
(* pops.                                                                   *)
Visit(r) ==
  /\ session > 0
  /\ collection
  /\ visiting = Nobody
  /\ r \in entries
  /\ visiting' = r
  /\ freed' = {}
  /\ UNCHANGED <<qosProfile, endpointVars, entries, collection, hook, session, sessions,
                 released, crashed, attached, profileVars, disturbed>>

(* The iterator moves on, from an entry that is still there.               *)
Advance ==
  /\ session > 0
  /\ visiting # Nobody
  /\ call[visiting].pc # "idle" => call[visiting].by = "app"
  /\ visiting' = Nobody
  /\ crashed' = (visiting \in freed)
  /\ UNCHANGED <<qosProfile, endpointVars, busVars, hook, session, sessions, released,
                 attached, profileVars, disturbed>>

(* The loop turns: it waits with the null pointer that a hook left, or     *)
(* reads a collection that deinitialize freed.                             *)
Crash ==
  /\ session > 0
  /\ visiting = Nobody
  /\ released \/ ~ collection
  /\ crashed' = TRUE
  /\ UNCHANGED <<qosProfile, endpointVars, busVars, hook, session, sessions, visiting,
                 released, attached, profileVars, disturbed>>

(* stopBlockingReception was called, and the loop sees it.                 *)
EndSession ==
  /\ session > 0
  /\ visiting = Nobody
  /\ session' = 0
  /\ attached' = {}
  /\ UNCHANGED <<qosProfile, endpointVars, busVars, hook, sessions, visiting, released,
                 crashed, profileVars, disturbed>>
-----------------------------------------------------------------------------
(* What adds and removes entries.                                          *)

(* StreamItemDataReader::reset: an entry it had is removed, and one for    *)
(* the receiver, if there is one, added.                                   *)
reset(r, receiver) ==
  /\ r \in held
  /\ collection
  /\ entries' = IF receiver THEN entries \cup {r} ELSE entries \ {r}
  /\ freed' = freed \cup (entries \cap {r})
  /\ disturbed' = (disturbed \/ (session > 0 /\ r \in entries))
  /\ UNCHANGED <<qosProfile, endpointVars, collection, hook, sessionVars, profileVars>>

(* The collection goes, and the queues that only it kept.                  *)
deinitialize ==
  /\ collection
  /\ collection' = FALSE
  /\ entries' = {}
  /\ freed' = freed \cup entries
  /\ exists' = exists \cap held
  /\ disturbed' = (disturbed \/ session > 0)
  /\ UNCHANGED <<qosProfile, held, profile, call, seen, hook, sessionVars, profileVars>>
-----------------------------------------------------------------------------
Step(e) ==
  \/ getEndpoint(e) \/ drop(e)
  \/ \E thread \in {"app", "session"} : Enter(e, thread)
  \/ \E t \in NewTypes : compare(e, t)
  \/ BeginStore(e) \/ EndStore(e) \/ recreate(e) \/ Leave(e)

Next ==
  /\ ~ crashed
  /\ \/ \E e \in Endpoints : Step(e)
     \/ \E r \in Readers : Visit(r) \/ \E receiver \in BOOLEAN : reset(r, receiver)
     \/ startBlockingReception \/ Advance \/ Crash \/ EndSession
     \/ deinitialize

Spec == Init /\ [][Next]_vars
-----------------------------------------------------------------------------
(* The values of the variables.                                            *)
EndpointTypeOK ==
  /\ qosProfile \in [Topics -> Profiles \cup {Torn}]
  /\ exists \subseteq Endpoints
  /\ held \subseteq exists
  /\ profile \in [Endpoints -> Profiles \cup {Torn}]
  /\ call \in [Endpoints -> Calls]
  /\ seen \in [Endpoints -> StreamTypes]
  /\ entries \subseteq Readers \cap exists
  /\ collection \in BOOLEAN
  /\ hook \in [Readers -> 0..sessions]
  /\ session \in {0, sessions}
  /\ sessions \in Nat
  /\ visiting \in Readers \cup {Nobody}
  /\ freed \subseteq Readers
  /\ released \in BOOLEAN
  /\ crashed \in BOOLEAN
  /\ attached \subseteq Readers
  /\ overtaken \subseteq Endpoints
  /\ raced \in BOOLEAN
  /\ disturbed \in BOOLEAN

(* Each reader and writer follows the stream types it sees: between two    *)
(* calls it has the topic's profile, and that is one its last stream type  *)
(* asks for, however the calls of the two threads interleave and nest.     *)
(* There are three exceptions: another endpoint changed the shared profile *)
(* since, so that this one sees no change; the last type is the one that   *)
(* the topic was created with; the string was accessed by two at once.     *)
FollowsItsTypes ==
  \A e \in exists \ overtaken :
    call[e].pc = "idle" /\ ~ raced =>
      /\ profile[e] = qosProfile[topic]
      /\ \/ SameAsInitial(topic, seen[e])
         \/ profile[e] \in findQosProfile(seen[e])

(* "We are in the same thread" (createReader): while the session pops from *)
(* a reader that it attached, the hook the reader may call is its own and  *)
(* none of a session that is over, however often receptions start and stop.*)
SessionHooksAreLive ==
  \A r \in attached :
    call[r].pc # "idle" /\ call[r].by = "session" => hook[r] \in {0, session}

(* The iteration, which takes no lock, stays on an entry of the collection *)
(* and on a queue that exists, whatever readers the application creates,   *)
(* registers and drops meanwhile; only reset of a registered reader and    *)
(* deinitialize pull an entry from under it.                               *)
IterationIsSound ==
  session > 0 /\ visiting # Nobody /\ ~ disturbed =>
    visiting \in (entries \cap exists) \ freed
=============================================================================
