-------------------------- MODULE BlockingReception --------------------------
(***************************************************************************)
(* The reception thread of the simulation bus (FastDDSSimulationBus::Impl, *)
(* startBlockingReception and stopBlockingReception).  It attaches the     *)
(* read conditions of every registered reader and a guard condition to a   *)
(* DDS WaitSet, announces that it is prepared, and then waits on the set   *)
(* and pops from all registered readers until the guard is triggered.      *)
(*                                                                         *)
(* Other threads register data receivers, stop the reception and fill the  *)
(* readers' caches between any two of its steps.  The fields that carry    *)
(* the protocol are _receiving, the trigger value of _guard_condition and  *)
(* the local variable waitset, which createReader clears through the hook  *)
(* that the thread left in each queue.                                     *)
(*                                                                         *)
(* Assumed of the callers: one reception at a time; a registered receiver  *)
(* is replaced or removed only while none runs (the thread iterates over   *)
(* the collection without a lock); initialize and deinitialize do not run  *)
(* meanwhile.                                                              *)
(***************************************************************************)
EXTENDS ReaderItemQueue, FiniteSets

VARIABLES
  initialized,  \* _data_access_collection is there; fixed in this module
  collection,   \* _data_access_collection: the readers with a receiver
  receiving,    \* _receiving
  guard,        \* trigger value of _guard_condition
  stopper,      \* progress of stopBlockingReception
  pc,           \* where the reception thread is
  waitset,      \* the local pointer waitset: "null" or "set"
  attached,     \* readers with the current DDS reader's conditions in the WaitSet
  hooked,       \* readers whose queue holds the hook that clears waitset
  rounds,       \* triggered read conditions still to be served
  at,           \* position of data_access_iterator, or of the attach loop
  callbacks,    \* history: calls of the callback in this session
  stopped,      \* history: a stop began or ended during this session
  stopDue,      \* history: a stop ended after the callback of this session
  threw,        \* history: an exception ended the loop of this session
  expected      \* history: readers registered when this session started

stopVars      == <<receiving, guard, stopper>>
waitVars      == <<waitset, attached, hooked>>
loopVars      == <<rounds, at>>
pastVars      == <<callbacks, stopped, stopDue, threw, expected>>
receptionVars == <<initialized, collection, stopVars, pc, waitVars, loopVars, pastVars>>
vars          == <<queueVars, receptionVars>>

Registered == { collection[i] : i \in 1..Len(collection) }

Running == pc \notin {"unstarted", "returned", "crashed"}
Looping == pc \in {"check", "wait", "serve"}

Init ==
  /\ QueueInit
  /\ initialized \in BOOLEAN
  /\ collection = <<>>
  /\ receiving = FALSE
  /\ guard = FALSE
  /\ stopper = "idle"
  /\ pc = "unstarted"
  /\ waitset = "null"
  /\ attached = {}
  /\ hooked = {}
  /\ rounds = 0
  /\ at = 1
  /\ callbacks = 0
  /\ stopped = FALSE
  /\ stopDue = FALSE
  /\ threw = FALSE
  /\ expected = {}
-----------------------------------------------------------------------------
(* Other threads.                                                          *)

(* StreamItemDataReader::reset with a receiver: a registered reader is     *)
(* removed and added again at the end.                                     *)
Others(r) ==
  IF r \in Registered
  THEN LET i == CHOOSE i \in 1..Len(collection) : collection[i] = r
       IN  SubSeq(collection, 1, i - 1) \o SubSeq(collection, i + 1, Len(collection))
  ELSE collection

ResetReceiver(r) ==
  /\ initialized
  /\ r \in Registered => ~ Running
  /\ collection' = Append(Others(r), r)
  /\ UNCHANGED <<queueVars, initialized, stopVars, pc, waitVars, loopVars,
                 pastVars>>

(* StreamItemDataReader::reset(nullptr).                                   *)
RemoveReceiver(r) ==
  /\ r \in Registered
  /\ ~ Running
  /\ collection' = Others(r)
  /\ UNCHANGED <<queueVars, initialized, stopVars, pc, waitVars, loopVars,
                 pastVars>>

(* stopBlockingReception, its two stores.                                  *)
StopReceiving ==
  /\ stopper = "idle"
  /\ stopper' = "flagged"
  /\ receiving' = FALSE
  /\ stopped' = (stopped \/ Running)
  /\ UNCHANGED <<queueVars, initialized, collection, guard, pc, waitVars, loopVars,
                 callbacks, stopDue, threw, expected>>

TriggerGuard ==
  /\ stopper = "flagged"
  /\ stopper' = "idle"
  /\ guard' = TRUE
  /\ stopped' = (stopped \/ Running)
  /\ stopDue' = (stopDue \/ (Running /\ callbacks > 0))
  /\ UNCHANGED <<queueVars, initialized, collection, receiving, pc, waitVars,
                 loopVars, callbacks, threw, expected>>

DataArrives == (\E r \in Readers : Arrival(r)) /\ UNCHANGED receptionVars
-----------------------------------------------------------------------------
(* startBlockingReception, up to the preparation callback.                 *)

Start ==
  /\ pc \in {"unstarted", "returned"}
  /\ pc' = IF initialized THEN "entered" ELSE "leave"
  /\ callbacks' = 0
  /\ stopped' = FALSE
  /\ threw' = FALSE
  /\ expected' = Registered
  /\ UNCHANGED <<queueVars, initialized, collection, stopVars, waitVars, loopVars,
                 stopDue>>

SetReceiving ==
  /\ pc = "entered"
  /\ pc' = "loop"
  /\ receiving' = TRUE
  /\ UNCHANGED <<queueVars, initialized, collection, guard, stopper, waitVars,
                 loopVars, pastVars>>

(* while (_receiving), and a new WaitSet.                                  *)
EnterLoop ==
  /\ pc = "loop"
  /\ receiving
  /\ pc' = "attach"
  /\ waitset' = "set"
  /\ attached' = {}
  /\ at' = 1
  /\ UNCHANGED <<queueVars, initialized, collection, stopVars, hooked, rounds,
                 pastVars>>

SkipLoop ==
  /\ pc = "loop"
  /\ ~ receiving
  /\ pc' = "leave"
  /\ UNCHANGED <<queueVars, initialized, collection, stopVars, waitVars, loopVars,
                 pastVars>>

AttachReader ==
  /\ pc = "attach"
  /\ at <= Len(collection)
  /\ attached' = attached \cup {collection[at]}
  /\ hooked' = hooked \cup {collection[at]}
  /\ at' = at + 1
  /\ UNCHANGED <<queueVars, initialized, collection, stopVars, pc, waitset, rounds,
                 pastVars>>

(* Mutant of ArmGuard: a guard triggered by an earlier stop stays so.      *)
ArmGuardKept ==
  /\ pc = "attach"
  /\ at > Len(collection)
  /\ pc' = "announce"
  /\ UNCHANGED <<queueVars, initialized, collection, stopVars, waitVars, loopVars,
                 pastVars>>

(* Mutant of ArmGuard: the attach loop ends one reader early.              *)
ArmGuardEarly ==
  /\ pc = "attach"
  /\ at >= Len(collection)
  /\ pc' = "announce"
  /\ guard' = FALSE
  /\ UNCHANGED <<queueVars, initialized, collection, receiving, stopper, waitVars,
                 loopVars, pastVars>>

(* The guard is attached and set back: an earlier stop is forgotten.       *)
ArmGuard ==
  /\ pc = "attach"
  /\ at > Len(collection)
  /\ pc' = "announce"
  /\ guard' = FALSE
  /\ UNCHANGED <<queueVars, initialized, collection, receiving, stopper, waitVars,
                 loopVars, pastVars>>

(* reception_preparation_done_callback_caller.reset()                      *)
Announce ==
  /\ pc = "announce"
  /\ pc' = "check"
  /\ callbacks' = callbacks + 1
  /\ UNCHANGED <<queueVars, initialized, collection, stopVars, waitVars, loopVars,
                 stopped, stopDue, threw, expected>>
-----------------------------------------------------------------------------
(* The loop that waits and pops.                                           *)

CheckGuard ==
  /\ pc = "check"
  /\ pc' = IF guard THEN "leave" ELSE "wait"
  /\ UNCHANGED <<queueVars, initialized, collection, stopVars, waitVars, loopVars,
                 pastVars>>

(* The conditions createSampleReadCondition and                            *)
(* createStreamTypeReadCondition make.                                     *)
SampleReady(r) == alive[r] /\ samples[r] # <<>>
TypeReady(r)   == alive[r] /\ types[r] # <<>> /\ newView[r]

Triggered ==
  Cardinality({ r \in attached : SampleReady(r) }) + Cardinality({ r \in attached : TypeReady(r) })

(* Mutant of Wait: the guard is set back after each wait.                  *)
WaitAndRearm ==
  /\ pc = "wait"
  /\ waitset = "set"
  /\ pc' = "serve"
  /\ rounds' = Triggered
  /\ at' = 1
  /\ guard' = FALSE
  /\ UNCHANGED <<queueVars, initialized, collection, receiving, stopper, waitVars,
                 pastVars>>

(* WaitSet::wait returns the triggered conditions, or none after 100 ms.   *)
Wait ==
  /\ pc = "wait"
  /\ waitset = "set"
  /\ pc' = "serve"
  /\ rounds' = Triggered
  /\ at' = 1
  /\ UNCHANGED <<queueVars, initialized, collection, stopVars, waitVars, pastVars>>

(* wait on the null pointer the hook has left: the process ends.           *)
WaitOnNull ==
  /\ pc = "wait"
  /\ waitset = "null"
  /\ pc' = "crashed"
  /\ UNCHANGED <<queueVars, initialized, collection, stopVars, waitVars, loopVars,
                 pastVars>>

(* All conditions are served.                                              *)
EndServe ==
  /\ pc = "serve"
  /\ rounds = 0
  /\ pc' = "check"
  /\ UNCHANGED <<queueVars, initialized, collection, stopVars, waitVars, loopVars,
                 pastVars>>

(* Mutant of NextCondition: it counts down past the last condition.        *)
NextConditionAlways ==
  /\ pc = "serve"
  /\ at > Len(collection)
  /\ rounds' = rounds - 1
  /\ at' = 1
  /\ UNCHANGED <<queueVars, initialized, collection, stopVars, pc, waitVars,
                 pastVars>>

(* Every entry of the collection was popped for this condition.            *)
NextCondition ==
  /\ pc = "serve"
  /\ rounds > 0
  /\ at > Len(collection)
  /\ rounds' = rounds - 1
  /\ at' = 1
  /\ UNCHANGED <<queueVars, initialized, collection, stopVars, pc, waitVars,
                 pastVars>>

(* The thread is in popFrom of reader r.                                   *)
Serving(r) ==
  /\ pc = "serve"
  /\ rounds > 0
  /\ at <= Len(collection)
  /\ collection[at] = r

ServePop(r) ==
  /\ Serving(r)
  /\ BeginPop(r) \/ PopStep(r)
  /\ UNCHANGED receptionVars

(* Mutant of HookOutcomes: createReader calls no hook.                     *)
HookNotCalled(r) == {waitset}

(* createReader calls the hook before it closes the old reader.  A hook    *)
(* left by an earlier session writes to that session's dead local, which   *)
(* may be where this session keeps its own.                                *)
HookOutcomes(r) ==
  IF r \in attached THEN {"null"}
  ELSE IF r \in hooked THEN {"null", waitset}
  ELSE {waitset}

ServeCreateReader(r) ==
  /\ Serving(r)
  /\ createReader(r)
  /\ waitset' \in HookOutcomes(r)
  /\ attached' = attached \ {r}
  /\ UNCHANGED <<initialized, collection, stopVars, pc, hooked, loopVars, pastVars>>

(* if (popFrom) while (popFrom): on to the next entry when nothing is read.*)
ServeEndPop(r) ==
  /\ Serving(r)
  /\ EndPop(r)
  /\ at' = IF call[r].got THEN at ELSE at + 1
  /\ UNCHANGED <<initialized, collection, stopVars, pc, waitVars, rounds, pastVars>>

(* catch (const std::exception&): logged, and the loop is over.            *)
CatchException(r) ==
  /\ Serving(r)
  /\ PopThrows(r)
  /\ pc' = "leave"
  /\ threw' = TRUE
  /\ UNCHANGED <<initialized, collection, stopVars, waitVars, loopVars, callbacks,
                 stopped, stopDue, expected>>

(* Mutant of Leave: nothing calls the callback at the end of the scope.    *)
LeaveSilently ==
  /\ pc = "leave"
  /\ pc' = "returned"
  /\ waitset' = "null"
  /\ attached' = {}
  /\ rounds' = 0
  /\ at' = 1
  /\ stopDue' = FALSE
  /\ UNCHANGED <<queueVars, initialized, collection, stopVars, hooked, callbacks,
                 stopped, threw, expected>>

(* return, and the callback if it was not called yet.                      *)
Leave ==
  /\ pc = "leave"
  /\ pc' = "returned"
  /\ waitset' = "null"
  /\ attached' = {}
  /\ rounds' = 0
  /\ at' = 1
  /\ callbacks' = IF callbacks = 0 THEN 1 ELSE callbacks
  /\ stopDue' = FALSE
  /\ UNCHANGED <<queueVars, initialized, collection, stopVars, hooked, stopped,
                 threw, expected>>
-----------------------------------------------------------------------------
ReceptionStep ==
  \/ SetReceiving \/ EnterLoop \/ SkipLoop \/ AttachReader \/ ArmGuard \/ Announce
  \/ CheckGuard \/ Wait \/ WaitOnNull \/ EndServe \/ NextCondition \/ Leave
  \/ \E r \in Readers :
       ServePop(r) \/ ServeCreateReader(r) \/ ServeEndPop(r) \/ CatchException(r)

OtherThreads ==
  \/ \E r \in Readers : ResetReceiver(r) \/ RemoveReceiver(r)
  \/ StopReceiving
  \/ TriggerGuard
  \/ DataArrives
  \/ Start

Next == pc # "crashed" /\ (ReceptionStep \/ OtherThreads)

(* The thread keeps running; nothing is assumed of its environment.        *)
Spec == Init /\ [][Next]_vars /\ WF_vars(ReceptionStep)
-----------------------------------------------------------------------------
PcValues == {"unstarted", "entered", "loop", "attach", "announce", "check", "wait",
             "serve", "leave", "returned", "crashed"}

(* The values of the variables of this module.                             *)
SessionTypeOK ==
  /\ initialized \in BOOLEAN
  /\ collection \in Seq(Readers)
  /\ receiving \in BOOLEAN
  /\ guard \in BOOLEAN
  /\ stopper \in {"idle", "flagged"}
  /\ pc \in PcValues
  /\ waitset \in {"null", "set"}
  /\ attached \subseteq Readers
  /\ hooked \subseteq Readers
  /\ rounds \in Nat
  /\ at \in Nat \ {0}
  /\ callbacks \in Nat
  /\ stopped \in BOOLEAN
  /\ stopDue \in BOOLEAN
  /\ threw \in BOOLEAN
  /\ expected \subseteq Readers

(* The values of the variables, those of the readers' queues included.     *)
ReceptionTypeOK == QueueTypeOK /\ SessionTypeOK

(* "RAII ensuring invocation of callback exactly once": whichever way a    *)
(* session ends, by a stop that comes before the loop, an exception or a   *)
(* missing collection, its preparation callback was called once, and never *)
(* again while it runs.                                                    *)
CallbackOnce ==
  /\ callbacks <= 1
  /\ pc = "returned" => callbacks = 1
  /\ Looping => callbacks = 1

(* "Now prepared ... for a call to stopBlockingReception": a stop that     *)
(* completes once the callback was called keeps the guard triggered until  *)
(* the reception has returned; setting the guard back never erases it.     *)
StopIsKept == stopDue => guard

(* A session is over only because it was stopped itself, an exception      *)
(* ended it or there is nothing to receive from: a guard still triggered   *)
(* by the stop of an earlier session does not end it.                      *)
SessionEndsForCause ==
  pc = "leave" => stopped \/ threw \/ ~ initialized

(* Every reader registered before the reception starts is in the WaitSet,  *)
(* on the conditions of its current DDS reader, whenever the thread waits: *)
(* a change of profile never leaves it waiting on a closed reader.         *)
WaitsOnCurrentReaders ==
  pc = "wait" /\ waitset = "set" => expected \subseteq attached

(* Once a stop is due the reception returns, whatever data keep arriving,  *)
(* up to MaxArrivals, and whatever the other threads do.                   *)
StopEndsReception == stopDue ~> pc \in {"returned", "crashed"}

(* A sample cached for a reader that was registered before the start is    *)
(* taken while the session and the peer last, whichever readers, profiles  *)
(* or late registrations come in between.                                  *)
Served(r) == ~ Looping \/ ~ SampleReady(r)

RegisteredIsServed == \A r \in Readers : r \in expected ~> Served(r)

(* The same of every reader in the collection, those registered while the  *)
(* reception runs included ("recreate WaitSet if ... a new reader was      *)
(* created").                                                              *)
LateReaderServed == \A r \in Readers : r \in Registered ~> Served(r)

(* "Run until ::stop was called".                                          *)
RunsUntilStop == pc = "leave" /\ initialized => stopped

(* "Recreate WaitSet if ... a reader recreated internal dds reader": the   *)
(* thread never waits on the pointer that the hook cleared.                *)
WaitSetIsUsable == pc # "crashed"
=============================================================================
