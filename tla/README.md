# Verification of the FEP3 Fast DDS simulation bus plugin

TLA+ models of the simulation bus in `src/src/fast_dds/simulation_bus`, TLC configurations that
check them on small instances, and TLAPS proofs of the main safety properties for all values of the
constants. `PROJECT.json` holds the machine-readable side: components, runs, the map from every
definition to the lines it models, one mutant per property, findings, hazards and theorems.

To repeat a check: `tlc -config ReaderItemQueue.cfg MCReaderItemQueue.tla`; to repeat a proof:
`tlapm ReaderItemQueueProofs.tla`.

Short names below: BUS `fep_fast_dds_simulation_bus.cpp`, QUEUE `reader_item_queue.cpp`,
TOPIC, READER, WRITER `stream_item_topic/stream_item_{topic,reader,writer}.cpp`.

## 1. The system and its parts

The plugin is the component `ISimulationBus` of a FEP participant. The application asks it for
readers and writers of named topics, registers data receivers at readers, and runs
`startBlockingReception` in a thread of its own until another thread calls `stopBlockingReception`.
DDS threads fill the caches of the DDS readers meanwhile.

| Part | State | Operations | Talks to |
|---|---|---|---|
| Bus lifecycle (BUS 291-545) | `_participant`, `_topics`, `_bus_info`, `_data_access_collection`; a mutex static to the process | create, initialize, deinitialize, destroy, getReader (4 overloads), getWriter (4), getOrCreateTopic | Fast DDS factory, configuration service, bus info; hands a weak pointer to the collection to readers |
| Reception (BUS 145-243) | `_receiving`, `_guard_condition`; locals `waitset`, conditions, the last collection size | startBlockingReception, stopBlockingReception | iterates over the collection, calls `popFrom`, leaves a hook in each queue that clears its local `waitset` |
| Topic (TOPIC) | `_qos_profile`, `_stream_type`, `_system_name` | updateStreamType, findQosProfile, isBigStreamType, createDataReader, createDataWriter | shared by all readers and writers of a name |
| Reader queue (QUEUE) | DDS sample reader, DDS stream type reader, read conditions, hook | popFrom (calls itself), createReader, pop, size, getFrontTime | topic's updateStreamType; data receiver's callbacks; hook |
| Data reader (READER) | its queue, weak pointer to the collection, iterator into it | reset, pop | collection, queue |
| Data writer (WRITER) | DDS writers | write (sample), write (stream type), transmit, createWriter | topic |
| Internal topic (`internal_topic/`) | a bounded queue under a recursive mutex | write, pop, size | bus info; the application's threads |
| Bus info (`bus_info/`) | participants, update callback | on_data_available, registerUserData, registerParticipant (empty), asJson | the DDS listener thread; the built-in internal topic |
| DDS types (`types/`) | the members of a sample, a property, a stream type | size, serialize, deserialize | DDS's payload pool; writer and reader queue |
| Conversion | none | timestamps, exceptions to results | reader queue, writer |

Which behaviours are hard, and what makes each part correct:

* **Reception.** A stop comes in two stores, between any two steps of the thread; the guard is shared
  by all sessions and set back by each one; the callback that says "prepared" must come exactly once
  on every path; the thread must not wait on DDS readers that were closed under it; what was
  registered must be served; a stop must end it.
* **Reader queue.** `popFrom` nests: a stream type that changes the profile makes it pop everything
  first, which may change the profile again, or throw. Caches overwrite, peers leave and return, DDS
  readers are replaced. Samples must come at most once and in order, none may be lost to a
  replacement that had to be read before, and the reader must end with the topic's profile.
* **Topic.** One field shared by endpoints that each compare it with their own change; text parsed to
  int, multiplied by eight.
* **Lifecycle.** Several buses of a process initialize at once under one mutex, fail at several steps
  with a part of the state in place, and the application keeps readers and writers over a
  deinitialize: nothing of an earlier initialize may be handed out, used or dangle.
* **Internal topic and bus info.** A size checked before the lock is taken; a receiver that runs under
  the lock and may pop again, while the DDS thread waits to write; each entry must describe all that
  was announced before it.
* **Data path.** The size of a payload is computed by one function and used by another, with padding
  that depends on the position; what is read goes into an object that held something else; 64-bit
  times go through unsigned 32-bit seconds.

The hazards in `PROJECT.json` list these at their lines, with the properties that cover them or the
reason why none does.

## 2. Modules

```
StreamItemTopic <- ReaderItemQueue <- BlockingReception <- MCBlockingReception
                        |  \__ implements LossyFifo
                        |\__ MCReaderItemQueue
                        \__ ReaderItemQueueProofs <- ProfileChangeProofs <- BlockingReceptionProofs
BusLifecycle <- MCBusLifecycle
      |     \__ BusLifecycleProofs
      \__ implements BusSessions
StreamItemTopic <- SharedEndpoints <- MCSharedEndpoints
                                  \__ SharedEndpointsProofs
InternalTopic <- BusInfo <- MCBusInfo
      |                 \__ BusInfoProofs
      \__ implements LossyFifo
StreamCodec <- DataPath <- MCDataPath
      |         \__ implements Delivery
      \__ StreamCodecProofs <- DataPathProofs (also of DataPath)
```

### StreamItemTopic
`qosProfile` is `_qos_profile` of each topic. A stream type is the record of what `findQosProfile`
reads: the meta type's name and two texts, each `Unset`, `NotANumber` or the number it spells.
`findQosProfile` and `isBigStreamType` return the *set* of answers a build can give, because
`std::stoi(..) * 8` may overflow `int`: either the exact product or its two's complement remainder
is compared. `updateThrows`, `updateTakes` and `updateIgnores` are the three ways out of
`updateStreamType`; the comparison with `_stream_type`, which no code replaces, is `SameAsInitial`.

### ReaderItemQueue
Per reader: the two DDS caches (`samples`, `types`), the instance and view states the code asks for
(`alive`, `newView`), the profile of the current DDS reader, and the call of `popFrom` in progress.
`call.depth` counts the calls suspended in the loop "first read all samples", so nesting is
unbounded. Each look at a DDS reader is a step of its own, with `SampleArrives`,
`StreamTypeArrives`, `PeerLeaves` and `PeerReturns` between any two. DDS behaviour (`KeepLast`,
`Taken`, `Left`, instance states) is external, modelled from how `popFrom` uses it. `PopThrows` is
the exception of `std::stoi`, which leaves every nested call.

Not in the model: `size`, `capacity`, `getFrontTime` (no state), timestamps, payloads.

### LossyFifo
What a reader promises: items sent 1, 2, 3, ..; each received at most once and in order; any may be
lost. `ReaderItemQueue` implements it twice, for samples (`SamplesAreLossyFifo`) and for stream
types (`TypesAreLossyFifo`), with `received` and `receivedTypes` as the refinement mapping, and
`InternalTopic` a third time, for its entries (`EntriesAreLossyFifo`), with `written` and `delivered`.

### BlockingReception
Extends the queues by the reception thread. `pc` names the places of `startBlockingReception`; one
action per statement that another thread can get between: the store to `_receiving`, the loop test,
each reader attached, the guard attached and set back, the callback, the guard test, the wait, each
pop, the hook inside `createReader`, the exception, and the end of the scope. `StopReceiving` and
`TriggerGuard` are the two stores of `stopBlockingReception`. `waitset` is the local pointer;
`attached` holds the readers whose current conditions are in the WaitSet. `rounds` stands for the
list of triggered conditions: the code pops from every entry once per condition. A wait on the null
pointer ends the process (`WaitOnNull`); this is one outcome of undefined behaviour, and the one the
builds produce. The hook captured a local by reference and is never removed, so a hook of an earlier
session may or may not hit this session's pointer (`HookOutcomes`).

Assumed of the callers, and stated in the module: one reception at a time; a registered receiver is
replaced or removed only while none runs (the collection is iterated without a lock); no initialize
or deinitialize meanwhile; only the reception pops from registered readers.

Peers are not only this plugin: a writer of this plugin never publishes a stream type (WRITER
116-144 builds one and drops it), while the reader is written to receive them. `PeerTypes` gives each
reader the stream types that its peers publish. In `Reception.cfg` the peers of one reader publish types
that change the profile or do not parse, those of the other behave as this plugin's writers do.

### BusLifecycle
The buses of one process. `initialize` is cut at the places where another bus can get between: the
first locked section, the settings, the second section (bus info, participant), the collection. Ways
out: bad profiles or names (`RejectSettings`), user data too long (`UserDataTooLong`, which leaves a
bus info), and a null participant, whose use ends the process (`NoParticipant`). Participants and
collections carry the number of the attempt that made them, so a reader kept from an earlier
initialize can be told from a new one; `live` is what exists in DDS, where deinitialize deletes
nothing. `getOrCreateTopic`, `getReader`, `getWriter`, the overload that returns `nullptr`, `reset`
(with its weak pointer and iterator) and the two destructors are actions; `write` hands a sample to
the readers of the name in the same partition. A `create` that fails and a topic constructor that
throws change nothing and are stuttering steps.

Assumed: the calls on one bus do not overlap and keep the order of the component framework (create,
initialize, deinitialize, destroy); no reception runs meanwhile; all buses are in one DDS domain.

### BusSessions
What the buses of a process promise the application: an initialize that succeeds is one step and begins
a session, one that fails is no step; readers and writers belong to the session they were got in; a
receiver is served until its session ends; the application may keep what it got beyond it.
`BusLifecycle` implements it (`InitializeIsAtomic`). A session is named by the attempt that made its
participant (`SessionOf`), a handle belongs to the session whose participant it stands on (`HeldFrom`),
and `served` is the collection. The locked sections of `initialize`, its ways out, `write`, and a `reset`
whose weak pointer has expired are stutters. That a step of `initialize` which fails after the bus
info or the participant was made leaves no trace is what the mapping has to show.

### SharedEndpoints
The readers and writers of one topic and two threads that nothing synchronizes: the application's and
the one that runs the reception. It takes from `ReaderItemQueue` and `BlockingReception` what they
leave out by assumption: a profile that several endpoints share, a reader dropped or registered anew
under the iteration, a deinitialize during a reception, hooks of sessions that are over.

* `profile[e]` is what the DDS reader or writer of an endpoint was created with; `seen[e]` is the last
  stream type it compared. `call[e]` is its pop, `popFrom` or write in progress, and `owed` counts the
  recreations that nested calls owe. A store to `_qos_profile` takes two steps (`BeginStore`,
  `EndStore`): who reads in between gets the old text, the new one or `Torn`, and two stores at once
  leave any of these.
* `exists` and `held` tell the item queue from the reader that the application holds: the queue lives on
  in its entry of the collection, which the destructor leaves behind. `freed` are the entries that went
  away during the current visit; to advance from one of those, to loop over a freed collection or to
  wait on a cleared pointer is a crash.
* What the properties exclude is in the model, not refuted by it: an endpoint that another overtook, a
  torn string and a type equal to the initial one (`FollowsItsTypes`), a pop of the application through
  the hook of an old session (`SessionHooksAreLive`), a reset or deinitialize under the iteration
  (`IterationIsSound`). The code fails there, no document of the repository says that it should not,
  and the hazards at those lines name no property.
* `hook[r]` is the session a hook refers to. A hook of a session that is over writes to a dead frame,
  which may or may not end the process (`CallHook`).

Assumed: one reception at a time, two threads, no two of them in a call of the same endpoint; stream
types that `std::stoi` can read (the others are in `ReaderItemQueue`). `MaxOwed` bounds the nesting.

### InternalTopic
`queue` holds the numbers of the entries written. `write` is one section under the mutex: it drops
while the size is above the limit and *then* pushes, so that eleven entries fit a queue of ten. `pop`
is `CheckSize`, which takes and gives back the mutex, then `TakeFront`, `Receive` and `Release`, which
run under the mutex; `PopInside` is a receiver that pops again through the recursive mutex.
`TakeFromEmpty` is `front` of an empty queue, undefined, which ends the model.

### BusInfo
Extends `InternalTopic` by its one writer. `NewsArrives` is what the domain announces (`announced`); it
gets to the listener's `inbox` only if the listener is `Attached`. `SkipNews` samples without valid data and user data that are no JSON; `ParseThrows` is JSON of another form,
whose exception leaves the DDS thread; `onUserDataReceived` updates the map, and `Report` is the callback,
which writes the whole map to the topic once it gets the mutex.

`Attached` is what `registerParticipant` does, and the constant is FALSE in the plugin: the body of that
function is commented out. `BusUnreported.cfg` has it so, and shows that nothing announced is ever
reported. `BusInfo.cfg` has it TRUE and is about the classes by themselves, from the first
`on_data_available` on: what it shows is true of their code and reached by no call of this plugin. The
theorems are for both values.

### StreamCodec and DataPath
`StreamCodec` has the values of the generated DDS types and, as operators, their constructors,
`getCdrSerializedSize`, `serialize` and `deserialize`. A buffer is a sequence of octets after the
encapsulation header; padding is counted from there. A number takes a word whose first octet holds it;
a text is written as its length with the final Nul, and as far as a C string goes (`CStr`);
`fixed_string` cuts (`Fixed`).

`DataPath` takes one item from `write` to the receiver: the DDS object and timestamp, the size provider
(one step per property), the payload, `serialize` (which fails when a step does not fit the payload),
`deserialize` into an object that is used again, `createSample` or `createStreamType`. `room` is the
size of the pool's payloads, which only grow. `toStamp` and `fromStamp` are the two
`convertTimestamp`, with the widths of their casts. A timestamp whose nanoseconds are no less than a
second may come out of DDS as any other (`Transported`).

### Delivery
What the way of an item promises: submitted or refused in one step, received in one step, nothing else
in between. `DataPath` implements it (`PathIsDelivery`) with `item` and `result` as the mapping: the
computation of the size, the payload, each property put and read, and the conversions are stutters.
`Refusable` are the samples with a time that DDS refuses. `Arrives` says what comes out, in terms of
the value written alone and without the codec: the data of a sample and its time modulo 2^32 seconds
(any time, for one before the epoch); of a stream type the texts up to a Nul (`Beginning`), names and
types within their `fixed_string`, and of properties of one name the last.

One item is under way at a time: `ReaderItemQueue` says which of many are kept. Payloads are read as
they were written. A stream type comes from a peer, because this plugin's writer does not publish it.

## 3. Runs

| Run | Instance | What it checks |
|---|---|---|
| `reader_item_queue` | one reader, depth 1, batch 2, five arrivals of any kind of sample or stream type (small, small without size, large, unreadable, overflowing); 559,812 states | types and cache bounds; samples and types are lossy FIFOs; the reader is drained before it is replaced; it ends with the topic's profile; nothing taken is lost |
| `reception` | two readers, one arrival each; the peers of the first publish samples and types that change the profile or throw, those of the second samples only; stops, restarts and registrations at any step; 749,468 states | types; callback exactly once; a stop after the callback is kept and ends the reception; sessions end for a cause; never a wait on a closed reader; registered readers are served |
| `bus_lifecycle` | two buses of different systems, each with a reader, one writer, two initializes each; 57,728 states | one constructor at a time; an initialized bus is whole; no stale topic or iterator; handles stand on live participants; initialize is atomic (`BusSessions`) and ends |
| `shared_endpoints` | a reader and a writer of one topic, three stream types, two sessions, two nested changes; 3,722,616 states | endpoints follow their types; a session calls its own hooks; what can pull an entry from under the iteration |
| `bus_info` | the listener attached; two threads that pop, two participants, three samples of the listener, a limit of one; 64,829 states | entries are a lossy FIFO and the newest are kept; `front` of an empty queue takes two threads; a report describes all announced before |
| `data_path` | four samples with 32 times, five stream types, payloads that must grow; 29,289 states | the payload is always large enough; samples and stream types arrive intact; the way is one delivery (`Delivery`) |
| `queue_order` | violation | `InArrivalOrder` |
| `reception_late` | violation | `LateReaderServed` |
| `reception_recreate` | violation | `WaitSetIsUsable` |
| `reception_exception` | violation | `RunsUntilStop` |
| `system_isolation` | violation | `SystemsAreIsolated` |
| `bus_unreported` | violation, the listener not attached | `AnnouncedIsReported` |

### Where the code and its documentation disagree
* A reader registered while the reception runs is not served. The comment at BUS 168-170 and a test
  say it is; the check that would notice it is in an outer loop whose body always returns.
* After a change of profile the thread waits on the null pointer the hook left; the recreation the
  comment promises is in the same outer loop.
* An exception from one stream type ends the reception of all readers, while the comment says "Run
  until ::stop was called".
* Samples and stream types are not handed on in the order of their arrival, which a test expects in
  sequence: `popFrom` looks at samples first.
* Systems of one domain are not isolated: the partition name is a field that nothing assigns.
* Nothing that participants announce is ever reported, while a test expects an entry of the built-in
  topic (`tester_dds_simbus_version.cpp:55` and `:77`): `registerParticipant` attaches no listener. With a
  listener attached the same statement holds in the same instance.
* A stream type that this plugin's writer is given is never published (WRITER 133-144), while the test
  `SendAndReceiveStreamType` expects the peer to receive it. No run shows this: one call of `write` does.

### Bounds
* `MaxArrivals` 5, 3, 2 or 1: with a depth of 1 and a batch of 2, three arrivals suffice for
  a type that changes the profile, a nested one that changes it again and a sample between them;
  five let a second recreation follow the first. One arrival per reader is enough for the questions
  of `reception`, which are about the thread: one stream type makes the hook run or the exception fly
  while the other reader, attached or registered late, has a sample. `reception_recreate` and
  `reception_exception` have two.
* `Readers`: one reader is enough where properties speak of one reader's data; two where an iteration
  may leave one out. Readers have topics of their own there; `shared_endpoints` has one topic.
* `shared_endpoints`: one reader and one writer are one endpoint per thread, and two types with one
  profile and one with another make a change and a change back. Two sessions let a hook outlive the
  first; `MaxOwed` 2 lets a change of the profile come during the pops of another.
* `bus_info`: `Limit` 1 stands for ten; two entries fit, the third drops one. Three samples let one
  participant announce itself twice and another in between.
* `data_path`: texts of nought to three characters and, with the Nul, of every length modulo four; names
  and types of at most two, so that some are cut; a second of three nanoseconds and words of eight
  values, with times on both sides of 0 and of the largest that fits.
* Sessions and stops are not bounded; the state space is finite without.
* `MaxAttempts` 2: an attempt after a failed one, after a deinitialize, and handles kept from the first.
* Scaled constants: the message limit 64000 becomes 16 and `int` 6 bits (`IntMax` 31); a size of 8
  times 8 overflows it just as 268435456 times 8 overflows the real one.
* `HistoryDepth` is 1, as in the shipped profiles, which set no reader history. `MaxSamplesPerRead`
  is 2, above it, as the default is in DDS.

### Fairness
* `BlockingReception!Spec` has weak fairness of `ReceptionStep` only: the thread runs, and its wait
  returns after 100 ms at the latest (BUS 205). Nothing is assumed of peers, of DDS deliveries, of
  the thread that stops. `StopEndsReception` is checked up to `MaxArrivals` items: against a writer
  that is never slower than `while (popFrom)` no fairness of the thread would help, since the guard is
  looked at outside of that loop.
* `BusLifecycle!Spec` has weak fairness of each bus's steps in initialize. Strong fairness of
  the mutex is not needed, because `MaxAttempts` bounds how often another bus takes it; a process that
  initializes another bus for ever, on a mutex that is never fair, is outside of the model.
* `BusInfo!Spec` has weak fairness of the listener's thread and of a thread that is inside of a receiver:
  it returns. Weak is enough for the callback, although receivers hold the mutex again and again,
  because a receiver ends and takes entries that only the callback replaces. Nobody has to pop.
  `bus_unreported` has the same fairness; what is missing there is not a step of the listener but its news.
* Deadlock is checked in `reader_item_queue`, `queue_order`, `reception_late` and `data_path`. The others say `CHECK_DEADLOCK FALSE` because the process may end there.

## 4. Proofs

TLAPS proves the following for every number of readers, topics, buses and names, every history
depth, batch size, set of stream types and bound. The assumptions on the constants are the named
`ASSUME`s of the modules, which TLC evaluates in the passing runs.

**ReaderItemQueueProofs.** `TypeInv` is `QueueTypeOK` and `CallShape`, what the place of a call tells
of its depth and result; without it the type of `call` is not kept by `Return`.
`OrderInv` is what order needs: the caches are ascending and end with numbers that arrived, and all
that is cached is newer than all that was handed on. It is kept by overwriting, by a take, and by
closing a reader. From it come `QueueTypeCorrect`, and `QueueIsSampleChannel` and
`QueueIsTypeChannel`, which say that each step of the queue is a step or a stutter of `LossyFifo`. Lemmas about `KeepLast`,
`Taken` and `Left` are stated once.

**ProfileChangeProofs.** `ReadBeforeRecreate` needs `HistoryDepth <= MaxSamplesPerRead`: a call that
finds the instance not alive reports nothing read although samples may be left in the cache, so a
take must empty it. `DrainInv` carries
that over the nested call: once it is past its samples, all that is cached came after the mark. `ProfileInv`
(the reader's profile and the topic's differ only while a call is suspended or an exception cut it
short) gives `ProfileStaysInForce`; `ShippedDepthDropsNoBatch` has `HistoryDepth = 1` as its hypothesis,
which is what the plugin ships.

**BlockingReceptionProofs.** `ReceptionUsesQueues`: every step of the reception is a step or a
stutter of the queues, so their theorems hold in it (`ReceptionIsSampleChannel`,
`ReceptionIsTypeChannel`, `ReceptionKeepsProfiles`). `ProtocolInv`
relates the place of the thread, the guard, the flag and the histories: `CallbackExactlyOnce`,
`StopNotLost`, `NoStaleStop`. `SessionInv` adds that all entries of the collection that were
registered at the start are attached as far as the attach loop has come, and that an attached reader
leaves only with the pointer cleared: `ReceptionTypeCorrect`, `NoWaitOnClosedReader`.

Two statements of the source are false in general (`RunsUntilStop`, `WaitSetIsUsable`), and the proofs
say when they are true. `ReadableTypesRunUntilStop` has as its hypothesis `ReadableTypes`, that no peer
of any reader publishes a type that `std::stoi` refuses. `OneProfileKeepsWaitSet` has `OneProfile`: each type a peer
publishes is the one the topic was created with, does not parse, or asks for the same profile, whatever
a build makes of an overflow. Both hold of peers that are this plugin's writers, which publish no type,
and of peers whose types are small as the topic's is; `reception_exception` and `reception_recreate`
show that one type that breaks the hypothesis breaks the statement. The argument: what the caches hold
was published (`PublishedInv`), hence `updateStreamType` never answers that the profile changed
(`NoNewProfile`), no call nests and none gets to `createReader` (`SteadyInv`), and nothing else calls
the hook (`UsableInv`).

**BusLifecycleProofs.** `MutexInv` (who is in the section holds the mutex), `PhaseInv` (which objects
a bus has at each place of initialize), `ObjectInv` (participants in use exist, topics and handles
use those) and `IteratorInv` (no reader refers to the collection of an attempt not completed).
The last is why `IteratorIsValid` is not inductive alone: a new collection could bring an old iterator
back to life. Theorems: `LifecycleTypeCorrect`, `ConstructorIsExclusive`, `NoHalfInitializedBus`,
`NoStaleTopic`, `NoStaleIterator`, `HandlesOutliveBus`.

`BusesKeepTheirPromise` is the refinement of `BusSessions`. It needs `HandleInv`: a reader stands on the
participant of the attempt whose collection it refers to, no handle is of an attempt that is not
completed, and a bus that is not initialized serves nobody, even after a failed initialize. From it a
new session's name is not one of an old handle, and `reset` finds its collection exactly when its
session is the present one. Each disjunct of `Next` maps to one step of `BusSessions` or a stutter.

**SharedEndpointsProofs.** `StoreInv` relates what an endpoint is about to store, what it owes and the
topic's profile: an endpoint that nobody overtook has the topic's profile or owes a recreation, and
that profile is what its last type asks for, or is about to be stored. With `CallInv`, `SessionInv` and
the types it is inductive: `EndpointTypeCorrect`, `EndpointsFollowTheirTypes`,
`ReceptionCallsLiveHooks`, `IterationKeepsItsEntry`.

**BusInfoProofs.** `QueueInv` says that the queue holds the last numbers written without a gap, `HolderInv`
who holds the mutex, and `OrderInv` that all that was delivered or taken is older than the queue; from these
come `TopicIsLossyFifo` and `NewestStayInTopic`. `EmptyFrontTakesTwo` rests on `RaceInv`: a thread that
found an entry and does not find it any more was overtaken by another. `MapInv` (the map is what the
accepted user data say) gives `EachReportDescribesAll`. Type: `BusInfoTypeCorrect`.

**StreamCodecProofs.** Lemmas about the codec: what is put takes no more octets than the size
functions count, leaves what was put before as it is, and is found again at the position where it was
put. The first Nul of a text exists because `<` is well-founded on the natural numbers.

**DataPathProofs.** `SizeInv` keeps each computed size next to the property it counts, `PutInv` and `GetInv` the
positions of what is in the buffer (`Layout`: a function from the number of properties written to the
end of the last). As the code's loops are steps of the model, the induction over the properties of a
stream type is the induction over the behaviour. `PathTypeCorrect`, `PayloadsAreLargeEnough`,
`SamplesReturn`, `TypesReturn`: for stream types of any length, any capacities and any word size.

`PathImplementsDelivery` is the refinement of `Delivery`. `WholeBeginning` and `CutFacts` show that the
text that a copy into a `fixed_string`, the C string in the payload and the reader's object leave
together is the `Beginning` that `Arrives` names without them, which exists and is unique
(`BeginningFacts`); `TimeWraps` that the casts of both conversions give the time modulo 2^32 seconds,
nanoseconds untouched. `WayStep` goes through the steps: a write submits or refuses, the creation
of the sample or type delivers, all others stutter.

Only model-checked: the liveness properties `RegisteredIsServed`, `StopEndsReception` and
`InitializeEnds` (liveness under fairness is beyond the prover), and, as counterexamples, the
violations. Every invariant and every refinement that a passing run checks is
proved; the refinements are of safety, as the abstract specifications state no fairness.

## 5. Not modelled

* `getReader` and `getWriter` that overlap on the map `_topics` race inside `std::map`; the code that
  would show the outcome is not in the repository. In `BusLifecycle` the calls on one bus do not overlap.
* Two threads that pop one reader at once: the calls share no state of the plugin but the DDS readers
  that each may delete under the other.
* A topic constructor that throws out of `getReader`, and `getWriter` with a capacity, which returns
  `nullptr`: what follows is the caller's. `BusLifecycle` has both as steps without a change of state.
* The profiles are loaded before the mutex is taken (BUS 338); whether two loads race is up to DDS.
* `BusLifecycle` and `BlockingReception` are not composed: their interaction, a deinitialize during a
  reception, is in `SharedEndpoints`, where it ends in a crash.
* Payloads that are damaged or cut on the way, byte order and the other representations of CDR.
* `vector_raw_memory.hpp` is instantiated nowhere; `PropertyPubSubType` is registered by nobody who uses
  it; the key functions return at once, as no type has a key.
* The bus configuration (one property registered and removed), the plugin entry, tests and the
  vendored helpers they use. Fast DDS itself is external: its reliability, resource limits and flow
  control are not modelled.
