---------------------------- MODULE InternalTopic ----------------------------
(***************************************************************************)
(* The internal topic of the bus (class InternalTopic): a queue of strings *)
(* under a recursive mutex, written by the bus itself and popped by the    *)
(* application, from as many threads as it likes.                          *)
(*                                                                         *)
(* pop asks for the size under the mutex, gives the mutex back, and takes  *)
(* it again for front, pop and the call of the receiver.  What is written  *)
(* is numbered 1, 2, ...; the queue holds the numbers.                     *)
(***************************************************************************)
EXTENDS Naturals, Sequences

CONSTANTS
  Poppers,    \* the threads of the application that pop
  NoThread,   \* holds the mutex when no thread does
  Limit       \* 10: write drops entries until no more are left

ASSUME InternalTopicAssumption == NoThread \notin Poppers /\ Limit \in Nat \ {0}

VARIABLES
  queue,      \* _queue
  mutex,      \* _queue_mutex: the thread that holds it between two steps
  popper,     \* where each thread is in pop, and the entry it took
  written,    \* number of entries written
  delivered,  \* history: the entries handed to a receiver
  raced,      \* history: an entry was taken between size and front of another
  crashed     \* front was called on an empty queue

topicVars == <<queue, mutex, popper, written, delivered, raced, crashed>>

At(place, item) == [pc |-> place, item |-> item]

Idle == At("idle", 0)

TopicInit ==
  /\ queue = <<>>
  /\ mutex = NoThread
  /\ popper = [p \in Poppers |-> Idle]
  /\ written = 0
  /\ delivered = <<>>
  /\ raced = FALSE
  /\ crashed = FALSE
-----------------------------------------------------------------------------
(* Mutant of KeepNewest: nothing is dropped.                               *)
KeepEverything(q) == q

(* Mutant of KeepNewest: the queue never outgrows the limit.               *)
KeepOneLess(q) == IF Len(q) < Limit THEN q ELSE SubSeq(q, Len(q) - Limit + 2, Len(q))

(* while (_queue.size() > 10) pop: the oldest go.                          *)
KeepNewest(q) == IF Len(q) <= Limit THEN q ELSE SubSeq(q, Len(q) - Limit + 1, Len(q))

write ==
  /\ mutex = NoThread
  /\ queue' = Append(KeepNewest(queue), written + 1)
  /\ written' = written + 1
  /\ UNCHANGED <<mutex, popper, delivered, raced, crashed>>
-----------------------------------------------------------------------------
(* InternalReader::pop.                                                    *)

(* Mutant of FindsSome: the size is no longer looked at.                   *)
FindsSomeAlways == TRUE

(* size() > 0, and the mutex is free again.                                *)
FindsSome == queue # <<>>

CheckSize(p) ==
  /\ popper[p].pc = "idle"
  /\ mutex = NoThread
  /\ FindsSome
  /\ popper' = [popper EXCEPT ![p] = At("checked", 0)]
  /\ UNCHANGED <<queue, mutex, written, delivered, raced, crashed>>

(* Mutant of TakeFront: the mutex is given back before the receiver runs.  *)
TakeFrontUnlocked(p) ==
  /\ popper[p].pc = "checked"
  /\ mutex = NoThread
  /\ queue # <<>>
  /\ queue' = Tail(queue)
  /\ popper' = [popper EXCEPT ![p] = At("taken", Head(queue))]
  /\ raced' = (raced \/ \E q \in Poppers \ {p} : popper[q].pc = "checked")
  /\ UNCHANGED <<mutex, written, delivered, crashed>>

TakeFront(p) ==
  /\ popper[p].pc = "checked"
  /\ mutex = NoThread
  /\ queue # <<>>
  /\ queue' = Tail(queue)
  /\ mutex' = p
  /\ popper' = [popper EXCEPT ![p] = At("taken", Head(queue))]
  /\ raced' = (raced \/ \E q \in Poppers \ {p} : popper[q].pc = "checked")
  /\ UNCHANGED <<written, delivered, crashed>>

(* front() and pop() of an empty queue are undefined: the process ends.    *)
TakeFromEmpty(p) ==
  /\ popper[p].pc = "checked"
  /\ mutex = NoThread
  /\ queue = <<>>
  /\ crashed' = TRUE
  /\ UNCHANGED <<queue, mutex, popper, written, delivered, raced>>

(* receiver(sample) begins, while the thread holds the mutex.              *)
Receive(p) ==
  /\ popper[p].pc = "taken"
  /\ delivered' = Append(delivered, popper[p].item)
  /\ popper' = [popper EXCEPT ![p] = At("inside", 0)]
  /\ UNCHANGED <<queue, mutex, written, raced, crashed>>

(* The receiver pops again: its own mutex lets it in.                      *)
PopInside(p) ==
  /\ popper[p].pc = "inside"
  /\ queue # <<>>
  /\ queue' = Tail(queue)
  /\ popper' = [popper EXCEPT ![p] = At("taken", Head(queue))]
  /\ UNCHANGED <<mutex, written, delivered, raced, crashed>>

(* The receiver and pop return.                                            *)
Release(p) ==
  /\ popper[p].pc = "inside"
  /\ mutex' = NoThread
  /\ popper' = [popper EXCEPT ![p] = Idle]
  /\ UNCHANGED <<queue, written, delivered, raced, crashed>>

PopStep(p) ==
  \/ CheckSize(p) \/ TakeFront(p) \/ TakeFromEmpty(p)
  \/ Receive(p) \/ PopInside(p) \/ Release(p)
-----------------------------------------------------------------------------
(* The values of the variables; "size() > 10" keeps one entry more.        *)
TopicTypeOK ==
  /\ queue \in Seq(Nat)
  /\ Len(queue) <= Limit + 1
  /\ mutex \in Poppers \cup {NoThread}
  /\ popper \in [Poppers -> [pc : {"idle", "checked", "taken", "inside"}, item : Nat]]
  /\ written \in Nat
  /\ delivered \in Seq(Nat)
  /\ raced \in BOOLEAN
  /\ crashed \in BOOLEAN

(* "Data will be transported via a fifo queue": whatever threads pop and   *)
(* whatever is dropped for the limit, the receivers get the entries in the *)
(* order written, each once.                                               *)
Fifo == INSTANCE LossyFifo WITH
          Readers  <- {"topic"},
          sent     <- [r \in {"topic"} |-> written],
          received <- [r \in {"topic"} |-> delivered]

EntriesAreLossyFifo == Fifo!Spec

(* A reader that comes late still finds the newest entries: none of the    *)
(* last Limit + 1 is gone that no thread took.                             *)
InSequence(n, s) == \E i \in 1..Len(s) : s[i] = n

NewestAreKept ==
  \A n \in 1..written :
    n >= written - Limit =>
      \/ InSequence(n, queue)
      \/ InSequence(n, delivered)
      \/ \E p \in Poppers : popper[p] = At("taken", n)

(* The size is checked outside of the section that takes the front: one    *)
(* thread alone never meets the empty queue, whatever is written           *)
(* meanwhile; it takes a second thread that pops in between.               *)
EmptyFrontNeedsRace == crashed => raced
=============================================================================
