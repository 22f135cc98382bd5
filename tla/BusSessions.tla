----------------------------- MODULE BusSessions -----------------------------
(***************************************************************************)
(* What the buses of a process promise the application: an initialize that *)
(* succeeds happens in one step and begins a session, one that fails does  *)
(* not happen at all, and readers and writers belong to the session they   *)
(* were got in.  The application may keep them beyond it.                  *)
(***************************************************************************)
CONSTANTS
  Buses,
  Readers,
  Writers,
  BusOf,     \* the bus a reader or a writer is asked of
  Sessions,  \* sessions a bus may have
  None       \* no session

VARIABLES
  phase,     \* state of each bus as a component
  session,   \* its session, None unless it is initialized
  holds,     \* the session of each reader and writer, None: not held
  served     \* the readers of each bus whose data its receptions hand on

vars == <<phase, session, holds, served>>

Held == Readers \cup Writers

Init ==
  /\ phase = [b \in Buses |-> "new"]
  /\ session = [b \in Buses |-> None]
  /\ holds = [h \in Held |-> None]
  /\ served = [b \in Buses |-> {}]

Move(b, from, to) == phase[b] = from /\ phase' = [phase EXCEPT ![b] = to]

Create(b)  == Move(b, "new", "created") /\ UNCHANGED <<session, holds, served>>
Destroy(b) == Move(b, "created", "new") /\ UNCHANGED <<session, holds, served>>

(* Nothing the application still holds is taken for one of the new session.*)
Initialize(b, s) ==
  /\ Move(b, "created", "initialized")
  /\ \A h \in Held : BusOf[h] = b => holds[h] # s
  /\ served[b] = {}
  /\ session' = [session EXCEPT ![b] = s]
  /\ UNCHANGED <<holds, served>>

Deinitialize(b) ==
  /\ Move(b, "initialized", "created")
  /\ session' = [session EXCEPT ![b] = None]
  /\ served' = [served EXCEPT ![b] = {}]
  /\ UNCHANGED holds

Get(h) ==
  /\ phase[BusOf[h]] = "initialized"
  /\ holds[h] = None
  /\ holds' = [holds EXCEPT ![h] = session[BusOf[h]]]
  /\ UNCHANGED <<phase, session, served>>

(* A receiver is set or removed; for a reader of an earlier session that   *)
(* has no effect.                                                          *)
Reset(r) ==
  LET b == BusOf[r]
  IN  /\ holds[r] # None
      /\ holds[r] = session[b]
      /\ \/ served' = [served EXCEPT ![b] = @ \cup {r}]
         \/ served' = [served EXCEPT ![b] = @ \ {r}]
      /\ UNCHANGED <<phase, session, holds>>

(* What was served is served until the session ends.                       *)
Drop(h) ==
  /\ holds[h] # None
  /\ holds' = [holds EXCEPT ![h] = None]
  /\ UNCHANGED <<phase, session, served>>

Next ==
  \/ \E b \in Buses :
       Create(b) \/ Destroy(b) \/ Deinitialize(b) \/ \E s \in Sessions : Initialize(b, s)
  \/ \E h \in Held : Get(h) \/ Drop(h)
  \/ \E r \in Readers : Reset(r)

Spec == Init /\ [][Next]_vars
=============================================================================
