------------------------------ MODULE LossyFifo ------------------------------
(***************************************************************************)
(* What a data reader promises about the data it hands on: each reader's   *)
(* peer sends the items 1, 2, 3, ... and the reader receives some of them, *)
(* each once and in the order sent.  Items may be lost at any time.        *)
(***************************************************************************)
EXTENDS Naturals, Sequences

CONSTANT Readers

VARIABLES
  sent,      \* number of items sent to each reader
  received   \* the items each reader received so far

vars == <<sent, received>>

Init ==
  /\ sent = [r \in Readers |-> 0]
  /\ received = [r \in Readers |-> <<>>]

Send(r) ==
  /\ sent' = [sent EXCEPT ![r] = @ + 1]
  /\ UNCHANGED received

Receive(r, n) ==
  /\ n \in 1..sent[r]
  /\ \A i \in 1..Len(received[r]) : received[r][i] < n
  /\ received' = [received EXCEPT ![r] = Append(@, n)]
  /\ UNCHANGED sent

Next == \E r \in Readers : Send(r) \/ \E n \in 1..sent[r] : Receive(r, n)

Spec == Init /\ [][Next]_vars
=============================================================================
