------------------------ MODULE SharedEndpointsProofs ------------------------
(* Theorems about SharedEndpoints, for any number of readers and writers,  *)
(* stream types and sessions, and any nesting of the calls.                *)
EXTENDS SharedEndpoints, TLAPS

(* Between two calls an endpoint owes no recreation, and a mixed store is  *)
(* one of two threads.                                                     *)
CallInv ==
  /\ \A e \in Endpoints : call[e].pc = "idle" => call[e].owed = 0
  /\ \A e \in Endpoints : call[e].pc = "tearing" => raced

(* What an endpoint is about to store is what its last type asks for, the  *)
(* topic has that profile or is about to get it, and the endpoint has the  *)
(* topic's profile or owes a recreation.                                   *)
Pending(e) == call[e].pc \in {"store", "storing"}

StoreInv ==
  ~ raced =>
    /\ \A e \in Endpoints :
         Pending(e) => call[e].target \in findQosProfile(seen[e])
    /\ \A e \in exists \ overtaken :
         /\ call[e].owed > 0 \/ profile[e] = qosProfile[topic]
         /\ \/ SameAsInitial(topic, seen[e])
            \/ qosProfile[topic] \in findQosProfile(seen[e])
            \/ Pending(e)

(* What a session has attached refers to it; without one there is none.    *)
SessionInv ==
  /\ session = 0 => visiting = Nobody /\ attached = {}
  /\ \A r \in attached : hook[r] \in {0, session}

IInv == EndpointTypeOK /\ CallInv /\ StoreInv /\ SessionInv /\ IterationIsSound
-----------------------------------------------------------------------------
(* Lemmas about the operators.                                             *)

(* A profile that a type asks for is one of the three.                     *)
LEMMA ProfileFacts ==
  ASSUME NEW t \in StreamTypes
  PROVE  findQosProfile(t) \subseteq Profiles
BY DEF findQosProfile, containsProfile, Profiles

(* A thread reads a profile or a mixture; the profile, unless there is a   *)
(* store at the same time.                                                 *)
LEMMA ReadableFacts ==
  ASSUME EndpointTypeOK
  PROVE  /\ Readable \subseteq Profiles \cup {Torn}
         /\ ~ Storing => Readable = {qosProfile[topic]}
<1>1. qosProfile[topic] \in Profiles \cup {Torn}
  BY EndpointAssumption DEF EndpointTypeOK
<1>2. \A e \in InStore : call[e].target \in Profiles \cup {Torn}
  BY DEF InStore, EndpointTypeOK, Calls
<1> QED BY <1>1, <1>2 DEF Readable
-----------------------------------------------------------------------------
(* The first state.                                                        *)
LEMMA EndpointInit == Init => IInv
<1> SUFFICES ASSUME Init PROVE IInv
  OBVIOUS
<1> USE EndpointAssumption, TopicAssumption DEF Init, TopicInit
<1>1. Idle \in Calls
  BY DEF Idle, Calls
<1>2. InitialType[topic] \in StreamTypes
  OBVIOUS
<1>3. EndpointTypeOK
  <2>1. qosProfile \in [Topics -> Profiles \cup {Torn}]
    OBVIOUS
  <2>2. \A e \in Endpoints : qosProfile[topic] \in Profiles \cup {Torn}
    BY <2>1
  <2>3. 0 \in 0..0 /\ 0 \in Nat
    OBVIOUS
  <2> HIDE DEF TopicInit
  <2> QED BY <1>1, <1>2, <2>1, <2>2, <2>3 DEF EndpointTypeOK
<1>4. CallInv /\ StoreInv /\ SessionInv /\ IterationIsSound
  BY DEF CallInv, StoreInv, Pending, SessionInv, IterationIsSound, Idle
<1> QED BY <1>3, <1>4 DEF IInv
-----------------------------------------------------------------------------
(* Every step keeps the types.                                             *)
LEMMA TypeStep == EndpointTypeOK /\ [Next]_vars => EndpointTypeOK'
<1> SUFFICES ASSUME EndpointTypeOK, [Next]_vars PROVE EndpointTypeOK'
  OBVIOUS
<1> USE EndpointAssumption DEF EndpointTypeOK, endpointVars, sessionVars, busVars,
        profileVars
<1>1. ASSUME NEW e \in Endpoints, getEndpoint(e)
      PROVE  EndpointTypeOK'
  <2>1. InitialType[topic] \in StreamTypes
    BY TopicAssumption
  <2>2. profile' \in [Endpoints -> Profiles \cup {Torn}]
    BY <1>1, ReadableFacts DEF getEndpoint
  <2>3. raced' \in BOOLEAN
    BY <1>1 DEF getEndpoint, Storing
  <2>4. hook' \in [Readers -> 0..sessions]
    BY <1>1 DEF getEndpoint
  <2> QED BY <1>1, <2>1, <2>2, <2>3, <2>4 DEF getEndpoint
<1>2. ASSUME NEW e \in Endpoints, drop(e)
      PROVE  EndpointTypeOK'
  BY <1>2 DEF drop
<1>3. ASSUME NEW e \in Endpoints, NEW thread \in {"app", "session"}, Enter(e, thread)
      PROVE  EndpointTypeOK'
  <2>1. [Idle EXCEPT !.pc = "open", !.by = thread] \in Calls
    BY DEF Idle, Calls
  <2> QED BY <1>3, <2>1 DEF Enter
<1>4. ASSUME NEW e \in Endpoints, NEW t \in NewTypes, compare(e, t)
      PROVE  EndpointTypeOK'
  <2>1. t \in StreamTypes
    OBVIOUS
  <2>2. call' \in [Endpoints -> Calls] /\ raced' \in BOOLEAN
    <3>1. CASE SameAsInitial(topic, t)
      BY <1>4, <3>1 DEF compare
    <3>2. CASE ~ SameAsInitial(topic, t)
      <4>1. PICK p \in findQosProfile(t), current \in Readable :
              call' = IF p = current THEN call
                      ELSE [call EXCEPT ![e].pc = "store", ![e].target = p]
        BY <1>4, <3>2 DEF compare
      <4>2. p \in Profiles
        BY <2>1, <4>1, ProfileFacts
      <4>3. [call EXCEPT ![e].pc = "store", ![e].target = p] \in [Endpoints -> Calls]
        BY <4>2 DEF Calls
      <4> QED BY <1>4, <3>2, <4>1, <4>3 DEF compare, Storing
    <3> QED BY <3>1, <3>2
  <2> QED BY <1>4, <2>1, <2>2 DEF compare
<1>5. ASSUME NEW e \in Endpoints, BeginStore(e)
      PROVE  EndpointTypeOK'
  <2>1. \A f \in Endpoints :
          [call[f] EXCEPT !.pc = IF Storing THEN "tearing" ELSE "storing"] \in Calls
    BY DEF Calls
  <2>2. call' \in [Endpoints -> Calls]
    BY <1>5, <2>1 DEF BeginStore
  <2> QED BY <1>5, <2>2 DEF BeginStore, Storing
<1>6. ASSUME NEW e \in Endpoints, EndStore(e)
      PROVE  EndpointTypeOK'
  <2>1. call[e].target \in Profiles \cup {Torn} /\ qosProfile[topic] \in Profiles \cup {Torn}
    BY DEF Calls
  <2>2. qosProfile' \in [Topics -> Profiles \cup {Torn}]
    BY <1>6, <2>1 DEF EndStore
  <2>3. call' \in [Endpoints -> Calls]
    <3>1. call[e] \in Calls
      OBVIOUS
    <3>2. call[e].owed + 1 \in Nat
      BY <3>1 DEF Calls
    <3>3. [call[e] EXCEPT !.pc = "open", !.owed = call[e].owed + 1] \in Calls
      BY <3>1, <3>2 DEF Calls
    <3> QED BY <1>6, <3>3 DEF EndStore
  <2> QED BY <1>6, <2>2, <2>3 DEF EndStore
<1>7. ASSUME NEW e \in Endpoints, recreate(e)
      PROVE  EndpointTypeOK'
  <2>1. profile' \in [Endpoints -> Profiles \cup {Torn}]
    BY <1>7, ReadableFacts DEF recreate
  <2>2. call' \in [Endpoints -> Calls]
    <3>1. call[e].owed \in Nat /\ call[e].owed > 0
      BY <1>7 DEF recreate, Calls
    <3>2. call[e].owed - 1 \in Nat
      BY <3>1
    <3>3. call' = [call EXCEPT ![e] = [call[e] EXCEPT !.owed = @ - 1]]
      BY <1>7 DEF recreate
    <3>4. [call[e] EXCEPT !.owed = @ - 1] \in Calls
      BY <3>2 DEF Calls
    <3> QED BY <3>3, <3>4
  <2>3. released' \in BOOLEAN /\ crashed' \in BOOLEAN
    BY <1>7 DEF recreate, CallHook
  <2> QED BY <1>7, <2>1, <2>2, <2>3 DEF recreate, Storing
<1>8. ASSUME NEW e \in Endpoints, Leave(e)
      PROVE  EndpointTypeOK'
  <2>1. Idle \in Calls
    BY DEF Idle, Calls
  <2> QED BY <1>8, <2>1 DEF Leave
<1>9. CASE startBlockingReception
  <2>1. \A n \in 0..sessions : n \in 0..(sessions + 1)
    OBVIOUS
  <2>2. hook' \in [Readers -> 0..(sessions + 1)]
    BY <1>9, <2>1 DEF startBlockingReception, planted
  <2>3. sessions' = sessions + 1 /\ sessions + 1 \in Nat /\ session' \in {0, sessions'}
    BY <1>9 DEF startBlockingReception
  <2>4. hook' \in [Readers -> 0..sessions']
    BY <2>2, <2>3
  <2>5. attached' \subseteq Readers
    BY <1>9 DEF startBlockingReception
  <2> QED BY <1>9, <2>3, <2>4, <2>5 DEF startBlockingReception
<1>10. ASSUME NEW r \in Readers, Visit(r)
       PROVE  EndpointTypeOK'
  BY <1>10 DEF Visit
<1>11. CASE Advance
  BY <1>11 DEF Advance
<1>12. CASE Crash
  BY <1>12 DEF Crash
<1>13. CASE EndSession
  BY <1>13 DEF EndSession
<1>14. ASSUME NEW r \in Readers, NEW receiver \in BOOLEAN, reset(r, receiver)
       PROVE  EndpointTypeOK'
  BY <1>14 DEF reset
<1>15. CASE deinitialize
  BY <1>15 DEF deinitialize
<1>16. CASE UNCHANGED vars
  BY <1>16 DEF vars
<1> QED BY <1>1, <1>2, <1>3, <1>4, <1>5, <1>6, <1>7, <1>8, <1>9, <1>10, <1>11, <1>12,
           <1>13, <1>14, <1>15, <1>16 DEF Next, Step
-----------------------------------------------------------------------------
(* What all the steps but those of a call leave alone.                     *)
LEMMA OtherSteps ==
  ASSUME Next
  PROVE  \/ \E e \in Endpoints :
              \/ getEndpoint(e) \/ drop(e) \/ BeginStore(e) \/ EndStore(e)
              \/ recreate(e) \/ Leave(e)
              \/ \E thread \in {"app", "session"} : Enter(e, thread)
              \/ \E t \in NewTypes : compare(e, t)
         \/ /\ UNCHANGED <<qosProfile, held, profile, call, seen, profileVars>>
            /\ exists' \subseteq exists
BY DEF Next, Step, Visit, reset, startBlockingReception, Advance, Crash, EndSession,
       deinitialize, endpointVars

(* The calls, step by step.                                                *)
LEMMA CallStep ==
  EndpointTypeOK /\ CallInv /\ [Next]_vars => CallInv'
<1> SUFFICES ASSUME EndpointTypeOK, CallInv, [Next]_vars PROVE CallInv'
  OBVIOUS
<1> USE DEF CallInv, EndpointTypeOK, Calls, profileVars
<1>1. ASSUME NEW e \in Endpoints, getEndpoint(e) \/ drop(e)
      PROVE  CallInv'
  BY <1>1 DEF getEndpoint, drop
<1>r. ASSUME NEW e \in Endpoints, recreate(e)
      PROVE  CallInv'
  <2>1. /\ raced => raced'
        /\ call[e].pc = "open"
        /\ call' = [call EXCEPT ![e].owed = @ - 1]
    BY <1>r DEF recreate
  <2>2. \A f \in Endpoints :
          /\ call'[f].pc = call[f].pc
          /\ f # e => call'[f] = call[f]
    BY <2>1
  <2> QED BY <2>1, <2>2
<1>2. ASSUME NEW e \in Endpoints, NEW thread \in {"app", "session"}, Enter(e, thread)
      PROVE  CallInv'
  BY <1>2 DEF Enter, Idle
<1>3. ASSUME NEW e \in Endpoints, NEW t \in NewTypes, compare(e, t)
      PROVE  CallInv'
  <2>1. \/ call' = call
        \/ \E p \in Profiles \cup {Torn} :
             call' = [call EXCEPT ![e].pc = "store", ![e].target = p]
    <3>1. findQosProfile(t) \subseteq Profiles
      BY EndpointAssumption, ProfileFacts
    <3> QED BY <1>3, <3>1 DEF compare
  <2>2. raced => raced'
    BY <1>3 DEF compare
  <2>3. \A f \in Endpoints : call'[f] = call[f] \/ call'[f].pc = "store"
    BY <2>1
  <2> QED BY <2>2, <2>3
<1>4. ASSUME NEW e \in Endpoints, BeginStore(e)
      PROVE  CallInv'
  BY <1>4 DEF BeginStore
<1>5. ASSUME NEW e \in Endpoints, EndStore(e)
      PROVE  CallInv'
  BY <1>5 DEF EndStore
<1>6. ASSUME NEW e \in Endpoints, Leave(e)
      PROVE  CallInv'
  BY <1>6 DEF Leave, Idle
<1>7. CASE UNCHANGED <<call, raced>>
  BY <1>7
<1> QED BY <1>1, <1>2, <1>3, <1>4, <1>5, <1>6, <1>7, <1>r, OtherSteps DEF vars, endpointVars

(* The profile and the types, step by step.                                *)
LEMMA StoreStep ==
  EndpointTypeOK /\ CallInv /\ StoreInv /\ [Next]_vars => StoreInv'
<1> SUFFICES ASSUME EndpointTypeOK, CallInv, StoreInv, [Next]_vars, ~ raced'
             PROVE  StoreInv'
  BY DEF StoreInv
<1> USE EndpointAssumption DEF StoreInv, Pending, EndpointTypeOK, Calls, profileVars
<1>0. ~ raced /\ \A e \in Endpoints : call[e].pc # "tearing"
  BY OtherSteps DEF CallInv, vars, getEndpoint, drop, BeginStore, EndStore, recreate, Leave,
     Enter, compare
<1>1. ASSUME NEW e \in Endpoints, getEndpoint(e)
      PROVE  StoreInv'
  <2>1. profile' = [profile EXCEPT ![e] = qosProfile[topic]]
    BY <1>1, ReadableFacts DEF getEndpoint
  <2> QED BY <1>0, <1>1, <2>1 DEF getEndpoint, SameAsInitial
<1>2. ASSUME NEW e \in Endpoints, drop(e)
      PROVE  StoreInv'
  BY <1>0, <1>2 DEF drop
<1>3. ASSUME NEW e \in Endpoints, NEW thread \in {"app", "session"}, Enter(e, thread)
      PROVE  StoreInv'
  BY <1>0, <1>3 DEF Enter, Idle, CallInv
<1>4. ASSUME NEW e \in Endpoints, NEW t \in NewTypes, compare(e, t)
      PROVE  StoreInv'
  <2>1. CASE SameAsInitial(topic, t)
    BY <1>0, <1>4, <2>1 DEF compare
  <2>2. CASE ~ SameAsInitial(topic, t)
    <3>1. PICK p \in findQosProfile(t) :
            call' = IF p = qosProfile[topic] THEN call
                    ELSE [call EXCEPT ![e].pc = "store", ![e].target = p]
      BY <1>4, <2>2, ReadableFacts DEF compare
    <3>2. seen' = [seen EXCEPT ![e] = t] /\ UNCHANGED <<qosProfile, exists, profile, overtaken>>
      BY <1>4 DEF compare
    <3>0. call[e].pc = "open"
      BY <1>4 DEF compare
    <3>3. CASE p = qosProfile[topic]
      <4>1. call' = call
        BY <3>1, <3>3
      <4> QED BY <1>0, <3>0, <3>1, <3>2, <3>3, <4>1
    <3>4. CASE p # qosProfile[topic]
      <4>1. \A f \in Endpoints \ {e} : call'[f] = call[f]
        BY <3>1, <3>4
      <4>2. call'[e].pc = "store" /\ call'[e].target = p /\ call'[e].owed = call[e].owed
        BY <3>1, <3>4
      <4> QED BY <1>0, <3>1, <3>2, <4>1, <4>2
    <3> QED BY <3>3, <3>4
  <2> QED BY <2>1, <2>2
<1>5. ASSUME NEW e \in Endpoints, BeginStore(e)
      PROVE  StoreInv'
  <2>0. \A f \in Endpoints :
          call'[f] = IF f = e THEN [call[f] EXCEPT !.pc = "storing"] ELSE call[f]
    BY <1>0, <1>5 DEF BeginStore, Storing, InStore
  <2>1. \A f \in Endpoints :
          /\ Pending(f)' => Pending(f)
          /\ Pending(f) => Pending(f)'
          /\ call'[f].target = call[f].target /\ call'[f].owed = call[f].owed
    <3>1. call[e].pc = "store"
      BY <1>5 DEF BeginStore
    <3>2. \A f \in Endpoints \ {e} : call'[f] = call[f]
      BY <2>0
    <3>3. /\ call'[e].pc = "storing"
          /\ call'[e].target = call[e].target /\ call'[e].owed = call[e].owed
      BY <2>0
    <3> QED BY <3>1, <3>2, <3>3
  <2> QED BY <1>0, <1>5, <2>1 DEF BeginStore
<1>6. ASSUME NEW e \in Endpoints, EndStore(e)
      PROVE  StoreInv'
  <2>1. call[e].target \in findQosProfile(seen[e])
    BY <1>0, <1>6 DEF EndStore
  <2>2. qosProfile'[topic] = call[e].target
    BY <1>0, <1>6 DEF EndStore
  <2>3. call[e].owed \in Nat
    BY DEF Calls
  <2> QED BY <1>0, <1>6, <2>1, <2>2, <2>3 DEF EndStore
<1>7. ASSUME NEW e \in Endpoints, recreate(e)
      PROVE  StoreInv'
  <2>1. profile' = [profile EXCEPT ![e] = qosProfile[topic]]
    BY <1>7, ReadableFacts DEF recreate
  <2> QED BY <1>0, <1>7, <2>1 DEF recreate
<1>8. ASSUME NEW e \in Endpoints, Leave(e)
      PROVE  StoreInv'
  BY <1>0, <1>8 DEF Leave, Idle
<1>9. ASSUME UNCHANGED <<qosProfile, profile, call, seen, overtaken>>,
             exists' \subseteq exists
      PROVE  StoreInv'
  BY <1>0, <1>9
<1> QED BY <1>1, <1>2, <1>3, <1>4, <1>5, <1>6, <1>7, <1>8, <1>9, OtherSteps
        DEF vars, endpointVars

(* The sessions and the iteration, step by step.                           *)
LEMMA SessionStep ==
  EndpointTypeOK /\ SessionInv /\ IterationIsSound /\ [Next]_vars
    => SessionInv' /\ IterationIsSound'
<1> SUFFICES ASSUME EndpointTypeOK, SessionInv, IterationIsSound, [Next]_vars
             PROVE  SessionInv' /\ IterationIsSound'
  OBVIOUS
<1> USE EndpointAssumption DEF SessionInv, IterationIsSound, EndpointTypeOK, sessionVars,
        busVars, endpointVars
<1>1. ASSUME NEW e \in Endpoints, getEndpoint(e)
      PROVE  SessionInv' /\ IterationIsSound'
  BY <1>1 DEF getEndpoint
<1>2. ASSUME NEW e \in Endpoints, drop(e)
      PROVE  SessionInv' /\ IterationIsSound'
  BY <1>2 DEF drop
<1>3. ASSUME UNCHANGED <<exists, hook, entries, freed, session, visiting, attached,
                         disturbed>>
      PROVE  SessionInv' /\ IterationIsSound'
  BY <1>3
<1>4. ASSUME NEW e \in Endpoints,
             \/ BeginStore(e) \/ EndStore(e) \/ recreate(e) \/ Leave(e)
             \/ \E thread \in {"app", "session"} : Enter(e, thread)
             \/ \E t \in NewTypes : compare(e, t)
      PROVE  UNCHANGED <<exists, hook, entries, freed, session, visiting, attached,
                         disturbed>>
  BY <1>4 DEF BeginStore, EndStore, recreate, Leave, Enter, compare
<1>5. CASE startBlockingReception
  BY <1>5 DEF startBlockingReception, planted
<1>6. ASSUME NEW r \in Readers, Visit(r)
      PROVE  SessionInv' /\ IterationIsSound'
  BY <1>6 DEF Visit
<1>7. CASE Advance \/ Crash \/ EndSession
  BY <1>7 DEF Advance, Crash, EndSession
<1>8. ASSUME NEW r \in Readers, NEW receiver \in BOOLEAN, reset(r, receiver)
      PROVE  SessionInv' /\ IterationIsSound'
  BY <1>8 DEF reset
<1>9. CASE deinitialize
  BY <1>9 DEF deinitialize
<1>10. CASE UNCHANGED vars
  BY <1>3, <1>10 DEF vars
<1> QED BY <1>1, <1>2, <1>3, <1>4, <1>5, <1>6, <1>7, <1>8, <1>9, <1>10 DEF Next, Step
-----------------------------------------------------------------------------
(* IInv is inductive.                                                      *)
LEMMA EndpointInvariant == Spec => []IInv
<1>1. IInv /\ [Next]_vars => IInv'
  BY TypeStep, CallStep, StoreStep, SessionStep DEF IInv
<1> QED BY EndpointInit, <1>1, PTL DEF Spec

(* The variables keep their types; an entry always has its queue, and a    *)
(* hook refers to a session there was.                                     *)
THEOREM EndpointTypeCorrect == Spec => []EndpointTypeOK
<1>1. IInv => EndpointTypeOK
  BY DEF IInv
<1> QED BY <1>1, EndpointInvariant, PTL

(* For any number of endpoints and any interleaving and nesting of their   *)
(* calls: one that no other overtook has the profile of the topic, and     *)
(* that is one its last stream type asks for or the type is the initial    *)
(* one, as long as the string was not accessed by two at once.             *)
THEOREM EndpointsFollowTheirTypes == Spec => []FollowsItsTypes
<1>1. IInv => FollowsItsTypes
  BY DEF IInv, CallInv, StoreInv, Pending, FollowsItsTypes, EndpointTypeOK
<1> QED BY <1>1, EndpointInvariant, PTL

(* The reception thread never calls a hook of a session that is over.      *)
THEOREM ReceptionCallsLiveHooks == Spec => []SessionHooksAreLive
<1>1. IInv => SessionHooksAreLive
  BY DEF IInv, SessionInv, SessionHooksAreLive
<1> QED BY <1>1, EndpointInvariant, PTL

(* Nothing but reset of a registered reader and deinitialize pulls the     *)
(* entry, or its queue, from under the iteration.                          *)
THEOREM IterationKeepsItsEntry == Spec => []IterationIsSound
<1>1. IInv => IterationIsSound
  BY DEF IInv
<1> QED BY <1>1, EndpointInvariant, PTL
=============================================================================
