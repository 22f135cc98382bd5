------------------------------- MODULE BusInfo -------------------------------
(***************************************************************************)
(* What a bus knows of the participants (class BusInfo) and how it reports *)
(* it: the listener of the DDS participant reader parses the user data of  *)
(* each participant, updates the map _participant_infos, and the callback  *)
(* that initBusInfo set writes the whole map to the internal topic         *)
(* "_built_in_topic_businfo", which the application pops.                  *)
(*                                                                         *)
(* The bus builds the callback and the topic, but registerParticipant,     *)
(* whose body is commented out, attaches no listener to the participant    *)
(* reader: Attached is FALSE in the plugin, and nothing that the domain    *)
(* announces reaches onUserDataReceived.  With Attached TRUE the module    *)
(* says what the classes do from the first on_data_available on.  DDS      *)
(* calls one listener from one thread at a time.                           *)
(***************************************************************************)
EXTENDS InternalTopic

CONSTANTS
  Names,         \* participant names
  Versions,      \* FEP versions
  DefaultVersion,\* 0.0.0
  NoVersion,     \* user data without an object fep_version
  NotJson,       \* user data of a participant that is no FEP participant
  NotAnObject,   \* user data that is JSON, but no object of the form read
  NotValid,      \* a sample without valid data: a participant has left
  Attached,      \* registerParticipant attaches the listener (FALSE as shipped)
  MaxNews        \* bound: samples that ever come to the participant reader

ASSUME BusInfoAssumption ==
  /\ DefaultVersion \in Versions
  /\ Attached \in BOOLEAN
  /\ MaxNews \in Nat

UserData == [name : Names, version : Versions \cup {NoVersion}]

ASSUME NewsAssumption == {NotJson, NotAnObject, NotValid} \cap UserData = {}

News == UserData \cup {NotJson, NotAnObject, NotValid}

VARIABLES
  inbox,     \* the samples the participant reader has for its listener
  arrivals,  \* number of samples that came
  handler,   \* where the listener is: idle, about to report, or terminated
  infos,     \* _participant_infos
  reports,   \* history: the contents of the entries of the topic
  accepted,  \* history: the user data that parsed
  announced  \* history: the samples that came, for a listener or for none

infoVars == <<inbox, arrivals, handler, infos, reports, accepted, announced>>
vars     == <<topicVars, infoVars>>

Infos == UNION { [S -> Versions] : S \in SUBSET Names }

Init ==
  /\ TopicInit
  /\ inbox = <<>>
  /\ arrivals = 0
  /\ handler = "idle"
  /\ infos = [n \in {} |-> DefaultVersion]
  /\ reports = <<>>
  /\ accepted = <<>>
  /\ announced = {}
-----------------------------------------------------------------------------
(* DDS discovers a participant, a change of it, or that it left; only an   *)
(* attached listener is told.                                              *)
NewsArrives(news) ==
  /\ arrivals < MaxNews
  /\ arrivals' = arrivals + 1
  /\ announced' = announced \cup {news}
  /\ inbox' = IF Attached THEN Append(inbox, news) ELSE inbox
  /\ UNCHANGED <<topicVars, handler, infos, reports, accepted>>

(* ParticipantInfo::parse: the version stays 0.0.0 if there is no object.  *)
parsedVersion(data) == IF data.version = NoVersion THEN DefaultVersion ELSE data.version

(* Mutant of updatedInfos: a participant that is known is not updated.     *)
insertedInfos(data) ==
  [n \in DOMAIN infos \cup {data.name} |->
     IF n \in DOMAIN infos THEN infos[n] ELSE parsedVersion(data)]

(* _participant_infos[name] = info                                         *)
updatedInfos(data) ==
  [n \in DOMAIN infos \cup {data.name} |->
     IF n = data.name THEN parsedVersion(data) ELSE infos[n]]

(* on_data_available passes over samples without valid data, and           *)
(* onUserDataReceived over user data that do not parse.                    *)
SkipNews ==
  /\ handler = "idle"
  /\ inbox # <<>>
  /\ Head(inbox) \in {NotJson, NotValid}
  /\ inbox' = Tail(inbox)
  /\ UNCHANGED <<topicVars, arrivals, handler, infos, reports, accepted, announced>>

(* jsoncpp throws where the value is no object, nothing between here and   *)
(* the DDS thread catches it, and the process ends.                        *)
ParseThrows ==
  /\ handler = "idle"
  /\ inbox # <<>>
  /\ Head(inbox) = NotAnObject
  /\ handler' = "terminated"
  /\ UNCHANGED <<topicVars, inbox, arrivals, infos, reports, accepted, announced>>

onUserDataReceived ==
  /\ handler = "idle"
  /\ inbox # <<>>
  /\ Head(inbox) \in UserData
  /\ inbox' = Tail(inbox)
  /\ infos' = updatedInfos(Head(inbox))
  /\ accepted' = Append(accepted, Head(inbox))
  /\ handler' = "callback"
  /\ UNCHANGED <<topicVars, arrivals, reports, announced>>

(* BusInfo::asJson: an array of all participants, ordered by name.         *)
asJson == infos

(* The callback; the topic's mutex may keep it waiting.                    *)
Report ==
  /\ handler = "callback"
  /\ write
  /\ reports' = Append(reports, asJson)
  /\ handler' = "idle"
  /\ UNCHANGED <<inbox, arrivals, infos, accepted, announced>>

Listen == SkipNews \/ ParseThrows \/ onUserDataReceived \/ Report

Ended == crashed \/ handler = "terminated"

Next ==
  /\ ~ Ended
  /\ \/ \E news \in News : NewsArrives(news)
     \/ Listen
     \/ \E p \in Poppers : PopStep(p) /\ UNCHANGED infoVars

(* The DDS thread that runs the listener goes on, and so does a thread     *)
(* that is in pop: receivers return.  Nobody has to pop.                   *)
Spec ==
  /\ Init /\ [][Next]_vars
  /\ WF_vars(Listen /\ ~ Ended)
  /\ \A p \in Poppers :
       WF_vars((Receive(p) \/ Release(p)) /\ UNCHANGED infoVars /\ ~ Ended)
-----------------------------------------------------------------------------
(* The values of the variables; each entry of the topic has its contents.  *)
BusInfoTypeOK ==
  /\ TopicTypeOK
  /\ inbox \in Seq(News)
  /\ arrivals \in Nat
  /\ handler \in {"idle", "callback", "terminated"}
  /\ infos \in Infos
  /\ reports \in Seq(Infos)
  /\ Len(reports) = written
  /\ accepted \in Seq(UserData)
  /\ announced \subseteq News

(* What the user data received so far say of the participants: of each     *)
(* name the version it announced last.                                     *)
Latest(data, n) ==
  CHOOSE i \in 1..Len(data) :
    data[i].name = n /\ \A j \in (i + 1)..Len(data) : data[j].name # n

Description(data) ==
  [n \in { data[i].name : i \in 1..Len(data) } |-> parsedVersion(data[Latest(data, n)])]

(* As the test TestAvailableInformations reads them: the n-th report       *)
(* describes all that the first n participants' data said, those that      *)
(* joined before included, although each is built from the map at a later  *)
(* step and may wait for a receiver meanwhile.                             *)
ReportsAreCumulative ==
  \A n \in 1..Len(reports) : reports[n] = Description(SubSeq(accepted, 1, n))

(* What a participant announces reaches a report, unless the process ends  *)
(* first: the test TestAvailableInformations expects the entry that tells  *)
(* of the other participant in the topic, "ASSERT_EQ(simbus_1_businfo_     *)
(* reciever._samples.size(), 1)".  With Attached FALSE it never gets there.*)
Reported(data) ==
  \E i \in 1..Len(reports) :
    data.name \in DOMAIN reports[i] /\ reports[i][data.name] = parsedVersion(data)

AnnouncedIsReported ==
  \A data \in UserData : data \in announced ~> (Reported(data) \/ Ended)
=============================================================================
