--------------------------- MODULE InstanceRegistry ---------------------------
(***************************************************************************)
(* What the install workflow promises (spec 4.5 and "compensating         *)
(* transactions instead of two-phase commit"): a saga per request.  A     *)
(* request is refused, or accepted; an accepted one reserves an instance  *)
(* record, and only a reserved record is actuated into a deployment, at   *)
(* most one per name and cluster.  A reservation that was not actuated is *)
(* compensated by removing exactly its own record and answered with an    *)
(* error; an actuated one is answered OK.  A crash abandons requests in   *)
(* flight and keeps records and deployments.                              *)
(***************************************************************************)
EXTENDS Naturals

CONSTANTS
    Ids,        \* the requests, each with the id of the record it would add
    Names,      \* instance names
    Clusters,   \* clusters
    MaxCrashes  \* bound on crashes

VARIABLES
    phase,       \* phase[i]: "free", "accepted", "reserved", "actuated",
                 \* "answered" or "lost"
    records,     \* the reserved instance records [id, name, cluster]
    deployments, \* the deployments [cluster, name]
    answer,      \* answer[i]: "none", "ok" or "error"
    crashed      \* crashes so far

avars == <<phase, records, deployments, answer, crashed>>

Pending == {"accepted", "reserved", "actuated"}

RecordOf(i) == {rec \in records : rec.id = i}

AInit ==
    /\ phase = [i \in Ids |-> "free"]
    /\ records = {}
    /\ deployments = {}
    /\ answer = [i \in Ids |-> "none"]
    /\ crashed = 0

(* Refused before or instead of recording: nothing changes but the answer. *)
Refuse(i) ==
    /\ phase[i] \in {"free", "accepted"}
    /\ phase' = [phase EXCEPT ![i] = "answered"]
    /\ answer' = [answer EXCEPT ![i] = "error"]
    /\ UNCHANGED <<records, deployments, crashed>>

Admit(i) ==
    /\ phase[i] = "free"
    /\ phase' = [phase EXCEPT ![i] = "accepted"]
    /\ UNCHANGED <<records, deployments, answer, crashed>>

Reserve(i) ==
    /\ phase[i] = "accepted"
    /\ \E n \in Names, c \in Clusters :
         records' = records \cup {[id |-> i, name |-> n, cluster |-> c]}
    /\ phase' = [phase EXCEPT ![i] = "reserved"]
    /\ UNCHANGED <<deployments, answer, crashed>>

(* Only a reserved record is deployed, and never over a deployment of the *)
(* same name on the same cluster.                                         *)
Actuate(i) ==
    /\ phase[i] = "reserved"
    /\ \E rec \in RecordOf(i) :
         /\ [cluster |-> rec.cluster, name |-> rec.name] \notin deployments
         /\ deployments' = deployments \cup
                             {[cluster |-> rec.cluster, name |-> rec.name]}
    /\ phase' = [phase EXCEPT ![i] = "actuated"]
    /\ UNCHANGED <<records, answer, crashed>>

(* The compensating step: the request's own record goes, nothing else.   *)
Compensate(i) ==
    /\ phase[i] = "reserved"
    /\ records' = records \ RecordOf(i)
    /\ phase' = [phase EXCEPT ![i] = "answered"]
    /\ answer' = [answer EXCEPT ![i] = "error"]
    /\ UNCHANGED <<deployments, crashed>>

Confirm(i) ==
    /\ phase[i] = "actuated"
    /\ phase' = [phase EXCEPT ![i] = "answered"]
    /\ answer' = [answer EXCEPT ![i] = "ok"]
    /\ UNCHANGED <<records, deployments, crashed>>

ACrash ==
    /\ crashed < MaxCrashes
    /\ \E i \in Ids : phase[i] \in Pending
    /\ phase' = [i \in Ids |-> IF phase[i] \in Pending THEN "lost" ELSE phase[i]]
    /\ crashed' = crashed + 1
    /\ UNCHANGED <<records, deployments, answer>>

(* The steps of an admitted request.                                      *)
Progress(i) ==
    Refuse(i) \/ Reserve(i) \/ Actuate(i) \/ Compensate(i) \/ Confirm(i)

ANext ==
    \/ \E i \in Ids : Refuse(i) \/ Admit(i) \/ Progress(i)
    \/ ACrash

(* An admitted request is served to its answer unless a crash loses it.  *)
ASpec ==
    AInit /\ [][ANext]_avars
          /\ \A i \in Ids : WF_avars(phase[i] \in Pending /\ Progress(i))

=============================================================================
