-------------------------- MODULE InstallApplication --------------------------
(***************************************************************************)
(* installApplication (src/src/ApplicationCommands.cpp, with              *)
(* findApplication): concurrent install requests, each on its own handler *)
(* thread, against the persistent store (instance records) and helm       *)
(* (releases on the clusters).  A request is validated, its instance      *)
(* record is added to the store, helm installs the release, and on a      *)
(* failed install the record is removed again; on success helm list is    *)
(* run to fill in revision and update time.  The server may crash between *)
(* any two of these steps; store and clusters survive, requests do not.   *)
(***************************************************************************)
EXTENDS Naturals, Sequences, FiniteSets, HelmOutput

CONSTANTS
    Requests,        \* handler threads, each serving one install request
    Inputs,          \* the install requests clients may send
    Users,           \* users whose tokens authenticate
    NoUser,          \* an absent or unknown token
    VOs,             \* VOs recorded in the store
    Clusters,        \* clusters recorded in the store
    Member,          \* Member[u]: the VOs u belongs to (store.userInVO)
    Catalog,         \* Catalog[repo]: the charts helm can install from repo
    SearchHits,      \* SearchHits[repo]: the names helm search finds a match for
    DefaultCluster,  \* the cluster of the server's own kube context
    StoreFailures,   \* the store calls that may fail, within {"add", "remove"}
    PartialReleases, \* whether a failed helm install can leave a FAILED release
    MaxCrashes,      \* bound on crashes of the server
    None,            \* no request yet, no answer yet
    Garbage          \* a row read past the end of helm list's output

VARIABLES
    pc,        \* pc[r]: where handler r is
    input,     \* input[r]: the request handler r serves
    store,     \* the instance records in the persistent store
    releases,  \* the helm releases on the clusters
    resp,      \* resp[r]: the HTTP status handler r answered, 0 before
    reported,  \* reported[r]: the helm list row a 200 answer was built from
    crashes    \* crashes of the server so far

vars == <<pc, input, store, releases, resp, reported, crashes>>

MaxNameLength == 63

InFlight(r) == pc[r] \in {"record", "deploy", "compensate", "summarize"}

(* The repository the request names: ?dev selects slate-dev.              *)
RepoName(in) == IF in.dev THEN "slate-dev" ELSE "slate"

(* instance.name: the application name, then "-" and the tag if any.      *)
InstanceName(in) ==
    IF in.tag = "" THEN in.app ELSE in.app \o "-" \o in.tag

(* The instance record the handler builds; its id is the handler's own    *)
(* (idGenerator never repeats one).                                       *)
Instance(r) ==
    [id |-> r, name |-> InstanceName(input[r]),
     vo |-> input[r].vo, cluster |-> input[r].cluster]

Release(cl, n, st) == [cluster |-> cl, name |-> n, status |-> st]

(* A missing or unknown token, and a non-member, are refused as not      *)
(* authorized.  Mutant: the status of an unauthenticated request instead. *)
NotAuthorized401 == 401
NotAuthorized == 403

(* instance.name.size() > 63.                                             *)
NameTooLong(in) == Len(InstanceName(in)) > MaxNameLength

(* The early returns of installApplication, in the order the code makes   *)
(* them; 0 when the request passes them all.                              *)
RejectCode(in) ==
    CASE HasSubstring(in.app, "'")                 -> 400
      [] in.app \notin SearchHits[RepoName(in)]    -> 404
      [] in.token = NoUser                         -> NotAuthorized
      [] in.body = "malformed"                     -> 400
      [] in.vo \notin VOs                          -> 400
      [] in.cluster \notin Clusters                -> 400
      [] in.vo \notin Member[in.token]             -> NotAuthorized
      [] NameTooLong(in)                           -> 400
      [] OTHER                                     -> 0

Init ==
    /\ pc = [r \in Requests |-> "idle"]
    /\ input = [r \in Requests |-> None]
    /\ store = {}
    /\ releases = {}
    /\ resp = [r \in Requests |-> 0]
    /\ reported = [r \in Requests |-> None]
    /\ crashes = 0

(* A request fails one of the checks: answered, nothing else changes.     *)
Reject(r) ==
    /\ pc[r] = "idle"
    /\ \E in \in Inputs :
         /\ RejectCode(in) # 0
         /\ input' = [input EXCEPT ![r] = in]
         /\ resp' = [resp EXCEPT ![r] = RejectCode(in)]
    /\ pc' = [pc EXCEPT ![r] = "done"]
    /\ UNCHANGED <<store, releases, reported, crashes>>

(* A request passes every check and goes on to record its instance.       *)
Accept(r) ==
    /\ pc[r] = "idle"
    /\ \E in \in Inputs :
         /\ RejectCode(in) = 0
         /\ input' = [input EXCEPT ![r] = in]
    /\ pc' = [pc EXCEPT ![r] = "record"]
    /\ UNCHANGED <<store, releases, resp, reported, crashes>>

(* store.addApplicationInstance succeeds: the tentative record exists.    *)
RecordAdded(r) ==
    /\ pc[r] = "record"
    /\ store' = store \cup {Instance(r)}
    /\ pc' = [pc EXCEPT ![r] = "deploy"]
    /\ UNCHANGED <<input, releases, resp, reported, crashes>>

(* store.addApplicationInstance fails: 500, helm is never run.            *)
RecordFailed(r) ==
    /\ pc[r] = "record"
    /\ "add" \in StoreFailures
    /\ resp' = [resp EXCEPT ![r] = 500]
    /\ pc' = [pc EXCEPT ![r] = "done"]
    /\ UNCHANGED <<input, store, releases, reported, crashes>>

(* helm install repo/app --name <instance.name> on the request's cluster. *)
(* Helm refuses a release name already in use on that cluster, a name    *)
(* longer than its own limit (helm 2: 53 characters), and a chart the     *)
(* repository does not have; nothing is created then.                     *)
(* Mutant: helm installs over a release of the same name (--replace).    *)
NameTakenIgnored(r) == FALSE

NameTaken(r) ==
    \E rel \in releases : rel.cluster = input[r].cluster
                          /\ rel.name = InstanceName(input[r])

ChartMissing(r) == input[r].app \notin Catalog[RepoName(input[r])]

HelmMaxNameLength == 53

NameOverHelmLimit(r) == Len(InstanceName(input[r])) > HelmMaxNameLength

HelmRefuses(r) == NameTaken(r) \/ NameOverHelmLimit(r) \/ ChartMissing(r)

DeployRejected(r) ==
    /\ pc[r] = "deploy"
    /\ HelmRefuses(r)
    /\ pc' = [pc EXCEPT ![r] = "compensate"]
    /\ UNCHANGED <<input, store, releases, resp, reported, crashes>>

(* The release is created and the output carries STATUS: DEPLOYED.        *)
DeploySucceeded(r) ==
    /\ pc[r] = "deploy"
    /\ ~HelmRefuses(r)
    /\ releases' = releases \cup
                     {Release(input[r].cluster, InstanceName(input[r]), "DEPLOYED")}
    /\ pc' = [pc EXCEPT ![r] = "summarize"]
    /\ UNCHANGED <<input, store, resp, reported, crashes>>

(* Mutant: a failed install's output taken for STATUS: DEPLOYED.          *)
DeployFailedTakenForSuccess(r) ==
    /\ pc[r] = "deploy"
    /\ ~HelmRefuses(r)
    /\ pc' = [pc EXCEPT ![r] = "summarize"]
    /\ UNCHANGED <<input, store, releases, resp, reported, crashes>>

(* The install fails before the release is recorded.                      *)
DeployFailed(r) ==
    /\ pc[r] = "deploy"
    /\ ~HelmRefuses(r)
    /\ pc' = [pc EXCEPT ![r] = "compensate"]
    /\ UNCHANGED <<input, store, releases, resp, reported, crashes>>

(* The install fails after the release is recorded: helm keeps it, in     *)
(* status FAILED, and the output has no STATUS: DEPLOYED.                 *)
DeployFailedPartially(r) ==
    /\ pc[r] = "deploy"
    /\ PartialReleases
    /\ ~HelmRefuses(r)
    /\ releases' = releases \cup
                     {Release(input[r].cluster, InstanceName(input[r]), "FAILED")}
    /\ pc' = [pc EXCEPT ![r] = "compensate"]
    /\ UNCHANGED <<input, store, resp, reported, crashes>>

(* store.removeApplicationInstance(instance.id): the store without the   *)
(* request's own record.  Mutants: records removed by name and cluster   *)
(* instead of id, and the removal left out.                               *)
WithoutRecordByName(r) ==
    {s \in store : ~(s.name = InstanceName(input[r]) /\ s.cluster = input[r].cluster)}
WithoutRecordKept(r) == store
WithoutRecord(r) == {s \in store : s.id # r}

(* No STATUS: DEPLOYED: store.removeApplicationInstance(instance.id),     *)
(* whose result is not looked at, then 500.                               *)
Removed(r) ==
    /\ pc[r] = "compensate"
    /\ store' = WithoutRecord(r)
    /\ resp' = [resp EXCEPT ![r] = 500]
    /\ pc' = [pc EXCEPT ![r] = "done"]
    /\ UNCHANGED <<input, releases, reported, crashes>>

RemoveFailed(r) ==
    /\ pc[r] = "compensate"
    /\ "remove" \in StoreFailures
    /\ resp' = [resp EXCEPT ![r] = 500]
    /\ pc' = [pc EXCEPT ![r] = "done"]
    /\ UNCHANGED <<input, store, releases, reported, crashes>>

(* helm list <instance.name> runs without the cluster's KUBECONFIG, so it *)
(* lists the server's default cluster; its filter is a regular           *)
(* expression, so it matches every release whose name contains the       *)
(* instance name.  The order of the rows is left open.                    *)
ListedRows(r) ==
    {rel \in releases : rel.cluster = DefaultCluster
                        /\ HasSubstring(rel.name, InstanceName(input[r]))}

(* lines[1]: helm 2 prints the rows sorted by release name.              *)
FirstListed(r) ==
    CHOOSE row \in ListedRows(r) :
        \A o \in ListedRows(r) : ~NameBefore(o.name, row.name)

(* lines[1] is a row: 200 with its revision and update time.              *)
SummarizeRow(r) ==
    /\ pc[r] = "summarize"
    /\ ListedRows(r) # {}
    /\ reported' = [reported EXCEPT ![r] = FirstListed(r)]
    /\ resp' = [resp EXCEPT ![r] = 200]
    /\ pc' = [pc EXCEPT ![r] = "done"]
    /\ UNCHANGED <<input, store, releases, crashes>>

(* No row: lines[1] and cols[1..2] are read past the end of their vectors *)
(* (undefined behaviour).  Either the answer is built from garbage ...    *)
SummarizeGarbage(r) ==
    /\ pc[r] = "summarize"
    /\ ListedRows(r) = {}
    /\ reported' = [reported EXCEPT ![r] = Garbage]
    /\ resp' = [resp EXCEPT ![r] = 200]
    /\ pc' = [pc EXCEPT ![r] = "done"]
    /\ UNCHANGED <<input, store, releases, crashes>>

(* The server process dies: every request in flight is lost; the store    *)
(* and the clusters keep what they have.                                  *)
LoseInFlight == pc' = [q \in Requests |-> IF InFlight(q) THEN "lost" ELSE pc[q]]

(* ... or the process crashes on it.                                      *)
SummarizeCrash(r) ==
    /\ pc[r] = "summarize"
    /\ ListedRows(r) = {}
    /\ LoseInFlight
    /\ crashes' = crashes + 1
    /\ UNCHANGED <<input, store, releases, resp, reported>>

Crash ==
    /\ crashes < MaxCrashes
    /\ \E r \in Requests : InFlight(r)
    /\ LoseInFlight
    /\ crashes' = crashes + 1
    /\ UNCHANGED <<input, store, releases, resp, reported>>

(* The steps handler r takes once its request is accepted.                *)
Handle(r) ==
    \/ RecordAdded(r) \/ RecordFailed(r)
    \/ DeployRejected(r) \/ DeploySucceeded(r) \/ DeployFailed(r)
    \/ DeployFailedPartially(r)
    \/ Removed(r) \/ RemoveFailed(r)
    \/ SummarizeRow(r) \/ SummarizeGarbage(r) \/ SummarizeCrash(r)

Next ==
    \/ \E r \in Requests : Reject(r) \/ Accept(r) \/ Handle(r)
    \/ Crash

(* A handler thread, once running, runs to its return: helm and the store *)
(* answer every call.  Clients and crashes are not fair.                  *)
Fairness == \A r \in Requests : WF_vars(Handle(r))

Spec == Init /\ [][Next]_vars /\ Fairness

-----------------------------------------------------------------------------
Codes == {0, 200, 400, 403, 404, 500}
Names == {InstanceName(in) : in \in Inputs}

TypeOK ==
    /\ pc \in [Requests -> {"idle", "record", "deploy", "compensate",
                            "summarize", "done", "lost"}]
    /\ input \in [Requests -> Inputs \cup {None}]
    /\ store \subseteq [id : Requests, name : Names, vo : VOs, cluster : Clusters]
    /\ releases \subseteq [cluster : Clusters, name : Names,
                           status : {"DEPLOYED", "FAILED"}]
    /\ resp \in [Requests -> Codes]
    /\ reported \in [Requests -> releases \cup {None, Garbage}]
    /\ crashes \in Nat

(* No instance record names a release helm cannot create: the length     *)
(* check before the store write (line 186) is meant to turn a name the    *)
(* deployment substrate refuses into a 400 with nothing recorded (spec    *)
(* 4.5 step 7), but it allows 63 characters where helm 2 allows 53, so a *)
(* name of 54 to 63 characters is recorded, refused by helm and rolled    *)
(* back with a 500.                                                       *)
RecordedNamesDeployable ==
    \A s \in store : Len(s.name) <= HelmMaxNameLength

(* Record before actuate: every release helm holds on a cluster has an    *)
(* instance record of that name and cluster in the store, whatever        *)
(* handlers interleave and wherever the server crashes.  This is what    *)
(* adding the record before helm install and removing it only on failure  *)
(* are for.                                                               *)
NoUntrackedRelease ==
    \A rel \in releases :
        \E s \in store : s.cluster = rel.cluster /\ s.name = rel.name

(* An install that was answered with an error leaves no record of its     *)
(* own in the store: the record added before helm ran is removed when     *)
(* helm reports no STATUS: DEPLOYED.                                      *)
FailedInstallLeavesNoRecord ==
    \A r \in Requests :
        resp[r] \notin {0, 200} => \A s \in store : s.id # r

(* An install answered 200 has its record in the store, and the revision  *)
(* and time in the answer come from its own release, the one helm         *)
(* deployed under its name on its cluster.                                *)
SuccessReportsOwnRelease ==
    \A r \in Requests :
        resp[r] = 200 =>
            /\ Instance(r) \in store
            /\ reported[r] = Release(input[r].cluster, InstanceName(input[r]),
                                     "DEPLOYED")

(* Of concurrent installs that compose the same instance name for the     *)
(* same cluster, at most one is answered 200.                             *)
OneSuccessPerRelease ==
    \A r1, r2 \in Requests :
        /\ resp[r1] = 200 /\ resp[r2] = 200
        /\ input[r1].cluster = input[r2].cluster
        /\ InstanceName(input[r1]) = InstanceName(input[r2])
        => r1 = r2

(* The refinement mapping onto the saga of InstanceRegistry: where a      *)
(* handler is in the code gives the phase of its request, the store's     *)
(* records without their VO are the reservations, the releases on the     *)
(* clusters the deployments, and the status code the answer.              *)
PhaseOf(r) ==
    CASE pc[r] = "idle"                        -> "free"
      [] pc[r] = "record"                      -> "accepted"
      [] pc[r] \in {"deploy", "compensate"}    -> "reserved"
      [] pc[r] = "summarize"                   -> "actuated"
      [] pc[r] = "done"                        -> "answered"
      [] pc[r] = "lost"                        -> "lost"

AnswerOf(r) ==
    CASE resp[r] = 0   -> "none"
      [] resp[r] = 200 -> "ok"
      [] OTHER         -> "error"

Registry == INSTANCE InstanceRegistry WITH
    Ids <- Requests,
    phase <- [r \in Requests |-> PhaseOf(r)],
    records <- {[id |-> s.id, name |-> s.name, cluster |-> s.cluster] : s \in store},
    deployments <- {[cluster |-> rel.cluster, name |-> rel.name] : rel \in releases},
    answer <- [r \in Requests |-> AnswerOf(r)],
    crashed <- crashes

(* installApplication implements the saga: a release is only created for *)
(* the handler's own recorded instance and never over one of the same    *)
(* name and cluster, a failed install removes its own record and nothing *)
(* else, an answer is OK only after helm deployed, and every handler     *)
(* that was accepted reaches its answer unless the server crashes.       *)
ImplementsRegistry == Registry!ASpec

(* findApplication runs helm search with the application name for every  *)
(* request past the quote check, before the token is looked at.          *)
HelmSearchRan(r) == input[r] # None /\ ~HasSubstring(input[r].app, "'")

(* Every command line installApplication hands to the shell has only     *)
(* one-word arguments: the application name in helm search (line 97) and *)
(* the composed instance name in helm install --name (line 204).  The    *)
(* spec (4.5, step 1) asks for names that would break command quoting to *)
(* be rejected; the code rejects only a single quote in the app name.    *)
CommandArgumentsShellSafe ==
    \A r \in Requests :
        /\ HelmSearchRan(r) => ShellSafe(input[r].app)
        /\ pc[r] = "deploy" => ShellSafe(InstanceName(input[r]))

=============================================================================
