---------------------------- MODULE CatalogQueries ----------------------------
(***************************************************************************)
(* listApplications and fetchApplicationConfig                            *)
(* (src/src/ApplicationCommands.cpp): read-only handlers that run helm    *)
(* search or helm inspect through the shell and turn the output into a    *)
(* JSON answer.  A behaviour serves one request against one helm output;  *)
(* handlers share nothing but helm, so one request per behaviour covers   *)
(* every interleaving.  helm search output is a sequence of rows, each    *)
(* the sequence of its tab-separated columns (string_split_columns).      *)
(***************************************************************************)
EXTENDS Naturals, Sequences, HelmOutput

CONSTANTS
    Users,          \* users whose tokens authenticate
    NoUser,         \* an absent or unknown token
    AppNames,       \* names a client may ask helm inspect about
    SearchOutputs,  \* what helm search may print
    InspectOutputs, \* what helm inspect may print
    None,           \* not yet served, no command run
    Garbage,        \* a column read past the end of its row
    Crashed         \* the server died on undefined behaviour

VARIABLES
    req,    \* the request: [op, token, dev, app]
    out,    \* the output helm gives for it
    resp,   \* the HTTP status answered, or None
    items,  \* the items of a 200 list answer
    ran     \* the shell command the handler ran, or None

vars == <<req, out, resp, items, ran>>

Requests ==
    [op : {"list"}, token : Users \cup {NoUser}, dev : BOOLEAN, app : {""}]
    \cup [op : {"fetch"}, token : Users \cup {NoUser}, dev : BOOLEAN, app : AppNames]

RepoName(r) == IF r.dev THEN "slate-dev" ELSE "slate"

(* tokens[k-1] of a row; past the end of the vector it is garbage.        *)
Column(cols, k) == IF k <= Len(cols) THEN cols[k] ELSE Garbage

(* Mutant: chart and app version taken from each other's column.          *)
ItemVersionsSwapped(cols) ==
    [name |-> Column(cols, 1), app_version |-> Column(cols, 2),
     chart_version |-> Column(cols, 3), description |-> Column(cols, 4)]

Item(cols) ==
    [name |-> Column(cols, 1), app_version |-> Column(cols, 3),
     chart_version |-> Column(cols, 2), description |-> Column(cols, 4)]

(* The loop of listApplications: n runs over every line, the first        *)
(* (n = 0, the header) is skipped.                                        *)
RECURSIVE CollectItems(_, _, _)
CollectItems(lines, n, acc) ==
    IF n < Len(lines)
    THEN CollectItems(lines, n + 1,
                      IF n > 0 THEN Append(acc, Item(lines[n + 1])) ELSE acc)
    ELSE acc

ListItems(lines) == CollectItems(lines, 0, <<>>)

(* Every row after the header has the four columns the loop reads.        *)
RowsWellFormed(lines) == \A n \in 2..Len(lines) : Len(lines[n]) >= 4

Init ==
    /\ req \in Requests
    /\ out \in IF req.op = "list" THEN SearchOutputs ELSE InspectOutputs
    /\ resp = None
    /\ items = <<>>
    /\ ran = None

(* Both handlers first authenticate the token: 403 without a user.        *)
Unauthorized ==
    /\ resp = None
    /\ req.token = NoUser
    /\ resp' = 403
    /\ UNCHANGED <<req, out, items, ran>>

(* listApplications: helm search <repo>/, one item per row after the      *)
(* header.                                                                *)
ListServed ==
    /\ resp = None /\ req.op = "list" /\ req.token # NoUser
    /\ RowsWellFormed(out)
    /\ ran' = "helm search " \o RepoName(req) \o "/"
    /\ items' = ListItems(out)
    /\ resp' = 200
    /\ UNCHANGED <<req, out>>

(* A row with fewer than four columns: tokens[1..3] are read past the end *)
(* (undefined behaviour).  Either the answer carries garbage ...          *)
ListReadPastRow ==
    /\ resp = None /\ req.op = "list" /\ req.token # NoUser
    /\ ~RowsWellFormed(out)
    /\ ran' = "helm search " \o RepoName(req) \o "/"
    /\ items' = ListItems(out)
    /\ resp' = 200
    /\ UNCHANGED <<req, out>>

(* ... or the server crashes.                                             *)
ListCrash ==
    /\ resp = None /\ req.op = "list" /\ req.token # NoUser
    /\ ~RowsWellFormed(out)
    /\ ran' = "helm search " \o RepoName(req) \o "/"
    /\ resp' = Crashed
    /\ UNCHANGED <<req, out, items>>

(* fetchApplicationConfig: helm inspect <repo>/<app>, the name as given.  *)
FetchCommand(r) == "helm inspect " \o RepoName(r) \o "/" \o r.app

(* The status of "Application not found".  Mutant: a server error.      *)
ApplicationNotFound500 == 500
ApplicationNotFound == 404

FetchNotFound ==
    /\ resp = None /\ req.op = "fetch" /\ req.token # NoUser
    /\ ran' = FetchCommand(req)
    /\ InspectNotFound(out)
    /\ resp' = ApplicationNotFound
    /\ UNCHANGED <<req, out, items>>

FetchServed ==
    /\ resp = None /\ req.op = "fetch" /\ req.token # NoUser
    /\ ran' = FetchCommand(req)
    /\ ~InspectNotFound(out)
    /\ resp' = 200
    /\ UNCHANGED <<req, out, items>>

Next ==
    \/ Unauthorized
    \/ ListServed \/ ListReadPastRow \/ ListCrash
    \/ FetchNotFound \/ FetchServed

Spec == Init /\ [][Next]_vars

-----------------------------------------------------------------------------
ItemFields == [name : STRING \cup {Garbage}, app_version : STRING \cup {Garbage},
               chart_version : STRING \cup {Garbage},
               description : STRING \cup {Garbage}]

TypeOK ==
    /\ req \in Requests
    /\ resp \in {None, 200, 403, 404, Crashed}
    /\ items \in Seq(ItemFields)
    /\ ran \in STRING \cup {None}

(* The items the spec's Output Interpreter gives for a list output: skip  *)
(* the header, one item per row, fields by column.                        *)
SpecItems(lines) ==
    [i \in 1..(Len(lines) - 1) |->
        [name |-> lines[i + 1][1], chart_version |-> lines[i + 1][2],
         app_version |-> lines[i + 1][3], description |-> lines[i + 1][4]]]

(* Listing applications needs no token: TestApplicationListing.cpp        *)
(* expects 200 without one and the spec (4.1) says catalog browsing is    *)
(* not protected; listApplications answers 403.                          *)
ListIsOpen == (req.op = "list" /\ resp # None) => resp # 403

(* A 200 list answer has exactly one item per row after the header, each *)
(* with the fields of its columns, for every output whose rows are well   *)
(* formed, the empty catalogue ("No results found") included.             *)
ListItemsMatchRows ==
    (req.op = "list" /\ resp = 200 /\ RowsWellFormed(out))
        => items = SpecItems(out)

(* helm inspect's own marker for a chart the repository does not have.   *)
ChartAbsent(lines) == OutputHas(lines, "failed to download")

(* helm output that is not a usable result is answered as a server-side  *)
(* error (spec 4.4, 4.3 and the error taxonomy), never as a client error *)
(* or as success: a search row with fewer than four columns is a         *)
(* data-integrity error (listApplications reads its columns unchecked),  *)
(* and an inspect error other than the chart-absent marker is a platform *)
(* failure (fetchApplicationConfig answers 404 for any "Error").         *)
GatewayFailureIsAnError ==
    /\ (req.op = "list" /\ resp \notin {None, 403} /\ ~RowsWellFormed(out))
           => resp = 500
    /\ (req.op = "fetch" /\ resp \notin {None, 403}
        /\ InspectNotFound(out) /\ ~ChartAbsent(out))
           => resp = 500

(* fetchApplicationConfig runs helm inspect only for names the shell      *)
(* reads as one word: the name is put into the command line unquoted.    *)
FetchCommandShellSafe ==
    (req.op = "fetch" /\ ran # None) => ShellSafe(req.app)

=============================================================================
