# TLA+ models of slate-client-server's application commands

This directory models the application-instance part of the SLATE API server
(`src/src/ApplicationCommands.cpp`) and checks it with TLC.

## 1. Inventory

| Component | Source | State it keeps | Operations |
|---|---|---|---|
| Instance lifecycle orchestrator | `ApplicationCommands.cpp` `installApplication` (112-244), `findApplication` (93-110) | no state of its own; per request: the instance it builds | validate, add record, helm install, compensate, helm list summary |
| Catalog queries | `listApplications` (6-58), `fetchApplicationConfig` (60-91) | none | helm search / helm inspect, build JSON |
| Output interpreter | spread through the handlers (lines 73, 100, 210-218, 26-53) | none | `find` of markers, error-line choice, row split |
| Actuator gateway | `src/include/KubeInterface.h` (declarations only); the handlers call `runCommand` | the releases helm holds on each cluster | install, list, search, inspect |
| Persistent store | not in this repository | instance records, users, VOs, clusters, memberships | `getVO`, `getCluster`, `userInVO`, `addApplicationInstance`, `removeApplicationInstance` |
| Authorization / user management | not in this repository; `src/test/TestUser*.cpp` test it | users, tokens, admin flags, memberships | create, update, delete user |

How they interact. Every HTTP request runs on its own crow handler thread;
handlers share only the persistent store and the clusters (through helm).
`installApplication` reads the store (VO, cluster, membership), **adds the
instance record first**, then runs `helm install` in a shell with the
cluster's `KUBECONFIG`, and classifies the output by the substring
`STATUS: DEPLOYED`. Without it, it removes the record again (ignoring the
result) and answers 500 with a detail line chosen by `if(line.find("Error"))`.
With it, it runs `helm list <name>` **in a new shell without KUBECONFIG**
and reads `lines[1]`, `cols[1]`, `cols[2]` without checks.

What is hard here: concurrent installs of the same name (the store does not
check names, helm does); a crash of the server between the store write and
helm; helm failing after it recorded a release; the store failing during
the compensation; a summary read from the wrong cluster or the wrong row;
undefined behaviour on short outputs; and the string tests on helm's text.

Correctness, per component:
- orchestrator: every release has a record (record before actuate); a failed
  install leaves no record; a 200 reports the instance's own release; at most
  one install per name and cluster succeeds; a name helm refuses is never
  recorded.
- output interpreter: the detail line is the first line with `Error`; a
  list output with a header and rows gives exactly one item per row.
- catalog queries: listing is open (spec, `TestApplicationListing.cpp:11`).
- user management (spec and tests): only admins create users or set the admin
  flag; deleting a user removes only its memberships.

## 2. Modules and how they map to the code

### `HelmOutput` (constants only)
Operators over real strings, since TLC handles strings as sequences:
`Find(s, p)` is `std::string::find` (0-based index or `NPos`), `OutputHas`
is `commandResult.find(p) != npos`, `Deployed` (line 210),
`InspectNotFound` (line 73), `NameBefore` (Go's byte order on names,
by which helm 2 sorts the rows of `helm list`), and
`ErrorDetailLine` (lines 211-218), the code's choice of the line that
follows the error message: the first line whose `find("Error")` is
*nonzero*. `SpecErrorDetailLine` is the reference the spec gives.
`MCHelmOutput` picks every output of up to 3 lines, drawn from lines helm 2
prints, as the initial state.

### `InstallApplication` (extends `HelmOutput`)
State: `pc[r]` (where handler `r` is), `input[r]` (its request), `store`
(instance records `[id, name, vo, cluster]`), `releases` (helm releases
`[cluster, name, status]`), `resp[r]` (HTTP status), `reported[r]` (the helm
list row the 200 was built from), `crashes`.

| Action | Code |
|---|---|
| `Reject`, `Accept` with `RejectCode` | the early returns of lines 113-187 in the code's order: quote, `findApplication`, token, JSON body, VO, cluster, membership, composed name > 63 |
| `RecordAdded`, `RecordFailed` | `store.addApplicationInstance`, 191-196 |
| `DeployRejected`, `DeploySucceeded`, `DeployFailed`, `DeployFailedPartially` | `helm install ... --name`, 198-210: helm refuses (`HelmRefuses`) a taken name, a name over helm 2's 53 characters (`HelmMaxNameLength`) or a missing chart; otherwise it deploys, fails cleanly, or (when `PartialReleases`) fails keeping a FAILED release |
| `Removed`, `RemoveFailed` | compensation, 209-221, result ignored; `WithoutRecord` is `removeApplicationInstance(instance.id)` (219) |
| `SummarizeRow`, `SummarizeGarbage`, `SummarizeCrash` | `helm list <name>` on the default cluster, regex filter, rows sorted by name (`FirstListed` is `lines[1]`); `lines[1]` past the end is undefined behaviour: a garbage 200 or a crash |
| `Crash` | the server process dies: requests in flight are lost, store and clusters stay |

`HelmSearchRan` marks the requests whose application name reached
findApplication's `helm search` (lines 93-98): every one past the quote
check, before the token is looked at.

### `InstanceRegistry` (abstract saga) and the refinement
The spec's promise (4.5, "compensating transactions"), with no helm, no
store calls and no output: per request a phase `free -> accepted ->
reserved -> actuated -> answered` (or `lost` at a crash), reservations
`records`, `deployments`. `Refuse`, `Admit`, `Reserve`, `Actuate` (only a
reserved record, never over a deployment of the same name and cluster),
`Compensate` (removes exactly the request's own record), `Confirm` (OK only
after actuation), `ACrash`; weak fairness on each request's progress.
`InstallApplication` instantiates it as `Registry` with the mapping:
`pc` -> phase (`record` is accepted, `deploy`/`compensate` reserved,
`summarize` actuated), store records without their VO -> `records`,
releases without status -> `deployments`, status code -> answer.
`ImplementsRegistry == Registry!ASpec` is checked in `install_core`. A failed
deploy, a name-taken refusal and the unchecked summary reads are stuttering
steps of the saga; the violation of `install_partial_release` (a FAILED
release kept while its record goes) is exactly where the code leaves it.

Data abstractions: the request body is `valid` or `malformed` (all body
errors answer 400 before any store call); ids are the handler's own
(`idGenerator` never repeats); membership is a constant of the store;
names are real strings, so `nginx` + tag `web`, helm's sort of them and
the 53- and 63-character boundaries are exact.

### `CatalogQueries` (extends `HelmOutput`)
One request per behaviour (the handlers share no state): `req` (op, token,
dev flag, app name), `out` (helm's output: rows, each the sequence of its
tab-separated columns), `resp`, `items` (the 200 list answer), `ran` (the
shell command run).

| Action / operator | Code |
|---|---|
| `Unauthorized` | `authenticateUser` and the 403 of both handlers, 7-10, 61-64 |
| `RepoName`, `FetchCommand` | `slate` or `slate-dev`, the `helm search` / `helm inspect` command line, 13-17, 66-71 |
| `Column`, `Item`, `CollectItems`, `ListItems` | the row loop, 26-53: skip `n = 0`, `tokens[0..3]` into name, chart version (col 2), app version (col 3), description |
| `ListServed`, `ListReadPastRow`, `ListCrash` | listApplications with well-formed rows; with a short row, `tokens[k]` past the end is undefined behaviour: garbage fields in a 200, or a crash |
| `FetchNotFound`, `FetchServed` | any `Error` in helm inspect output is a 404, otherwise the output is the body, 71-91 |

`MCCatalogQueries` draws every helm search output of up to 3 lines from a
header, two catalogue rows, a two-column row and `No results found`; helm
inspect prints a chart, the chart-absent error, or an error of helm itself.

## 3. Runs

| Run | Expect | Shows |
|---|---|---|
| `install_core` | pass | 3 handlers, one cluster that is also the default context, add failures, 1 crash, 14 inputs (one per early return, names of 53 and 63 characters and one of 64, two VOs composing `nginx`, `ngin` found by search with no chart): `TypeOK`, `NoUntrackedRelease`, `FailedInstallLeavesNoRecord`, `ImplementsRegistry` (110,875 states) |
| `install_failures` | pass | two clusters, both store calls fallible, FAILED releases, the garbage and crash reads of helm list (36,273 states): `OneSuccessPerRelease` |
| `install_partial_release` | violation | `NoUntrackedRelease`: a FAILED release stays while its record is removed |
| `install_helm_name_limit` | violation | `RecordedNamesDeployable`: a 63-character name passes the check at line 186, is recorded, and helm 2 (limit 53) refuses it; the answer is 500 after a rollback instead of 400 before any write |
| `install_summary_row` | violation | `SuccessReportsOwnRelease`: helm list runs without KUBECONFIG, so `nginx` installed on c2 is answered with the row of `nginx` on c1 (or from garbage when c1 has no match); its filter keeps every name containing the instance name |
| `install_shell_injection` | violation | `CommandArgumentsShellSafe`: `nginx;id` without a token reaches helm search (line 97) before the 403; a tag `web;id` reaches helm install `--name` (line 206) |
| `helm_error_detail` | violation | `ErrorDetailIsFirstErrorLine`: the inverted `find` test |
| `catalog_core` | pass | `TypeOK`, `ListItemsMatchRows`: every well-formed search output (empty, header only, `No results found` included) gives one item per row with fields from the right columns (1,476 states) |
| `catalog_list_open` | violation | `ListIsOpen`: listing without a token answers 403, against `TestApplicationListing.cpp` |
| `catalog_gateway_failure` | violation | `GatewayFailureIsAnError`: a short search row is answered 200 with garbage (or crashes), and an inspect error of helm itself (unreadable repository index) is answered 404 instead of a server error |
| `catalog_fetch_shell` | violation | `FetchCommandShellSafe`: `nginx;reboot` reaches the helm inspect command line |

Bounds: three handlers are enough for a race of two plus a third request
interleaving with a crash; one crash reaches every crash point of every
handler (with two crashes `install_core` reaches 129,290 states and every
property still holds); the inputs hit each early return once. Deadlock checking is off in
the install runs because the model stops when every handler has answered,
where the real server waits for new requests; the catalog runs serve one
request and stop.

Fairness: weak fairness on each handler's steps (`Handle(r)`): a handler
thread runs to its return, since helm and the store answer every call.
It is used by the liveness half of `ImplementsRegistry` (the registry's
own weak fairness: an admitted request is answered unless a crash loses it).
Clients and crashes are not fair.  runCommand has no timeout, so this is
an assumption about helm, not something the code enforces: a helm that
never answers holds its handler forever (listed as a hazard at line 204).

Each property of a passing run has a mutant in `PROJECT.json` (a 401 for
403, removal by name, a missing removal, a taken name not refused, swapped
version columns, a not-found answered 500, a failed deploy taken for
success) that TLC shows breaks it.

## 4. Not modelled, and why
- The persistent store implementation, HTTP routing and JSON schema checks
  are not in this repository; the store appears only through the calls the
  handlers make.
- `KubeInterface.h` declares helm and kubectl wrappers but this code calls
  `runCommand`; helm's behaviour is modelled inside the deploy actions.
  The header has no definitions to model.  Its `helm(configPath,
  tillerNamespace, arguments)` takes an argument vector and a config path,
  the shape that would close both the shell-injection and the
  wrong-cluster findings, but nothing here calls it.
- User and group management is implemented outside this repository;
  installs read membership as a constant of the store.  A membership
  removed between `userInVO` (169) and the record write (191) is not
  checked: the spec's own install workflow has the same window.
- A failed compensating removal (219) is modelled (`RemoveFailed`) but no
  property judges it: neither the spec nor a test says what it must leave.

## 5. Plan
1. (done) `HelmOutput`, `InstallApplication`, their MC modules and runs.
2. (done) `CatalogQueries`: both handlers, the row loop, the open-listing
   test, short rows, the shell hazard of helm inspect.
3. (done) Shell safety of installApplication's helm search and `--name`.
4. (done) `InstanceRegistry` and the refinement checked in `install_core`.
5. (not taken) Membership removed concurrently with installs: the spec's
   workflow has the same check-then-write window as the code.
6. (not taken) `UserManagement`: its implementation is not in this
   repository, so a module of it would restate spec 4.1 and check the spec
   against itself.
7. (done) Helm failure outputs other than not-found for
   `fetchApplicationConfig` (hazard at line 73).
8. (not taken) A timeout on helm: runCommand has none, so there is no
   timeout or retry to model; the liveness half of `ImplementsRegistry`
   states its assumption that helm answers.
