------------------------- MODULE MCInstallApplication -------------------------
(***************************************************************************)
(* Instantiates InstallApplication for TLC: a handful of users, VOs and   *)
(* clusters as model values and the install requests clients send.  The  *)
(* request sets put two installs of the same instance name on one         *)
(* cluster (the race), a name of exactly 63 and one of 64 characters (the *)
(* limit), a name helm search finds but helm install has no chart for,    *)
(* and one request failing each early return of the handler.              *)
(***************************************************************************)
EXTENDS InstallApplication, TLC

CONSTANTS u1, u2, v1, v2, v3, c1, c2, c3

(* u1 is in v1; u2 in v1 and v2.  v3 and c3 are not in the store.         *)
MCMember == (u1 :> {v1}) @@ (u2 :> {v1, v2})

MCCatalog == ("slate" :> {"nginx", "redis"}) @@ ("slate-dev" :> {"nginx"})

(* helm search matches substrings: "ngin" finds nginx.  For "nginx;id"   *)
(* the shell runs helm search slate/nginx and then id, so the output has  *)
(* nginx's row and findApplication finds it.                              *)
MCSearchHits ==
    ("slate" :> {"nginx", "ngin", "redis", "nginx;id"}) @@ ("slate-dev" :> {"nginx"})

Tag47 == "ttttttttttttttttttttttttttttttttttttttttttttttt"
Tag57 == "ttttttttttttttttttttttttttttttttttttttttttttttttttttttttt"
Tag58 == "tttttttttttttttttttttttttttttttttttttttttttttttttttttttttt"

Req(app, tag, tok, vo, cl) ==
    [app |-> app, dev |-> FALSE, token |-> tok, body |-> "valid",
     vo |-> vo, cluster |-> cl, tag |-> tag]

(* One request failing each early return, in the code's order.            *)
RejectedInputs ==
    { Req("ngi'nx", "", u1, v1, c1),
       Req("mysql", "", u1, v1, c1),
       [Req("redis", "", u1, v1, c1) EXCEPT !.dev = TRUE],
       Req("nginx", "", NoUser, v1, c1),
       [Req("nginx", "", u1, v1, c1) EXCEPT !.body = "malformed"],
       Req("nginx", "", u1, v3, c1),
       Req("nginx", "", u1, v1, c3),
       Req("nginx", "", u1, v2, c1),
       Req("redis", Tag58, u1, v1, c1) }

(* Accepted installs on one cluster: two VOs compose the same name         *)
(* "nginx"; "redis-ttt..." is exactly 63 characters, the code's limit,   *)
(* and "nginx-ttt..." exactly 53, helm 2's; "ngin" has no chart.          *)
CoreInputs ==
    RejectedInputs \cup
    { Req("nginx", "", u1, v1, c1),
       Req("nginx", "", u2, v2, c1),
       Req("redis", Tag57, u1, v1, c1),
       Req("nginx", Tag47, u1, v1, c1),
       Req("ngin", "", u1, v1, c1) }

(* The same installs spread over two clusters, of which only c1 is the    *)
(* server's default kube context.                                         *)
TwoClusterInputs ==
    { Req("nginx", "", u1, v1, c1),
       Req("nginx", "", u2, v2, c2),
       Req("ngin", "", u1, v1, c2) }

(* Two instance names, one containing the other: "nginx" and "nginx-web". *)
NestedNameInputs ==
    { Req("nginx", "", u1, v1, c1),
       Req("nginx", "web", u2, v2, c1) }

(* Names carrying a shell command separator: in the application name,    *)
(* sent without a token, and in the tag of an authorized install.         *)
InjectionInputs ==
    { Req("nginx;id", "", NoUser, v1, c1),
       Req("nginx", "web;id", u1, v1, c1) }

(* The summary's helm list on another cluster and on nested names.        *)
SummaryInputs == TwoClusterInputs \cup NestedNameInputs

=============================================================================
