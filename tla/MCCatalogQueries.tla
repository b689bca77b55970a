--------------------------- MODULE MCCatalogQueries ---------------------------
(***************************************************************************)
(* Instantiates CatalogQueries: every helm search output of up to three   *)
(* lines drawn from the header, two catalogue rows, a row with two        *)
(* columns and the empty-catalogue line; helm inspect printing a chart or *)
(* its download error; names with and without a shell metacharacter.     *)
(***************************************************************************)
EXTENDS CatalogQueries

CONSTANTS u1

Header == <<"NAME", "CHART VERSION", "APP VERSION", "DESCRIPTION">>
NginxRow == <<"slate/nginx", "1.0.2", "1.15", "web server">>
RedisRow == <<"slate/redis", "2.1.0", "4.0", "cache">>
ShortRow == <<"slate/broken", "0.1">>
NoResults == <<"No results found">>

MCSearchOutputs ==
    BoundedSeq({Header, NginxRow, RedisRow, ShortRow, NoResults}, 3)

(* helm inspect prints the chart, an error for a chart the repository    *)
(* does not have, or an error of helm itself (its repository index       *)
(* cannot be read).                                                       *)
MCInspectOutputs ==
    { <<"apiVersion: v1", "name: nginx", "version: 1.0.2">>,
      <<"Error: failed to download slate/nginx2">>,
      <<"Error: open slate-index.yaml: permission denied">> }

SafeNames == {"nginx", "nginx2"}
UnsafeNames == {"nginx;reboot"}

=============================================================================
