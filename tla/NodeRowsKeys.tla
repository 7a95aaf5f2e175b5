---------------------------- MODULE NodeRowsKeys ----------------------------
(***************************************************************************)
(* The nodes whose promise-cache key determines their rows.  specDimKey.ts *)
(* says it does for all; these are the conditions under which it is so.    *)
(***************************************************************************)
EXTENDS NodeRows

\* The dimensions a spec reads beside its requests: by a filter, a clamp, the pipe, a
\* state-bound channel, or a share at the whole coordinate.
Reads(n) ==
  {n.filter[d].ctx : d \in Dims} \cup {n.pipe[d].ctx : d \in Dims}
    \cup {n.from, n.to} \cup n.refs \cup (IF n.pctOf = None THEN {} ELSE Dims)

\* A request names the dimension in a node's key: it is not pinned to something else
\* and not spread over.
InKey(n, r) ==
  CASE n.kind = "query" ->
         \/ Unfiltered(n.filter[r])
         \/ n.filter[r].ctx = r
         \/ r # TimeDim /\ n.filter[r].ctx = None /\ n.filter[r].values = {}
    [] n.kind = "series" -> r # TimeDim
    [] n.kind = "list" -> TRUE
    [] n.kind = "metric" -> r \notin n.by /\ n.where[r] = Unset
    [] OTHER -> FALSE

Keyed(n) ==
  /\ n.kind # "rows" => n.codes # {}
  /\ n.drill = None
  /\ \A r \in Reads(n) \cap Dims : InKey(n, r)
  /\ n.kind = "query" =>
       LET f == n.filter[TimeDim]
       IN  Unfiltered(f) \/ f.ctx # None \/ f.values \ {Unset} # {}

\* A query of one year is shown only while the page has one: FilterBar.
Dated(n, s) ==
  n.kind = "query" /\ n.filter[TimeDim].ctx # None => s[dim(n.filter[TimeDim].ctx)] # Unset

ASSUME NodesAreKeyed ==
  \A n \in Nodes :
    /\ Keyed(Node[n])
    /\ \A p \in Pages : Visible(Node[n], PageState[p]) => Dated(Node[n], PageState[p])
=============================================================================
