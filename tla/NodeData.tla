------------------------------ MODULE NodeData ------------------------------
(***************************************************************************)
(* What a page's data nodes derive from the page's state, and what the     *)
(* static analysis says they read (packages/core/src/data, registry and    *)
(* graph/extractDeps.ts).  Constant-level: QueryGraph and NodeRows are the *)
(* state machines.                                                         *)
(*                                                                         *)
(* A dimension value, variable or parameter is a number, 0 when unset      *)
(* ('', null, undefined).  A cell is the set of the observations it is     *)
(* computed from; summing them, rounding and layout are left out.          *)
(***************************************************************************)
EXTENDS Naturals

CONSTANTS
  Dims,       \* dimensions of the observations and of the page's coordinate
  TimeDim,    \* TIME_DIM
  Vars,       \* page variables; a name may also be that of a dimension
  Params,     \* filter parameters and perspective axes
  Values,     \* values, 0 is unset
  Codes,      \* measures
  Obs,        \* the observations of the page's store
  Nodes,      \* the page's data nodes
  Node,       \* their specs
  Ambient,    \* opts.ambientDims: the dimensions the page's coordinate may have
  None

Unset == 0

\* A filter of one dimension: `values` or `ctx` ($ctx) allow, `not` ($ne) forbids.
Filter == [values : SUBSET (Values \ {Unset}), ctx : Dims \cup {None},
           not : Values]

\* kind: "query"; "series" (timeseries, growth, point-series over time); "list"
\* (row-list, ratio-list); "metric"; "rows" (transform, pivot). when: visibleWhen.
\* drill: the parameter of the node's drill action.
NodeSpec ==
  [kind : {"query", "series", "list", "metric", "rows"}, codes : SUBSET Codes,
   filter : [Dims -> Filter], pipe : [Dims -> Filter],
   from : Dims \cup {None}, to : Dims \cup {None}, coords : SUBSET Values,
   by : SUBSET Dims, where : [Dims -> Values], refs : SUBSET (Dims \cup Vars),
   pctOf : Codes \cup {None}, joined : BOOLEAN, drill : Params \cup {None},
   when : Params \cup {None}, is : Values]

ASSUME ConstantsOK ==
  /\ TimeDim \in Dims
  /\ Values \subseteq Nat /\ Unset \in Values
  /\ Ambient \subseteq Dims
  /\ None \notin Dims \cup Vars \cup Params \cup Codes
  /\ Node \in [Nodes -> NodeSpec]
  /\ Obs \subseteq [code : Codes, at : [Dims -> Values]]

-----------------------------------------------------------------------------
\* The state of a page: GraphState, keyed by source.

dim(k) == <<"dim", k>>
var(k) == <<"var", k>>
param(k) == <<"param", k>>
locale == <<"locale", "locale">>

SRC ==
  {dim(k) : k \in Dims} \cup {var(k) : k \in Vars} \cup {param(k) : k \in Params}
    \cup {locale}

GraphState ==
  {s \in [SRC -> Values] : \A d \in Dims \ Ambient : s[dim(d)] = Unset}

diffState(s, t) == {x \in SRC : s[x] # t[x]}

-----------------------------------------------------------------------------
\* The current path: interpretSpec(), resolveNodeRows() and the encoding.

Coordinate(s) == [d \in Dims |-> s[dim(d)]]

\* resolveFilter(): the allowed values; none is no restriction.
Allowed(f, s) ==
  IF f.ctx = None THEN f.values ELSE {s[dim(f.ctx)]} \ {Unset}

\* matchesFilter(): an observation without the dimension matches no allowed value.
matchesFilter(o, filter, s) ==
  \A d \in Dims :
    /\ filter[d].not # Unset => o.at[d] # filter[d].not
    /\ Allowed(filter[d], s) # {} => o.at[d] \in Allowed(filter[d], s)

\* matchedValues(): a dimension unset in the coordinate, or that the observation has
\* not, is a wildcard.
Cell(code, at) ==
  {o \in Obs : /\ o.code = code
               /\ \A d \in Dims : at[d] # Unset /\ o.at[d] # Unset => o.at[d] = at[d]}

\* effectiveBounds() and clampToBounds(): a bound that is unset does not clamp.
InBounds(t, n, s) ==
  /\ n.from # None /\ s[dim(n.from)] # Unset => t >= s[dim(n.from)]
  /\ n.to # None /\ s[dim(n.to)] # Unset => t <= s[dim(n.to)]

QueryRows(n, s) ==
  {o \in Obs : /\ o.code \in n.codes
               /\ matchesFilter(o, n.filter, s)
               /\ InBounds(o.at[TimeDim], n, s)
               /\ matchesFilter(o, n.pipe, s)}

\* The years of a series: as given, or ('all') those the measure has, clamped.
Years(n, s) ==
  {y \in IF n.coords # {} THEN n.coords
         ELSE {o.at[TimeDim] : o \in {o \in Obs : o.code \in n.codes}} \ {Unset} :
     InBounds(y, n, s)}

OfYear(at, y) == [at EXCEPT ![TimeDim] = y]

SeriesRows(n, s) ==
  {<<c, y, Cell(c, OfYear(Coordinate(s), y))>> : c \in n.codes, y \in Years(n, s)}

ListRows(n, s) == {<<c, Cell(c, Coordinate(s))>> : c \in n.codes}

\* The coordinate of a metric: where overrides the page's dimensions.
Scoped(n, s) ==
  [d \in Dims |-> IF n.where[d] # Unset THEN n.where[d] ELSE s[dim(d)]]

\* enumerateGrainTuples(): members that have all grain dimensions and match the
\* scope elsewhere.
Members(n, s) ==
  {o \in Obs : /\ o.code \in n.codes
               /\ \A d \in n.by : o.at[d] # Unset
               /\ \A d \in Dims \ n.by :
                    Scoped(n, s)[d] # Unset => o.at[d] = Scoped(n, s)[d]
               /\ TimeDim \in n.by => InBounds(o.at[TimeDim], n, s)}

MetricRows(n, s) ==
  {<<o.code, [d \in n.by |-> o.at[d]],
     Cell(o.code, [d \in Dims |-> IF d \in n.by THEN o.at[d] ELSE Scoped(n, s)[d]])>> :
     o \in Members(n, s)}

Rows(n, s) ==
  CASE n.kind = "query" -> QueryRows(n, s)
    [] n.kind = "series" -> SeriesRows(n, s)
    [] n.kind = "list" -> ListRows(n, s)
    [] n.kind = "metric" -> MetricRows(n, s)
    [] OTHER -> {}

\* resolveDrill(): the level a metric is drilled to, in place of its own rows.
Level(n, s) ==
  IF n.kind = "metric" /\ n.drill # None THEN s[param(n.drill)] ELSE Unset

DrilledRows(n, s) == {<<c, Level(n, s), Cell(c, Scoped(n, s))>> : c \in n.codes}

\* resolveEncodingRefs() and resolvePipeRefs(): a dimension, else a variable.
Resolve(k, s) ==
  IF k \in Dims /\ s[dim(k)] # Unset THEN s[dim(k)]
  ELSE IF k \in Vars THEN s[var(k)] ELSE Unset

\* A metric's label, and what a $d step joins, is in every language until the end.
Localized(n) == n.kind = "metric" \/ n.joined

\* The cell a share is taken of: at the page's whole coordinate.
Share(n, s) == IF n.pctOf = None THEN {} ELSE Cell(n.pctOf, Coordinate(s))

resolveNodeRows(n, s) ==
  [rows |-> IF Level(n, s) = Unset THEN Rows(n, s) ELSE DrilledRows(n, s),
   refs |-> [k \in n.refs |-> Resolve(k, s)],
   share |-> Share(n, s), words |-> IF Localized(n) THEN s[locale] ELSE Unset]

\* evalVisibility(), when the page is rendered.
Visible(n, s) == n.when # None => s[param(n.when)] = n.is

\* What a node shows.
Derive(n, s) == [data |-> resolveNodeRows(n, s), visible |-> Visible(n, s)]

-----------------------------------------------------------------------------
\* The static analysis: extractDeps() and depsToSources().

\* scanObsQuery() and sweepRefs(): the dimension a $ctx names, and the filtered one.
scanFilter(filter) ==
  {dim(filter[d].ctx) : d \in {d \in Dims : filter[d].ctx # None}}
    \cup {dim(d) : d \in {d \in Dims : filter[d].ctx # None}}

addTimeBinding(n) == {dim(d) : d \in {n.from, n.to} \ {None}}

addAmbient == {dim(d) : d \in Ambient}

\* Deviation: the ambient coordinate is left out, as before it was supplied.
scanSpecTimeOnly(n) ==
  CASE n.kind = "query" ->
         scanFilter(n.filter) \cup addTimeBinding(n) \cup scanFilter(n.pipe)
    [] n.kind = "series" -> {dim(TimeDim)} \cup addTimeBinding(n)
    [] n.kind = "list" -> {dim(TimeDim)}
    [] n.kind = "metric" -> {dim(d) : d \in n.by} \cup addTimeBinding(n) \cup {locale}
    [] OTHER -> {}

scanSpec(n) ==
  CASE n.kind = "query" ->
         scanFilter(n.filter) \cup addTimeBinding(n) \cup scanFilter(n.pipe)
    [] n.kind = "series" -> {dim(TimeDim)} \cup addAmbient \cup addTimeBinding(n)
    [] n.kind = "list" -> {dim(TimeDim)} \cup addAmbient
    [] n.kind = "metric" ->
         {dim(d) : d \in n.by \cup {d \in Dims : n.where[d] # Unset}}
           \cup addTimeBinding(n) \cup addAmbient \cup {locale}
    [] OTHER -> {}

\* Deviation: a $ctx is taken for a dimension, as in a filter.
dualCtxDims(n) == {dim(k) : k \in n.refs \cap Dims}

\* dualCtx(): a $ctx of the encoding or of a sort may be a dimension or a variable.
dualCtx(n) ==
  {dim(k) : k \in n.refs \cap Dims} \cup {var(k) : k \in n.refs \cap Vars}

scanVisibility(n) == IF n.when = None THEN {} ELSE {param(n.when)}

extractDeps(n) ==
  scanSpec(n) \cup dualCtx(n) \cup scanVisibility(n)
    \cup (IF n.joined THEN {locale} ELSE {})

\* The nodes it is total for. The share of a list is at the whole coordinate anyway,
\* that of a query is not; actions are left out, and with them the parameter that a
\* drilled metric reads. See the README.
Analysable(n) == (n.pctOf # None => n.kind = "list") /\ n.drill = None
=============================================================================
