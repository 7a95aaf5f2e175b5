-------------------------- MODULE QueryGraphProofs --------------------------
(***************************************************************************)
(* Proofs about the query graph.  The lemma DepsAreTotal is the one the    *)
(* graph stands on: a node derives the same from two states that agree on  *)
(* the sources the analysis extracts from its spec.                        *)
(***************************************************************************)
EXTENDS QueryGraph, TLAPS

Agree(n, s, t) == \A x \in extractDeps(n) : s[x] = t[x]

LEMMA AmbientAgrees ==
  ASSUME NEW s \in GraphState, NEW t \in GraphState,
         \A x \in addAmbient : s[x] = t[x]
  PROVE  \A d \in Dims : s[dim(d)] = t[dim(d)]
<1> SUFFICES ASSUME NEW d \in Dims PROVE s[dim(d)] = t[dim(d)]
  OBVIOUS
<1>1. CASE d \in Ambient
  BY <1>1 DEF addAmbient
<1>2. CASE d \notin Ambient
  BY <1>2 DEF GraphState
<1> QED BY <1>1, <1>2

LEMMA AmbientCoordinate ==
  ASSUME NEW s \in GraphState, NEW t \in GraphState,
         \A x \in addAmbient : s[x] = t[x]
  PROVE  Coordinate(s) = Coordinate(t)
BY AmbientAgrees DEF Coordinate

LEMMA FilterAgrees ==
  ASSUME NEW s, NEW t, NEW filter \in [Dims -> Filter], NEW o,
         \A x \in scanFilter(filter) : s[x] = t[x]
  PROVE  matchesFilter(o, filter, s) <=> matchesFilter(o, filter, t)
<1>1. ASSUME NEW d \in Dims PROVE Allowed(filter[d], s) = Allowed(filter[d], t)
  <2>1. CASE filter[d].ctx = None
    BY <2>1 DEF Allowed
  <2>2. CASE filter[d].ctx # None
    <3>1. dim(filter[d].ctx) \in scanFilter(filter)
      BY <1>1, <2>2 DEF scanFilter
    <3> QED BY <2>2, <3>1 DEF Allowed
  <2> QED BY <2>1, <2>2
<1> QED BY <1>1 DEF matchesFilter

LEMMA BoundsAgree ==
  ASSUME NEW s, NEW t, NEW n, NEW y, \A x \in addTimeBinding(n) : s[x] = t[x]
  PROVE  InBounds(y, n, s) <=> InBounds(y, n, t)
<1>1. n.from # None => s[dim(n.from)] = t[dim(n.from)]
  BY DEF addTimeBinding
<1>2. n.to # None => s[dim(n.to)] = t[dim(n.to)]
  BY DEF addTimeBinding
<1> QED BY <1>1, <1>2 DEF InBounds

\* The rows of each kind of spec.
LEMMA RowsAgree ==
  ASSUME NEW n \in NodeSpec, NEW s \in GraphState, NEW t \in GraphState,
         \A x \in scanSpec(n) : s[x] = t[x]
  PROVE  Rows(n, s) = Rows(n, t)
<1> n.kind \in {"query", "series", "list", "metric", "rows"}
  BY DEF NodeSpec
<1> n.filter \in [Dims -> Filter] /\ n.pipe \in [Dims -> Filter]
  BY DEF NodeSpec
<1>1. CASE n.kind = "query"
  <2>1. scanSpec(n)
          = scanFilter(n.filter) \cup addTimeBinding(n) \cup scanFilter(n.pipe)
    BY <1>1 DEF scanSpec
  <2>2. \A o : matchesFilter(o, n.filter, s) <=> matchesFilter(o, n.filter, t)
    BY <2>1, FilterAgrees
  <2>3. \A o : matchesFilter(o, n.pipe, s) <=> matchesFilter(o, n.pipe, t)
    BY <2>1, FilterAgrees
  <2>4. \A y : InBounds(y, n, s) <=> InBounds(y, n, t)
    BY <2>1, BoundsAgree
  <2>5. QueryRows(n, s) = QueryRows(n, t)
    BY <2>2, <2>3, <2>4 DEF QueryRows
  <2> QED BY <1>1, <2>5 DEF Rows
<1>2. CASE n.kind = "series"
  <2>1. scanSpec(n) = {dim(TimeDim)} \cup addAmbient \cup addTimeBinding(n)
    BY <1>2 DEF scanSpec
  <2>2. Coordinate(s) = Coordinate(t)
    BY <2>1, AmbientCoordinate
  <2>3. \A y : InBounds(y, n, s) <=> InBounds(y, n, t)
    BY <2>1, BoundsAgree
  <2>4. Years(n, s) = Years(n, t)
    BY <2>3 DEF Years
  <2>5. SeriesRows(n, s) = SeriesRows(n, t)
    BY <2>2, <2>4 DEF SeriesRows
  <2> QED BY <1>2, <2>5 DEF Rows
<1>3. CASE n.kind = "list"
  <2>1. scanSpec(n) = {dim(TimeDim)} \cup addAmbient
    BY <1>3 DEF scanSpec
  <2>2. Coordinate(s) = Coordinate(t)
    BY <2>1, AmbientCoordinate
  <2> QED BY <1>3, <2>2 DEF Rows, ListRows
<1>4. CASE n.kind = "metric"
  <2>1. addTimeBinding(n) \subseteq scanSpec(n) /\ addAmbient \subseteq scanSpec(n)
    BY <1>4 DEF scanSpec
  <2>2. \A d \in Dims : s[dim(d)] = t[dim(d)]
    BY <2>1, AmbientAgrees
  <2>3. Scoped(n, s) = Scoped(n, t)
    BY <2>2 DEF Scoped
  <2>4. \A y : InBounds(y, n, s) <=> InBounds(y, n, t)
    BY <2>1, BoundsAgree
  <2>5. Members(n, s) = Members(n, t)
    BY <2>3, <2>4 DEF Members
  <2>6. MetricRows(n, s) = MetricRows(n, t)
    BY <2>3, <2>5 DEF MetricRows
  <2> QED BY <1>4, <2>6 DEF Rows
<1>5. CASE n.kind = "rows"
  BY <1>5 DEF Rows
<1> QED BY <1>1, <1>2, <1>3, <1>4, <1>5

\* extractDeps.ts: "the TOTAL set of state keys" a node reads. States that agree on the
\* extracted sources derive the same, for every node but a query with pct.of and a
\* drilled metric.
THEOREM DepsAreTotal ==
  ASSUME NEW n \in NodeSpec, Analysable(n),
         NEW s \in GraphState, NEW t \in GraphState, Agree(n, s, t)
  PROVE  Derive(n, s) = Derive(n, t)
<1>1. /\ \A x \in scanSpec(n) : s[x] = t[x]
      /\ \A x \in dualCtx(n) : s[x] = t[x]
      /\ \A x \in scanVisibility(n) : s[x] = t[x]
      /\ n.joined => s[locale] = t[locale]
  BY DEF Agree, extractDeps
<1>2. Rows(n, s) = Rows(n, t)
  BY <1>1, RowsAgree
<1>3. [k \in n.refs |-> Resolve(k, s)] = [k \in n.refs |-> Resolve(k, t)]
  <2>1. ASSUME NEW k \in n.refs PROVE Resolve(k, s) = Resolve(k, t)
    <3>1. k \in Dims => s[dim(k)] = t[dim(k)]
      BY <1>1, <2>1 DEF dualCtx
    <3>2. k \in Vars => s[var(k)] = t[var(k)]
      BY <1>1, <2>1 DEF dualCtx
    <3> QED BY <3>1, <3>2 DEF Resolve
  <2> QED BY <2>1
<1>4. Share(n, s) = Share(n, t)
  <2>1. CASE n.pctOf = None
    BY <2>1 DEF Share
  <2>2. CASE n.pctOf # None
    <3>1. addAmbient \subseteq scanSpec(n)
      BY <2>2 DEF scanSpec, Analysable
    <3>2. Coordinate(s) = Coordinate(t)
      BY <1>1, <3>1, AmbientCoordinate
    <3> QED BY <3>2 DEF Share
  <2> QED BY <2>1, <2>2
<1>5. Localized(n) => s[locale] = t[locale]
  <2>1. n.kind = "metric" => locale \in scanSpec(n)
    BY DEF scanSpec
  <2> QED BY <1>1, <2>1 DEF Localized
<1>6. Visible(n, s) = Visible(n, t)
  BY <1>1 DEF Visible, scanVisibility
<1>7. Level(n, s) = Unset /\ Level(n, t) = Unset
  BY DEF Level, Analysable
<1> QED BY <1>2, <1>3, <1>4, <1>5, <1>6, <1>7 DEF Derive, resolveNodeRows

-----------------------------------------------------------------------------

LEMMA SourcesAreSRC ==
  ASSUME NEW n \in NodeSpec
  PROVE  extractDeps(n) \subseteq SRC
<1> n.kind \in {"query", "series", "list", "metric", "rows"}
  BY DEF NodeSpec
<1>1. \A d \in Dims : dim(d) \in SRC
  BY DEF SRC
<1>2. \A filter \in [Dims -> Filter] : scanFilter(filter) \subseteq SRC
  <2> SUFFICES ASSUME NEW filter \in [Dims -> Filter], NEW d \in Dims,
                      filter[d].ctx # None
               PROVE  dim(filter[d].ctx) \in SRC
    BY <1>1 DEF scanFilter
  <2> filter[d].ctx \in Dims
    BY DEF Filter
  <2> QED BY <1>1
<1>3. addTimeBinding(n) \subseteq SRC
  BY <1>1 DEF addTimeBinding, NodeSpec
<1>4. addAmbient \subseteq SRC /\ dim(TimeDim) \in SRC /\ locale \in SRC
  BY <1>1, ConstantsOK DEF addAmbient, SRC
<1>5. dualCtx(n) \subseteq SRC
  BY DEF dualCtx, SRC
<1>6. scanVisibility(n) \subseteq SRC
  BY DEF scanVisibility, SRC, NodeSpec
<1>7. scanSpec(n) \subseteq SRC
  <2>1. CASE n.kind = "query"
    BY <1>2, <1>3, <2>1 DEF scanSpec, NodeSpec
  <2>2. CASE n.kind \in {"series", "list"}
    BY <1>3, <1>4, <2>2 DEF scanSpec
  <2>3. CASE n.kind = "metric"
    <3>1. n.by \cup {d \in Dims : n.where[d] # Unset} \subseteq Dims
      BY DEF NodeSpec
    <3> QED BY <1>1, <1>3, <1>4, <2>3, <3>1 DEF scanSpec
  <2>4. CASE n.kind = "rows"
    BY <2>4 DEF scanSpec
  <2> QED BY <2>1, <2>2, <2>3, <2>4
<1> QED BY <1>4, <1>5, <1>6, <1>7 DEF extractDeps

LEMMA Covered ==
  ASSUME NEW n \in Nodes
  PROVE  Node[n] \in NodeSpec /\ Analysable(Node[n])
BY ConstantsOK, NodesAreAnalysable

\* The cells that setState() leaves valid are those whose value is the same before and
\* after: shadow.ts, "NO UNDER-FIRE".
LEMMA NoUnderFire ==
  ASSUME state \in GraphState, NEW t \in GraphState,
         NEW n \in Nodes \ invalidate(diffState(state, t))
  PROVE  Derive(Node[n], t) = Current(n)
<1>1. sourcesOf[n] \cap diffState(state, t) = {}
  BY DEF invalidate
<1>2. sourcesOf[n] = extractDeps(Node[n])
  BY DEF sourcesOf
<1>3. \A x \in extractDeps(Node[n]) \cap SRC : state[x] = t[x]
  BY <1>1, <1>2 DEF diffState
<1>4. extractDeps(Node[n]) \subseteq SRC
  BY Covered, SourcesAreSRC
<1>5. Agree(Node[n], t, state)
  BY <1>3, <1>4 DEF Agree
<1> QED BY <1>5, Covered, DepsAreTotal DEF Current

\* The inductive invariant; both parts are invariants of the run.
IInv == TypeOK /\ MemoIsCurrent

LEMMA IInvHolds == Spec => []IInv
<1>1. Init => IInv
  BY DEF Init, IInv, TypeOK, MemoIsCurrent, NoAnswer
<1>2. IInv /\ [Next]_vars => IInv'
  <2> SUFFICES ASSUME IInv, [Next]_vars PROVE IInv'
    OBVIOUS
  <2> USE DEF IInv
  <2>1. ASSUME NEW t \in GraphState, SetState(t) PROVE IInv'
    <3>1. ASSUME NEW n \in valid' PROVE memo'[n] = Derive(Node[n], t)
      <4>1. n \in Nodes \ invalidate(diffState(state, t)) /\ n \in valid
        BY <2>1, <3>1 DEF SetState, TypeOK
      <4>2. memo'[n] = memo[n]
        BY <2>1, <4>1 DEF SetState, Forget
      <4>3. Derive(Node[n], t) = Current(n)
        BY <4>1, NoUnderFire DEF TypeOK
      <4> QED BY <4>1, <4>2, <4>3 DEF MemoIsCurrent
    <3>2. state' = t /\ valid' \subseteq Nodes /\ answer' = NoAnswer
      BY <2>1 DEF SetState, TypeOK
    <3>3. MemoIsCurrent'
      BY <3>1, <3>2 DEF MemoIsCurrent, Current
    <3>4. \A n \in valid' : memo'[n] \in ValuesOf[n]
      BY <3>1, <3>2 DEF ValuesOf
    <3> QED BY <3>2, <3>3, <3>4 DEF TypeOK, NoAnswer
  <2>2. ASSUME NEW N \in SUBSET Nodes, Fill(N), answer'.node \in Nodes \cup {None}
        PROVE  IInv'
    <3>1. ASSUME NEW n \in valid' PROVE memo'[n] = Current(n)
      <4>1. n \in Nodes
        BY <2>2, <3>1 DEF Fill, TypeOK
      <4>2. CASE n \in valid
        BY <2>2, <4>1, <4>2 DEF Fill, MemoIsCurrent
      <4>3. CASE n \notin valid
        BY <2>2, <3>1, <4>1, <4>3 DEF Fill
      <4> QED BY <4>2, <4>3
    <3>2. state' = state /\ valid' \subseteq Nodes
      BY <2>2 DEF Fill, TypeOK
    <3>3. MemoIsCurrent'
      BY <3>1, <3>2 DEF MemoIsCurrent, Current
    <3>4. \A n \in valid' : memo'[n] \in ValuesOf[n]
      BY <3>1, <3>2 DEF ValuesOf, Current, TypeOK
    <3> QED BY <2>2, <3>2, <3>3, <3>4 DEF TypeOK
  <2>3. ASSUME NEW n \in Nodes, Get(n) PROVE IInv'
    BY <2>2, <2>3 DEF Get
  <2>4. CASE EvaluateAll
    BY <2>2, <2>4 DEF EvaluateAll, NoAnswer
  <2>5. CASE UNCHANGED vars
    BY <2>5 DEF vars, TypeOK, MemoIsCurrent, Current
  <2> QED BY <2>1, <2>3, <2>4, <2>5 DEF Next
<1> QED BY <1>1, <1>2, PTL DEF Spec

\* The page's state, the valid cells and their values have their types.
THEOREM TypeOKAlways == Spec => []TypeOK
<1>1. IInv => TypeOK
  BY DEF IInv
<1> QED BY <1>1, IInvHolds, PTL

\* A memo that get() would serve is what its node derives from the state of now.
THEOREM MemoIsCurrentAlways == Spec => []MemoIsCurrent
<1>1. IInv => MemoIsCurrent
  BY DEF IInv
<1> QED BY <1>1, IInvHolds, PTL

\* The graph implements the current path: value parity for every page, every state and
\* every order of writes and reads.
THEOREM GraphImplementsOracle == Spec => ImplementsOracle
<1>1. Init => Oracle!Init
  BY DEF Init, Oracle!Init, NoAnswer, Oracle!NoAnswer
<1>2. IInv /\ [Next]_vars => [Oracle!Next]_<<state, answer>>
  <2> SUFFICES ASSUME IInv, [Next]_vars PROVE [Oracle!Next]_<<state, answer>>
    OBVIOUS
  <2>1. ASSUME NEW t \in GraphState, SetState(t) PROVE Oracle!Change
    BY <2>1 DEF SetState, Oracle!Change, NoAnswer, Oracle!NoAnswer
  <2>2. ASSUME NEW n \in Nodes, Get(n) PROVE Oracle!Read(n)
    <3>1. memo'[n] = Current(n)
      BY <2>2 DEF Get, Fill, IInv, MemoIsCurrent
    <3> QED BY <2>2, <3>1 DEF Get, Fill, Current, Shown, IInv, TypeOK, Oracle!Read
  <2>3. ASSUME EvaluateAll PROVE Oracle!Change
    BY <2>3 DEF EvaluateAll, Fill, IInv, TypeOK, Oracle!Change, NoAnswer, Oracle!NoAnswer
  <2>4. CASE UNCHANGED vars
    BY <2>4 DEF vars
  <2> QED BY <2>1, <2>2, <2>3, <2>4 DEF Next, Oracle!Next
<1> QED BY <1>1, <1>2, IInvHolds, PTL DEF Spec, Oracle!Spec, ImplementsOracle
=============================================================================
