--------------------------- MODULE NodeRowsProofs ---------------------------
(***************************************************************************)
(* Proofs about NodeRows: for keyed nodes the key of the promise cache     *)
(* determines the rows, so what a node shows is of now, for every page,    *)
(* set of nodes, size of the cache and history.                            *)
(***************************************************************************)
EXTENDS NodeRowsKeys, TLAPS

LEMMA QueryKeyNames ==
  ASSUME NEW n \in NodeSpec, NEW s \in GraphState, NEW t \in GraphState,
         n.kind = "query", Keyed(n), Dated(n, s),
         specDimKey(n, s) = specDimKey(n, t), NEW r \in Dims, InKey(n, r)
  PROVE  s[dim(r)] = t[dim(r)]
<1>1. PICK c \in n.codes : TRUE
  BY DEF Keyed
<1>2. PICK y \in queryYears(n, s) : TRUE
  <2>1. CASE Unfiltered(n.filter[TimeDim])
    BY <2>1 DEF queryYears
  <2>2. CASE ~Unfiltered(n.filter[TimeDim]) /\ n.filter[TimeDim].ctx # None
    BY <2>2 DEF queryYears, Named, Dated
  <2>3. CASE ~Unfiltered(n.filter[TimeDim]) /\ n.filter[TimeDim].ctx = None
    <3>1. n.filter[TimeDim].values \ {Unset} # {}
      BY <2>3 DEF Keyed
    <3> QED BY <2>3, <3>1 DEF queryYears, Named
  <2> QED BY <2>1, <2>2, <2>3
<1>3. <<c, OfYear(Pinned(n, s), y)>> \in queryRequirements(n, t)
  <2>1. <<c, OfYear(Pinned(n, s), y)>> \in queryRequirements(n, s)
    BY DEF queryRequirements
  <2>2. queryRequirements(n, s) = specDimKey(n, s) /\ queryRequirements(n, t) = specDimKey(n, t)
    BY DEF specDimKey, extractRequirements
  <2> QED BY <2>1, <2>2
<1>4. PICK c2 \in n.codes, y2 \in queryYears(n, t) :
        <<c, OfYear(Pinned(n, s), y)>>
          = <<c2, OfYear(Pinned(n, t), y2)>>
  BY <1>3 DEF queryRequirements
<1>5. OfYear(Pinned(n, s), y) = OfYear(Pinned(n, t), y2)
  BY <1>4
<1>6. CASE r = TimeDim
  <2>1. y = y2
    BY <1>5, ConstantsOK DEF Pinned, OfYear
  <2>2. y = s[dim(r)] /\ y2 = t[dim(r)]
    BY <1>2, <1>4, <1>6, ConstantsOK DEF InKey, Named, queryYears
  <2> QED BY <2>1, <2>2
<1>7. CASE r # TimeDim
  <2>1. Pinned(n, s)[r] = Pinned(n, t)[r]
    BY <1>5, <1>7 DEF Pinned, OfYear
  <2>2. ASSUME NEW u \in GraphState PROVE Pinned(n, u)[r] = u[dim(r)]
    <3>1. u[dim(r)] \in Values
      BY DEF GraphState, SRC
    <3>2. CASE n.filter[r].ctx = r
      <4>1. Named(n.filter[r], u) = {u[dim(r)]}
        BY <3>2, ConstantsOK DEF Named
      <4> QED BY <3>1, <4>1 DEF Pinned
    <3>3. CASE n.filter[r].ctx = None /\ n.filter[r].values = {}
      <4>1. Named(n.filter[r], u) = {}
        BY <3>3 DEF Named
      <4> QED BY <4>1 DEF Pinned
    <3> QED BY <3>2, <3>3 DEF InKey, Unfiltered
  <2> QED BY <2>1, <2>2
<1> QED BY <1>6, <1>7

LEMMA SeriesKeyNames ==
  ASSUME NEW n \in NodeSpec, NEW s \in GraphState, NEW t \in GraphState,
         n.kind = "series", Keyed(n),
         specDimKey(n, s) = specDimKey(n, t), NEW r \in Dims \ {TimeDim}
  PROVE  s[dim(r)] = t[dim(r)]
<1>0. seriesYears(n) # {}
  BY DEF seriesYears
<1>1. PICK c \in n.codes, y \in seriesYears(n) : TRUE
  BY <1>0 DEF Keyed
<1>2. <<c, OfYear(Coordinate(s), y)>> \in seriesRequirements(n, t)
  <2>1. <<c, OfYear(Coordinate(s), y)>> \in seriesRequirements(n, s)
    BY DEF seriesRequirements
  <2>2. seriesRequirements(n, s) = specDimKey(n, s) /\ seriesRequirements(n, t) = specDimKey(n, t)
    BY DEF specDimKey, extractRequirements
  <2> QED BY <2>1, <2>2
<1>3. PICK c2 \in n.codes, y2 \in seriesYears(n) :
        <<c, OfYear(Coordinate(s), y)>>
          = <<c2, OfYear(Coordinate(t), y2)>>
  BY <1>2 DEF seriesRequirements
<1>4. OfYear(Coordinate(s), y) = OfYear(Coordinate(t), y2)
  BY <1>3
<1> QED BY <1>4 DEF Coordinate, OfYear

LEMMA ListKeyNames ==
  ASSUME NEW n \in NodeSpec, NEW s \in GraphState, NEW t \in GraphState,
         n.kind = "list", Keyed(n), specDimKey(n, s) = specDimKey(n, t)
  PROVE  Coordinate(s) = Coordinate(t)
<1>1. PICK c \in n.codes : TRUE
  BY DEF Keyed
<1>2. <<c, Coordinate(s)>> \in specDimKey(n, t)
  BY <1>1 DEF specDimKey, extractRequirements, listRequirements
<1>3. PICK c2 : <<c, Coordinate(s)>> = <<c2, Coordinate(t)>>
  BY <1>2 DEF specDimKey, extractRequirements, listRequirements
<1> QED BY <1>3

LEMMA MetricKeyNames ==
  ASSUME NEW n \in NodeSpec, NEW s \in GraphState, NEW t \in GraphState,
         n.kind = "metric", Keyed(n), specDimKey(n, s) = specDimKey(n, t),
         NEW r \in Dims, r \notin n.by, n.where[r] = Unset
  PROVE  s[dim(r)] = t[dim(r)]
<1> DEFINE At(u) == [d \in Dims |-> IF n.where[d] # Unset THEN n.where[d]
                                    ELSE IF d \in n.by THEN Unset ELSE u[dim(d)]]
<1>1. PICK c \in n.codes : TRUE
  BY DEF Keyed
<1>2. <<c, At(s)>> \in specDimKey(n, t)
  BY <1>1 DEF specDimKey, extractRequirements, metricRequirements
<1>3. PICK c2 \in n.codes : <<c, At(s)>> = <<c2, At(t)>>
  BY <1>2 DEF specDimKey, extractRequirements, metricRequirements
<1>4. At(s)[r] = At(t)[r]
  BY <1>3
<1> QED BY <1>4

\* The dimensions a keyed node reads beside its requests have the same value.
LEMMA ReadsAgree ==
  ASSUME NEW n \in NodeSpec, NEW s \in GraphState, NEW t \in GraphState,
         Keyed(n), Dated(n, s), specDimKey(n, s) = specDimKey(n, t),
         NEW r \in Reads(n), r \in Dims
  PROVE  s[dim(r)] = t[dim(r)]
<1>1. InKey(n, r)
  BY DEF Keyed
<1>2. CASE n.kind = "query"
  BY <1>1, <1>2, QueryKeyNames
<1>3. CASE n.kind = "series"
  BY <1>1, <1>3, SeriesKeyNames DEF InKey
<1>4. CASE n.kind = "list"
  BY <1>4, ListKeyNames DEF Coordinate
<1>5. CASE n.kind = "metric"
  BY <1>1, <1>5, MetricKeyNames DEF InKey
<1>6. CASE n.kind = "rows"
  BY <1>1, <1>6 DEF InKey
<1> QED BY <1>2, <1>3, <1>4, <1>5, <1>6 DEF NodeSpec

LEMMA FilterAgree ==
  ASSUME NEW s, NEW t, NEW filter \in [Dims -> Filter], NEW o,
         \A d \in Dims : filter[d].ctx # None =>
           s[dim(filter[d].ctx)] = t[dim(filter[d].ctx)]
  PROVE  matchesFilter(o, filter, s) <=> matchesFilter(o, filter, t)
<1>1. ASSUME NEW d \in Dims PROVE Allowed(filter[d], s) = Allowed(filter[d], t)
  BY DEF Allowed
<1> QED BY <1>1 DEF matchesFilter

\* The rows of each kind of spec, without its transforms and its encoding.
LEMMA RowsAgree ==
  ASSUME NEW n \in NodeSpec, NEW s \in GraphState, NEW t \in GraphState,
         Keyed(n), Dated(n, s), specDimKey(n, s) = specDimKey(n, t)
  PROVE  Rows(n, s) = Rows(n, t)
<1>1. /\ n.kind \in {"query", "series", "list", "metric", "rows"}
      /\ n.filter \in [Dims -> Filter] /\ n.pipe \in [Dims -> Filter]
      /\ n.from \in Dims \cup {None} /\ n.to \in Dims \cup {None}
  BY DEF NodeSpec
<1>2. \A y : InBounds(y, n, s) <=> InBounds(y, n, t)
  <2>1. n.from # None => s[dim(n.from)] = t[dim(n.from)]
    BY <1>1, ReadsAgree DEF Reads
  <2>2. n.to # None => s[dim(n.to)] = t[dim(n.to)]
    BY <1>1, ReadsAgree DEF Reads
  <2> QED BY <2>1, <2>2 DEF InBounds
<1>3. CASE n.kind = "query"
  <2>1. ASSUME NEW d \in Dims, n.filter[d].ctx # None
        PROVE  s[dim(n.filter[d].ctx)] = t[dim(n.filter[d].ctx)]
    <3>1. n.filter[d].ctx \in Dims \cap Reads(n)
      BY <1>1, <2>1 DEF Filter, Reads
    <3> QED BY <3>1, ReadsAgree
  <2>2. ASSUME NEW d \in Dims, n.pipe[d].ctx # None
        PROVE  s[dim(n.pipe[d].ctx)] = t[dim(n.pipe[d].ctx)]
    <3>1. n.pipe[d].ctx \in Dims \cap Reads(n)
      BY <1>1, <2>2 DEF Filter, Reads
    <3> QED BY <3>1, ReadsAgree
  <2>3. \A o : matchesFilter(o, n.filter, s) <=> matchesFilter(o, n.filter, t)
    BY <1>1, <2>1, FilterAgree
  <2>4. \A o : matchesFilter(o, n.pipe, s) <=> matchesFilter(o, n.pipe, t)
    BY <1>1, <2>2, FilterAgree
  <2>5. QueryRows(n, s) = QueryRows(n, t)
    BY <1>2, <2>3, <2>4 DEF QueryRows
  <2> QED BY <1>3, <2>5 DEF Rows
<1>4. CASE n.kind = "series"
  <2>1. ASSUME NEW y PROVE OfYear(Coordinate(s), y) = OfYear(Coordinate(t), y)
    <3>1. \A r \in Dims \ {TimeDim} : s[dim(r)] = t[dim(r)]
      BY <1>4, SeriesKeyNames
    <3> QED BY <3>1 DEF OfYear, Coordinate
  <2>2. Years(n, s) = Years(n, t)
    BY <1>2 DEF Years
  <2>3. SeriesRows(n, s) = SeriesRows(n, t)
    BY <2>1, <2>2 DEF SeriesRows
  <2> QED BY <1>4, <2>3 DEF Rows
<1>5. CASE n.kind = "list"
  BY <1>5, ListKeyNames DEF Rows, ListRows
<1>6. CASE n.kind = "metric"
  <2>1. ASSUME NEW d \in Dims, d \notin n.by PROVE Scoped(n, s)[d] = Scoped(n, t)[d]
    BY <1>6, <2>1, MetricKeyNames DEF Scoped
  <2>2. Members(n, s) = Members(n, t)
    BY <1>2, <2>1 DEF Members
  <2>3. ASSUME NEW o
        PROVE  [d \in Dims |-> IF d \in n.by THEN o.at[d] ELSE Scoped(n, s)[d]]
                 = [d \in Dims |-> IF d \in n.by THEN o.at[d] ELSE Scoped(n, t)[d]]
    BY <2>1
  <2>4. MetricRows(n, s) = MetricRows(n, t)
    BY <2>2, <2>3 DEF MetricRows
  <2> QED BY <1>6, <2>4 DEF Rows
<1>7. CASE n.kind = "rows"
  BY <1>7 DEF Rows
<1> QED BY <1>1, <1>3, <1>4, <1>5, <1>6, <1>7

\* One node in two states with the same requests, variables and language.
LEMMA StateAgrees ==
  ASSUME NEW n \in NodeSpec, NEW s \in GraphState, NEW t \in GraphState,
         Keyed(n), Dated(n, s), specDimKey(n, s) = specDimKey(n, t),
         varsKey(s) = varsKey(t), s[locale] = t[locale]
  PROVE  resolveNodeRows(n, s) = resolveNodeRows(n, t)
<1>1. Level(n, s) = Unset /\ Level(n, t) = Unset
  BY DEF Keyed, Level
<1>2. Rows(n, s) = Rows(n, t)
  BY RowsAgree
<1>3. ASSUME NEW k \in n.refs PROVE Resolve(k, s) = Resolve(k, t)
  <2>1. k \in Dims => s[dim(k)] = t[dim(k)]
    BY ReadsAgree DEF Reads
  <2>2. k \in Vars => s[var(k)] = t[var(k)]
    BY DEF varsKey
  <2> QED BY <2>1, <2>2 DEF Resolve
<1>4. Share(n, s) = Share(n, t)
  <2>1. CASE n.pctOf = None
    BY <2>1 DEF Share
  <2>2. CASE n.pctOf # None
    <3>1. \A d \in Dims : s[dim(d)] = t[dim(d)]
      BY <2>2, ReadsAgree DEF Reads
    <3>2. Coordinate(s) = Coordinate(t)
      BY <3>1 DEF Coordinate
    <3> QED BY <3>2 DEF Share
  <2> QED BY <2>1, <2>2
<1>5. [k \in n.refs |-> Resolve(k, s)] = [k \in n.refs |-> Resolve(k, t)]
  BY <1>3
<1> QED BY <1>1, <1>2, <1>4, <1>5 DEF resolveNodeRows

\* What a node shows hangs on its recipe only.
LEMMA RecipeFields ==
  ASSUME NEW n \in NodeSpec
  PROVE  /\ nodeRecipeKey(n) \in NodeSpec
         /\ nodeRecipeKey(n).kind = n.kind /\ nodeRecipeKey(n).codes = n.codes
         /\ nodeRecipeKey(n).filter = n.filter /\ nodeRecipeKey(n).pipe = n.pipe
         /\ nodeRecipeKey(n).from = n.from /\ nodeRecipeKey(n).to = n.to
         /\ nodeRecipeKey(n).coords = n.coords /\ nodeRecipeKey(n).by = n.by
         /\ nodeRecipeKey(n).where = n.where /\ nodeRecipeKey(n).refs = n.refs
         /\ nodeRecipeKey(n).pctOf = n.pctOf /\ nodeRecipeKey(n).joined = n.joined
         /\ nodeRecipeKey(n).drill = None
BY ConstantsOK DEF nodeRecipeKey, NodeSpec

LEMMA RecipeAgrees ==
  ASSUME NEW n \in NodeSpec, Keyed(n), NEW s
  PROVE  /\ resolveNodeRows(nodeRecipeKey(n), s) = resolveNodeRows(n, s)
         /\ specDimKey(nodeRecipeKey(n), s) = specDimKey(n, s)
         /\ Keyed(nodeRecipeKey(n))
         /\ Dated(nodeRecipeKey(n), s) <=> Dated(n, s)
<1> DEFINE r == nodeRecipeKey(n)
<1>1. n.drill = None
  BY DEF Keyed
<1>2. Rows(r, s) = Rows(n, s)
  <2>1. \A y : InBounds(y, r, s) <=> InBounds(y, n, s)
    BY RecipeFields DEF InBounds
  <2>2. QueryRows(r, s) = QueryRows(n, s)
    BY <2>1, RecipeFields DEF QueryRows
  <2>3. Years(r, s) = Years(n, s)
    BY <2>1, RecipeFields DEF Years
  <2>4. SeriesRows(r, s) = SeriesRows(n, s)
    BY <2>3, RecipeFields DEF SeriesRows
  <2>5. ListRows(r, s) = ListRows(n, s)
    BY RecipeFields DEF ListRows
  <2>6. Scoped(r, s) = Scoped(n, s)
    BY RecipeFields DEF Scoped
  <2>7. Members(r, s) = Members(n, s)
    BY <2>1, <2>6, RecipeFields DEF Members
  <2>8. MetricRows(r, s) = MetricRows(n, s)
    BY <2>6, <2>7, RecipeFields DEF MetricRows
  <2> QED BY <2>2, <2>4, <2>5, <2>8, RecipeFields DEF Rows
<1>3. Level(r, s) = Unset /\ Level(n, s) = Unset
  BY <1>1, RecipeFields DEF Level
<1>4. Share(r, s) = Share(n, s) /\ Localized(r) = Localized(n)
  BY RecipeFields DEF Share, Localized
<1>5. resolveNodeRows(r, s) = resolveNodeRows(n, s)
  BY <1>2, <1>3, <1>4, RecipeFields DEF resolveNodeRows
<1>6. specDimKey(r, s) = specDimKey(n, s)
  <2>1. Pinned(r, s) = Pinned(n, s) /\ queryYears(r, s) = queryYears(n, s)
    BY RecipeFields DEF Pinned, queryYears
  <2>2. queryRequirements(r, s) = queryRequirements(n, s)
    BY <2>1, RecipeFields DEF queryRequirements
  <2>3. seriesRequirements(r, s) = seriesRequirements(n, s)
    BY RecipeFields DEF seriesRequirements, seriesYears
  <2>4. listRequirements(r, s) = listRequirements(n, s)
    BY RecipeFields DEF listRequirements
  <2>5. metricRequirements(r, s) = metricRequirements(n, s)
    BY RecipeFields DEF metricRequirements
  <2> QED BY <2>2, <2>3, <2>4, <2>5, RecipeFields DEF specDimKey, extractRequirements
<1>7. Keyed(r)
  <2>1. Reads(r) = Reads(n)
    BY RecipeFields DEF Reads
  <2>2. \A d : InKey(r, d) <=> InKey(n, d)
    BY RecipeFields DEF InKey
  <2> QED BY <2>1, <2>2, RecipeFields DEF Keyed
<1>8. Dated(r, s) <=> Dated(n, s)
  BY RecipeFields DEF Dated
<1> QED BY <1>5, <1>6, <1>7, <1>8

\* Equal keys have equal rows, whichever nodes and states they are of.
THEOREM KeyDeterminesRows ==
  ASSUME NEW m \in NodeSpec, NEW n \in NodeSpec, NEW g, NEW h,
         NEW s \in GraphState, NEW t \in GraphState,
         Keyed(m), Keyed(n), Dated(m, s), cacheKey(m, s, g) = cacheKey(n, t, h)
  PROVE  g = h /\ resolveNodeRows(m, s) = resolveNodeRows(n, t)
<1> DEFINE r == nodeRecipeKey(m)
<1>1. /\ r = nodeRecipeKey(n) /\ specDimKey(m, s) = specDimKey(n, t)
      /\ varsKey(s) = varsKey(t) /\ s[locale] = t[locale] /\ g = h
  BY DEF cacheKey
<1>2. r \in NodeSpec
  BY RecipeFields
<1>3. /\ resolveNodeRows(r, s) = resolveNodeRows(m, s) /\ Keyed(r) /\ Dated(r, s)
      /\ specDimKey(r, s) = specDimKey(m, s)
  BY RecipeAgrees
<1>4. /\ resolveNodeRows(r, t) = resolveNodeRows(n, t)
      /\ specDimKey(r, t) = specDimKey(n, t)
  BY <1>1, RecipeAgrees
<1>5. resolveNodeRows(r, s) = resolveNodeRows(r, t)
  BY <1>1, <1>2, <1>3, <1>4, StateAgrees
<1> QED BY <1>1, <1>3, <1>4, <1>5

-----------------------------------------------------------------------------
LEMMA Tables ==
  ASSUME NEW n \in Nodes, NEW p \in Pages, NEW g \in 1..Stores
  PROVE  /\ KeyOf[n][p][g] = cacheKey(Node[n], PageState[p], g)
         /\ RowsOf[n][p] = resolveNodeRows(Node[n], PageState[p])
         /\ Node[n] \in NodeSpec /\ PageState[p] \in GraphState
BY ConstantsOK, BoundsOK DEF KeyOf, RowsOf

LEMMA SettledIsView ==
  \A p \in Promise : [mode |-> "settled", by |-> p] \in View
BY DEF View

LEMMA BlankIsView ==
  Blank \in View /\ [mode |-> "suspended", by |-> None] \in View
BY DEF Blank, View

\* A promise was asked for by a node that its page shows.
Sound(p) == Visible(Node[p.node], PageState[p.at])

\* What a settled node shows has the key the node has now, but for an error that lasts.
SettledByItsKey ==
  \A n \in Nodes : view[n].mode = "settled" =>
    /\ view[n].by \in Promise
    /\ (Failed(n) => n \notin Lasting) =>
         /\ Sound(view[n].by)
         /\ KeyOfPromise(view[n].by) = KeyOf[n][page][store]

IInv ==
  /\ TypeOK
  /\ \A i \in DOMAIN cache : Sound(cache[i])
  /\ SettledByItsKey

LEMMA InsertKeeps ==
  ASSUME TypeOK, \A i \in DOMAIN cache : Sound(cache[i]),
         NEW p \in Promise, Sound(p)
  PROVE  /\ Insert(p) \in Seq(Promise) /\ Len(Insert(p)) <= CacheMax
         /\ \A i \in DOMAIN Insert(p) : Sound(Insert(p)[i])
<1>1. CASE Len(cache) >= CacheMax
  <2>1. cache # <<>> /\ Tail(cache) \in Seq(Promise) /\ Len(Tail(cache)) = Len(cache) - 1
    BY <1>1, BoundsOK DEF TypeOK
  <2>2. \A i \in 1..Len(Tail(cache)) : Tail(cache)[i] = cache[i + 1]
    BY <2>1 DEF TypeOK
  <2>3. \A i \in 1..Len(Tail(cache)) : Sound(Tail(cache)[i])
    BY <2>1, <2>2 DEF TypeOK
  <2>4. Insert(p) = Append(Tail(cache), p)
    BY <1>1 DEF Insert
  <2>5. /\ Insert(p) \in Seq(Promise) /\ Len(Insert(p)) = Len(cache)
        /\ \A i \in DOMAIN Insert(p) :
             Insert(p)[i] = p \/ (i \in 1..Len(Tail(cache)) /\ Insert(p)[i] = Tail(cache)[i])
    BY <2>1, <2>4 DEF TypeOK
  <2> QED BY <2>3, <2>5 DEF TypeOK
<1>2. CASE ~(Len(cache) >= CacheMax)
  <2>1. Insert(p) = Append(cache, p)
    BY <1>2 DEF Insert
  <2>2. /\ Insert(p) \in Seq(Promise) /\ Len(Insert(p)) = Len(cache) + 1
        /\ \A i \in DOMAIN Insert(p) :
             Insert(p)[i] = p \/ (i \in DOMAIN cache /\ Insert(p)[i] = cache[i])
    BY <2>1 DEF TypeOK
  <2> QED BY <1>2, <2>2, BoundsOK DEF TypeOK
<1> QED BY <1>1, <1>2

LEMMA Start ==
  Init => IInv
<1> SUFFICES ASSUME Init PROVE IInv
  OBVIOUS
<1>1. TypeOK
  BY BoundsOK, BlankIsView DEF Init, TypeOK
<1>2. \A n \in Nodes : view[n].mode = "mounted"
  BY DEF Init, Blank
<1> QED BY <1>1, <1>2 DEF Init, IInv, SettledByItsKey

LEMMA MovePreserves ==
  ASSUME IInv, NEW p \in Pages, NEW g \in 1..Stores, Move(p, g)
  PROVE  IInv'
<1>1. /\ view' = [n \in Nodes |-> IF Keeps(n, p) THEN view[n] ELSE Blank]
      /\ page' = p /\ store' = g /\ cache' = cache /\ moves' \in 0..MaxMoves
  BY BoundsOK DEF Move, IInv, TypeOK
<1>2. TypeOK'
  BY <1>1, BlankIsView DEF IInv, TypeOK
<1>3. ASSUME NEW n \in Nodes, view'[n].mode = "settled"
      PROVE  view'[n].by \in Promise /\ view'[n].by.phase = "failed" /\ n \in Lasting
  <2>1. view'[n] = view[n] /\ Keeps(n, p)
    BY <1>1, <1>3 DEF Blank
  <2> QED BY <2>1 DEF Keeps, Failed, IInv, SettledByItsKey
<1>4. SettledByItsKey'
  BY <1>3 DEF SettledByItsKey, Failed
<1> QED BY <1>1, <1>2, <1>4 DEF IInv

LEMMA RenderPreserves ==
  ASSUME IInv, NEW n \in Nodes, Render(n)
  PROVE  IInv'
<1>1. CASE RenderSettled(n)
  <2>1. PICK i \in Cached(n) :
          /\ view' = [view EXCEPT ![n] = [mode |-> "settled", by |-> cache[i]]]
          /\ UNCHANGED <<page, store, moves, cache>>
    BY <1>1 DEF RenderSettled, Put
  <2>2. /\ i \in DOMAIN cache /\ cache[i] \in Promise
        /\ KeyOfPromise(cache[i]) = KeyOf[n][page][store]
    BY DEF Cached, IInv, TypeOK
  <2>3. TypeOK'
    BY <2>1, <2>2, SettledIsView DEF IInv, TypeOK
  <2>4. ASSUME NEW k \in Nodes, view'[k].mode = "settled"
        PROVE  /\ view'[k].by \in Promise
               /\ (Failed(k)' => k \notin Lasting) =>
                    /\ Sound(view'[k].by)
                    /\ KeyOfPromise(view'[k].by) = KeyOf[k][page][store]
    <3>1. CASE k = n
      BY <2>1, <2>2, <3>1 DEF IInv, TypeOK
    <3>2. CASE k # n
      BY <2>1, <2>4, <3>2 DEF IInv, TypeOK, SettledByItsKey, Failed
    <3> QED BY <3>1, <3>2
  <2> QED BY <2>1, <2>3, <2>4 DEF IInv, SettledByItsKey, Failed
<1>2. CASE Suspend(n) /\ cache' \in Seq(Promise) /\ Len(cache') <= CacheMax
             /\ \A i \in DOMAIN cache' : Sound(cache'[i])
  <2>1. /\ view' = [view EXCEPT ![n] = [mode |-> "suspended", by |-> None]]
        /\ UNCHANGED <<page, store, moves>>
    BY <1>2 DEF Suspend, Put
  <2>2. TypeOK'
    BY <1>2, <2>1, BlankIsView DEF IInv, TypeOK
  <2>3. ASSUME NEW k \in Nodes, view'[k].mode = "settled"
        PROVE  k # n /\ view'[k] = view[k]
    BY <2>1, <2>3 DEF IInv, TypeOK
  <2> QED BY <1>2, <2>1, <2>2, <2>3 DEF IInv, SettledByItsKey, Failed
<1>3. CASE RenderWaiting(n)
  BY <1>2, <1>3 DEF RenderWaiting, IInv, TypeOK
<1>4. CASE RenderMiss(n)
  <2>1. Asked(n) \in Promise /\ Sound(Asked(n))
    BY <1>4 DEF RenderMiss, CanRender, Shows, Asked, Promise, Sound, IInv, TypeOK
  <2> QED BY <1>2, <1>4, <2>1, InsertKeeps DEF RenderMiss, IInv
<1> QED BY <1>1, <1>3, <1>4 DEF Render

LEMMA AnswerPreserves ==
  ASSUME IInv, NEW i \in DOMAIN cache, Answer(i)
  PROVE  IInv'
<1>1. PICK f \in {"ok", "failed"} :
        /\ cache' = [cache EXCEPT ![i] = [cache[i] EXCEPT !.phase = f]]
        /\ UNCHANGED <<page, store, view, moves>>
  BY DEF Answer, Settle
<1>2. cache[i] \in Promise /\ cache \in Seq(Promise)
  BY DEF IInv, TypeOK
<1>3. /\ [cache[i] EXCEPT !.phase = f] \in Promise
      /\ [cache[i] EXCEPT !.phase = f].node = cache[i].node
      /\ [cache[i] EXCEPT !.phase = f].at = cache[i].at
  BY <1>2 DEF Promise
<1>4. /\ cache' \in Seq(Promise) /\ Len(cache') = Len(cache) /\ DOMAIN cache' = DOMAIN cache
      /\ \A j \in DOMAIN cache : j # i => cache'[j] = cache[j]
      /\ cache'[i] = [cache[i] EXCEPT !.phase = f]
  BY <1>1, <1>2, <1>3
<1>5. \A j \in DOMAIN cache' : Sound(cache'[j])
  BY <1>3, <1>4 DEF IInv, Sound
<1>6. TypeOK'
  BY <1>1, <1>4 DEF IInv, TypeOK
<1>7. SettledByItsKey'
  BY <1>1 DEF IInv, SettledByItsKey, Failed
<1> QED BY <1>5, <1>6, <1>7 DEF IInv

LEMMA RetryPreserves ==
  ASSUME IInv, NEW n \in Nodes, Retry(n)
  PROVE  IInv'
<1>1. view' = [view EXCEPT ![n] = Blank] /\ UNCHANGED <<page, store, moves, cache>>
  BY DEF Retry, Put
<1>2. TypeOK'
  BY <1>1, BlankIsView DEF IInv, TypeOK
<1>3. ASSUME NEW k \in Nodes, view'[k].mode = "settled"
      PROVE  view'[k] = view[k]
  BY <1>1, <1>3 DEF IInv, TypeOK, Blank
<1> QED BY <1>1, <1>2, <1>3 DEF IInv, SettledByItsKey, Failed

LEMMA Step ==
  IInv /\ [Next]_vars => IInv'
<1> SUFFICES ASSUME IInv, [Next]_vars PROVE IInv'
  OBVIOUS
<1>1. ASSUME NEW p \in Pages, SetPage(p) PROVE IInv'
  BY <1>1, MovePreserves DEF SetPage, IInv, TypeOK
<1>2. CASE Rebuild
  <2>1. store + 1 \in 1..Stores /\ page \in Pages
    BY <1>2, BoundsOK DEF Rebuild, IInv, TypeOK
  <2> QED BY <1>2, <2>1, MovePreserves DEF Rebuild
<1>3. ASSUME NEW n \in Nodes, Render(n) PROVE IInv'
  BY <1>3, RenderPreserves
<1>4. ASSUME NEW n \in Nodes, Retry(n) PROVE IInv'
  BY <1>4, RetryPreserves
<1>5. ASSUME NEW i \in DOMAIN cache, Answer(i) PROVE IInv'
  BY <1>5, AnswerPreserves
<1>6. CASE UNCHANGED vars
  BY <1>6 DEF vars, IInv, TypeOK, SettledByItsKey, Failed
<1> QED BY <1>1, <1>2, <1>3, <1>4, <1>5, <1>6 DEF Next

LEMMA Invariant ==
  Spec => []IInv
BY Start, Step, PTL DEF Spec

THEOREM TypeOKAlways ==
  Spec => []TypeOK
<1>1. IInv => TypeOK
  BY DEF IInv
<1> QED BY <1>1, Invariant, PTL

THEOREM ShownIsCurrentAlways ==
  Spec => []ShownIsCurrent
<1>1. IInv => ShownIsCurrent
  <2> SUFFICES ASSUME IInv, NEW n \in Nodes, Shows(n), view[n].mode = "settled",
                      view[n].by.phase = "ok"
               PROVE  RowsOf[view[n].by.node][view[n].by.at] = RowsOf[n][page]
    BY DEF ShownIsCurrent
  <2>1. PICK q \in Promise : q = view[n].by
    BY DEF IInv, SettledByItsKey
  <2>2. /\ q.node \in Nodes /\ q.at \in Pages /\ q.store \in 1..Stores
        /\ page \in Pages /\ store \in 1..Stores
    BY DEF Promise, IInv, TypeOK
  <2>3. Sound(q) /\ KeyOf[q.node][q.at][q.store] = KeyOf[n][page][store]
    BY <2>1 DEF IInv, SettledByItsKey, KeyOfPromise, Failed
  <2>4. cacheKey(Node[q.node], PageState[q.at], q.store)
          = cacheKey(Node[n], PageState[page], store)
    BY <2>2, <2>3, Tables
  <2>5. Keyed(Node[q.node]) /\ Keyed(Node[n]) /\ Dated(Node[q.node], PageState[q.at])
    BY <2>2, <2>3, NodesAreKeyed DEF Sound
  <2>6. resolveNodeRows(Node[q.node], PageState[q.at])
          = resolveNodeRows(Node[n], PageState[page])
    BY <2>2, <2>4, <2>5, Tables, KeyDeterminesRows
  <2> QED BY <2>1, <2>2, <2>6, Tables
<1> QED BY <1>1, Invariant, PTL

THEOREM OutcomeIsOfThisStoreAlways ==
  Spec => []OutcomeIsOfThisStore
<1>1. IInv => OutcomeIsOfThisStore
  <2> SUFFICES ASSUME IInv, NEW n \in Nodes, view[n].mode = "settled",
                      Failed(n) => n \notin Lasting
               PROVE  view[n].by.store = store
    BY DEF OutcomeIsOfThisStore
  <2>1. PICK q \in Promise : q = view[n].by
    BY DEF IInv, SettledByItsKey
  <2>2. /\ q.node \in Nodes /\ q.at \in Pages /\ q.store \in 1..Stores
        /\ page \in Pages /\ store \in 1..Stores
    BY DEF Promise, IInv, TypeOK
  <2>3. cacheKey(Node[q.node], PageState[q.at], q.store)
          = cacheKey(Node[n], PageState[page], store)
    BY <2>1, <2>2, Tables DEF IInv, SettledByItsKey, KeyOfPromise
  <2> QED BY <2>1, <2>3 DEF cacheKey
<1> QED BY <1>1, Invariant, PTL
=============================================================================
