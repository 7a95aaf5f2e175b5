------------------------------ MODULE NodeRows ------------------------------
(***************************************************************************)
(* How a page shows its data nodes today, over a store that answers        *)
(* asynchronously (packages/react/src/engine: renderNode.ts,               *)
(* useNodeRows.ts, specDimKey.ts, NodeErrorBoundary.tsx).  A render of a   *)
(* node looks its promise up in a cache that all nodes share, under a key  *)
(* made of the node's recipe, the requests it needs, the variables, the    *)
(* language and the store; a miss starts the requests, and the node waits. *)
(*                                                                         *)
(* Each render of the page makes a new component for each node that waits, *)
(* and so for all below it: none keeps the rows it showed.  An error lasts *)
(* where the boundary that holds it does: below nodes of synchronous       *)
(* stores only.  A request that a store has answered once is asked again   *)
(* here; the store's own cache is ObservationCache.                        *)
(***************************************************************************)
EXTENDS NodeData, Sequences

CONSTANTS
  Pages,     \* names of the states the filter bar produces
  PageState, \* and what they are
  Stores,    \* how often the store may be built
  Lasting,   \* nodes with no asynchronous node above them
  CacheMax,  \* CACHE_MAX
  MaxMoves   \* how often the page or the store changes

ASSUME BoundsOK ==
  /\ PageState \in [Pages -> GraphState]
  /\ Lasting \subseteq Nodes
  /\ Stores \in Nat \ {0} /\ CacheMax \in Nat \ {0} /\ MaxMoves \in Nat

VARIABLES
  page,   \* the state the page was last rendered in
  store,  \* storeGenId() of the store in use
  cache,  \* _promiseCache, in the order of insertion
  view,   \* what the reader sees of each node
  moves   \* changes so far

vars == <<page, store, cache, view, moves>>

-----------------------------------------------------------------------------
\* queryRequirements(), metricRequirements(), pointSeriesRequirements(),
\* extractRequirements(): the pairs of a code and a coordinate a spec reads.

\* resolveFilterForReqs(): what is excluded cannot be enumerated.
Named(f, s) == IF f.ctx # None THEN {s[dim(f.ctx)]} ELSE f.values

Unfiltered(f) == f.ctx = None /\ f.values = {} /\ f.not = Unset

\* Dimensions but time that a filter pins to one value.
Pinned(n, s) ==
  [d \in Dims |->
     IF \E v \in Values : Named(n.filter[d], s) = {v}
     THEN CHOOSE v \in Values : Named(n.filter[d], s) = {v}
     ELSE s[dim(d)]]

queryYears(n, s) ==
  IF Unfiltered(n.filter[TimeDim]) THEN {s[dim(TimeDim)]}
  ELSE Named(n.filter[TimeDim], s) \ {Unset}

queryRequirements(n, s) ==
  {<<c, OfYear(Pinned(n, s), y)>> : c \in n.codes, y \in queryYears(n, s)}

seriesYears(n) == IF n.coords = {} THEN {Unset} ELSE n.coords

seriesRequirements(n, s) ==
  {<<c, OfYear(Coordinate(s), y)>> : c \in n.codes, y \in seriesYears(n)}

listRequirements(n, s) ==
  {<<c, Coordinate(s)>> : c \in n.codes \cup ({n.pctOf} \ {None})}

metricRequirements(n, s) ==
  {<<c, [d \in Dims |-> IF n.where[d] # Unset THEN n.where[d]
                        ELSE IF d \in n.by THEN Unset ELSE s[dim(d)]]>> :
     c \in n.codes}

extractRequirements(n, s) ==
  CASE n.kind = "query" -> queryRequirements(n, s)
    [] n.kind = "series" -> seriesRequirements(n, s)
    [] n.kind = "list" -> listRequirements(n, s)
    [] n.kind = "metric" -> metricRequirements(n, s)
    [] OTHER -> {}

specDimKey(n, s) == extractRequirements(n, s)

\* nodeRecipeKey(): data and transforms; not the visibility, nor the actions.
nodeRecipeKey(n) == [n EXCEPT !.when = None, !.is = Unset, !.drill = None]

varsKey(s) == [k \in Vars |-> s[var(k)]]

\* Deviation: the key before the variables were added to it.
cacheKeyNoVars(n, s, g) ==
  [recipe |-> nodeRecipeKey(n), reqs |-> specDimKey(n, s),
   vars |-> <<>>, locale |-> s[locale], store |-> g]

\* Deviation: the key before the store's generation was added to it.
cacheKeyNoStore(n, s, g) ==
  [recipe |-> nodeRecipeKey(n), reqs |-> specDimKey(n, s),
   vars |-> varsKey(s), locale |-> s[locale], store |-> 1]

cacheKey(n, s, g) ==
  [recipe |-> nodeRecipeKey(n), reqs |-> specDimKey(n, s),
   vars |-> varsKey(s), locale |-> s[locale], store |-> g]

-----------------------------------------------------------------------------

KeyOf ==
  [n \in Nodes |-> [p \in Pages |->
    [g \in 1..Stores |-> cacheKey(Node[n], PageState[p], g)]]]

RowsOf == [n \in Nodes |-> [p \in Pages |-> resolveNodeRows(Node[n], PageState[p])]]

\* A promise keeps the node and the state of the render that made it.
Promise == [node : Nodes, at : Pages, store : 1..Stores, phase : {"pending", "ok", "failed"}]

Asked(n) == [node |-> n, at |-> page, store |-> store, phase |-> "pending"]

KeyOfPromise(p) == KeyOf[p.node][p.at][p.store]

Cached(n) == {i \in DOMAIN cache : KeyOfPromise(cache[i]) = KeyOf[n][page][store]}

Shows(n) == Visible(Node[n], PageState[page])

\* mode: "mounted", to be rendered; "suspended"; "settled", by the promise `by`: its rows,
\* or its error.
View == [mode : {"mounted", "suspended"}, by : {None}]
          \cup [mode : {"settled"}, by : Promise]

Blank == [mode |-> "mounted", by |-> None]

TypeOK ==
  /\ page \in Pages /\ store \in 1..Stores /\ moves \in 0..MaxMoves
  /\ cache \in Seq(Promise) /\ Len(cache) <= CacheMax
  /\ view \in [Nodes -> View]

Init ==
  /\ page \in Pages /\ store = 1 /\ moves = 0
  /\ cache = <<>>
  /\ view = [n \in Nodes |-> Blank]

-----------------------------------------------------------------------------

Failed(n) == view[n].mode = "settled" /\ view[n].by.phase = "failed"

\* A boundary that React keeps goes on showing its error until its node is hidden.
Keeps(n, p) == n \in Lasting /\ Failed(n) /\ Visible(Node[n], PageState[p])

\* A change of the page's state or a new store renders the page: its nodes mount anew.
Move(p, g) ==
  /\ moves < MaxMoves
  /\ moves' = moves + 1
  /\ page' = p /\ store' = g
  /\ view' = [n \in Nodes |-> IF Keeps(n, p) THEN view[n] ELSE Blank]
  /\ UNCHANGED cache

SetPage(p) == Move(p, store)

\* A store that is rebuilt gets an id of its own.
Rebuild == store < Stores /\ Move(page, store + 1)

\* The oldest entry gives way when the cache is full.
Insert(p) == Append(IF Len(cache) >= CacheMax THEN Tail(cache) ELSE cache, p)

\* use() throws the promise: React renders again when it settles, so also one that the
\* cache has dropped meanwhile.
Wakes(n) == \A i \in Cached(n) : cache[i].phase # "pending"

CanRender(n) ==
  /\ Shows(n)
  /\ view[n].mode = "mounted" \/ (view[n].mode = "suspended" /\ Wakes(n))

Put(n, v) ==
  /\ view' = [view EXCEPT ![n] = v]
  /\ UNCHANGED <<page, store, moves>>

Suspend(n) == Put(n, [mode |-> "suspended", by |-> None])

\* useNodeRows(): a promise that is settled is unwrapped.
RenderSettled(n) ==
  /\ CanRender(n)
  /\ \E i \in Cached(n) :
       /\ cache[i].phase # "pending"
       /\ Put(n, [mode |-> "settled", by |-> cache[i]])
  /\ UNCHANGED cache

\* Another node, or an earlier render, has asked for the same.
RenderWaiting(n) ==
  /\ CanRender(n)
  /\ \E i \in Cached(n) : cache[i].phase = "pending"
  /\ Suspend(n)
  /\ UNCHANGED cache

RenderMiss(n) ==
  /\ CanRender(n)
  /\ Cached(n) = {}
  /\ cache' = Insert(Asked(n))
  /\ Suspend(n)

Render(n) == RenderSettled(n) \/ RenderWaiting(n) \/ RenderMiss(n)

\* The requests of a promise are answered; one that fails rejects it.
Settle(i, phase) ==
  /\ cache[i].phase = "pending"
  /\ cache' = [cache EXCEPT ![i].phase = phase]

\* Deviation: a rejected promise leaves the cache.
AnswerEvicting(i) ==
  /\ \/ Settle(i, "ok")
     \/ cache[i].phase = "pending" /\ cache' = SelectSeq(cache, LAMBDA p : p # cache[i])
  /\ UNCHANGED <<page, store, view, moves>>

\* A rejected promise stays in the cache.
Answer(i) ==
  /\ \E phase \in {"ok", "failed"} : Settle(i, phase)
  /\ UNCHANGED <<page, store, view, moves>>

\* The button of NodeErrorBoundary: its children render again.
Retry(n) ==
  /\ Shows(n) /\ Failed(n)
  /\ Put(n, Blank)
  /\ UNCHANGED cache

Next ==
  \/ \E p \in Pages : SetPage(p)
  \/ Rebuild
  \/ \E n \in Nodes : Render(n) \/ Retry(n)
  \/ \E i \in DOMAIN cache : Answer(i)

Spec == Init /\ [][Next]_vars

\* React renders what is mounted or has woken, and each request is answered in the end:
\* FetchScheduler!EveryCallSettles.
Fairness ==
  /\ \A n \in Nodes : WF_vars(Render(n))
  /\ WF_vars(\E i \in DOMAIN cache : Answer(i))

FairSpec == Spec /\ Fairness
-----------------------------------------------------------------------------

\* useNodeRows.ts: the recipe "fully determine[s] the output rows GIVEN the fetch". A node
\* never shows rows of another state, another node or a language that is gone, whoever
\* asked for them first and whenever they came.
ShownIsCurrent ==
  \A n \in Nodes :
    Shows(n) /\ view[n].mode = "settled" /\ view[n].by.phase = "ok" =>
      RowsOf[view[n].by.node][view[n].by.at] = RowsOf[n][page]

\* useNodeRows.ts: a rebuilt store is never served "the prior generation's stale/poisoned
\* promise". Rows are of the store in use, and so are errors, but for those a boundary
\* has kept.
OutcomeIsOfThisStore ==
  \A n \in Nodes :
    view[n].mode = "settled" /\ (Failed(n) => n \notin Lasting) => view[n].by.store = store

\* useNodeRows.ts, of a rejected promise: "Recovery is by cache MISS: a store rebuild
\* (new storeGenId, above), a filter/perspective change (new depKey)". Violated where the
\* boundary lasts: it renders no child that would miss, see the README.
RebuildHealsErrors ==
  \A n \in Nodes : Failed(n) => view[n].by.store = store

\* useNodeRows.ts: a rejection is kept, since a render that asks again would be "an
\* unbounded storm that never reaches NodeErrorBoundary". Every node of a page that is
\* left alone shows its rows or its error, also when the cache is full.
EveryNodeSettles ==
  \A n \in Nodes :
    Shows(n) /\ view[n].mode # "settled" ~> view[n].mode = "settled" \/ ~Shows(n)
=============================================================================
