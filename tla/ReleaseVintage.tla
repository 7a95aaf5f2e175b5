--------------------------- MODULE ReleaseVintage ---------------------------
(***************************************************************************)
(* Release vintages of one dataset (V25__release_vintage.sql, V8, and      *)
(* ingest/publish.ts, publish-bundle.ts, routes/stats/observations.ts):    *)
(* facts land in the single-valued cube stamped with a release, a trigger  *)
(* logs what they replace, and the figures as of an instant are put        *)
(* together again from the cube, the log and the releases' published_at.   *)
(*                                                                         *)
(* A release is opened by the publish of one submission (a singleton) or   *)
(* by a curator who bundles several; both end in stats.publish_release.    *)
(* From its first write of the cube a transaction holds the row of         *)
(* stats.dataset_version (V17), so the writes of two of them never mix;    *)
(* but published_at is now(), the time the transaction began.              *)
(***************************************************************************)
EXTENDS Naturals, FiniteSets
LOCAL INSTANCE TLC

CONSTANTS
  Series,    \* dim_key and time_period of an observation
  Values,    \* value, status and attributes of an observation
  Releases,
  Bundles,      \* the releases that curators open; the rest are auto-opened
  None,
  MaxClock,     \* bound: transactions that read now()
  MaxRevisions  \* bound: rows of the log

ASSUME ConstantsOK ==
  /\ None \notin Values \cup Releases \cup [value : Values, release : Releases]
  /\ Bundles \subseteq Releases
  /\ IsFiniteSet(Series) /\ IsFiniteSet(Releases)
  /\ MaxClock \in Nat /\ MaxRevisions \in Nat

VARIABLES
  cube,         \* stats.observation: [value, release] of a series, or None
  log,          \* stats.observation_revision
  status,       \* stats.release.status, and the transactions at work on it
  publishedAt,  \* stats.release.published_at, 0 for NULL
  began,        \* began[r]: now() in the transaction that publishes r
  clock,        \* the last now() handed out
  tangled       \* the series whose history has been disturbed (history)

vars == <<cube, log, status, publishedAt, began, clock, tangled>>

\* "singleton" and "finalizing": a transaction that will publish the release has
\* begun; the rows it writes are not committed yet.
Status == {"none", "singleton", "open", "finalizing", "published", "superseded"}

Observation == [value : Values, release : Releases]
Revision == [series : Series, value : Values, setBy : Releases,
             supersededBy : Releases]

TypeOK ==
  /\ cube \in [Series -> Observation \cup {None}]
  /\ log \subseteq Revision
  /\ status \in [Releases -> Status]
  /\ publishedAt \in [Releases -> 0..MaxClock]
  /\ began \in [Releases -> 0..MaxClock]
  /\ clock \in 0..MaxClock
  /\ tangled \subseteq Series

Init ==
  /\ cube = [s \in Series |-> None]
  /\ log = {}
  /\ status = [r \in Releases |-> "none"]
  /\ publishedAt = [r \in Releases |-> 0]
  /\ began = [r \in Releases |-> 0]
  /\ clock = 0
  /\ tangled = {}

-----------------------------------------------------------------------------
\* The writes of a publish.

\* The facts of a submission: values for some of the series.
Facts == UNION {[S -> Values] : S \in SUBSET Series \ {{}}}

Has(s) == cube[s] # None

Admitted(facts) == Cardinality(log) + Cardinality(DOMAIN facts) <= MaxRevisions

\* Deviation: the pre-image is attributed to the release that replaces it.
CaptureNew(facts, r) ==
  {[series |-> s, value |-> cube[s].value, setBy |-> r, supersededBy |-> r] :
      s \in {t \in DOMAIN facts : Has(t) /\ cube[t].value # facts[t]}}

\* The capture trigger: log the old value of a series where it changes.
Capture(facts, r) ==
  {[series |-> s, value |-> cube[s].value, setBy |-> cube[s].release,
    supersededBy |-> r] :
      s \in {t \in DOMAIN facts : Has(t) /\ cube[t].value # facts[t]}}

\* INSERT .. ON CONFLICT DO UPDATE of the staged facts under app.release_id = r:
\* the stamp trigger marks every row the statement touches.
Write(facts, r) ==
  /\ log' = log \cup Capture(facts, r)
  /\ cube' = [s \in Series |->
       IF s \in DOMAIN facts THEN [value |-> facts[s], release |-> r] ELSE cube[s]]

\* Deviation: the prior current release stays current.
PublishReleaseKeepPrior(r) ==
  /\ status' = [status EXCEPT ![r] = "published"]
  /\ publishedAt' = [publishedAt EXCEPT ![r] = began[r]]

\* stats.publish_release(): demote the current release, publish r as of the time
\* its transaction began.
PublishRelease(r) ==
  /\ status' = [q \in Releases |->
       IF q = r THEN "published"
       ELSE IF status[q] = "published" THEN "superseded" ELSE status[q]]
  /\ publishedAt' = [publishedAt EXCEPT ![r] = began[r]]

\* BEGIN of a transaction that will publish r.
Begin(r, kind) ==
  /\ clock < MaxClock
  /\ clock' = clock + 1
  /\ began' = [began EXCEPT ![r] = clock + 1]
  /\ status' = [status EXCEPT ![r] = kind]
  /\ UNCHANGED <<cube, log, publishedAt, tangled>>

-----------------------------------------------------------------------------
\* What disturbs the history of a series; nothing in the code forbids any of it.

Published(r) == publishedAt[r] # 0

\* Has r given s a value, or replaced one?
Wrote(r, s) ==
  \/ Has(s) /\ cube[s].release = r
  \/ \E v \in log : v.series = s /\ r \in {v.setBy, v.supersededBy}

\* A submission repeats the value of s: the stamp moves, and nothing is logged.
Restated(s) ==
  Has(s) /\ cube'[s].release # cube[s].release /\ cube'[s].value = cube[s].value

\* A member lands in s when its bundle is out.
Late(s) == cube'[s] # cube[s] /\ Published(cube'[s].release)

\* Two bundles that are not out have both written s.
Rivals(s) ==
  /\ cube'[s] # cube[s] /\ publishedAt'[cube'[s].release] = 0
  /\ \E q \in Releases \ {cube'[s].release} : ~Published(q) /\ Wrote(q, s)

\* r is published behind q, which began after r and is out before it.
Behind(r, q) == ~Published(r) /\ Published(r)' /\ publishedAt[q] > publishedAt'[r]

\* A release that is published behind another has written s ..
Backdated(s) == \E r, q \in Releases : Behind(r, q) /\ Wrote(r, s)'

\* .. or the one it is published behind has.
Bypassed(s) == \E r, q \in Releases : Behind(r, q) /\ Wrote(q, s)

Note ==
  tangled' = tangled \cup
    {s \in Series : Restated(s) \/ Late(s) \/ Rivals(s) \/ Backdated(s) \/ Bypassed(s)}

-----------------------------------------------------------------------------

\* publishSubmission() of a submission without release: auto-open one ..
BeginSingleton(r) ==
  r \notin Bundles /\ status[r] = "none" /\ Begin(r, "singleton")

\* .. write the facts, publish the release and commit.
CommitSingleton(r) ==
  /\ status[r] = "singleton"
  /\ \E facts \in Facts : Admitted(facts) /\ Write(facts, r)
  /\ PublishRelease(r)
  /\ UNCHANGED <<began, clock>>
  /\ Note

\* POST /releases.
OpenRelease(r) ==
  /\ r \in Bundles
  /\ status[r] = "none"
  /\ status' = [status EXCEPT ![r] = "open"]
  /\ UNCHANGED <<cube, log, publishedAt, began, clock, tangled>>

\* publishSubmission() of a submission that is attached to r: the facts are
\* stamped with r and committed; r stays as it is. Nothing looks at its status.
CommitMember(r) ==
  /\ r \in Bundles
  /\ status[r] # "none"
  /\ \E facts \in Facts : Admitted(facts) /\ Write(facts, r)
  /\ UNCHANGED <<status, publishedAt, began, clock>>
  /\ Note

\* The last statement of publishBundle(): publish_release(r) in a transaction of
\* its own.
BeginFinalize(r) == status[r] = "open" /\ Begin(r, "finalizing")

CommitFinalize(r) ==
  /\ status[r] = "finalizing"
  /\ PublishRelease(r)
  /\ UNCHANGED <<cube, log, began, clock>>
  /\ Note

\* A dry run or an error rolls the transaction back; an auto-opened release goes
\* with it.
Rollback(r) ==
  /\ \/ status[r] = "singleton" /\ status' = [status EXCEPT ![r] = "none"]
     \/ status[r] = "finalizing" /\ status' = [status EXCEPT ![r] = "open"]
  /\ UNCHANGED <<cube, log, publishedAt, began, clock, tangled>>

Next ==
  \E r \in Releases :
    \/ BeginSingleton(r) \/ CommitSingleton(r)
    \/ OpenRelease(r) \/ CommitMember(r) \/ BeginFinalize(r) \/ CommitFinalize(r)
    \/ Rollback(r)

Spec == Init /\ [][Next]_vars
-----------------------------------------------------------------------------
\* The figures as of an instant (buildAsOfSql).

\* Deviation: the release of a value need not be out.
LiveAnyRelease(s, t) ==
  IF Has(s) /\ publishedAt[cube[s].release] <= t
  THEN {[from |-> publishedAt[cube[s].release], value |-> cube[s].value]}
  ELSE {}

\* The candidate of the cube for series s at instant t: its release is out by t.
Live(s, t) ==
  IF Has(s) /\ publishedAt[cube[s].release] \in 1..t
  THEN {[from |-> publishedAt[cube[s].release], value |-> cube[s].value]}
  ELSE {}

\* Deviation: a value ends when it is replaced, not when that is published.
CoversUntilReplaced(v, t) ==
  /\ publishedAt[v.setBy] \in 1..t
  /\ publishedAt[v.supersededBy] > t

\* Deviation: a value that was replaced stays a candidate.
CoversForever(v, t) == publishedAt[v.setBy] \in 1..t

\* Was the replaced value v public at t? The release that set it is out by then,
\* the one that superseded it is not.
Covers(v, t) ==
  /\ publishedAt[v.setBy] \in 1..t
  /\ ~Published(v.supersededBy) \/ publishedAt[v.supersededBy] > t

\* The candidates of the log.
PreImages(s, t) ==
  {[from |-> publishedAt[v.setBy], value |-> v.value] :
      v \in {v \in log : v.series = s /\ Covers(v, t)}}

Candidates(s, t) == Live(s, t) \cup PreImages(s, t)

\* DISTINCT ON the series, the latest valid_from first.
Latest(C) ==
  IF C = {} THEN None ELSE (CHOOSE c \in C : \A d \in C : d.from <= c.from).value

AsOf(t) == [s \in Series |-> Latest(Candidates(s, t))]

\* GET /releases/:id/observations.
Vintage(r) == AsOf(publishedAt[r])
-----------------------------------------------------------------------------

\* The scope has one current release, uq_release_current, from the first
\* publication on; everything else that is out is superseded.
OneCurrentRelease ==
  /\ Cardinality({r \in Releases : status[r] = "published"}) <= 1
  /\ (\E r \in Releases : Published(r)) => \E r \in Releases : status[r] = "published"
  /\ \A r \in Releases : Published(r) <=> status[r] \in {"published", "superseded"}

\* observations.ts: DISTINCT ON "collapses each series to the single value live AT
\* D". In a series that nothing has disturbed it never has to choose: no two candidates
\* start together, at any instant, so the figure as of t is determined, whatever
\* happens to the other series.
AsOfIsDetermined ==
  \A s \in Series \ tangled, t \in 1..clock : \A c, d \in Candidates(s, t) :
    c.from = d.from => c = d

\* The figure of an undisturbed series as of now is the cube's, except where a bundle
\* that is not out has written: its figures are invisible, and the ones before it are
\* still served.
NowIsTheCube ==
  \A s \in Series \ tangled : Has(s) =>
    \/ Published(cube[s].release) /\ AsOf(clock)[s] = cube[s].value
    \/ /\ ~Published(cube[s].release)
       /\ AsOf(clock)[s] # None <=> \E v \in log : v.series = s /\ Published(v.setBy)

\* routes/stats/releases.ts: "a published release never changes". A step changes the
\* figure of a series in a vintage that is out only if it restates the series, lands late
\* in it or is backdated in it, whatever has happened to the series before.
VintageIsImmutable ==
  [][\A r \in Releases, s \in Series :
       Published(r) /\ Vintage(r)'[s] # Vintage(r)[s] =>
         Restated(s) \/ Late(s) \/ Backdated(s)]_vars

\* releases.ts without the exceptions.
VintageNeverChanges ==
  [][\A r \in Releases : Published(r) => Vintage(r)' = Vintage(r)]_vars

\* The vintages and the figures of now, read through as-of queries, are an
\* append-only ledger of the series that nothing has disturbed.
Figures(t) == [s \in Series \ tangled |-> AsOf(t)[s]]

Ledger == INSTANCE VintageLedger WITH
  clean <- Series \ tangled,
  public <- Figures(clock),
  ledger <- [r \in {q \in Releases : Published(q)} |-> Figures(publishedAt[r])]

ImplementsLedger == Ledger!LSpec

-----------------------------------------------------------------------------
\* For TLC: series, values, bundles and singletons are interchangeable.
VintageSymmetry ==
  Permutations(Series) \cup Permutations(Values) \cup Permutations(Bundles)
    \cup Permutations(Releases \ Bundles)
=============================================================================
