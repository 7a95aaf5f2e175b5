--------------------------- MODULE ReleaseProofs ----------------------------
(***************************************************************************)
(* For any number of series, values, releases and bundles, and whatever    *)
(* their transactions do: a step changes a published vintage only where it *)
(* restates the series, lands late in it or is backdated in it; the figures*)
(* as of any instant of a series that nothing has disturbed are determined,*)
(* and with the vintages they are an append-only ledger.                   *)
(*                                                                         *)
(* Then the bundle above them, however its requests interleave: a release  *)
(* is published after its members, and closed to what had not begun.       *)
(***************************************************************************)
EXTENDS ReleaseVintage, ReleaseBundle, FiniteSetTheorems, TLAPS

Running(r) == status[r] \in {"singleton", "finalizing"}

\* Types, without the bounds.
Types ==
  /\ cube \in [Series -> Observation \cup {None}]
  /\ log \subseteq Revision
  /\ status \in [Releases -> Status]
  /\ publishedAt \in [Releases -> Nat]
  /\ began \in [Releases -> Nat]
  /\ clock \in Nat
  /\ tangled \subseteq Series

\* A release is out when its status says so; releases that are out, and transactions that
\* run, are told apart by when they began.
ClockInv ==
  /\ \A r \in Releases : Published(r) <=> status[r] \in {"published", "superseded"}
  /\ \A r \in Releases : publishedAt[r] <= clock /\ began[r] <= clock
  /\ \A q, r \in Releases : Published(q) /\ publishedAt[q] = publishedAt[r] => q = r
  /\ \A q, r \in Releases : Running(q) /\ Running(r) /\ began[q] = began[r] => q = r
  /\ \A r \in Releases : Running(r) =>
       began[r] # 0 /\ \A q \in Releases : publishedAt[q] # began[r]

VInv == Types /\ ClockInv

-----------------------------------------------------------------------------

\* What a write of facts leaves behind is well formed.
LEMMA WriteTypes ==
  ASSUME Types, NEW r \in Releases, NEW facts \in Facts, Write(facts, r)
  PROVE  /\ cube' \in [Series -> Observation \cup {None}]
         /\ log' \subseteq Revision
<1>1. PICK S \in SUBSET Series : facts \in [S -> Values]
  BY DEF Facts
<1>2. cube' \in [Series -> Observation \cup {None}]
  <2>1. ASSUME NEW s \in Series
        PROVE  (IF s \in DOMAIN facts THEN [value |-> facts[s], release |-> r]
                ELSE cube[s]) \in Observation \cup {None}
    BY <1>1 DEF Types, Observation
  <2> QED
    BY <2>1 DEF Write
<1>3. Capture(facts, r) \subseteq Revision
  <2>1. ASSUME NEW s \in DOMAIN facts, Has(s)
        PROVE  cube[s] \in Observation /\ s \in Series
    BY <1>1, <2>1 DEF Types, Has
  <2> QED
    BY <2>1 DEF Capture, Revision, Observation
<1> QED
  BY <1>2, <1>3 DEF Write, Types

LEMMA NoteTypes == ASSUME Types, Note PROVE tangled' \subseteq Series
<1> QED
  BY DEF Types, Note

LEMMA InitInv == ASSUME Init PROVE VInv
<1> QED
  BY ConstantsOK DEF Init, VInv, Types, ClockInv, Status, Published, Running

\* BEGIN takes an instant that nobody has.
LEMMA BeginInv ==
  ASSUME VInv, NEW r \in Releases, NEW kind \in {"singleton", "finalizing"},
         status[r] \in {"none", "open"}, Begin(r, kind)
  PROVE  VInv'
<1>1. Types'
  BY DEF VInv, Types, Begin, Status
<1>2. \A q \in Releases : /\ status'[q] = IF q = r THEN kind ELSE status[q]
                          /\ began'[q] = IF q = r THEN clock + 1 ELSE began[q]
  BY DEF VInv, Types, Begin
<1>3. clock' = clock + 1 /\ publishedAt' = publishedAt /\ clock \in Nat
  BY DEF VInv, Types, Begin
<1>4. \A q \in Releases : /\ publishedAt[q] \in Nat /\ publishedAt[q] <= clock
                          /\ began[q] \in Nat /\ began[q] <= clock
  BY DEF VInv, Types, ClockInv
<1>5. (\A q \in Releases : Published(q) <=> status[q] \in {"published", "superseded"})'
  BY <1>2, <1>3 DEF VInv, ClockInv, Published
<1>6. (\A q \in Releases : publishedAt[q] <= clock /\ began[q] <= clock)'
  BY <1>2, <1>3, <1>4
<1>7. (\A p, q \in Releases : Published(p) /\ publishedAt[p] = publishedAt[q] => p = q)'
  BY <1>3 DEF VInv, ClockInv, Published
<1>8. ASSUME NEW p \in Releases, NEW q \in Releases, Running(p)', Running(q)',
             began'[p] = began'[q]
      PROVE  p = q
  <2>1. CASE p # r /\ q # r
    BY <1>2, <1>8, <2>1 DEF VInv, ClockInv, Running
  <2>2. CASE p = r \/ q = r
    BY <1>2, <1>3, <1>4, <1>8, <2>2
  <2> QED
    BY <2>1, <2>2
<1>9. ASSUME NEW p \in Releases, Running(p)'
      PROVE  began'[p] # 0 /\ \A q \in Releases : publishedAt'[q] # began'[p]
  <2>1. CASE p = r
    BY <1>2, <1>3, <1>4, <2>1
  <2>2. CASE p # r
    BY <1>2, <1>3, <1>9, <2>2 DEF VInv, ClockInv, Running
  <2> QED
    BY <2>1, <2>2
<1> QED
  BY <1>1, <1>5, <1>6, <1>7, <1>8, <1>9 DEF VInv, ClockInv

\* stats.publish_release() by a running transaction.
LEMMA PublishReleaseInv ==
  ASSUME VInv, NEW r \in Releases, Running(r), PublishRelease(r),
         UNCHANGED <<began, clock>>
  PROVE  /\ status' \in [Releases -> Status]
         /\ publishedAt' \in [Releases -> Nat]
         /\ publishedAt[r] = 0 /\ publishedAt'[r] = began[r] /\ began[r] # 0
         /\ \A q \in Releases \ {r} : publishedAt'[q] = publishedAt[q]
         /\ \A q \in Releases : publishedAt[q] # publishedAt'[r]
         /\ ClockInv'
<1>1. \A q \in Releases : publishedAt'[q] = IF q = r THEN began[r] ELSE publishedAt[q]
  BY DEF VInv, Types, PublishRelease
<1>2. \A q \in Releases : status'[q] =
        IF q = r THEN "published"
        ELSE IF status[q] = "published" THEN "superseded" ELSE status[q]
  BY DEF PublishRelease
<1>3. status' \in [Releases -> Status] /\ publishedAt' \in [Releases -> Nat]
  BY DEF VInv, Types, Status, PublishRelease
<1>4. /\ began[r] # 0 /\ began[r] \in Nat /\ began[r] <= clock /\ publishedAt[r] = 0
      /\ \A q \in Releases : publishedAt[q] # began[r]
  BY DEF VInv, Types, ClockInv, Running, Published
<1>5. \A q \in Releases : Running(q)' <=> Running(q) /\ q # r
  BY <1>2 DEF Running
<1>6. (\A q \in Releases : Published(q) <=> status[q] \in {"published", "superseded"})'
  BY <1>1, <1>2, <1>4 DEF VInv, ClockInv, Published
<1>7. (\A q \in Releases : publishedAt[q] <= clock /\ began[q] <= clock)'
  BY <1>1, <1>4 DEF VInv, ClockInv
<1>8. (\A p, q \in Releases : Published(p) /\ publishedAt[p] = publishedAt[q] => p = q)'
  BY <1>1, <1>4 DEF VInv, ClockInv, Published
<1>9. (\A p, q \in Releases : Running(p) /\ Running(q) /\ began[p] = began[q] => p = q)'
  BY <1>5 DEF VInv, ClockInv
<1>10. ASSUME NEW p \in Releases, Running(p)'
       PROVE  began'[p] # 0 /\ \A q \in Releases : publishedAt'[q] # began'[p]
  BY <1>1, <1>5, <1>10 DEF VInv, ClockInv
<1> QED
  BY <1>1, <1>3, <1>4, <1>6, <1>7, <1>8, <1>9, <1>10 DEF ClockInv

LEMMA StepInv == ASSUME VInv, [Next]_vars PROVE VInv'
<1>1. ASSUME NEW r \in Releases, BeginSingleton(r) \/ BeginFinalize(r) PROVE VInv'
  BY <1>1, BeginInv DEF BeginSingleton, BeginFinalize
<1>2. ASSUME NEW r \in Releases, CommitSingleton(r) PROVE VInv'
  <2>1. Types'
    BY <1>2, WriteTypes, NoteTypes, PublishReleaseInv DEF CommitSingleton, Running, VInv, Types
  <2>2. ClockInv'
    BY <1>2, PublishReleaseInv DEF CommitSingleton, Running
  <2> QED
    BY <2>1, <2>2 DEF VInv
<1>3. ASSUME NEW r \in Releases, OpenRelease(r) PROVE VInv'
  BY <1>3 DEF OpenRelease, VInv, Types, ClockInv, Published, Running, Status
<1>4. ASSUME NEW r \in Releases, CommitMember(r) PROVE VInv'
  <2>1. Types'
    BY <1>4, WriteTypes, NoteTypes DEF CommitMember, VInv, Types
  <2>2. ClockInv'
    BY <1>4 DEF CommitMember, VInv, ClockInv, Published, Running
  <2> QED
    BY <2>1, <2>2 DEF VInv
<1>5. ASSUME NEW r \in Releases, CommitFinalize(r) PROVE VInv'
  BY <1>5, NoteTypes, PublishReleaseInv DEF CommitFinalize, Running, VInv, Types
<1>6. ASSUME NEW r \in Releases, Rollback(r) PROVE VInv'
  BY <1>6 DEF Rollback, VInv, Types, ClockInv, Published, Running, Status
<1>7. CASE UNCHANGED vars
  BY <1>7 DEF vars, VInv, Types, ClockInv, Published, Running
<1> QED
  BY <1>1, <1>2, <1>3, <1>4, <1>5, <1>6, <1>7 DEF Next

LEMMA InvHolds == Spec => []VInv
<1> QED
  BY InitInv, StepInv, PTL DEF Spec

-----------------------------------------------------------------------------
(* What a step does to one series.                                          *)

Rows(s) == {v \in log : v.series = s}

\* The row the capture trigger adds when r replaces the value of s.
Replaced(s, r) == [series |-> s, value |-> cube[s].value, setBy |-> cube[s].release,
                   supersededBy |-> r]

LEMMA WriteSeries ==
  ASSUME Types, NEW r \in Releases, NEW facts \in Facts, Write(facts, r), NEW s \in Series
  PROVE  \/ cube'[s] = cube[s] /\ Rows(s)' = Rows(s)
         \/ /\ cube'[s] # cube[s]
            /\ Has(s)' /\ cube'[s].release = r
            /\ Has(s) /\ ~Restated(s) => Rows(s)' = Rows(s) \cup {Replaced(s, r)}
            /\ ~Has(s) => Rows(s)' = Rows(s)
<1>1. log' = log \cup Capture(facts, r) /\ DOMAIN facts \subseteq Series
      /\ \A x \in DOMAIN facts : facts[x] \in Values
  BY DEF Write, Facts
<1>2. Rows(s)' = Rows(s) \cup {v \in Capture(facts, r) : v.series = s}
  BY <1>1 DEF Rows
<1>3. {v \in Capture(facts, r) : v.series = s} =
        IF s \in DOMAIN facts /\ Has(s) /\ cube[s].value # facts[s]
        THEN {Replaced(s, r)} ELSE {}
  BY DEF Capture, Replaced
<1>4. CASE s \notin DOMAIN facts
  BY <1>2, <1>3, <1>4 DEF Write
<1>5. CASE s \in DOMAIN facts
  <2>1. cube'[s] = [value |-> facts[s], release |-> r]
    BY <1>5 DEF Write
  <2>2. cube'[s] \in Observation
    BY <1>1, <1>5, <2>1 DEF Observation
  <2>3. Has(s)'
    BY <2>1, <1>1, <1>5, WriteTypes, ConstantsOK DEF Has
  <2>4. CASE ~Has(s)
    BY <1>2, <1>3, <2>1, <2>3, <2>4 DEF Has
  <2>5. CASE Has(s) /\ cube[s].value # facts[s]
    BY <1>2, <1>3, <1>5, <2>1, <2>3, <2>5
  <2>6. CASE Has(s) /\ cube[s].value = facts[s]
    <3>1. Rows(s)' = Rows(s)
      BY <1>2, <1>3, <2>6
    <3>2. CASE cube[s].release = r
      <4>1. cube[s] \in Observation
        BY <2>6 DEF Has, Types
      <4>2. cube'[s] = cube[s]
        BY <2>1, <2>6, <3>2, <4>1 DEF Observation
      <4> QED
        BY <3>1, <4>2
    <3>3. CASE cube[s].release # r
      BY <2>1, <2>3, <2>6, <3>1, <3>3 DEF Restated
    <3> QED
      BY <3>2, <3>3
  <2> QED
    BY <2>4, <2>5, <2>6
<1> QED
  BY <1>4, <1>5

\* Who has written a series.
LEMMA Writers ==
  ASSUME Types, NEW s \in Series
  PROVE  /\ Has(s) => cube[s] \in Observation /\ cube[s].release \in Releases
                      /\ Wrote(cube[s].release, s)
         /\ \A v \in Rows(s) : /\ v \in Revision /\ v.series = s
                               /\ v.setBy \in Releases /\ Wrote(v.setBy, s)
                               /\ v.supersededBy \in Releases /\ Wrote(v.supersededBy, s)
<1> QED
  BY DEF Types, Has, Observation, Revision, Rows, Wrote

LEMMA WroteByRows ==
  ASSUME NEW s \in Series, NEW q
  PROVE  Wrote(q, s) <=> \/ Has(s) /\ cube[s].release = q
                         \/ \E v \in Rows(s) : q \in {v.setBy, v.supersededBy}
<1> QED
  BY DEF Wrote, Rows

LEMMA ByRows ==
  ASSUME NEW s, NEW t
  PROVE  PreImages(s, t) = {[from |-> publishedAt[v.setBy], value |-> v.value] :
                              v \in {w \in Rows(s) : Covers(w, t)}}
<1> QED
  BY DEF PreImages, Rows

LEMMA ByRowsThen ==
  ASSUME NEW CONSTANT s, NEW CONSTANT t
  PROVE  (PreImages(s, t) = {[from |-> publishedAt[v.setBy], value |-> v.value] :
                              v \in {w \in Rows(s) : Covers(w, t)}})'
<1> QED
  BY ByRows, PTL
-----------------------------------------------------------------------------
(* The figures as of an instant.                                            *)

\* Whether q is out by t, and since when, stays as it is.
SameBy(q, t) ==
  publishedAt[q] \in 1..t \/ publishedAt'[q] \in 1..t => publishedAt'[q] = publishedAt[q]

LEMMA CoversBy ==
  ASSUME Types, publishedAt' \in [Releases -> Nat], NEW s \in Series, NEW t \in Nat,
         NEW v \in Rows(s), SameBy(v.setBy, t), SameBy(v.supersededBy, t)
  PROVE  /\ Covers(v, t)' <=> Covers(v, t)
         /\ Covers(v, t) => publishedAt'[v.setBy] = publishedAt[v.setBy]
<1>1. v.setBy \in Releases /\ v.supersededBy \in Releases
  BY Writers
<1>2. /\ publishedAt[v.setBy] \in Nat /\ publishedAt[v.supersededBy] \in Nat
      /\ publishedAt'[v.setBy] \in Nat /\ publishedAt'[v.supersededBy] \in Nat
  BY <1>1 DEF Types
<1>3. Covers(v, t) <=> publishedAt[v.setBy] \in 1..t /\ publishedAt[v.supersededBy] \notin 1..t
  BY <1>2 DEF Covers, Published
<1>4. Covers(v, t)' <=>
        publishedAt'[v.setBy] \in 1..t /\ publishedAt'[v.supersededBy] \notin 1..t
  BY <1>2 DEF Covers, Published
<1> QED
  BY <1>3, <1>4 DEF SameBy

\* A series that is not written has the same candidates at t when its writers stay as
\* they are by t.
LEMMA StillSeries ==
  ASSUME Types, publishedAt' \in [Releases -> Nat],
         NEW CONSTANT s \in Series, NEW CONSTANT t \in Nat,
         cube'[s] = cube[s], Rows(s)' = Rows(s),
         \A q \in Releases : Wrote(q, s) => SameBy(q, t)
  PROVE  Candidates(s, t)' = Candidates(s, t)
<1>1. Live(s, t)' = Live(s, t)
  <2>1. CASE ~Has(s)
    BY <2>1 DEF Live, Has
  <2>2. CASE Has(s)
    <3>1. PICK q \in Releases : q = cube[s].release /\ SameBy(q, t)
      BY <2>2, Writers
    <3> QED
      BY <2>2, <3>1 DEF Live, Has, SameBy
  <2> QED
    BY <2>1, <2>2
<1>2. ASSUME NEW v \in Rows(s)
      PROVE  /\ Covers(v, t)' <=> Covers(v, t)
             /\ Covers(v, t) => publishedAt'[v.setBy] = publishedAt[v.setBy]
  <2>1. SameBy(v.setBy, t) /\ SameBy(v.supersededBy, t)
    BY Writers
  <2> QED
    BY <2>1, CoversBy
<1>3. PreImages(s, t)' = PreImages(s, t)
  <2>1. PreImages(s, t)' = {[from |-> publishedAt'[v.setBy], value |-> v.value] :
                              v \in {w \in Rows(s) : Covers(w, t)'}}
    BY ByRowsThen
  <2>2. {w \in Rows(s) : Covers(w, t)'} = {w \in Rows(s) : Covers(w, t)}
    BY <1>2
  <2>3. PreImages(s, t)' = {[from |-> publishedAt'[v.setBy], value |-> v.value] :
                              v \in {w \in Rows(s) : Covers(w, t)}}
    BY <2>1, <2>2
  <2>4. \A v \in {w \in Rows(s) : Covers(w, t)} : publishedAt'[v.setBy] = publishedAt[v.setBy]
    BY <1>2
  <2> QED
    BY <2>3, <2>4, ByRows
<1> QED
  BY <1>1, <1>3 DEF Candidates

\* A release that is not out by t, before and after, writes: what leaves the cube is
\* logged with the same value and the same start.
LEMMA WrittenSeries ==
  ASSUME Types, publishedAt' \in [Releases -> Nat],
         NEW CONSTANT s \in Series, NEW CONSTANT t \in Nat, NEW r \in Releases,
         publishedAt[r] \notin 1..t, publishedAt'[r] \notin 1..t,
         \A q \in Releases \ {r} : SameBy(q, t),
         Has(s)', cube'[s].release = r,
         Has(s) => Rows(s)' = Rows(s) \cup {Replaced(s, r)},
         ~Has(s) => Rows(s)' = Rows(s)
  PROVE  Candidates(s, t)' = Candidates(s, t)
<1>1. SameBy(r, t) /\ \A q \in Releases : SameBy(q, t)
  BY DEF SameBy
<1>2. Live(s, t)' = {}
  BY DEF Live
<1>3. ASSUME NEW v \in Rows(s)
      PROVE  /\ Covers(v, t)' <=> Covers(v, t)
             /\ Covers(v, t) => publishedAt'[v.setBy] = publishedAt[v.setBy]
  BY <1>1, Writers, CoversBy
<1>4. PreImages(s, t)' = {[from |-> publishedAt'[v.setBy], value |-> v.value] :
                            v \in {w \in Rows(s)' : Covers(w, t)'}}
  BY ByRowsThen
<1>5. PreImages(s, t) = {[from |-> publishedAt'[v.setBy], value |-> v.value] :
                           v \in {w \in Rows(s) : Covers(w, t)'}}
  <2>1. {w \in Rows(s) : Covers(w, t)'} = {w \in Rows(s) : Covers(w, t)}
    BY <1>3
  <2>2. \A v \in {w \in Rows(s) : Covers(w, t)} : publishedAt'[v.setBy] = publishedAt[v.setBy]
    BY <1>3
  <2> QED
    BY <2>1, <2>2, ByRows
<1>6. CASE ~Has(s)
  <2>1. Live(s, t) = {}
    BY <1>6 DEF Live
  <2> QED
    BY <1>2, <1>4, <1>5, <1>6, <2>1 DEF Candidates
<1>7. CASE Has(s)
  <2>0. PICK v : v = Replaced(s, r)
    OBVIOUS
  <2>1. PICK q \in Releases : q = cube[s].release /\ SameBy(q, t)
    BY <1>1, <1>7, Writers
  <2>2. v.setBy = q /\ v.supersededBy = r /\ v.value = cube[s].value
    BY <2>0, <2>1 DEF Replaced
  <2>3. publishedAt'[r] \in Nat
    OBVIOUS
  <2>4. Covers(v, t)' <=> publishedAt'[q] \in 1..t
    BY <2>2, <2>3 DEF Covers, Published
  <2>5. Live(s, t) = IF publishedAt'[q] \in 1..t
                     THEN {[from |-> publishedAt'[q], value |-> v.value]} ELSE {}
    BY <1>7, <2>1, <2>2 DEF Live, SameBy
  <2>6. {w \in Rows(s)' : Covers(w, t)'} =
          {w \in Rows(s) : Covers(w, t)'} \cup
          (IF publishedAt'[q] \in 1..t THEN {v} ELSE {})
    BY <1>7, <2>0, <2>4
  <2>7. PreImages(s, t)' = PreImages(s, t) \cup Live(s, t)
    <3>1. CASE publishedAt'[q] \in 1..t
      BY <1>4, <1>5, <2>2, <2>5, <2>6, <3>1
    <3>2. CASE publishedAt'[q] \notin 1..t
      BY <1>4, <1>5, <2>5, <2>6, <3>2
    <3> QED
      BY <3>1, <3>2
  <2> QED
    BY <1>2, <2>7 DEF Candidates
<1> QED
  BY <1>6, <1>7

\* What a step that publishes or writes does to a series and to the releases.
Deed(r, s) ==
  /\ publishedAt' \in [Releases -> Nat]
  /\ \A q \in Releases \ {r} : publishedAt'[q] = publishedAt[q]
  /\ \/ publishedAt'[r] = publishedAt[r]
     \/ /\ publishedAt[r] = 0 /\ publishedAt'[r] = began[r] /\ Running(r)
        /\ \A q \in Releases : publishedAt[q] # publishedAt'[r]
  /\ \/ cube'[s] = cube[s] /\ Rows(s)' = Rows(s)
     \/ /\ cube'[s] # cube[s] /\ Has(s)' /\ cube'[s].release = r
        /\ Has(s) /\ ~Restated(s) => Rows(s)' = Rows(s) \cup {Replaced(s, r)}
        /\ ~Has(s) => Rows(s)' = Rows(s)

LEMMA CommitIsDeed ==
  ASSUME VInv, NEW r \in Releases, NEW s \in Series,
         CommitSingleton(r) \/ CommitMember(r) \/ CommitFinalize(r)
  PROVE  Deed(r, s)
<1>1. CASE CommitSingleton(r)
  <2>1. PICK facts \in Facts : Write(facts, r)
    BY <1>1 DEF CommitSingleton
  <2>2. /\ publishedAt' \in [Releases -> Nat]
        /\ publishedAt[r] = 0 /\ publishedAt'[r] = began[r]
        /\ \A q \in Releases \ {r} : publishedAt'[q] = publishedAt[q]
        /\ \A q \in Releases : publishedAt[q] # publishedAt'[r]
    BY <1>1, PublishReleaseInv DEF CommitSingleton, Running
  <2>3. Running(r)
    BY <1>1 DEF CommitSingleton, Running
  <2> QED
    BY <2>1, <2>2, <2>3, WriteSeries DEF Deed, VInv
<1>2. CASE CommitMember(r)
  <2>1. PICK facts \in Facts : Write(facts, r)
    BY <1>2 DEF CommitMember
  <2>2. publishedAt' = publishedAt
    BY <1>2 DEF CommitMember
  <2> QED
    BY <2>1, <2>2, WriteSeries DEF Deed, VInv, Types
<1>3. CASE CommitFinalize(r)
  <2>1. /\ publishedAt' \in [Releases -> Nat]
        /\ publishedAt[r] = 0 /\ publishedAt'[r] = began[r]
        /\ \A q \in Releases \ {r} : publishedAt'[q] = publishedAt[q]
        /\ \A q \in Releases : publishedAt[q] # publishedAt'[r]
    BY <1>3, PublishReleaseInv DEF CommitFinalize, Running
  <2>2. cube' = cube /\ log' = log /\ Running(r)
    BY <1>3 DEF CommitFinalize, Running
  <2> QED
    BY <2>1, <2>2 DEF Deed, Rows
<1> QED
  BY <1>1, <1>2, <1>3

\* Every step is a deed of some release, or changes nothing in the figures.
LEMMA StepIsDeed ==
  ASSUME VInv, [Next]_vars
  PROVE  \/ UNCHANGED <<cube, log, publishedAt>>
         \/ \E r \in Releases : \A s \in Series : Deed(r, s)
<1>1. ASSUME NEW r \in Releases, BeginSingleton(r) \/ BeginFinalize(r) \/ OpenRelease(r)
                                 \/ Rollback(r)
      PROVE  UNCHANGED <<cube, log, publishedAt>>
  BY <1>1 DEF BeginSingleton, BeginFinalize, Begin, OpenRelease, Rollback
<1>2. CASE UNCHANGED vars
  BY <1>2 DEF vars
<1> QED
  BY <1>1, <1>2, CommitIsDeed DEF Next

\* One step leaves the figure of a series in a published vintage as it is, but for the
\* three exceptions.
LEMMA DeedKeepsFigures ==
  ASSUME VInv, NEW r \in Releases, NEW CONSTANT s \in Series, Deed(r, s),
         NEW p \in Releases, Published(p), NEW CONSTANT t \in Nat, t = publishedAt[p],
         ~Restated(s), ~Late(s), ~Backdated(s)
  PROVE  publishedAt'[p] = t /\ Candidates(s, t)' = Candidates(s, t)
<1>1. \A q \in Releases : publishedAt[q] \in Nat /\ publishedAt'[q] \in Nat
  BY DEF VInv, Types, Deed
<1>2. publishedAt'[p] = t
  <2>1. CASE p # r
    BY <2>1 DEF Deed
  <2>2. CASE p = r
    BY <2>2 DEF Deed, Published
  <2> QED
    BY <2>1, <2>2
<1>3. \A q \in Releases \ {r} : SameBy(q, t)
  BY DEF Deed, SameBy
<1>4. ASSUME Wrote(r, s)' \/ Wrote(r, s)
      PROVE  publishedAt'[r] = publishedAt[r] \/ publishedAt'[r] > t
  <2>1. Wrote(r, s)'
    <3>1. ASSUME Wrote(r, s), cube'[s] = cube[s], Rows(s)' = Rows(s) PROVE Wrote(r, s)'
      BY <3>1 DEF Wrote, Rows, Has
    <3>2. ASSUME Has(s)', cube'[s].release = r PROVE Wrote(r, s)'
      BY <3>2 DEF Wrote
    <3> QED
      BY <1>4, <3>1, <3>2 DEF Deed
  <2>2. ASSUME publishedAt'[r] # publishedAt[r] PROVE publishedAt'[r] > t
    <3>1. ~Published(r) /\ Published(r)' /\ publishedAt[p] # publishedAt'[r]
      BY <2>2 DEF Deed, Published, VInv, ClockInv, Running
    <3>2. ~Behind(r, p)
      BY <2>1 DEF Backdated
    <3> QED
      BY <1>1, <3>1, <3>2 DEF Behind
  <2> QED
    BY <2>2
<1>5. CASE cube'[s] = cube[s] /\ Rows(s)' = Rows(s)
  <2>1. Wrote(r, s) => SameBy(r, t)
    BY <1>1, <1>4 DEF SameBy, Deed, Running
  <2> QED
    BY <1>2, <1>3, <1>5, <2>1, StillSeries DEF VInv, Deed
<1>6. CASE /\ cube'[s] # cube[s] /\ Has(s)' /\ cube'[s].release = r
           /\ Has(s) /\ ~Restated(s) => Rows(s)' = Rows(s) \cup {Replaced(s, r)}
           /\ ~Has(s) => Rows(s)' = Rows(s)
  <2>1. Wrote(r, s)'
    BY <1>6 DEF Wrote
  <2>2. publishedAt[r] = 0
    BY <1>6 DEF Late, Published, Deed
  <2>3. publishedAt[r] \notin 1..t /\ publishedAt'[r] \notin 1..t
    BY <1>1, <1>4, <2>1, <2>2
  <2> QED
    BY <1>2, <1>3, <1>6, <2>3, WrittenSeries DEF VInv, Deed
<1> QED
  BY <1>5, <1>6 DEF Deed

LEMMA StepKeepsVintages ==
  ASSUME VInv, [Next]_vars, NEW p \in Releases, Published(p), NEW CONSTANT s \in Series,
         ~Restated(s), ~Late(s), ~Backdated(s)
  PROVE  Vintage(p)'[s] = Vintage(p)[s]
<1>1. CASE UNCHANGED <<cube, log, publishedAt>>
  BY <1>1 DEF Vintage, AsOf, Candidates, Live, PreImages, Covers, Has, Published
<1>2. ASSUME NEW r \in Releases, Deed(r, s) PROVE Vintage(p)'[s] = Vintage(p)[s]
  <2>1. SUFFICES ASSUME NEW CONSTANT t \in Nat, t = publishedAt[p]
                 PROVE  Vintage(p)'[s] = Vintage(p)[s]
    BY DEF VInv, Types
  <2>2. publishedAt'[p] = t /\ Candidates(s, t)' = Candidates(s, t)
    BY <1>2, <2>1, DeedKeepsFigures
  <2>3. Vintage(p)[s] = Latest(Candidates(s, t))
    BY <2>1 DEF Vintage, AsOf
  <2>4. Vintage(p)'[s] = Latest(Candidates(s, t)')
    BY <2>2 DEF Vintage, AsOf, Latest
  <2> QED
    BY <2>2, <2>3, <2>4
<1> QED
  BY <1>1, <1>2, StepIsDeed

\* releases.ts: "a published release never changes". Whatever overlaps, is restated, late
\* or out of order in the rest of the cube, a step changes the figure of a series in a
\* published vintage only by being one of the three things to that series itself.
THEOREM VintagesNeverChange == Spec => VintageIsImmutable
<1>1. ASSUME VInv, [Next]_vars, NEW r \in Releases, NEW s \in Series,
             Published(r), Vintage(r)'[s] # Vintage(r)[s]
      PROVE  Restated(s) \/ Late(s) \/ Backdated(s)
  BY <1>1, StepKeepsVintages
<1>2. VInv /\ [Next]_vars =>
        [\A r \in Releases, s \in Series :
           Published(r) /\ Vintage(r)'[s] # Vintage(r)[s] =>
             Restated(s) \/ Late(s) \/ Backdated(s)]_vars
  BY <1>1
<1> QED
  BY <1>2, InvHolds, PTL DEF Spec, VintageIsImmutable
-----------------------------------------------------------------------------
(* The history of an undisturbed series is a chain of releases, each value  *)
(* of it public from the release that set it to the one that replaced it.   *)

\* A replaced value that is public at no time: its successor is of the same release, or
\* out before it.
Stillborn(v) ==
  \/ v.supersededBy = v.setBy
  \/ /\ Published(v.supersededBy)
     /\ Published(v.setBy) => publishedAt[v.supersededBy] < publishedAt[v.setBy]

\* v is public until the bundle that replaced it is.
Waiting(v) == Published(v.setBy) /\ ~Published(v.supersededBy)

\* A release that has written is out, or a bundle that has been opened; the log is about
\* series of the cube.
WriterInv ==
  /\ \A r \in Bundles : status[r] # "singleton"
  /\ \A s \in Series :
       /\ \A r \in Releases : Wrote(r, s) => status[r] \notin {"none", "singleton"}
       /\ Rows(s) # {} => Has(s)

\* One bundle that is not out, at most, has written s.
OneRival(s) ==
  \A q, r \in Releases :
    Wrote(q, s) /\ Wrote(r, s) /\ ~Published(q) /\ ~Published(r) => q = r

\* Of the values a release gives s, one at most is ever public.
OnePublicValue(s) ==
  /\ \A v \in Rows(s) : ~Published(v.setBy) => Stillborn(v)
  /\ \A v \in Rows(s) : v.setBy = cube[s].release => Stillborn(v)
  /\ \A v, w \in Rows(s) :
       v.setBy = w.setBy /\ ~Stillborn(v) /\ ~Stillborn(w) => v = w

\* What the cube has published is later than what is waiting; what was public when an
\* unfinished bundle replaced it is waiting.
CubeIsLast(s) ==
  /\ \A v \in Rows(s) : Waiting(v) /\ Published(cube[s].release) =>
       publishedAt[v.setBy] < publishedAt[cube[s].release]
  /\ \A v \in Rows(s) : Published(v.setBy) /\ ~Published(cube[s].release) =>
       \E w \in Rows(s) : Waiting(w)

ChainOf(s) == OneRival(s) /\ OnePublicValue(s) /\ CubeIsLast(s)

ChainInv == WriterInv /\ \A s \in Series \ tangled : ChainOf(s)

LEMMA WriteWriters ==
  ASSUME Types, NEW r \in Releases, NEW facts \in Facts, Write(facts, r), NEW s \in Series
  PROVE  /\ \A q : Wrote(q, s)' => Wrote(q, s) \/ q = r
         /\ Rows(s)' # {} => Rows(s) # {} \/ Has(s)
         /\ Has(s) => Has(s)'
<1>1. \A v \in Rows(s)' : \/ v \in Rows(s)
                          \/ Has(s) /\ v.setBy = cube[s].release /\ v.supersededBy = r
  <2>1. \A v \in Capture(facts, r) :
          v.series = s => Has(s) /\ v.setBy = cube[s].release /\ v.supersededBy = r
    BY DEF Capture
  <2> QED
    BY <2>1 DEF Rows, Write
<1>2. cube'[s] = cube[s] \/ (Has(s)' /\ cube'[s].release = r)
  BY WriteSeries
<1> QED
  BY <1>1, <1>2 DEF Wrote, Rows, Has

LEMMA StepWriters == ASSUME VInv, WriterInv, [Next]_vars PROVE WriterInv'
<1>1. SUFFICES ASSUME NEW s \in Series
               PROVE  /\ \A q \in Releases : Wrote(q, s)' => status'[q] \notin {"none", "singleton"}
                      /\ Rows(s)' # {} => Has(s)'
  <2>1. \A q \in Bundles : status'[q] # "singleton"
    <3>1. \A q \in Bundles : status[q] # "singleton" /\ q \in Releases
      BY ConstantsOK DEF WriterInv
    <3> QED
      BY <3>1 DEF Next, BeginSingleton, BeginFinalize, Begin, OpenRelease, Rollback, vars,
         CommitFinalize, CommitSingleton, CommitMember, PublishRelease, VInv, Types
  <2> QED
    BY <2>1 DEF WriterInv
<1>2. /\ \A q \in Releases : Wrote(q, s) => status[q] \notin {"none", "singleton"}
      /\ Rows(s) # {} => Has(s)
  BY DEF WriterInv
<1>3. ASSUME UNCHANGED <<cube, log>>
      PROVE  /\ \A q : Wrote(q, s)' <=> Wrote(q, s)
             /\ Rows(s)' # {} => Has(s)'
  BY <1>2, <1>3 DEF Wrote, Rows, Has
<1>4. ASSUME NEW r \in Releases, NEW facts \in Facts, Write(facts, r)
      PROVE  /\ \A q : Wrote(q, s)' => Wrote(q, s) \/ q = r
             /\ Rows(s)' # {} => Has(s)'
  BY <1>2, <1>4, WriteWriters DEF VInv
<1>5. ASSUME NEW r \in Releases, BeginSingleton(r) \/ BeginFinalize(r) \/ OpenRelease(r)
             \/ Rollback(r) \/ CommitFinalize(r)
      PROVE  /\ \A q \in Releases : Wrote(q, s)' => status'[q] \notin {"none", "singleton"}
             /\ Rows(s)' # {} => Has(s)'
  <2>1. UNCHANGED <<cube, log>>
    BY <1>5 DEF BeginSingleton, BeginFinalize, Begin, OpenRelease, Rollback, CommitFinalize
  <2>2. \A q \in Releases : status[q] \notin {"none", "singleton"} =>
                            status'[q] \notin {"none", "singleton"}
    BY <1>5 DEF BeginSingleton, BeginFinalize, Begin, OpenRelease, Rollback, CommitFinalize,
                PublishRelease, VInv, Types
  <2> QED
    BY <1>2, <1>3, <2>1, <2>2
<1>6. ASSUME NEW r \in Releases, CommitSingleton(r) \/ CommitMember(r)
      PROVE  /\ \A q \in Releases : Wrote(q, s)' => status'[q] \notin {"none", "singleton"}
             /\ Rows(s)' # {} => Has(s)'
  <2>1. PICK facts \in Facts : Write(facts, r)
    BY <1>6 DEF CommitSingleton, CommitMember
  <2>2. /\ status'[r] \notin {"none", "singleton"}
        /\ \A q \in Releases : status[q] \notin {"none", "singleton"} =>
                               status'[q] \notin {"none", "singleton"}
    <3>1. CASE CommitSingleton(r)
      BY <3>1 DEF CommitSingleton, PublishRelease
    <3>2. CASE CommitMember(r)
      <4>1. status[r] \notin {"none", "singleton"}
        BY <3>2 DEF CommitMember, WriterInv
      <4> QED
        BY <3>2, <4>1 DEF CommitMember
    <3> QED
      BY <1>6, <3>1, <3>2
  <2> QED
    BY <1>2, <1>4, <2>1, <2>2
<1>7. CASE UNCHANGED vars
  BY <1>2, <1>3, <1>7 DEF vars
<1> QED
  BY <1>1, <1>5, <1>6, <1>7 DEF Next

\* Who has written s after a step that does, or does not.
LEMMA StillWriters ==
  ASSUME NEW s \in Series, cube'[s] = cube[s], Rows(s)' = Rows(s)
  PROVE  \A q : Wrote(q, s)' <=> Wrote(q, s)
<1> QED
  BY DEF Wrote, Rows, Has

LEMMA NewWriter ==
  ASSUME Types, NEW s \in Series, NEW r \in Releases,
         Has(s)', cube'[s].release = r,
         Has(s) => Rows(s)' = Rows(s) \cup {Replaced(s, r)},
         ~Has(s) => Rows(s)' = Rows(s)
  PROVE  \A q : Wrote(q, s)' <=> Wrote(q, s) \/ q = r
<1>1. Has(s) => Replaced(s, r).setBy = cube[s].release /\ Replaced(s, r).supersededBy = r
  BY DEF Replaced
<1>2. \A q : Wrote(q, s)' <=> q = r \/ \E v \in Rows(s)' : q \in {v.setBy, v.supersededBy}
  BY DEF Wrote, Rows
<1> QED
  BY <1>1, <1>2, WroteByRows

\* A step that neither writes s nor publishes a release that has written it.
LEMMA ChainUntouched ==
  ASSUME Types, NEW s \in Series, Rows(s) # {} => Has(s), ChainOf(s),
         cube'[s] = cube[s], Rows(s)' = Rows(s),
         \A q \in Releases : Wrote(q, s) => publishedAt'[q] = publishedAt[q]
  PROVE  ChainOf(s)'
<1>1. \A v \in Rows(s) : /\ publishedAt'[v.setBy] = publishedAt[v.setBy]
                         /\ publishedAt'[v.supersededBy] = publishedAt[v.supersededBy]
  BY Writers
<1>2. Rows(s) # {} => publishedAt'[cube[s].release] = publishedAt[cube[s].release]
  BY Writers
<1>3. OneRival(s)'
  BY StillWriters DEF ChainOf, OneRival, Published
<1>4. \A v \in Rows(s) : (Stillborn(v)' <=> Stillborn(v)) /\ (Waiting(v)' <=> Waiting(v))
  BY <1>1 DEF Stillborn, Waiting, Published
<1>5. OnePublicValue(s)'
  BY <1>1, <1>4 DEF ChainOf, OnePublicValue, Published
<1>6. CubeIsLast(s)'
  BY <1>1, <1>2, <1>4 DEF ChainOf, CubeIsLast, Published
<1> QED
  BY <1>3, <1>5, <1>6 DEF ChainOf

\* The publication of r, which has written s, behind nobody: all writers of s are out.
LEMMA ChainPublished ==
  ASSUME Types, NEW s \in Series, Rows(s) # {} => Has(s), ChainOf(s),
         cube'[s] = cube[s], Rows(s)' = Rows(s),
         NEW r \in Releases, Wrote(r, s), ~Published(r), publishedAt'[r] \in Nat,
         \A q \in Releases \ {r} : publishedAt'[q] = publishedAt[q],
         \A q \in Releases : publishedAt[q] < publishedAt'[r]
  PROVE  ChainOf(s)'
<1>1. \A q \in Releases : Wrote(q, s) => Published(q)' /\ publishedAt'[q] >= publishedAt[q]
                                         /\ publishedAt'[q] \in Nat /\ publishedAt[q] \in Nat
  BY DEF ChainOf, OneRival, Published, Types
<1>2. \A v \in Rows(s) : /\ v.setBy \in Releases /\ v.supersededBy \in Releases
                         /\ Published(v.setBy)' /\ Published(v.supersededBy)'
  BY <1>1, Writers
<1>3. Rows(s) # {} => Published(cube[s].release)'
  BY <1>1, Writers
<1>4. OneRival(s)'
  BY <1>1, StillWriters DEF OneRival
<1>5. ASSUME NEW v \in Rows(s), Stillborn(v) PROVE Stillborn(v)'
  <2>1. CASE v.supersededBy = v.setBy
    BY <2>1 DEF Stillborn
  <2>2. CASE v.supersededBy # v.setBy
    <3>1. /\ Published(v.supersededBy) /\ v.supersededBy # r
          /\ Published(v.setBy) => publishedAt[v.supersededBy] < publishedAt[v.setBy]
      BY <1>5, <2>2 DEF Stillborn
    <3>2. publishedAt'[v.supersededBy] < publishedAt'[v.setBy]
      <4>1. CASE v.setBy = r
        BY <1>2, <3>1, <4>1
      <4>2. CASE v.setBy # r
        BY <1>2, <3>1, <4>2 DEF Published
      <4> QED
        BY <4>1, <4>2
    <3> QED
      BY <1>2, <3>2 DEF Stillborn
  <2> QED
    BY <2>1, <2>2
<1>6. OnePublicValue(s)'
  BY <1>2, <1>5 DEF ChainOf, OnePublicValue
<1>7. CubeIsLast(s)'
  BY <1>2, <1>3 DEF CubeIsLast, Waiting
<1> QED
  BY <1>4, <1>6, <1>7 DEF ChainOf

\* A write of s, by a bundle without rival that is not out, or by a release that is
\* published with it, behind nobody, and has not written s before.
LEMMA ChainWritten ==
  ASSUME Types, NEW s \in Series, Rows(s) # {} => Has(s), ChainOf(s),
         NEW r \in Releases, publishedAt'[r] \in Nat,
         Has(s)', cube'[s].release = r,
         Has(s) => Rows(s)' = Rows(s) \cup {Replaced(s, r)},
         ~Has(s) => Rows(s)' = Rows(s),
         \A q \in Releases \ {r} : publishedAt'[q] = publishedAt[q],
         \/ /\ ~Published(r) /\ publishedAt'[r] = publishedAt[r]
            /\ \A q \in Releases \ {r} : Wrote(q, s) => Published(q)
         \/ /\ ~Wrote(r, s) /\ Published(r)'
            /\ \A q \in Releases : publishedAt[q] < publishedAt'[r]
  PROVE  ChainOf(s)'
<1>1. \A q \in Releases : Wrote(q, s) => publishedAt'[q] = publishedAt[q]
  OBVIOUS
<1>2. \A v \in Rows(s) : /\ publishedAt'[v.setBy] = publishedAt[v.setBy]
                         /\ publishedAt'[v.supersededBy] = publishedAt[v.supersededBy]
                         /\ (Stillborn(v)' <=> Stillborn(v)) /\ (Waiting(v)' <=> Waiting(v))
  <2>1. \A v \in Rows(s) : /\ publishedAt'[v.setBy] = publishedAt[v.setBy]
                           /\ publishedAt'[v.supersededBy] = publishedAt[v.supersededBy]
    BY <1>1, Writers
  <2> QED
    BY <2>1 DEF Stillborn, Waiting, Published
<1>3. OneRival(s)'
  BY <1>1, NewWriter DEF ChainOf, OneRival, Published
<1>4. CASE ~Has(s)
  <2>1. Rows(s)' = {}
    BY <1>4
  <2> QED
    BY <1>3, <2>1 DEF ChainOf, OnePublicValue, CubeIsLast
<1>5. CASE Has(s)
  <2>0. PICK new : new = Replaced(s, r)
    OBVIOUS
  <2>1. PICK p \in Releases : p = cube[s].release /\ Wrote(p, s)
    BY <1>5, Writers
  <2>2. /\ new.setBy = p /\ new.supersededBy = r
        /\ Rows(s)' = Rows(s) \cup {new} /\ publishedAt'[p] = publishedAt[p]
    BY <1>1, <1>5, <2>0, <2>1 DEF Replaced
  <2>3. \A v \in Rows(s)' : ~Published(v.setBy)' => Stillborn(v)'
    <3>1. \A v \in Rows(s) : ~Published(v.setBy)' => Stillborn(v)'
      BY <1>2 DEF ChainOf, OnePublicValue, Published
    <3>2. ~Published(p)' => Stillborn(new)'
      BY <2>1, <2>2 DEF Stillborn, Published
    <3> QED
      BY <2>2, <3>1, <3>2
  <2>4. \A v \in Rows(s)' : v.setBy = r => Stillborn(v)'
    <3>1. CASE Published(r)'
      <4>1. p # r /\ \A v \in Rows(s) : v.setBy # r
        BY <2>1, <3>1, Writers DEF Published
      <4> QED
        BY <2>2, <4>1
    <3>2. CASE ~Published(r)'
      BY <2>3, <3>2
    <3> QED
      BY <3>1, <3>2
  <2>5. \A v \in Rows(s) : v.setBy = p => Stillborn(v)'
    BY <1>2, <2>1 DEF ChainOf, OnePublicValue
  <2>6. \A v, w \in Rows(s)' :
          v.setBy = w.setBy /\ ~Stillborn(v)' /\ ~Stillborn(w)' => v = w
    <3>1. \A v, w \in Rows(s) :
            v.setBy = w.setBy /\ ~Stillborn(v)' /\ ~Stillborn(w)' => v = w
      BY <1>2 DEF ChainOf, OnePublicValue
    <3> QED
      BY <2>2, <2>5, <3>1
  <2>7. OnePublicValue(s)'
    BY <2>3, <2>4, <2>6 DEF OnePublicValue
  <2>8. \A v \in Rows(s)' : v.setBy \in Releases
    BY <2>1, <2>2, Writers
  <2>9. CASE Published(r)'
    <3>1. \A q \in Releases : q # r => publishedAt'[q] < publishedAt'[r]
      BY <2>9 DEF Published
    <3>2. \A v \in Rows(s)' : Waiting(v)' => publishedAt'[v.setBy] < publishedAt'[r]
      <4>1. p # r /\ \A v \in Rows(s) : v.setBy # r
        BY <2>1, <2>9, Writers DEF Published
      <4> QED
        BY <2>2, <2>8, <3>1, <4>1
    <3> QED
      BY <1>3, <2>7, <2>9, <3>2 DEF ChainOf, CubeIsLast
  <2>10. CASE ~Published(r)'
    <3>1. ASSUME NEW v \in Rows(s)', Published(v.setBy)' PROVE \E w \in Rows(s)' : Waiting(w)'
      <4>1. CASE Published(p)
        BY <2>2, <2>10, <4>1 DEF Waiting, Published
      <4>2. CASE ~Published(p)
        <5>1. v \in Rows(s) /\ Published(v.setBy)
          BY <1>2, <2>2, <3>1, <4>2 DEF Published
        <5>2. PICK w \in Rows(s) : Waiting(w)
          BY <2>1, <4>2, <5>1 DEF ChainOf, CubeIsLast
        <5> QED
          BY <1>2, <2>2, <5>2
      <4> QED
        BY <4>1, <4>2
    <3>2. CubeIsLast(s)'
      BY <2>10, <3>1 DEF CubeIsLast
    <3> QED
      BY <1>3, <2>7, <3>2 DEF ChainOf
  <2> QED
    BY <2>9, <2>10
<1> QED
  BY <1>4, <1>5

\* The publication of r, in a step that is not behind anybody who matters to s.
LEMMA AfterAll ==
  ASSUME Types, NEW s \in Series, NEW r \in Releases, publishedAt[r] = 0,
         publishedAt'[r] \in Nat, publishedAt'[r] # 0,
         \A q \in Releases : publishedAt[q] # publishedAt'[r],
         ~Backdated(s), Wrote(r, s)'
  PROVE  \A q \in Releases : publishedAt[q] < publishedAt'[r]
<1>1. \A q \in Releases : ~Behind(r, q)
  BY DEF Backdated
<1> QED
  BY <1>1 DEF Behind, Published, Types

LEMMA StepChain ==
  ASSUME VInv, ChainInv, [Next]_vars
  PROVE  ChainInv'
<1>1. WriterInv'
  BY StepWriters DEF ChainInv
<1>2. ASSUME NEW s \in Series \ tangled' PROVE ChainOf(s)'
  <2>0. Types /\ s \in Series /\ (Rows(s) # {} => Has(s))
    BY DEF VInv, ChainInv, WriterInv
  <2>1. s \notin tangled
    BY DEF Next, BeginSingleton, BeginFinalize, Begin, OpenRelease, Rollback, Note, vars,
           CommitSingleton, CommitMember, CommitFinalize
  <2>2. ChainOf(s)
    BY <2>0, <2>1 DEF ChainInv
  <2>3. ASSUME UNCHANGED <<cube, log, publishedAt>> PROVE ChainOf(s)'
    BY <2>0, <2>2, <2>3, ChainUntouched DEF Rows
  <2>4. ASSUME NEW r \in Releases,
               BeginSingleton(r) \/ BeginFinalize(r) \/ OpenRelease(r) \/ Rollback(r)
        PROVE  ChainOf(s)'
    BY <2>3, <2>4 DEF BeginSingleton, BeginFinalize, Begin, OpenRelease, Rollback
  <2>5. ASSUME Note
        PROVE  ~Restated(s) /\ ~Late(s) /\ ~Rivals(s) /\ ~Backdated(s) /\ ~Bypassed(s)
    BY <2>0, <2>5 DEF Note
  <2>6. ASSUME NEW r \in Releases, CommitSingleton(r) PROVE ChainOf(s)'
    <3>1. PICK facts \in Facts : Write(facts, r)
      BY <2>6 DEF CommitSingleton
    <3>2. /\ publishedAt[r] = 0 /\ publishedAt'[r] \in Nat /\ publishedAt'[r] # 0
          /\ \A q \in Releases \ {r} : publishedAt'[q] = publishedAt[q]
          /\ \A q \in Releases : publishedAt[q] # publishedAt'[r]
      BY <2>6, PublishReleaseInv DEF CommitSingleton, Running
    <3>3. ~Wrote(r, s)
      BY <2>0, <2>6 DEF CommitSingleton, ChainInv, WriterInv
    <3>4. CASE cube'[s] = cube[s] /\ Rows(s)' = Rows(s)
      BY <2>0, <2>2, <3>2, <3>3, <3>4, ChainUntouched
    <3>5. CASE /\ Has(s)' /\ cube'[s].release = r
               /\ Has(s) /\ ~Restated(s) => Rows(s)' = Rows(s) \cup {Replaced(s, r)}
               /\ ~Has(s) => Rows(s)' = Rows(s)
      <4>1. ~Restated(s) /\ ~Backdated(s)
        BY <2>5, <2>6 DEF CommitSingleton
      <4>2. Wrote(r, s)'
        BY <3>5 DEF Wrote
      <4>3. \A q \in Releases : publishedAt[q] < publishedAt'[r]
        BY <2>0, <3>2, <4>1, <4>2, AfterAll
      <4> QED
        BY <2>0, <2>2, <3>2, <3>3, <3>5, <4>1, <4>3, ChainWritten DEF Published
    <3> QED
      BY <2>0, <3>1, <3>4, <3>5, WriteSeries
  <2>7. ASSUME NEW r \in Releases, CommitMember(r) PROVE ChainOf(s)'
    <3>1. PICK facts \in Facts : Write(facts, r)
      BY <2>7 DEF CommitMember
    <3>2. publishedAt' = publishedAt /\ publishedAt[r] \in Nat
      BY <2>0, <2>7 DEF CommitMember, Types
    <3>3. CASE cube'[s] = cube[s] /\ Rows(s)' = Rows(s)
      BY <2>0, <2>2, <3>2, <3>3, ChainUntouched
    <3>4. CASE /\ cube'[s] # cube[s] /\ Has(s)' /\ cube'[s].release = r
               /\ Has(s) /\ ~Restated(s) => Rows(s)' = Rows(s) \cup {Replaced(s, r)}
               /\ ~Has(s) => Rows(s)' = Rows(s)
      <4>1. ~Restated(s) /\ ~Late(s) /\ ~Rivals(s)
        BY <2>5, <2>7 DEF CommitMember
      <4>2. ~Published(r)
        BY <3>2, <3>4, <4>1 DEF Late, Published
      <4>3. \A q \in Releases \ {r} : Wrote(q, s) => Published(q)
        BY <3>2, <3>4, <4>1, <4>2 DEF Rivals, Published
      <4> QED
        BY <2>0, <2>2, <3>2, <3>4, <4>1, <4>2, <4>3, ChainWritten
    <3> QED
      BY <2>0, <3>1, <3>3, <3>4, WriteSeries
  <2>8. ASSUME NEW r \in Releases, CommitFinalize(r) PROVE ChainOf(s)'
    <3>1. cube'[s] = cube[s] /\ Rows(s)' = Rows(s)
      BY <2>8 DEF CommitFinalize, Rows
    <3>2. /\ publishedAt[r] = 0 /\ publishedAt'[r] \in Nat /\ publishedAt'[r] # 0
          /\ \A q \in Releases \ {r} : publishedAt'[q] = publishedAt[q]
          /\ \A q \in Releases : publishedAt[q] # publishedAt'[r]
      BY <2>8, PublishReleaseInv DEF CommitFinalize, Running
    <3>3. CASE ~Wrote(r, s)
      BY <2>0, <2>2, <3>1, <3>2, <3>3, ChainUntouched
    <3>4. CASE Wrote(r, s)
      <4>1. ~Backdated(s) /\ Wrote(r, s)'
        BY <2>0, <2>5, <2>8, <3>1, <3>4, StillWriters DEF CommitFinalize
      <4>2. \A q \in Releases : publishedAt[q] < publishedAt'[r]
        BY <2>0, <3>2, <4>1, AfterAll
      <4> QED
        BY <2>0, <2>2, <3>1, <3>2, <3>4, <4>2, ChainPublished DEF Published
    <3> QED
      BY <3>3, <3>4
  <2>9. CASE UNCHANGED vars
    BY <2>3, <2>9 DEF vars
  <2> QED
    BY <2>4, <2>6, <2>7, <2>8, <2>9 DEF Next
<1> QED
  BY <1>1, <1>2 DEF ChainInv

LEMMA ChainHolds == Spec => [](VInv /\ ChainInv)
<1>1. ASSUME Init PROVE ChainInv
  <2>1. \A s \in Series : ~Has(s) /\ Rows(s) = {} /\ \A q : ~Wrote(q, s)
    BY <1>1 DEF Init, Has, Rows, Wrote
  <2>2. \A r \in Bundles : status[r] # "singleton"
    BY <1>1, ConstantsOK DEF Init
  <2> QED
    BY <2>1, <2>2 DEF ChainInv, WriterInv, ChainOf, OneRival, OnePublicValue, CubeIsLast
<1>2. Init => VInv /\ ChainInv
  BY <1>1, InitInv
<1>3. VInv /\ ChainInv /\ [Next]_vars => (VInv /\ ChainInv)'
  BY StepInv, StepChain
<1> QED
  BY <1>2, <1>3, PTL DEF Spec

-----------------------------------------------------------------------------
(* The latest of the candidates.                                            *)

\* A set of instants up to n has a last one: of the intervals from one of them to n, a
\* smallest begins there.
LEMMA LastInstant ==
  ASSUME NEW n \in Nat, NEW T \in SUBSET (1..n), T # {}
  PROVE  \E x \in T : \A y \in T : y <= x
<1> DEFINE R == StrictSubsetOrdering(1..n)
           F == {x..n : x \in T}
<1>1. F \subseteq FiniteSubsetsOf(1..n) /\ F # {}
  <2>1. ASSUME NEW x \in T PROVE IsFiniteSet(x..n) /\ x..n \subseteq 1..n
    <3>1. x \in Int /\ n \in Int /\ x \in 1..n
      OBVIOUS
    <3> QED
      BY <3>1, FS_Interval
  <2> QED
    BY <2>1 DEF FiniteSubsetsOf
<1>2. IsWellFoundedOn(R, FiniteSubsetsOf(1..n))
  BY FS_StrictSubsetOrderingWellFounded
<1>3. PICK U \in F : \A V \in F : <<V, U>> \notin R
  <2> HIDE DEF R, F
  <2> QED
    BY <1>1, <1>2, WFMin
<1>4. PICK x \in T : U = x..n
  BY <1>3
<1>5. ASSUME NEW y \in T, y > x PROVE FALSE
  <2>1. y..n \in F /\ <<y..n, U>> \notin R
    BY <1>3
  <2>2. y..n \subseteq 1..n /\ U \subseteq 1..n /\ y..n \subseteq U
    BY <1>4, <1>5
  <2>3. x \in U /\ x \notin y..n
    BY <1>4, <1>5
  <2> QED
    BY <2>1, <2>2, <2>3 DEF StrictSubsetOrdering
<1> QED
  BY <1>5

\* DISTINCT ON picks the value of a candidate that begins last.
LEMMA LatestIsLast ==
  ASSUME NEW n \in Nat, NEW C \in SUBSET [from : 1..n, value : Values], C # {}
  PROVE  \E c \in C : Latest(C) = c.value /\ \A d \in C : d.from <= c.from
<1> DEFINE T == {c.from : c \in C}
<1>1. T \subseteq 1..n /\ T # {}
  OBVIOUS
<1>2. PICK x \in T : \A y \in T : y <= x
  BY <1>1, LastInstant
<1>3. PICK c \in C : c.from = x
  OBVIOUS
<1>4. \A d \in C : d.from <= c.from
  BY <1>2, <1>3
<1>5. PICK e \in C : e = (CHOOSE b \in C : \A d \in C : d.from <= b.from)
                     /\ \A d \in C : d.from <= e.from
  BY <1>4
<1> QED
  BY <1>5 DEF Latest

LEMMA CandidateTypes ==
  ASSUME Types, NEW s \in Series, NEW t \in Nat
  PROVE  Candidates(s, t) \in SUBSET [from : 1..t, value : Values]
<1>1. Live(s, t) \subseteq [from : 1..t, value : Values]
  <2> SUFFICES ASSUME Has(s), publishedAt[cube[s].release] \in 1..t
               PROVE  [from |-> publishedAt[cube[s].release], value |-> cube[s].value]
                        \in [from : 1..t, value : Values]
    BY DEF Live
  <2>1. cube[s] \in Observation
    BY DEF Types, Has
  <2> QED
    BY <2>1 DEF Observation
<1>2. PreImages(s, t) \subseteq [from : 1..t, value : Values]
  BY DEF PreImages, Covers, Types, Revision
<1> QED
  BY <1>1, <1>2 DEF Candidates

LEMMA FiguresAreValues ==
  ASSUME Types, NEW s \in Series, NEW t \in Nat
  PROVE  /\ AsOf(t)[s] = Latest(Candidates(s, t))
         /\ Candidates(s, t) = {} => AsOf(t)[s] = None
         /\ Candidates(s, t) # {} => AsOf(t)[s] \in Values /\ AsOf(t)[s] # None
<1>1. AsOf(t)[s] = Latest(Candidates(s, t))
  BY DEF AsOf
<1>2. Candidates(s, t) = {} => AsOf(t)[s] = None
  BY <1>1 DEF Latest
<1>3. ASSUME Candidates(s, t) # {}
      PROVE  AsOf(t)[s] \in Values /\ AsOf(t)[s] # None
  <2>1. PICK c \in Candidates(s, t) : Latest(Candidates(s, t)) = c.value
    BY <1>3, CandidateTypes, LatestIsLast
  <2> QED
    BY <1>1, <2>1, CandidateTypes, ConstantsOK
<1> QED
  BY <1>1, <1>2, <1>3

\* The candidates of now: the cube, where its release is out, and what is waiting.
LEMMA CandidatesOfNow ==
  ASSUME VInv, NEW s \in Series
  PROVE  Candidates(s, clock) =
           (IF Has(s) /\ Published(cube[s].release)
            THEN {[from |-> publishedAt[cube[s].release], value |-> cube[s].value]}
            ELSE {})
           \cup {[from |-> publishedAt[v.setBy], value |-> v.value] :
                   v \in {w \in Rows(s) : Waiting(w)}}
<1>1. \A q \in Releases : publishedAt[q] \in 1..clock <=> Published(q)
  BY DEF VInv, Types, ClockInv, Published
<1>2. Has(s) => cube[s].release \in Releases
  BY DEF VInv, Types, Has, Observation
<1>3. \A v \in Rows(s) : Covers(v, clock) <=> Waiting(v)
  <2>1. \A v \in Rows(s) : v.setBy \in Releases /\ v.supersededBy \in Releases
    BY Writers DEF VInv
  <2>2. \A q \in Releases : publishedAt[q] > clock <=> FALSE
    BY DEF VInv, Types, ClockInv
  <2> QED
    BY <1>1, <2>1, <2>2 DEF Covers, Waiting
<1>4. PreImages(s, clock) = {[from |-> publishedAt[v.setBy], value |-> v.value] :
                               v \in {w \in Rows(s) : Waiting(w)}}
  <2>1. {w \in Rows(s) : Covers(w, clock)} = {w \in Rows(s) : Waiting(w)}
    BY <1>3
  <2> QED
    BY <2>1, ByRows
<1>5. Live(s, clock) =
        IF Has(s) /\ Published(cube[s].release)
        THEN {[from |-> publishedAt[cube[s].release], value |-> cube[s].value]} ELSE {}
  BY <1>1, <1>2 DEF Live
<1> QED
  BY <1>4, <1>5 DEF Candidates

-----------------------------------------------------------------------------

\* Two candidates that begin together come from one release, and of its values for the
\* series one at most is public.
LEMMA Determined ==
  ASSUME VInv, NEW s \in Series, ChainOf(s), NEW t \in Nat,
         NEW c \in Candidates(s, t), NEW d \in Candidates(s, t), c.from = d.from
  PROVE  c = d
<1>1. ASSUME NEW v \in Rows(s), Covers(v, t)
      PROVE  Published(v.setBy) /\ v.setBy \in Releases /\ ~Stillborn(v)
  <2>1. v.setBy \in Releases /\ v.supersededBy \in Releases
    BY Writers DEF VInv
  <2>2. /\ publishedAt[v.setBy] \in Nat /\ publishedAt[v.supersededBy] \in Nat
        /\ publishedAt[v.setBy] \in 1..t
        /\ publishedAt[v.supersededBy] = 0 \/ publishedAt[v.supersededBy] > t
    BY <1>1, <2>1 DEF VInv, Types, Covers, Published
  <2> QED
    BY <2>1, <2>2 DEF Stillborn, Published
<1>2. ASSUME NEW x \in Live(s, t)
      PROVE  /\ Has(s) /\ cube[s].release \in Releases /\ Published(cube[s].release)
             /\ x = [from |-> publishedAt[cube[s].release], value |-> cube[s].value]
  BY <1>2 DEF Live, VInv, Types, Has, Observation, Published
<1>3. ASSUME NEW x \in PreImages(s, t)
      PROVE  \E v \in Rows(s) : /\ ~Stillborn(v)
                                /\ v.setBy \in Releases /\ Published(v.setBy)
                                /\ x = [from |-> publishedAt[v.setBy], value |-> v.value]
  BY <1>1, <1>3, ByRows
<1>4. \A q, r \in Releases : Published(q) /\ publishedAt[q] = publishedAt[r] => q = r
  BY DEF VInv, ClockInv
<1>5. ASSUME NEW x \in Live(s, t), NEW y \in PreImages(s, t), x.from = y.from
      PROVE  FALSE
  <2>1. PICK v \in Rows(s) : /\ ~Stillborn(v)
                             /\ v.setBy \in Releases /\ Published(v.setBy)
                             /\ y = [from |-> publishedAt[v.setBy], value |-> v.value]
    BY <1>3
  <2>2. cube[s].release \in Releases /\ x.from = publishedAt[cube[s].release]
    BY <1>2
  <2>3. y.from = publishedAt[v.setBy]
    BY <2>1
  <2>4. v.setBy = cube[s].release
    BY <1>4, <1>5, <2>1, <2>2, <2>3
  <2> QED
    BY <2>1, <2>4 DEF ChainOf, OnePublicValue
<1>6. ASSUME c \in PreImages(s, t), d \in PreImages(s, t) PROVE c = d
  <2>1. PICK v \in Rows(s) : /\ ~Stillborn(v)
                             /\ v.setBy \in Releases /\ Published(v.setBy)
                             /\ c = [from |-> publishedAt[v.setBy], value |-> v.value]
    BY <1>3, <1>6
  <2>2. PICK w \in Rows(s) : /\ ~Stillborn(w)
                             /\ w.setBy \in Releases /\ Published(w.setBy)
                             /\ d = [from |-> publishedAt[w.setBy], value |-> w.value]
    BY <1>3, <1>6
  <2>3. c.from = publishedAt[v.setBy] /\ d.from = publishedAt[w.setBy]
    BY <2>1, <2>2
  <2>4. v.setBy = w.setBy
    BY <1>4, <2>1, <2>2, <2>3
  <2>5. v = w
    BY <2>1, <2>2, <2>4 DEF ChainOf, OnePublicValue
  <2> QED
    BY <2>1, <2>2, <2>5
<1>7. ASSUME c \in Live(s, t), d \in Live(s, t) PROVE c = d
  BY <1>2, <1>7
<1> QED
  BY <1>5, <1>6, <1>7 DEF Candidates

\* observations.ts: "collapses each series to the single value live AT D". In a series
\* that nothing has disturbed it never has to choose, however singletons and bundles
\* interleave in it, and whatever happens to the others.
THEOREM FiguresAreDetermined == Spec => []AsOfIsDetermined
<1>1. VInv /\ ChainInv => AsOfIsDetermined
  <2> SUFFICES ASSUME VInv, ChainInv, NEW s \in Series \ tangled, NEW t \in 1..clock,
                      NEW c \in Candidates(s, t), NEW d \in Candidates(s, t), c.from = d.from
               PROVE  c = d
    BY DEF AsOfIsDetermined
  <2>1. t \in Nat /\ ChainOf(s)
    BY DEF VInv, Types, ChainInv
  <2> QED
    BY <2>1, Determined
<1> QED
  BY <1>1, ChainHolds, PTL

\* The figures as of now of an undisturbed series are the cube's, or, where a bundle is
\* being written, what is waiting for it.
THEOREM FiguresOfNow == Spec => []NowIsTheCube
<1>1. ASSUME VInv, ChainInv, NEW s \in Series \ tangled, Has(s)
      PROVE  \/ Published(cube[s].release) /\ AsOf(clock)[s] = cube[s].value
             \/ /\ ~Published(cube[s].release)
                /\ AsOf(clock)[s] # None <=> \E v \in log : v.series = s /\ Published(v.setBy)
  <2> DEFINE W == {w \in Rows(s) : Waiting(w)}
  <2>0. Types /\ clock \in Nat /\ ChainOf(s)
    BY <1>1 DEF VInv, Types, ChainInv
  <2>1. CASE Published(cube[s].release)
    <3> DEFINE now == [from |-> publishedAt[cube[s].release], value |-> cube[s].value]
    <3>1. now \in Candidates(s, clock)
      BY <1>1, <2>1, CandidatesOfNow
    <3>2. ASSUME NEW d \in Candidates(s, clock), d # now PROVE d.from < now.from
      <4>1. PICK v \in W : d = [from |-> publishedAt[v.setBy], value |-> v.value]
        BY <1>1, <2>1, <3>2, CandidatesOfNow
      <4>2. publishedAt[v.setBy] < publishedAt[cube[s].release]
        BY <2>0, <2>1, <4>1 DEF ChainOf, CubeIsLast
      <4> QED
        BY <4>1, <4>2
    <3>3. PICK c \in Candidates(s, clock) :
            /\ Latest(Candidates(s, clock)) = c.value
            /\ \A d \in Candidates(s, clock) : d.from <= c.from
      BY <2>0, <3>1, CandidateTypes, LatestIsLast
    <3>4. c.from \in Nat /\ now.from \in Nat
      BY <2>0, <3>1, <3>3, CandidateTypes
    <3>5. c = now
      <4> HIDE DEF now
      <4> QED
        BY <3>1, <3>2, <3>3, <3>4
    <3> QED
      BY <2>0, <2>1, <3>3, <3>5, FiguresAreValues
  <2>2. CASE ~Published(cube[s].release)
    <3>1. Candidates(s, clock) = {[from |-> publishedAt[v.setBy], value |-> v.value] : v \in W}
      BY <1>1, <2>2, CandidatesOfNow
    <3>2. Candidates(s, clock) # {} <=> \E v \in Rows(s) : Waiting(v)
      BY <3>1
    <3>3. (\E v \in Rows(s) : Waiting(v)) <=> \E v \in log : v.series = s /\ Published(v.setBy)
      BY <2>0, <2>2 DEF ChainOf, CubeIsLast, Waiting, Rows
    <3> QED
      BY <2>0, <2>2, <3>2, <3>3, FiguresAreValues
  <2> QED
    BY <2>1, <2>2
<1>2. VInv /\ ChainInv => NowIsTheCube
  BY <1>1 DEF NowIsTheCube
<1> QED
  BY <1>2, ChainHolds, PTL
-----------------------------------------------------------------------------
(* The vintages and the figures of now are a ledger.                        *)

\* Is there a figure of s now?
HasFigure(s) ==
  \/ Has(s) /\ Published(cube[s].release)
  \/ \E v \in Rows(s) : Waiting(v)

LEMMA FiguresNow ==
  VInv => \A s \in Series : IF HasFigure(s) THEN AsOf(clock)[s] \in Values
                                            ELSE AsOf(clock)[s] = None
<1> SUFFICES ASSUME VInv, NEW s \in Series
             PROVE  IF HasFigure(s) THEN AsOf(clock)[s] \in Values ELSE AsOf(clock)[s] = None
  OBVIOUS
<1>1. HasFigure(s) <=> Candidates(s, clock) # {}
  <2> DEFINE W == {w \in Rows(s) : Waiting(w)}
             C == IF Has(s) /\ Published(cube[s].release)
                  THEN {[from |-> publishedAt[cube[s].release], value |-> cube[s].value]}
                  ELSE {}
             P == {[from |-> publishedAt[v.setBy], value |-> v.value] : v \in W}
  <2>1. Candidates(s, clock) = C \cup P
    BY CandidatesOfNow
  <2>2. (C # {} <=> Has(s) /\ Published(cube[s].release)) /\ (P # {} <=> W # {})
    OBVIOUS
  <2>3. HasFigure(s) <=> C # {} \/ W # {}
    BY <2>2 DEF HasFigure
  <2> HIDE DEF C, P
  <2> QED
    BY <2>1, <2>2, <2>3
<1>2. Types /\ clock \in Nat
  BY DEF VInv, Types
<1> QED
  BY <1>1, <1>2, FiguresAreValues

LEMMA FiguresThen ==
  (VInv => \A s \in Series : IF HasFigure(s) THEN AsOf(clock)[s] \in Values
                                             ELSE AsOf(clock)[s] = None)'
<1> QED
  BY FiguresNow, PTL

\* From the last publication of one of its writers on, the figure of s stays.
LEMMA SameFromThenOn ==
  ASSUME Types, NEW s \in Series, NEW t \in Nat, NEW u \in Nat, t <= u,
         \A q \in Releases : Wrote(q, s) => publishedAt[q] <= t
  PROVE  AsOf(t)[s] = AsOf(u)[s]
<1>1. ASSUME NEW v \in Rows(s) PROVE Covers(v, t) <=> Covers(v, u)
  <2>1. /\ publishedAt[v.setBy] \in Nat /\ publishedAt[v.setBy] <= t
        /\ publishedAt[v.supersededBy] \in Nat /\ publishedAt[v.supersededBy] <= t
    BY Writers DEF Types
  <2> QED
    BY <2>1 DEF Covers
<1>2. PreImages(s, t) = PreImages(s, u)
  <2>1. {w \in Rows(s) : Covers(w, t)} = {w \in Rows(s) : Covers(w, u)}
    BY <1>1
  <2> QED
    BY <2>1, ByRows
<1>3. Live(s, t) = Live(s, u)
  <2>1. CASE ~Has(s)
    BY <2>1 DEF Live
  <2>2. CASE Has(s)
    <3>1. publishedAt[cube[s].release] \in Nat /\ publishedAt[cube[s].release] <= t
      BY <2>2, Writers DEF Types
    <3> QED
      BY <3>1 DEF Live
  <2> QED
    BY <2>1, <2>2
<1> QED
  BY <1>2, <1>3 DEF AsOf, Candidates

LEMMA SameFromThenOnThen ==
  ASSUME NEW CONSTANT s \in Series
  PROVE  (\A t, u \in Nat :
            Types /\ t <= u /\ (\A q \in Releases : Wrote(q, s) => publishedAt[q] <= t)
              => AsOf(t)[s] = AsOf(u)[s])'
<1>1. \A t, u \in Nat :
        Types /\ t <= u /\ (\A q \in Releases : Wrote(q, s) => publishedAt[q] <= t)
          => AsOf(t)[s] = AsOf(u)[s]
  BY SameFromThenOn
<1> QED
  BY <1>1, PTL

\* A publication files the figures it leaves: the figure of an undisturbed series at the
\* instant its release is published is the one of now.
LEMMA FiledAsOfNow ==
  ASSUME VInv, VInv', NEW r \in Releases, CommitSingleton(r) \/ CommitFinalize(r),
         NEW CONSTANT s \in Series, ~Backdated(s), ~Bypassed(s), Deed(r, s)
  PROVE  AsOf(publishedAt[r])'[s] = AsOf(clock)'[s]
<1>1. /\ publishedAt[r] = 0 /\ publishedAt'[r] # 0 /\ clock' \in Nat
      /\ \A q \in Releases : publishedAt'[q] \in Nat /\ publishedAt'[q] <= clock'
      /\ \A q \in Releases \ {r} : publishedAt'[q] = publishedAt[q]
      /\ \A q \in Releases : publishedAt[q] # publishedAt'[r]
  BY PublishReleaseInv DEF CommitSingleton, CommitFinalize, Running, VInv, Types, ClockInv
<1>2. ASSUME NEW q \in Releases, Wrote(q, s)' PROVE publishedAt'[q] <= publishedAt'[r]
  <2>1. CASE Wrote(r, s)'
    <3>1. \A p \in Releases : publishedAt[p] < publishedAt'[r]
      BY <1>1, <2>1, AfterAll DEF VInv
    <3> QED
      BY <1>1, <3>1
  <2>2. CASE ~Wrote(r, s)'
    <3>1. cube'[s] = cube[s] /\ Rows(s)' = Rows(s)
      BY <2>2 DEF Deed, Wrote
    <3>2. Wrote(q, s) /\ q # r
      BY <1>2, <2>2, <3>1, StillWriters
    <3>3. ~Behind(r, q)
      BY <3>2 DEF Bypassed
    <3> QED
      BY <1>1, <3>2, <3>3 DEF Behind, Published, VInv, Types
  <2> QED
    BY <2>1, <2>2
<1>3. PICK t \in Nat, u \in Nat : t = publishedAt'[r] /\ u = clock' /\ t <= u
  BY <1>1
<1>4. AsOf(t)'[s] = AsOf(u)'[s]
  BY <1>2, <1>3, SameFromThenOnThen DEF VInv
<1> QED
  BY <1>3, <1>4

\* No publication withdraws a figure: what it replaces had one because the cube has one.
LEMMA FiguresStay ==
  ASSUME VInv, ChainInv, NEW r \in Releases, CommitSingleton(r) \/ CommitFinalize(r),
         NEW s \in Series, ChainOf(s), Deed(r, s), HasFigure(s)
  PROVE  HasFigure(s)'
<1>1. /\ publishedAt'[r] # 0 /\ ~Published(r)
      /\ \A q \in Releases \ {r} : publishedAt'[q] = publishedAt[q]
  BY PublishReleaseInv DEF CommitSingleton, CommitFinalize, Running, Published
<1>2. /\ Has(s) /\ cube[s].release \in Releases /\ Wrote(cube[s].release, s)
      /\ \A v \in Rows(s) : /\ v.setBy \in Releases /\ Wrote(v.setBy, s)
                            /\ v.supersededBy \in Releases /\ Wrote(v.supersededBy, s)
  BY Writers DEF HasFigure, ChainInv, WriterInv, VInv
<1>3. CASE Has(s)' /\ cube'[s].release = r
  BY <1>1, <1>3 DEF HasFigure, Published
<1>4. CASE cube'[s] = cube[s] /\ Rows(s)' = Rows(s)
  <2>1. CASE Published(cube[s].release)
    BY <1>1, <1>2, <1>4, <2>1 DEF HasFigure, Has, Published
  <2>2. ASSUME NEW v \in Rows(s), Waiting(v), ~Published(cube[s].release)
        PROVE  HasFigure(s)'
    <3>1. v.supersededBy = cube[s].release
      BY <1>2, <2>2 DEF ChainOf, OneRival, Waiting
    <3>2. CASE v.supersededBy = r
      BY <1>1, <1>2, <1>4, <3>1, <3>2 DEF HasFigure, Has, Published
    <3>3. CASE v.supersededBy # r
      <4>1. Waiting(v)'
        BY <1>1, <1>2, <2>2, <3>3 DEF Waiting, Published
      <4> QED
        BY <1>4, <4>1 DEF HasFigure
    <3> QED
      BY <3>2, <3>3
  <2> QED
    BY <2>1, <2>2 DEF HasFigure
<1> QED
  BY <1>3, <1>4 DEF Deed

\* What a commit leaves undisturbed was undisturbed, and its figures in the vintages that
\* are out stay.
LEMMA CommitKeeps ==
  ASSUME VInv, NEW r \in Releases,
         CommitSingleton(r) \/ CommitMember(r) \/ CommitFinalize(r),
         NEW CONSTANT s \in Series \ tangled'
  PROVE  /\ s \in Series /\ s \notin tangled /\ Deed(r, s)
         /\ ~Restated(s) /\ ~Late(s) /\ ~Backdated(s) /\ ~Bypassed(s)
         /\ \A p \in Releases : Published(p) =>
              publishedAt'[p] = publishedAt[p] /\ Vintage(p)'[s] = Vintage(p)[s]
<1>1. Note /\ s \in Series
  BY DEF CommitSingleton, CommitMember, CommitFinalize
<1>2. s \notin tangled /\ ~Restated(s) /\ ~Late(s) /\ ~Backdated(s) /\ ~Bypassed(s)
  BY <1>1 DEF Note
<1>3. Deed(r, s)
  BY <1>1, CommitIsDeed
<1>4. ASSUME NEW p \in Releases, Published(p)
      PROVE  publishedAt'[p] = publishedAt[p] /\ Vintage(p)'[s] = Vintage(p)[s]
  <2>1. PICK t \in Nat : t = publishedAt[p]
    BY DEF VInv, Types
  <2>2. publishedAt'[p] = t
    BY <1>1, <1>2, <1>3, <1>4, <2>1, DeedKeepsFigures
  <2>3. Vintage(p)'[s] = Vintage(p)[s]
    BY <1>1, <1>2, <1>4, StepKeepsVintages DEF Next
  <2> QED
    BY <2>1, <2>2, <2>3
<1> QED
  BY <1>1, <1>2, <1>3, <1>4

\* A publication files the figures it leaves as the vintage of its release.
LEMMA CommitPublishes ==
  ASSUME VInv, ChainInv, VInv', ChainInv', NEW r \in Releases,
         CommitSingleton(r) \/ CommitFinalize(r)
  PROVE  Ledger!Publish(r, Series \ tangled')
<1> DEFINE C == Series \ tangled'
           new == AsOf(clock)'
           old == AsOf(clock)
           S == {s \in C : new[s] # old[s]}
           L == [q \in {p \in Releases : Published(p)} |-> Figures(publishedAt[q])]
<1>1. /\ publishedAt'[r] # 0 /\ ~Published(r)
      /\ \A q \in Releases \ {r} : publishedAt'[q] = publishedAt[q]
  BY PublishReleaseInv DEF CommitSingleton, CommitFinalize, Running, Published
<1>2. ASSUME NEW s \in C
      PROVE  /\ s \in Series /\ s \notin tangled /\ Deed(r, s) /\ ChainOf(s)
             /\ ~Backdated(s) /\ ~Bypassed(s)
             /\ \A p \in Releases : Published(p) =>
                  publishedAt'[p] = publishedAt[p] /\ Vintage(p)'[s] = Vintage(p)[s]
  BY CommitKeeps DEF ChainInv
<1>3. ASSUME NEW s \in S PROVE new[s] \in Values
  <2>1. IF HasFigure(s)' THEN new[s] \in Values ELSE new[s] = None
    BY <1>2, FiguresThen
  <2>2. IF HasFigure(s) THEN old[s] \in Values ELSE old[s] = None
    BY <1>2, FiguresNow
  <2>3. HasFigure(s) => HasFigure(s)'
    BY <1>2, FiguresStay
  <2> QED
    BY <2>1, <2>2, <2>3
<1>4. Figures(clock)' = [s \in C |-> new[s]]
  BY DEF Figures
<1>5. \A s \in C : Figures(clock)[s] = old[s]
  BY <1>2 DEF Figures
<1>6. \E T \in SUBSET C : \E facts \in [T -> Values] :
        Figures(clock)' = [s \in C |-> IF s \in T THEN facts[s] ELSE Figures(clock)[s]]
  <2>1. [s \in S |-> new[s]] \in [S -> Values]
    BY <1>3
  <2>2. Figures(clock)' =
          [s \in C |-> IF s \in S THEN [x \in S |-> new[x]][s] ELSE Figures(clock)[s]]
    <3> HIDE DEF new, old, C
    <3> QED
      BY <1>4, <1>5
  <2> QED
    BY <2>1, <2>2
<1>7. r \notin DOMAIN L
  BY <1>1
<1>8. L' = [q \in DOMAIN L \cup {r} |->
              IF q = r THEN Figures(clock)' ELSE [s \in C |-> L[q][s]]]
  <2>1. {p \in Releases : Published(p)}' = DOMAIN L \cup {r}
    BY <1>1 DEF Published
  <2>2. Figures(publishedAt[r])' = Figures(clock)'
    <3>1. \A s \in C : AsOf(publishedAt[r])'[s] = new[s]
      BY <1>2, FiledAsOfNow
    <3>2. Figures(publishedAt[r])' = [s \in C |-> AsOf(publishedAt[r])'[s]]
      BY DEF Figures
    <3> HIDE DEF new, C
    <3> QED
      BY <1>4, <3>1, <3>2
  <2>3. ASSUME NEW q \in DOMAIN L
        PROVE  q # r /\ Figures(publishedAt[q])' = [s \in C |-> L[q][s]]
    <3>1. q \in Releases /\ Published(q) /\ q # r /\ L[q] = Figures(publishedAt[q])
      BY <1>1
    <3>2. Figures(publishedAt[q])' = [s \in C |-> Vintage(q)'[s]]
      BY DEF Figures, Vintage
    <3>3. \A s \in C : L[q][s] = Vintage(q)[s]
      BY <1>2, <3>1 DEF Figures, Vintage
    <3>4. \A s \in C : Vintage(q)'[s] = Vintage(q)[s]
      BY <1>2, <3>1
    <3> HIDE DEF C, L
    <3> QED
      BY <3>1, <3>2, <3>3, <3>4
  <2>4. L' = [q \in {p \in Releases : Published(p)}' |-> Figures(publishedAt[q])']
    OBVIOUS
  <2> HIDE DEF C, L
  <2> QED
    BY <2>1, <2>2, <2>3, <2>4
<1> QED
  BY <1>6, <1>7, <1>8 DEF Ledger!Publish

\* A member that is filed strikes what it disturbs, and changes nothing else: its bundle
\* is not out, for the series it writes.
LEMMA MemberStrikes ==
  ASSUME VInv, VInv', NEW r \in Releases, CommitMember(r)
  PROVE  Ledger!Strike(Series \ tangled')
<1> DEFINE C == Series \ tangled'
           L == [q \in {p \in Releases : Published(p)} |-> Figures(publishedAt[q])]
<1>1. publishedAt' = publishedAt /\ clock' = clock /\ clock \in Nat
      /\ publishedAt' \in [Releases -> Nat]
  BY DEF CommitMember, VInv, Types
<1>2. ASSUME NEW CONSTANT s \in C, NEW CONSTANT t \in Nat
      PROVE  s \in Series /\ s \notin tangled /\ AsOf(t)'[s] = AsOf(t)[s]
  <2>1. s \in Series /\ s \notin tangled /\ Deed(r, s) /\ ~Restated(s) /\ ~Late(s)
    BY CommitKeeps
  <2>2. \A q \in Releases : SameBy(q, t)
    BY <1>1 DEF SameBy
  <2>3. Candidates(s, t)' = Candidates(s, t)
    <3>1. CASE cube'[s] = cube[s] /\ Rows(s)' = Rows(s)
      BY <1>1, <2>1, <2>2, <3>1, StillSeries DEF VInv
    <3>2. CASE /\ cube'[s] # cube[s] /\ Has(s)' /\ cube'[s].release = r
               /\ Has(s) /\ ~Restated(s) => Rows(s)' = Rows(s) \cup {Replaced(s, r)}
               /\ ~Has(s) => Rows(s)' = Rows(s)
      <4>1. publishedAt[r] = 0
        BY <1>1, <2>1, <3>2 DEF Late, Published
      <4>2. publishedAt[r] \notin 1..t /\ publishedAt'[r] \notin 1..t
        BY <1>1, <4>1
      <4> QED
        BY <1>1, <2>1, <2>2, <3>2, <4>2, WrittenSeries DEF VInv
    <3> QED
      BY <2>1, <3>1, <3>2 DEF Deed
  <2>4. AsOf(t)[s] = Latest(Candidates(s, t)) /\ AsOf(t)'[s] = Latest(Candidates(s, t)')
    BY <2>1 DEF AsOf, Latest
  <2> QED
    BY <2>1, <2>3, <2>4
<1>3. ASSUME NEW CONSTANT t \in Nat
      PROVE  Figures(t)' = [s \in C |-> Figures(t)[s]]
  <2>1. Figures(t)' = [s \in C |-> AsOf(t)'[s]]
    BY DEF Figures
  <2>2. \A s \in C : Figures(t)[s] = AsOf(t)'[s]
    BY <1>2 DEF Figures
  <2> HIDE DEF C
  <2> QED
    BY <2>1, <2>2
<1>4. Figures(clock)' = [s \in C |-> Figures(clock)[s]]
  <2>1. PICK t \in Nat : t = clock /\ clock' = t
    BY <1>1
  <2>2. Figures(clock)' = Figures(t)'
    BY <2>1
  <2> QED
    BY <1>3, <2>1, <2>2
<1>5. L' = [q \in DOMAIN L |-> [s \in C |-> L[q][s]]]
  <2>1. {p \in Releases : Published(p)}' = DOMAIN L
    BY <1>1 DEF Published
  <2>2. ASSUME NEW q \in DOMAIN L PROVE Figures(publishedAt[q])' = [s \in C |-> L[q][s]]
    <3>1. PICK t \in Nat : t = publishedAt[q] /\ publishedAt'[q] = t
      BY <1>1
    <3>2. Figures(publishedAt[q])' = Figures(t)' /\ L[q] = Figures(t)
      BY <3>1
    <3> QED
      BY <1>3, <3>2
  <2>3. L' = [q \in {p \in Releases : Published(p)}' |-> Figures(publishedAt[q])']
    OBVIOUS
  <2> HIDE DEF C, L
  <2> QED
    BY <2>1, <2>2, <2>3
<1> QED
  BY <1>4, <1>5 DEF Ledger!Strike

\* Any other step leaves the figures as they are.
LEMMA OthersStutter ==
  ASSUME VInv, NEW r \in Releases,
         BeginSingleton(r) \/ OpenRelease(r) \/ BeginFinalize(r) \/ Rollback(r)
  PROVE  UNCHANGED Ledger!lvars
<1> DEFINE L == [q \in {p \in Releases : Published(p)} |-> Figures(publishedAt[q])]
<1>1. UNCHANGED <<cube, log, publishedAt, tangled>> /\ clock \in Nat /\ clock' \in Nat
      /\ clock <= clock'
  BY DEF BeginSingleton, OpenRelease, BeginFinalize, Rollback, Begin, VInv, Types
<1>2. ASSUME NEW t PROVE AsOf(t)' = AsOf(t) /\ Figures(t)' = Figures(t)
  BY <1>1 DEF AsOf, Candidates, Live, PreImages, Covers, Has, Published, Figures
<1>3. L' = L
  BY <1>1 DEF AsOf, Candidates, Live, PreImages, Covers, Has, Published, Figures
<1>4. Figures(clock)' = Figures(clock)
  <2>1. PICK t \in Nat, u \in Nat : t = clock /\ u = clock' /\ t <= u
    BY <1>1
  <2>2. \A s \in Series : AsOf(t)[s] = AsOf(u)[s]
    <3>1. \A q \in Releases : publishedAt[q] <= t
      BY <2>1 DEF VInv, ClockInv
    <3> QED
      BY <2>1, <3>1, SameFromThenOn DEF VInv
  <2>3. Figures(t) = Figures(u)
    BY <2>2 DEF Figures
  <2>4. Figures(clock)' = Figures(u)'
    BY <2>1
  <2>5. Figures(u)' = Figures(u)
    BY <1>2
  <2> QED
    BY <2>1, <2>3, <2>4, <2>5
<1>5. (Series \ tangled)' = Series \ tangled
  BY <1>1
<1> QED
  BY <1>3, <1>4, <1>5 DEF Ledger!lvars

\* ADR-0025: for the series that nothing has disturbed, the figures of now and the vintages
\* are an append-only ledger. Every step of the releases and of their transactions either
\* publishes one vintage, together with the figures it leaves, or changes nothing a reader
\* of them can see; what a step disturbs is struck by it, and nothing else.
THEOREM VintagesAreALedger == Spec => ImplementsLedger
<1>1. Init => Ledger!LInit
  <2> SUFFICES ASSUME Init PROVE Ledger!LInit
    OBVIOUS
  <2>1. \A s \in Series : Candidates(s, clock) = {}
    BY DEF Init, Candidates, Live, PreImages, Has
  <2>2. Series \ tangled = Series
    BY DEF Init
  <2>3. Figures(clock) = [s \in Series |-> None]
    BY <2>1, <2>2 DEF Figures, AsOf, Latest
  <2>4. {q \in Releases : Published(q)} = {}
    BY DEF Init, Published
  <2>5. [q \in {p \in Releases : Published(p)} |-> Figures(publishedAt[q])]
          = [q \in {} |-> None]
    BY <2>4
  <2> QED
    BY <2>2, <2>3, <2>5 DEF Ledger!LInit
<1>2. (VInv /\ ChainInv) /\ (VInv /\ ChainInv)' /\ [Next]_vars => [Ledger!LNext]_(Ledger!lvars)
  <2> SUFFICES ASSUME VInv, ChainInv, VInv', ChainInv', [Next]_vars
               PROVE  [Ledger!LNext]_(Ledger!lvars)
    OBVIOUS
  <2>1. ASSUME NEW r \in Releases,
               CommitSingleton(r) \/ CommitFinalize(r) \/ CommitMember(r)
        PROVE  Ledger!LNext
    <3>1. Series \ tangled' \in SUBSET (Series \ tangled)
      BY <2>1 DEF CommitSingleton, CommitFinalize, CommitMember, Note
    <3>2. CASE CommitSingleton(r) \/ CommitFinalize(r)
      BY <3>1, <3>2, CommitPublishes DEF Ledger!LNext
    <3>3. CASE CommitMember(r)
      BY <3>1, <3>3, MemberStrikes DEF Ledger!LNext
    <3> QED
      BY <2>1, <3>2, <3>3
  <2>2. ASSUME NEW r \in Releases,
               BeginSingleton(r) \/ OpenRelease(r) \/ BeginFinalize(r) \/ Rollback(r)
        PROVE  UNCHANGED Ledger!lvars
    BY <2>2, OthersStutter
  <2>3. CASE UNCHANGED vars
    BY <2>3 DEF vars, Ledger!lvars, Figures, AsOf, Candidates, Live, PreImages, Covers, Has,
                Published
  <2> QED
    BY <2>1, <2>2, <2>3 DEF Next
<1> QED
  BY <1>1, <1>2, ChainHolds, PTL DEF Spec, ImplementsLedger, Ledger!LSpec
-----------------------------------------------------------------------------

\* V25 section 9 and uq_release_current: the demotion and the publication being one step,
\* a scope that has published has one current release.
CurrentInv ==
  /\ \A q, r \in Releases : status[q] = "published" /\ status[r] = "published" => q = r
  /\ (\E r \in Releases : Published(r)) => \E r \in Releases : status[r] = "published"

LEMMA CurrentStep == ASSUME VInv, CurrentInv, [Next]_vars PROVE CurrentInv'
<1>1. ASSUME NEW r \in Releases, CommitSingleton(r) \/ CommitFinalize(r) PROVE CurrentInv'
  <2>1. \A q \in Releases : status'[q] = "published" <=> q = r
    BY <1>1 DEF CommitSingleton, CommitFinalize, PublishRelease
  <2> QED
    BY <2>1 DEF CurrentInv
<1>2. ASSUME NEW r \in Releases, BeginSingleton(r) \/ BeginFinalize(r) \/ OpenRelease(r)
                                 \/ Rollback(r)
      PROVE  CurrentInv'
  <2>1. \A q \in Releases : status'[q] = "published" <=> status[q] = "published"
    BY <1>2 DEF BeginSingleton, BeginFinalize, Begin, OpenRelease, Rollback, VInv, Types
  <2>2. publishedAt' = publishedAt
    BY <1>2 DEF BeginSingleton, BeginFinalize, Begin, OpenRelease, Rollback
  <2> QED
    BY <2>1, <2>2 DEF CurrentInv, Published
<1>3. ASSUME UNCHANGED <<status, publishedAt>> PROVE CurrentInv'
  BY <1>3 DEF CurrentInv, Published
<1> QED
  BY <1>1, <1>2, <1>3 DEF Next, CommitMember, vars

THEOREM CurrentReleaseIsUnique == Spec => []OneCurrentRelease
<1>1. Init => VInv /\ CurrentInv
  BY InitInv DEF Init, CurrentInv, Published
<1>2. VInv /\ CurrentInv /\ [Next]_vars => (VInv /\ CurrentInv)'
  BY StepInv, CurrentStep
<1>3. VInv /\ CurrentInv => OneCurrentRelease
  <2> SUFFICES ASSUME VInv, CurrentInv PROVE OneCurrentRelease
    OBVIOUS
  <2> DEFINE C == {r \in Releases : status[r] = "published"}
  <2>1. Cardinality(C) <= 1
    <3>1. CASE C = {}
      BY <3>1, FS_EmptySet
    <3>2. CASE C # {}
      <4>1. PICK c : C = {c}
        BY <3>2 DEF CurrentInv
      <4> QED
        BY <4>1, FS_Singleton
    <3> QED
      BY <3>1, <3>2
  <2> QED
    BY <2>1 DEF CurrentInv, VInv, ClockInv, OneCurrentRelease
<1> QED
  BY <1>1, <1>2, <1>3, PTL DEF Spec

\* Types and bounds.
LEMMA TypeStep == ASSUME TypeOK, [Next]_vars PROVE TypeOK'
<1>0. Types
  BY ConstantsOK DEF TypeOK, Types
<1>1. ASSUME NEW r \in Releases, NEW facts \in Facts, Write(facts, r)
      PROVE  /\ cube' \in [Series -> Observation \cup {None}]
             /\ log' \subseteq Revision
  BY <1>0, <1>1, WriteTypes
<1>2. ASSUME NEW r \in Releases, PublishRelease(r)
      PROVE  status' \in [Releases -> Status] /\ publishedAt' \in [Releases -> 0..MaxClock]
  BY <1>2 DEF TypeOK, PublishRelease, Status
<1>3. ASSUME NEW r \in Releases, NEW kind \in {"singleton", "finalizing"}, Begin(r, kind)
      PROVE  TypeOK'
  <2>1. clock + 1 \in 0..MaxClock
    BY <1>3, ConstantsOK DEF TypeOK, Begin
  <2> QED
    BY <1>3, <2>1 DEF TypeOK, Begin, Status
<1>4. ASSUME NEW r \in Releases, CommitSingleton(r) PROVE TypeOK'
  BY <1>0, <1>1, <1>2, <1>4, NoteTypes DEF CommitSingleton, TypeOK
<1>5. ASSUME NEW r \in Releases, CommitMember(r) PROVE TypeOK'
  BY <1>0, <1>1, <1>5, NoteTypes DEF CommitMember, TypeOK
<1>6. ASSUME NEW r \in Releases, CommitFinalize(r) PROVE TypeOK'
  BY <1>0, <1>2, <1>6, NoteTypes DEF CommitFinalize, TypeOK
<1>7. ASSUME NEW r \in Releases, OpenRelease(r) \/ Rollback(r) PROVE TypeOK'
  BY <1>7 DEF OpenRelease, Rollback, TypeOK, Status
<1>8. CASE UNCHANGED vars
  BY <1>8 DEF vars, TypeOK
<1> QED
  BY <1>3, <1>4, <1>5, <1>6, <1>7, <1>8 DEF Next, BeginSingleton, BeginFinalize

THEOREM TypeCorrect == Spec => []TypeOK
<1>1. Init => TypeOK
  BY ConstantsOK DEF Init, TypeOK, Status
<1> QED
  BY <1>1, TypeStep, PTL DEF Spec
-----------------------------------------------------------------------------
(* Release bundles.                                                         *)

\* Two requests that have a submission in hand contest it; one that has it alone finds
\* it as the header said, or rejected.
HeldInv ==
  /\ \A p \in Requests : req[p].pc = "member" => req[p].member \in Members
  /\ \A p, q \in Requests, m \in Members : At(p, m) /\ At(q, m) /\ m \notin contested => p = q
  /\ \A p \in Requests, m \in Members : At(p, m) /\ m \notin contested =>
       /\ sub[m] \in {"staged", "rejected"}
       /\ req[p].seen = "bundle" <=> link[m] = "bundle"

AttachInv == \A a \in Attaches : attach[a].pc = "checked" => attach[a].member \in Members

\* What p has still to publish.
Left(p) ==
  {m \in Members : (req[p].pc \in {"loop", "member"} /\ m \in req[p].todo) \/ At(p, m)}

\* What a request has listed is in the bundle, published or still to do.
RequestInv(p) ==
  /\ req[p].pc \in {"idle", "checked", "loop"} => req[p].kind = "bundle"
  /\ req[p].kind = "bundle" /\ req[p].pc \in {"loop", "member", "done"} =>
       \A m \in req[p].listed \ (DryRuns \cup contested) :
         link[m] = "bundle" /\ m \in Stamped \cup Left(p)
  /\ req[p].kind = "bundle" /\ req[p].pc = "done" => release # "open"

BundleInv ==
  /\ BundleTypeOK
  /\ HeldInv
  /\ AttachInv
  /\ \A p \in Requests : RequestInv(p)

LEMMA BundleStart == BundleInit => BundleInv
<1> SUFFICES ASSUME BundleInit PROVE BundleInv
  OBVIOUS
<1>1. BundleTypeOK
  BY BundleConstants DEF BundleInit, BundleTypeOK, Request, Attach, Link
<1>2. HeldInv /\ AttachInv /\ \A p \in Requests : RequestInv(p)
  BY DEF BundleInit, HeldInv, AttachInv, RequestInv, At
<1> QED
  BY <1>1, <1>2 DEF BundleInv

\* No step takes a member that is not contested out of the bundle, or opens it again.
Kept ==
  /\ contested \subseteq contested'
  /\ release # "open" => release' # "open"
  /\ \A m \in Members \ contested' : /\ link[m] = "bundle" => link'[m] = "bundle"
                                     /\ m \in Stamped => m \in Stamped'

LEMMA Bystander ==
  ASSUME BundleInv, Kept, NEW q \in Requests, req'[q] = req[q]
  PROVE  RequestInv(q)'
<1>1. Left(q)' = Left(q)
  BY DEF Left, At
<1>2. req[q].listed \subseteq Members
  BY DEF BundleInv, BundleTypeOK, Request
<1> QED
  BY <1>1, <1>2 DEF BundleInv, RequestInv, Kept

\* POST /releases/:id/attach.
LEMMA AttachKeeps ==
  ASSUME BundleInv, NEW a \in Attaches, CheckAttach(a) \/ UpdateAttach(a)
  PROVE  BundleInv' /\ Kept
<1> USE DEF BundleInv
<1>1. CASE CheckAttach(a)
  <2>1. PICK m \in Members : attach' = [attach EXCEPT ![a] = [pc |-> "checked", member |-> m]]
    BY <1>1 DEF CheckAttach
  <2>2. UNCHANGED <<sub, link, release, req, faults, contested>>
    BY <1>1 DEF CheckAttach
  <2>3. BundleTypeOK'
    <3>1. [pc |-> "checked", member |-> m] \in Attach
      BY DEF Attach
    <3> QED
      BY <2>1, <2>2, <3>1 DEF BundleTypeOK
  <2>4. HeldInv' /\ Kept
    BY <2>2 DEF HeldInv, At, Kept, Stamped
  <2>5. AttachInv'
    BY <2>1 DEF AttachInv, BundleTypeOK
  <2> QED
    BY <2>2, <2>3, <2>4, <2>5, Bystander
<1>2. CASE UpdateAttach(a)
  <2>0. PICK m : m = attach[a].member
    OBVIOUS
  <2>1. /\ m \in Members /\ attach[a].pc = "checked"
        /\ UNCHANGED <<sub, release, req, faults>>
    BY <1>2, <2>0 DEF UpdateAttach, AttachInv
  <2>2. PICK s \in {"attached", "refused"} : attach' = [attach EXCEPT ![a].pc = s]
    BY <1>2 DEF UpdateAttach
  <2>3. \/ /\ sub[m] = "staged" /\ link' = [link EXCEPT ![m] = "bundle"]
           /\ contested' = contested \cup
                {n \in {m} : \E p \in Requests : At(p, m) /\ req[p].seen # "bundle"}
        \/ link' = link /\ contested' = contested
    BY <1>2, <2>0 DEF UpdateAttach
  <2>4. BundleTypeOK'
    <3>1. attach' \in [Attaches -> Attach]
      BY <2>2 DEF BundleTypeOK, Attach
    <3>2. link' \in [Members -> Link] /\ contested' \subseteq Members
      BY <2>1, <2>3 DEF BundleTypeOK, Link
    <3> QED
      BY <2>1, <3>1, <3>2 DEF BundleTypeOK
  <2>5. /\ contested \subseteq contested'
        /\ \A n \in Members : link'[n] = "bundle" <=> link[n] = "bundle" \/ (n = m /\ link' # link)
    BY <2>1, <2>3 DEF BundleTypeOK
  <2>6. Kept
    BY <2>1, <2>5 DEF Kept, Stamped
  <2>7. HeldInv'
    <3>1. ASSUME NEW p \in Requests, NEW n \in Members, At(p, n), n \notin contested'
          PROVE  req[p].seen = "bundle" <=> link'[n] = "bundle"
      <4>1. CASE n = m /\ link' # link
        BY <2>3, <2>5, <3>1, <4>1
      <4>2. CASE ~(n = m /\ link' # link)
        BY <2>5, <3>1, <4>2 DEF HeldInv
      <4> QED
        BY <4>1, <4>2
    <3> QED
      BY <2>1, <2>5, <3>1 DEF HeldInv, At
  <2>8. AttachInv'
    BY <2>1, <2>2 DEF AttachInv, BundleTypeOK, Attach
  <2> QED
    BY <2>1, <2>4, <2>6, <2>7, <2>8, Bystander
<1> QED
  BY <1>1, <1>2

\* What is left to prove of a step of one request that does not take a submission in hand.
LEMMA OneMoves ==
  ASSUME BundleInv, NEW p \in Requests, NEW r \in Request, req' = [req EXCEPT ![p] = r],
         UNCHANGED <<attach, contested>>, r.pc # "member", Kept, RequestInv(p)',
         sub' \in [Members -> {"staged", "published", "failed", "rejected"}],
         link' \in [Members -> Link], release' \in {"open", "published", "superseded"},
         faults' \in 0..MaxFaults,
         \A m \in Members \ contested : ~At(p, m) => sub'[m] = sub[m] /\ link'[m] = link[m]
  PROVE  BundleInv'
<1> USE DEF BundleInv
<1>1. req'[p] = r /\ \A q \in Requests \ {p} : req'[q] = req[q]
  BY DEF BundleTypeOK
<1>2. \A q \in Requests \ {p} : RequestInv(q)'
  BY <1>1, Bystander
<1>3. BundleTypeOK' /\ AttachInv'
  BY DEF BundleTypeOK, AttachInv
<1>4. \A q \in Requests, m \in Members : At(q, m)' <=> At(q, m) /\ q # p
  BY <1>1 DEF At
<1>5. HeldInv'
  <2>1. \A q \in Requests : req'[q].pc = "member" => req'[q].member \in Members
    BY <1>1 DEF HeldInv
  <2>2. \A q, s \in Requests, m \in Members :
          At(q, m)' /\ At(s, m)' /\ m \notin contested => q = s
    BY <1>4 DEF HeldInv
  <2>3. ASSUME NEW q \in Requests, NEW m \in Members, At(q, m)', m \notin contested
        PROVE  /\ sub'[m] \in {"staged", "rejected"}
               /\ req'[q].seen = "bundle" <=> link'[m] = "bundle"
    <3>1. At(q, m) /\ q # p /\ req'[q] = req[q]
      BY <1>1, <1>4, <2>3
    <3>2. ~At(p, m)
      BY <2>3, <3>1 DEF HeldInv
    <3> QED
      BY <2>3, <3>1, <3>2 DEF HeldInv
  <2> QED
    BY <2>1, <2>2, <2>3 DEF HeldInv
<1> QED
  BY <1>1, <1>2, <1>3, <1>5

\* POST /releases/:id/publish and publishBundle(), but for the members.
LEMMA BundleKeeps ==
  ASSUME BundleInv, NEW p \in Requests, CheckRelease(p) \/ ListMembers(p) \/ Finalize(p)
  PROVE  BundleInv' /\ Kept
<1> USE DEF BundleInv
<1> req[p] \in Request
  BY DEF BundleTypeOK
<1>0. UNCHANGED <<sub, link, attach, faults, contested>>
  BY DEF CheckRelease, ListMembers, Finalize
<1>1. Stamped' = Stamped
  BY <1>0 DEF Stamped
<1>2. CASE CheckRelease(p)
  <2> DEFINE r == [req[p] EXCEPT !.pc = "checked"]
  <2>1. req' = [req EXCEPT ![p] = r] /\ req[p].pc = "idle" /\ release' = release
    BY <1>2 DEF CheckRelease, BundleTypeOK
  <2>2. r \in Request /\ r.pc = "checked" /\ r.kind = req[p].kind
    BY DEF Request
  <2>3. req'[p] = r
    BY <2>1 DEF BundleTypeOK
  <2> HIDE DEF r
  <2>4. RequestInv(p)' /\ Kept
    BY <1>0, <1>1, <2>1, <2>2, <2>3 DEF RequestInv, Kept
  <2> QED
    BY <1>0, <2>1, <2>2, <2>4, OneMoves DEF BundleTypeOK
<1>3. CASE ListMembers(p)
  <2> DEFINE ms == {m \in Members : link[m] = "bundle" /\ sub[m] = "staged"}
             r == [req[p] EXCEPT !.pc = "loop", !.listed = ms, !.todo = ms]
  <2>1. /\ req' = [req EXCEPT ![p] = r] /\ req[p].pc = "checked" /\ release' = release
    BY <1>3 DEF ListMembers, BundleTypeOK
  <2>2. /\ r \in Request /\ r.pc = "loop" /\ r.kind = req[p].kind
        /\ r.listed = ms /\ r.todo = ms
    BY DEF Request
  <2>3. req'[p] = r /\ req[p].kind = "bundle"
    BY <2>1 DEF BundleTypeOK, RequestInv
  <2>4. ms \subseteq Members /\ \A m \in ms : link[m] = "bundle"
    OBVIOUS
  <2> HIDE DEF r, ms
  <2>5. ms \subseteq Left(p)'
    BY <2>2, <2>3, <2>4 DEF Left
  <2>6. RequestInv(p)' /\ Kept
    BY <1>0, <1>1, <2>1, <2>2, <2>3, <2>4, <2>5 DEF RequestInv, Kept
  <2> QED
    BY <1>0, <2>1, <2>2, <2>6, OneMoves DEF BundleTypeOK
<1>4. CASE Finalize(p)
  <2>1. PICK pc \in {"done", "aborted"} :
          /\ req' = [req EXCEPT ![p].pc = pc] /\ req[p].pc = "loop" /\ req[p].todo = {}
          /\ release' \in {"open", "published", "superseded"}
          /\ release # "open" => release' # "open"
          /\ pc = "done" => release' # "open"
    BY <1>4 DEF Finalize, BundleTypeOK
  <2> DEFINE r == [req[p] EXCEPT !.pc = pc]
  <2>2. req' = [req EXCEPT ![p] = r]
    BY <2>1 DEF BundleTypeOK
  <2>3. r \in Request /\ r.pc = pc /\ r.listed = req[p].listed /\ r.kind = req[p].kind
    BY DEF Request
  <2>4. req'[p] = r /\ Left(p) = {}
    BY <2>1, <2>2 DEF BundleTypeOK, Left, At
  <2> HIDE DEF r
  <2>5. RequestInv(p)' /\ Kept
    BY <1>0, <1>1, <2>1, <2>3, <2>4 DEF RequestInv, Kept
  <2> QED
    BY <1>0, <2>1, <2>2, <2>3, <2>5, OneMoves DEF BundleTypeOK
<1> QED
  BY <1>2, <1>3, <1>4

\* p takes m in hand; if another request has it, it is contested from now on.
LEMMA Takes ==
  ASSUME BundleInv, NEW p \in Requests, req[p].pc # "member", NEW m \in Members,
         sub[m] = "staged", NoteSecond(m), NEW r \in Request, req' = [req EXCEPT ![p] = r],
         r.pc = "member", r.member = m, r.seen = link[m],
         UNCHANGED <<sub, link, release, attach, faults>>
  PROVE  /\ Kept
         /\ RequestInv(p)' => BundleInv'
<1> USE DEF BundleInv
<1>1. req'[p] = r /\ \A q \in Requests \ {p} : req'[q] = req[q]
  BY DEF BundleTypeOK
<1>2. contested \subseteq contested' /\ contested' \subseteq Members
  BY DEF NoteSecond, BundleTypeOK
<1>3. Kept
  BY <1>2 DEF Kept, Stamped
<1>4. \A q \in Requests \ {p} : RequestInv(q)'
  BY <1>1, <1>3, Bystander
<1>5. BundleTypeOK' /\ AttachInv'
  BY <1>2 DEF BundleTypeOK, AttachInv
<1>6. \A q \in Requests, n \in Members : At(q, n)' <=> IF q = p THEN n = m ELSE At(q, n)
  BY <1>1 DEF At
<1>7. HeldInv'
  <2>1. \A q \in Requests : req'[q].pc = "member" => req'[q].member \in Members
    BY <1>1 DEF HeldInv
  <2>2. \A q, s \in Requests, n \in Members :
          At(q, n)' /\ At(s, n)' /\ n \notin contested' => q = s
    BY <1>2, <1>6 DEF HeldInv, NoteSecond
  <2>3. ASSUME NEW q \in Requests, NEW n \in Members, At(q, n)', n \notin contested'
        PROVE  sub[n] \in {"staged", "rejected"} /\ (req'[q].seen = "bundle" <=> link[n] = "bundle")
    BY <1>1, <1>2, <1>6, <2>3 DEF HeldInv
  <2> QED
    BY <2>1, <2>2, <2>3 DEF HeldInv
<1> QED
  BY <1>3, <1>4, <1>5, <1>7

\* publishSubmission(): the header.
LEMMA HeaderKeeps ==
  ASSUME BundleInv, NEW p \in Requests, ReadMember(p) \/ ReadSingle(p)
  PROVE  BundleInv' /\ Kept
<1> USE DEF BundleInv
<1> req[p] \in Request
  BY DEF BundleTypeOK
<1>0. UNCHANGED <<sub, link, release, attach, faults>> /\ req[p].pc # "member"
      /\ Stamped' = Stamped
  BY DEF ReadMember, ReadSingle, Stamped
<1>2. CASE ReadMember(p)
  <2>1. req[p].pc = "loop" /\ req[p].kind = "bundle"
    BY <1>2 DEF ReadMember, RequestInv
  <2>2. PICK m \in req[p].todo :
          \/ /\ sub[m] = "staged" /\ NoteSecond(m)
             /\ req' = [req EXCEPT ![p].pc = "member", ![p].todo = @ \ {m},
                                   ![p].member = m, ![p].seen = link[m]]
          \/ req' = [req EXCEPT ![p].pc = "aborted"] /\ UNCHANGED contested
    BY <1>2 DEF ReadMember
  <2>3. m \in Members /\ link[m] \in Link /\ req[p].todo \in SUBSET Members
    BY DEF Request, BundleTypeOK
  <2>4. CASE /\ sub[m] = "staged" /\ NoteSecond(m)
             /\ req' = [req EXCEPT ![p].pc = "member", ![p].todo = @ \ {m},
                                   ![p].member = m, ![p].seen = link[m]]
    <3> DEFINE r == [req[p] EXCEPT !.pc = "member", !.todo = req[p].todo \ {m},
                                   !.member = m, !.seen = link[m]]
    <3>1. req' = [req EXCEPT ![p] = r]
      BY <2>4 DEF BundleTypeOK
    <3>2. /\ r \in Request /\ r.pc = "member" /\ r.kind = req[p].kind
          /\ r.listed = req[p].listed /\ r.todo = req[p].todo \ {m}
          /\ r.member = m /\ r.seen = link[m]
      BY <2>3 DEF Request
    <3>3. req'[p] = r
      BY <3>1 DEF BundleTypeOK
    <3> HIDE DEF r
    <3>4. Kept /\ (RequestInv(p)' => BundleInv')
      BY <1>0, <2>3, <2>4, <3>1, <3>2, Takes
    <3>5. Left(p) \subseteq Left(p)'
      BY <2>1, <3>2, <3>3 DEF Left, At
    <3>6. RequestInv(p)'
      BY <1>0, <2>1, <3>2, <3>3, <3>4, <3>5 DEF RequestInv, Kept
    <3> QED
      BY <3>4, <3>6
  <2>5. CASE req' = [req EXCEPT ![p].pc = "aborted"] /\ UNCHANGED contested
    <3> DEFINE r == [req[p] EXCEPT !.pc = "aborted"]
    <3>1. req' = [req EXCEPT ![p] = r] /\ r \in Request /\ r.pc = "aborted"
      BY <2>5 DEF BundleTypeOK, Request
    <3>2. req'[p] = r
      BY <3>1 DEF BundleTypeOK
    <3> HIDE DEF r
    <3>3. RequestInv(p)' /\ Kept
      BY <1>0, <2>5, <3>1, <3>2 DEF RequestInv, Kept
    <3> QED
      BY <1>0, <2>5, <3>1, <3>3, OneMoves DEF BundleTypeOK
  <2> QED
    BY <2>2, <2>4, <2>5
<1>3. CASE ReadSingle(p)
  <2>1. PICK m \in Members :
          /\ sub[m] = "staged" /\ NoteSecond(m)
          /\ req' = [req EXCEPT ![p].pc = "member", ![p].kind = "single",
                                ![p].member = m, ![p].seen = link[m]]
    BY <1>3 DEF ReadSingle
  <2> DEFINE r == [req[p] EXCEPT !.pc = "member", !.kind = "single",
                                 !.member = m, !.seen = link[m]]
  <2>2. req' = [req EXCEPT ![p] = r]
    BY <2>1 DEF BundleTypeOK
  <2>3. /\ r \in Request /\ r.pc = "member" /\ r.kind = "single"
        /\ r.member = m /\ r.seen = link[m]
    BY DEF Request, BundleTypeOK
  <2>4. req'[p] = r
    BY <2>2 DEF BundleTypeOK
  <2> HIDE DEF r
  <2>5. RequestInv(p)'
    BY <2>3, <2>4 DEF RequestInv
  <2> QED
    BY <1>0, <2>1, <2>2, <2>3, <2>5, Takes
<1> QED
  BY <1>2, <1>3

\* publishSubmission(): the transaction, of a member or of a single submission.
LEMMA MemberKeeps ==
  ASSUME BundleInv, NEW p \in Requests, PublishMember(p) \/ FailMember(p)
  PROVE  BundleInv' /\ Kept
<1> USE DEF BundleInv
<1>0. PICK m : m = req[p].member
  OBVIOUS
<1> req[p] \in Request
  BY DEF BundleTypeOK
<1>1. /\ req[p].pc = "member" /\ UNCHANGED <<attach, contested>>
      /\ m \in Members /\ At(p, m) /\ \A n \in Members : At(p, n) <=> n = m
  BY <1>0 DEF PublishMember, FailMember, HeldInv, At
<1>2. ASSUME m \notin contested
      PROVE  /\ sub[m] \in {"staged", "rejected"} /\ m \notin Stamped
             /\ req[p].seen = "bundle" <=> link[m] = "bundle"
  BY <1>1, <1>2 DEF HeldInv, Stamped
<1>3. PICK x \in {"staged", "published", "failed"} : sub' = [sub EXCEPT ![m] = x]
  BY <1>0 DEF PublishMember, FailMember
<1>4. /\ link' \in [Members -> Link]
      /\ \A n \in Members : n # m => link'[n] = link[n]
      /\ req[p].seen = "bundle" /\ link[m] = "bundle" => link'[m] = "bundle"
  BY <1>0, <1>1 DEF PublishMember, FailMember, BundleTypeOK, Link
<1>5. /\ release' \in {"open", "published", "superseded"}
      /\ release # "open" => release' # "open"
  BY DEF PublishMember, FailMember, BundleTypeOK
<1>6. sub' \in [Members -> {"staged", "published", "failed", "rejected"}]
      /\ \A n \in Members : n # m => sub'[n] = sub[n]
  BY <1>1, <1>3 DEF BundleTypeOK
<1>7. \A n \in Members : n # m => (n \in Stamped' <=> n \in Stamped)
  BY <1>4, <1>6 DEF Stamped
<1>8. Kept
  BY <1>1, <1>2, <1>4, <1>5, <1>7 DEF Kept
<1>9. CASE PublishMember(p)
  <2> DEFINE r == [req[p] EXCEPT !.pc = Continue(p)]
  <2>1. req' = [req EXCEPT ![p] = r] /\ faults' = faults
    BY <1>9 DEF PublishMember, BundleTypeOK
  <2>2. /\ r \in Request /\ r.pc = Continue(p) /\ r.kind = req[p].kind
        /\ r.listed = req[p].listed /\ r.todo = req[p].todo
    BY DEF Request, Continue
  <2>3. req'[p] = r
    BY <2>1 DEF BundleTypeOK
  <2> HIDE DEF r
  <2>4. RequestInv(p)'
    <3>1. CASE req[p].kind = "bundle"
      <4>1. r.pc = "loop"
        BY <2>2, <3>1 DEF Continue
      <4>2. ASSUME NEW n \in req[p].listed \ (DryRuns \cup contested)
            PROVE  link'[n] = "bundle" /\ n \in Stamped' \cup Left(p)'
        <5>1. link[n] = "bundle" /\ n \in Stamped \cup Left(p) /\ n \in Members
          BY <1>1, <3>1, <4>2 DEF RequestInv, Request
        <5>2. CASE n = m
          <6>1. link'[m] = "bundle" /\ sub'[m] = "published"
            BY <1>0, <1>1, <1>2, <1>4, <1>9, <4>2, <5>1, <5>2 DEF PublishMember, BundleTypeOK
          <6> QED
            BY <5>1, <5>2, <6>1 DEF Stamped
        <5>3. CASE n # m
          <6>1. n \in Left(p) => n \in Left(p)'
            BY <1>1, <2>2, <2>3, <4>1, <5>1, <5>3 DEF Left
          <6> QED
            BY <1>4, <1>7, <5>1, <5>3, <6>1
        <5> QED
          BY <5>2, <5>3
      <4> QED
        BY <1>1, <2>2, <2>3, <3>1, <4>1, <4>2 DEF RequestInv
    <3>2. CASE req[p].kind = "single"
      BY <2>2, <2>3, <3>2 DEF RequestInv, Continue
    <3> QED
      BY <3>1, <3>2 DEF Request
  <2>5. r.pc # "member"
    BY <2>2 DEF Continue
  <2> QED
    BY <1>1, <1>4, <1>5, <1>6, <1>8, <2>1, <2>2, <2>4, <2>5, OneMoves DEF BundleTypeOK
<1>10. CASE FailMember(p)
  <2> DEFINE r == [req[p] EXCEPT !.pc = "aborted"]
  <2>1. req' = [req EXCEPT ![p] = r]
    BY <1>10 DEF FailMember, BundleTypeOK
  <2>2. faults' \in 0..MaxFaults
    BY <1>10, BundleConstants DEF FailMember, BundleTypeOK
  <2>3. r \in Request /\ r.pc = "aborted"
    BY DEF Request
  <2>4. req'[p] = r
    BY <2>1 DEF BundleTypeOK
  <2> HIDE DEF r
  <2>5. RequestInv(p)'
    BY <2>3, <2>4 DEF RequestInv
  <2> QED
    BY <1>1, <1>4, <1>5, <1>6, <1>8, <2>1, <2>2, <2>3, <2>5, OneMoves
<1> QED
  BY <1>9, <1>10

\* POST /jobs/:id/reject.
LEMMA RejectKeeps ==
  ASSUME BundleInv, NEW m \in Members, Reject(m)
  PROVE  BundleInv' /\ Kept
<1> USE DEF BundleInv
<1>1. /\ sub[m] = "staged" /\ sub' = [sub EXCEPT ![m] = "rejected"]
      /\ UNCHANGED <<link, release, req, attach, faults, contested>>
  BY DEF Reject
<1>2. Kept
  BY <1>1 DEF Kept, Stamped, BundleTypeOK
<1>3. \A p \in Requests : RequestInv(p)'
  BY <1>1, <1>2, Bystander
<1>4. BundleTypeOK' /\ AttachInv'
  BY <1>1 DEF BundleTypeOK, AttachInv
<1>5. HeldInv'
  BY <1>1 DEF HeldInv, At, BundleTypeOK
<1> QED
  BY <1>2, <1>3, <1>4, <1>5

LEMMA BundleStep ==
  ASSUME BundleInv, [BundleNext]_bundleVars
  PROVE  BundleInv' /\ Kept
<1>1. CASE UNCHANGED bundleVars
  BY <1>1 DEF BundleInv, BundleTypeOK, HeldInv, AttachInv, RequestInv, Left, At, Stamped,
              Kept, bundleVars
<1> QED
  BY <1>1, AttachKeeps, BundleKeeps, HeaderKeeps, MemberKeeps, RejectKeeps DEF BundleNext

LEMMA BundleHolds == BundleSpec => []BundleInv
<1>1. BundleInv /\ [BundleNext]_bundleVars => BundleInv'
  BY BundleStep
<1> QED
  BY <1>1, BundleStart, PTL DEF BundleSpec

\* When the release is out, nothing new is under way.
LEMMA Closed ==
  ASSUME BundleInv, [BundleNext]_bundleVars, release # "open"
  PROVE  Stragglers' \subseteq Stragglers /\ Stamped' \ Stamped \subseteq Stragglers
<1> USE DEF BundleInv
<1>1. ASSUME UNCHANGED <<sub, link, attach>>,
             \A p \in Requests, m \in Members : At(p, m)' /\ req'[p].seen = "bundle" =>
               \/ At(p, m) /\ req[p].seen = "bundle"
               \/ link[m] = "bundle" /\ sub[m] = "staged"
      PROVE  Stragglers' \subseteq Stragglers /\ Stamped' = Stamped
  BY <1>1 DEF Stragglers, Stamped
<1>2. ASSUME NEW a \in Attaches, CheckAttach(a) \/ UpdateAttach(a)
      PROVE  Stragglers' \subseteq Stragglers /\ Stamped' \ Stamped \subseteq Stragglers
  <2>0. PICK m : m = attach[a].member
    OBVIOUS
  <2>1. /\ attach[a].pc = "checked" /\ m \in Members /\ UNCHANGED <<sub, req>>
    BY <1>2, <2>0 DEF CheckAttach, UpdateAttach, AttachInv
  <2>2. PICK s \in {"attached", "refused"} : attach' = [attach EXCEPT ![a].pc = s]
    BY <1>2 DEF CheckAttach, UpdateAttach
  <2>3. \A n \in Members : n # m => link'[n] = link[n]
    BY <1>2, <2>0, <2>1 DEF CheckAttach, UpdateAttach, BundleTypeOK
  <2>4. \A b \in Attaches : attach'[b].pc = "checked" => attach'[b] = attach[b]
    BY <2>2 DEF BundleTypeOK, Attach
  <2>5. Stragglers' \subseteq Stragglers
    BY <2>0, <2>1, <2>3, <2>4 DEF Stragglers, At
  <2>6. Stamped' \ Stamped \subseteq {}
    <3>1. sub[m] = "published" => link' = link
      BY <1>2, <2>0, <2>1 DEF CheckAttach, UpdateAttach
    <3> QED
      BY <2>1, <2>3, <3>1 DEF Stamped
  <2> QED
    BY <2>5, <2>6
<1>3. ASSUME NEW p \in Requests, CheckRelease(p) \/ ListMembers(p) \/ Finalize(p)
      PROVE  Stragglers' \subseteq Stragglers /\ Stamped' \ Stamped \subseteq Stragglers
  <2>1. UNCHANGED <<sub, link, attach>>
    BY <1>3 DEF CheckRelease, ListMembers, Finalize
  <2>2. \A q \in Requests \ {p} : req'[q] = req[q]
    BY <1>3 DEF CheckRelease, ListMembers, Finalize, BundleTypeOK
  <2>3. req'[p].pc # "member"
    <3> req \in [Requests -> Request]
      BY DEF BundleTypeOK
    <3>1. CASE ListMembers(p)
      BY <3>1 DEF ListMembers, Request
    <3>2. CASE Finalize(p)
      BY <3>2 DEF Finalize, Request
    <3> QED
      BY <1>3, <3>1, <3>2 DEF CheckRelease
  <2> QED
    BY <1>1, <2>1, <2>2, <2>3 DEF At
<1>4. ASSUME NEW p \in Requests, ReadMember(p) \/ ReadSingle(p)
      PROVE  Stragglers' \subseteq Stragglers /\ Stamped' \ Stamped \subseteq Stragglers
  <2>1. PICK m \in Members :
          \/ req' = [req EXCEPT ![p].pc = "aborted"]
          \/ /\ sub[m] = "staged"
             /\ \/ req' = [req EXCEPT ![p].pc = "member", ![p].todo = @ \ {m},
                                      ![p].member = m, ![p].seen = link[m]]
                \/ req' = [req EXCEPT ![p].pc = "member", ![p].kind = "single",
                                      ![p].member = m, ![p].seen = link[m]]
    <3> req[p].todo \subseteq Members
      BY DEF BundleTypeOK, Request
    <3> QED
      BY <1>4 DEF ReadMember, ReadSingle
  <2>2. UNCHANGED <<sub, link, attach>>
    BY <1>4 DEF ReadMember, ReadSingle
  <2>3. \A q \in Requests \ {p} : req'[q] = req[q]
    BY <2>1 DEF BundleTypeOK
  <2>4. \/ req'[p].pc = "aborted"
        \/ /\ sub[m] = "staged"
           /\ req'[p].pc = "member" /\ req'[p].member = m /\ req'[p].seen = link[m]
    <3> req \in [Requests -> Request]
      BY DEF BundleTypeOK
    <3> QED
      BY <2>1 DEF Request
  <2> QED
    BY <1>1, <2>2, <2>3, <2>4 DEF At
<1>5. ASSUME NEW p \in Requests, PublishMember(p) \/ FailMember(p)
      PROVE  Stragglers' \subseteq Stragglers /\ Stamped' \ Stamped \subseteq Stragglers
  <2>0. PICK m : m = req[p].member
    OBVIOUS
  <2>1. m \in Members /\ At(p, m) /\ attach' = attach
    BY <1>5, <2>0 DEF PublishMember, FailMember, HeldInv, At
  <2>2. /\ \A q \in Requests \ {p} : req'[q] = req[q]
        /\ req'[p].pc # "member"
    <3> req \in [Requests -> Request]
      BY DEF BundleTypeOK
    <3>1. PICK pc \in {"loop", "done", "aborted"} : req' = [req EXCEPT ![p].pc = pc]
      BY <1>5 DEF PublishMember, FailMember, Continue
    <3> QED
      BY <3>1 DEF Request
  <2>3. \A n \in Members : n # m => sub'[n] = sub[n] /\ link'[n] = link[n]
    BY <1>5, <2>0, <2>1 DEF PublishMember, FailMember, BundleTypeOK
  <2>4. m \notin DryRuns => sub'[m] # "staged"
    BY <1>5, <2>0, <2>1 DEF PublishMember, FailMember, BundleTypeOK
  <2>5. Stragglers' \subseteq Stragglers
    BY <2>1, <2>2, <2>3, <2>4 DEF Stragglers, At
  <2>6. m \in Stamped' \ Stamped => m \in Stragglers
    <3>1. ASSUME m \in Stamped', m \notin Stamped PROVE m \notin DryRuns /\ req[p].seen = "bundle"
      BY <1>5, <2>0, <2>1, <3>1 DEF PublishMember, FailMember, Stamped, BundleTypeOK
    <3> QED
      BY <2>1, <3>1 DEF Stragglers
  <2> QED
    BY <2>3, <2>5, <2>6 DEF Stamped
<1>6. ASSUME NEW m \in Members, Reject(m)
      PROVE  Stragglers' \subseteq Stragglers /\ Stamped' \ Stamped \subseteq Stragglers
  BY <1>6 DEF Reject, Stragglers, Stamped, At, BundleTypeOK
<1>7. CASE UNCHANGED bundleVars
  BY <1>1, <1>7 DEF bundleVars, At
<1> QED
  BY <1>2, <1>3, <1>4, <1>5, <1>6, <1>7 DEF BundleNext

\* Nothing leaves the bundle that one request had in hand: a step that notes a contest
\* publishes nothing.
LEMMA NothingLeaves ==
  ASSUME BundleInv, [BundleNext]_bundleVars
  PROVE  Stamped \ Stamped' \subseteq contested
<1>1. CASE contested' = contested
  <2>1. Stamped \subseteq Members
    BY DEF Stamped
  <2> QED
    BY <1>1, <2>1, BundleStep DEF Kept
<1>2. CASE contested' # contested
  <2>1. sub' = sub /\ (link' = link \/ \E a \in Attaches : UpdateAttach(a))
    BY <1>2 DEF BundleNext, CheckAttach, UpdateAttach, CheckRelease, ListMembers, ReadMember,
       ReadSingle, PublishMember, FailMember, Finalize, Reject, bundleVars
  <2>2. ASSUME NEW a \in Attaches, UpdateAttach(a), NEW m \in Members, link[m] = "bundle"
        PROVE  link'[m] = "bundle"
    BY <2>2 DEF UpdateAttach, BundleInv, BundleTypeOK
  <2>3. \A m \in Members : link[m] = "bundle" => link'[m] = "bundle"
    BY <2>1, <2>2
  <2> QED
    BY <2>1, <2>3 DEF Stamped
<1> QED
  BY <1>1, <1>2

\* Types of submissions, requests and attaches.
THEOREM BundleIsTyped == BundleSpec => []BundleTypeOK
<1>1. BundleInv => BundleTypeOK
  BY DEF BundleInv
<1> QED
  BY <1>1, BundleHolds, PTL

\* publish-bundle.ts: "each submission atomic + release published LAST". However requests
\* interleave, fail and are retried: a request that has published the release has published
\* every member it listed, into it, but for those that a second request had in hand.
THEOREM ReleaseIsLast == BundleSpec => []ReleaseComesLast
<1>1. ASSUME BundleInv, NEW p \in Requests, req[p].kind = "bundle", req[p].pc = "done"
      PROVE  release # "open" /\ req[p].listed \ (DryRuns \cup contested) \subseteq Stamped
  <2>1. RequestInv(p) /\ Left(p) = {}
    BY <1>1 DEF BundleInv, Left, At
  <2> QED
    BY <1>1, <2>1 DEF RequestInv
<1>2. BundleInv => ReleaseComesLast
  BY <1>1 DEF ReleaseComesLast
<1> QED
  BY <1>2, BundleHolds, PTL

\* releases.ts: "cannot attach to a published vintage". From the publication on, what was
\* under way is all that ever enters the bundle, and nothing leaves it that one request
\* had in hand.
THEOREM BundleStaysClosed == BundleSpec => PublishedBundleIsClosed
<1>1. BundleInv /\ [BundleNext]_bundleVars =>
        [release # "open" =>
           /\ release' # "open"
           /\ Stragglers' \subseteq Stragglers
           /\ Stamped' \ Stamped \subseteq Stragglers
           /\ Stamped \ Stamped' \subseteq contested]_bundleVars
  BY BundleStep, Closed, NothingLeaves DEF Kept
<1> QED
  BY <1>1, BundleHolds, PTL DEF BundleSpec, PublishedBundleIsClosed
=============================================================================
