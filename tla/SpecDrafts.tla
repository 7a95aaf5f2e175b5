---------------------------- MODULE SpecDrafts -----------------------------
(***************************************************************************)
(* Authoring a data spec: the drafts of the constructor panel              *)
(* (apps/panel/src/store: dataSpecDraft.store.ts, api-actions.ts), its     *)
(* requests in flight, and the validated, versioned write of the API       *)
(* (apps/api/src/routes/config/data-specs.ts, lib/revision-log.ts).        *)
(*                                                                         *)
(* Several tabs edit the same documents; those of one browser share its    *)
(* localStorage.  A name, a description and a source are never edited, so  *)
(* a document is its spec.  AtRest is normalizeSpecForRest() and JSONB:    *)
(* what a reader of a stored spec gets, compared by its serialization.     *)
(***************************************************************************)
EXTENDS Naturals, Sequences

CONSTANTS
  Docs, Specs,
  AtRest,     \* AtRest[s]: what is read back after s was written
  Tabs,
  Browser,    \* the browser of each tab
  Requests,   \* requests that may be under way at a time
  None,
  MaxSends,   \* requests in all
  MaxMoves    \* edits and reloads in all

Browsers == {Browser[t] : t \in Tabs}

ASSUME RestOK ==
  /\ AtRest \in [Specs -> Specs]
  /\ \A s \in Specs : AtRest[AtRest[s]] = AtRest[s]

ASSUME BoundsOK == MaxSends \in Nat /\ MaxMoves \in Nat

VARIABLES
  row,       \* config.data_spec: the spec of each document, None if there is none
  log,       \* config.revision, in the order of revision_number
  lock,      \* the request whose transaction holds the row
  wire,      \* the requests
  disk,      \* localStorage: 'statdash.dataspec-drafts' of each browser
  tab,       \* the stores of each tab
  sends, moves,  \* how many so far
  was,       \* history: the specs each document has had
  overtaken  \* history: documents of which an edit has overtaken a publish

server == <<row, log, lock, was>>
counts == <<sends, moves>>
vars == <<row, log, lock, wire, disk, tab, sends, moves, was, overtaken>>

Draft == [base : Specs, current : Specs]

Drafts == [Docs -> Draft \cup {None}]

NoDrafts == [d \in Docs |-> None]

\* boot: "off", the page has loaded; "reading", the list of specs has been answered and
\* `store` holds it; "on", hydrated. busy: the documents whose phase is "publishing".
Tab ==
  [boot : {"off", "reading", "on"}, store : [Docs -> Specs \cup {None}],
   drafts : Drafts, busy : SUBSET Docs]

Start(drafts) ==
  [boot |-> "off", store |-> [d \in Docs |-> None], drafts |-> drafts, busy |-> {}]

\* tab: None when the page that sent it is gone. body: the spec that is sent, or that a
\* restore has read; rev: the revision to restore.
Request ==
  [step : {"sent", "locked", "answered"}, kind : {"create", "put", "restore"},
   doc : Docs, body : Specs \cup {None}, rev : Nat, tab : Tabs \cup {None}, ok : BOOLEAN]

Revision == [body : Specs, from : Nat]

ASSUME NoneOK ==
  /\ None \notin Specs \cup Tabs \cup Requests
  /\ None \notin Draft /\ None \notin Request

TypeOK ==
  /\ row \in [Docs -> Specs \cup {None}]
  /\ log \in [Docs -> Seq(Revision)]
  /\ lock \in [Docs -> Requests \cup {None}]
  /\ wire \in [Requests -> Request \cup {None}]
  /\ disk \in [Browsers -> Drafts]
  /\ tab \in [Tabs -> Tab]
  /\ sends \in 0..MaxSends /\ moves \in 0..MaxMoves
  /\ was \in [Docs -> SUBSET Specs]
  /\ overtaken \subseteq Docs

Init ==
  /\ row \in [Docs -> Specs \cup {None}]
  /\ log = [d \in Docs |-> IF row[d] = None THEN <<>>
                           ELSE <<[body |-> row[d], from |-> 0]>>]
  /\ lock = [d \in Docs |-> None]
  /\ wire = [r \in Requests |-> None]
  /\ disk = [b \in Browsers |-> NoDrafts]
  /\ tab = [t \in Tabs |-> Start(NoDrafts)]
  /\ sends = 0 /\ moves = 0
  /\ was = [d \in Docs |-> {row[d]} \ {None}]
  /\ overtaken = {}

-----------------------------------------------------------------------------
\* The panel.

\* Each set() of the draft store writes all drafts the tab knows to localStorage.
SetDrafts(t, store, drafts) ==
  /\ tab' = [tab EXCEPT ![t] = [@ EXCEPT !.store = store, !.drafts = drafts]]
  /\ disk' = [disk EXCEPT ![Browser[t]] = drafts]

With(f, d, v) == [f EXCEPT ![d] = v]

\* A page loads, or a tab is closed and opened: what is in memory is lost, and the answers
\* of its requests.
Reload(t) ==
  /\ moves < MaxMoves /\ moves' = moves + 1
  /\ tab' = [tab EXCEPT ![t] = Start(disk[Browser[t]])]
  /\ wire' = [r \in Requests |->
                IF wire[r] # None /\ wire[r].tab = t
                THEN [wire[r] EXCEPT !.tab = None] ELSE wire[r]]
  /\ UNCHANGED <<server, disk, sends, overtaken>>

\* initFromApi() reads the specs, then the pages, and then sets its stores.
ReadSpecs(t) ==
  /\ tab[t].boot = "off"
  /\ tab' = [tab EXCEPT ![t] = [@ EXCEPT !.boot = "reading", !.store = row]]
  /\ UNCHANGED <<server, wire, disk, counts, overtaken>>

\* A draft is applied again if what was loaded is its base.
Fresh(t, d) == tab[t].drafts[d] # None /\ tab[t].store[d] = tab[t].drafts[d].base

Stale(t) == {d \in Docs : tab[t].drafts[d] # None /\ ~Fresh(t, d)}

rehydrateDataSpecDrafts(t) ==
  LET drafts == [d \in Docs |-> IF Fresh(t, d) THEN tab[t].drafts[d] ELSE None] IN
  /\ tab' = [tab EXCEPT ![t] =
       [boot |-> "on", drafts |-> drafts, busy |-> {},
        store |-> [d \in Docs |-> IF Fresh(t, d) THEN tab[t].drafts[d].current
                                  ELSE tab[t].store[d]]]]
  /\ disk' = IF Stale(t) = {} THEN disk ELSE [disk EXCEPT ![Browser[t]] = drafts]

Hydrate(t) ==
  /\ tab[t].boot = "reading"
  /\ rehydrateDataSpecDrafts(t)
  /\ UNCHANGED <<server, wire, counts, overtaken>>

Open(t, d) == tab[t].boot = "on" /\ tab[t].store[d] # None

\* Deviation: each edit forks from the one before.
recordEditForking(t, d, s) ==
  With(tab[t].drafts, d, [base |-> tab[t].store[d], current |-> s])

\* The base is what the store held at the first edit.
recordEdit(t, d, s) ==
  LET draft == tab[t].drafts[d] IN
  With(tab[t].drafts, d,
       [base |-> IF draft = None THEN tab[t].store[d] ELSE draft.base, current |-> s])

updateDataSpec(t, d, s) ==
  /\ Open(t, d)
  /\ moves < MaxMoves /\ moves' = moves + 1
  /\ SetDrafts(t, With(tab[t].store, d, s), recordEdit(t, d, s))
  /\ UNCHANGED <<server, wire, sends, overtaken>>

Send(t, kind, d, body, rev) ==
  /\ sends < MaxSends
  /\ sends' = sends + 1
  /\ \E r \in Requests :
       /\ wire[r] = None
       /\ wire' = [wire EXCEPT ![r] =
            [step |-> "sent", kind |-> kind, doc |-> d, body |-> body, rev |-> rev,
             tab |-> t, ok |-> FALSE]]
  /\ UNCHANGED <<server, disk, moves, overtaken>>

\* The band's buttons are disabled while a publish or a restore is in flight; the editor
\* is not.
Idle(t, d) == Open(t, d) /\ d \notin tab[t].busy

SetBusy(t, d) == tab' = [tab EXCEPT ![t].busy = @ \cup {d}]

publishDataSpec(t, d) ==
  /\ Idle(t, d) /\ tab[t].drafts[d] # None
  /\ Send(t, "put", d, tab[t].store[d], 0)
  /\ SetBusy(t, d)

\* Any revision of the history door; a revision that was listed stays.
restoreDataSpecRevision(t, d) ==
  /\ Idle(t, d)
  /\ \E i \in DOMAIN log[d] : Send(t, "restore", d, None, i)
  /\ SetBusy(t, d)

\* The server makes up the id: that of a document nobody knows.
createDataSpec(t, d) ==
  /\ tab[t].boot = "on"
  /\ row[d] = None /\ log[d] = <<>> /\ was[d] = {}
  /\ \A r \in Requests : wire[r] # None => wire[r].doc # d
  /\ \E s \in Specs : Send(t, "create", d, s, 0)
  /\ UNCHANGED tab

discardDataSpec(t, d) ==
  /\ Idle(t, d) /\ tab[t].drafts[d] # None
  /\ SetDrafts(t, With(tab[t].store, d, tab[t].drafts[d].base),
               With(tab[t].drafts, d, None))
  /\ UNCHANGED <<server, wire, counts, overtaken>>

-----------------------------------------------------------------------------
\* The API. A transaction begins by locking the row; none holds two.

Answered(r, ok) == wire' = [wire EXCEPT ![r] = [@ EXCEPT !.step = "answered", !.ok = ok]]

Writes(r) == wire[r] # None /\ wire[r].kind \in {"put", "restore"}

\* SELECT ... FOR UPDATE. A restore has read its revision in the statement before: a
\* revision never changes.
LockRow(r) ==
  LET q == wire[r] IN
  /\ Writes(r) /\ q.step = "sent"
  /\ row[q.doc] # None /\ lock[q.doc] = None
  /\ lock' = [lock EXCEPT ![q.doc] = r]
  /\ wire' = [wire EXCEPT ![r] =
       [q EXCEPT !.step = "locked",
                 !.body = IF q.kind = "restore" THEN log[q.doc][q.rev].body ELSE q.body]]
  /\ UNCHANGED <<row, log, disk, tab, counts, was, overtaken>>

\* 404. Nothing is locked where there is no row.
NotFound(r) ==
  /\ Writes(r) /\ wire[r].step = "sent"
  /\ row[wire[r].doc] = None
  /\ Answered(r, FALSE)
  /\ UNCHANGED <<server, disk, tab, counts, overtaken>>

SetRow(d, s) ==
  /\ row' = [row EXCEPT ![d] = s]
  /\ was' = [was EXCEPT ![d] = @ \cup {s}]

appendRevision(d, s, from) ==
  log' = [log EXCEPT ![d] = Append(@, [body |-> s, from |-> from])]

\* Deviation: an old body is put back as it was filed.
CommitVerbatim(r) ==
  LET q == wire[r] IN
  /\ Writes(r) /\ q.step = "locked"
  /\ LET s == IF q.kind = "restore" THEN q.body ELSE AtRest[q.body] IN
     SetRow(q.doc, s) /\ appendRevision(q.doc, s, q.rev)
  /\ lock' = [lock EXCEPT ![q.doc] = None]
  /\ Answered(r, TRUE)
  /\ UNCHANGED <<disk, tab, counts, overtaken>>

\* The revision and the row, and COMMIT.
Commit(r) ==
  LET q == wire[r] IN
  /\ Writes(r) /\ q.step = "locked"
  /\ SetRow(q.doc, AtRest[q.body])
  /\ appendRevision(q.doc, AtRest[q.body], q.rev)
  /\ lock' = [lock EXCEPT ![q.doc] = None]
  /\ Answered(r, TRUE)
  /\ UNCHANGED <<disk, tab, counts, overtaken>>

\* POST: a row, and no revision.
Insert(r) ==
  /\ wire[r] # None /\ wire[r].kind = "create" /\ wire[r].step = "sent"
  /\ SetRow(wire[r].doc, AtRest[wire[r].body])
  /\ Answered(r, TRUE)
  /\ UNCHANGED <<log, lock, disk, tab, counts, overtaken>>

\* Deviation: an early exit that does not roll back.
RefuseLeaking(r) ==
  /\ wire[r] # None /\ wire[r].step # "answered"
  /\ Answered(r, FALSE)
  /\ UNCHANGED <<server, disk, tab, counts, overtaken>>

\* 422, 403, a statement that fails, or the death of the process: rolled back.
Refuse(r) ==
  /\ wire[r] # None /\ wire[r].step # "answered"
  /\ Answered(r, FALSE)
  /\ lock' = [d \in Docs |-> IF lock[d] = r THEN None ELSE lock[d]]
  /\ UNCHANGED <<row, log, was, disk, tab, counts, overtaken>>

\* DELETE waits for the row as well. The revisions stay.
Delete(d) ==
  /\ row[d] # None /\ lock[d] = None
  /\ row' = [row EXCEPT ![d] = None]
  /\ UNCHANGED <<log, lock, was, wire, disk, tab, counts, overtaken>>

-----------------------------------------------------------------------------
\* The answers.

Freed(r) == wire' = [wire EXCEPT ![r] = None]

\* SetDrafts() and the end of the phase "publishing".
Finish(t, d, store, drafts) ==
  /\ tab' = [tab EXCEPT ![t] = [@ EXCEPT !.store = store, !.drafts = drafts,
                                         !.busy = tab[t].busy \ {d}]]
  /\ disk' = [disk EXCEPT ![Browser[t]] = drafts]

Cleared(t, d) == With(tab[t].drafts, d, None)

\* The draft goes whatever the store holds by now.
Published(r) ==
  LET q == wire[r] IN
  /\ q.kind = "put" /\ q.ok
  /\ Finish(q.tab, q.doc, tab[q.tab].store, Cleared(q.tab, q.doc))
  /\ overtaken' = IF tab[q.tab].store[q.doc] = q.body THEN overtaken
                  ELSE overtaken \cup {q.doc}

Restored(r) ==
  LET q == wire[r] IN
  /\ q.kind = "restore" /\ q.ok
  /\ Finish(q.tab, q.doc, With(tab[q.tab].store, q.doc, AtRest[q.body]),
            Cleared(q.tab, q.doc))
  /\ UNCHANGED overtaken

Created(r) ==
  LET q == wire[r] IN
  /\ q.kind = "create" /\ q.ok
  /\ tab' = [tab EXCEPT ![q.tab].store[q.doc] = AtRest[q.body]]
  /\ UNCHANGED <<disk, overtaken>>

\* Deviation: the draft is dropped with the phase, whatever the answer.
FailedClearing(r) ==
  LET q == wire[r] IN
  /\ Finish(q.tab, q.doc, tab[q.tab].store, Cleared(q.tab, q.doc))
  /\ UNCHANGED overtaken

\* An error; the draft stays.
Failed(r) ==
  /\ tab' = [tab EXCEPT ![wire[r].tab].busy = @ \ {wire[r].doc}]
  /\ UNCHANGED <<disk, overtaken>>

Receive(r) ==
  /\ wire[r] # None /\ wire[r].step = "answered"
  /\ Freed(r)
  /\ \/ wire[r].tab = None /\ UNCHANGED <<disk, tab, overtaken>>
     \/ /\ wire[r].tab # None
        /\ \/ Published(r) \/ Restored(r) \/ Created(r)
           \/ ~wire[r].ok /\ Failed(r)
  /\ UNCHANGED <<server, counts>>

\* The connection breaks: an error for the tab, whatever becomes of the request.
Lose(r) ==
  /\ wire[r] # None /\ wire[r].tab # None
  /\ wire' = [wire EXCEPT ![r].tab = None]
  /\ Failed(r)
  /\ UNCHANGED <<server, counts>>

Serve(r) == LockRow(r) \/ NotFound(r) \/ Commit(r) \/ Insert(r)

Edit(t, d) ==
  \/ \E s \in Specs : updateDataSpec(t, d, s)
  \/ publishDataSpec(t, d) \/ restoreDataSpecRevision(t, d)
  \/ createDataSpec(t, d) \/ discardDataSpec(t, d)

Next ==
  \/ \E t \in Tabs : Reload(t) \/ ReadSpecs(t) \/ Hydrate(t) \/ \E d \in Docs : Edit(t, d)
  \/ \E r \in Requests : Serve(r) \/ Refuse(r) \/ Receive(r) \/ Lose(r)
  \/ \E d \in Docs : Delete(d)

Spec == Init /\ [][Next]_vars
-----------------------------------------------------------------------------

\* revision-log.ts: "a crash between them would drift current-state from its log". The row
\* and the log are those of ADR-052 at each step, and a restore files a new revision.
Promised == INSTANCE RevisionLog
ImplementsRevisionLog == Promised!Spec

\* A spec that the document has had, in the author's dialect or that of rest.
WasPublished(d, s) == was[d] \cap {s, AtRest[s]} # {}

\* AuthoringLifecycleBand.tsx, "the canvas never lies": what is shown without a draft chip
\* has been published, however publishes fail, answers are lost, pages are reloaded and
\* other tabs publish; unless an edit has overtaken a publish.
CleanIsPublished ==
  \A t \in Tabs, d \in Docs \ overtaken :
    Open(t, d) /\ tab[t].drafts[d] = None => WasPublished(d, tab[t].store[d])

\* dataSpecDraft.store.ts: "discard always returns to the genuinely-published spec, not the
\* previous keystroke", in each tab and after each reload.
DiscardIsHonest ==
  \A t \in Tabs, d \in Docs \ overtaken :
    tab[t].drafts[d] # None => WasPublished(d, tab[t].drafts[d].base)

\* revision-log.ts: append and update are one transaction, which locks the row first. A row
\* is held by a request that is still at work on it, and by one only: none that was refused
\* or has failed keeps the next author waiting, and none writes a row it does not hold.
RowIsHeldByItsWriter ==
  \A d \in Docs, r \in Requests :
    lock[d] = r <=> wire[r] # None /\ wire[r].step = "locked" /\ wire[r].doc = d

\* api-actions.ts:256. Violated when the author edits while the publish is in flight: the
\* draft is dropped with the published one, see the README.
CleanIsAlwaysPublished ==
  \A t \in Tabs, d \in Docs :
    Open(t, d) /\ tab[t].drafts[d] = None => WasPublished(d, tab[t].store[d])

\* dataSpecPersist.test.ts: "a draft SURVIVES reload" when its base is what is published.
\* Violated after a publish in the session: the store keeps the author's dialect, the next
\* base is taken from it, and the list has that of rest; see the README.
DraftSurvivesReload ==
  [][\A t \in Tabs, d \in Docs :
       /\ tab[t].boot = "reading" /\ tab[t].drafts[d] # None
       /\ AtRest[tab[t].drafts[d].base] = tab[t].store[d]
       /\ tab'[t].boot = "on"
       => tab'[t].drafts[d] # None]_vars
=============================================================================
