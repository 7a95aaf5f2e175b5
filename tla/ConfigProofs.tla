---------------------------- MODULE ConfigProofs ----------------------------
(***************************************************************************)
(* What SpecDrafts promises, for any number of documents, tabs, browsers   *)
(* and requests.                                                           *)
(*                                                                         *)
(* The server's part stands alone: ServerInv says what a request carries   *)
(* and that a row is held by the request at work on it.  What is shown     *)
(* rests on it: a draft forks from a spec that was published, in memory    *)
(* and in localStorage, and an answer brings one that is.                  *)
(*                                                                         *)
(* Then the pages, for any number of them and of connections: their live   *)
(* version, and what a client's ETag says of the manifest it holds.        *)
(***************************************************************************)
EXTENDS SpecDrafts, PageManifest, FiniteSetTheorems, TLAPS

\* What a request carries.
RequestOK ==
  \A r \in Requests : wire[r] # None =>
    LET q == wire[r] IN
    /\ q.kind # "restore" => q.body \in Specs
    /\ q.kind = "put" => q.rev = 0
    /\ q.kind = "restore" /\ q.step \in {"sent", "locked"} => q.rev \in DOMAIN log[q.doc]
    /\ q.step = "locked" =>
         /\ Writes(r) /\ row[q.doc] # None /\ q.body \in Specs
         /\ q.kind = "restore" => q.body = log[q.doc][q.rev].body
    /\ q.step = "answered" /\ q.ok => q.body \in Specs /\ AtRest[q.body] \in was[q.doc]

Creates(r, d) ==
  wire[r] # None /\ wire[r].kind = "create" /\ wire[r].step = "sent" /\ wire[r].doc = d

\* A document is created by one request, and has no past before.
UnbornOK ==
  \A r \in Requests, d \in Docs : Creates(r, d) =>
    /\ row[d] = None /\ log[d] = <<>>
    /\ \A q \in Requests : Creates(q, d) => q = r

KnownRows == \A d \in Docs : row[d] # None => row[d] \in was[d]

ServerInv == TypeOK /\ RequestOK /\ RowIsHeldByItsWriter /\ UnbornOK /\ KnownRows

HonestDrafts(drafts) ==
  \A d \in Docs \ overtaken : drafts[d] # None => WasPublished(d, drafts[d].base)

DiskOK == \A b \in Browsers : HonestDrafts(disk[b])

TabsOK == \A t \in Tabs : HonestDrafts(tab[t].drafts)

ReadingOK ==
  \A t \in Tabs, d \in Docs :
    tab[t].boot = "reading" /\ tab[t].store[d] # None => tab[t].store[d] \in was[d]

ShownInv == DiskOK /\ TabsOK /\ ReadingOK /\ CleanIsPublished

-----------------------------------------------------------------------------
\* Types.

LEMMA InitServer == Init => ServerInv
<1>. SUFFICES ASSUME Init PROVE ServerInv
  OBVIOUS
<1>1. TypeOK
  <2>1. log \in [Docs -> Seq(Revision)]
    <3>1. \A d \in Docs : row[d] # None =>
            <<[body |-> row[d], from |-> 0]>> \in Seq(Revision)
      BY DEF Init, Revision
    <3>. QED  BY <3>1 DEF Init
  <2>2. tab \in [Tabs -> Tab] /\ disk \in [Browsers -> Drafts]
    BY DEF Init, Tab, Start, NoDrafts, Drafts
  <2>. QED  BY <2>1, <2>2, BoundsOK DEF Init, TypeOK
<1>. QED  BY <1>1, NoneOK
     DEF Init, ServerInv, RequestOK, RowIsHeldByItsWriter, UnbornOK, Creates, KnownRows

LEMMA InitShown == Init => ShownInv
BY DEF Init, ShownInv, DiskOK, TabsOK, ReadingOK, HonestDrafts, CleanIsPublished, Open,
       Start, NoDrafts

\* The spec of a row that is written, and the revisions.
LEMMA WrittenIsTyped ==
  ASSUME TypeOK, NEW d \in Docs, NEW s \in Specs, SetRow(d, s)
  PROVE  /\ row' \in [Docs -> Specs \cup {None}]
         /\ was' \in [Docs -> SUBSET Specs]
         /\ \A e \in Docs : was[e] \subseteq was'[e]
         /\ row'[d] = s /\ s \in was'[d]
         /\ \A e \in Docs \ {d} : row'[e] = row[e] /\ was'[e] = was[e]
BY DEF TypeOK, SetRow

LEMMA FiledIsTyped ==
  ASSUME TypeOK, NEW d \in Docs, NEW s \in Specs, NEW from \in Nat,
         appendRevision(d, s, from)
  PROVE  /\ log' \in [Docs -> Seq(Revision)]
         /\ \A e \in Docs : /\ DOMAIN log[e] \subseteq DOMAIN log'[e]
                            /\ \A i \in DOMAIN log[e] : log'[e][i] = log[e][i]
         /\ \A e \in Docs \ {d} : log'[e] = log[e]
<1>. DEFINE rev == [body |-> s, from |-> from]
<1>1. rev \in Revision /\ log[d] \in Seq(Revision)
  BY DEF Revision, TypeOK
<1>2. log' = [log EXCEPT ![d] = Append(@, rev)]
  BY DEF appendRevision
<1>3. Append(log[d], rev) \in Seq(Revision)
  BY <1>1
<1>4. \A e \in Docs : log'[e] = IF e = d THEN Append(log[d], rev) ELSE log[e]
  BY <1>2 DEF TypeOK
<1>5. /\ DOMAIN log[d] \subseteq DOMAIN Append(log[d], rev)
      /\ \A i \in DOMAIN log[d] : Append(log[d], rev)[i] = log[d][i]
  BY <1>1
<1>6. log' \in [Docs -> Seq(Revision)]
  BY <1>2, <1>3 DEF TypeOK
<1>. QED  BY <1>4, <1>5, <1>6

LEMMA DraftsAreTyped ==
  ASSUME TypeOK, NEW t \in Tabs, NEW d \in Docs, NEW s \in Specs \cup {None},
         NEW v \in Draft \cup {None}
  PROVE  /\ With(tab[t].store, d, s) \in [Docs -> Specs \cup {None}]
         /\ With(tab[t].drafts, d, v) \in Drafts
BY DEF TypeOK, Tab, Drafts, With

LEMMA SetDraftsIsTyped ==
  ASSUME TypeOK, NEW t \in Tabs, NEW store \in [Docs -> Specs \cup {None}],
         NEW drafts \in Drafts, NEW d \in Docs,
         SetDrafts(t, store, drafts) \/ Finish(t, d, store, drafts)
  PROVE  tab' \in [Tabs -> Tab] /\ disk' \in [Browsers -> Drafts]
<1>1. tab[t] \in Tab /\ Browser[t] \in Browsers
  BY DEF TypeOK, Browsers
<1>2. [tab[t] EXCEPT !.store = store, !.drafts = drafts] \in Tab
  BY <1>1 DEF Tab
<1>3. [tab[t] EXCEPT !.store = store, !.drafts = drafts, !.busy = tab[t].busy \ {d}] \in Tab
  BY <1>1 DEF Tab
<1>4. tab \in [Tabs -> Tab] /\ disk \in [Browsers -> Drafts]
  BY DEF TypeOK
<1>5. CASE SetDrafts(t, store, drafts)
  BY <1>1, <1>2, <1>4, <1>5 DEF SetDrafts
<1>6. CASE Finish(t, d, store, drafts)
  <2>. DEFINE new == [tab[t] EXCEPT !.store = store, !.drafts = drafts, !.busy = tab[t].busy \ {d}]
  <2>1. tab' = [tab EXCEPT ![t] = new] /\ disk' = [disk EXCEPT ![Browser[t]] = drafts]
    BY <1>6 DEF Finish
  <2>. HIDE DEF new
  <2>2. new \in Tab
    BY <1>3 DEF new
  <2>. QED  BY <1>1, <1>4, <2>1, <2>2
<1>. QED  BY <1>5, <1>6

LEMMA AnsweredIsTyped ==
  ASSUME TypeOK, NEW r \in Requests, wire[r] # None, NEW ok \in BOOLEAN, Answered(r, ok)
  PROVE  /\ wire' \in [Requests -> Request \cup {None}]
         /\ wire'[r].step = "answered" /\ wire'[r].ok = ok
         /\ wire'[r].kind = wire[r].kind /\ wire'[r].doc = wire[r].doc
         /\ wire'[r].body = wire[r].body /\ wire'[r].rev = wire[r].rev
         /\ \A q \in Requests \ {r} : wire'[q] = wire[q]
<1>. DEFINE new == [wire[r] EXCEPT !.step = "answered", !.ok = ok]
<1>1. wire[r] \in Request
  BY DEF TypeOK
<1>2. /\ new \in Request /\ new.step = "answered" /\ new.ok = ok
      /\ new.kind = wire[r].kind /\ new.doc = wire[r].doc
      /\ new.body = wire[r].body /\ new.rev = wire[r].rev
  BY <1>1 DEF Request
<1>3. wire' = [wire EXCEPT ![r] = new]
  BY DEF Answered
<1>. QED  BY <1>2, <1>3 DEF TypeOK

-----------------------------------------------------------------------------
\* Types are kept, by the panel, the server and the answers.

LEMMA PanelTypes ==
  ASSUME TypeOK, NEW t \in Tabs,
         Reload(t) \/ ReadSpecs(t) \/ Hydrate(t) \/ \E d \in Docs : Edit(t, d)
  PROVE  TypeOK'
<1>. USE DEF TypeOK
<1>0. tab[t] \in Tab /\ Browser[t] \in Browsers
  BY DEF Browsers
<1>1. CASE Reload(t)
  <2>1. Start(disk[Browser[t]]) \in Tab
    BY <1>0 DEF Start, Tab, Drafts
  <2>2. \A r \in Requests : wire[r] # None => [wire[r] EXCEPT !.tab = None] \in Request
    BY DEF Request
  <2>3. tab' \in [Tabs -> Tab] /\ wire' \in [Requests -> Request \cup {None}]
    BY <1>1, <2>1, <2>2 DEF Reload
  <2>. QED  BY <1>1, <2>3, BoundsOK DEF Reload, server
<1>2. CASE ReadSpecs(t)
  <2>1. [tab[t] EXCEPT !.boot = "reading", !.store = row] \in Tab
    BY <1>0 DEF Tab
  <2>. QED  BY <1>2, <2>1 DEF ReadSpecs, server, counts
<1>3. CASE Hydrate(t)
  <2>1. \A d \in Docs : /\ tab[t].drafts[d] \in Draft \cup {None}
                        /\ tab[t].store[d] \in Specs \cup {None}
                        /\ Fresh(t, d) => tab[t].drafts[d].current \in Specs
    BY <1>0 DEF Tab, Drafts, Draft, Fresh
  <2>. DEFINE drafts == [d \in Docs |-> IF Fresh(t, d) THEN tab[t].drafts[d] ELSE None]
              store == [d \in Docs |-> IF Fresh(t, d) THEN tab[t].drafts[d].current
                                       ELSE tab[t].store[d]]
              new == [boot |-> "on", drafts |-> drafts, busy |-> {}, store |-> store]
  <2>2. drafts \in Drafts /\ store \in [Docs -> Specs \cup {None}]
    BY <2>1 DEF Drafts
  <2>3. new \in Tab
    BY <2>2 DEF Tab
  <2>4. tab' = [tab EXCEPT ![t] = new]
    BY <1>3 DEF Hydrate, rehydrateDataSpecDrafts
  <2>5. disk' = disk \/ disk' = [disk EXCEPT ![Browser[t]] = drafts]
    BY <1>3 DEF Hydrate, rehydrateDataSpecDrafts
  <2>6. tab' \in [Tabs -> Tab] /\ disk' \in [Browsers -> Drafts]
    BY <2>2, <2>3, <2>4, <2>5
  <2>. QED  BY <1>3, <2>6 DEF Hydrate, server, counts
<1>4. ASSUME NEW d \in Docs, NEW s \in Specs, updateDataSpec(t, d, s)
      PROVE  TypeOK'
  <2>. DEFINE draft == [base |-> IF tab[t].drafts[d] = None THEN tab[t].store[d]
                                 ELSE tab[t].drafts[d].base, current |-> s]
  <2>1. draft \in Draft
    BY <1>0, <1>4 DEF updateDataSpec, Open, Tab, Drafts, Draft
  <2>2. SetDrafts(t, With(tab[t].store, d, s), With(tab[t].drafts, d, draft))
    BY <1>4 DEF updateDataSpec, recordEdit
  <2>3. tab' \in [Tabs -> Tab] /\ disk' \in [Browsers -> Drafts]
    BY <2>1, <2>2, DraftsAreTyped, SetDraftsIsTyped
  <2>. QED  BY <1>4, <2>3, BoundsOK DEF updateDataSpec, server
<1>5. ASSUME NEW d \in Docs, NEW kind \in {"create", "put", "restore"},
             NEW body \in Specs \cup {None}, NEW rev \in Nat,
             Send(t, kind, d, body, rev), SetBusy(t, d) \/ UNCHANGED tab
      PROVE  TypeOK'
  <2>1. [step |-> "sent", kind |-> kind, doc |-> d, body |-> body, rev |-> rev,
         tab |-> t, ok |-> FALSE] \in Request
    BY DEF Request
  <2>2. wire' \in [Requests -> Request \cup {None}]
    BY <1>5, <2>1 DEF Send
  <2>3. [tab[t] EXCEPT !.busy = @ \cup {d}] \in Tab
    BY <1>0 DEF Tab
  <2>4. tab' \in [Tabs -> Tab]
    BY <1>5, <2>3 DEF SetBusy
  <2>. QED  BY <1>5, <2>2, <2>4, BoundsOK DEF Send, server
<1>6. ASSUME NEW d \in Docs, publishDataSpec(t, d)
      PROVE  TypeOK'
  BY <1>0, <1>5, <1>6 DEF publishDataSpec, Tab
<1>7. ASSUME NEW d \in Docs, restoreDataSpecRevision(t, d)
      PROVE  TypeOK'
  <2>1. DOMAIN log[d] \subseteq Nat
    <3>1. log[d] \in Seq(Revision)
      OBVIOUS
    <3>. QED  BY <3>1
  <2>. QED  BY <1>5, <1>7, <2>1 DEF restoreDataSpecRevision
<1>8. ASSUME NEW d \in Docs, createDataSpec(t, d)
      PROVE  TypeOK'
  BY <1>5, <1>8 DEF createDataSpec
<1>9. ASSUME NEW d \in Docs, discardDataSpec(t, d)
      PROVE  TypeOK'
  <2>1. tab[t].drafts[d].base \in Specs
    BY <1>0, <1>9 DEF discardDataSpec, Tab, Drafts, Draft
  <2>2. tab' \in [Tabs -> Tab] /\ disk' \in [Browsers -> Drafts]
    BY <1>9, <2>1, DraftsAreTyped, SetDraftsIsTyped DEF discardDataSpec
  <2>. QED  BY <1>9, <2>2 DEF discardDataSpec, server, counts
<1>. QED  BY <1>1, <1>2, <1>3, <1>4, <1>6, <1>7, <1>8, <1>9 DEF Edit

LEMMA ServerTypes ==
  ASSUME ServerInv,
         \/ \E r \in Requests : Serve(r) \/ Refuse(r)
         \/ \E d \in Docs : Delete(d)
  PROVE  TypeOK'
<1>. USE DEF ServerInv
<1>1. ASSUME NEW r \in Requests, LockRow(r)
      PROVE  TypeOK'
  <2>. DEFINE q == wire[r]
              body == IF q.kind = "restore" THEN log[q.doc][q.rev].body ELSE q.body
  <2>1. q \in Request /\ q.doc \in Docs
    BY <1>1 DEF LockRow, Writes, TypeOK, Request
  <2>2. q.kind = "restore" => log[q.doc][q.rev] \in Revision
    <3>1. q.kind = "restore" => q.rev \in DOMAIN log[q.doc]
      BY <1>1 DEF LockRow, Writes, RequestOK
    <3>2. log[q.doc] \in Seq(Revision)
      BY <2>1 DEF TypeOK
    <3>. QED  BY <3>1, <3>2
  <2>3. body \in Specs \cup {None}
    BY <2>1, <2>2 DEF Revision, Request
  <2>4. [wire[r] EXCEPT !.step = "locked", !.body = body] \in Request
    BY <2>1, <2>3 DEF Request
  <2>5. wire' \in [Requests -> Request \cup {None}]
    BY <1>1, <2>4 DEF LockRow, TypeOK
  <2>6. lock' \in [Docs -> Requests \cup {None}]
    BY <1>1, <2>1 DEF LockRow, TypeOK
  <2>. QED  BY <1>1, <2>5, <2>6 DEF LockRow, TypeOK, counts
<1>2. ASSUME NEW r \in Requests, NotFound(r)
      PROVE  TypeOK'
  BY <1>2, AnsweredIsTyped DEF NotFound, Writes, TypeOK, server, counts
<1>3. ASSUME NEW r \in Requests, Commit(r)
      PROVE  TypeOK'
  <2>. DEFINE q == wire[r]
  <2>1. /\ q.doc \in Docs /\ q.rev \in Nat /\ AtRest[q.body] \in Specs
        /\ SetRow(q.doc, AtRest[q.body]) /\ appendRevision(q.doc, AtRest[q.body], q.rev)
    BY <1>3, RestOK DEF Commit, Writes, TypeOK, Request, RequestOK
  <2>2. wire' \in [Requests -> Request \cup {None}]
    BY <1>3, AnsweredIsTyped DEF Commit, Writes
  <2>3. /\ row' \in [Docs -> Specs \cup {None}] /\ was' \in [Docs -> SUBSET Specs]
        /\ log' \in [Docs -> Seq(Revision)]
    BY <2>1, WrittenIsTyped, FiledIsTyped
  <2>. QED  BY <1>3, <2>2, <2>3 DEF Commit, TypeOK, counts
<1>4. ASSUME NEW r \in Requests, Insert(r)
      PROVE  TypeOK'
  <2>1. /\ wire[r].doc \in Docs /\ AtRest[wire[r].body] \in Specs
        /\ SetRow(wire[r].doc, AtRest[wire[r].body])
    BY <1>4, RestOK DEF Insert, TypeOK, Request, RequestOK
  <2>2. /\ row' \in [Docs -> Specs \cup {None}] /\ was' \in [Docs -> SUBSET Specs]
        /\ wire' \in [Requests -> Request \cup {None}]
    BY <1>4, <2>1, WrittenIsTyped, AnsweredIsTyped DEF Insert
  <2>. QED  BY <1>4, <2>2 DEF Insert, TypeOK, counts
<1>5. ASSUME NEW r \in Requests, Refuse(r)
      PROVE  TypeOK'
  BY <1>5, AnsweredIsTyped DEF Refuse, TypeOK, counts
<1>6. ASSUME NEW d \in Docs, Delete(d)
      PROVE  TypeOK'
  BY <1>6 DEF Delete, TypeOK, counts
<1>. QED  BY <1>1, <1>2, <1>3, <1>4, <1>5, <1>6 DEF Serve

LEMMA AnswerTypes ==
  ASSUME ServerInv, NEW r \in Requests, Receive(r) \/ Lose(r)
  PROVE  TypeOK'
<1>. DEFINE q == wire[r]
<1>1. TypeOK /\ q \in Request /\ q.doc \in Docs /\ q.tab \in Tabs \cup {None}
  BY DEF ServerInv, TypeOK, Receive, Lose, Request
<1>2. q.step = "answered" /\ q.ok => q.body \in Specs /\ AtRest[q.body] \in Specs
  BY <1>1, RestOK DEF ServerInv, RequestOK, Receive, Lose
<1>3. q.tab \in Tabs => tab[q.tab] \in Tab /\ Cleared(q.tab, q.doc) \in Drafts
  BY <1>1, DraftsAreTyped DEF TypeOK, Cleared
<1>4. wire' \in [Requests -> Request \cup {None}]
  <2>1. [q EXCEPT !.tab = None] \in Request
    BY <1>1 DEF Request
  <2>. QED  BY <1>1, <2>1 DEF Receive, Lose, Freed, TypeOK
<1>5. ASSUME q.tab \in Tabs, Failed(r)
      PROVE  tab' \in [Tabs -> Tab] /\ disk' \in [Browsers -> Drafts]
  <2>1. [tab[q.tab] EXCEPT !.busy = @ \ {q.doc}] \in Tab
    BY <1>3, <1>5 DEF Tab
  <2>. QED  BY <1>1, <1>5, <2>1 DEF Failed, TypeOK
<1>6. ASSUME q.tab \in Tabs, Published(r), Receive(r)
      PROVE  /\ tab' \in [Tabs -> Tab] /\ disk' \in [Browsers -> Drafts]
             /\ overtaken' \subseteq Docs
  <2>1. Finish(q.tab, q.doc, tab[q.tab].store, Cleared(q.tab, q.doc))
    BY <1>6 DEF Published
  <2>2. tab[q.tab].store \in [Docs -> Specs \cup {None}]
    BY <1>3, <1>6 DEF Tab
  <2>3. overtaken' \subseteq Docs
    BY <1>1, <1>6 DEF Published, TypeOK
  <2>. QED  BY <1>1, <1>3, <1>6, <2>1, <2>2, <2>3, SetDraftsIsTyped
<1>7. ASSUME q.tab \in Tabs, Restored(r), Receive(r)
      PROVE  tab' \in [Tabs -> Tab] /\ disk' \in [Browsers -> Drafts]
  <2>1. /\ Finish(q.tab, q.doc, With(tab[q.tab].store, q.doc, AtRest[q.body]),
                  Cleared(q.tab, q.doc))
        /\ AtRest[q.body] \in Specs
    BY <1>2, <1>7 DEF Restored, Receive
  <2>2. With(tab[q.tab].store, q.doc, AtRest[q.body]) \in [Docs -> Specs \cup {None}]
    BY <1>1, <1>7, <2>1, DraftsAreTyped
  <2>. QED  BY <1>1, <1>3, <1>7, <2>1, <2>2, SetDraftsIsTyped
<1>8. ASSUME q.tab \in Tabs, Created(r), Receive(r)
      PROVE  tab' \in [Tabs -> Tab] /\ disk' \in [Browsers -> Drafts]
  <2>1. AtRest[q.body] \in Specs
    BY <1>2, <1>8 DEF Created, Receive
  <2>2. [tab[q.tab] EXCEPT !.store[q.doc] = AtRest[q.body]] \in Tab
    BY <1>1, <1>3, <1>8, <2>1 DEF Tab
  <2>. QED  BY <1>1, <1>8, <2>2 DEF Created, TypeOK
<1>9. CASE Receive(r)
  <2>1. /\ tab' \in [Tabs -> Tab] /\ disk' \in [Browsers -> Drafts]
        /\ overtaken' \subseteq Docs
    <3>1. CASE q.tab = None
      BY <1>1, <1>9, <3>1 DEF Receive, TypeOK, Published, Restored, Created
    <3>2. CASE q.tab \in Tabs
      <4>1. CASE Published(r)
        BY <1>6, <1>9, <3>2, <4>1
      <4>2. CASE Restored(r)
        BY <1>1, <1>7, <1>9, <3>2, <4>2 DEF Restored, TypeOK
      <4>3. CASE Created(r)
        BY <1>1, <1>8, <1>9, <3>2, <4>3 DEF Created, TypeOK
      <4>4. CASE Failed(r)
        BY <1>1, <1>5, <3>2, <4>4 DEF Failed, TypeOK
      <4>. QED  BY <1>9, <3>2, <4>1, <4>2, <4>3, <4>4, NoneOK DEF Receive
    <3>. QED  BY <1>1, <3>1, <3>2
  <2>. QED  BY <1>1, <1>4, <1>9, <2>1 DEF Receive, TypeOK, server, counts
<1>10. CASE Lose(r)
  BY <1>1, <1>4, <1>5, <1>10 DEF Lose, Failed, TypeOK, server, counts
<1>. QED  BY <1>9, <1>10

LEMMA TypesAreKept == ServerInv /\ [Next]_vars => TypeOK'
<1>. SUFFICES ASSUME ServerInv, [Next]_vars PROVE TypeOK'
  OBVIOUS
<1>1. CASE UNCHANGED vars
  BY <1>1 DEF ServerInv, TypeOK, vars
<1>. QED  BY <1>1, PanelTypes, ServerTypes, AnswerTypes DEF Next, ServerInv

-----------------------------------------------------------------------------
\* The server's part.

\* A step that leaves the server alone, and whose requests are those of before: each as it
\* was, but for the tab that waits for it, or gone.
LEMMA ServerIsLeftAlone ==
  ASSUME ServerInv, UNCHANGED server,
         \A r \in Requests :
           \/ wire'[r] = wire[r]
           \/ wire[r] # None /\ wire[r].step = "answered" /\ wire'[r] = None
           \/ wire[r] # None /\ wire'[r] = [wire[r] EXCEPT !.tab = None]
  PROVE  (RequestOK /\ RowIsHeldByItsWriter /\ UnbornOK /\ KnownRows)'
<1>1. \A r \in Requests : wire'[r] # None => wire[r] # None /\ wire[r] \in Request
  BY DEF ServerInv, TypeOK
<1>2. \A r \in Requests : wire'[r] # None =>
        /\ wire'[r].kind = wire[r].kind /\ wire'[r].body = wire[r].body
        /\ wire'[r].step = wire[r].step /\ wire'[r].doc = wire[r].doc
        /\ wire'[r].rev = wire[r].rev /\ wire'[r].ok = wire[r].ok
  BY <1>1 DEF Request
<1>3. RequestOK'
  BY <1>1, <1>2 DEF ServerInv, RequestOK, Writes, server
<1>4. RowIsHeldByItsWriter'
  <2>1. \A r \in Requests : wire[r] # None => [wire[r] EXCEPT !.tab = None] \in Request
    BY DEF ServerInv, TypeOK, Request
  <2>2. \A r \in Requests : wire'[r] = None /\ wire[r] # None => wire[r].step # "locked"
    BY <2>1, NoneOK
  <2>. QED  BY <1>1, <1>2, <2>2 DEF ServerInv, RowIsHeldByItsWriter, server
<1>5. UnbornOK'
  BY <1>1, <1>2 DEF ServerInv, UnbornOK, Creates, server
<1>6. KnownRows'
  BY DEF ServerInv, KnownRows, server
<1>. QED  BY <1>3, <1>4, <1>5, <1>6

LEMMA PanelLeavesServer ==
  ASSUME ServerInv, NEW t \in Tabs,
         \/ Reload(t) \/ ReadSpecs(t) \/ Hydrate(t)
         \/ \E d \in Docs : discardDataSpec(t, d) \/ \E s \in Specs : updateDataSpec(t, d, s)
  PROVE  (RequestOK /\ RowIsHeldByItsWriter /\ UnbornOK /\ KnownRows)'
<1>1. CASE Reload(t)
  <2>1. ASSUME NEW r \in Requests
        PROVE  \/ wire'[r] = wire[r]
               \/ wire[r] # None /\ wire'[r] = [wire[r] EXCEPT !.tab = None]
    BY <1>1, Zenon DEF Reload
  <2>2. UNCHANGED server
    BY <1>1 DEF Reload
  <2>. QED  BY <2>1, <2>2, ServerIsLeftAlone
<1>2. CASE UNCHANGED <<server, wire>>
  <2>1. UNCHANGED server /\ \A r \in Requests : wire'[r] = wire[r]
    BY <1>2
  <2>. QED  BY <2>1, ServerIsLeftAlone
<1>. QED  BY <1>1, <1>2
     DEF ReadSpecs, Hydrate, discardDataSpec, updateDataSpec

\* A request that is sent carries what it must.
LEMMA SendKeepsServer ==
  ASSUME ServerInv, NEW t \in Tabs, NEW kind \in {"create", "put", "restore"},
         NEW d \in Docs, NEW body \in Specs \cup {None}, NEW rev \in Nat,
         Send(t, kind, d, body, rev),
         kind # "restore" => body \in Specs,
         kind = "put" => rev = 0,
         kind = "restore" => rev \in DOMAIN log[d],
         kind = "create" => /\ row[d] = None /\ log[d] = <<>>
                            /\ \A q \in Requests : ~Creates(q, d)
  PROVE  (RequestOK /\ RowIsHeldByItsWriter /\ UnbornOK /\ KnownRows)'
<1>. DEFINE new == [step |-> "sent", kind |-> kind, doc |-> d, body |-> body,
                    rev |-> rev, tab |-> t, ok |-> FALSE]
<1>0. new \in Request
  BY DEF Request
<1>1. PICK r \in Requests : wire[r] = None /\ wire' = [wire EXCEPT ![r] = new]
  BY DEF Send
<1>2. /\ wire'[r] = new /\ new \in Request /\ new # None
      /\ \A q \in Requests \ {r} : wire'[q] = wire[q]
  BY <1>0, <1>1, NoneOK DEF ServerInv, TypeOK
<1>3. UNCHANGED <<row, log, lock, was>>
  BY DEF Send, server
<1>4. RequestOK'
  <2>1. /\ wire'[r].step = "sent" /\ wire'[r].kind = kind /\ wire'[r].doc = d
        /\ wire'[r].body = body /\ wire'[r].rev = rev
    BY <1>2
  <2>. HIDE DEF new
  <2>. QED  BY <1>2, <1>3, <2>1 DEF ServerInv, RequestOK, Writes
<1>5. RowIsHeldByItsWriter'
  BY <1>1, <1>2, <1>3 DEF ServerInv, RowIsHeldByItsWriter
<1>6. UnbornOK'
  BY <1>1, <1>2, <1>3 DEF ServerInv, UnbornOK, Creates
<1>7. KnownRows'
  BY <1>3 DEF ServerInv, KnownRows
<1>. QED  BY <1>4, <1>5, <1>6, <1>7

LEMMA PanelKeepsServer ==
  ASSUME ServerInv, NEW t \in Tabs, NEW d \in Docs, Edit(t, d)
  PROVE  (RequestOK /\ RowIsHeldByItsWriter /\ UnbornOK /\ KnownRows)'
<1>1. CASE publishDataSpec(t, d)
  <2>1. tab[t].store[d] \in Specs
    BY <1>1 DEF publishDataSpec, Idle, Open, ServerInv, TypeOK, Tab
  <2>. QED  BY <1>1, <2>1, SendKeepsServer DEF publishDataSpec
<1>2. CASE restoreDataSpecRevision(t, d)
  <2>1. log[d] \in Seq(Revision)
    BY DEF ServerInv, TypeOK
  <2>2. DOMAIN log[d] \subseteq Nat
    BY <2>1
  <2>. QED  BY <1>2, <2>2, SendKeepsServer DEF restoreDataSpecRevision
<1>3. CASE createDataSpec(t, d)
  BY <1>3, SendKeepsServer DEF createDataSpec, Creates
<1>. QED  BY <1>1, <1>2, <1>3, PanelLeavesServer DEF Edit

\* A request that is answered without a write.
LEMMA RefusalKeepsServer ==
  ASSUME ServerInv, NEW r \in Requests, wire[r] # None, wire[r].step # "answered",
         Answered(r, FALSE), UNCHANGED <<row, log, was>>,
         \A d \in Docs : lock'[d] = IF lock[d] = r THEN None ELSE lock[d]
  PROVE  (RequestOK /\ RowIsHeldByItsWriter /\ UnbornOK /\ KnownRows)'
<1>1. /\ wire'[r].step = "answered" /\ ~wire'[r].ok /\ wire'[r].kind = wire[r].kind
      /\ wire'[r].body = wire[r].body /\ wire'[r].rev = wire[r].rev
      /\ wire'[r].doc = wire[r].doc
      /\ \A q \in Requests \ {r} : wire'[q] = wire[q]
  BY AnsweredIsTyped DEF ServerInv
<1>2. RequestOK'
  BY <1>1 DEF ServerInv, RequestOK, Writes
<1>3. RowIsHeldByItsWriter'
  BY <1>1, NoneOK DEF ServerInv, RowIsHeldByItsWriter
<1>4. UnbornOK'
  BY <1>1 DEF ServerInv, UnbornOK, Creates
<1>5. KnownRows'
  BY DEF ServerInv, KnownRows
<1>. QED  BY <1>2, <1>3, <1>4, <1>5

LEMMA LockKeepsServer ==
  ASSUME ServerInv, NEW r \in Requests, LockRow(r)
  PROVE  (RequestOK /\ RowIsHeldByItsWriter /\ UnbornOK /\ KnownRows)'
<1>. DEFINE q == wire[r]
            body == IF q.kind = "restore" THEN log[q.doc][q.rev].body ELSE q.body
<1>1. /\ q \in Request /\ q # None /\ q.kind \in {"put", "restore"} /\ q.step = "sent"
      /\ row[q.doc] # None /\ lock[q.doc] = None
  BY DEF LockRow, Writes, ServerInv, TypeOK
<1>2. q.doc \in Docs /\ (q.kind = "restore" => q.rev \in DOMAIN log[q.doc])
  BY <1>1 DEF ServerInv, RequestOK, Request
<1>3. body \in Specs
  <2>1. q.kind = "restore" => log[q.doc][q.rev] \in Revision
    <3>1. log[q.doc] \in Seq(Revision)
      BY <1>2 DEF ServerInv, TypeOK
    <3>. QED  BY <1>2, <3>1
  <2>. QED  BY <1>1, <2>1 DEF Revision, ServerInv, RequestOK
<1>. HIDE DEF body
<1>4. wire' = [wire EXCEPT ![r] = [q EXCEPT !.step = "locked", !.body = body]]
  BY DEF LockRow, body
<1>5. [q EXCEPT !.step = "locked", !.body = body] \in Request
  BY <1>1, <1>3 DEF Request
<1>6. /\ wire'[r] # None /\ wire'[r].step = "locked" /\ wire'[r].kind = q.kind
      /\ wire'[r].body = body /\ wire'[r].rev = q.rev /\ wire'[r].doc = q.doc
      /\ \A p \in Requests \ {r} : wire'[p] = wire[p]
  <2>1. /\ wire'[r] = [q EXCEPT !.step = "locked", !.body = body]
        /\ \A p \in Requests \ {r} : wire'[p] = wire[p]
    BY <1>4 DEF ServerInv, TypeOK
  <2>2. wire'[r] # None
    BY <1>5, <2>1, NoneOK
  <2>. QED  BY <1>1, <2>1, <2>2 DEF Request
<1>7. UNCHANGED <<row, log, was>>
  BY DEF LockRow
<1>8. RequestOK'
  BY <1>1, <1>2, <1>3, <1>6, <1>7 DEF ServerInv, RequestOK, Writes, body
<1>9. RowIsHeldByItsWriter'
  <2>1. \A d \in Docs : lock'[d] = IF d = q.doc THEN r ELSE lock[d]
    BY DEF LockRow, ServerInv, TypeOK
  <2>2. \A p \in Requests : wire[p] # None /\ wire[p].doc = q.doc => wire[p].step # "locked"
    BY <1>1, <1>2, NoneOK DEF ServerInv, RowIsHeldByItsWriter
  <2>. QED  BY <1>1, <1>2, <1>6, <2>1, <2>2 DEF ServerInv, RowIsHeldByItsWriter
<1>10. UnbornOK'
  BY <1>1, <1>6, <1>7 DEF ServerInv, UnbornOK, Creates
<1>11. KnownRows'
  BY <1>7 DEF ServerInv, KnownRows
<1>. QED  BY <1>8, <1>9, <1>10, <1>11

\* A write of the document `d` by the request that holds it, or that creates it.
LEMMA CommitKeepsServer ==
  ASSUME ServerInv, NEW r \in Requests, Commit(r)
  PROVE  (RequestOK /\ RowIsHeldByItsWriter /\ UnbornOK /\ KnownRows)'
<1>. DEFINE q == wire[r]
<1>1. /\ q \in Request /\ q # None /\ q.step = "locked" /\ q.doc \in Docs /\ q.body \in Specs
      /\ q.rev \in Nat /\ row[q.doc] # None /\ AtRest[q.body] \in Specs
  BY RestOK DEF Commit, Writes, ServerInv, TypeOK, RequestOK, Request
<1>2. /\ \A e \in Docs : was[e] \subseteq was'[e]
      /\ row'[q.doc] = AtRest[q.body] /\ AtRest[q.body] \in was'[q.doc]
      /\ \A e \in Docs \ {q.doc} : row'[e] = row[e] /\ was'[e] = was[e]
  BY <1>1, WrittenIsTyped DEF Commit, ServerInv
<1>3. /\ \A e \in Docs : /\ DOMAIN log[e] \subseteq DOMAIN log'[e]
                         /\ \A i \in DOMAIN log[e] : log'[e][i] = log[e][i]
      /\ \A e \in Docs \ {q.doc} : log'[e] = log[e]
  BY <1>1, FiledIsTyped DEF Commit, ServerInv
<1>4. /\ wire'[r].step = "answered" /\ wire'[r].kind = q.kind /\ wire'[r].body = q.body
      /\ wire'[r].rev = q.rev /\ wire'[r].doc = q.doc
      /\ \A p \in Requests \ {r} : wire'[p] = wire[p]
  BY <1>1, AnsweredIsTyped DEF Commit, ServerInv
<1>6. \A p \in Requests \ {r} :
        wire[p] # None => wire[p].doc \in Docs /\ (wire[p].doc = q.doc => wire[p].step # "locked")
  BY <1>1 DEF ServerInv, RowIsHeldByItsWriter, TypeOK, Request
<1>7. RequestOK'
  <2>1. ASSUME NEW p \in Requests \ {r}, wire[p] # None
        PROVE  /\ wire[p].step = "locked" => row'[wire[p].doc] = row[wire[p].doc]
               /\ wire[p].rev \in DOMAIN log[wire[p].doc] =>
                    /\ wire[p].rev \in DOMAIN log'[wire[p].doc]
                    /\ log'[wire[p].doc][wire[p].rev] = log[wire[p].doc][wire[p].rev]
               /\ was[wire[p].doc] \subseteq was'[wire[p].doc]
    BY <1>2, <1>3, <1>6, <2>1
  <2>. QED  BY <1>1, <1>2, <1>4, <2>1 DEF ServerInv, RequestOK, Writes
<1>8. RowIsHeldByItsWriter'
  <2>1. \A d \in Docs : lock'[d] = IF d = q.doc THEN None ELSE lock[d]
    BY DEF Commit, ServerInv, TypeOK
  <2>. QED  BY <1>1, <1>4, <1>6, <2>1, NoneOK DEF ServerInv, RowIsHeldByItsWriter
<1>9. UnbornOK'
  BY <1>1, <1>2, <1>3, <1>4 DEF ServerInv, UnbornOK, Creates
<1>10. KnownRows'
  BY <1>2 DEF ServerInv, KnownRows
<1>. QED  BY <1>7, <1>8, <1>9, <1>10

LEMMA InsertKeepsServer ==
  ASSUME ServerInv, NEW r \in Requests, Insert(r)
  PROVE  (RequestOK /\ RowIsHeldByItsWriter /\ UnbornOK /\ KnownRows)'
<1>. DEFINE q == wire[r]
<1>1. /\ q \in Request /\ q # None /\ q.step = "sent" /\ q.doc \in Docs /\ q.body \in Specs
      /\ AtRest[q.body] \in Specs /\ Creates(r, q.doc) /\ row[q.doc] = None
  BY RestOK DEF Insert, ServerInv, TypeOK, RequestOK, Request, Creates, UnbornOK
<1>2. /\ \A e \in Docs : was[e] \subseteq was'[e]
      /\ row'[q.doc] = AtRest[q.body] /\ AtRest[q.body] \in was'[q.doc]
      /\ \A e \in Docs \ {q.doc} : row'[e] = row[e]
  BY <1>1, WrittenIsTyped DEF Insert, ServerInv
<1>3. /\ wire'[r].step = "answered" /\ wire'[r].kind = q.kind /\ wire'[r].body = q.body
      /\ wire'[r].rev = q.rev /\ wire'[r].doc = q.doc
      /\ \A p \in Requests \ {r} : wire'[p] = wire[p]
  BY <1>1, AnsweredIsTyped DEF Insert, ServerInv
<1>5. UNCHANGED <<log, lock>>
  BY DEF Insert
<1>6. RequestOK'
  <2>1. ASSUME NEW p \in Requests \ {r}, wire[p] # None
        PROVE  /\ wire[p].step = "locked" => row'[wire[p].doc] # None
               /\ was[wire[p].doc] \subseteq was'[wire[p].doc]
    BY <1>1, <1>2, <2>1 DEF ServerInv, RequestOK, TypeOK, Request
  <2>. QED  BY <1>1, <1>2, <1>3, <1>5, <2>1 DEF ServerInv, RequestOK, Writes, Insert
<1>7. RowIsHeldByItsWriter'
  BY <1>1, <1>3, <1>5 DEF ServerInv, RowIsHeldByItsWriter
<1>8. UnbornOK'
  BY <1>1, <1>2, <1>3, <1>5 DEF ServerInv, UnbornOK, Creates
<1>9. KnownRows'
  BY <1>2 DEF ServerInv, KnownRows
<1>. QED  BY <1>6, <1>7, <1>8, <1>9

LEMMA DeleteKeepsServer ==
  ASSUME ServerInv, NEW d \in Docs, Delete(d)
  PROVE  (RequestOK /\ RowIsHeldByItsWriter /\ UnbornOK /\ KnownRows)'
<1>1. /\ row'[d] = None /\ \A e \in Docs \ {d} : row'[e] = row[e]
      /\ UNCHANGED <<log, lock, was, wire>> /\ lock[d] = None
  BY DEF Delete, ServerInv, TypeOK
<1>2. \A r \in Requests : wire[r] # None /\ wire[r].step = "locked" =>
        wire[r].doc \in Docs \ {d}
  BY <1>1, NoneOK DEF ServerInv, RowIsHeldByItsWriter, TypeOK, Request
<1>3. RequestOK'
  BY <1>1, <1>2 DEF ServerInv, RequestOK, Writes
<1>. QED  BY <1>1, <1>3
     DEF ServerInv, RowIsHeldByItsWriter, UnbornOK, Creates, KnownRows

THEOREM ServerInvIsInductive == ServerInv /\ [Next]_vars => ServerInv'
<1>. SUFFICES ASSUME ServerInv, [Next]_vars
              PROVE  (RequestOK /\ RowIsHeldByItsWriter /\ UnbornOK /\ KnownRows)'
  BY TypesAreKept DEF ServerInv
<1>1. CASE UNCHANGED vars
  BY <1>1, ServerIsLeftAlone DEF vars, server
<1>2. ASSUME NEW r \in Requests, NotFound(r) \/ Refuse(r)
      PROVE  (RequestOK /\ RowIsHeldByItsWriter /\ UnbornOK /\ KnownRows)'
  <2>1. /\ wire[r] # None /\ wire[r].step # "answered" /\ Answered(r, FALSE)
        /\ UNCHANGED <<row, log, was>>
    BY <1>2 DEF NotFound, Refuse, Writes, server
  <2>2. \A d \in Docs : lock'[d] = IF lock[d] = r THEN None ELSE lock[d]
    <3>1. CASE NotFound(r)
      BY <3>1 DEF NotFound, Writes, server, ServerInv, RowIsHeldByItsWriter
    <3>2. CASE Refuse(r)
      BY <3>2 DEF Refuse
    <3>. QED  BY <1>2, <3>1, <3>2
  <2>. QED  BY <2>1, <2>2, RefusalKeepsServer
<1>3. ASSUME NEW r \in Requests, Receive(r) \/ Lose(r)
      PROVE  (RequestOK /\ RowIsHeldByItsWriter /\ UnbornOK /\ KnownRows)'
  <2>1. UNCHANGED server
    BY <1>3 DEF Receive, Lose
  <2>2. ASSUME NEW p \in Requests
        PROVE  \/ wire'[p] = wire[p]
               \/ wire[p] # None /\ wire[p].step = "answered" /\ wire'[p] = None
               \/ wire[p] # None /\ wire'[p] = [wire[p] EXCEPT !.tab = None]
    BY <1>3 DEF Receive, Lose, Freed, ServerInv, TypeOK
  <2>. QED  BY <2>1, <2>2, ServerIsLeftAlone
<1>. QED  BY <1>1, <1>2, <1>3, PanelLeavesServer, PanelKeepsServer, LockKeepsServer,
              CommitKeepsServer, InsertKeepsServer, DeleteKeepsServer DEF Next, Serve

-----------------------------------------------------------------------------
\* What is shown.

\* Tabs and localStorage as they were, but for the phase "publishing".
LEMMA OnlyBusyChanges ==
  ASSUME ShownInv, UNCHANGED disk, \A d \in Docs : was[d] \subseteq was'[d],
         overtaken' = overtaken,
         \A t \in Tabs : /\ tab'[t].boot = tab[t].boot /\ tab'[t].store = tab[t].store
                         /\ tab'[t].drafts = tab[t].drafts
  PROVE  ShownInv'
<1>1. \A d \in Docs, s \in Specs : WasPublished(d, s) => WasPublished(d, s)'
  BY DEF WasPublished
<1>2. DiskOK' /\ TabsOK'
  BY DEF ShownInv, DiskOK, TabsOK, HonestDrafts, WasPublished
<1>3. ReadingOK'
  BY DEF ShownInv, ReadingOK
<1>4. CleanIsPublished'
  BY DEF ShownInv, CleanIsPublished, Open, WasPublished
<1>. QED  BY <1>2, <1>3, <1>4 DEF ShownInv

\* A set() of the draft store for one document. A draft that stays was forked from a
\* published spec, and what is shown without one is published.
LEMMA EditKeepsShown ==
  ASSUME TypeOK, ShownInv, NEW t \in Tabs, NEW d \in Docs, NEW s \in Specs \cup {None},
         NEW v \in Draft \cup {None}, NEW store, NEW drafts,
         store = With(tab[t].store, d, s), drafts = With(tab[t].drafts, d, v),
         SetDrafts(t, store, drafts) \/ Finish(t, d, store, drafts),
         UNCHANGED was, overtaken \subseteq overtaken',
         d \notin overtaken' /\ v # None => WasPublished(d, v.base),
         d \notin overtaken' /\ v = None /\ s # None => WasPublished(d, s),
         tab[t].boot = "reading" /\ s # None => s \in was[d]
  PROVE  ShownInv'
<1>1. tab[t] \in Tab /\ Browser[t] \in Browsers
  BY DEF TypeOK, Browsers
<1>2. /\ store[d] = s /\ drafts[d] = v
      /\ \A e \in Docs \ {d} : store[e] = tab[t].store[e] /\ drafts[e] = tab[t].drafts[e]
  BY <1>1 DEF With, Tab, Drafts
<1>3. /\ tab'[t].store = store /\ tab'[t].drafts = drafts /\ tab'[t].boot = tab[t].boot
      /\ \A u \in Tabs \ {t} : tab'[u] = tab[u]
      /\ disk' = [disk EXCEPT ![Browser[t]] = drafts]
  <2>1. CASE SetDrafts(t, store, drafts)
    BY <1>1, <2>1 DEF SetDrafts, TypeOK, Tab
  <2>2. CASE Finish(t, d, store, drafts)
    BY <1>1, <2>2 DEF Finish, TypeOK, Tab
  <2>. QED  BY <2>1, <2>2
<1>4. HonestDrafts(drafts)'
  BY <1>2 DEF ShownInv, TabsOK, HonestDrafts, WasPublished
<1>5. TabsOK'
  BY <1>3, <1>4 DEF ShownInv, TabsOK, HonestDrafts, WasPublished
<1>6. DiskOK'
  <2>1. \A b \in Browsers : disk'[b] = drafts \/ disk'[b] = disk[b]
    BY <1>3 DEF TypeOK
  <2>. QED  BY <1>4, <2>1 DEF ShownInv, DiskOK, HonestDrafts, WasPublished
<1>7. ReadingOK'
  BY <1>2, <1>3 DEF ShownInv, ReadingOK
<1>8. CleanIsPublished'
  BY <1>2, <1>3 DEF ShownInv, CleanIsPublished, Open, WasPublished
<1>. QED  BY <1>5, <1>6, <1>7, <1>8 DEF ShownInv

LEMMA PanelKeepsShown ==
  ASSUME ServerInv, ShownInv, NEW t \in Tabs,
         Reload(t) \/ ReadSpecs(t) \/ Hydrate(t) \/ \E d \in Docs : Edit(t, d)
  PROVE  ShownInv'
<1>. TypeOK
  BY DEF ServerInv
<1>0. /\ tab[t] \in Tab /\ Browser[t] \in Browsers /\ tab \in [Tabs -> Tab]
      /\ \A e \in Docs : /\ tab[t].drafts[e] \in Draft \cup {None}
                         /\ tab[t].store[e] \in Specs \cup {None}
  BY DEF TypeOK, Browsers, Tab, Drafts
<1>1. CASE Reload(t)
  <2>1. /\ tab'[t].boot = "off" /\ tab'[t].drafts = disk[Browser[t]]
        /\ \A u \in Tabs \ {t} : tab'[u] = tab[u]
        /\ UNCHANGED <<was, disk, overtaken>>
    BY <1>0, <1>1 DEF Reload, Start, server
  <2>. QED  BY <1>0, <2>1 DEF ShownInv, DiskOK, TabsOK, HonestDrafts, ReadingOK,
                              CleanIsPublished, Open, WasPublished
<1>2. CASE ReadSpecs(t)
  <2>1. /\ tab'[t].boot = "reading" /\ tab'[t].store = row /\ tab'[t].drafts = tab[t].drafts
        /\ \A u \in Tabs \ {t} : tab'[u] = tab[u]
        /\ UNCHANGED <<was, disk, overtaken>>
    BY <1>0, <1>2 DEF ReadSpecs, server, Tab
  <2>. QED  BY <2>1 DEF ShownInv, DiskOK, TabsOK, HonestDrafts, ReadingOK, ServerInv,
                        KnownRows, CleanIsPublished, Open, WasPublished
<1>3. CASE Hydrate(t)
  <2>. DEFINE drafts == [d \in Docs |-> IF Fresh(t, d) THEN tab[t].drafts[d] ELSE None]
  <2>1. /\ tab[t].boot = "reading" /\ tab'[t].boot = "on" /\ tab'[t].drafts = drafts
        /\ \A d \in Docs : ~Fresh(t, d) => tab'[t].store[d] = tab[t].store[d]
        /\ \A u \in Tabs \ {t} : tab'[u] = tab[u]
        /\ UNCHANGED <<was, overtaken>>
    BY <1>0, <1>3 DEF Hydrate, rehydrateDataSpecDrafts, server
  <2>2. \A b \in Browsers : disk'[b] = drafts \/ disk'[b] = disk[b]
    BY <1>0, <1>3 DEF Hydrate, rehydrateDataSpecDrafts, TypeOK
  <2>3. HonestDrafts(drafts)'
    BY <2>1 DEF ShownInv, TabsOK, HonestDrafts, WasPublished
  <2>4. DiskOK' /\ TabsOK'
    BY <2>1, <2>2, <2>3 DEF ShownInv, DiskOK, TabsOK, HonestDrafts, WasPublished
  <2>5. ReadingOK'
    BY <2>1 DEF ShownInv, ReadingOK
  <2>6. \A d \in Docs : tab'[t].drafts[d] = None => ~Fresh(t, d)
    BY <2>1 DEF Fresh
  <2>. HIDE DEF drafts
  <2>7. CleanIsPublished'
    BY <2>1, <2>6 DEF ShownInv, CleanIsPublished, ReadingOK, Open, WasPublished
  <2>. QED  BY <2>4, <2>5, <2>7 DEF ShownInv
<1>4. ASSUME NEW d \in Docs, NEW s \in Specs, updateDataSpec(t, d, s)
      PROVE  ShownInv'
  <2>. DEFINE draft == [base |-> IF tab[t].drafts[d] = None THEN tab[t].store[d]
                                 ELSE tab[t].drafts[d].base, current |-> s]
  <2>1. draft \in Draft /\ Open(t, d)
    BY <1>0, <1>4 DEF updateDataSpec, Open, Draft
  <2>2. d \notin overtaken => WasPublished(d, draft.base)
    BY <2>1 DEF ShownInv, TabsOK, HonestDrafts, CleanIsPublished
  <2>3. SetDrafts(t, With(tab[t].store, d, s), With(tab[t].drafts, d, draft))
    BY <1>4 DEF updateDataSpec, recordEdit
  <2>4. UNCHANGED was /\ overtaken' = overtaken
    BY <1>4 DEF updateDataSpec, server
  <2>5. tab[t].boot # "reading" /\ draft # None
    BY <2>1, NoneOK DEF Open
  <2>. HIDE DEF draft
  <2>. QED  BY <2>1, <2>2, <2>3, <2>4, <2>5, EditKeepsShown
<1>5. ASSUME NEW d \in Docs, discardDataSpec(t, d)
      PROVE  ShownInv'
  <2>1. tab[t].drafts[d] \in Draft /\ tab[t].drafts[d].base \in Specs
    BY <1>0, <1>5 DEF discardDataSpec, Draft
  <2>2. d \notin overtaken => WasPublished(d, tab[t].drafts[d].base)
    BY <1>5 DEF ShownInv, TabsOK, HonestDrafts, discardDataSpec
  <2>3. /\ SetDrafts(t, With(tab[t].store, d, tab[t].drafts[d].base),
                     With(tab[t].drafts, d, None))
        /\ UNCHANGED was /\ overtaken' = overtaken /\ tab[t].boot # "reading"
    BY <1>5 DEF discardDataSpec, Idle, Open, server
  <2>. QED  BY <2>1, <2>2, <2>3, EditKeepsShown
<1>6. ASSUME NEW d \in Docs,
             publishDataSpec(t, d) \/ restoreDataSpecRevision(t, d) \/ createDataSpec(t, d)
      PROVE  ShownInv'
  <2>1. UNCHANGED <<disk, was, overtaken>> /\ (SetBusy(t, d) \/ UNCHANGED tab)
    BY <1>6 DEF publishDataSpec, restoreDataSpecRevision, createDataSpec, Send, server
  <2>2. \A u \in Tabs : /\ tab'[u].boot = tab[u].boot /\ tab'[u].store = tab[u].store
                         /\ tab'[u].drafts = tab[u].drafts
    BY <1>0, <2>1 DEF SetBusy, Tab
  <2>. QED  BY <2>1, <2>2, OnlyBusyChanges
<1>. QED  BY <1>1, <1>2, <1>3, <1>4, <1>5, <1>6 DEF Edit

LEMMA ServerKeepsShown ==
  ASSUME ServerInv, ShownInv,
         \/ \E r \in Requests : Serve(r) \/ Refuse(r)
         \/ \E d \in Docs : Delete(d)
  PROVE  ShownInv'
<1>1. UNCHANGED <<disk, tab, overtaken>>
  BY DEF Serve, LockRow, NotFound, Commit, Insert, Refuse, Delete
<1>2. was' = was \/ \E d \in Docs, s \in Specs : SetRow(d, s)
  <2>1. ASSUME NEW r \in Requests, Commit(r) \/ Insert(r)
        PROVE  wire[r].doc \in Docs /\ AtRest[wire[r].body] \in Specs
    BY <2>1, RestOK
       DEF Commit, Insert, Writes, ServerInv, TypeOK, RequestOK, Request
  <2>. QED  BY <2>1 DEF Serve, LockRow, NotFound, Commit, Insert, Refuse, Delete, server
<1>3. \A d \in Docs : was[d] \subseteq was'[d]
  BY <1>2, WrittenIsTyped DEF ServerInv
<1>. QED  BY <1>1, <1>3, OnlyBusyChanges

LEMMA AnswerKeepsShown ==
  ASSUME ServerInv, ShownInv, NEW r \in Requests, Receive(r) \/ Lose(r)
  PROVE  ShownInv'
<1>. DEFINE q == wire[r]
<1>. TypeOK
  BY DEF ServerInv
<1>1. q \in Request /\ q.doc \in Docs /\ q.tab \in Tabs \cup {None} /\ UNCHANGED was
  BY DEF TypeOK, Receive, Lose, Request, server
<1>2. Receive(r) /\ q.ok => /\ q.body \in Specs /\ AtRest[q.body] \in Specs
                            /\ AtRest[q.body] \in was[q.doc]
  BY <1>1, RestOK DEF ServerInv, RequestOK, Receive
<1>3. ASSUME Failed(r), q.tab \in Tabs PROVE ShownInv'
  <2>1. \A u \in Tabs : /\ tab'[u].boot = tab[u].boot /\ tab'[u].store = tab[u].store
                         /\ tab'[u].drafts = tab[u].drafts
    BY <1>3 DEF Failed, TypeOK, Tab
  <2>2. UNCHANGED <<disk, overtaken>>
    BY <1>3 DEF Failed
  <2>. QED  BY <1>1, <2>1, <2>2, OnlyBusyChanges
<1>4. ASSUME Receive(r), Published(r), q.tab \in Tabs PROVE ShownInv'
  <2>. DEFINE t == q.tab  d == q.doc
  <2>1. tab[t] \in Tab /\ tab[t].store[d] \in Specs \cup {None}
    BY <1>1, <1>4 DEF TypeOK, Tab
  <2>2. tab[t].store = With(tab[t].store, d, tab[t].store[d])
    BY <2>1 DEF With, Tab
  <2>3. Finish(t, d, tab[t].store, With(tab[t].drafts, d, None))
    BY <1>4 DEF Published, Cleared
  <2>4. /\ overtaken \subseteq overtaken'
        /\ d \notin overtaken' => WasPublished(d, tab[t].store[d])
    BY <1>1, <1>2, <1>4 DEF Published, WasPublished
  <2>5. tab[t].boot = "reading" /\ tab[t].store[d] # None => tab[t].store[d] \in was[d]
    BY <1>1, <1>4 DEF ShownInv, ReadingOK
  <2>. HIDE DEF t, d
  <2>6. t \in Tabs /\ d \in Docs
    BY <1>1, <1>4 DEF t, d
  <2>. QED  BY <1>1, <2>1, <2>2, <2>3, <2>4, <2>5, <2>6, EditKeepsShown
<1>5. ASSUME Receive(r), Restored(r), q.tab \in Tabs PROVE ShownInv'
  <2>1. /\ Finish(q.tab, q.doc, With(tab[q.tab].store, q.doc, AtRest[q.body]),
                  With(tab[q.tab].drafts, q.doc, None))
        /\ overtaken' = overtaken /\ q.ok
    BY <1>5 DEF Restored, Cleared
  <2>2. WasPublished(q.doc, AtRest[q.body])
    BY <1>2, <1>5, <2>1 DEF WasPublished
  <2>. QED  BY <1>1, <1>2, <1>5, <2>1, <2>2, EditKeepsShown
<1>6. ASSUME Receive(r), Created(r), q.tab \in Tabs PROVE ShownInv'
  <2>. DEFINE t == q.tab  d == q.doc
  <2>1. /\ tab'[t].boot = tab[t].boot /\ tab'[t].drafts = tab[t].drafts
        /\ \A u \in Tabs \ {t} : tab'[u] = tab[u]
        /\ UNCHANGED <<disk, overtaken>>
    BY <1>1, <1>6 DEF Created, TypeOK, Tab
  <2>2. /\ tab'[t].store[d] \in was[d]
        /\ \A e \in Docs \ {d} : tab'[t].store[e] = tab[t].store[e]
    BY <1>1, <1>2, <1>6 DEF Created, TypeOK, Tab
  <2>3. DiskOK' /\ TabsOK'
    BY <1>1, <2>1 DEF ShownInv, DiskOK, TabsOK, HonestDrafts, WasPublished
  <2>. HIDE DEF t, d
  <2>4. ReadingOK'
    BY <1>1, <2>1, <2>2 DEF ShownInv, ReadingOK
  <2>5. CleanIsPublished'
    BY <1>1, <2>1, <2>2 DEF ShownInv, CleanIsPublished, Open, WasPublished
  <2>. QED  BY <2>3, <2>4, <2>5 DEF ShownInv
<1>7. CASE Receive(r)
  <2>1. CASE q.tab = None
    <3>1. UNCHANGED <<tab, disk, overtaken>>
      BY <1>7, <2>1 DEF Receive
    <3>. QED  BY <1>1, <3>1, OnlyBusyChanges
  <2>2. CASE q.tab \in Tabs
    BY <1>3, <1>4, <1>5, <1>6, <1>7, <2>2, NoneOK DEF Receive
  <2>. QED  BY <1>1, <2>1, <2>2
<1>8. CASE Lose(r)
  BY <1>1, <1>3, <1>8 DEF Lose
<1>. QED  BY <1>7, <1>8

THEOREM ShownInvIsInductive == ServerInv /\ ShownInv /\ [Next]_vars => ShownInv'
<1>. SUFFICES ASSUME ServerInv, ShownInv, [Next]_vars PROVE ShownInv'
  OBVIOUS
<1>1. CASE UNCHANGED vars
  BY <1>1, OnlyBusyChanges DEF vars
<1>. QED  BY <1>1, PanelKeepsShown, ServerKeepsShown, AnswerKeepsShown DEF Next

-----------------------------------------------------------------------------
\* The results.

\* The types of the stores, of the requests and of the database.
THEOREM TypeCorrect == Spec => []TypeOK
<1>1. ServerInv => TypeOK
  BY DEF ServerInv
<1>. QED  BY <1>1, InitServer, ServerInvIsInductive, PTL DEF Spec

\* data-specs.ts: no request, however it ends, keeps a row that another waits for, and none
\* writes a row it does not hold.
THEOREM RowsAreHeldByWriters == Spec => []RowIsHeldByItsWriter
<1>1. ServerInv => RowIsHeldByItsWriter
  BY DEF ServerInv
<1>. QED  BY <1>1, InitServer, ServerInvIsInductive, PTL DEF Spec

\* AuthoringLifecycleBand.tsx: what is shown without a draft was published, in any number
\* of tabs and browsers, but for documents of which an edit has overtaken a publish.
THEOREM CleanIsAlwaysHonest == Spec => []CleanIsPublished
<1>1. ShownInv => CleanIsPublished
  BY DEF ShownInv
<1>. QED  BY <1>1, InitServer, InitShown, ServerInvIsInductive, ShownInvIsInductive, PTL
          DEF Spec

\* dataSpecDraft.store.ts: what a discard goes back to was published.
THEOREM DiscardIsAlwaysHonest == Spec => []DiscardIsHonest
<1>1. ShownInv => DiscardIsHonest
  BY DEF ShownInv, TabsOK, HonestDrafts, DiscardIsHonest
<1>. QED  BY <1>1, InitServer, InitShown, ServerInvIsInductive, ShownInvIsInductive, PTL
          DEF Spec

LEMMA InitImplements == Init => Promised!Init
BY DEF Init, Promised!Init

LEMMA StepImplements ==
  ServerInv /\ [Next]_vars => [Promised!Next]_<<row, log>>
<1>. SUFFICES ASSUME ServerInv, [Next]_vars, ~UNCHANGED <<row, log>>
              PROVE  Promised!Next
  OBVIOUS
<1>. USE DEF ServerInv
<1>1. ASSUME NEW r \in Requests, Commit(r)
      PROVE  Promised!Next
  <2>. DEFINE q == wire[r]
              d == q.doc
  <2>1. /\ d \in Docs /\ q.body \in Specs /\ row[d] # None /\ q.kind \in {"put", "restore"}
        /\ q.kind = "put" => q.rev = 0
        /\ q.kind = "restore" =>
             q.rev \in DOMAIN log[d] /\ q.body = log[d][q.rev].body
    BY <1>1 DEF Commit, Writes, TypeOK, RequestOK, Request
  <2>2. Promised!File(d, AtRest[q.body], q.rev)
    BY <1>1, <2>1 DEF Commit, SetRow, appendRevision, Promised!File
  <2>3. AtRest[q.body] \in Promised!Resting
    BY <2>1 DEF Promised!Resting
  <2>4. q.kind = "put" => Promised!Write(d)
    BY <2>1, <2>2, <2>3 DEF Promised!Write
  <2>5. q.kind = "restore" => Promised!Restore(d)
    BY <2>1, <2>2 DEF Promised!Restore
  <2>. QED  BY <2>1, <2>4, <2>5 DEF Promised!Next
<1>2. ASSUME NEW r \in Requests, Insert(r)
      PROVE  Promised!Next
  <2>1. /\ wire[r].doc \in Docs /\ wire[r].body \in Specs
        /\ row[wire[r].doc] = None /\ log[wire[r].doc] = <<>>
    BY <1>2 DEF Insert, TypeOK, RequestOK, Request, UnbornOK, Creates
  <2>2. Promised!Create(wire[r].doc)
    BY <1>2, <2>1 DEF Insert, SetRow, Promised!Create, Promised!Resting
  <2>. QED  BY <2>1, <2>2 DEF Promised!Next
<1>3. ASSUME NEW d \in Docs, Delete(d)
      PROVE  Promised!Next
  BY <1>3 DEF Delete, Promised!Delete, Promised!Next
<1>4. \/ \E r \in Requests : Commit(r) \/ Insert(r)
      \/ \E d \in Docs : Delete(d)
  BY DEF Next, vars, Serve, LockRow, NotFound, Refuse, Receive, Lose, Reload, ReadSpecs,
         Hydrate, Edit, updateDataSpec, publishDataSpec, restoreDataSpecRevision, Send,
         createDataSpec, discardDataSpec, server
<1>. QED  BY <1>1, <1>2, <1>3, <1>4

\* ADR-052: rows and revisions change as the revision log promises, each write with its
\* revision, a restore as a new one, and everything in the dialect of rest.
THEOREM RoutesImplementLog == Spec => ImplementsRevisionLog
<1>. QED  BY InitServer, ServerInvIsInductive, InitImplements, StepImplements, PTL
          DEF Spec, ImplementsRevisionLog, Promised!Spec

-----------------------------------------------------------------------------
(* Pages, their versions and the boot manifest.                             *)

\* A page that exists has a version, and what is live is one of its versions.
VersionsInv ==
  \A p \in Pages :
    /\ Exists(p) => saved[p].number >= 1
    /\ \A v \in live[p] : v <= saved[p].number

\* A transaction is about a page that exists, and what it is going to promote is a
\* version.  A save and provisioning hold the row of the page from their SELECT on; so
\* provisioning has the latest version in its hands, and in its snapshot.
TxOf(e) ==
  LET x == tx[e]
      n == saved[x.page].number IN
  /\ x.pc # "idle" =>
       /\ x.page \in Pages /\ Exists(x.page)
       /\ x.kind \in {"put", "publish", "provision"}
  /\ x.pc \in {"read", "marking", "marked"} => x.head >= 1
  /\ x.pc = "read" => x.kind = "publish"
  /\ x.pc \in {"read", "marking", "marked"} /\ x.kind = "publish" => x.head <= n
  /\ x.pc \in {"locked", "kept"} => x.kind \in {"put", "provision"}
  /\ x.pc \in {"locked", "kept", "marking", "marked"} /\ x.kind # "publish" =>
       rowLock[x.page] = e
  /\ x.pc \in {"marking", "marked"} /\ x.kind # "publish" =>
       x.seen = x.head /\ x.head \in {n, n + 1}
TxInv == \A e \in Editors : TxOf(e)

\* An ETag that a client has, or has just been sent, is not ahead of the manifest's; if it
\* is the manifest's, the client has that manifest.
ClientInv ==
  orderly => \A k \in Clients :
    /\ client[k].probed # Null => client[k].probed <= Tag
    /\ client[k].tag # Null => client[k].tag <= Tag
    /\ client[k].tag = Tag => client[k].manifest = Manifest

PageInv == PageTypeOK /\ VersionsInv /\ TxInv /\ ClientInv

-----------------------------------------------------------------------------
\* The latest timestamp.

LEMMA GreatestExists ==
  ASSUME NEW n \in Nat, NEW T \in SUBSET (0..n), T # {}
  PROVE  \E x \in T : \A y \in T : x >= y
<1> DEFINE R == StrictSubsetOrdering(0..n)
           F == {x..n : x \in T}
<1>1. F \subseteq FiniteSubsetsOf(0..n) /\ F # {}
  <2>1. ASSUME NEW x \in T PROVE IsFiniteSet(x..n) /\ x..n \subseteq 0..n
    <3>1. x \in Int /\ n \in Int /\ x \in 0..n
      OBVIOUS
    <3> QED
      BY <3>1, FS_Interval
  <2> QED
    BY <2>1 DEF FiniteSubsetsOf
<1>2. IsWellFoundedOn(R, FiniteSubsetsOf(0..n))
  BY FS_StrictSubsetOrderingWellFounded
<1>3. PICK U \in F : \A V \in F : <<V, U>> \notin R
  <2> HIDE DEF R, F
  <2> QED
    BY <1>1, <1>2, WFMin
<1>4. PICK x \in T : U = x..n
  BY <1>3
<1>5. ASSUME NEW y \in T, y > x PROVE FALSE
  <2>1. y..n \in F /\ <<y..n, U>> \notin R
    BY <1>3
  <2>2. y..n \subseteq 0..n /\ U \subseteq 0..n /\ y..n \subseteq U
    BY <1>4, <1>5
  <2>3. x \in U /\ x \notin y..n
    BY <1>4, <1>5
  <2> QED
    BY <2>1, <2>2, <2>3 DEF StrictSubsetOrdering
<1> QED
  BY <1>5

LEMMA GreatestIsIn ==
  ASSUME NEW T \in SUBSET Stamp, T # {}
  PROVE  Max(T) \in Stamp
<1>1. \E x \in T : \A y \in T : x >= y
  BY GreatestExists, PageConstants DEF Stamp
<1>2. Max(T) \in T
  BY <1>1 DEF Max
<1> QED
  BY <1>2

LEMMA TagIsAStamp == ASSUME PageTypeOK PROVE Tag \in Stamp
<1> DEFINE T == {page[p].updated : p \in Pages} \cup {saved[p].created : p \in Pages} \cup {0}
<1>1. T \subseteq Stamp /\ T # {}
  BY PageConstants DEF PageTypeOK, Stamp
<1> HIDE DEF T
<1>2. Max(T) \in Stamp
  BY <1>1, GreatestIsIn
<1> QED
  BY <1>2 DEF Tag, T

LEMMA TagStaysAStamp == (PageTypeOK => Tag \in Stamp)'
<1>1. PageTypeOK => Tag \in Stamp
  BY TagIsAStamp
<1> QED
  BY <1>1, PTL

-----------------------------------------------------------------------------
\* The parts of a step.

\* The writes of a transaction to a page.
LEMMA StoreKeeps ==
  ASSUME PageTypeOK, VersionsInv, NEW p \in Pages, NEW t \in Stamp,
         page' = page \/ (\E s \in Status : SetStatus(p, s, t)),
         saved' = saved \/ AddVersion(p, t),
         live' = live \/ (\E h \in 1..saved'[p].number, m \in Number :
                            live' = [live EXCEPT ![p] = {v \in @ : v > m} \cup {h}]),
         Exists(p) \/ AddVersion(p, t)
  PROVE  /\ page' \in [Pages -> [status : Status \cup {"none"}, updated : Stamp]]
         /\ saved' \in [Pages -> [number : Number, created : Stamp]]
         /\ live' \in [Pages -> SUBSET (1..MaxVersions)]
         /\ VersionsInv'
         /\ \A q \in Pages : Exists(q) => Exists(q)'
         /\ \A q \in Pages : saved'[q].number >= saved[q].number
         /\ \A q \in Pages : q # p => saved'[q] = saved[q]
<1> DEFINE Row == [status : Status \cup {"none"}, updated : Stamp]
<1>1. /\ page' \in [Pages -> Row]
      /\ \A q \in Pages : q # p => page'[q] = page[q]
      /\ page'[p] = page[p] \/ page'[p].status \in Status
  <2>1. page \in [Pages -> Row]
    BY DEF PageTypeOK
  <2>2. CASE page' = page
    BY <2>1, <2>2
  <2>3. ASSUME NEW s \in Status, SetStatus(p, s, t)
        PROVE  /\ page' \in [Pages -> Row]
               /\ \A q \in Pages : q # p => page'[q] = page[q]
               /\ page'[p].status \in Status
    <3>1. [status |-> s, updated |-> t] \in Row
      OBVIOUS
    <3>2. page' = [page EXCEPT ![p] = [status |-> s, updated |-> t]]
      BY <2>3 DEF SetStatus
    <3> QED
      BY <2>1, <3>1, <3>2
  <2> HIDE DEF Row
  <2> QED
    BY <2>2, <2>3
<1>2. \A q \in Pages : Exists(q) => Exists(q)'
  BY <1>1 DEF Exists, Status
<1>3. \A q \in Pages : q # p => (Exists(q)' <=> Exists(q))
  BY <1>1 DEF Exists
<1>4. ASSUME AddVersion(p, t)
      PROVE  /\ saved' \in [Pages -> [number : Number, created : Stamp]]
             /\ saved'[p].number = saved[p].number + 1
             /\ \A q \in Pages : q # p => saved'[q] = saved[q]
  <2>1. saved[p] \in [number : Number, created : Stamp]
    BY DEF PageTypeOK
  <2>2. Max({saved[p].created, t}) \in Stamp
    BY <2>1, GreatestIsIn
  <2>3. saved[p].number \in Nat /\ saved[p].number + 1 \in Number
    BY <1>4, <2>1, PageConstants DEF AddVersion, Number
  <2> DEFINE v == [number |-> saved[p].number + 1,
                   created |-> Max({saved[p].created, t})]
  <2>4. saved' = [saved EXCEPT ![p] = v]
    BY <1>4 DEF AddVersion
  <2>5. /\ v \in [number : Number, created : Stamp]
        /\ v.number = saved[p].number + 1
    BY <2>2, <2>3
  <2> HIDE DEF v
  <2> QED
    BY <2>4, <2>5 DEF PageTypeOK
<1>5. saved' \in [Pages -> [number : Number, created : Stamp]]
  BY <1>4 DEF PageTypeOK
<1>6. \A q \in Pages : /\ saved'[q].number \in Number /\ saved[q].number \in Number
                       /\ saved'[q].number >= saved[q].number
                       /\ q # p => saved'[q] = saved[q]
  <2>1. \A q \in Pages : saved[q].number \in Number /\ saved'[q].number \in Number
    BY <1>5 DEF PageTypeOK
  <2>2. \A q \in Pages : saved[q].number \in Nat
    BY <2>1, PageConstants DEF Number
  <2> QED
    BY <1>4, <2>1, <2>2
<1>7. /\ live' \in [Pages -> SUBSET (1..MaxVersions)]
      /\ \A q \in Pages : \A v \in live'[q] : v <= saved'[q].number
  <2>1. /\ live \in [Pages -> SUBSET (1..MaxVersions)]
        /\ \A q \in Pages : \A v \in live[q] : v <= saved[q].number
    BY DEF PageTypeOK, VersionsInv
  <2>2. Number = 0..MaxVersions /\ MaxVersions \in Nat
    BY PageConstants DEF Number
  <2>3. ASSUME NEW q \in Pages, NEW v \in live[q]
        PROVE  v \in 1..MaxVersions /\ v <= saved'[q].number
    BY <1>6, <2>1, <2>2, <2>3
  <2>4. ASSUME NEW h \in 1..saved'[p].number, NEW m \in Number,
               live' = [live EXCEPT ![p] = {v \in @ : v > m} \cup {h}]
        PROVE  /\ live' \in [Pages -> SUBSET (1..MaxVersions)]
               /\ \A q \in Pages : \A v \in live'[q] : v <= saved'[q].number
    <3>1. h \in 1..MaxVersions /\ h <= saved'[p].number
      BY <1>6, <2>2, <2>4
    <3>2. \A q \in Pages : live'[q] = IF q = p THEN {v \in live[p] : v > m} \cup {h}
                                       ELSE live[q]
      BY <2>1, <2>4
    <3>3. {v \in live[p] : v > m} \cup {h} \subseteq 1..MaxVersions
      BY <2>1, <3>1
    <3>4. live' \in [Pages -> SUBSET (1..MaxVersions)]
      BY <2>1, <2>4, <3>3
    <3> QED
      BY <2>3, <3>1, <3>2, <3>4
  <2>5. CASE live' = live
    BY <2>1, <2>3, <2>5
  <2> QED
    BY <2>4, <2>5
<1>8. ASSUME NEW q \in Pages, Exists(q)' PROVE saved'[q].number >= 1
  <2>1. saved[q].number \in Nat /\ saved'[q].number \in Nat
    BY <1>6, PageConstants DEF Number
  <2> QED
    BY <1>3, <1>4, <1>6, <1>8, <2>1 DEF VersionsInv
<1> QED
  BY <1>1, <1>2, <1>5, <1>6, <1>7, <1>8 DEF VersionsInv

\* An ETag that only grows, or stays with its manifest, stays sound.
LEMMA ClientKeeps ==
  ASSUME PageTypeOK, PageTypeOK', ClientInv, UNCHANGED client,
         Note \/ UNCHANGED <<storeVars, orderly>>
  PROVE  ClientInv'
<1> SUFFICES ASSUME orderly', NEW k \in Clients
             PROVE  /\ client[k].probed # Null => client[k].probed <= Tag'
                    /\ client[k].tag # Null => client[k].tag <= Tag'
                    /\ client[k].tag = Tag' => client[k].manifest = Manifest'
  BY DEF ClientInv
<1>1. Tag \in Nat
  BY TagIsAStamp, PageConstants DEF Stamp
<1>3. Tag' \in Nat
  BY TagStaysAStamp, PageConstants DEF Stamp
<1>4. orderly /\ (Tag' > Tag \/ (Tag' = Tag /\ Manifest' = Manifest))
  BY DEF Note, storeVars, Tag, Manifest
<1>5. /\ client[k].probed \in Nat \cup {Null}
      /\ client[k].tag \in Nat \cup {Null}
  BY PageConstants DEF PageTypeOK, Stamp
<1>6. /\ client[k].probed # Null => client[k].probed <= Tag
      /\ client[k].tag # Null => client[k].tag <= Tag
      /\ client[k].tag = Tag => client[k].manifest = Manifest
  BY <1>4 DEF ClientInv
<1> QED
  BY <1>1, <1>3, <1>4, <1>5, <1>6, PageConstants

\* A transaction that stands still: nobody appends a version to a page whose row it has.
LEMMA OthersKeep ==
  ASSUME PageTypeOK, TxInv, NEW f \in Editors, tx'[f] = tx[f],
         saved' \in [Pages -> [number : Number, created : Stamp]],
         \A q \in Pages :
           /\ Exists(q) => Exists(q)'
           /\ saved'[q].number >= saved[q].number
           /\ rowLock[q] = f => rowLock'[q] = f
           /\ saved'[q] # saved[q] => ~Exists(q) \/ rowLock[q] # f
  PROVE  TxOf(f)'
<1>1. TxOf(f)
  BY DEF TxInv
<1>2. /\ tx[f] \in Transaction
      /\ \A q \in Pages : saved[q].number \in Number /\ saved'[q].number \in Number
  BY DEF PageTypeOK
<1>3. Number \subseteq Nat
  BY PageConstants DEF Number
<1>4. CASE tx[f].pc = "idle"
  BY <1>4 DEF TxOf
<1>5. CASE tx[f].pc # "idle"
  <2> DEFINE q == tx[f].page
  <2>1. /\ q \in Pages /\ Exists(q) /\ Exists(q)'
        /\ tx[f].kind \in {"put", "publish", "provision"}
    BY <1>1, <1>5 DEF TxOf
  <2>2. tx[f].head \in Nat /\ saved[q].number \in Nat /\ saved'[q].number \in Nat
    BY <1>2, <1>3, <2>1 DEF Transaction
  <2>3. rowLock[q] = f => rowLock'[q] = f /\ saved'[q] = saved[q]
    BY <2>1
  <2>4. saved'[q].number >= saved[q].number
    BY <2>1
  <2> QED
    BY <1>1, <2>1, <2>2, <2>3, <2>4 DEF TxOf
<1> QED
  BY <1>4, <1>5

\* The end of a transaction.
LEMMA EndKeeps ==
  ASSUME PageTypeOK, TxInv, NEW e \in Editors, EndTx(e),
         saved' \in [Pages -> [number : Number, created : Stamp]],
         \A q \in Pages :
           /\ Exists(q) => Exists(q)'
           /\ saved'[q].number >= saved[q].number
           /\ saved'[q] # saved[q] => rowLock[q] = e
  PROVE  /\ rowLock' \in [Pages -> Editors \cup {Null}]
         /\ verLock' \in [Pages -> Editors \cup {Null}]
         /\ tx' \in [Editors -> Transaction]
         /\ UNCHANGED <<clock, client>> /\ Note /\ orderly' \in BOOLEAN
         /\ TxInv'
<1>1. IdleTx \in Transaction /\ IdleTx.pc = "idle"
  BY PageConstants DEF IdleTx, Transaction, Stamp, Number
<1>2. /\ tx' = [tx EXCEPT ![e] = IdleTx] /\ UNCHANGED <<clock, client>> /\ Note
      /\ rowLock' = [p \in Pages |-> IF rowLock[p] = e THEN Null ELSE rowLock[p]]
      /\ verLock' = [p \in Pages |-> IF verLock[p] = e THEN Null ELSE verLock[p]]
  BY DEF EndTx
<1>3. tx' \in [Editors -> Transaction]
  BY <1>1, <1>2 DEF PageTypeOK
<1>4. ASSUME NEW f \in Editors PROVE TxOf(f)'
  <2>1. CASE f = e
    BY <1>1, <1>2, <2>1 DEF TxOf, PageTypeOK
  <2>2. CASE f # e
    <3>1. tx'[f] = tx[f]
      BY <1>2, <2>2 DEF PageTypeOK
    <3>2. \A q \in Pages : /\ rowLock[q] = f => rowLock'[q] = f
                           /\ saved'[q] # saved[q] => rowLock[q] # f
      BY <1>2, <2>2
    <3> QED
      BY <3>1, <3>2, OthersKeep
  <2> QED
    BY <2>1, <2>2
<1>5. orderly' \in BOOLEAN
  BY <1>2 DEF Note, PageTypeOK
<1> QED
  BY <1>2, <1>3, <1>4, <1>5 DEF PageTypeOK, TxInv

\* A transaction takes a step.
LEMMA TxKeeps ==
  ASSUME PageInv, NEW e \in Editors, NEW x \in Transaction, tx' = [tx EXCEPT ![e] = x],
         UNCHANGED <<storeVars, client, orderly>>, clock' \in Stamp,
         rowLock' \in [Pages -> Editors \cup {Null}],
         verLock' \in [Pages -> Editors \cup {Null}],
         \A q \in Pages : rowLock'[q] # rowLock[q] => rowLock[q] = Null,
         TxOf(e)'
  PROVE  PageInv'
<1> USE DEF PageInv
<1>1. UNCHANGED <<page, saved, live>>
  BY DEF storeVars
<1>2. PageTypeOK'
  BY <1>1 DEF PageTypeOK
<1>3. VersionsInv'
  BY <1>1 DEF VersionsInv, Exists
<1>4. ASSUME NEW f \in Editors PROVE TxOf(f)'
  <2>1. CASE f = e
    BY <2>1
  <2>2. CASE f # e
    <3>1. tx'[f] = tx[f]
      BY <2>2 DEF PageTypeOK
    <3>2. \A q \in Pages :
            /\ Exists(q) => Exists(q)'
            /\ saved'[q].number >= saved[q].number
            /\ saved'[q] = saved[q]
      <4>1. \A q \in Pages : saved[q].number \in Nat
        BY PageConstants DEF PageTypeOK, Number
      <4> QED
        BY <1>1, <4>1 DEF Exists
    <3>3. \A q \in Pages : rowLock[q] = f => rowLock'[q] = f
      BY PageConstants
    <3>4. saved' \in [Pages -> [number : Number, created : Stamp]]
      BY <1>1 DEF PageTypeOK
    <3> QED
      BY <3>1, <3>2, <3>3, <3>4, OthersKeep
  <2> QED
    BY <2>1, <2>2
<1>5. ClientInv'
  BY <1>2, ClientKeeps
<1> QED
  BY <1>2, <1>3, <1>4, <1>5 DEF TxInv

-----------------------------------------------------------------------------
\* The actions.

LEMMA PageStart == PageInit => PageInv
<1> SUFFICES ASSUME PageInit PROVE PageInv
  OBVIOUS
<1>1. 0 \in Stamp /\ 0 \in Number /\ IdleTx \in Transaction /\ IdleTx.pc = "idle"
  BY PageConstants DEF Stamp, Number, IdleTx, Transaction
<1>2. PageTypeOK
  BY <1>1 DEF PageInit, PageTypeOK
<1>3. VersionsInv
  BY DEF PageInit, VersionsInv, Exists
<1>4. TxInv
  BY <1>1 DEF PageInit, TxInv, TxOf
<1>5. Tag # Null
  BY <1>2, TagIsAStamp, PageConstants DEF Stamp
<1>6. ClientInv
  BY <1>5 DEF PageInit, ClientInv
<1> QED
  BY <1>2, <1>3, <1>4, <1>6 DEF PageInv

\* Create, delete and the provisioning of a new page: transactions of one statement.
LEMMA OneStatementKeeps ==
  ASSUME PageInv, NEW p \in Pages, Create(p) \/ ProvisionNew(p) \/ Archive(p)
  PROVE  PageInv'
<1> USE DEF PageInv
<1> DEFINE t == clock + 1
<1>1. /\ clock' = t /\ t \in Stamp /\ UNCHANGED <<rowLock, verLock, tx, client>> /\ Note
  BY PageConstants DEF Create, ProvisionNew, Archive, Tick, lockVars, PageTypeOK, Stamp
<1>2. \E s \in Status : SetStatus(p, s, t)
  BY DEF Create, ProvisionNew, Archive, Status
<1>3. /\ saved' = saved \/ (~Exists(p) /\ AddVersion(p, t))
      /\ Exists(p) \/ AddVersion(p, t)
  BY DEF Create, ProvisionNew, Archive
<1> HIDE DEF t
<1>4. live' = live \/ (\E h \in 1..saved'[p].number, m \in Number :
                         live' = [live EXCEPT ![p] = {v \in @ : v > m} \cup {h}])
  <2>1. ASSUME ProvisionNew(p), live' = [live EXCEPT ![p] = {1}]
        PROVE  \E h \in 1..saved'[p].number, m \in Number :
                 live' = [live EXCEPT ![p] = {v \in @ : v > m} \cup {h}]
    <3>1. /\ saved[p] \in [number : Number, created : Stamp] /\ saved[p].number \in Nat
          /\ live[p] \subseteq 1..MaxVersions
      BY PageConstants DEF PageTypeOK, Number
    <3>2. saved[p].number < MaxVersions /\ saved'[p].number = saved[p].number + 1
      BY <1>3, <2>1, <3>1 DEF AddVersion, ProvisionNew, PageTypeOK
    <3>3. 1 \in 1..saved'[p].number
      BY <3>1, <3>2
    <3>4. MaxVersions \in Number /\ {v \in live[p] : v > MaxVersions} = {}
      BY <3>1, PageConstants DEF Number
    <3>5. live' = [live EXCEPT ![p] = {v \in @ : v > MaxVersions} \cup {1}]
      BY <2>1, <3>4
    <3> QED
      BY <3>3, <3>4, <3>5
  <2> QED
    BY <2>1 DEF Create, ProvisionNew, Archive
<1>5. /\ page' \in [Pages -> [status : Status \cup {"none"}, updated : Stamp]]
      /\ saved' \in [Pages -> [number : Number, created : Stamp]]
      /\ live' \in [Pages -> SUBSET (1..MaxVersions)]
      /\ VersionsInv'
      /\ \A q \in Pages : Exists(q) => Exists(q)'
      /\ \A q \in Pages : saved'[q].number >= saved[q].number
      /\ \A q \in Pages : q # p => saved'[q] = saved[q]
  BY <1>1, <1>2, <1>3, <1>4, StoreKeeps
<1>6. TxInv'
  <2>1. \A q \in Pages : saved'[q] # saved[q] => ~Exists(q)
    BY <1>3, <1>5
  <2> QED
    BY <1>1, <1>5, <2>1, OthersKeep DEF TxInv
<1>7. orderly' \in BOOLEAN
  BY <1>1 DEF Note, PageTypeOK
<1>8. PageTypeOK'
  BY <1>1, <1>5, <1>7 DEF PageTypeOK
<1>9. ClientInv'
  BY <1>1, <1>8, ClientKeeps
<1> QED
  BY <1>5, <1>6, <1>8, <1>9

\* The start of the UPDATE of the versions.
LEMMA StartKeeps ==
  ASSUME PageInv, NEW e \in Editors, tx[e].pc # "idle", NEW h \in Number, NEW m \in Number,
         h >= 1, StartMark(e, h, m),
         tx[e].kind = "publish" => h <= saved[tx[e].page].number,
         tx[e].kind # "publish" =>
           /\ rowLock[tx[e].page] = e
           /\ m = h
           /\ h \in {saved[tx[e].page].number, saved[tx[e].page].number + 1}
  PROVE  PageInv'
<1> USE DEF PageInv
<1> DEFINE x == [tx[e] EXCEPT !.pc = "marking", !.head = h, !.seen = m]
<1>1. /\ tx' = [tx EXCEPT ![e] = x]
      /\ UNCHANGED <<storeVars, rowLock, verLock, clock, client, orderly>>
  BY DEF StartMark, PageTypeOK, lockVars
<1>2. /\ x \in Transaction /\ x.page = tx[e].page /\ x.kind = tx[e].kind
      /\ x.pc = "marking" /\ x.head = h /\ x.seen = m
  <2>1. tx[e] \in Transaction
    BY DEF PageTypeOK
  <2> QED
    BY <2>1 DEF Transaction
<1>3. TxOf(e)
  BY DEF TxInv
<1>4. tx'[e] = x /\ UNCHANGED <<page, saved>>
  BY <1>1 DEF PageTypeOK, storeVars
<1> HIDE DEF x
<1>5. TxOf(e)'
  BY <1>1, <1>2, <1>3, <1>4 DEF TxOf, Exists
<1> QED
  BY <1>1, <1>2, <1>5, TxKeeps DEF PageTypeOK

\* The steps of a transaction that change no more than where it is, and a lock.
LEMMA GoOnKeeps ==
  ASSUME PageInv, NEW e \in Editors,
         LockPage(e) \/ ProvisionKept(e) \/ MarkVersions(e)
  PROVE  PageInv'
<1> USE DEF PageInv
<1>1. PICK to \in {"locked", "kept", "marked"} :
        /\ tx' = [tx EXCEPT ![e].pc = to]
        /\ to = "locked" => tx[e].pc = "begun" /\ tx[e].kind \in {"put", "provision"}
                           /\ rowLock' = [rowLock EXCEPT ![tx[e].page] = e]
                           /\ rowLock[tx[e].page] = Null /\ verLock' = verLock
        /\ to = "kept" => tx[e].pc = "locked" /\ UNCHANGED <<rowLock, verLock>>
        /\ to = "marked" => tx[e].pc = "marking" /\ rowLock' = rowLock
                           /\ verLock' = [verLock EXCEPT ![tx[e].page] = e]
  BY DEF LockPage, ProvisionKept, MarkVersions, lockVars
<1>2. UNCHANGED <<storeVars, clock, client, orderly>>
  BY DEF LockPage, ProvisionKept, MarkVersions
<1>3. tx[e] \in Transaction /\ TxOf(e)
  BY DEF PageTypeOK, TxInv
<1> DEFINE x == [tx[e] EXCEPT !.pc = to]
<1>4. tx' = [tx EXCEPT ![e] = x] /\ tx'[e] = x
  BY <1>1 DEF PageTypeOK
<1>5. /\ x \in Transaction /\ x.page = tx[e].page /\ x.kind = tx[e].kind
      /\ x.pc = to /\ x.head = tx[e].head /\ x.seen = tx[e].seen
  BY <1>3 DEF Transaction
<1>6. tx[e].page \in Pages
  BY <1>1, <1>3 DEF TxOf
<1>7. /\ rowLock' \in [Pages -> Editors \cup {Null}]
      /\ verLock' \in [Pages -> Editors \cup {Null}]
      /\ \A q \in Pages : rowLock'[q] # rowLock[q] => rowLock[q] = Null
  <2>1. CASE to = "locked"
    BY <1>1, <1>6, <2>1 DEF PageTypeOK
  <2>2. CASE to = "kept"
    BY <1>1, <1>6, <2>2 DEF PageTypeOK
  <2>3. CASE to = "marked"
    BY <1>1, <1>6, <2>3 DEF PageTypeOK
  <2> QED
    BY <2>1, <2>2, <2>3
<1>8. UNCHANGED <<page, saved>>
  BY <1>2 DEF storeVars
<1> HIDE DEF x
<1>9. TxOf(e)'
  <2>1. CASE to = "locked"
    <3>1. rowLock'[tx[e].page] = e
      BY <1>1, <1>6, <2>1 DEF PageTypeOK
    <3> QED
      BY <1>1, <1>3, <1>4, <1>5, <1>8, <2>1, <3>1 DEF TxOf, Exists
  <2>2. CASE to \in {"kept", "marked"}
    BY <1>1, <1>3, <1>4, <1>5, <1>8, <2>2 DEF TxOf, Exists
  <2> QED
    BY <2>1, <2>2
<1> QED
  BY <1>2, <1>4, <1>5, <1>7, <1>9, TxKeeps DEF PageTypeOK

\* The steps of a transaction before its end.
LEMMA WorkKeeps ==
  ASSUME PageInv, NEW e \in Editors,
         \/ \E p \in Pages, kind \in {"put", "publish", "provision"} : Begin(e, p, kind)
         \/ LockPage(e) \/ ReadHead(e) \/ Promote(e) \/ ProvisionHead(e)
         \/ ProvisionKept(e) \/ MarkVersions(e)
  PROVE  PageInv'
<1> USE DEF PageInv
<1> tx[e] \in Transaction /\ TxOf(e)
  BY DEF PageTypeOK, TxInv
<1>1. ASSUME NEW p \in Pages, NEW kind \in {"put", "publish", "provision"},
             Begin(e, p, kind)
      PROVE  PageInv'
  <2> DEFINE x == [kind |-> kind, page |-> p, pc |-> "begun", now |-> clock + 1,
                   head |-> 0, seen |-> 0]
  <2>1. /\ tx' = [tx EXCEPT ![e] = x] /\ Exists(p) /\ clock' = clock + 1
        /\ UNCHANGED <<storeVars, rowLock, verLock, client, orderly>>
    BY <1>1 DEF Begin, Tick, lockVars
  <2>2. clock + 1 \in Stamp
    BY <1>1, PageConstants DEF Begin, Tick, PageTypeOK, Stamp
  <2>3. x \in Transaction /\ x.page = p /\ x.pc = "begun" /\ x.kind = kind
    BY <2>2, PageConstants DEF Transaction, Number
  <2>4. tx'[e] = x
    BY <2>1 DEF PageTypeOK
  <2> HIDE DEF x
  <2>5. TxOf(e)'
    BY <2>1, <2>3, <2>4 DEF TxOf, Exists, storeVars
  <2> QED
    BY <2>1, <2>2, <2>3, <2>5, TxKeeps DEF PageTypeOK
<1>2. CASE ReadHead(e)
  <2> DEFINE x == [tx[e] EXCEPT !.pc = "read", !.head = saved[tx[e].page].number]
  <2>1. /\ tx' = [tx EXCEPT ![e] = x] /\ tx[e].pc = "begun" /\ tx[e].kind = "publish"
        /\ UNCHANGED <<storeVars, rowLock, verLock, clock, client, orderly>>
    BY <1>2 DEF ReadHead, PageTypeOK, lockVars
  <2>2. tx[e].page \in Pages /\ Exists(tx[e].page)
    BY <2>1 DEF TxOf
  <2>3. /\ saved[tx[e].page].number \in Number /\ saved[tx[e].page].number >= 1
        /\ saved[tx[e].page].number <= saved[tx[e].page].number
    BY <2>2, PageConstants DEF VersionsInv, PageTypeOK, Number
  <2>4. /\ x \in Transaction /\ x.page = tx[e].page /\ x.pc = "read"
        /\ x.kind = tx[e].kind /\ x.head = saved[tx[e].page].number
    BY <2>3 DEF Transaction
  <2>5. tx'[e] = x
    BY <2>1 DEF PageTypeOK
  <2> HIDE DEF x
  <2>6. TxOf(e)'
    BY <2>1, <2>2, <2>3, <2>4, <2>5 DEF TxOf, Exists, storeVars
  <2> QED
    BY <2>1, <2>4, <2>6, TxKeeps DEF PageTypeOK
<1>3. CASE Promote(e)
  <2>1. /\ tx[e].pc = "read" /\ tx[e].page \in Pages /\ tx[e].head \in Number
        /\ tx[e].head >= 1 /\ StartMark(e, tx[e].head, saved[tx[e].page].number)
    BY <1>3 DEF Promote, TxOf, Transaction
  <2>2. saved[tx[e].page].number \in Number
    BY <2>1 DEF PageTypeOK
  <2>3. tx[e].kind = "publish" /\ tx[e].head <= saved[tx[e].page].number
    BY <2>1 DEF TxOf
  <2> QED
    BY <2>1, <2>2, <2>3, StartKeeps
<1>4. CASE ProvisionHead(e)
  <2> DEFINE last == saved[tx[e].page].number
  <2>1. /\ tx[e].pc = "locked" /\ tx[e].kind = "provision"
        /\ tx[e].page \in Pages /\ Exists(tx[e].page) /\ rowLock[tx[e].page] = e
    BY <1>4 DEF ProvisionHead, TxOf
  <2>2. last \in Number /\ last >= 1
    BY <2>1 DEF VersionsInv, PageTypeOK
  <2>3. PICK h \in {last, last + 1} : h \in Number /\ StartMark(e, h, h)
    BY <1>4, <2>2, PageConstants DEF ProvisionHead, Number
  <2>4. h >= 1
    BY <2>2, <2>3, PageConstants DEF Number
  <2> QED
    BY <2>1, <2>3, <2>4, StartKeeps
<1> QED
  BY <1>1, <1>2, <1>3, <1>4, GoOnKeeps

\* COMMIT and ROLLBACK.
LEMMA CommitKeeps ==
  ASSUME PageInv, NEW e \in Editors,
         \/ CommitPut(e) \/ CommitPublish(e) \/ CommitProvision(e)
         \/ CommitProvisionHidden(e) \/ Abort(e)
  PROVE  PageInv'
<1> USE DEF PageInv
<1> DEFINE p == tx[e].page
           t == tx[e].now
<1>1. tx[e] \in Transaction /\ tx[e].pc # "idle" /\ EndTx(e)
  BY DEF CommitPut, CommitPublish, CommitProvision, CommitProvisionHidden, Abort, PageTypeOK
<1>2. p \in Pages /\ Exists(p) /\ t \in Stamp
  BY <1>1 DEF TxInv, TxOf, Transaction
<1>3. TxOf(e) /\ saved[p].number \in Nat /\ MaxVersions \in Nat
  BY <1>2, PageConstants DEF TxInv, PageTypeOK, Number
<1>4. page' = page \/ (\E s \in Status : SetStatus(p, s, t))
  BY DEF CommitPut, CommitPublish, CommitProvision, CommitProvisionHidden, Abort, storeVars,
     Status
<1>5. saved' = saved \/ (AddVersion(p, t) /\ rowLock[p] = e)
  BY <1>3 DEF CommitPut, CommitPublish, CommitProvision, CommitProvisionHidden, Abort,
     storeVars, TxOf
<1>6. live' = live \/ (\E h \in 1..saved'[p].number, m \in Number :
                         live' = [live EXCEPT ![p] = {v \in @ : v > m} \cup {h}])
  <2>1. CASE CommitPublish(e)
    <3>1. /\ tx[e].head \in 1..saved'[p].number /\ tx[e].seen \in Number
      BY <1>1, <1>3, <2>1, PageConstants DEF CommitPublish, TxOf, Transaction, Number
    <3>2. live' = [live EXCEPT ![p] = {v \in @ : v > tx[e].seen} \cup {tx[e].head}]
      BY <2>1 DEF CommitPublish, Marked
    <3> QED
      BY <3>1, <3>2
  <2>2. CASE CommitProvision(e) /\ tx[e].pc = "marked"
    <3>1. tx[e].head >= 1 /\ tx[e].head \in {saved[p].number, saved[p].number + 1}
      BY <1>3, <2>2 DEF CommitProvision, TxOf
    <3>2. /\ tx[e].head \in Nat /\ tx[e].seen \in Number
          /\ tx[e].head <= MaxVersions
      BY <1>1, <1>3 DEF Transaction, Number
    <3>3. tx[e].head <= saved'[p].number /\ saved'[p].number \in Nat
      <4>1. CASE tx[e].head = saved[p].number /\ UNCHANGED saved
        BY <1>3, <4>1
      <4>2. CASE tx[e].head > saved[p].number /\ AddVersion(p, t)
        <5>1. tx[e].head = saved[p].number + 1
          BY <1>3, <2>2, <3>2, <4>2 DEF TxOf
        <5>2. saved'[p].number = saved[p].number + 1
          BY <1>2, <4>2 DEF AddVersion, PageTypeOK
        <5> QED
          BY <1>3, <5>1, <5>2
      <4> QED
        BY <2>2, <4>1, <4>2 DEF CommitProvision
    <3>4. live' = [live EXCEPT ![p] = {v \in @ : v > tx[e].seen} \cup {tx[e].head}]
      BY <2>2 DEF CommitProvision, Marked
    <3>5. tx[e].head \in 1..saved'[p].number
      BY <3>1, <3>2, <3>3
    <3> QED
      BY <3>2, <3>4, <3>5
  <2>3. CASE ~CommitPublish(e) /\ ~(CommitProvision(e) /\ tx[e].pc = "marked")
    BY <2>3 DEF CommitPut, CommitProvision, CommitProvisionHidden, Abort, storeVars
  <2> QED
    BY <2>1, <2>2, <2>3
<1>7. /\ page' \in [Pages -> [status : Status \cup {"none"}, updated : Stamp]]
      /\ saved' \in [Pages -> [number : Number, created : Stamp]]
      /\ live' \in [Pages -> SUBSET (1..MaxVersions)]
      /\ VersionsInv'
      /\ \A q \in Pages : Exists(q) => Exists(q)'
      /\ \A q \in Pages : saved'[q].number >= saved[q].number
      /\ \A q \in Pages : q # p => saved'[q] = saved[q]
  <2> HIDE DEF p, t
  <2> QED
    BY <1>2, <1>4, <1>5, <1>6, StoreKeeps
<1>8. /\ rowLock' \in [Pages -> Editors \cup {Null}]
      /\ verLock' \in [Pages -> Editors \cup {Null}]
      /\ tx' \in [Editors -> Transaction]
      /\ UNCHANGED <<clock, client>> /\ Note /\ orderly' \in BOOLEAN
      /\ TxInv'
  <2>1. \A q \in Pages : saved'[q] # saved[q] => rowLock[q] = e
    BY <1>5, <1>7
  <2> QED
    BY <1>1, <1>7, <2>1, EndKeeps
<1>9. PageTypeOK'
  BY <1>7, <1>8 DEF PageTypeOK
<1>10. ClientInv'
  BY <1>8, <1>9, ClientKeeps
<1> QED
  BY <1>7, <1>8, <1>9, <1>10

\* GET /api/bootstrap.
LEMMA BootKeeps ==
  ASSUME PageInv, NEW k \in Clients, Probe(k) \/ ReadManifest(k)
  PROVE  PageInv'
<1> USE DEF PageInv
<1>1. UNCHANGED <<page, saved, live, rowLock, verLock, tx, clock, orderly>>
  BY DEF Probe, ReadManifest, storeVars, lockVars
<1>2. Tag' = Tag /\ Manifest' = Manifest
  BY <1>1 DEF Tag, Manifest
<1>3. Tag \in Stamp /\ Tag <= Tag /\ Tag # Null
  BY TagIsAStamp, PageConstants DEF Stamp
<1> DEFINE Boot == [tag : Stamp \cup {Null}, probed : Stamp \cup {Null},
                    manifest : [Pages -> SUBSET (1..MaxVersions)]]
<1>4. client \in [Clients -> Boot] /\ client[k] \in Boot
  BY DEF PageTypeOK
<1>5. Manifest \in [Pages -> SUBSET (1..MaxVersions)]
  BY DEF Manifest, PageTypeOK
<1>6. PICK b \in Boot :
        /\ client' = [client EXCEPT ![k] = b]
        /\ \/ b.tag = client[k].tag /\ b.manifest = client[k].manifest /\ b.probed = Tag
           \/ b.tag = client[k].probed /\ b.manifest = Manifest /\ b.probed = Null
  <2>1. CASE Probe(k)
    <3> DEFINE b == [client[k] EXCEPT !.probed = Tag]
    <3>1. client' = [client EXCEPT ![k] = b]
      BY <1>4, <2>1 DEF Probe
    <3>2. /\ b \in Boot /\ b.tag = client[k].tag /\ b.manifest = client[k].manifest
          /\ b.probed = Tag
      BY <1>3, <1>4
    <3> QED
      BY <3>1, <3>2
  <2>2. CASE ReadManifest(k)
    <3> DEFINE b == [tag |-> client[k].probed, probed |-> Null, manifest |-> Manifest]
    <3>1. client' = [client EXCEPT ![k] = b]
      BY <2>2 DEF ReadManifest
    <3>2. b \in Boot
      BY <1>4, <1>5
    <3> QED
      BY <3>1, <3>2
  <2> QED
    BY <2>1, <2>2
<1>7. client' \in [Clients -> Boot] /\ client'[k] = b
      /\ \A j \in Clients : j # k => client'[j] = client[j]
  BY <1>4, <1>6
<1>8. PageTypeOK'
  BY <1>1, <1>7 DEF PageTypeOK
<1>9. VersionsInv' /\ TxInv'
  BY <1>1 DEF VersionsInv, TxInv, TxOf, Exists
<1>10. ClientInv'
  <2> SUFFICES ASSUME orderly, NEW j \in Clients
               PROVE  /\ client'[j].probed # Null => client'[j].probed <= Tag
                      /\ client'[j].tag # Null => client'[j].tag <= Tag
                      /\ client'[j].tag = Tag => client'[j].manifest = Manifest
    BY <1>1, <1>2 DEF ClientInv
  <2>1. /\ client[j].probed # Null => client[j].probed <= Tag
        /\ client[j].tag # Null => client[j].tag <= Tag
        /\ client[j].tag = Tag => client[j].manifest = Manifest
    BY DEF ClientInv
  <2>2. CASE j # k
    BY <1>7, <2>1, <2>2
  <2>3. CASE j = k
    <3> HIDE DEF Boot
    <3> QED
      BY <1>3, <1>6, <1>7, <2>1, <2>3
  <2> QED
    BY <2>2, <2>3
<1> QED
  BY <1>8, <1>9, <1>10

LEMMA PageHolds == PageSpec => []PageInv
<1>1. ASSUME PageInv, UNCHANGED pageVars PROVE PageInv'
  <2>1. UNCHANGED <<page, saved, live, rowLock, verLock, tx, clock, client, orderly>>
    BY <1>1 DEF pageVars, storeVars, lockVars
  <2>2. PageTypeOK'
    BY <1>1, <2>1 DEF PageInv, PageTypeOK
  <2>3. VersionsInv' /\ TxInv'
    BY <1>1, <2>1 DEF PageInv, VersionsInv, TxInv, TxOf, Exists
  <2>4. Tag' = Tag /\ Manifest' = Manifest
    BY <2>1 DEF Tag, Manifest
  <2>5. ClientInv'
    BY <1>1, <2>1, <2>4 DEF PageInv, ClientInv
  <2> QED
    BY <2>2, <2>3, <2>5 DEF PageInv
<1>2. PageInv /\ [PageNext]_pageVars => PageInv'
  BY <1>1, OneStatementKeeps, WorkKeeps, CommitKeeps, BootKeeps DEF PageNext
<1> QED
  BY <1>2, PageStart, PTL DEF PageSpec

\* Types of pages, versions, locks, transactions and of what clients hold.
THEOREM PagesAreTyped == PageSpec => []PageTypeOK
<1>1. PageInv => PageTypeOK
  BY DEF PageInv
<1> QED
  BY <1>1, PageHolds, PTL

\* bootstrap: "revalidate every boot; 304 when unchanged". For any number of pages,
\* connections and clients: while the ETag grows with every change of the manifest, a
\* client whose ETag is the one of now has the manifest of now.
THEOREM BootIsSound == PageSpec => []RevalidationIsSound
<1>1. PageInv => RevalidationIsSound
  BY DEF PageInv, ClientInv, RevalidationIsSound
<1> QED
  BY <1>1, PageHolds, PTL

\* pages.ts: "Atomic so there is never zero or two published versions for a page". With
\* two lock orders, aborts, heads that are read before they are locked and versions that
\* are saved while an UPDATE waits: what is live never goes away, and whatever changes it
\* leaves one version, beside those that the snapshot of a publish missed.
THEOREM OneVersionIsLive == PageSpec => OneLiveVersion
<1> DEFINE Late(p, v) == \E e \in Editors :
             /\ tx[e].kind = "publish" /\ tx[e].page = p /\ tx'[e].pc = "idle"
             /\ v > tx[e].seen
           Kept == \A p \in Pages :
             /\ live[p] # {} => live'[p] # {}
             /\ live'[p] # live[p] =>
                  \E h \in live'[p] : \A v \in live'[p] \ {h} :
                    \E e \in Editors :
                      /\ tx[e].kind = "publish" /\ tx[e].page = p /\ tx'[e].pc = "idle"
                      /\ v > tx[e].seen
<1>1. ASSUME PageInv, PageNext, NEW p \in Pages, live'[p] # live[p]
      PROVE  \E h \in live'[p] : \A v \in live'[p] \ {h} : Late(p, v)
  <2>1. live \in [Pages -> SUBSET (1..MaxVersions)]
    BY <1>1 DEF PageInv, PageTypeOK
  <2>2. ASSUME NEW q \in Pages, ProvisionNew(q)
        PROVE  live'[p] = {1}
    BY <1>1, <2>1, <2>2 DEF ProvisionNew
  <2>3. ASSUME NEW e \in Editors, CommitPublish(e) \/ CommitProvision(e)
        PROVE  \E h \in live'[p] : \A v \in live'[p] \ {h} : Late(p, v)
    <3>1. TxOf(e) /\ tx[e].page \in Pages /\ tx'[e].pc = "idle" /\ Marked(e)
          /\ tx[e].pc = "marked"
      BY <1>1, <2>3 DEF PageInv, PageTypeOK, TxInv, TxOf, CommitPublish, CommitProvision,
                        EndTx, IdleTx
    <3>2. p = tx[e].page /\ live'[p] = {v \in live[p] : v > tx[e].seen} \cup {tx[e].head}
      BY <1>1, <2>1, <3>1 DEF Marked
    <3>3. CASE tx[e].kind = "publish"
      BY <3>1, <3>2, <3>3
    <3>4. CASE tx[e].kind # "publish"
      <4>1. /\ saved[p].number \in Nat /\ tx[e].seen \in {saved[p].number, saved[p].number + 1}
            /\ \A v \in live[p] : v \in Nat /\ v <= saved[p].number
        BY <1>1, <2>1, <3>1, <3>2, <3>4, PageConstants
        DEF PageInv, PageTypeOK, VersionsInv, TxOf, Number
      <4>2. live'[p] = {tx[e].head}
        BY <3>2, <4>1
      <4> QED
        BY <4>2
    <3> QED
      BY <3>3, <3>4
  <2>4. \/ \E q \in Pages : ProvisionNew(q)
        \/ \E e \in Editors : CommitPublish(e) \/ CommitProvision(e)
    BY <1>1 DEF PageNext, Create, Archive, Begin, LockPage, ReadHead, Promote, ProvisionHead,
       ProvisionKept, StartMark, MarkVersions, CommitPut, CommitProvisionHidden, Abort,
       Probe, ReadManifest, storeVars
  <2> HIDE DEF Late
  <2> QED
    BY <2>2, <2>3, <2>4
<1>2. PageInv /\ PageNext => Kept
  BY <1>1
<1>3. PageInv /\ [PageNext]_pageVars => [Kept]_pageVars
  BY <1>2
<1> QED
  BY <1>3, PageHolds, PTL DEF PageSpec, OneLiveVersion
=============================================================================
