------------------------------ MODULE Codelist ------------------------------
(***************************************************************************)
(* The gold writes of the reference kinds: ingest/upsert.ts                *)
(* (upsertClassifier) and publishClassifiers(), publishDisplays() of       *)
(* ingest/publish.ts, with the classifier triggers of V23 and V24.         *)
(*                                                                         *)
(* A member of a codelist is a slowly changing dimension: a new label      *)
(* closes the current row of its code and inserts another, with an id of   *)
(* its own; hierarchy and path are keyed on the code, display overlays on  *)
(* the id.  Publishes run in transactions at READ COMMITTED, statement by  *)
(* statement, and overlap.                                                 *)
(***************************************************************************)
EXTENDS Naturals, Sequences, FiniteSets

CONSTANTS
  Jobs,       \* submissions of reference data
  Codes,      \* member codes of one dimension
  Labels,     \* what a member is called
  Texts,      \* display overlays, of one locale
  Codelists,  \* codelist payloads: code -> [label, parent]
  Displays,   \* display payloads: code -> text
  None

ASSUME ConstantsOK ==
  /\ None \notin Codes \cup Labels \cup Texts \cup Jobs \X Codes
  /\ \A p \in Codelists : /\ DOMAIN p \subseteq Codes
                          /\ \A c \in DOMAIN p : /\ p[c].label \in Labels
                                                 /\ p[c].parent \in Codes \cup {None}
  /\ \A p \in Displays : DOMAIN p \subseteq Codes /\ \A c \in DOMAIN p : p[c] \in Texts

\* The hierarchy of the dimension is settled: payloads agree on the parent of a code.
ASSUME ParentsAgree ==
  \A p, q \in Codelists : \A c \in DOMAIN p \cap DOMAIN q : p[c].parent = q[c].parent

VARIABLES
  gold,     \* committed classifier rows, current and retired
  overlay,  \* overlay[i]: committed display overlay of the row with id i
  job       \* job[j]: what it carries, where its publish is, and what it holds

vars == <<gold, overlay, job>>

\* A serial that no insert draws twice: named after the submission and the code.
Ids == Jobs \X Codes

Row == [id : Ids, code : Codes, label : Labels, parent : Codes \cup {None},
        path : Seq(Codes), current : BOOLEAN]

\* todo: codes still to publish; code, target: the one at hand and the row its close
\* has found; closes, news: rows closed and inserted, uncommitted; bound: overlays
\* written, uncommitted. rival: codes others committed meanwhile (history).
Idle == [step |-> "idle", kind |-> "none", payload |-> <<>>, todo |-> {},
         code |-> None, target |-> None, closes |-> {}, news |-> {}, bound |-> {},
         rival |-> {}]

Steps == {"idle", "staged", "open", "close", "insert", "bound", "done", "failed"}

Record == [step : Steps, kind : {"none", "codelists", "displays"},
           payload : Codelists \cup Displays \cup {<<>>}, todo : SUBSET Codes,
           code : Codes \cup {None}, target : Ids \cup {None}, closes : SUBSET Ids,
           news : SUBSET Row, bound : SUBSET (Ids \X Texts), rival : SUBSET Codes]

TypeOK ==
  /\ gold \subseteq Row
  /\ overlay \in [Ids -> Texts \cup {None}]
  /\ job \in [Jobs -> Record]

Init ==
  /\ gold = {}
  /\ overlay = [i \in Ids |-> None]
  /\ job = [j \in Jobs |-> Idle]

\* The current rows of a code that j sees: committed ones it has not closed, its own.
Current(j, c) ==
  {r \in gold : r.code = c /\ r.current /\ r.id \notin job[j].closes}
    \cup {r \in job[j].news : r.code = c}

\* Codes a transaction has written: others wait for it at their index entries.
Written(j) ==
  {r.code : r \in {s \in gold : s.id \in job[j].closes} \cup job[j].news}

-----------------------------------------------------------------------------
\* validateClassifiers(), validateDisplays(): a parent is in the payload or current in
\* gold, a display has a current member.
Valid(kind, p) ==
  LET known == {r.code : r \in {s \in gold : s.current}}
  IN  \/ kind = "codelists" /\ {p[c].parent : c \in DOMAIN p} \subseteq
                                 DOMAIN p \cup known \cup {None}
      \/ kind = "displays" /\ DOMAIN p \subseteq known

\* createSubmission() and staging: a payload that is already published is refused (or
\* counts as published, in a canonical upload), an invalid one is rejected; neither
\* changes anything here.
Submit(j, kind, p) ==
  /\ job[j].step = "idle"
  /\ \A k \in Jobs : job[k].step = "done" => <<job[k].kind, job[k].payload>> # <<kind, p>>
  /\ Valid(kind, p)
  /\ job' = [job EXCEPT ![j].step = "staged", ![j].kind = kind, ![j].payload = p]
  /\ UNCHANGED <<gold, overlay>>

\* publishClassifiers() begins.
Begin(j) ==
  /\ job[j].step = "staged"
  /\ job[j].kind = "codelists"
  /\ job' = [job EXCEPT ![j].step = "open", ![j].todo = DOMAIN job[j].payload]
  /\ UNCHANGED <<gold, overlay>>

\* A root, or a code whose parent is published in this batch or current in gold.
Ready(j, c) ==
  LET parent == job[j].payload[c].parent
  IN  parent = None \/ Current(j, parent) # {}

\* Deviation: a new label does not close the current row.
FindNothing(j) ==
  /\ job[j].step = "open"
  /\ \E c \in job[j].todo :
       /\ Ready(j, c)
       /\ job' = [job EXCEPT ![j].step = "close", ![j].code = c]
  /\ UNCHANGED <<gold, overlay>>

\* Step 1 of upsertClassifier(), its snapshot: the current row, if its label differs.
Find(j) ==
  /\ job[j].step = "open"
  /\ \E c \in job[j].todo :
       /\ Ready(j, c)
       /\ LET differ == {r \in Current(j, c) : r.label # job[j].payload[c].label}
          IN  \E t \in IF differ = {} THEN {None} ELSE {r.id : r \in differ} :
                job' = [job EXCEPT ![j].step = "close", ![j].code = c, ![j].target = t]
  /\ UNCHANGED <<gold, overlay>>

\* Deviation: the close commits on its own, before the insert.
CloseAtOnce(j) ==
  /\ job[j].step = "close"
  /\ gold' = {IF r.id = job[j].target THEN [r EXCEPT !.current = FALSE] ELSE r :
                r \in gold}
  /\ job' = [job EXCEPT ![j].step = "insert", ![j].target = None]
  /\ UNCHANGED overlay

\* Step 1, its row lock: wait for a transaction that has closed the row; if it
\* committed, the row is not current any more and nothing is closed.
Close(j) ==
  /\ job[j].step = "close"
  /\ \A k \in Jobs \ {j} : job[j].target \notin job[k].closes
  /\ job' = [job EXCEPT ![j].step = "insert", ![j].target = None,
               ![j].closes = job[j].closes \cup
                  {r.id : r \in {s \in gold : s.current /\ s.id = job[j].target}}]
  /\ UNCHANGED <<gold, overlay>>

\* Deviation: the path is the code alone.
PathOfCodeAlone(j, c) == <<c>>

\* refresh_classifier_code_path(): the path of the current parent, and the code.
PathOf(j, c) ==
  LET parent == job[j].payload[c].parent
  IN  IF parent = None THEN <<c>>
      ELSE Append((CHOOSE r \in Current(j, parent) : TRUE).path, c)

NewRow(j, c) ==
  [id |-> <<j, c>>, code |-> c, label |-> job[j].payload[c].label,
   parent |-> job[j].payload[c].parent, path |-> PathOf(j, c), current |-> TRUE]

\* Deviation: no conflict target, the row is inserted whatever is current.
InsertAnyway(j) ==
  /\ job[j].step = "insert"
  /\ job' = [job EXCEPT ![j].step = "open", ![j].todo = job[j].todo \ {job[j].code},
               ![j].code = None, ![j].news = job[j].news \cup {NewRow(j, job[j].code)}]
  /\ UNCHANGED <<gold, overlay>>

\* Step 2: insert the new current row. uq_classifier_current makes the statement wait
\* for a transaction that has written the code; a row that is current then stays.
Insert(j) ==
  /\ job[j].step = "insert"
  /\ \A k \in Jobs \ {j} : job[j].code \notin Written(k)
  /\ LET c == job[j].code IN
       job' = [job EXCEPT ![j].step = "open", ![j].todo = job[j].todo \ {c},
                 ![j].code = None, ![j].news = job[j].news \cup
                   IF Current(j, c) = {} THEN {NewRow(j, c)} ELSE {}]
  /\ UNCHANGED <<gold, overlay>>

\* j leaves its transaction as s; the others learn the codes it has committed.
Leave(j, s, written) ==
  [k \in Jobs |->
     IF k = j
     THEN [Idle EXCEPT !.step = s, !.kind = job[j].kind, !.payload = job[j].payload]
     ELSE IF job[k].step \in {"open", "close", "insert", "bound"}
          THEN [job[k] EXCEPT !.rival = @ \cup written] ELSE job[k]]

\* Deviation: a closed row is deleted.
CommitCodelistDeleting(j) ==
  /\ job[j].step = "open"
  /\ job[j].todo = {}
  /\ gold' = {r \in gold : r.id \notin job[j].closes} \cup job[j].news
  /\ job' = Leave(j, "done", Written(j))
  /\ UNCHANGED overlay

\* COMMIT: closed rows stay, no longer current.
CommitCodelist(j) ==
  /\ job[j].step = "open"
  /\ job[j].todo = {}
  /\ gold' = {IF r.id \in job[j].closes THEN [r EXCEPT !.current = FALSE] ELSE r :
                r \in gold} \cup job[j].news
  /\ job' = Leave(j, "done", Written(j))
  /\ UNCHANGED overlay

-----------------------------------------------------------------------------
\* Deviation: the join takes any row of the code.
BindAnyRow(j) ==
  /\ job[j].step = "staged"
  /\ job[j].kind = "displays"
  /\ Valid("displays", job[j].payload)
  /\ \E row \in [DOMAIN job[j].payload -> gold] :
       /\ \A c \in DOMAIN row : row[c].code = c
       /\ job' = [job EXCEPT ![j].step = "bound",
                    ![j].bound = {<<row[c].id, job[j].payload[c]>> : c \in DOMAIN row}]
  /\ UNCHANGED <<gold, overlay>>

\* publishDisplays(): every code must have a current row; its overlay goes there. (The
\* error when one has none cannot be reached: ValidStays.)
Bind(j) ==
  /\ job[j].step = "staged"
  /\ job[j].kind = "displays"
  /\ Valid("displays", job[j].payload)
  /\ LET rows == {r \in gold : r.current /\ r.code \in DOMAIN job[j].payload}
     IN  job' = [job EXCEPT ![j].step = "bound",
                   ![j].bound = {<<r.id, job[j].payload[r.code]>> : r \in rows}]
  /\ UNCHANGED <<gold, overlay>>

\* COMMIT: the overlays replace what the rows had.
CommitDisplays(j) ==
  /\ job[j].step = "bound"
  /\ overlay' = [i \in Ids |->
                   IF \E b \in job[j].bound : b[1] = i
                   THEN (CHOOSE b \in job[j].bound : b[1] = i)[2] ELSE overlay[i]]
  /\ job' = Leave(j, "done", {})
  /\ UNCHANGED gold

\* A transaction fails: a database error, a deadlock PostgreSQL breaks.
Fail(j) ==
  /\ job[j].step \in {"open", "close", "insert", "bound"}
  /\ job' = Leave(j, "failed", {})
  /\ UNCHANGED <<gold, overlay>>

Next ==
  \E j \in Jobs :
    \/ \E p \in Codelists : Submit(j, "codelists", p)
    \/ \E p \in Displays : Submit(j, "displays", p)
    \/ Begin(j) \/ Find(j) \/ Close(j) \/ Insert(j) \/ CommitCodelist(j)
    \/ Bind(j) \/ CommitDisplays(j) \/ Fail(j)

Spec == Init /\ [][Next]_vars
-----------------------------------------------------------------------------

\* V18: "CURRENT-row invariant". A code that was ever published has exactly one current
\* row, whatever publishes overlapped or failed: readers always find one label.
OneCurrentRow ==
  \A r \in gold : Cardinality({s \in gold : s.code = r.code /\ s.current}) = 1

\* What staging accepted can be published whenever the curator comes to it: the parents
\* and members it was validated against stay current, whatever is published in between.
ValidStays ==
  \A j \in Jobs : job[j].step \in {"staged", "open"} => Valid(job[j].kind, job[j].payload)

\* V18: history is kept. A publish retires rows and adds rows; it never drops one, never
\* rewrites one, and never makes a retired one current again.
HistoryStands ==
  [][\A r \in gold : \/ r \in gold'
                     \/ r.current /\ [r EXCEPT !.current = FALSE] \in gold']_vars

\* V23: "a code-chain path NEVER changes on a revision". The path of a current row is the
\* path its current parent has now, and its code, also when both were relabelled at once.
PathIsTheChain ==
  \A r \in {s \in gold : s.current} :
    IF r.parent = None THEN r.path = <<r.code>>
    ELSE \E q \in gold : q.code = r.parent /\ q.current /\ r.path = Append(q.path, r.code)

Commits(j) == job[j].step \in {"open", "bound"} /\ job'[j].step = "done"

\* A published codelist is what gold says: when it commits, every code of it carries its
\* label, unless an overlapping publish has written that code and wins (DO NOTHING).
CodelistLands ==
  [][\A j \in Jobs : Commits(j) /\ job[j].kind = "codelists" =>
       \A c \in DOMAIN job[j].payload \ job[j].rival :
         \E r \in gold' :
           r.code = c /\ r.current /\ r.label = job[j].payload[c].label]_vars

\* Published overlays are served: when they commit, each hangs on the current row of its
\* code, unless an overlapping publish has relabelled that code since it was resolved.
DisplaysLand ==
  [][\A j \in Jobs : Commits(j) /\ job[j].kind = "displays" =>
       \A c \in DOMAIN job[j].payload \ job[j].rival :
         \E r \in gold' :
           r.code = c /\ r.current /\ overlay'[r.id] = job[j].payload[c]]_vars
=============================================================================
