--------------------------- MODULE IngestPipeline ---------------------------
(***************************************************************************)
(* The Staged Submission Pipeline of the API (src/platform/apps/api/src/   *)
(* ingest): a POST writes a job header and its bronze blob, drain workers  *)
(* claim 'received' jobs and stage them, curators publish or reject staged *)
(* jobs, and a boot re-queues the jobs a dead worker left in 'parsing'.    *)
(*                                                                         *)
(* PostgreSQL runs at READ COMMITTED: a statement sees committed values, a *)
(* row that an open transaction has updated blocks other updates of the    *)
(* row until that transaction ends, and a blocked UPDATE re-evaluates its  *)
(* WHERE clause on the committed row.  `job' holds committed statuses;     *)
(* `lock' is the row lock an open publish transaction holds.               *)
(***************************************************************************)
EXTENDS Naturals
LOCAL INSTANCE TLC

CONSTANTS
  Subs,        \* submissions: one POST each, and the job row it creates
  Payloads,    \* payload identities (content hash and dataset together)
  Workers,     \* drain loops, each in the API process that runs it
  Curators,    \* concurrent publish / reject requests
  NoOne,       \* a row lock nobody holds, a sub nobody works on
  MaxFaults,   \* bound on crashes and database faults in a behaviour
  MaxLandings  \* bound on the recorded promotions of one submission

ASSUME ConstantsOK ==
  /\ NoOne \notin Subs \cup Curators \cup Payloads
  /\ MaxFaults \in Nat
  /\ MaxLandings \in Nat \ {0}

VARIABLES
  post,     \* post[s]: how far the POST that creates s has come
  payload,  \* payload[s]: what was submitted
  dry,      \* dry[s]: the dry_run flag of the job
  older,    \* older[s]: the submissions with an earlier submitted_at
  job,      \* job[s]: the committed status of the job row
  blob,     \* blob[s]: is the bronze blob of s committed?
  claim,    \* claim[s]: claimed_at: "none", "fresh" or "old" (past the timeout)
  silver,   \* silver[s]: the committed staging rows and issue report of s
  landed,   \* landed[s]: committed promotions of s into gold (history)
  lock,     \* lock[s]: the curator whose transaction holds the row of s
  wake,     \* setImmediate callbacks that have not started their drain yet
  worker,   \* worker[w]: program counter, claimed job and parse verdict
  curator,  \* curator[c]: program counter and the job of the request
  faults,   \* crashes and database faults so far
  contested,  \* jobs that got a curator request during another (history)
  overdue     \* jobs the sweep re-queued under a drain's hands (history)

subVars == <<post, payload, dry, older, blob>>
vars == <<post, payload, dry, older, job, blob, claim, silver, landed, lock,
          wake, worker, curator, faults, contested, overdue>>
excuses == <<contested, overdue>>

Status == {"none", "received", "parsing", "staged", "published", "failed",
           "rejected"}

\* What a parse makes of a blob. An accounting-identity error still stages the
\* job (it blocks the publish gate only); a schema error rejects it; a malformed
\* blob, a missing blob or a database error throws.
Verdict == {"clean", "identity", "invalid", "error"}

StageStatus(v) == IF v = "invalid" THEN "rejected" ELSE "staged"

IdleWorker == [pc |-> "off", sub |-> NoOne, verdict |-> "none"]
IdleCurator == [pc |-> "idle", sub |-> NoOne]

WorkerRecord == [pc : {"off", "drain", "parse", "write", "dead"},
                 sub : Subs \cup {NoOne}, verdict : Verdict \cup {"none"}]
CuratorRecord == [pc : {"idle", "checked", "gold", "restage", "markFailed"},
                  sub : Subs \cup {NoOne}]

\* Type invariant of the job table, the actors and the bounds.
TypeOK ==
  /\ post \in [Subs -> {"idle", "checked", "header", "done", "dead"}]
  /\ payload \in [Subs -> Payloads \cup {NoOne}]
  /\ dry \in [Subs -> BOOLEAN]
  /\ older \in [Subs -> SUBSET Subs]
  /\ job \in [Subs -> Status]
  /\ blob \in [Subs -> BOOLEAN]
  /\ claim \in [Subs -> {"none", "fresh", "old"}]
  /\ silver \in [Subs -> {"none", "clean", "identity", "invalid"}]
  /\ landed \in [Subs -> 0..MaxLandings]
  /\ lock \in [Subs -> Curators \cup {NoOne}]
  /\ wake \in Nat
  /\ worker \in [Workers -> WorkerRecord]
  /\ curator \in [Curators -> CuratorRecord]
  /\ faults \in 0..MaxFaults
  /\ contested \in SUBSET Subs
  /\ overdue \in SUBSET Subs

Init ==
  /\ post = [s \in Subs |-> "idle"]
  /\ payload = [s \in Subs |-> NoOne]
  /\ dry = [s \in Subs |-> FALSE]
  /\ older = [s \in Subs |-> {}]
  /\ job = [s \in Subs |-> "none"]
  /\ blob = [s \in Subs |-> FALSE]
  /\ claim = [s \in Subs |-> "none"]
  /\ silver = [s \in Subs |-> "none"]
  /\ landed = [s \in Subs |-> 0]
  /\ lock = [s \in Subs |-> NoOne]
  /\ wake = 0
  /\ worker = [w \in Workers |-> IdleWorker]
  /\ curator = [c \in Curators |-> IdleCurator]
  /\ faults = 0
  /\ contested = {}
  /\ overdue = {}

Fault ==
  /\ faults < MaxFaults
  /\ faults' = faults + 1

-----------------------------------------------------------------------------
(* submit.ts createSubmission: check, header, blob and trigger.            *)

\* The Idempotent Receiver: refuse a payload that is already published. The
\* refused request changes nothing, so only the accepted one is an action.
CheckDuplicate(s, p, d) ==
  /\ post[s] = "idle"
  /\ \A t \in Subs : job[t] = "published" => payload[t] # p
  /\ post' = [post EXCEPT ![s] = "checked"]
  /\ payload' = [payload EXCEPT ![s] = p]
  /\ dry' = [dry EXCEPT ![s] = d]
  /\ UNCHANGED <<older, job, blob, claim, silver, landed, lock, wake, worker,
                 curator, faults, excuses>>

\* First autocommit statement: the header appears as 'received', claimable, and
\* submitted_at orders it after every header that is already there.
InsertHeader(s) ==
  /\ post[s] = "checked"
  /\ post' = [post EXCEPT ![s] = "header"]
  /\ job' = [job EXCEPT ![s] = "received"]
  /\ older' = [older EXCEPT ![s] = {t \in Subs : job[t] # "none"}]
  /\ UNCHANGED <<payload, dry, blob, claim, silver, landed, lock, wake, worker,
                 curator, faults, excuses>>

\* Deviation: the reply is sent and no drain is triggered.
InsertBlobUntriggered(s) ==
  /\ post[s] = "header"
  /\ post' = [post EXCEPT ![s] = "done"]
  /\ blob' = [blob EXCEPT ![s] = TRUE]
  /\ UNCHANGED <<payload, dry, older, job, claim, silver, landed, lock, wake,
                 worker, curator, faults, excuses>>

\* Second autocommit statement, the reply, and the detached drain trigger.
InsertBlob(s) ==
  /\ post[s] = "header"
  /\ post' = [post EXCEPT ![s] = "done"]
  /\ blob' = [blob EXCEPT ![s] = TRUE]
  /\ wake' = wake + 1
  /\ UNCHANGED <<payload, dry, older, job, claim, silver, landed, lock, worker,
                 curator, faults, excuses>>

\* The API process dies, or the database refuses a statement, inside the POST.
AbortPost(s) ==
  /\ post[s] \in {"checked", "header"}
  /\ Fault
  /\ post' = [post EXCEPT ![s] = "dead"]
  /\ UNCHANGED <<payload, dry, older, job, blob, claim, silver, landed, lock,
                 wake, worker, curator, excuses>>
-----------------------------------------------------------------------------
(* worker.ts runIngestionWorker: claim, parse, persist; and index.ts boot.  *)

\* A drain starts for a trigger of createSubmission.
StartDrain(w) ==
  /\ worker[w].pc = "off"
  /\ wake > 0
  /\ wake' = wake - 1
  /\ worker' = [worker EXCEPT ![w].pc = "drain"]
  /\ UNCHANGED <<subVars, job, claim, silver, landed, lock, curator,
                 faults, excuses>>

\* WHERE status = 'received' ... FOR UPDATE SKIP LOCKED.
Claimable(s) == job[s] = "received" /\ lock[s] = NoOne

\* claimNext: the oldest claimable row moves to 'parsing', stamped claimed_at.
\* SKIP LOCKED makes the transaction atomic for every other drain.
Claim(w) ==
  /\ worker[w].pc = "drain"
  /\ \E s \in Subs :
       /\ Claimable(s)
       /\ \A t \in older[s] : ~Claimable(t)
       /\ job' = [job EXCEPT ![s] = "parsing"]
       /\ claim' = [claim EXCEPT ![s] = "fresh"]
       /\ worker' = [worker EXCEPT ![w] =
                       [pc |-> "parse", sub |-> s, verdict |-> "none"]]
  /\ UNCHANGED <<subVars, silver, landed, lock, wake, curator, faults,
                 excuses>>

\* Nothing is claimable: the loop breaks.
EndDrain(w) ==
  /\ worker[w].pc = "drain"
  /\ \A s \in Subs : ~Claimable(s)
  /\ worker' = [worker EXCEPT ![w] = IdleWorker]
  /\ UNCHANGED <<subVars, job, claim, silver, landed, lock, wake, curator,
                 faults, excuses>>

\* The claim transaction fails: claimNext returns null and the loop breaks.
FailClaim(w) ==
  /\ worker[w].pc = "drain"
  /\ Fault
  /\ worker' = [worker EXCEPT ![w] = IdleWorker]
  /\ UNCHANGED <<subVars, job, claim, silver, landed, lock, wake, curator,
                 excuses>>

\* runFilters inside the transaction of processOne: without a committed blob it
\* throws, with one any verdict is possible (it depends on the rows and on gold).
Parse(w) ==
  LET s == worker[w].sub IN
  /\ worker[w].pc = "parse"
  /\ \E v \in Verdict :
       /\ blob[s] \/ v = "error"
       /\ worker' = [worker EXCEPT ![w].pc = "write", ![w].verdict = v]
  /\ UNCHANGED <<subVars, job, claim, silver, landed, lock, wake, curator,
                 faults, excuses>>

\* The terminal UPDATE ... WHERE id = $1 (no status guard), with the staging rows
\* and the issue report in the same transaction; then the loop goes on.
Persist(w) ==
  LET s == worker[w].sub
      v == worker[w].verdict IN
  /\ worker[w].pc = "write"
  /\ v # "error"
  /\ lock[s] = NoOne
  /\ job' = [job EXCEPT ![s] = StageStatus(v)]
  /\ silver' = [silver EXCEPT ![s] = v]
  /\ claim' = [claim EXCEPT ![s] = "none"]
  /\ worker' = [worker EXCEPT ![w] = [IdleWorker EXCEPT !.pc = "drain"]]
  /\ UNCHANGED <<subVars, landed, lock, wake, curator, faults, excuses>>

\* The catch branch: rollback, then 'failed' in a statement of its own.
MarkFailed(w) ==
  LET s == worker[w].sub IN
  /\ worker[w].pc = "write"
  /\ worker[w].verdict = "error"
  /\ lock[s] = NoOne
  /\ job' = [job EXCEPT ![s] = "failed"]
  /\ claim' = [claim EXCEPT ![s] = "none"]
  /\ worker' = [worker EXCEPT ![w] = [IdleWorker EXCEPT !.pc = "drain"]]
  /\ UNCHANGED <<subVars, silver, landed, lock, wake, curator, faults,
                 excuses>>

\* .catch(() => {}) on the 'failed' UPDATE: the loop goes on, the row does not.
LoseFailure(w) ==
  /\ worker[w].pc = "write"
  /\ worker[w].verdict = "error"
  /\ Fault
  /\ worker' = [worker EXCEPT ![w] = [IdleWorker EXCEPT !.pc = "drain"]]
  /\ UNCHANGED <<subVars, job, claim, silver, landed, lock, wake, curator,
                 excuses>>

\* The process of the drain dies; triggers queued in it are lost with it.
CrashWorker(w) ==
  /\ worker[w].pc # "dead"
  /\ Fault
  /\ wake' \in 0..wake
  /\ worker' = [worker EXCEPT ![w].pc = "dead"]
  /\ UNCHANGED <<subVars, job, claim, silver, landed, lock, curator, excuses>>

\* Somebody is at work on the claim of s.
Live(w, s) == worker[w].pc \in {"parse", "write"} /\ worker[w].sub = s

\* Time: claimed_at falls behind now() - staleAfter, also under a slow parse.
Age(s) ==
  /\ claim[s] = "fresh"
  /\ claim' = [claim EXCEPT ![s] = "old"]
  /\ UNCHANGED <<subVars, job, silver, landed, lock, wake, worker, curator,
                 faults, excuses>>

\* Deviation: the sweep takes every 'parsing' row, whatever its age.
StrandedAtAnyAge(s) == job[s] = "parsing"

\* Is s re-queued by the sweep of reclaimStrandedSubmissions?
Stranded(s) == job[s] = "parsing" /\ claim[s] = "old"

\* reclaim.ts demands a timeout longer than the longest healthy parse: the jobs
\* for which it is not, a live drain having held them past the timeout.
Outlived == {s \in Subs : claim[s] = "old" /\ \E w \in Workers : Live(w, s)}

\* index.ts: the process restarts, sweeps once, and starts its boot drain.
Boot(w) ==
  /\ worker[w].pc = "dead"
  /\ \A s \in Subs : Stranded(s) => lock[s] = NoOne
  /\ job' = [s \in Subs |-> IF Stranded(s) THEN "received" ELSE job[s]]
  /\ claim' = [s \in Subs |-> IF Stranded(s) THEN "none" ELSE claim[s]]
  /\ worker' = [worker EXCEPT ![w] = [IdleWorker EXCEPT !.pc = "drain"]]
  /\ overdue' = overdue \cup Outlived
  /\ UNCHANGED <<subVars, silver, landed, lock, wake, curator, faults,
                 contested>>

-----------------------------------------------------------------------------
(* publish.ts publishSubmission and the publish / reject routes.           *)

\* Another request has read s as staged and has not finished with it: nothing
\* orders the two requests, since no transaction looks at the status again.
InHand(s) == \E c \in Curators : curator[c].pc # "idle" /\ curator[c].sub = s
Contest(s) == IF InHand(s) THEN contested \cup {s} ELSE contested

\* Deviation: publish without the issue gate.
CheckStatusOnly(c, s) ==
  /\ curator[c].pc = "idle"
  /\ job[s] = "staged"
  /\ curator' = [curator EXCEPT ![c] = [pc |-> "checked", sub |-> s]]
  /\ contested' = Contest(s)
  /\ UNCHANGED <<subVars, job, claim, silver, landed, lock, wake, worker,
                 faults, overdue>>

\* Deviation: publish without the status check.
CheckIssuesOnly(c, s) ==
  /\ curator[c].pc = "idle"
  /\ silver[s] = "clean"
  /\ curator' = [curator EXCEPT ![c] = [pc |-> "checked", sub |-> s]]
  /\ contested' = Contest(s)
  /\ UNCHANGED <<subVars, job, claim, silver, landed, lock, wake, worker,
                 faults, overdue>>

\* The reads in front of the publish transaction: status 'staged' and no
\* error-severity issue. No lock is held when they return.
CheckStaged(c, s) ==
  /\ curator[c].pc = "idle"
  /\ job[s] = "staged"
  /\ silver[s] = "clean"
  /\ curator' = [curator EXCEPT ![c] = [pc |-> "checked", sub |-> s]]
  /\ contested' = Contest(s)
  /\ UNCHANGED <<subVars, job, claim, silver, landed, lock, wake, worker,
                 faults, overdue>>

\* BEGIN; UPDATE ... SET status = 'publishing' WHERE id = $1: takes the row lock,
\* waits for its holder, and looks at nothing but the id. 'publishing' is never
\* committed, so the committed status stays what it is.
BeginPublish(c) ==
  LET s == curator[c].sub IN
  /\ curator[c].pc = "checked"
  /\ lock[s] = NoOne
  /\ lock' = [lock EXCEPT ![s] = c]
  /\ curator' = [curator EXCEPT ![c].pc = "gold"]
  /\ UNCHANGED <<subVars, job, claim, silver, landed, wake, worker, faults,
                 excuses>>

\* Deviation: the dry-run branch is missing.
CommitAlways(c) ==
  LET s == curator[c].sub IN
  /\ curator[c].pc = "gold"
  /\ job' = [job EXCEPT ![s] = "published"]
  /\ landed' = [landed EXCEPT ![s] = IF @ < MaxLandings THEN @ + 1 ELSE @]
  /\ lock' = [lock EXCEPT ![s] = NoOne]
  /\ curator' = [curator EXCEPT ![c] = IdleCurator]
  /\ UNCHANGED <<subVars, claim, silver, wake, worker, faults, excuses>>

\* Gold writes, status 'published' and COMMIT.
CommitPublish(c) ==
  LET s == curator[c].sub IN
  /\ curator[c].pc = "gold"
  /\ ~dry[s]
  /\ job' = [job EXCEPT ![s] = "published"]
  /\ landed' = [landed EXCEPT ![s] = IF @ < MaxLandings THEN @ + 1 ELSE @]
  /\ lock' = [lock EXCEPT ![s] = NoOne]
  /\ curator' = [curator EXCEPT ![c] = IdleCurator]
  /\ UNCHANGED <<subVars, claim, silver, wake, worker, faults, excuses>>

\* A dry run: everything is rolled back ...
RollbackDryRun(c) ==
  LET s == curator[c].sub IN
  /\ curator[c].pc = "gold"
  /\ dry[s]
  /\ lock' = [lock EXCEPT ![s] = NoOne]
  /\ curator' = [curator EXCEPT ![c].pc = "restage"]
  /\ UNCHANGED <<subVars, job, claim, silver, landed, wake, worker, faults,
                 excuses>>

\* ... and the status is set in an autocommit statement, by id alone.
Restage(c) ==
  LET s == curator[c].sub IN
  /\ curator[c].pc = "restage"
  /\ lock[s] = NoOne
  /\ job' = [job EXCEPT ![s] = "staged"]
  /\ curator' = [curator EXCEPT ![c] = IdleCurator]
  /\ UNCHANGED <<subVars, claim, silver, landed, lock, wake, worker, faults,
                 excuses>>

\* Any throw inside the transaction (an unresolved member, a constraint, a lost
\* connection) or in the dry-run reset: ROLLBACK ...
FailPublish(c) ==
  LET s == curator[c].sub IN
  /\ curator[c].pc \in {"gold", "restage"}
  /\ lock' = [lock EXCEPT ![s] = IF @ = c THEN NoOne ELSE @]
  /\ curator' = [curator EXCEPT ![c].pc = "markFailed"]
  /\ UNCHANGED <<subVars, job, claim, silver, landed, wake, worker, faults,
                 excuses>>

\* ... and 'failed' in a committed statement of its own, again by id alone.
MarkPublishFailed(c) ==
  LET s == curator[c].sub IN
  /\ curator[c].pc = "markFailed"
  /\ lock[s] = NoOne
  /\ job' = [job EXCEPT ![s] = "failed"]
  /\ curator' = [curator EXCEPT ![c] = IdleCurator]
  /\ UNCHANGED <<subVars, claim, silver, landed, lock, wake, worker, faults,
                 excuses>>

\* The process of the request dies; its transaction, if any, rolls back.
CrashCurator(c) ==
  LET s == curator[c].sub IN
  /\ curator[c].pc # "idle"
  /\ Fault
  /\ lock' = [lock EXCEPT ![s] = IF @ = c THEN NoOne ELSE @]
  /\ curator' = [curator EXCEPT ![c] = IdleCurator]
  /\ UNCHANGED <<subVars, job, claim, silver, landed, wake, worker, excuses>>

\* Deviation: a reject that does not look at the status.
RejectAnyStatus(c, s) ==
  /\ curator[c].pc = "idle"
  /\ job[s] # "none"
  /\ lock[s] = NoOne
  /\ job' = [job EXCEPT ![s] = "rejected"]
  /\ contested' = Contest(s)
  /\ UNCHANGED <<subVars, claim, silver, landed, lock, wake, worker, curator,
                 faults, overdue>>

\* UPDATE ... SET status = 'rejected' WHERE id = $1 AND status = 'staged'.
Reject(c, s) ==
  /\ curator[c].pc = "idle"
  /\ job[s] = "staged"
  /\ lock[s] = NoOne
  /\ job' = [job EXCEPT ![s] = "rejected"]
  /\ contested' = Contest(s)
  /\ UNCHANGED <<subVars, claim, silver, landed, lock, wake, worker, curator,
                 faults, overdue>>

-----------------------------------------------------------------------------

PostStep(s) ==
  \/ \E p \in Payloads, d \in BOOLEAN : CheckDuplicate(s, p, d)
  \/ InsertHeader(s)
  \/ InsertBlob(s)
  \/ AbortPost(s)

WorkerStep(w) ==
  \/ StartDrain(w) \/ Claim(w) \/ EndDrain(w) \/ FailClaim(w)
  \/ Parse(w) \/ Persist(w) \/ MarkFailed(w) \/ LoseFailure(w)
  \/ CrashWorker(w) \/ Boot(w)

CuratorStep(c) ==
  \/ \E s \in Subs : CheckStaged(c, s) \/ Reject(c, s)
  \/ BeginPublish(c) \/ CommitPublish(c) \/ RollbackDryRun(c) \/ Restage(c)
  \/ FailPublish(c) \/ MarkPublishFailed(c) \/ CrashCurator(c)

Next ==
  \/ \E s \in Subs : PostStep(s) \/ Age(s)
  \/ \E w \in Workers : WorkerStep(w)
  \/ \E c \in Curators : CuratorStep(c)

Spec == Init /\ [][Next]_vars

\* A started drain goes on, a queued setImmediate runs, a dead process is
\* restarted by its supervisor, and time passes. Nobody is bound to submit,
\* publish or reject.
Fairness ==
  /\ \A w \in Workers :
       /\ WF_vars(StartDrain(w)) /\ WF_vars(Claim(w)) /\ WF_vars(EndDrain(w))
       /\ WF_vars(Parse(w)) /\ WF_vars(Persist(w)) /\ WF_vars(MarkFailed(w))
       /\ WF_vars(Boot(w))
  /\ \A s \in Subs : WF_vars(Age(s))

FairSpec == Spec /\ Fairness
-----------------------------------------------------------------------------
(* Properties.                                                             *)

\* The terminal UPDATE of a drain names only the job's id, so it is right only if
\* the job still is the drain's own: whoever is at work on a claim finds its job
\* in 'parsing', and nobody else is at work on it - unless its parse outlived the
\* timeout and a sweep handed the job out again (worker.ts, reclaim.ts).
ClaimIsExclusive ==
  \A w \in Workers, s \in Subs \ overdue :
    Live(w, s) => /\ job[s] = "parsing"
                  /\ \A v \in Workers : Live(v, s) => v = w

\* The curator gate survives the gap between the reads and the transaction: what
\* is in gold, and what a publish transaction is promoting, comes from a committed
\* blob, and its committed report has no error-severity issue unless a second
\* parse of an overdue job replaced the report (publish.ts, worker.ts).
GoldIsGated ==
  \A s \in Subs :
    \/ landed[s] > 0
    \/ \E c \in Curators : curator[c].pc = "gold" /\ curator[c].sub = s
    => blob[s] /\ (silver[s] = "clean" \/ s \in overdue)

\* V11: "a dry run can never reach status=published" - nor gold, whatever the
\* requests on it interleave to.
DryRunNeverLands ==
  \A s \in Subs : dry[s] => landed[s] = 0 /\ job[s] # "published"

\* The jobs whose status two actors wrote without looking at it: two curators at
\* once, or two drains after an early sweep.
Disputed == contested \cup overdue

\* The status machine of V11, of which the pipeline is to be an implementation.
Lifecycle == INSTANCE SubmissionLifecycle WITH
  status <- [s \in Subs |-> IF s \in Disputed THEN "disputed" ELSE job[s]],
  gold <- {s \in Subs : landed[s] > 0},
  dryRun <- dry

\* V11: received -> parsing -> staged -> published, failed / rejected terminal,
\* gold written by the publishing step only. A job falls out of the machine at the
\* step that brings a second actor to it, never later and never without one, and
\* even then its facts stay in gold once there and never come from a dry run.
ImplementsLifecycle == Lifecycle!LSpec

\* A published job is in gold, and unless it is disputed it is there once and a job
\* in gold is published: no failed, rejected or staged job has facts in gold
\* (publish.ts status transitions).
PublishedIffLanded ==
  \A s \in Subs :
    /\ job[s] = "published" => landed[s] > 0
    /\ s \notin Disputed => landed[s] = IF job[s] = "published" THEN 1 ELSE 0

\* submit.ts: "the job is durably 'received'" when the POST returns, and a drain
\* takes it from there: as long as nothing fails, no accepted job stays received or
\* parsing for ever.
AcceptedJobSettles ==
  \A s \in Subs :
    post[s] = "done" ~> job[s] \notin {"received", "parsing"} \/ faults > 0

-----------------------------------------------------------------------------
(* A statement of the comments that the code does not keep.                *)

\* routes/ingest: reject is the curator's terminal "no".
RejectionIsTerminal ==
  [][\A s \in Subs : job[s] = "rejected" => job'[s] = "rejected"]_job

-----------------------------------------------------------------------------
\* For TLC: drains are interchangeable, and so are curators.
ActorSymmetry == Permutations(Workers) \cup Permutations(Curators)
=============================================================================
