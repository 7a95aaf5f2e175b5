-------------------------- MODULE CanonicalUpload ---------------------------
(***************************************************************************)
(* The canonical workbook upload (apps/api/src/routes/ingest/canonical.ts, *)
(* canonical-fsm-drive.ts, ingest/version-mint.ts): behind the bulkhead a  *)
(* request checks the structure its workbook declares, drives codelists    *)
(* and displays to gold, widens the structure of the dataset if a version  *)
(* is declared, and leaves the facts staged for a curator.                 *)
(*                                                                         *)
(* One dataset.  A job is claimed, parsed and settled in one step here,    *)
(* and published in one step; IngestPipeline and Codelist have their       *)
(* insides.  Label, ord and the version counter are left out.              *)
(***************************************************************************)
EXTENDS Bulkhead

CONSTANTS
  Books,       \* workbooks
  Sends,       \* the workbook of each request
  Book,        \* what they say
  Dims, Codes, Labels,
  Axis,        \* the dimension of a code
  Structure,   \* dataset_dimension before the first upload
  Axes,        \* stats.dimension before the first upload
  None,
  MaxFaults    \* crashes, failed statements and drives that time out

Answers == {202, 400, 409}

\* labels: the codelist; displays: members with an overlay; used: members the
\* observations are about, at least one, which the workbook lists itself.
BookOf ==
  [labels : [Codes -> Labels \cup {None}], displays : SUBSET Codes, used : SUBSET Codes,
   dims : SUBSET Dims, versioned : BOOLEAN]

Listed(b) == {c \in Codes : Book[b].labels[c] # None}

ASSUME UploadOK ==
  /\ Sends \in [Tasks -> Books] /\ Book \in [Books -> BookOf] /\ Axis \in [Codes -> Dims]
  /\ \A b \in Books :
       /\ Book[b].displays \cup Book[b].used \subseteq Listed(b)
       /\ Book[b].used # {}
  /\ Structure \subseteq Axes /\ Axes \subseteq Dims
  /\ None \notin Answers
  /\ MaxFaults \in Nat

VARIABLES
  req,      \* each request and its client, who posts again until it is answered
  jobs,     \* stats_stage.submission, in the order of submission
  members,  \* stats.classifier: the current label of each code
  dsd,      \* stats.dataset_dimension
  axes,     \* stats.dimension
  faults

state == <<jobs, members, dsd, axes>>
vars == <<bvars, req, jobs, members, dsd, axes, faults>>

Kinds == {"codelists", "displays", "facts"}
Reference == {"codelists", "displays"}

Statuses == {"received", "staged", "rejected", "published", "failed"}

Job == [kind : Kinds, book : Books, status : Statuses]

AtWork == {"submit", "drive", "publish", "mint"}

\* step: "idle", no request is under way; "posted", it is in the bulkhead; then the
\* statements of the handler. kind: what is submitted, job: the job that is driven;
\* widens: isVersionedDsdChange.
Request ==
  [book : Books, step : {"idle", "posted", "done"} \cup AtWork,
   kind : Kinds, job : Nat, widens : BOOLEAN, answer : Answers \cup {None}]

TypeOK ==
  /\ BTypeOK
  /\ req \in [Tasks -> Request]
  /\ jobs \in Seq(Job)
  /\ members \in [Codes -> Labels \cup {None}]
  /\ dsd \subseteq axes /\ axes \subseteq Dims
  /\ faults \in 0..MaxFaults

Idle(b) ==
  [book |-> b, step |-> "idle", kind |-> "codelists", job |-> 0, widens |-> FALSE,
   answer |-> None]

Init ==
  /\ BInit
  /\ req = [t \in Tasks |-> Idle(Sends[t])]
  /\ jobs = <<>>
  /\ members = [c \in Codes |-> None]
  /\ dsd = Structure /\ axes = Axes
  /\ faults = 0

-----------------------------------------------------------------------------
\* The request.

Post(t) ==
  /\ req[t].step = "idle"
  /\ Acquire(t)
  /\ req' = [req EXCEPT ![t].step = "posted"]
  /\ UNCHANGED <<state, faults>>

Go(t, step, kind) == req' = [req EXCEPT ![t] = [@ EXCEPT !.step = step, !.kind = kind]]

Answer(t, a) ==
  /\ req' = [req EXCEPT ![t] = [@ EXCEPT !.step = "done", !.answer = a]]
  /\ Release(t)

\* precheckContractCompat(): a structure that differs needs a version.
Check(t) ==
  LET b == Book[req[t].book] IN
  /\ req[t].step = "posted" /\ t \in running
  /\ \/ /\ b.dims # dsd /\ ~b.versioned
        /\ Answer(t, 400)
     \/ /\ b.dims = dsd \/ b.versioned
        /\ req' = [req EXCEPT ![t] = [@ EXCEPT !.step = "submit", !.kind = "codelists",
                                             !.widens = b.dims # dsd]]
        /\ UNCHANGED bvars
  /\ UNCHANGED <<state, faults>>

\* After the reference data the version is minted, then the facts are submitted.
Advance(t) ==
  IF req[t].kind = "codelists" /\ Book[req[t].book].displays # {}
  THEN Go(t, "submit", "displays")
  ELSE Go(t, IF req[t].widens THEN "mint" ELSE "submit", "facts")

Payload(kind, b) ==
  CASE kind = "codelists" -> Book[b].labels
    [] kind = "displays" -> Book[b].displays
    [] kind = "facts" -> <<Book[b].used, Book[b].dims>>

\* The Idempotent Receiver of createSubmission().
AlreadyPublished(kind, b) ==
  \E i \in DOMAIN jobs :
    /\ jobs[i].kind = kind /\ jobs[i].status = "published"
    /\ Payload(kind, jobs[i].book) = Payload(kind, b)

CreateSubmission(t) ==
  /\ jobs' = Append(jobs, [kind |-> req[t].kind, book |-> req[t].book,
                           status |-> "received"])
  /\ req' = [req EXCEPT ![t] = [@ EXCEPT !.step = "drive", !.job = Len(jobs) + 1]]
  /\ UNCHANGED bvars

\* Deviation: a reference payload that is published already is answered 409.
SubmitRefusing(t) ==
  LET r == req[t] IN
  /\ r.step = "submit"
  /\ \/ ~AlreadyPublished(r.kind, r.book) /\ CreateSubmission(t)
     \/ AlreadyPublished(r.kind, r.book) /\ Answer(t, 409) /\ UNCHANGED jobs
  /\ UNCHANGED <<members, dsd, axes, faults>>

\* submitToGold() goes on when its payload is published already; facts are refused.
Submit(t) ==
  LET r == req[t] IN
  /\ r.step = "submit"
  /\ \/ ~AlreadyPublished(r.kind, r.book) /\ CreateSubmission(t)
     \/ /\ AlreadyPublished(r.kind, r.book) /\ r.kind \in Reference
        /\ Advance(t)
        /\ UNCHANGED <<jobs, bvars>>
     \/ /\ AlreadyPublished(r.kind, r.book) /\ r.kind = "facts"
        /\ Answer(t, 409)
        /\ UNCHANGED jobs
  /\ UNCHANGED <<members, dsd, axes, faults>>

\* Deviation: reference data is left staged, as one batch with the facts.
DriveStagedOnly(t) ==
  LET r == req[t] IN
  /\ r.step = "drive"
  /\ \/ jobs[r.job].status \in {"rejected", "failed"} /\ Answer(t, 400)
     \/ /\ jobs[r.job].status \in {"staged", "published"}
        /\ \/ r.kind = "facts" /\ Answer(t, 202)
           \/ r.kind \in Reference /\ Advance(t) /\ UNCHANGED bvars
  /\ UNCHANGED <<state, faults>>

\* driveToStaged(): what a poll of the job's status finds.
Drive(t) ==
  LET r == req[t] IN
  /\ r.step = "drive"
  /\ \/ jobs[r.job].status \in {"rejected", "failed"} /\ Answer(t, 400)
     \/ /\ jobs[r.job].status \in {"staged", "published"}
        /\ \/ r.kind = "facts" /\ Answer(t, 202)
           \/ r.kind \in Reference /\ Go(t, "publish", r.kind) /\ UNCHANGED bvars
  /\ UNCHANGED <<state, faults>>

\* mintDatasetVersion(): one transaction, and nothing is ever taken away.
Mint(t) ==
  /\ req[t].step = "mint"
  /\ axes' = axes \cup Book[req[t].book].dims
  /\ dsd' = dsd \cup Book[req[t].book].dims
  /\ Go(t, "submit", "facts")
  /\ UNCHANGED <<bvars, jobs, members, faults>>

-----------------------------------------------------------------------------
\* The jobs.

Current == {c \in Codes : members[c] # None}

\* validateClassifiers(), validateDisplays(), validateObs().
Valid(j) ==
  CASE j.kind = "codelists" -> {Axis[c] : c \in Listed(j.book)} \subseteq axes
    [] j.kind = "displays" -> Book[j.book].displays \subseteq Current
    [] j.kind = "facts" -> Book[j.book].dims = dsd /\ Book[j.book].used \subseteq Current

SetStatus(i, s) == jobs' = [jobs EXCEPT ![i].status = s]

\* runIngestionWorker(), started by the route and by each drive.
Drain(i) ==
  /\ jobs[i].status = "received"
  /\ SetStatus(i, IF Valid(jobs[i]) THEN "staged" ELSE "rejected")
  /\ UNCHANGED <<bvars, req, members, dsd, axes, faults>>

\* publishSubmission(), and the trigger on the cube. Codelists replace the labels they list.
PublishJob(i) ==
  /\ jobs[i].status = "staged"
  /\ SetStatus(i, IF jobs[i].kind = "codelists" \/ Valid(jobs[i])
                  THEN "published" ELSE "failed")
  /\ members' = IF jobs[i].kind # "codelists" THEN members
                ELSE [c \in Codes |-> IF c \in Listed(jobs[i].book)
                                      THEN Book[jobs[i].book].labels[c] ELSE members[c]]

\* submitToGold() publishes; a job somebody else has published is not published again.
Publish(t) ==
  LET r == req[t] IN
  /\ r.step = "publish"
  /\ \/ PublishJob(r.job)
     \/ jobs[r.job].status = "published" /\ UNCHANGED <<jobs, members>>
  /\ Advance(t)
  /\ UNCHANGED <<bvars, dsd, axes, faults>>

\* A curator publishes a staged job.
Approve(i) ==
  /\ PublishJob(i)
  /\ UNCHANGED <<bvars, req, dsd, axes, faults>>

-----------------------------------------------------------------------------
\* Faults. The client does not know how far its request came, and posts again.

Fault == faults < MaxFaults /\ faults' = faults + 1

Lost(r) == [Idle(r.book) EXCEPT !.step = IF r.step = "done" THEN "done" ELSE "idle",
                                !.answer = r.answer]

\* A statement fails, or a drive times out with 504: its job goes on. A publish that
\* fails marks its job.
Break(t) ==
  /\ Fault
  /\ req[t].step \notin {"idle", "done"} /\ t \in running
  /\ req' = [req EXCEPT ![t] = Lost(req[t])]
  /\ Release(t)
  /\ jobs' = IF req[t].step = "publish" /\ jobs[req[t].job].status = "staged"
             THEN [jobs EXCEPT ![req[t].job].status = "failed"] ELSE jobs
  /\ UNCHANGED <<members, dsd, axes>>

\* The worker's transaction fails.
DrainFails(i) ==
  /\ Fault
  /\ jobs[i].status = "received"
  /\ SetStatus(i, "failed")
  /\ UNCHANGED <<bvars, req, members, dsd, axes>>

Crash ==
  /\ Fault
  /\ req' = [t \in Tasks |-> Lost(req[t])]
  /\ Restart
  /\ UNCHANGED state

Step(t) == Check(t) \/ Submit(t) \/ Drive(t) \/ Publish(t) \/ Mint(t)

Next ==
  \/ \E t \in Tasks : Post(t) \/ Step(t) \/ Break(t)
  \/ \E i \in DOMAIN jobs : Drain(i) \/ DrainFails(i) \/ Approve(i)
  \/ Crash

Spec == Init /\ [][Next]_vars

\* Clients post until they are answered; the handler and the worker go on. Nobody is
\* bound to approve.
Fairness ==
  /\ \A t \in Tasks : WF_vars(Post(t) \/ Step(t))
  /\ WF_vars(\E i \in DOMAIN jobs : Drain(i))

FairSpec == Spec /\ Fairness
-----------------------------------------------------------------------------

\* bulkhead.ts: "a semaphore with a bounded FIFO waiter queue". Over all interleavings
\* of uploads, failures and restarts it is the admission gate, and what comes when the
\* queue is full is shed.
Gate == INSTANCE AdmissionGate WITH
  queue <- waiters, inside <- running, Slots <- maxConcurrent

ImplementsGate == Gate!GSpecR /\ [](Len(waiters) <= maxQueue)

\* canonical.ts, "the fix for the e2e ordering bug": facts are never rejected for a
\* member their own workbook lists, whatever else is uploaded meanwhile and however
\* often the upload broke off before; only for a structure that is not the dataset's.
FactsFindTheirMembers ==
  \A i \in DOMAIN jobs :
    jobs[i].kind = "facts" /\ jobs[i].status = "rejected" => Book[jobs[i].book].dims # dsd

\* canonical-fsm-drive.ts, "partial-failure -> retry -> converge": an upload that is not
\* refused for its content leaves its facts staged, however far an earlier try had come.
AnsweredFactsAreThere ==
  \A t \in Tasks : req[t].answer \in {202, 409} =>
    \E i \in DOMAIN jobs :
      /\ jobs[i].kind = "facts" /\ jobs[i].status \in {"staged", "published", "failed"}
      /\ Payload("facts", jobs[i].book) = Payload("facts", req[t].book)

\* canonical-fsm-drive.ts:100-102, of a payload that is published already: "those exact
\* members are already in gold ... the post-condition ... is ALREADY satisfied".
\* Violated when the labels went from A to B and come back to A: see the README.
ConvergedIsInGold ==
  [][\A t \in Tasks :
       /\ req[t].step = "submit" /\ req[t].kind = "codelists"
       /\ req'[t].kind # "codelists"
       => \A c \in Listed(req[t].book) : members[c] = Book[req[t].book].labels[c]]_vars

\* version-mint.ts:25: "stats.dimension - the axis registry (V4/V7); a new dim is a ROW,
\* never a schema change". Violated when the axis is new to the database: its codelist is
\* validated before the mint that would register it, see the README.
NewAxisIsMinted ==
  \A t \in Tasks : Book[req[t].book].versioned => req[t].answer # 400

\* bulkhead.ts, "the caller never blocks unboundedly": every upload is answered in the
\* end, after shedding, failures and a restart.
EveryUploadIsAnswered == \A t \in Tasks : <>(req[t].step = "done")
=============================================================================
