----------------------- MODULE CanonicalUploadProofs ------------------------
(***************************************************************************)
(* Proofs about CanonicalUpload: types, the bulkhead implements the        *)
(* admission gate, facts find their members, and an answered upload has    *)
(* left its facts.                                                         *)
(***************************************************************************)
EXTENDS CanonicalUpload, FiniteSetTheorems, TLAPS

-----------------------------------------------------------------------------
\* The bulkhead.

\* The counter counts, nobody waits while a slot is free, and nobody is in twice.
BOK ==
  /\ BTypeOK
  /\ IsFiniteSet(running) /\ active = Cardinality(running)
  /\ active < maxConcurrent => waiters = <<>>
  /\ \A i \in DOMAIN waiters : waiters[i] \notin running
  /\ \A i, j \in DOMAIN waiters : waiters[i] = waiters[j] => i = j

Holding(t) == t \in running \/ \E i \in DOMAIN waiters : waiters[i] = t

\* The gate's module has its own instance of Cardinality: it is the same one.
LEMMA SameCardinality ==
  ASSUME NEW S
  PROVE  Gate!Cardinality(S) = Cardinality(S)
BY DEF Gate!Cardinality, Cardinality

\* Taking a slot, or waiting for one, is a step of the gate.
LEMMA AcquireIsGateStep ==
  ASSUME BOK, NEW t \in Tasks, ~Holding(t), Acquire(t)
  PROVE  /\ BOK'
         /\ Gate!GNext
         /\ running \subseteq running'
         /\ \A u \in Tasks : Holding(u)' => Holding(u) \/ u = t
<1>1. CASE AcquireSlot(t)
  <2>1. waiters = <<>> /\ waiters' = <<>> /\ running' = running \cup {t}
    BY <1>1 DEF AcquireSlot, BOK
  <2>2. /\ IsFiniteSet(running')
        /\ Cardinality(running') = Cardinality(running) + 1
    BY <2>1, FS_AddElement DEF BOK, Holding
  <2>3. BOK'
    BY <1>1, <2>1, <2>2, SlotsOK DEF BOK, BTypeOK, AcquireSlot
  <2>4. Gate!Enter(t)
    <3>1. Gate!Cardinality(running) = active
      BY SameCardinality DEF BOK
    <3>q. QED
      BY <1>1, <2>1, <3>1 DEF Gate!Enter, Gate!Outside, AcquireSlot, Holding
  <2>q. QED
    BY <2>1, <2>3, <2>4 DEF Gate!GNext, Holding
<1>2. CASE AcquireWait(t)
  <2>1. /\ waiters' = Append(waiters, t)
        /\ waiters \in Seq(Tasks) /\ Len(waiters) \in Nat
        /\ running' = running /\ active' = active
    BY <1>2 DEF AcquireWait, BOK, BTypeOK
  <2>2. /\ waiters' \in Seq(Tasks)
        /\ Len(waiters') = Len(waiters) + 1
        /\ DOMAIN waiters' = 1..(Len(waiters) + 1)
        /\ DOMAIN waiters = 1..Len(waiters)
        /\ \A i \in 1..Len(waiters) : waiters'[i] = waiters[i]
        /\ waiters'[Len(waiters) + 1] = t
    BY <2>1
  <2>3. BOK'
    BY <1>2, <2>1, <2>2, SlotsOK DEF BOK, BTypeOK, AcquireWait, Holding
  <2>4. Gate!Wait(t)
    <3>1. Gate!Cardinality(running) = active
      BY SameCardinality DEF BOK
    <3>q. QED
      BY <1>2, <3>1 DEF Gate!Wait, Gate!Outside, AcquireWait, Holding
  <2>q. QED
    BY <2>1, <2>2, <2>3, <2>4 DEF Gate!GNext, Holding
<1>q. QED
  BY <1>1, <1>2 DEF Acquire

\* So is a release, which hands the slot to the first waiter.
LEMMA ReleaseIsGateStep ==
  ASSUME BOK, NEW t \in running, Release(t)
  PROVE  /\ BOK'
         /\ Gate!GNext
         /\ running \ {t} \subseteq running'
         /\ \A u \in Tasks : Holding(u)' => Holding(u) /\ u # t
<1>t. t \in Tasks
  BY DEF BOK, BTypeOK
<1>1. CASE waiters = <<>>
  <2>1. waiters' = <<>> /\ running' = running \ {t} /\ active' = active - 1
    BY <1>1 DEF Release
  <2>2. /\ IsFiniteSet(running')
        /\ Cardinality(running') = Cardinality(running) - 1
        /\ Cardinality(running') \in Nat
    BY <2>1, FS_RemoveElement, FS_CardinalityType DEF BOK
  <2>3. BOK'
    BY <2>1, <2>2, SlotsOK DEF BOK, BTypeOK
  <2>4. Gate!Leave(t)
    BY <1>1, <2>1 DEF Gate!Leave
  <2>q. QED
    BY <1>t, <2>1, <2>3, <2>4 DEF Gate!GNext, Holding
<1>2. CASE waiters # <<>>
  <2>1. PICK h \in Tasks : h = Head(waiters) /\ h = waiters[1] /\ h \notin running
    BY <1>2 DEF BOK, BTypeOK
  <2>2. /\ running' = (running \ {t}) \cup {h}
        /\ waiters' = Tail(waiters)
        /\ active' = active
    BY <1>2, <2>1 DEF Release
  <2>3. IsFiniteSet(running') /\ Cardinality(running') = Cardinality(running)
    <3>1. /\ IsFiniteSet(running \ {t})
          /\ Cardinality(running \ {t}) = Cardinality(running) - 1
          /\ Cardinality(running) \in Nat
      BY FS_RemoveElement, FS_CardinalityType DEF BOK
    <3>2. h \notin running \ {t}
      BY <2>1
    <3>3. /\ IsFiniteSet((running \ {t}) \cup {h})
          /\ Cardinality((running \ {t}) \cup {h}) = Cardinality(running \ {t}) + 1
      BY <3>1, <3>2, FS_AddElement
    <3>q. QED
      BY <2>2, <3>1, <3>3
  <2>4. /\ waiters \in Seq(Tasks) /\ waiters' \in Seq(Tasks)
        /\ Len(waiters) \in Nat \ {0} /\ Len(waiters') = Len(waiters) - 1
        /\ DOMAIN waiters = 1..Len(waiters)
        /\ DOMAIN waiters' = 1..(Len(waiters) - 1)
        /\ \A i \in 1..(Len(waiters) - 1) : waiters'[i] = waiters[i + 1]
    BY <1>2, <2>2 DEF BOK, BTypeOK
  <2>5. BOK'
    <3>1. BTypeOK'
      BY <2>1, <2>2, <2>4, SlotsOK DEF BOK, BTypeOK
    <3>2. \A i \in DOMAIN waiters' : waiters'[i] \notin running'
      BY <2>1, <2>2, <2>4 DEF BOK
    <3>3. \A i, j \in DOMAIN waiters' : waiters'[i] = waiters'[j] => i = j
      BY <2>4 DEF BOK
    <3>4. ~(active' < maxConcurrent)
      BY <1>2, <2>2 DEF BOK
    <3>q. QED
      BY <2>2, <2>3, <3>1, <3>2, <3>3, <3>4 DEF BOK
  <2>6. Gate!Leave(t)
    BY <1>2, <2>1, <2>2 DEF Gate!Leave
  <2>7. ASSUME NEW u \in Tasks, Holding(u)' PROVE Holding(u) /\ u # t
    <3>1. CASE u \in running'
      BY <2>1, <2>2, <2>4, <3>1 DEF Holding
    <3>2. CASE u \notin running'
      <4>1. PICK i \in DOMAIN waiters' : waiters'[i] = u
        BY <2>7, <3>2 DEF Holding
      <4>2. i + 1 \in DOMAIN waiters /\ waiters[i + 1] = u
        BY <2>4, <4>1
      <4>q. QED
        BY <4>2 DEF Holding, BOK
    <3>q. QED
      BY <3>1, <3>2
  <2>q. QED
    BY <1>t, <2>2, <2>5, <2>6, <2>7 DEF Gate!GNext
<1>q. QED
  BY <1>1, <1>2

-----------------------------------------------------------------------------
\* The inductive invariant.

\* Who holds a slot or waits for one has a request under way.
Holders ==
  \A t \in Tasks :
    /\ Holding(t) => req[t].step \notin {"idle", "done"}
    /\ req[t].step \in AtWork => t \in running

Good == {"staged", "published", "failed"}

\* A request drives the job of what it submitted. Past its codelists their members are
\* current; checked, and minted if need be, its structure is in place; answered, its
\* facts are there.
ReqOK(t) ==
  /\ req[t].step \in {"drive", "publish"} =>
       /\ req[t].job \in DOMAIN jobs
       /\ jobs[req[t].job].kind = req[t].kind
       /\ jobs[req[t].job].book = req[t].book
  /\ req[t].step = "publish" => req[t].kind \in Reference
  /\ req[t].step = "mint" => req[t].kind = "facts"
  /\ req[t].step \in AtWork /\ req[t].kind # "codelists" =>
       Listed(req[t].book) \subseteq Current
  /\ req[t].step \in AtWork \ {"mint"} /\ (~req[t].widens \/ req[t].kind = "facts") =>
       Book[req[t].book].dims \subseteq dsd
  /\ req[t].answer \in {202, 409} =>
       \E i \in DOMAIN jobs :
         /\ jobs[i].kind = "facts" /\ jobs[i].status \in Good
         /\ Payload("facts", jobs[i].book) = Payload("facts", req[t].book)

\* The members of a published codelist are current; those of submitted facts, and their
\* structure, are there, so that only a wider structure rejects them.
JobOK(i) ==
  /\ jobs[i].kind = "codelists" /\ jobs[i].status = "published" =>
       Listed(jobs[i].book) \subseteq Current
  /\ jobs[i].kind = "facts" =>
       Listed(jobs[i].book) \subseteq Current /\ Book[jobs[i].book].dims \subseteq dsd
  /\ jobs[i].kind = "facts" /\ jobs[i].status = "rejected" =>
       Book[jobs[i].book].dims # dsd

IInv ==
  /\ TypeOK /\ BOK /\ Holders
  /\ \A t \in Tasks : ReqOK(t)
  /\ \A i \in DOMAIN jobs : JobOK(i)

LEMMA IdleType == \A b \in Books : Idle(b) \in Request
BY DEF Idle, Request, Kinds

LEMMA InitIInv == Init => IInv
<1> SUFFICES ASSUME Init PROVE IInv
  OBVIOUS
<1>1. waiters = <<>> /\ running = {} /\ active = 0 /\ jobs = <<>>
  BY DEF Init, BInit
<1>2. req = [t \in Tasks |-> Idle(Sends[t])] /\ \A t \in Tasks : Sends[t] \in Books
  BY UploadOK DEF Init
<1>3. TypeOK
  <2>1. BTypeOK
    BY <1>1, SlotsOK DEF BTypeOK
  <2>2. \A b \in Books : Idle(b) \in Request
    BY IdleType
  <2>3. req \in [Tasks -> Request]
    BY <1>2, <2>2
  <2>4. jobs \in Seq(Job)
    BY <1>1
  <2>q. QED
    BY <2>1, <2>3, <2>4, UploadOK DEF TypeOK, Init
<1>4. BOK
  BY <1>1, <1>3, FS_EmptySet DEF BOK, TypeOK
<1>5. \A t \in Tasks : req[t].step = "idle" /\ req[t].answer = None
  BY <1>2 DEF Idle
<1>6. Holders
  BY <1>1, <1>5 DEF Holders, AtWork, Holding
<1>7. ASSUME NEW t \in Tasks PROVE ReqOK(t)
  BY <1>5, UploadOK DEF ReqOK, AtWork, Answers
<1>q. QED
  BY <1>1, <1>3, <1>4, <1>6, <1>7 DEF IInv

-----------------------------------------------------------------------------
\* Steps.

LEMMA SetStatusType ==
  ASSUME jobs \in Seq(Job), NEW i \in DOMAIN jobs, NEW s \in Statuses
  PROVE  [jobs EXCEPT ![i].status = s] \in Seq(Job)
<1>1. jobs \in [1..Len(jobs) -> Job] /\ Len(jobs) \in Nat /\ i \in 1..Len(jobs)
  OBVIOUS
<1>2. [jobs[i] EXCEPT !.status = s] \in Job
  BY <1>1 DEF Job
<1>3. [jobs EXCEPT ![i].status = s] = [jobs EXCEPT ![i] = [jobs[i] EXCEPT !.status = s]]
  OBVIOUS
<1>q. QED
  BY <1>1, <1>2, <1>3

LEMMA LostType == \A r \in Request : Lost(r) \in Request
<1> SUFFICES ASSUME NEW r \in Request PROVE Lost(r) \in Request
  OBVIOUS
<1>1. PICK i \in Request : i = Idle(r.book) /\ r.answer \in Answers \cup {None}
  BY IdleType DEF Request
<1>2. \A s \in {"idle", "done"} :
        [i EXCEPT !.step = s, !.answer = r.answer] \in Request
  BY <1>1 DEF Request
<1>q. QED
  BY <1>1, <1>2 DEF Lost

LEMMA GoType ==
  ASSUME TypeOK, NEW t \in Tasks, NEW s \in AtWork, NEW k \in Kinds, Go(t, s, k)
  PROVE  req' \in [Tasks -> Request]
<1>1. [req[t] EXCEPT !.step = s, !.kind = k] \in Request
  BY DEF TypeOK, Request
<1>q. QED
  BY <1>1 DEF Go, TypeOK

\* What Publish and Approve do to a job.
LEMMA PublishJobType ==
  ASSUME TypeOK, NEW i \in DOMAIN jobs, PublishJob(i)
  PROVE  /\ jobs' \in Seq(Job)
         /\ members' \in [Codes -> Labels \cup {None}]
<1>0. jobs[i] \in Job
  BY DEF TypeOK
<1>1. jobs[i] \in Job /\ jobs[i].book \in Books
  BY <1>0 DEF Job
<1>2. Book[jobs[i].book].labels \in [Codes -> Labels \cup {None}]
  BY <1>1, UploadOK DEF BookOf
<1>3. members' \in [Codes -> Labels \cup {None}]
  BY <1>2 DEF PublishJob, TypeOK, Listed
<1>4. jobs' \in Seq(Job)
  BY SetStatusType DEF PublishJob, SetStatus, TypeOK, Statuses
<1>q. QED
  BY <1>3, <1>4

LEMMA TypeStep == IInv /\ [Next]_vars => TypeOK'
<1> SUFFICES ASSUME IInv, [Next]_vars PROVE TypeOK'
  OBVIOUS
<1> USE DEF TypeOK
<1>0. TypeOK /\ BOK /\ Holders /\ \A t \in Tasks : ReqOK(t)
  BY DEF IInv
<1>1. ASSUME NEW t \in Tasks, Post(t) PROVE TypeOK'
  <2>1. ~Holding(t)
    BY <1>0, <1>1 DEF Holders, Post
  <2>2. BTypeOK'
    BY <1>0, <1>1, <2>1, AcquireIsGateStep DEF Post, BOK
  <2>3. req' \in [Tasks -> Request]
    BY <1>0, <1>1 DEF Post, Request
  <2>q. QED
    BY <1>0, <1>1, <2>2, <2>3 DEF Post, state
<1>2. ASSUME NEW t \in Tasks, NEW a \in Answers, t \in running, Answer(t, a)
      PROVE  BTypeOK' /\ req' \in [Tasks -> Request]
  <2>1. BTypeOK'
    BY <1>0, <1>2, ReleaseIsGateStep DEF Answer, BOK
  <2>2. req' \in [Tasks -> Request]
    <3>1. [req[t] EXCEPT !.step = "done", !.answer = a] \in Request
      BY <1>0 DEF Request
    <3>q. QED
      BY <1>0, <1>2, <3>1 DEF Answer
  <2>q. QED
    BY <2>1, <2>2
<1>3. ASSUME NEW t \in Tasks, Advance(t) PROVE req' \in [Tasks -> Request]
  BY <1>0, <1>3, GoType DEF Advance, Kinds, AtWork
<1>4. ASSUME NEW t \in Tasks, Check(t) PROVE TypeOK'
  <2>1. CASE Answer(t, 400)
    BY <1>0, <1>2, <1>4, <2>1 DEF Check, Answers, state
  <2>2. CASE ~Answer(t, 400)
    <3>1. UNCHANGED bvars
      BY <1>4, <2>2 DEF Check
    <3>2. req' \in [Tasks -> Request]
      <4>1. \A w \in BOOLEAN : [req[t] EXCEPT !.step = "submit", !.kind = "codelists",
                                              !.widens = w] \in Request
        BY <1>0 DEF Request, Kinds, AtWork
      <4>q. QED
        BY <1>0, <1>4, <2>2, <4>1 DEF Check
    <3>q. QED
      BY <1>0, <1>4, <3>1, <3>2 DEF Check, state, bvars, BTypeOK
  <2>q. QED
    BY <2>1, <2>2
<1>5. ASSUME NEW t \in Tasks, Submit(t) PROVE TypeOK'
  <2>1. CASE CreateSubmission(t)
    <3>1. [kind |-> req[t].kind, book |-> req[t].book, status |-> "received"] \in Job
      BY <1>0 DEF Request, Job, Statuses
    <3>2. jobs' \in Seq(Job) /\ Len(jobs) + 1 \in Nat
      BY <1>0, <2>1, <3>1 DEF CreateSubmission
    <3>3. req' \in [Tasks -> Request]
      <4>1. [req[t] EXCEPT !.step = "drive", !.job = Len(jobs) + 1] \in Request
        BY <1>0, <3>2 DEF Request, AtWork
      <4>q. QED
        BY <1>0, <2>1, <4>1 DEF CreateSubmission
    <3>q. QED
      BY <1>0, <1>5, <2>1, <3>2, <3>3 DEF Submit, CreateSubmission, bvars, BTypeOK
  <2>2. CASE Advance(t) /\ UNCHANGED <<jobs, bvars>>
    BY <1>0, <1>3, <1>5, <2>2 DEF Submit, bvars, BTypeOK
  <2>3. CASE Answer(t, 409) /\ UNCHANGED jobs
    <3>1. t \in running
      BY <1>0, <1>5 DEF Submit, Holders, AtWork
    <3>q. QED
      BY <1>0, <1>2, <1>5, <2>3, <3>1 DEF Submit, Answers
  <2>q. QED
    BY <1>5, <2>1, <2>2, <2>3 DEF Submit
<1>6. ASSUME NEW t \in Tasks, Drive(t) PROVE TypeOK'
  <2>1. CASE \E a \in {202, 400} : Answer(t, a)
    <3>1. t \in running
      BY <1>0, <1>6 DEF Drive, Holders, AtWork
    <3>q. QED
      BY <1>0, <1>2, <1>6, <2>1, <3>1 DEF Drive, Answers, state
  <2>2. CASE Go(t, "publish", req[t].kind) /\ UNCHANGED bvars
    <3>1. req' \in [Tasks -> Request]
      BY <1>0, <2>2, GoType DEF Request, AtWork
    <3>q. QED
      BY <1>0, <1>6, <2>2, <3>1 DEF Drive, state, bvars, BTypeOK
  <2>q. QED
    BY <1>6, <2>1, <2>2 DEF Drive
<1>7. ASSUME NEW t \in Tasks, Publish(t) PROVE TypeOK'
  <2>1. req[t].job \in DOMAIN jobs
    BY <1>0, <1>7 DEF Publish, ReqOK
  <2>2. jobs' \in Seq(Job) /\ members' \in [Codes -> Labels \cup {None}]
    BY <1>0, <1>7, <2>1, PublishJobType DEF Publish
  <2>3. req' \in [Tasks -> Request]
    BY <1>3, <1>7 DEF Publish
  <2>q. QED
    BY <1>0, <1>7, <2>2, <2>3 DEF Publish, bvars, BTypeOK
<1>8. ASSUME NEW t \in Tasks, Mint(t) PROVE TypeOK'
  <2>1. Book[req[t].book].dims \subseteq Dims
    BY <1>0, UploadOK DEF Request, BookOf
  <2>2. req' \in [Tasks -> Request]
    BY <1>0, <1>8, GoType DEF Mint, Kinds, AtWork
  <2>q. QED
    BY <1>0, <1>8, <2>1, <2>2 DEF Mint, bvars, BTypeOK
<1>9. ASSUME NEW t \in Tasks, Break(t) PROVE TypeOK'
  <2>1. BTypeOK'
    BY <1>0, <1>9, ReleaseIsGateStep DEF Break, BOK
  <2>2. req' \in [Tasks -> Request]
    BY <1>0, <1>9, LostType DEF Break
  <2>3. jobs' \in Seq(Job)
    BY <1>0, <1>9, SetStatusType DEF Break, ReqOK, Statuses
  <2>4. faults' \in 0..MaxFaults
    BY <1>0, <1>9, UploadOK DEF Break, Fault
  <2>q. QED
    BY <1>0, <1>9, <2>1, <2>2, <2>3, <2>4 DEF Break
<1>10. ASSUME NEW i \in DOMAIN jobs, Drain(i) PROVE TypeOK'
  <2>1. jobs' \in Seq(Job)
    BY <1>0, <1>10, SetStatusType DEF Drain, SetStatus, Statuses
  <2>q. QED
    BY <1>0, <1>10, <2>1 DEF Drain, bvars, BTypeOK
<1>10f. ASSUME NEW i \in DOMAIN jobs, DrainFails(i) PROVE TypeOK'
  <2>1. jobs' \in Seq(Job)
    BY <1>0, <1>10f, SetStatusType DEF DrainFails, SetStatus, Statuses
  <2>2. faults' \in 0..MaxFaults
    BY <1>0, <1>10f, UploadOK DEF DrainFails, Fault
  <2>q. QED
    BY <1>0, <1>10f, <2>1, <2>2 DEF DrainFails, bvars, BTypeOK
<1>11. ASSUME NEW i \in DOMAIN jobs, Approve(i) PROVE TypeOK'
  BY <1>0, <1>11, PublishJobType DEF Approve, bvars, BTypeOK
<1>12. CASE Crash
  <2>1. BTypeOK'
    BY <1>12, SlotsOK DEF Crash, Restart, BTypeOK
  <2>2. req' \in [Tasks -> Request]
    BY <1>0, <1>12, LostType DEF Crash
  <2>3. faults' \in 0..MaxFaults
    BY <1>0, <1>12, UploadOK DEF Crash, Fault
  <2>q. QED
    BY <1>0, <1>12, <2>1, <2>2, <2>3 DEF Crash, state
<1>13. CASE UNCHANGED vars
  BY <1>0, <1>13 DEF vars, bvars, BTypeOK
<1>q. QED
  BY <1>1, <1>4, <1>5, <1>6, <1>7, <1>8, <1>9, <1>10, <1>10f, <1>11, <1>12, <1>13
  DEF Next, Step

\* How a step moves the requests and the bulkhead.
LEMMA Shape ==
  ASSUME IInv, Next
  PROVE  \/ \E t \in Tasks : Post(t)
         \/ \E t \in running :
              /\ Release(t) /\ req'[t].step \in {"idle", "done"}
              /\ \A u \in Tasks \ {t} : req'[u] = req[u]
         \/ /\ UNCHANGED bvars
            /\ \A u \in Tasks :
                 \/ req'[u].step = req[u].step
                 \/ u \in running /\ req'[u].step \in AtWork
         \/ Restart /\ \A u \in Tasks : req'[u].step \in {"idle", "done"}
<1>0. /\ req \in [Tasks -> Request]
      /\ \A u \in Tasks : req[u].step \in AtWork => u \in running
  BY DEF IInv, TypeOK, Holders
<1>1. ASSUME NEW t \in Tasks, NEW s \in AtWork, NEW k, Go(t, s, k)
      PROVE  /\ req'[t].step \in AtWork
             /\ \A u \in Tasks \ {t} : req'[u] = req[u]
  BY <1>0, <1>1 DEF Go, Request
<1>2. ASSUME NEW t \in Tasks, Advance(t)
      PROVE  /\ req'[t].step \in AtWork
             /\ \A u \in Tasks \ {t} : req'[u] = req[u]
  BY <1>1, <1>2 DEF Advance, AtWork
<1>3. ASSUME NEW t \in Tasks, NEW a, Answer(t, a)
      PROVE  /\ Release(t) /\ req'[t].step = "done"
             /\ \A u \in Tasks \ {t} : req'[u] = req[u]
  BY <1>0, <1>3 DEF Answer, Request
<1>4. ASSUME NEW t \in Tasks, Step(t) PROVE t \in running
  BY <1>0, <1>4 DEF Step, Check, Submit, Drive, Publish, Mint, AtWork
<1>5. ASSUME NEW t \in Tasks, Check(t), ~\E a \in Answers : Answer(t, a)
      PROVE  /\ UNCHANGED bvars /\ req'[t].step \in AtWork
             /\ \A u \in Tasks \ {t} : req'[u] = req[u]
  <2>1. ~Answer(t, 400)
    BY <1>5 DEF Answers
  <2>2. PICK w \in BOOLEAN :
          req' = [req EXCEPT ![t] = [@ EXCEPT !.step = "submit", !.kind = "codelists",
                                              !.widens = w]]
    BY <1>5, <2>1 DEF Check
  <2>3. UNCHANGED bvars
    BY <1>5, <2>1 DEF Check
  <2>4. req'[t].step = "submit"
    BY <1>0, <2>2 DEF Request
  <2>q. QED
    BY <1>0, <2>2, <2>3, <2>4 DEF AtWork
<1>6. ASSUME NEW t \in Tasks, Submit(t), ~\E a \in Answers : Answer(t, a)
      PROVE  /\ UNCHANGED bvars /\ req'[t].step \in AtWork
             /\ \A u \in Tasks \ {t} : req'[u] = req[u]
  <2>1. CASE CreateSubmission(t)
    BY <1>0, <2>1 DEF CreateSubmission, AtWork, Request
  <2>q. QED
    BY <1>2, <1>6, <2>1 DEF Submit, Answers
<1>7. ASSUME NEW t \in Tasks, Drive(t), ~\E a \in Answers : Answer(t, a)
      PROVE  /\ UNCHANGED bvars /\ req'[t].step \in AtWork
             /\ \A u \in Tasks \ {t} : req'[u] = req[u]
  BY <1>1, <1>7 DEF Drive, Answers, AtWork
<1>8. ASSUME NEW t \in Tasks, Publish(t) \/ Mint(t)
      PROVE  /\ UNCHANGED bvars /\ req'[t].step \in AtWork
             /\ \A u \in Tasks \ {t} : req'[u] = req[u]
  BY <1>1, <1>2, <1>8 DEF Publish, Mint, AtWork
<1>9. ASSUME NEW t \in Tasks, Break(t)
      PROVE  /\ t \in running /\ Release(t) /\ req'[t].step \in {"idle", "done"}
             /\ \A u \in Tasks \ {t} : req'[u] = req[u]
  <2>1. req' = [req EXCEPT ![t] = Lost(req[t])]
    BY <1>9 DEF Break
  <2>2. Lost(req[t]).step \in {"idle", "done"}
    BY DEF Lost, Idle
  <2>q. QED
    BY <1>0, <1>9, <2>1, <2>2 DEF Break
<1>10. ASSUME NEW i \in DOMAIN jobs, Drain(i) \/ DrainFails(i) \/ Approve(i)
       PROVE  UNCHANGED <<bvars, req>>
  BY <1>10 DEF Drain, DrainFails, Approve
<1>11. CASE Crash
  <2>1. \A u \in Tasks : req'[u] = Lost(req[u])
    BY <1>11 DEF Crash
  <2>2. \A u \in Tasks : Lost(req[u]).step \in {"idle", "done"}
    BY DEF Lost, Idle
  <2>q. QED
    BY <1>11, <2>1, <2>2 DEF Crash
<1>12. CASE \E t \in Tasks : Step(t)
  <2>1. PICK t \in Tasks : Step(t)
    BY <1>12
  <2>2. CASE \E a \in Answers : Answer(t, a)
    BY <1>3, <1>4, <2>1, <2>2
  <2>3. CASE ~\E a \in Answers : Answer(t, a)
    BY <1>4, <1>5, <1>6, <1>7, <1>8, <2>1, <2>3 DEF Step
  <2>q. QED
    BY <2>2, <2>3
<1>q. QED
  BY <1>9, <1>10, <1>11, <1>12 DEF Next

\* Every step is a step of the gate, and keeps its books.
LEMMA GateStep ==
  IInv /\ [Next]_vars => /\ BOK' /\ Holders'
                        /\ [Gate!GNext \/ Gate!GRestart]_<<waiters, running>>
<1> SUFFICES ASSUME IInv, [Next]_vars
             PROVE  /\ BOK' /\ Holders'
                    /\ [Gate!GNext \/ Gate!GRestart]_<<waiters, running>>
  OBVIOUS
<1>0. TypeOK /\ TypeOK' /\ BOK /\ Holders
  BY TypeStep DEF IInv
<1>1. ASSUME NEW t \in Tasks, Post(t)
      PROVE  BOK' /\ Holders' /\ Gate!GNext
  <2>1. ~Holding(t) /\ Acquire(t)
    BY <1>0, <1>1 DEF Holders, Post
  <2>2. /\ BOK' /\ Gate!GNext /\ running \subseteq running'
        /\ \A u \in Tasks : Holding(u)' => Holding(u) \/ u = t
    BY <1>0, <2>1, AcquireIsGateStep
  <2>3. req'[t].step = "posted" /\ \A u \in Tasks \ {t} : req'[u] = req[u]
    BY <1>0, <1>1 DEF Post, TypeOK, Request
  <2>4. Holders'
    BY <1>0, <2>2, <2>3 DEF Holders, AtWork
  <2>q. QED
    BY <2>2, <2>4
<1>2. ASSUME NEW t \in running, Release(t), req'[t].step \in {"idle", "done"},
             \A u \in Tasks \ {t} : req'[u] = req[u]
      PROVE  BOK' /\ Holders' /\ Gate!GNext
  <2>1. /\ BOK' /\ Gate!GNext /\ running \ {t} \subseteq running'
        /\ \A u \in Tasks : Holding(u)' => Holding(u) /\ u # t
    BY <1>0, <1>2, ReleaseIsGateStep
  <2>2. Holders'
    BY <1>0, <1>2, <2>1 DEF Holders, AtWork
  <2>q. QED
    BY <2>1, <2>2
<1>3. ASSUME UNCHANGED bvars,
             \A u \in Tasks :
               \/ req'[u].step = req[u].step
               \/ u \in running /\ req'[u].step \in AtWork
      PROVE  BOK' /\ Holders' /\ UNCHANGED <<waiters, running>>
  <2>1. BOK'
    BY <1>0, <1>3 DEF BOK, BTypeOK, bvars
  <2>2. Holders'
    BY <1>0, <1>3 DEF Holders, Holding, AtWork, bvars
  <2>q. QED
    BY <1>3, <2>1, <2>2 DEF bvars
<1>4. ASSUME Restart, \A u \in Tasks : req'[u].step \in {"idle", "done"}
      PROVE  BOK' /\ Holders' /\ Gate!GRestart
  <2>1. BOK'
    BY <1>0, <1>4, FS_EmptySet DEF Restart, BOK, TypeOK
  <2>2. Holders'
    BY <1>4 DEF Holders, Holding, Restart, AtWork
  <2>q. QED
    BY <1>4, <2>1, <2>2 DEF Restart, Gate!GRestart
<1>5. CASE UNCHANGED vars
  <2>1. UNCHANGED bvars /\ req' = req
    BY <1>5 DEF vars
  <2>2. \A u \in Tasks : req'[u].step = req[u].step
    BY <2>1
  <2>3. BOK' /\ Holders' /\ UNCHANGED <<waiters, running>>
    BY <1>3, <2>1, <2>2
  <2>q. QED
    BY <2>3
<1>6. CASE Next
  <2>1. CASE \E t \in Tasks : Post(t)
    BY <1>1, <2>1
  <2>2. CASE \E t \in running :
               /\ Release(t) /\ req'[t].step \in {"idle", "done"}
               /\ \A u \in Tasks \ {t} : req'[u] = req[u]
    BY <1>2, <2>2
  <2>3. CASE /\ UNCHANGED bvars
             /\ \A u \in Tasks :
                  \/ req'[u].step = req[u].step
                  \/ u \in running /\ req'[u].step \in AtWork
    <3>1. BOK' /\ Holders' /\ UNCHANGED <<waiters, running>>
      BY <1>3, <2>3
    <3>q. QED
      BY <3>1
  <2>4. CASE Restart /\ \A u \in Tasks : req'[u].step \in {"idle", "done"}
    BY <1>4, <2>4
  <2>q. QED
    BY <1>6, <2>1, <2>2, <2>3, <2>4, Shape
<1>q. QED
  BY <1>5, <1>6

-----------------------------------------------------------------------------
\* The jobs.

\* Nothing is taken back: jobs, members and axes only come, verdicts stay, codelists are
\* published into gold, and facts are submitted when what they are about is there.
Onward ==
  /\ DOMAIN jobs \subseteq DOMAIN jobs'
  /\ \A i \in DOMAIN jobs :
       /\ jobs'[i].kind = jobs[i].kind /\ jobs'[i].book = jobs[i].book
       /\ jobs[i].status \in Good => jobs'[i].status \in Good
       /\ jobs'[i].status = "rejected" => jobs[i].status = "rejected" \/ ~Valid(jobs[i])
       /\ jobs[i].kind = "codelists" /\ jobs'[i].status = "published" =>
            jobs[i].status = "published" \/ Listed(jobs[i].book) \subseteq Current'
  /\ \A i \in DOMAIN jobs' \ DOMAIN jobs :
       /\ jobs'[i].status = "received"
       /\ jobs'[i].kind = "facts" =>
            /\ Listed(jobs'[i].book) \subseteq Current'
            /\ Book[jobs'[i].book].dims \subseteq dsd'
  /\ Current \subseteq Current' /\ dsd \subseteq dsd'

LEMMA SetStatusOnward ==
  ASSUME TypeOK, NEW i \in DOMAIN jobs, NEW s \in Statuses,
         jobs' = [jobs EXCEPT ![i].status = s]
  PROVE  /\ DOMAIN jobs' = DOMAIN jobs
         /\ \A k \in DOMAIN jobs :
              /\ jobs'[k].kind = jobs[k].kind /\ jobs'[k].book = jobs[k].book
              /\ jobs'[k].status = IF k = i THEN s ELSE jobs[k].status
<1>1. \A k \in DOMAIN jobs : jobs[k] \in Job
  BY DEF TypeOK
<1>2. \A k \in DOMAIN jobs :
        jobs'[k] = IF k = i THEN [jobs[k] EXCEPT !.status = s] ELSE jobs[k]
  OBVIOUS
<1>q. QED
  BY <1>1, <1>2 DEF Job

LEMMA PublishJobOnward ==
  ASSUME TypeOK, NEW i \in DOMAIN jobs, PublishJob(i), UNCHANGED dsd
  PROVE  Onward
<1>1. PICK s \in {"published", "failed"} : jobs' = [jobs EXCEPT ![i].status = s]
  BY DEF PublishJob, SetStatus
<1>2. /\ DOMAIN jobs' = DOMAIN jobs
      /\ \A k \in DOMAIN jobs :
           /\ jobs'[k].kind = jobs[k].kind /\ jobs'[k].book = jobs[k].book
           /\ jobs'[k].status = IF k = i THEN s ELSE jobs[k].status
  BY <1>1, SetStatusOnward DEF Statuses
<1>3. Current \subseteq Current'
  BY DEF PublishJob, Current, Listed, TypeOK
<1>4. jobs[i].kind = "codelists" => Listed(jobs[i].book) \subseteq Current'
  BY DEF PublishJob, Current, Listed, TypeOK
<1>q. QED
  BY <1>2, <1>3, <1>4 DEF Onward, Good

LEMMA SameOnward == UNCHANGED <<jobs, members>> /\ dsd \subseteq dsd' => Onward
BY DEF Onward, Current

LEMMA OnwardStep == IInv /\ [Next]_vars => Onward
<1> SUFFICES ASSUME IInv, [Next]_vars PROVE Onward
  OBVIOUS
<1>0. TypeOK /\ \A t \in Tasks : ReqOK(t)
  BY DEF IInv
<1>1. ASSUME NEW t \in Tasks, Post(t) \/ Check(t) \/ Drive(t) PROVE Onward
  BY <1>1, SameOnward DEF Post, Check, Drive, state
<1>2. ASSUME NEW t \in Tasks, Submit(t) PROVE Onward
  <2>1. CASE CreateSubmission(t)
    <3>1. PICK j \in Job : /\ jobs' = Append(jobs, j)
                          /\ j.kind = req[t].kind /\ j.book = req[t].book
                          /\ j.status = "received"
      <4>1. [kind |-> req[t].kind, book |-> req[t].book, status |-> "received"] \in Job
        BY <1>0 DEF TypeOK, Request, Job, Statuses
      <4>q. QED
        BY <2>1, <4>1 DEF CreateSubmission
    <3>2. /\ DOMAIN jobs' = 1..(Len(jobs) + 1) /\ DOMAIN jobs = 1..Len(jobs)
          /\ Len(jobs) \in Nat
          /\ \A i \in DOMAIN jobs : jobs'[i] = jobs[i]
          /\ jobs'[Len(jobs) + 1] = j
      BY <1>0, <3>1 DEF TypeOK
    <3>3. UNCHANGED <<members, dsd>>
      BY <1>2 DEF Submit
    <3>4. req[t].kind = "facts" =>
            Listed(req[t].book) \subseteq Current /\ Book[req[t].book].dims \subseteq dsd
      BY <1>0, <1>2 DEF Submit, ReqOK, AtWork
    <3>5. Current' = Current
      BY <3>3 DEF Current
    <3>q. QED
      BY <3>1, <3>2, <3>3, <3>4, <3>5 DEF Onward
  <2>2. CASE UNCHANGED jobs
    BY <1>2, <2>2, SameOnward DEF Submit
  <2>q. QED
    BY <1>2, <2>1, <2>2 DEF Submit
<1>3. ASSUME NEW t \in Tasks, Publish(t) PROVE Onward
  <2>1. req[t].job \in DOMAIN jobs
    BY <1>0, <1>3 DEF Publish, ReqOK
  <2>q. QED
    BY <1>0, <1>3, <2>1, PublishJobOnward, SameOnward DEF Publish
<1>4. ASSUME NEW t \in Tasks, Mint(t) PROVE Onward
  BY <1>4, SameOnward DEF Mint
<1>5. ASSUME NEW t \in Tasks, Break(t) PROVE Onward
  <2>1. CASE UNCHANGED jobs
    BY <1>5, <2>1, SameOnward DEF Break
  <2>2. CASE /\ req[t].step = "publish" /\ jobs[req[t].job].status = "staged"
             /\ jobs' = [jobs EXCEPT ![req[t].job].status = "failed"]
    <3>1. req[t].job \in DOMAIN jobs
      BY <1>0, <2>2 DEF ReqOK
    <3>2. /\ DOMAIN jobs' = DOMAIN jobs
          /\ \A k \in DOMAIN jobs :
               /\ jobs'[k].kind = jobs[k].kind /\ jobs'[k].book = jobs[k].book
               /\ jobs'[k].status = IF k = req[t].job THEN "failed" ELSE jobs[k].status
      BY <1>0, <2>2, <3>1, SetStatusOnward DEF Statuses
    <3>3. Current' = Current /\ dsd' = dsd
      BY <1>5 DEF Break, Current
    <3>q. QED
      BY <3>2, <3>3 DEF Onward, Good
  <2>q. QED
    BY <1>5, <2>1, <2>2 DEF Break
<1>6. ASSUME NEW i \in DOMAIN jobs, Drain(i) PROVE Onward
  <2>1. PICK s \in {"staged", "rejected"} :
          /\ jobs' = [jobs EXCEPT ![i].status = s]
          /\ s = "rejected" => ~Valid(jobs[i])
    BY <1>6 DEF Drain, SetStatus
  <2>2. /\ DOMAIN jobs' = DOMAIN jobs
        /\ \A k \in DOMAIN jobs :
             /\ jobs'[k].kind = jobs[k].kind /\ jobs'[k].book = jobs[k].book
             /\ jobs'[k].status = IF k = i THEN s ELSE jobs[k].status
    BY <1>0, <2>1, SetStatusOnward DEF Statuses
  <2>3. Current' = Current /\ dsd' = dsd /\ jobs[i].status = "received"
    BY <1>6 DEF Drain, Current
  <2>q. QED
    BY <2>1, <2>2, <2>3 DEF Onward, Good
<1>6f. ASSUME NEW i \in DOMAIN jobs, DrainFails(i) PROVE Onward
  <2>1. /\ DOMAIN jobs' = DOMAIN jobs
        /\ \A k \in DOMAIN jobs :
             /\ jobs'[k].kind = jobs[k].kind /\ jobs'[k].book = jobs[k].book
             /\ jobs'[k].status = IF k = i THEN "failed" ELSE jobs[k].status
    BY <1>0, <1>6f, SetStatusOnward DEF DrainFails, SetStatus, Statuses
  <2>2. Current' = Current /\ dsd' = dsd
    BY <1>6f DEF DrainFails, Current
  <2>q. QED
    BY <2>1, <2>2 DEF Onward, Good
<1>7. ASSUME NEW i \in DOMAIN jobs, Approve(i) PROVE Onward
  BY <1>0, <1>7, PublishJobOnward DEF Approve
<1>8. CASE Crash
  BY <1>8, SameOnward DEF Crash, state
<1>9. CASE UNCHANGED vars
  BY <1>9, SameOnward DEF vars
<1>q. QED
  BY <1>1, <1>2, <1>3, <1>4, <1>5, <1>6, <1>6f, <1>7, <1>8, <1>9 DEF Next, Step

\* A rejection of facts is for a structure that is narrower than the dataset's.
LEMMA JobStep ==
  ASSUME IInv, [Next]_vars, NEW i \in DOMAIN jobs'
  PROVE  JobOK(i)'
<1>0. Onward /\ TypeOK
  BY OnwardStep DEF IInv
<1>1. CASE i \in DOMAIN jobs
  <2>1. JobOK(i) /\ jobs[i] \in Job /\ jobs[i].book \in Books
    <3>1. jobs[i] \in Job
      BY <1>0, <1>1 DEF TypeOK
    <3>q. QED
      BY <1>1, <3>1 DEF IInv, Job
  <2>2. jobs[i].kind = "facts" /\ jobs'[i].status = "rejected" => Book[jobs[i].book].dims # dsd
    <3>1. Book[jobs[i].book].used \subseteq Listed(jobs[i].book)
      BY <2>1, UploadOK
    <3>q. QED
      BY <1>0, <1>1, <2>1, <3>1 DEF JobOK, Onward, Valid
  <2>3. jobs[i].kind = "codelists" /\ jobs'[i].status = "published" =>
          Listed(jobs[i].book) \subseteq Current'
    BY <1>0, <1>1, <2>1 DEF JobOK, Onward
  <2>4. jobs'[i].kind = jobs[i].kind /\ jobs'[i].book = jobs[i].book
    BY <1>0, <1>1 DEF Onward
  <2>5. jobs[i].kind = "facts" =>
          Listed(jobs[i].book) \subseteq Current' /\ Book[jobs[i].book].dims \subseteq dsd'
    BY <1>0, <2>1 DEF JobOK, Onward
  <2>6. Book[jobs[i].book].dims \subseteq dsd /\ Book[jobs[i].book].dims # dsd =>
          Book[jobs[i].book].dims # dsd'
    BY <1>0 DEF Onward
  <2>7. jobs[i].kind = "facts" => Book[jobs[i].book].dims \subseteq dsd
    BY <2>1 DEF JobOK
  <2>q. QED
    BY <2>2, <2>3, <2>4, <2>5, <2>6, <2>7 DEF JobOK, Listed
<1>2. CASE i \notin DOMAIN jobs
  BY <1>0, <1>2 DEF Onward, JobOK, Listed
<1>q. QED
  BY <1>1, <1>2

-----------------------------------------------------------------------------
\* The requests.

LEMMA FactsStay ==
  ASSUME Onward, NEW b,
         \E i \in DOMAIN jobs :
           /\ jobs[i].kind = "facts" /\ jobs[i].status \in Good
           /\ Payload("facts", jobs[i].book) = Payload("facts", b)
  PROVE  \E i \in DOMAIN jobs' :
           /\ jobs'[i].kind = "facts" /\ jobs'[i].status \in Good
           /\ Payload("facts", jobs'[i].book) = Payload("facts", b)
<1>1. PICK i \in DOMAIN jobs :
        /\ jobs[i].kind = "facts" /\ jobs[i].status \in Good
        /\ Payload("facts", jobs[i].book) = Payload("facts", b)
  OBVIOUS
<1>2. /\ i \in DOMAIN jobs' /\ jobs'[i].book = jobs[i].book
      /\ jobs'[i].kind = "facts" /\ jobs'[i].status \in Good
  BY <1>1 DEF Onward
<1>q. QED
  BY <1>1, <1>2

\* A request that is not at work, or is where it was, stays in order.
LEMMA Carried ==
  ASSUME TypeOK, Onward, NEW u \in Tasks, ReqOK(u),
         req'[u].book = req[u].book, req'[u].answer = req[u].answer,
         req'[u] = req[u] \/ req'[u].step \notin AtWork
  PROVE  ReqOK(u)'
<1>1. req'[u].answer \in {202, 409} =>
        \E i \in DOMAIN jobs' :
          /\ jobs'[i].kind = "facts" /\ jobs'[i].status \in Good
          /\ Payload("facts", jobs'[i].book) = Payload("facts", req'[u].book)
  BY FactsStay DEF ReqOK
<1>2. CASE req'[u].step \notin AtWork
  BY <1>1, <1>2 DEF ReqOK, AtWork, Payload
<1>3. CASE req'[u] = req[u]
  BY <1>1, <1>3 DEF ReqOK, Onward, Payload, Listed
<1>q. QED
  BY <1>2, <1>3

\* A request at work whose codelists are in gold may advance.
LEMMA AdvanceOK ==
  ASSUME IInv, Onward, NEW t \in Tasks, Advance(t),
         req[t].step \in {"submit", "publish"}, req[t].kind \in Reference,
         Listed(req[t].book) \subseteq Current'
  PROVE  ReqOK(t)'
<1>0. TypeOK /\ ReqOK(t) /\ req[t] \in Request
  BY DEF IInv, TypeOK
<1>1. PICK s \in {"submit", "mint"}, k \in {"displays", "facts"} :
        /\ req' = [req EXCEPT ![t] = [@ EXCEPT !.step = s, !.kind = k]]
        /\ s = "mint" => k = "facts"
        /\ k = "facts" => s = "mint" \/ ~req[t].widens
  BY DEF Advance, Go
<1>2. /\ req'[t].step = s /\ req'[t].kind = k /\ req'[t].book = req[t].book
      /\ req'[t].widens = req[t].widens /\ req'[t].answer = req[t].answer
  BY <1>0, <1>1 DEF TypeOK, Request
<1>3. ~req[t].widens => Book[req[t].book].dims \subseteq dsd'
  BY <1>0 DEF ReqOK, Onward, AtWork
<1>4. req'[t].answer \in {202, 409} =>
        \E i \in DOMAIN jobs' :
          /\ jobs'[i].kind = "facts" /\ jobs'[i].status \in Good
          /\ Payload("facts", jobs'[i].book) = Payload("facts", req'[t].book)
  BY <1>0, <1>2, FactsStay DEF ReqOK
<1>q. QED
  BY <1>1, <1>2, <1>3, <1>4 DEF ReqOK, AtWork, Payload, Listed

\* An answer with 202 or 409 is backed by facts.
LEMMA AnswerOK ==
  ASSUME IInv, Onward, NEW t \in Tasks, NEW a \in Answers, Answer(t, a),
         a # 400 => \E i \in DOMAIN jobs :
           /\ jobs[i].kind = "facts" /\ jobs[i].status \in Good
           /\ Payload("facts", jobs[i].book) = Payload("facts", req[t].book)
  PROVE  ReqOK(t)'
<1>1. req'[t].step = "done" /\ req'[t].answer = a /\ req'[t].book = req[t].book
  BY DEF IInv, TypeOK, Answer, Request
<1>2. a # 400 => \E i \in DOMAIN jobs' :
        /\ jobs'[i].kind = "facts" /\ jobs'[i].status \in Good
        /\ Payload("facts", jobs'[i].book) = Payload("facts", req'[t].book)
  BY <1>1 DEF Onward, Payload
<1>q. QED
  BY <1>1, <1>2 DEF ReqOK, AtWork, Answers, Payload

LEMMA OthersOK ==
  ASSUME IInv, Onward, NEW t \in Tasks, \A u \in Tasks \ {t} : req'[u] = req[u], ReqOK(t)'
  PROVE  \A u \in Tasks : ReqOK(u)'
<1>1. ASSUME NEW u \in Tasks \ {t} PROVE ReqOK(u)'
  BY <1>1, Carried DEF IInv
<1>q. QED
  BY <1>1

LEMMA ReqStep == IInv /\ [Next]_vars => \A u \in Tasks : ReqOK(u)'
<1> SUFFICES ASSUME IInv, [Next]_vars PROVE \A u \in Tasks : ReqOK(u)'
  OBVIOUS
<1>0. /\ TypeOK /\ TypeOK' /\ Onward
      /\ \A t \in Tasks : ReqOK(t) /\ req[t] \in Request
      /\ \A i \in DOMAIN jobs : JobOK(i)
  BY TypeStep, OnwardStep DEF IInv, TypeOK
<1>1. ASSUME NEW t \in Tasks, NEW a \in Answers, Answer(t, a)
      PROVE  \A u \in Tasks \ {t} : req'[u] = req[u]
  BY <1>0, <1>1 DEF Answer, TypeOK
<1>2. ASSUME NEW t \in Tasks, Advance(t)
      PROVE  \A u \in Tasks \ {t} : req'[u] = req[u]
  BY <1>0, <1>2 DEF Advance, Go, TypeOK
<1>3. ASSUME NEW t \in Tasks, Post(t) PROVE \A u \in Tasks : ReqOK(u)'
  <2>1. /\ req'[t].step = "posted" /\ req'[t].book = req[t].book
        /\ req'[t].answer = req[t].answer
        /\ \A u \in Tasks \ {t} : req'[u] = req[u]
    BY <1>0, <1>3 DEF Post, TypeOK, Request
  <2>2. ReqOK(t)'
    BY <1>0, <2>1, Carried DEF AtWork
  <2>q. QED
    BY <1>0, <2>1, <2>2, OthersOK
<1>4. ASSUME NEW t \in Tasks, Check(t) PROVE \A u \in Tasks : ReqOK(u)'
  <2>1. CASE Answer(t, 400)
    BY <1>0, <1>1, <2>1, AnswerOK, OthersOK DEF Answers
  <2>2. CASE ~Answer(t, 400)
    <3>1. PICK w \in BOOLEAN :
            /\ req' = [req EXCEPT ![t] = [@ EXCEPT !.step = "submit",
                                                  !.kind = "codelists", !.widens = w]]
            /\ ~w => Book[req[t].book].dims = dsd
      BY <1>4, <2>2 DEF Check
    <3>2. /\ req'[t].step = "submit" /\ req'[t].kind = "codelists"
          /\ req'[t].widens = w /\ req'[t].book = req[t].book
          /\ req'[t].answer = req[t].answer
          /\ \A u \in Tasks \ {t} : req'[u] = req[u]
      BY <1>0, <3>1 DEF TypeOK, Request
    <3>3. UNCHANGED <<jobs, members, dsd>>
      BY <1>4 DEF Check, state
    <3>4. ReqOK(t)'
      BY <1>0, <3>1, <3>2, <3>3 DEF ReqOK, AtWork, Payload
    <3>q. QED
      BY <1>0, <3>2, <3>4, OthersOK
  <2>q. QED
    BY <2>1, <2>2
<1>5. ASSUME NEW t \in Tasks, Submit(t) PROVE \A u \in Tasks : ReqOK(u)'
  <2>1. CASE CreateSubmission(t)
    <3>1. /\ req'[t].step = "drive" /\ req'[t].job = Len(jobs) + 1
          /\ req'[t].kind = req[t].kind /\ req'[t].book = req[t].book
          /\ req'[t].widens = req[t].widens /\ req'[t].answer = req[t].answer
          /\ \A u \in Tasks \ {t} : req'[u] = req[u]
      BY <1>0, <2>1 DEF CreateSubmission, TypeOK, Request
    <3>2. /\ Len(jobs) + 1 \in DOMAIN jobs'
          /\ jobs'[Len(jobs) + 1].kind = req[t].kind
          /\ jobs'[Len(jobs) + 1].book = req[t].book
      BY <1>0, <2>1 DEF CreateSubmission, TypeOK
    <3>3. UNCHANGED <<members, dsd>> /\ req[t].step = "submit"
      BY <1>5 DEF Submit
    <3>4. req'[t].answer \in {202, 409} =>
            \E i \in DOMAIN jobs' :
              /\ jobs'[i].kind = "facts" /\ jobs'[i].status \in Good
              /\ Payload("facts", jobs'[i].book) = Payload("facts", req'[t].book)
      BY <1>0, <3>1, FactsStay DEF ReqOK
    <3>5. ReqOK(t)'
      BY <1>0, <3>1, <3>2, <3>3, <3>4 DEF ReqOK, AtWork, Payload, Current, Listed
    <3>q. QED
      BY <1>0, <3>1, <3>5, OthersOK
  <2>2. CASE /\ AlreadyPublished(req[t].kind, req[t].book)
             /\ req[t].kind \in Reference /\ Advance(t)
    <3>1. req[t].step = "submit" /\ Current \subseteq Current'
      BY <1>0, <1>5 DEF Submit, Onward
    <3>2. Listed(req[t].book) \subseteq Current
      <4>1. CASE req[t].kind = "codelists"
        <5>1. PICK i \in DOMAIN jobs :
                /\ jobs[i].kind = "codelists" /\ jobs[i].status = "published"
                /\ Book[jobs[i].book].labels = Book[req[t].book].labels
          BY <2>2, <4>1 DEF AlreadyPublished, Payload
        <5>2. Listed(jobs[i].book) = Listed(req[t].book)
          BY <5>1 DEF Listed
        <5>q. QED
          BY <1>0, <5>1, <5>2 DEF JobOK
      <4>2. CASE req[t].kind # "codelists"
        BY <1>0, <3>1, <4>2 DEF ReqOK, AtWork
      <4>q. QED
        BY <4>1, <4>2
    <3>3. Listed(req[t].book) \subseteq Current'
      BY <3>1, <3>2
    <3>4. ReqOK(t)'
      BY <1>0, <2>2, <3>1, <3>3, AdvanceOK
    <3>q. QED
      BY <1>0, <1>2, <2>2, <3>4, OthersOK
  <2>3. CASE AlreadyPublished(req[t].kind, req[t].book) /\ req[t].kind = "facts"
             /\ Answer(t, 409)
    <3>1. \E i \in DOMAIN jobs :
            /\ jobs[i].kind = "facts" /\ jobs[i].status \in Good
            /\ Payload("facts", jobs[i].book) = Payload("facts", req[t].book)
      BY <2>3 DEF AlreadyPublished, Good
    <3>2. ReqOK(t)'
      BY <1>0, <2>3, <3>1, AnswerOK DEF Answers
    <3>q. QED
      BY <1>0, <1>1, <2>3, <3>2, OthersOK DEF Answers
  <2>q. QED
    BY <1>5, <2>1, <2>2, <2>3 DEF Submit
<1>6. ASSUME NEW t \in Tasks, Drive(t) PROVE \A u \in Tasks : ReqOK(u)'
  <2>0. /\ req[t].step = "drive" /\ req[t].job \in DOMAIN jobs
        /\ jobs[req[t].job].kind = req[t].kind /\ jobs[req[t].job].book = req[t].book
    BY <1>0, <1>6 DEF Drive, ReqOK
  <2>1. CASE Answer(t, 400)
    BY <1>0, <1>1, <2>1, AnswerOK, OthersOK DEF Answers
  <2>2. CASE /\ jobs[req[t].job].status \in {"staged", "published"}
             /\ req[t].kind = "facts" /\ Answer(t, 202)
    <3>1. \E i \in DOMAIN jobs :
            /\ jobs[i].kind = "facts" /\ jobs[i].status \in Good
            /\ Payload("facts", jobs[i].book) = Payload("facts", req[t].book)
      BY <2>0, <2>2 DEF Good
    <3>2. ReqOK(t)'
      BY <1>0, <2>2, <3>1, AnswerOK DEF Answers
    <3>q. QED
      BY <1>0, <1>1, <2>2, <3>2, OthersOK DEF Answers
  <2>3. CASE req[t].kind \in Reference /\ Go(t, "publish", req[t].kind)
    <3>1. /\ req'[t].step = "publish" /\ req'[t].kind = req[t].kind
          /\ req'[t].book = req[t].book /\ req'[t].job = req[t].job
          /\ req'[t].widens = req[t].widens /\ req'[t].answer = req[t].answer
          /\ \A u \in Tasks \ {t} : req'[u] = req[u]
      BY <1>0, <2>3 DEF Go, TypeOK, Request
    <3>2. UNCHANGED <<jobs, members, dsd>>
      BY <1>6 DEF Drive, state
    <3>3. ReqOK(t)'
      BY <1>0, <2>0, <2>3, <3>1, <3>2
      DEF ReqOK, AtWork, Payload, Listed, Current, Reference
    <3>q. QED
      BY <1>0, <3>1, <3>3, OthersOK
  <2>q. QED
    BY <1>6, <2>1, <2>2, <2>3 DEF Drive
<1>7. ASSUME NEW t \in Tasks, Publish(t) PROVE \A u \in Tasks : ReqOK(u)'
  <2>0. /\ req[t].step = "publish" /\ Advance(t) /\ req[t].kind \in Reference
        /\ req[t].job \in DOMAIN jobs
        /\ jobs[req[t].job].kind = req[t].kind /\ jobs[req[t].job].book = req[t].book
    BY <1>0, <1>7 DEF Publish, ReqOK
  <2>1. Listed(req[t].book) \subseteq Current'
    <3>1. CASE req[t].kind # "codelists"
      BY <1>0, <2>0, <3>1 DEF ReqOK, AtWork, Onward
    <3>2. CASE req[t].kind = "codelists" /\ PublishJob(req[t].job)
      BY <1>0, <2>0, <3>2 DEF PublishJob, Current, Listed, TypeOK
    <3>3. CASE req[t].kind = "codelists" /\ jobs[req[t].job].status = "published"
      BY <1>0, <2>0, <3>3 DEF JobOK, Onward
    <3>q. QED
      BY <1>7, <3>1, <3>2, <3>3 DEF Publish
  <2>2. ReqOK(t)'
    BY <1>0, <2>0, <2>1, AdvanceOK
  <2>q. QED
    BY <1>0, <1>2, <2>0, <2>2, OthersOK
<1>8. ASSUME NEW t \in Tasks, Mint(t) PROVE \A u \in Tasks : ReqOK(u)'
  <2>1. /\ req'[t].step = "submit" /\ req'[t].kind = "facts"
        /\ req'[t].book = req[t].book /\ req'[t].answer = req[t].answer
        /\ \A u \in Tasks \ {t} : req'[u] = req[u]
    BY <1>0, <1>8 DEF Mint, Go, TypeOK, Request
  <2>2. /\ UNCHANGED <<jobs, members>> /\ Book[req[t].book].dims \subseteq dsd'
        /\ req[t].step = "mint"
    BY <1>8 DEF Mint
  <2>3. Listed(req[t].book) \subseteq Current
    BY <1>0, <2>2 DEF ReqOK, AtWork
  <2>4. ReqOK(t)'
    BY <1>0, <2>1, <2>2, <2>3 DEF ReqOK, AtWork, Payload, Listed, Current
  <2>q. QED
    BY <1>0, <2>1, <2>4, OthersOK
<1>9. \A r \in Request : /\ Lost(r).step \notin AtWork /\ Lost(r).book = r.book
                         /\ Lost(r).answer = r.answer
  BY DEF Lost, Idle, AtWork
<1>10. ASSUME NEW t \in Tasks, Break(t) PROVE \A u \in Tasks : ReqOK(u)'
  <2>1. req'[t] = Lost(req[t]) /\ \A u \in Tasks \ {t} : req'[u] = req[u]
    BY <1>0, <1>10 DEF Break, TypeOK
  <2>2. ReqOK(t)'
    BY <1>0, <1>9, <2>1, Carried
  <2>q. QED
    BY <1>0, <2>1, <2>2, OthersOK
<1>11. CASE Crash
  <2>1. \A u \in Tasks : req'[u] = Lost(req[u])
    BY <1>11 DEF Crash
  <2>q. QED
    BY <1>0, <1>9, <2>1, Carried
<1>12. CASE UNCHANGED req
  BY <1>0, <1>12, Carried
<1>q. QED
  BY <1>3, <1>4, <1>5, <1>6, <1>7, <1>8, <1>10, <1>11, <1>12
  DEF Next, Step, Drain, DrainFails, Approve, vars

LEMMA StepIInv == IInv /\ [Next]_vars => IInv'
BY TypeStep, GateStep, JobStep, ReqStep DEF IInv

LEMMA Invariant == Spec => []IInv
BY InitIInv, StepIInv, PTL DEF Spec

-----------------------------------------------------------------------------

\* Types: the counter never leaves 0..maxConcurrent, the queue never grows past its
\* bound, and the structure stays within the registered axes.
THEOREM TypeOKAlways == Spec => []TypeOK
<1>1. IInv => TypeOK
  BY DEF IInv
<1>q. QED
  BY <1>1, Invariant, PTL

\* bulkhead.ts, for any number of requests, slots and places in the queue: every
\* execution, with failures and restarts, is one of the admission gate, and the queue
\* never outgrows its bound.
THEOREM BulkheadIsAGate == Spec => ImplementsGate
<1>1. Init => Gate!GInit
  BY DEF Init, BInit, Gate!GInit
<1>2. IInv /\ [Next]_vars => [Gate!GNext \/ Gate!GRestart]_<<waiters, running>>
  BY GateStep
<1>3. IInv /\ [Next]_vars => [Gate!GNext \/ Gate!GRestart]_(Gate!gvars)
  BY <1>2 DEF Gate!gvars
<1>4. IInv => Len(waiters) <= maxQueue
  BY DEF IInv, TypeOK, BTypeOK
<1>q. QED
  BY <1>1, <1>3, <1>4, Invariant, PTL DEF Spec, ImplementsGate, Gate!GSpecR

\* canonical.ts: for any workbooks and any interleaving of uploads, approvals and faults,
\* facts are rejected for nothing but a structure that is not the dataset's.
THEOREM FactsFindTheirMembersAlways == Spec => []FactsFindTheirMembers
<1>1. IInv => FactsFindTheirMembers
  BY DEF IInv, JobOK, FactsFindTheirMembers
<1>q. QED
  BY <1>1, Invariant, PTL

\* canonical-fsm-drive.ts: an upload that is answered with 202 or 409 has left its facts,
\* however often it had broken off before.
THEOREM AnsweredFactsAreThereAlways == Spec => []AnsweredFactsAreThere
<1>1. IInv => AnsweredFactsAreThere
  BY DEF IInv, ReqOK, AnsweredFactsAreThere, Good
<1>q. QED
  BY <1>1, Invariant, PTL
=============================================================================
