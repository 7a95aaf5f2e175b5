------------------------ MODULE IngestPipelineProofs ------------------------
(***************************************************************************)
(* Theorems about the ingest pipeline for every number of submissions,     *)
(* workers, curators and faults, with parses of any length and curator     *)
(* requests that overlap.  One inductive invariant carries the types and   *)
(* the dry-run guarantee; a second one the exclusive claim and the publish *)
(* gate of the jobs no early sweep has taken from a drain; a third one the *)
(* refinement of the V11 status machine, where a job leaves the machine    *)
(* exactly when a second actor comes to it.                                *)
(***************************************************************************)
EXTENDS IngestPipeline, TLAPS

Busy(w) == worker[w].pc \in {"parse", "write"}

\* What a worker and a curator remember is set when they need it, and names a
\* job that exists.
ActorsOK ==
  /\ \A w \in Workers :
       /\ Busy(w) => worker[w].sub \in Subs /\ job[worker[w].sub] # "none"
       /\ worker[w].pc = "write" => worker[w].verdict \in Verdict
  /\ \A c \in Curators :
       curator[c].pc # "idle" =>
         curator[c].sub \in Subs /\ job[curator[c].sub] # "none"

\* A job row exists from the header on; nothing lands before, and nobody disputes.
PostOK ==
  \A s \in Subs :
    /\ post[s] \in {"idle", "checked"} => job[s] = "none"
    /\ job[s] = "none" => landed[s] = 0 /\ s \notin Disputed

\* The inductive invariant that needs no assumption on time.
BaseInv == TypeOK /\ ActorsOK /\ PostOK /\ DryRunNeverLands

Settled == {"staged", "published", "failed", "rejected"}

\* A drain at work on a claim is alone with it, and a curator is at work on a job
\* no drain will touch again, except for the jobs swept under a drain's hands.
ClaimInv ==
  /\ \A w \in Workers, s \in Subs :
       Live(w, s) /\ s \notin overdue =>
         /\ job[s] = "parsing"
         /\ \A v \in Workers : Live(v, s) => v = w
  /\ \A c \in Curators :
       curator[c].pc # "idle" /\ curator[c].sub \notin overdue =>
         job[curator[c].sub] \in Settled

\* Clean staging rows come from a committed blob, and from the curator's check on
\* they stay clean unless a second drain is let loose on the job.
GateInv ==
  /\ \A w \in Workers :
       worker[w].pc = "write" /\ worker[w].verdict # "error" =>
         blob[worker[w].sub]
  /\ \A s \in Subs :
       /\ silver[s] = "clean" => blob[s]
       /\ landed[s] > 0 => blob[s]
       /\ landed[s] > 0 /\ s \notin overdue =>
            silver[s] = "clean" /\ job[s] \in Settled
  /\ \A c \in Curators :
       curator[c].pc # "idle" =>
         /\ blob[curator[c].sub]
         /\ curator[c].sub \notin overdue => silver[curator[c].sub] = "clean"

\* The inductive invariant of claims and gates.
TimelyInv == BaseInv /\ ClaimInv /\ GateInv

\* Two requests in hand on one job have been noticed; alone with a job, a request
\* finds it staged until it commits, so a promotion and its status come together.
SerialInv ==
  /\ PublishedIffLanded
  /\ \A c \in Curators :
       curator[c].pc # "idle" /\ curator[c].sub \notin Disputed =>
         job[curator[c].sub] = "staged"
  /\ \A c, d \in Curators :
       /\ curator[c].pc # "idle" /\ curator[d].pc # "idle"
       /\ curator[c].sub = curator[d].sub
       /\ curator[c].sub \notin contested
       => c = d

-----------------------------------------------------------------------------

LEMMA BaseInit == Init => BaseInv
BY ConstantsOK DEF Init, BaseInv, TypeOK, ActorsOK, PostOK, Disputed, DryRunNeverLands,
   IdleWorker, IdleCurator, WorkerRecord, CuratorRecord, Status, Busy

LEMMA BasePost ==
  ASSUME BaseInv, NEW s \in Subs, PostStep(s)
  PROVE  BaseInv'
<1> USE DEF BaseInv, TypeOK, ActorsOK, PostOK, Disputed, DryRunNeverLands, Busy, Status,
            Fault, excuses
<1>1. ASSUME NEW p \in Payloads, NEW d \in BOOLEAN, CheckDuplicate(s, p, d)
      PROVE  BaseInv'
  BY <1>1 DEF CheckDuplicate
<1>2. CASE InsertHeader(s)
  BY <1>2 DEF InsertHeader
<1>3. CASE InsertBlob(s)
  BY <1>3 DEF InsertBlob
<1>4. CASE AbortPost(s)
  BY <1>4, ConstantsOK DEF AbortPost
<1> QED BY <1>1, <1>2, <1>3, <1>4 DEF PostStep

LEMMA BaseWorker ==
  ASSUME BaseInv, NEW w \in Workers, WorkerStep(w)
  PROVE  BaseInv'
<1> USE ConstantsOK
    DEF BaseInv, TypeOK, ActorsOK, PostOK, Disputed, DryRunNeverLands, Busy, Status,
        Fault, WorkerRecord, IdleWorker, subVars, excuses
<1>1. CASE StartDrain(w)
  BY <1>1 DEF StartDrain
<1>2. CASE Claim(w)
  BY <1>2 DEF Claim, Claimable
<1>3. CASE EndDrain(w)
  BY <1>3 DEF EndDrain
<1>4. CASE FailClaim(w)
  BY <1>4 DEF FailClaim
<1>5. CASE Parse(w)
  <2>1. PICK v \in Verdict :
          worker' = [worker EXCEPT ![w].pc = "write", ![w].verdict = v]
    BY <1>5 DEF Parse
  <2>2. worker[w] \in [pc : {"off", "drain", "parse", "write", "dead"},
                       sub : Subs \cup {NoOne}, verdict : Verdict \cup {"none"}]
    OBVIOUS
  <2>3. /\ worker'[w] = [pc |-> "write", sub |-> worker[w].sub, verdict |-> v]
        /\ \A u \in Workers \ {w} : worker'[u] = worker[u]
    BY <2>1, <2>2
  <2>4. TypeOK'
    BY <1>5, <2>1, <2>3 DEF Parse
  <2>5. ActorsOK'
    BY <1>5, <2>3 DEF Parse
  <2>6. PostOK' /\ DryRunNeverLands'
    BY <1>5 DEF Parse
  <2> QED BY <2>4, <2>5, <2>6
<1>6. CASE Persist(w)
  <2> DEFINE s == worker[w].sub
  <2>1. s \in Subs
    BY <1>6 DEF Persist
  <2>2. TypeOK'
    BY <1>6, <2>1 DEF Persist, StageStatus, Verdict
  <2>3. ActorsOK'
    BY <1>6, <2>1 DEF Persist, StageStatus, Verdict
  <2>4. PostOK'
    BY <1>6, <2>1 DEF Persist, StageStatus, Verdict
  <2>5. DryRunNeverLands'
    BY <1>6, <2>1 DEF Persist, StageStatus, Verdict
  <2> QED BY <2>2, <2>3, <2>4, <2>5
<1>7. CASE MarkFailed(w)
  <2> DEFINE s == worker[w].sub
  <2>1. s \in Subs
    BY <1>7 DEF MarkFailed
  <2>2. TypeOK'
    BY <1>7, <2>1 DEF MarkFailed
  <2>3. ActorsOK'
    BY <1>7, <2>1 DEF MarkFailed
  <2>4. PostOK'
    BY <1>7, <2>1 DEF MarkFailed
  <2>5. DryRunNeverLands'
    BY <1>7, <2>1 DEF MarkFailed
  <2> QED BY <2>2, <2>3, <2>4, <2>5
<1>8. CASE LoseFailure(w)
  BY <1>8 DEF LoseFailure
<1>9. CASE CrashWorker(w)
  BY <1>9 DEF CrashWorker
<1>10. CASE Boot(w)
  BY <1>10 DEF Boot, Stranded, Outlived, Live
<1> QED
  BY <1>1, <1>2, <1>3, <1>4, <1>5, <1>6, <1>7, <1>8, <1>9, <1>10 DEF WorkerStep

LEMMA BaseCurator ==
  ASSUME BaseInv, NEW c \in Curators, CuratorStep(c)
  PROVE  BaseInv'
<1> USE ConstantsOK
    DEF BaseInv, TypeOK, ActorsOK, PostOK, Disputed, DryRunNeverLands, Busy, Status,
        Fault, CuratorRecord, IdleCurator, subVars, excuses
<1>1. ASSUME NEW s \in Subs, CheckStaged(c, s)
      PROVE  BaseInv'
  BY <1>1 DEF CheckStaged, Contest, InHand
<1>2. ASSUME NEW s \in Subs, Reject(c, s)
      PROVE  BaseInv'
  BY <1>2 DEF Reject, Contest, InHand
<1>3. CASE BeginPublish(c)
  BY <1>3 DEF BeginPublish
<1>4. CASE CommitPublish(c)
  <2> DEFINE s == curator[c].sub
  <2>1. s \in Subs
    BY <1>4 DEF CommitPublish
  <2>2. TypeOK'
    BY <1>4, <2>1 DEF CommitPublish
  <2>3. ActorsOK'
    BY <1>4, <2>1 DEF CommitPublish
  <2>4. PostOK'
    BY <1>4, <2>1 DEF CommitPublish
  <2>5. DryRunNeverLands'
    BY <1>4, <2>1 DEF CommitPublish
  <2> QED BY <2>2, <2>3, <2>4, <2>5
<1>5. CASE RollbackDryRun(c)
  BY <1>5 DEF RollbackDryRun
<1>6. CASE Restage(c)
  <2> DEFINE s == curator[c].sub
  <2>1. s \in Subs
    BY <1>6 DEF Restage
  <2>2. TypeOK'
    BY <1>6, <2>1 DEF Restage
  <2>3. ActorsOK'
    BY <1>6, <2>1 DEF Restage
  <2>4. PostOK'
    BY <1>6, <2>1 DEF Restage
  <2>5. DryRunNeverLands'
    BY <1>6, <2>1 DEF Restage
  <2> QED BY <2>2, <2>3, <2>4, <2>5
<1>7. CASE FailPublish(c)
  BY <1>7 DEF FailPublish
<1>8. CASE MarkPublishFailed(c)
  <2> DEFINE s == curator[c].sub
  <2>1. s \in Subs
    BY <1>8 DEF MarkPublishFailed
  <2>2. TypeOK'
    BY <1>8, <2>1 DEF MarkPublishFailed
  <2>3. ActorsOK'
    BY <1>8, <2>1 DEF MarkPublishFailed
  <2>4. PostOK'
    BY <1>8, <2>1 DEF MarkPublishFailed
  <2>5. DryRunNeverLands'
    BY <1>8, <2>1 DEF MarkPublishFailed
  <2> QED BY <2>2, <2>3, <2>4, <2>5
<1>9. CASE CrashCurator(c)
  BY <1>9 DEF CrashCurator
<1> QED
  BY <1>1, <1>2, <1>3, <1>4, <1>5, <1>6, <1>7, <1>8, <1>9 DEF CuratorStep

LEMMA BaseStep == BaseInv /\ [Next]_vars => BaseInv'
<1> SUFFICES ASSUME BaseInv, [Next]_vars PROVE BaseInv'
  OBVIOUS
<1>1. ASSUME NEW s \in Subs, Age(s) PROVE BaseInv'
  BY <1>1 DEF Age, BaseInv, TypeOK, ActorsOK, PostOK, Disputed, DryRunNeverLands, Busy,
              subVars, excuses
<1>2. CASE UNCHANGED vars
  BY <1>2 DEF vars, BaseInv, TypeOK, ActorsOK, PostOK, Disputed, DryRunNeverLands, Busy
<1> QED BY <1>1, <1>2, BasePost, BaseWorker, BaseCurator DEF Next

\* In every behaviour of the pipeline, for any number of actors and faults, the
\* job table and the actors have their types.
THEOREM TypeCorrect == Spec => []TypeOK
<1>1. BaseInv => TypeOK
  BY DEF BaseInv
<1> QED BY <1>1, BaseInit, BaseStep, PTL DEF Spec

\* A dry run never reaches gold or status published, whatever publish and reject
\* requests, drains, crashes and sweeps interleave to, and even if parses outlive
\* the visibility timeout (V11, publish.ts dry-run branch).
THEOREM DryRunsNeverLand == Spec => []DryRunNeverLands
<1>1. BaseInv => DryRunNeverLands
  BY DEF BaseInv
<1> QED BY <1>1, BaseInit, BaseStep, PTL DEF Spec

-----------------------------------------------------------------------------

LEMMA TimelyInit == Init => TimelyInv
BY BaseInit DEF Init, TimelyInv, ClaimInv, GateInv, IdleWorker, IdleCurator, Live

LEMMA TimelyPost ==
  ASSUME TimelyInv, NEW s \in Subs, PostStep(s)
  PROVE  ClaimInv' /\ GateInv'
<1> USE DEF TimelyInv, BaseInv, TypeOK, ActorsOK, PostOK, Busy, ClaimInv,
            GateInv, Live, Settled, excuses
<1>1. ASSUME NEW p \in Payloads, NEW d \in BOOLEAN, CheckDuplicate(s, p, d)
      PROVE  ClaimInv' /\ GateInv'
  BY <1>1 DEF CheckDuplicate
<1>2. CASE InsertHeader(s)
  BY <1>2 DEF InsertHeader
<1>3. CASE InsertBlob(s)
  BY <1>3 DEF InsertBlob
<1>4. CASE AbortPost(s)
  BY <1>4 DEF AbortPost
<1> QED BY <1>1, <1>2, <1>3, <1>4 DEF PostStep

LEMMA TimelyWorker ==
  ASSUME TimelyInv, NEW w \in Workers, WorkerStep(w)
  PROVE  ClaimInv' /\ GateInv'
<1> USE DEF TimelyInv, BaseInv, TypeOK, ActorsOK, Busy, ClaimInv, GateInv,
            Live, Settled, WorkerRecord, IdleWorker, subVars, excuses
<1>1. CASE StartDrain(w)
  <2>1. ClaimInv'
    BY <1>1 DEF StartDrain
  <2>2. GateInv'
    BY <1>1 DEF StartDrain
  <2> QED BY <2>1, <2>2
<1>2. CASE Claim(w)
  <2>1. ClaimInv'
    BY <1>2 DEF Claim, Claimable
  <2>2. GateInv'
    BY <1>2 DEF Claim, Claimable
  <2> QED BY <2>1, <2>2
<1>3. CASE EndDrain(w)
  <2>1. ClaimInv'
    BY <1>3 DEF EndDrain
  <2>2. GateInv'
    BY <1>3 DEF EndDrain
  <2> QED BY <2>1, <2>2
<1>4. CASE FailClaim(w)
  <2>1. ClaimInv'
    BY <1>4 DEF FailClaim
  <2>2. GateInv'
    BY <1>4 DEF FailClaim
  <2> QED BY <2>1, <2>2
<1>5. CASE Parse(w)
  <2>1. ClaimInv'
    BY <1>5 DEF Parse
  <2>2. GateInv'
    BY <1>5 DEF Parse
  <2> QED BY <2>1, <2>2
<1>6. CASE Persist(w)
  <2>1. ClaimInv'
    BY <1>6 DEF Persist, StageStatus
  <2> DEFINE s == worker[w].sub
             v == worker[w].verdict
  <2>2. /\ s \in Subs /\ blob[s] /\ blob' = blob
        /\ silver' = [silver EXCEPT ![s] = v]
        /\ job' = [job EXCEPT ![s] = StageStatus(v)]
        /\ UNCHANGED <<landed, curator, overdue>>
    BY <1>6 DEF Persist
  <2>3. s \notin overdue =>
          landed[s] = 0 /\ \A c \in Curators :
                              curator[c].pc # "idle" => curator[c].sub # s
    BY <1>6 DEF Persist
  <2>4. \A u \in Workers :
          worker'[u].pc = "write" /\ worker'[u].verdict # "error" =>
            blob'[worker'[u].sub]
    BY <1>6, <2>2 DEF Persist
  <2>5. \A t \in Subs :
          /\ silver'[t] = "clean" => blob'[t]
          /\ landed'[t] > 0 => blob'[t]
          /\ landed'[t] > 0 /\ t \notin overdue' =>
               silver'[t] = "clean" /\ job'[t] \in Settled
    BY <2>2, <2>3
  <2>6. \A c \in Curators :
          curator'[c].pc # "idle" =>
            /\ blob'[curator'[c].sub]
            /\ curator'[c].sub \notin overdue'
                 => silver'[curator'[c].sub] = "clean"
    BY <2>2, <2>3
  <2> QED BY <2>1, <2>4, <2>5, <2>6
<1>7. CASE MarkFailed(w)
  <2>1. ClaimInv'
    BY <1>7 DEF MarkFailed
  <2>2. GateInv'
    BY <1>7 DEF MarkFailed
  <2> QED BY <2>1, <2>2
<1>8. CASE LoseFailure(w)
  <2>1. ClaimInv'
    BY <1>8 DEF LoseFailure
  <2>2. GateInv'
    BY <1>8 DEF LoseFailure
  <2> QED BY <2>1, <2>2
<1>9. CASE CrashWorker(w)
  <2>1. ClaimInv'
    BY <1>9 DEF CrashWorker
  <2>2. GateInv'
    BY <1>9 DEF CrashWorker
  <2> QED BY <2>1, <2>2
<1>10. CASE Boot(w)
  <2>1. ClaimInv'
    BY <1>10 DEF Boot, Stranded, Outlived, Live
  <2>2. GateInv'
    BY <1>10 DEF Boot, Stranded, Outlived, Live
  <2> QED BY <2>1, <2>2
<1> QED
  BY <1>1, <1>2, <1>3, <1>4, <1>5, <1>6, <1>7, <1>8, <1>9, <1>10 DEF WorkerStep

LEMMA TimelyCurator ==
  ASSUME TimelyInv, NEW c \in Curators, CuratorStep(c)
  PROVE  ClaimInv' /\ GateInv'
<1> USE ConstantsOK
    DEF TimelyInv, BaseInv, TypeOK, ActorsOK, Busy, ClaimInv, GateInv, Live,
        Settled, CuratorRecord, IdleCurator, subVars, excuses
<1>1. ASSUME NEW s \in Subs, CheckStaged(c, s)
      PROVE  ClaimInv' /\ GateInv'
  BY <1>1 DEF CheckStaged, Contest, InHand
<1>2. ASSUME NEW s \in Subs, Reject(c, s)
      PROVE  ClaimInv' /\ GateInv'
  BY <1>2 DEF Reject, Contest, InHand
<1>3. CASE BeginPublish(c)
  <2>1. ClaimInv'
    BY <1>3 DEF BeginPublish
  <2>2. GateInv'
    BY <1>3 DEF BeginPublish
  <2> QED BY <2>1, <2>2
<1>4. CASE CommitPublish(c)
  <2>1. ClaimInv'
    BY <1>4 DEF CommitPublish
  <2>2. GateInv'
    BY <1>4 DEF CommitPublish
  <2> QED BY <2>1, <2>2
<1>5. CASE RollbackDryRun(c)
  <2>1. ClaimInv'
    BY <1>5 DEF RollbackDryRun
  <2>2. GateInv'
    BY <1>5 DEF RollbackDryRun
  <2> QED BY <2>1, <2>2
<1>6. CASE Restage(c)
  <2>1. ClaimInv'
    BY <1>6 DEF Restage
  <2>2. GateInv'
    BY <1>6 DEF Restage
  <2> QED BY <2>1, <2>2
<1>7. CASE FailPublish(c)
  <2>1. ClaimInv'
    BY <1>7 DEF FailPublish
  <2>2. GateInv'
    BY <1>7 DEF FailPublish
  <2> QED BY <2>1, <2>2
<1>8. CASE MarkPublishFailed(c)
  <2>1. ClaimInv'
    BY <1>8 DEF MarkPublishFailed
  <2>2. GateInv'
    BY <1>8 DEF MarkPublishFailed
  <2> QED BY <2>1, <2>2
<1>9. CASE CrashCurator(c)
  <2>1. ClaimInv'
    BY <1>9 DEF CrashCurator
  <2>2. GateInv'
    BY <1>9 DEF CrashCurator
  <2> QED BY <2>1, <2>2
<1> QED
  BY <1>1, <1>2, <1>3, <1>4, <1>5, <1>6, <1>7, <1>8, <1>9 DEF CuratorStep

LEMMA TimelyStep ==
  ASSUME TimelyInv, [Next]_vars
  PROVE  TimelyInv'
<1>1. BaseInv'
  BY BaseStep DEF TimelyInv
<1>2. ASSUME NEW s \in Subs, Age(s) PROVE ClaimInv' /\ GateInv'
  BY <1>2 DEF Age, TimelyInv, BaseInv, TypeOK, ClaimInv, GateInv, Live, subVars, excuses
<1>3. CASE UNCHANGED vars
  BY <1>1, <1>3 DEF vars, TimelyInv, ClaimInv, GateInv, Live
<1> QED
  BY <1>1, <1>2, <1>3, TimelyPost, TimelyWorker, TimelyCurator
  DEF Next, TimelyInv

\* Unless its parse outlived the visibility timeout and a sweep came by, a drain at
\* work on a job is alone with it and finds it in 'parsing', so its UPDATE by id
\* alone hits its own claim (worker.ts, reclaim.ts) - for any number of processes,
\* jobs and crashes.
THEOREM ClaimsAreExclusive == Spec => []ClaimIsExclusive
<1>1. TimelyInv => ClaimIsExclusive
  BY DEF TimelyInv, ClaimInv, ClaimIsExclusive
<1>2. TimelyInv /\ [Next]_vars => TimelyInv'
  BY TimelyStep
<1> QED BY <1>1, <1>2, TimelyInit, PTL DEF Spec

\* The curator gate cannot be bypassed: whatever is in gold or being promoted was
\* staged from a durable blob and stays clean unless a second drain parses it
\* again, for any number of concurrent publish and reject requests (publish.ts).
THEOREM OnlyGatedGold == Spec => []GoldIsGated
<1>1. TimelyInv => GoldIsGated
  BY DEF TimelyInv, BaseInv, GateInv, ActorsOK, GoldIsGated
<1>2. TimelyInv /\ [Next]_vars => TimelyInv'
  BY TimelyStep
<1> QED BY <1>1, <1>2, TimelyInit, PTL DEF Spec

-----------------------------------------------------------------------------
(* The pipeline implements the V11 machine.                                *)

LEMMA SerialStep ==
  ASSUME TimelyInv, SerialInv, [Next]_vars
  PROVE  SerialInv'
<1> USE ConstantsOK
    DEF TimelyInv, BaseInv, TypeOK, ActorsOK, PostOK, Busy, ClaimInv, GateInv,
        Live, Settled, SerialInv, PublishedIffLanded, Disputed, subVars, excuses
<1>1. ASSUME NEW s \in Subs, PostStep(s) PROVE SerialInv'
  <2>1. CASE InsertHeader(s)
    BY <2>1 DEF InsertHeader
  <2> QED BY <1>1, <2>1 DEF PostStep, CheckDuplicate, InsertBlob, AbortPost
<1>2. ASSUME NEW s \in Subs, Age(s) PROVE SerialInv'
  BY <1>2 DEF Age
<1>3. ASSUME NEW w \in Workers, WorkerStep(w) PROVE SerialInv'
  <2>1. CASE StartDrain(w)
    BY <2>1 DEF StartDrain
  <2>2. CASE Claim(w)
    BY <2>2 DEF Claim, Claimable
  <2>3. CASE EndDrain(w)
    BY <2>3 DEF EndDrain
  <2>4. CASE FailClaim(w)
    BY <2>4 DEF FailClaim
  <2>5. CASE Parse(w)
    BY <2>5 DEF Parse
  <2>6. CASE Persist(w)
    BY <2>6 DEF Persist, StageStatus
  <2>7. CASE MarkFailed(w)
    BY <2>7 DEF MarkFailed
  <2>8. CASE LoseFailure(w)
    BY <2>8 DEF LoseFailure
  <2>9. CASE CrashWorker(w)
    BY <2>9 DEF CrashWorker
  <2>10. CASE Boot(w)
    BY <2>10 DEF Boot, Stranded, Outlived, Live
  <2> QED
    BY <1>3, <2>1, <2>2, <2>3, <2>4, <2>5, <2>6, <2>7, <2>8, <2>9, <2>10
    DEF WorkerStep
<1>4. ASSUME NEW c \in Curators, CuratorStep(c) PROVE SerialInv'
  <2> USE DEF CuratorRecord, IdleCurator
  <2>1. ASSUME NEW s \in Subs, CheckStaged(c, s) PROVE SerialInv'
    BY <2>1 DEF CheckStaged, Contest, InHand
  <2>2. ASSUME NEW s \in Subs, Reject(c, s) PROVE SerialInv'
    BY <2>2 DEF Reject, Contest, InHand
  <2>3. CASE BeginPublish(c)
    BY <2>3 DEF BeginPublish
  <2>4. CASE CommitPublish(c)
    BY <2>4 DEF CommitPublish
  <2>5. CASE RollbackDryRun(c)
    BY <2>5 DEF RollbackDryRun
  <2>6. CASE Restage(c)
    BY <2>6 DEF Restage
  <2>7. CASE FailPublish(c)
    BY <2>7 DEF FailPublish
  <2>8. CASE MarkPublishFailed(c)
    BY <2>8 DEF MarkPublishFailed
  <2>9. CASE CrashCurator(c)
    BY <2>9 DEF CrashCurator
  <2> QED
    BY <1>4, <2>1, <2>2, <2>3, <2>4, <2>5, <2>6, <2>7, <2>8, <2>9
    DEF CuratorStep
<1>5. CASE UNCHANGED vars
  BY <1>5 DEF vars
<1> QED BY <1>1, <1>2, <1>3, <1>4, <1>5 DEF Next

\* A job that nobody disputes moves in the machine as its row does.
LEMMA MoveJob ==
  ASSUME TypeOK, NEW t \in Subs, NEW from, NEW to,
         t \notin Disputed, job[t] = from, job' = [job EXCEPT ![t] = to],
         UNCHANGED <<landed, dry, excuses>>
  PROVE  Lifecycle!Move(t, from, to)
BY DEF TypeOK, Disputed, excuses, Lifecycle!Move

\* The row of a disputed job is no longer looked at.
LEMMA DisputedStutters ==
  ASSUME TypeOK, NEW t \in Subs, NEW to,
         t \in Disputed, job' = [job EXCEPT ![t] = to],
         UNCHANGED <<landed, dry, excuses>>
  PROVE  UNCHANGED Lifecycle!lvars
BY DEF TypeOK, Disputed, excuses, Lifecycle!lvars

\* A step that leaves the rows and the disputes alone is a stutter.
LEMMA RowsStutter ==
  ASSUME UNCHANGED <<job, landed, dry, excuses>>
  PROVE  UNCHANGED Lifecycle!lvars
BY DEF Disputed, excuses, Lifecycle!lvars

LEMMA PostImplements ==
  ASSUME TimelyInv, NEW s \in Subs, PostStep(s)
  PROVE  [Lifecycle!LNext]_(Lifecycle!lvars)
<1> USE DEF TimelyInv, BaseInv, excuses
<1>1. ASSUME NEW p \in Payloads, NEW d \in BOOLEAN, CheckDuplicate(s, p, d)
      PROVE  [Lifecycle!LNext]_(Lifecycle!lvars)
  <2>1. dry' = [dry EXCEPT ![s] = d] /\ job[s] = "none"
    BY <1>1 DEF CheckDuplicate, PostOK
  <2>2. UNCHANGED <<job, landed, contested, overdue>>
    BY <1>1 DEF CheckDuplicate
  <2>3. CASE s \in Disputed
    BY <2>1, <2>3 DEF PostOK
  <2>4. CASE s \notin Disputed
    <3>1. [t \in Subs |-> IF t \in Disputed THEN "disputed" ELSE job[t]][s]
            = "none"
      BY <2>1, <2>4
    <3>2. UNCHANGED [t \in Subs |-> IF t \in Disputed THEN "disputed"
                                    ELSE job[t]]
      BY <2>2 DEF Disputed
    <3>3. UNCHANGED {t \in Subs : landed[t] > 0}
      BY <2>2
    <3>4. \E e \in BOOLEAN : dry' = [dry EXCEPT ![s] = e]
      BY <2>1, Zenon
    <3>5. Lifecycle!Prepare(s)
      BY <3>1, <3>2, <3>3, <3>4, Zenon DEF Lifecycle!Prepare
    <3> QED BY <3>5 DEF Lifecycle!LNext
  <2> QED BY <2>3, <2>4
<1>2. CASE InsertHeader(s)
  <2>1. job[s] = "none" /\ job' = [job EXCEPT ![s] = "received"]
        /\ UNCHANGED <<landed, dry, excuses>>
    BY <1>2 DEF InsertHeader, PostOK
  <2>2. s \notin Disputed
    BY <2>1 DEF PostOK
  <2>3. Lifecycle!Receive(s)
    BY <2>1, <2>2, MoveJob DEF Lifecycle!Receive
  <2> QED BY <2>3 DEF Lifecycle!LNext
<1>3. CASE InsertBlob(s) \/ AbortPost(s)
  BY <1>3, RowsStutter DEF InsertBlob, AbortPost
<1> QED BY <1>1, <1>2, <1>3 DEF PostStep

\* A drain ends a claim of its own, or one that was taken out of its hands.
LEMMA ClaimEnds ==
  ASSUME TimelyInv, NEW s \in Subs, NEW w \in Workers, Live(w, s),
         NEW to \in {"staged", "rejected", "failed"},
         job' = [job EXCEPT ![s] = to], UNCHANGED <<landed, dry, excuses>>
  PROVE  [Lifecycle!LNext]_(Lifecycle!lvars)
<1>1. CASE s \in Disputed
  BY <1>1, DisputedStutters DEF TimelyInv, BaseInv
<1>2. CASE s \notin Disputed
  <2>1. job[s] = "parsing"
    BY <1>2 DEF TimelyInv, ClaimInv, Disputed
  <2>2. Lifecycle!Move(s, "parsing", to)
    BY <1>2, <2>1, MoveJob DEF TimelyInv, BaseInv
  <2>3. Lifecycle!Settle(s)
    BY <2>2 DEF Lifecycle!Settle
  <2> QED BY <2>3 DEF Lifecycle!LNext
<1> QED BY <1>1, <1>2

LEMMA WorkerImplements ==
  ASSUME TimelyInv, NEW w \in Workers, WorkerStep(w)
  PROVE  [Lifecycle!LNext]_(Lifecycle!lvars)
<1> DEFINE s == worker[w].sub
<1>1. CASE Claim(w)
  <2>1. PICK t \in Subs : /\ job[t] = "received"
                          /\ job' = [job EXCEPT ![t] = "parsing"]
    BY <1>1 DEF Claim, Claimable
  <2>2. UNCHANGED <<landed, dry, excuses>>
    BY <1>1 DEF Claim, subVars
  <2>3. CASE t \in Disputed
    BY <2>1, <2>2, <2>3, DisputedStutters DEF TimelyInv, BaseInv
  <2>4. CASE t \notin Disputed
    <3>1. Lifecycle!Move(t, "received", "parsing")
      BY <2>1, <2>2, <2>4, MoveJob DEF TimelyInv, BaseInv
    <3> QED BY <3>1 DEF Lifecycle!ClaimJob, Lifecycle!LNext
  <2> QED BY <2>3, <2>4
<1>2. CASE Persist(w)
  <2>1. s \in Subs /\ Live(w, s)
    BY <1>2 DEF Persist, Live, TimelyInv, BaseInv, ActorsOK, Busy
  <2>2. StageStatus(worker[w].verdict) \in {"staged", "rejected", "failed"}
    BY DEF StageStatus
  <2>3. /\ job' = [job EXCEPT ![s] = StageStatus(worker[w].verdict)]
        /\ UNCHANGED <<landed, dry, excuses>>
    BY <1>2 DEF Persist, subVars
  <2> QED BY <2>1, <2>2, <2>3, ClaimEnds
<1>3. CASE MarkFailed(w)
  <2>1. s \in Subs /\ Live(w, s)
    BY <1>3 DEF MarkFailed, Live, TimelyInv, BaseInv, ActorsOK, Busy
  <2>2. job' = [job EXCEPT ![s] = "failed"] /\ UNCHANGED <<landed, dry, excuses>>
    BY <1>3 DEF MarkFailed, subVars
  <2> QED BY <2>1, <2>2, ClaimEnds
<1>4. CASE Boot(w)
  <2> DEFINE S == {t \in Subs : Stranded(t) /\ t \notin Disputed}
             T == Outlived \ Disputed
             P == {t \in Subs : [u \in Subs |-> IF u \in Disputed THEN "disputed"
                                                ELSE job[u]][t] = "parsing"}
  <2>1. S \in SUBSET P
    BY DEF Stranded
  <2>2. T \in SUBSET P
    BY DEF Outlived, Disputed, TimelyInv, ClaimInv
  <2>3. /\ overdue' = overdue \cup Outlived
        /\ job' = [t \in Subs |-> IF Stranded(t) THEN "received" ELSE job[t]]
        /\ UNCHANGED <<contested, landed, dry>>
    BY <1>4 DEF Boot, subVars
  <2>4. \A t \in Subs : t \in Disputed' <=> t \in T \/ t \in Disputed
    BY <2>3 DEF Disputed
  <2>5. [t \in Subs |-> IF t \in Disputed THEN "disputed" ELSE job[t]]'
          = [t \in Subs |->
               IF t \in T THEN "disputed" ELSE IF t \in S THEN "received"
               ELSE [u \in Subs |-> IF u \in Disputed THEN "disputed"
                                    ELSE job[u]][t]]
    BY <2>3, <2>4
  <2>6. UNCHANGED {t \in Subs : landed[t] > 0}
    BY <2>3
  <2>7. Lifecycle!Requeue
    BY <2>1, <2>2, <2>3, <2>5, <2>6, Zenon DEF Lifecycle!Requeue
  <2> QED BY <2>7 DEF Lifecycle!LNext
<1>5. CASE \/ StartDrain(w) \/ EndDrain(w) \/ FailClaim(w) \/ Parse(w)
           \/ LoseFailure(w) \/ CrashWorker(w)
  BY <1>5, RowsStutter
  DEF StartDrain, EndDrain, FailClaim, Parse, LoseFailure, CrashWorker, subVars
<1> QED BY <1>1, <1>2, <1>3, <1>4, <1>5 DEF WorkerStep

\* The step that contests a staged job takes it out of the machine; a request on a
\* job that is out already changes nothing more.
LEMMA ContestImplements ==
  ASSUME TimelyInv, NEW t \in Subs, job[t] = "staged",
         \A u \in Subs \ {t} : job'[u] = job[u],
         contested' = contested \cup {t}, UNCHANGED <<overdue, landed, dry>>
  PROVE  [Lifecycle!LNext]_(Lifecycle!lvars)
<1>1. CASE t \in Disputed
  BY <1>1 DEF TimelyInv, BaseInv, TypeOK, Disputed, Lifecycle!lvars
<1>2. CASE t \notin Disputed
  <2>1. Lifecycle!Contest(t)
    BY <1>2 DEF TimelyInv, BaseInv, TypeOK, Disputed, Lifecycle!Contest,
                Lifecycle!Move
  <2> QED BY <2>1 DEF Lifecycle!LNext
<1> QED BY <1>1, <1>2

\* A staged job is declined, or it is disputed and nothing is said of it.
LEMMA DeclineImplements ==
  ASSUME TimelyInv, NEW t \in Subs, NEW to \in {"rejected", "failed"},
         t \notin Disputed => job[t] = "staged",
         job' = [job EXCEPT ![t] = to], UNCHANGED <<landed, dry, excuses>>
  PROVE  [Lifecycle!LNext]_(Lifecycle!lvars)
<1>1. CASE t \in Disputed
  BY <1>1, DisputedStutters DEF TimelyInv, BaseInv
<1>2. CASE t \notin Disputed
  <2>1. Lifecycle!Move(t, "staged", to)
    BY <1>2, MoveJob DEF TimelyInv, BaseInv
  <2>2. Lifecycle!Decline(t)
    BY <2>1 DEF Lifecycle!Decline
  <2> QED BY <2>2 DEF Lifecycle!LNext
<1> QED BY <1>1, <1>2

LEMMA CuratorImplements ==
  ASSUME TimelyInv, SerialInv, NEW c \in Curators, CuratorStep(c)
  PROVE  [Lifecycle!LNext]_(Lifecycle!lvars)
<1> DEFINE s == curator[c].sub
<1>1. ASSUME NEW t \in Subs, CheckStaged(c, t)
      PROVE  [Lifecycle!LNext]_(Lifecycle!lvars)
  <2>1. job[t] = "staged" /\ UNCHANGED <<job, overdue, landed, dry>>
    BY <1>1 DEF CheckStaged, subVars
  <2>2. CASE InHand(t)
    BY <1>1, <2>1, <2>2, ContestImplements DEF CheckStaged, Contest
  <2>3. CASE ~InHand(t)
    BY <1>1, <2>1, <2>3, RowsStutter DEF CheckStaged, Contest, excuses
  <2> QED BY <2>2, <2>3
<1>2. ASSUME NEW t \in Subs, Reject(c, t)
      PROVE  [Lifecycle!LNext]_(Lifecycle!lvars)
  <2>1. /\ job[t] = "staged" /\ job' = [job EXCEPT ![t] = "rejected"]
        /\ UNCHANGED <<overdue, landed, dry>>
    BY <1>2 DEF Reject, subVars
  <2>2. CASE InHand(t)
    <3>1. \A u \in Subs \ {t} : job'[u] = job[u]
      BY <2>1 DEF TimelyInv, BaseInv, TypeOK
    <3> QED BY <1>2, <2>1, <2>2, <3>1, ContestImplements DEF Reject, Contest
  <2>3. CASE ~InHand(t)
    <3>1. UNCHANGED excuses
      BY <1>2, <2>3 DEF Reject, Contest, excuses
    <3> QED BY <2>1, <3>1, DeclineImplements
  <2> QED BY <2>2, <2>3
<1>3. CASE CommitPublish(c)
  <2>1. PICK u \in Subs : /\ u = s
                          /\ u \notin Disputed => job[u] = "staged"
    BY <1>3 DEF CommitPublish, TimelyInv, BaseInv, ActorsOK, SerialInv
  <2>2. /\ ~dry[u] /\ job' = [job EXCEPT ![u] = "published"]
        /\ landed' = [landed EXCEPT ![u] = IF @ < MaxLandings THEN @ + 1 ELSE @]
        /\ UNCHANGED <<dry, excuses>>
    BY <1>3, <2>1 DEF CommitPublish, subVars
  <2>3. {t \in Subs : landed'[t] > 0} = {t \in Subs : landed[t] > 0} \cup {u}
    BY <2>1, <2>2, ConstantsOK DEF TimelyInv, BaseInv, TypeOK
  <2>4. CASE u \in Disputed
    <3>1. UNCHANGED [t \in Subs |-> IF t \in Disputed THEN "disputed"
                                    ELSE job[t]]
      BY <2>1, <2>2, <2>4 DEF TimelyInv, BaseInv, TypeOK, Disputed, excuses
    <3>2. [t \in Subs |-> IF t \in Disputed THEN "disputed" ELSE job[t]][u]
            = "disputed"
      BY <2>1, <2>4
    <3>3. Lifecycle!PromoteDisputed(u)
      BY <2>2, <2>3, <3>1, <3>2, Zenon DEF Lifecycle!PromoteDisputed
    <3> QED BY <2>1, <3>3 DEF Lifecycle!LNext
  <2>5. CASE u \notin Disputed
    <3>1. [t \in Subs |-> IF t \in Disputed THEN "disputed" ELSE job[t]]'
            = [[t \in Subs |-> IF t \in Disputed THEN "disputed" ELSE job[t]]
                 EXCEPT ![u] = "published"]
      BY <2>1, <2>2, <2>5 DEF TimelyInv, BaseInv, TypeOK, Disputed, excuses
    <3>2. [t \in Subs |-> IF t \in Disputed THEN "disputed" ELSE job[t]][u]
            = "staged"
      BY <2>1, <2>5
    <3>3. Lifecycle!Promote(u)
      BY <2>2, <2>3, <3>1, <3>2, Zenon DEF Lifecycle!Promote
    <3> QED BY <2>1, <3>3 DEF Lifecycle!LNext
  <2> QED BY <2>4, <2>5
<1>4. CASE Restage(c)
  <2>1. s \in Subs /\ (s \notin Disputed => job[s] = "staged")
    BY <1>4 DEF Restage, TimelyInv, BaseInv, ActorsOK, SerialInv
  <2>2. job' = [job EXCEPT ![s] = "staged"] /\ UNCHANGED <<landed, dry, excuses>>
    BY <1>4 DEF Restage, subVars
  <2>3. CASE s \in Disputed
    BY <2>1, <2>2, <2>3, DisputedStutters DEF TimelyInv, BaseInv
  <2>4. CASE s \notin Disputed
    <3>1. job' = job
      BY <2>1, <2>2, <2>4 DEF TimelyInv, BaseInv, TypeOK
    <3> QED BY <2>2, <3>1, RowsStutter
  <2> QED BY <2>3, <2>4
<1>5. CASE MarkPublishFailed(c)
  <2>1. s \in Subs /\ (s \notin Disputed => job[s] = "staged")
    BY <1>5 DEF MarkPublishFailed, TimelyInv, BaseInv, ActorsOK, SerialInv
  <2>2. job' = [job EXCEPT ![s] = "failed"] /\ UNCHANGED <<landed, dry, excuses>>
    BY <1>5 DEF MarkPublishFailed, subVars
  <2> QED BY <2>1, <2>2, DeclineImplements
<1>6. CASE \/ BeginPublish(c) \/ RollbackDryRun(c) \/ FailPublish(c)
           \/ CrashCurator(c)
  BY <1>6, RowsStutter
  DEF BeginPublish, RollbackDryRun, FailPublish, CrashCurator, subVars
<1> QED BY <1>1, <1>2, <1>3, <1>4, <1>5, <1>6 DEF CuratorStep

\* Every step of the pipeline is a step of the V11 status machine or a stutter.
LEMMA StepImplements ==
  ASSUME TimelyInv, SerialInv, [Next]_vars
  PROVE  [Lifecycle!LNext]_(Lifecycle!lvars)
<1>1. ASSUME NEW s \in Subs, Age(s)
      PROVE  [Lifecycle!LNext]_(Lifecycle!lvars)
  BY <1>1, RowsStutter DEF Age, subVars
<1>2. CASE UNCHANGED vars
  BY <1>2, RowsStutter DEF vars, excuses
<1> QED
  BY <1>1, <1>2, PostImplements, WorkerImplements, CuratorImplements DEF Next

\* The pipeline implements the status machine of V11, whatever drains, crashes,
\* lost statements, sweeps and overlapping requests do: a job follows the machine
\* until the very step at which a second curator or drain comes to it.
THEOREM PipelineImplementsLifecycle ==
  Spec => ImplementsLifecycle
<1>1. Init => Lifecycle!LInit
  BY DEF Init, Disputed, Lifecycle!LInit
<1>2. Init => SerialInv
  BY DEF Init, SerialInv, PublishedIffLanded, IdleCurator
<1>3. TimelyInv /\ [Next]_vars => TimelyInv'
  BY TimelyStep
<1>4. TimelyInv /\ SerialInv /\ [Next]_vars => SerialInv'
  BY SerialStep
<1>5. TimelyInv /\ SerialInv /\ [Next]_vars
        => [Lifecycle!LNext]_(Lifecycle!lvars)
  BY StepImplements
<1> QED
  BY <1>1, <1>2, <1>3, <1>4, <1>5, TimelyInit, PTL
  DEF Spec, ImplementsLifecycle, Lifecycle!LSpec

\* Whatever is published is in gold, and of the jobs no two actors have had in hand
\* at once gold holds exactly the published ones, each once.
THEOREM PublishedExactlyOnce ==
  Spec => []PublishedIffLanded
<1>1. Init => SerialInv
  BY DEF Init, SerialInv, PublishedIffLanded, IdleCurator
<1>2. TimelyInv /\ [Next]_vars => TimelyInv'
  BY TimelyStep
<1>3. TimelyInv /\ SerialInv /\ [Next]_vars => SerialInv'
  BY SerialStep
<1>4. SerialInv => PublishedIffLanded
  BY DEF SerialInv
<1> QED BY <1>1, <1>2, <1>3, <1>4, TimelyInit, PTL DEF Spec
=============================================================================
