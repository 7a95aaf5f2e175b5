------------------------- MODULE SubmissionLifecycle -------------------------
(***************************************************************************)
(* What the staging migration (V11) promises of one job: a status machine  *)
(* with terminal states, in which gold is written exactly by the step that *)
(* publishes, and a dry run never gets there.                              *)
(***************************************************************************)
CONSTANTS Subs

VARIABLES
  status,  \* status[s]: the state of job s
  gold,    \* the jobs whose facts are in gold
  dryRun   \* dryRun[s]: is s a dry run?

lvars == <<status, gold, dryRun>>

LInit ==
  /\ status = [s \in Subs |-> "none"]
  /\ gold = {}
  /\ dryRun = [s \in Subs |-> FALSE]

\* The moves that only change the status of s.
Move(s, from, to) ==
  /\ status[s] = from
  /\ status' = [status EXCEPT ![s] = to]
  /\ UNCHANGED <<gold, dryRun>>

\* The dry-run flag is fixed before the job exists.
Prepare(s) ==
  /\ status[s] = "none"
  /\ \E d \in BOOLEAN : dryRun' = [dryRun EXCEPT ![s] = d]
  /\ UNCHANGED <<status, gold>>

Receive(s) == Move(s, "none", "received")
ClaimJob(s) == Move(s, "received", "parsing")
Settle(s) == \E to \in {"staged", "rejected", "failed"} : Move(s, "parsing", to)
Decline(s) == \E to \in {"rejected", "failed"} : Move(s, "staged", to)

\* The sweep re-queues any set of abandoned jobs at once, and takes a set of jobs
\* out of their drains' hands.
Requeue ==
  /\ \E S, T \in SUBSET {s \in Subs : status[s] = "parsing"} :
       status' = [s \in Subs |-> IF s \in T THEN "disputed"
                                ELSE IF s \in S THEN "received" ELSE status[s]]
  /\ UNCHANGED <<gold, dryRun>>

\* A second curator takes up a staged job while the first has it in hand.
Contest(s) == Move(s, "staged", "disputed")

Promote(s) ==
  /\ status[s] = "staged"
  /\ ~dryRun[s]
  /\ status' = [status EXCEPT ![s] = "published"]
  /\ gold' = gold \cup {s}
  /\ UNCHANGED dryRun

\* The status of a disputed job says nothing any more; its facts stay in gold once
\* they are there, and those of a dry run still never get there.
PromoteDisputed(s) ==
  /\ status[s] = "disputed"
  /\ ~dryRun[s]
  /\ gold' = gold \cup {s}
  /\ UNCHANGED <<status, dryRun>>

LNext ==
  \/ Requeue
  \/ \E s \in Subs : \/ Prepare(s) \/ Receive(s) \/ ClaimJob(s) \/ Settle(s)
                     \/ Decline(s) \/ Promote(s) \/ Contest(s)
                     \/ PromoteDisputed(s)

LSpec == LInit /\ [][LNext]_lvars
=============================================================================
