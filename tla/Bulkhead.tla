------------------------------ MODULE Bulkhead ------------------------------
(***************************************************************************)
(* The semaphore with a bounded queue in front of the canonical uploads    *)
(* (apps/api/src/lib/bulkhead.ts).  It lives in the memory of the API      *)
(* process.  A waiter that is promoted holds a slot before its task runs.  *)
(***************************************************************************)
EXTENDS Naturals, Sequences, FiniteSets

CONSTANTS
  Tasks,         \* requests
  maxConcurrent,
  maxQueue

ASSUME SlotsOK == maxConcurrent \in Nat \ {0} /\ maxQueue \in Nat

VARIABLES
  active,   \* the counter
  waiters,  \* tasks whose promise is not resolved yet
  running   \* tasks past acquire() and before release()

bvars == <<active, waiters, running>>

BTypeOK ==
  /\ active \in 0..maxConcurrent
  /\ waiters \in Seq(Tasks) /\ Len(waiters) <= maxQueue
  /\ running \subseteq Tasks

BInit == active = 0 /\ waiters = <<>> /\ running = {}

\* acquire() of a task that gets a slot.
AcquireSlot(t) ==
  /\ active < maxConcurrent
  /\ active' = active + 1
  /\ running' = running \cup {t}
  /\ UNCHANGED waiters

AcquireWait(t) ==
  /\ active >= maxConcurrent
  /\ Len(waiters) < maxQueue
  /\ waiters' = Append(waiters, t)
  /\ UNCHANGED <<active, running>>

\* A task that finds the queue full is shed, and changes nothing.
Acquire(t) == AcquireSlot(t) \/ AcquireWait(t)

\* Deviation: waiters.pop() for waiters.shift().
ReleasePop(t) ==
  \/ /\ waiters = <<>>
     /\ active' = active - 1
     /\ running' = running \ {t}
     /\ UNCHANGED waiters
  \/ /\ waiters # <<>>
     /\ running' = (running \ {t}) \cup {waiters[Len(waiters)]}
     /\ waiters' = SubSeq(waiters, 1, Len(waiters) - 1)
     /\ UNCHANGED active

\* Deviation: nobody is promoted.
ReleaseForgotten(t) ==
  /\ active' = active - 1
  /\ running' = running \ {t}
  /\ UNCHANGED waiters

\* The first waiter is promoted to the slot.
Release(t) ==
  \/ /\ waiters = <<>>
     /\ active' = active - 1
     /\ running' = running \ {t}
     /\ UNCHANGED waiters
  \/ /\ waiters # <<>>
     /\ running' = (running \ {t}) \cup {Head(waiters)}
     /\ waiters' = Tail(waiters)
     /\ UNCHANGED active

\* The process is gone, and its memory.
Restart == active' = 0 /\ waiters' = <<>> /\ running' = {}
=============================================================================
