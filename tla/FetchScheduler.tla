--------------------------- MODULE FetchScheduler ---------------------------
(***************************************************************************)
(* The client-global fetch scheduler (packages/core/src/data/              *)
(* fetch-scheduler.ts): a concurrency gate with FIFO hand-over, backoff    *)
(* with the slot given back, and coalescing of identical reads in flight.  *)
(*                                                                         *)
(* JavaScript runs to completion: an action is what happens between two    *)
(* awaits.  A resolved `acquire' and the fetch after it are one action, as *)
(* nothing observes the microtask in between.                              *)
(***************************************************************************)
EXTENDS Naturals, Sequences, FiniteSets

CONSTANTS
  Calls,              \* calls of schedule(), by any ApiStore or the boot fetch
  Keys,               \* coalescing keys: method, URL and headers together
  None,               \* no key (a request that is not idempotent), no run
  MaxConcurrent,      \* maxConcurrent
  MaxRetries,         \* maxRetries
  RetryNetworkErrors  \* retryNetworkErrors

ASSUME ConstantsOK ==
  /\ IsFiniteSet(Calls)
  /\ None \notin Calls \cup Keys
  /\ MaxConcurrent \in Nat \ {0}
  /\ MaxRetries \in Nat
  /\ RetryNetworkErrors \in BOOLEAN

VARIABLES
  pc,        \* pc[c]: where the run, or the promise, of call c is
  key,       \* key[c]: the coalescing key of c
  leader,    \* leader[c]: the run whose response c shares
  attempt,   \* attempt[c]: retries of the run of c
  answer,    \* answer[c]: what c settled with
  active,    \* the slot counter
  waiters,   \* the queue of resolvers
  inflight   \* inflight[k]: the run the map holds under k

vars == <<pc, key, leader, attempt, answer, active, waiters, inflight>>

PC == {"idle", "queued", "wire", "cancel", "sleep", "settled", "follow", "done"}
Answer == {"ok", "transient", "reject"}

\* The runs that hold a slot. A run discards a transient body before it gives its
\* slot back, and sleeps without one.
Holders == {c \in Calls : pc[c] \in {"wire", "cancel"}}

TypeOK ==
  /\ pc \in [Calls -> PC]
  /\ key \in [Calls -> Keys \cup {None}]
  /\ leader \in [Calls -> Calls \cup {None}]
  /\ attempt \in [Calls -> 0..MaxRetries]
  /\ answer \in [Calls -> Answer \cup {"none"}]
  /\ active \in Nat
  /\ waiters \in Seq(Calls)
  /\ inflight \in [Keys -> Calls \cup {None}]

Init ==
  /\ pc = [c \in Calls |-> "idle"]
  /\ key = [c \in Calls |-> None]
  /\ leader = [c \in Calls |-> None]
  /\ attempt = [c \in Calls |-> 0]
  /\ answer = [c \in Calls |-> "none"]
  /\ active = 0
  /\ waiters = <<>>
  /\ inflight = [k \in Keys |-> None]

-----------------------------------------------------------------------------

\* acquire(): take a free slot or queue up.
Acquire(c) ==
  \/ /\ active < MaxConcurrent
     /\ active' = active + 1
     /\ pc' = [pc EXCEPT ![c] = "wire"]
     /\ UNCHANGED waiters
  \/ /\ active >= MaxConcurrent
     /\ waiters' = Append(waiters, c)
     /\ pc' = [pc EXCEPT ![c] = "queued"]
     /\ UNCHANGED active

\* Deviation: release() frees the slot and wakes the head, who counts it again.
ReleaseForgotten(c, where) ==
  /\ active' = active - 1
  /\ pc' = [pc EXCEPT ![c] = where]
  /\ UNCHANGED waiters

\* Deviation: release() wakes the head and frees the slot as well.
ReleaseTwice(c, where) ==
  /\ active' = active - 1
  /\ \/ /\ waiters = <<>>
        /\ pc' = [pc EXCEPT ![c] = where]
        /\ UNCHANGED waiters
     \/ /\ waiters # <<>>
        /\ pc' = [pc EXCEPT ![c] = where, ![Head(waiters)] = "wire"]
        /\ waiters' = Tail(waiters)

\* Deviation: the last to arrive is served first.
ReleaseLifo(c, where) ==
  \/ /\ waiters = <<>>
     /\ active' = active - 1
     /\ pc' = [pc EXCEPT ![c] = where]
     /\ UNCHANGED waiters
  \/ /\ waiters # <<>>
     /\ pc' = [pc EXCEPT ![c] = where, ![waiters[Len(waiters)]] = "wire"]
     /\ waiters' = SubSeq(waiters, 1, Len(waiters) - 1)
     /\ UNCHANGED active

\* release(), by a run that goes on to `where': hand the slot to the first waiter,
\* who goes on the wire, or free it.
Release(c, where) ==
  \/ /\ waiters = <<>>
     /\ active' = active - 1
     /\ pc' = [pc EXCEPT ![c] = where]
     /\ UNCHANGED waiters
  \/ /\ waiters # <<>>
     /\ pc' = [pc EXCEPT ![c] = where, ![Head(waiters)] = "wire"]
     /\ waiters' = Tail(waiters)
     /\ UNCHANGED active

\* schedule() of a request that must not be folded: run(), no coalescing.
ScheduleRaw(c) ==
  /\ pc[c] = "idle"
  /\ Acquire(c)
  /\ leader' = [leader EXCEPT ![c] = c]
  /\ UNCHANGED <<key, attempt, answer, inflight>>

\* Deviation: the map is written when the run has gone on the wire only.
LeadOnWireOnly(c, k) ==
  /\ pc[c] = "idle"
  /\ inflight[k] = None
  /\ Acquire(c)
  /\ key' = [key EXCEPT ![c] = k]
  /\ leader' = [leader EXCEPT ![c] = c]
  /\ inflight' = [inflight EXCEPT ![k] = IF active < MaxConcurrent THEN c ELSE @]
  /\ UNCHANGED <<attempt, answer>>

\* schedule() of a read nobody has in flight: run() and enter it in the map.
Lead(c, k) ==
  /\ pc[c] = "idle"
  /\ inflight[k] = None
  /\ Acquire(c)
  /\ key' = [key EXCEPT ![c] = k]
  /\ leader' = [leader EXCEPT ![c] = c]
  /\ inflight' = [inflight EXCEPT ![k] = c]
  /\ UNCHANGED <<attempt, answer>>

\* schedule() of a read in flight: share its promise.
Join(c, k) ==
  /\ pc[c] = "idle"
  /\ inflight[k] # None
  /\ pc' = [pc EXCEPT ![c] = "follow"]
  /\ key' = [key EXCEPT ![c] = k]
  /\ leader' = [leader EXCEPT ![c] = inflight[k]]
  /\ UNCHANGED <<attempt, answer, active, waiters, inflight>>

\* Is the failed attempt with outcome a to be repeated?
Repeats(c, a) ==
  /\ attempt[c] < MaxRetries
  /\ a = "transient" \/ (a = "reject" /\ RetryNetworkErrors)

\* A 429 or 503 that will be retried: its body is discarded first, in the slot.
ReceiveTransient(c) ==
  /\ pc[c] = "wire"
  /\ Repeats(c, "transient")
  /\ pc' = [pc EXCEPT ![c] = "cancel"]
  /\ UNCHANGED <<key, leader, attempt, answer, active, waiters, inflight>>

\* The body is gone, or the fetch was rejected and rejections are retried: give
\* the slot back and sleep for the backoff.
BackOff(c) ==
  /\ \/ pc[c] = "cancel"
     \/ pc[c] = "wire" /\ Repeats(c, "reject")
  /\ Release(c, "sleep")
  /\ attempt' = [attempt EXCEPT ![c] = @ + 1]
  /\ UNCHANGED <<key, leader, answer, inflight>>

\* The sleep is over: queue for a slot again.
Wake(c) ==
  /\ pc[c] = "sleep"
  /\ Acquire(c)
  /\ UNCHANGED <<key, leader, attempt, answer, inflight>>

\* An answer that is final: success, a status that is not transient, a rejection,
\* or a transient status with the retries used up.
Settle(c) ==
  /\ pc[c] = "wire"
  /\ \E a \in Answer :
       /\ ~Repeats(c, a)
       /\ answer' = [answer EXCEPT ![c] = a]
  /\ Release(c, "settled")
  /\ UNCHANGED <<key, leader, attempt, inflight>>

\* The reactions of the settled promise: clear the map if it still is ours.
Clear(c) ==
  /\ pc[c] = "settled"
  /\ pc' = [pc EXCEPT ![c] = "done"]
  /\ inflight' = [k \in Keys |-> IF inflight[k] = c THEN None ELSE inflight[k]]
  /\ UNCHANGED <<key, leader, attempt, answer, active, waiters>>

\* A follower settles with the answer of the run it shares.
Follow(c) ==
  /\ pc[c] = "follow"
  /\ pc[leader[c]] \in {"settled", "done"}
  /\ pc' = [pc EXCEPT ![c] = "done"]
  /\ answer' = [answer EXCEPT ![c] = answer[leader[c]]]
  /\ UNCHANGED <<key, leader, attempt, active, waiters, inflight>>

-----------------------------------------------------------------------------

Step(c) ==
  \/ ReceiveTransient(c) \/ BackOff(c) \/ Wake(c) \/ Settle(c)
  \/ Clear(c) \/ Follow(c)

Next ==
  \E c \in Calls :
    \/ ScheduleRaw(c)
    \/ \E k \in Keys : Lead(c, k) \/ Join(c, k)
    \/ Step(c)

Spec == Init /\ [][Next]_vars

\* A fetch on the wire is answered or rejected, timers fire and microtasks run.
\* Nobody is bound to call schedule().
FairSpec == Spec /\ \A c \in Calls : WF_vars(Step(c))
-----------------------------------------------------------------------------

\* The hand-over keeps the books: the counter is the number of runs that hold a
\* slot, and a waiter is a run that waits, queued once.
SlotsAreCounted ==
  /\ active = Cardinality(Holders)
  /\ active <= MaxConcurrent
  /\ {c \in Calls : pc[c] = "queued"} = {waiters[i] : i \in DOMAIN waiters}
  /\ \A i, j \in DOMAIN waiters : waiters[i] = waiters[j] => i = j

\* Coalescing survives queueing and backoff: a key has at most one run that has
\* not settled, so N identical reads cost one wire call and one retry budget.
OneRunPerKey ==
  \A c, d \in Calls :
    /\ pc[c] \in {"queued", "wire", "cancel", "sleep"}
    /\ pc[d] \in {"queued", "wire", "cancel", "sleep"}
    /\ key[c] = key[d] /\ key[c] # None
    => c = d

\* The slot bookkeeping, handing over on release, implements a FIFO gate.
Gate == INSTANCE AdmissionGate WITH
  Tasks <- Calls, Slots <- MaxConcurrent, queue <- waiters, inside <- Holders

\* fetch-scheduler.ts: "a fair FIFO admission gate".
ImplementsGate == Gate!GSpec

\* Every call settles, whatever the other calls, the retries and the coalescing
\* do: no slot leaks, no waiter is lost, no follower waits for a run that is gone.
EveryCallSettles == \A c \in Calls : pc[c] # "idle" ~> pc[c] = "done"
=============================================================================
