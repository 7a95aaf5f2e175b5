--------------------------- MODULE ReadPathProofs ---------------------------
(***************************************************************************)
(* Theorems about the fetch scheduler for any number of calls and keys and *)
(* any cap and retry bound.  The inductive invariant has two halves: the   *)
(* slots and the queue (GateInv), kept by acquire() and release() whoever  *)
(* calls them, and the coalescing map (MapInv).                            *)
(*                                                                         *)
(* Then the observation cache, for any number of slices, calls and         *)
(* publishes: what a call knows of the version its answer came with.       *)
(***************************************************************************)
EXTENDS FetchScheduler, ObservationCache, FiniteSetTheorems, TLAPS

Queued(c) == pc[c] = "queued"
Running == {"queued", "wire", "cancel", "sleep"}

\* The books of the gate.
GateInv ==
  /\ active = Cardinality(Holders)
  /\ active <= MaxConcurrent
  /\ waiters # <<>> => active = MaxConcurrent
  /\ \A i \in DOMAIN waiters : Queued(waiters[i])
  /\ \A c \in Calls : Queued(c) => \E i \in DOMAIN waiters : waiters[i] = c
  /\ \A i, j \in DOMAIN waiters : waiters[i] = waiters[j] => i = j

\* The map names the one unsettled run of a key, and a follower's run has started.
MapInv ==
  /\ \A c \in Calls :
       pc[c] \in Running /\ key[c] # None => inflight[key[c]] = c
  /\ \A k \in Keys :
       inflight[k] # None => /\ pc[inflight[k]] \in Running \cup {"settled"}
                             /\ key[inflight[k]] = k
  /\ \A c \in Calls : /\ pc[c] = "follow" => leader[c] \in Calls
                      /\ pc[c] = "idle" => key[c] = None

\* A transient body is discarded only for a retry that is left.
RetryInv == \A c \in Calls : pc[c] = "cancel" => attempt[c] < MaxRetries

Inv == TypeOK /\ GateInv /\ MapInv /\ RetryInv

-----------------------------------------------------------------------------
(* The gate.                                                               *)

LEMMA HoldersFinite ==
  TypeOK => IsFiniteSet(Holders) /\ Cardinality(Holders) \in Nat
BY ConstantsOK, FS_Subset, FS_CardinalityType DEF Holders

\* acquire() by a run that is neither in the gate nor queued.
LEMMA AcquireKeeps ==
  ASSUME TypeOK, GateInv, NEW c \in Calls, Acquire(c),
         pc[c] \notin {"queued", "wire", "cancel"}
  PROVE  /\ GateInv'
         /\ pc' \in [Calls -> PC] /\ active' \in Nat /\ waiters' \in Seq(Calls)
<1> USE DEF TypeOK, GateInv, Queued
<1>1. CASE active < MaxConcurrent
  <2>1. /\ pc' = [pc EXCEPT ![c] = "wire"] /\ active' = active + 1
        /\ waiters' = waiters
    BY <1>1, ConstantsOK DEF Acquire
  <2>2. Holders' = Holders \cup {c} /\ c \notin Holders
    BY <2>1 DEF Holders
  <2>3. active' = Cardinality(Holders')
    BY <2>1, <2>2, HoldersFinite, FS_AddElement
  <2>4. waiters = <<>>
    BY <1>1, ConstantsOK
  <2> QED BY <1>1, <2>1, <2>3, <2>4, ConstantsOK DEF PC
<1>2. CASE active >= MaxConcurrent
  <2>1. /\ pc' = [pc EXCEPT ![c] = "queued"] /\ active' = active
        /\ waiters' = Append(waiters, c)
    BY <1>2, ConstantsOK DEF Acquire
  <2>2. Holders' = Holders
    BY <2>1 DEF Holders
  <2>3. /\ waiters' \in Seq(Calls)
        /\ DOMAIN waiters' = (DOMAIN waiters) \cup {Len(waiters) + 1}
        /\ \A i \in DOMAIN waiters : waiters'[i] = waiters[i] /\ waiters[i] # c
        /\ waiters'[Len(waiters) + 1] = c
        /\ Len(waiters) + 1 \notin DOMAIN waiters
    BY <2>1
  <2>4. active' = Cardinality(Holders') /\ active' = MaxConcurrent
    BY <1>2, <2>1, <2>2, ConstantsOK
  <2>5. \A i \in DOMAIN waiters' : pc'[waiters'[i]] = "queued"
    <3> SUFFICES ASSUME NEW i \in DOMAIN waiters' PROVE pc'[waiters'[i]] = "queued"
      OBVIOUS
    <3>1. CASE i \in DOMAIN waiters
      BY <2>1, <2>3, <3>1
    <3>2. CASE i = Len(waiters) + 1
      BY <2>1, <2>3, <3>2
    <3> QED BY <2>3, <3>1, <3>2
  <2>6. \A d \in Calls : pc'[d] = "queued" => \E i \in DOMAIN waiters' : waiters'[i] = d
    BY <2>1, <2>3
  <2>7. \A i, j \in DOMAIN waiters' : waiters'[i] = waiters'[j] => i = j
    BY <2>3
  <2> QED BY <2>1, <2>3, <2>4, <2>5, <2>6, <2>7, ConstantsOK DEF PC
<1> QED BY <1>1, <1>2, ConstantsOK

\* release() by a run that holds a slot.
LEMMA ReleaseKeeps ==
  ASSUME TypeOK, GateInv, NEW c \in Calls, NEW where \in {"sleep", "settled"},
         Release(c, where), c \in Holders
  PROVE  /\ GateInv'
         /\ pc' \in [Calls -> PC] /\ active' \in Nat /\ waiters' \in Seq(Calls)
<1> USE DEF TypeOK, GateInv, Queued
<1>1. CASE waiters = <<>>
  <2>1. /\ pc' = [pc EXCEPT ![c] = where] /\ active' = active - 1
        /\ waiters' = waiters
    BY <1>1 DEF Release
  <2>2. Holders' = Holders \ {c}
    BY <2>1 DEF Holders
  <2>3. active' = Cardinality(Holders') /\ active' \in Nat
    <3>1. IsFiniteSet(Holders) /\ IsFiniteSet(Holders')
      BY <2>2, HoldersFinite, FS_RemoveElement
    <3>2. Cardinality(Holders') = Cardinality(Holders) - 1
      BY <2>2, <3>1, FS_RemoveElement
    <3>3. Cardinality(Holders') \in Nat
      BY <3>1, FS_CardinalityType
    <3> QED BY <2>1, <3>2, <3>3
  <2> QED BY <1>1, <2>1, <2>3, ConstantsOK DEF PC
<1>2. CASE waiters # <<>>
  <2> DEFINE h == Head(waiters)
  <2>1. /\ pc' = [pc EXCEPT ![c] = where, ![h] = "wire"] /\ active' = active
        /\ waiters' = Tail(waiters)
    BY <1>2 DEF Release
  <2>2. /\ h \in Calls /\ h = waiters[1] /\ 1 \in DOMAIN waiters
        /\ pc[h] = "queued" /\ h # c /\ h \notin Holders
    BY <1>2 DEF Holders
  <2>3. Holders' = (Holders \ {c}) \cup {h}
    BY <2>1, <2>2 DEF Holders
  <2>4. Cardinality(Holders') = Cardinality(Holders)
    <3>1. IsFiniteSet(Holders) /\ IsFiniteSet(Holders \ {c})
      BY HoldersFinite, FS_RemoveElement
    <3>2. Cardinality(Holders \ {c}) = Cardinality(Holders) - 1
      BY <3>1, FS_RemoveElement
    <3>3. Cardinality(Holders') = Cardinality(Holders \ {c}) + 1
      BY <2>2, <2>3, <3>1, FS_AddElement
    <3>4. Cardinality(Holders) \in Nat
      BY <3>1, FS_CardinalityType
    <3> QED BY <3>2, <3>3, <3>4
  <2>5. /\ waiters' \in Seq(Calls)
        /\ \A i \in DOMAIN waiters' :
             i + 1 \in DOMAIN waiters /\ waiters'[i] = waiters[i + 1]
        /\ \A i \in DOMAIN waiters \ {1} :
             i - 1 \in DOMAIN waiters' /\ waiters'[i - 1] = waiters[i]
    BY <1>2, <2>1
  <2>6. \A i \in DOMAIN waiters' : waiters'[i] # h /\ waiters'[i] # c
    BY <2>2, <2>5 DEF Holders
  <2>7. \A i \in DOMAIN waiters' : pc'[waiters'[i]] = "queued"
    <3> SUFFICES ASSUME NEW i \in DOMAIN waiters' PROVE pc'[waiters'[i]] = "queued"
      OBVIOUS
    <3>1. waiters'[i] \in Calls /\ pc[waiters'[i]] = "queued"
      BY <2>5
    <3> QED BY <2>1, <2>6, <3>1
  <2>8. \A d \in Calls : pc'[d] = "queued" => \E i \in DOMAIN waiters' : waiters'[i] = d
    <3> SUFFICES ASSUME NEW d \in Calls, pc'[d] = "queued"
                 PROVE  \E i \in DOMAIN waiters' : waiters'[i] = d
      OBVIOUS
    <3>1. pc[d] = "queued" /\ d # h
      BY <2>1, <2>2 DEF Holders
    <3>2. PICK i \in DOMAIN waiters : waiters[i] = d
      BY <3>1
    <3>3. i # 1
      BY <2>2, <3>1, <3>2
    <3> QED BY <2>5, <3>2, <3>3
  <2>9. \A i, j \in DOMAIN waiters' : waiters'[i] = waiters'[j] => i = j
    BY <2>5
  <2>10. pc' \in [Calls -> PC]
    BY <2>1, <2>2 DEF PC
  <2>11. waiters' # <<>> => active' = MaxConcurrent
    BY <1>2, <2>1
  <2> QED
    BY <2>1, <2>4, <2>5, <2>7, <2>8, <2>9, <2>10, <2>11
<1> QED BY <1>1, <1>2

\* A step that moves nobody in or out of the gate or the queue.
LEMMA ElsewhereKeeps ==
  ASSUME GateInv, UNCHANGED <<active, waiters>>, Holders' = Holders,
         \A c \in Calls : Queued(c)' <=> Queued(c), TypeOK
  PROVE  GateInv'
BY DEF GateInv, Queued, TypeOK

-----------------------------------------------------------------------------
(* The map.                                                                *)

\* What acquire() and release() do to the program counters.
LEMMA AcquirePc ==
  ASSUME TypeOK, NEW c \in Calls, Acquire(c)
  PROVE  /\ pc'[c] \in {"wire", "queued"}
         /\ \A d \in Calls \ {c} : pc'[d] = pc[d]
BY DEF Acquire, TypeOK

LEMMA ReleasePc ==
  ASSUME TypeOK, GateInv, NEW c \in Calls, NEW where \in {"sleep", "settled"},
         Release(c, where), c \in Holders
  PROVE  /\ pc'[c] = where
         /\ \A d \in Calls \ {c} : \/ pc'[d] = pc[d]
                                   \/ pc[d] = "queued" /\ pc'[d] = "wire"
<1>1. CASE waiters = <<>>
  BY <1>1 DEF Release, TypeOK
<1>2. CASE waiters # <<>>
  <2>1. /\ Head(waiters) \in Calls /\ pc[Head(waiters)] = "queued"
        /\ Head(waiters) # c
    BY <1>2 DEF TypeOK, GateInv, Queued, Holders
  <2>2. pc' = [pc EXCEPT ![c] = where, ![Head(waiters)] = "wire"]
    BY <1>2 DEF Release
  <2> QED BY <2>1, <2>2 DEF TypeOK
<1> QED BY <1>1, <1>2

LEMMA InvInit == Init => Inv
<1> SUFFICES ASSUME Init PROVE Inv
  OBVIOUS
<1>1. TypeOK
  BY ConstantsOK DEF Init, TypeOK, PC
<1>2. Holders = {}
  BY DEF Init, Holders
<1>3. GateInv
  BY <1>2, FS_EmptySet, ConstantsOK DEF Init, GateInv, Queued
<1>4. MapInv
  BY DEF Init, MapInv, Running
<1>5. RetryInv
  BY DEF Init, RetryInv
<1> QED BY <1>1, <1>3, <1>4, <1>5 DEF Inv

LEMMA RetryStep == Inv /\ [Next]_vars => RetryInv'
<1> SUFFICES ASSUME Inv, [Next]_vars PROVE RetryInv'
  OBVIOUS
<1> USE DEF Inv, TypeOK, RetryInv
<1>1. ASSUME NEW c \in Calls, ScheduleRaw(c) \/ Wake(c) PROVE RetryInv'
  BY <1>1, AcquirePc DEF ScheduleRaw, Wake
<1>2. ASSUME NEW c \in Calls, NEW k \in Keys, Lead(c, k) PROVE RetryInv'
  BY <1>2, AcquirePc DEF Lead
<1>3. ASSUME NEW c \in Calls, NEW k \in Keys, Join(c, k) PROVE RetryInv'
  BY <1>3 DEF Join
<1>4. ASSUME NEW c \in Calls, ReceiveTransient(c) PROVE RetryInv'
  BY <1>4 DEF ReceiveTransient, Repeats
<1>5. ASSUME NEW c \in Calls, BackOff(c) PROVE RetryInv'
  BY <1>5, ReleasePc DEF BackOff, Holders
<1>6. ASSUME NEW c \in Calls, Settle(c) PROVE RetryInv'
  BY <1>6, ReleasePc DEF Settle, Holders
<1>7. ASSUME NEW c \in Calls, Clear(c) \/ Follow(c) PROVE RetryInv'
  BY <1>7 DEF Clear, Follow
<1>8. CASE UNCHANGED vars
  BY <1>8 DEF vars
<1> QED BY <1>1, <1>2, <1>3, <1>4, <1>5, <1>6, <1>7, <1>8 DEF Next, Step

LEMMA InvStep == Inv /\ [Next]_vars => Inv'
<1> SUFFICES ASSUME Inv, [Next]_vars PROVE TypeOK' /\ GateInv' /\ MapInv'
  BY RetryStep DEF Inv
<1> USE DEF Inv
\* MapInv looks at the program counters up to the moves inside Running only.
<1>0. ASSUME UNCHANGED <<key, leader, inflight>>,
             \A d \in Calls :
               \/ pc'[d] = pc[d]
               \/ pc[d] \in Running /\ pc'[d] \in Running \cup {"settled"}
      PROVE  MapInv'
  BY <1>0, ConstantsOK DEF TypeOK, MapInv, Running
<1>1. ASSUME NEW c \in Calls, ScheduleRaw(c) PROVE TypeOK' /\ GateInv' /\ MapInv'
  <2>1. pc[c] = "idle" /\ Acquire(c)
    BY <1>1 DEF ScheduleRaw
  <2>2. TypeOK' /\ GateInv'
    BY <1>1, <2>1, AcquireKeeps DEF ScheduleRaw, TypeOK
  <2>3. MapInv'
    <3>1. UNCHANGED <<key, inflight>> /\ \A d \in Calls \ {c} : leader'[d] = leader[d]
      BY <1>1 DEF ScheduleRaw, TypeOK
    <3>2. \A k \in Keys : inflight[k] # c
      BY <2>1, ConstantsOK DEF MapInv, Running, TypeOK
    <3> QED BY <2>1, <3>1, <3>2, AcquirePc, ConstantsOK DEF TypeOK, MapInv, Running
  <2> QED BY <2>2, <2>3
<1>2. ASSUME NEW c \in Calls, NEW k \in Keys, Lead(c, k)
      PROVE  TypeOK' /\ GateInv' /\ MapInv'
  <2>1. pc[c] = "idle" /\ Acquire(c)
    BY <1>2 DEF Lead
  <2>2. TypeOK' /\ GateInv'
    BY <1>2, <2>1, AcquireKeeps DEF Lead, TypeOK
  <2>3. MapInv'
    BY <1>2, <2>1, AcquirePc, ConstantsOK DEF Lead, TypeOK, MapInv, Running
  <2> QED BY <2>2, <2>3
<1>3. ASSUME NEW c \in Calls, NEW k \in Keys, Join(c, k)
      PROVE  TypeOK' /\ GateInv' /\ MapInv'
  <2>1. TypeOK' /\ MapInv'
    BY <1>3, ConstantsOK DEF Join, TypeOK, MapInv, Running, PC
  <2>2. GateInv'
    BY <1>3, ElsewhereKeeps DEF Join, TypeOK, Holders, Queued
  <2> QED BY <2>1, <2>2
<1>4. ASSUME NEW c \in Calls, ReceiveTransient(c) PROVE TypeOK' /\ GateInv' /\ MapInv'
  <2>1. TypeOK' /\ MapInv'
    BY <1>4 DEF ReceiveTransient, Repeats, TypeOK, MapInv, Running, PC
  <2>2. GateInv'
    BY <1>4, ElsewhereKeeps DEF ReceiveTransient, TypeOK, Holders, Queued
  <2> QED BY <2>1, <2>2
<1>5. ASSUME NEW c \in Calls, BackOff(c) PROVE TypeOK' /\ GateInv' /\ MapInv'
  <2>1. Release(c, "sleep") /\ c \in Holders
    BY <1>5 DEF BackOff, Holders
  <2>2. TypeOK' /\ GateInv'
    <3>1. attempt[c] + 1 \in 0..MaxRetries
      BY <1>5, ConstantsOK DEF BackOff, TypeOK, Repeats, RetryInv
    <3> QED BY <1>5, <2>1, <3>1, ReleaseKeeps DEF BackOff, TypeOK
  <2>3. MapInv'
    <3>1. UNCHANGED <<key, leader, inflight>>
      BY <1>5 DEF BackOff
    <3>2. /\ pc'[c] = "sleep" /\ pc[c] \in {"wire", "cancel"}
          /\ \A d \in Calls \ {c} : \/ pc'[d] = pc[d]
                                    \/ pc[d] = "queued" /\ pc'[d] = "wire"
      BY <2>1, ReleasePc DEF Holders
    <3> QED BY <1>0, <3>1, <3>2 DEF Running
  <2> QED BY <2>2, <2>3
<1>6. ASSUME NEW c \in Calls, Wake(c) PROVE TypeOK' /\ GateInv' /\ MapInv'
  <2>1. pc[c] = "sleep" /\ Acquire(c)
    BY <1>6 DEF Wake
  <2>2. TypeOK' /\ GateInv'
    BY <1>6, <2>1, AcquireKeeps DEF Wake, TypeOK
  <2>3. MapInv'
    BY <1>0, <1>6, <2>1, AcquirePc DEF Wake, Running
  <2> QED BY <2>2, <2>3
<1>7. ASSUME NEW c \in Calls, Settle(c) PROVE TypeOK' /\ GateInv' /\ MapInv'
  <2>1. Release(c, "settled") /\ c \in Holders
    BY <1>7 DEF Settle, Holders
  <2>2. TypeOK' /\ GateInv'
    BY <1>7, <2>1, ReleaseKeeps DEF Settle, TypeOK
  <2>3. MapInv'
    <3>1. UNCHANGED <<key, leader, inflight>>
      BY <1>7 DEF Settle
    <3>2. /\ pc'[c] = "settled" /\ pc[c] \in {"wire", "cancel"}
          /\ \A d \in Calls \ {c} : \/ pc'[d] = pc[d]
                                    \/ pc[d] = "queued" /\ pc'[d] = "wire"
      BY <2>1, ReleasePc DEF Holders
    <3> QED BY <1>0, <3>1, <3>2 DEF Running
  <2> QED BY <2>2, <2>3
<1>8. ASSUME NEW c \in Calls, Clear(c) PROVE TypeOK' /\ GateInv' /\ MapInv'
  <2>1. TypeOK' /\ MapInv'
    BY <1>8, ConstantsOK DEF Clear, TypeOK, MapInv, Running, PC
  <2>2. GateInv'
    BY <1>8, ElsewhereKeeps DEF Clear, TypeOK, Holders, Queued
  <2> QED BY <2>1, <2>2
<1>9. ASSUME NEW c \in Calls, Follow(c) PROVE TypeOK' /\ GateInv' /\ MapInv'
  <2>1. leader[c] \in Calls
    BY <1>9 DEF Follow, MapInv
  <2>2. TypeOK' /\ MapInv'
    BY <1>9, <2>1 DEF Follow, TypeOK, MapInv, Running, PC
  <2>3. GateInv'
    BY <1>9, ElsewhereKeeps DEF Follow, TypeOK, Holders, Queued
  <2> QED BY <2>2, <2>3
<1>10. CASE UNCHANGED vars
  BY <1>10 DEF vars, TypeOK, GateInv, MapInv, Holders, Queued
<1> QED
  BY <1>1, <1>2, <1>3, <1>4, <1>5, <1>6, <1>7, <1>8, <1>9, <1>10 DEF Next, Step

-----------------------------------------------------------------------------

\* Types, for any number of calls and keys, any cap and any retry bound.
THEOREM TypeCorrect == Spec => []TypeOK
<1>1. Inv => TypeOK
  BY DEF Inv
<1> QED BY <1>1, InvInit, InvStep, PTL DEF Spec

\* The slot counter is the number of runs in a slot and never exceeds the cap, and
\* the waiters are exactly the runs that wait, each once (acquire, release).
THEOREM SlotsCounted == Spec => []SlotsAreCounted
<1>1. Inv => SlotsAreCounted
  <2> SUFFICES ASSUME Inv PROVE SlotsAreCounted
    OBVIOUS
  <2>1. {c \in Calls : pc[c] = "queued"} = {waiters[i] : i \in DOMAIN waiters}
    BY DEF Inv, TypeOK, GateInv, Queued
  <2> QED BY <2>1 DEF Inv, GateInv, SlotsAreCounted
<1> QED BY <1>1, InvInit, InvStep, PTL DEF Spec

\* N identical reads share one run through queueing and backoff: no key ever has
\* two unsettled runs (schedule, the inflight map).
THEOREM OneRun == Spec => []OneRunPerKey
<1>1. Inv => OneRunPerKey
  BY DEF Inv, TypeOK, MapInv, Running, OneRunPerKey
<1> QED BY <1>1, InvInit, InvStep, PTL DEF Spec

\* The gate's module has its own instance of Cardinality: it is the same one.
LEMMA SameCardinality ==
  ASSUME NEW S
  PROVE  Gate!Cardinality(S) = Cardinality(S)
BY DEF Gate!Cardinality, Cardinality

\* acquire() and release() implement the FIFO gate of AdmissionGate: no step of
\* the scheduler overfills it, overtakes a waiter or leaves one at a free slot.
LEMMA StepImplements ==
  ASSUME Inv, [Next]_vars
  PROVE  [Gate!GNext]_(Gate!gvars)
<1> USE DEF Inv
<1>1. ASSUME NEW c \in Calls, Acquire(c), pc[c] \in {"idle", "sleep"}
      PROVE  Gate!Enter(c) \/ Gate!Wait(c)
  <2>1. Gate!Outside(c)
    BY <1>1 DEF Gate!Outside, Holders, GateInv, Queued, TypeOK
  <2>2. CASE active < MaxConcurrent
    <3>1. pc' = [pc EXCEPT ![c] = "wire"] /\ waiters' = waiters
      BY <1>1, <2>2, ConstantsOK DEF Acquire, TypeOK
    <3>2. Holders' = Holders \cup {c}
      BY <3>1 DEF Holders, TypeOK
    <3>3. waiters = <<>> /\ Cardinality(Holders) < MaxConcurrent
      BY <2>2, ConstantsOK DEF GateInv, TypeOK
    <3> QED BY <2>1, <3>1, <3>2, <3>3, SameCardinality DEF Gate!Enter
  <2>3. CASE active >= MaxConcurrent
    <3>1. /\ pc' = [pc EXCEPT ![c] = "queued"]
          /\ waiters' = Append(waiters, c)
      BY <1>1, <2>3, ConstantsOK DEF Acquire, TypeOK
    <3>2. Holders' = Holders
      BY <1>1, <3>1 DEF Holders, TypeOK
    <3> QED
      BY <2>1, <2>3, <3>1, <3>2, SameCardinality DEF Gate!Wait, GateInv
  <2> QED BY <2>2, <2>3, ConstantsOK DEF TypeOK
<1>2. ASSUME NEW c \in Calls, NEW where \in {"sleep", "settled"},
             Release(c, where), c \in Holders
      PROVE  Gate!Leave(c)
  <2>1. CASE waiters = <<>>
    <3>1. pc' = [pc EXCEPT ![c] = where] /\ waiters' = waiters
      BY <1>2, <2>1 DEF Release
    <3>2. Holders' = Holders \ {c}
      BY <3>1 DEF Holders, TypeOK
    <3> QED BY <1>2, <2>1, <3>1, <3>2 DEF Gate!Leave
  <2>2. CASE waiters # <<>>
    <3>1. /\ pc' = [pc EXCEPT ![c] = where, ![Head(waiters)] = "wire"]
          /\ waiters' = Tail(waiters)
      BY <1>2, <2>2 DEF Release
    <3>2. Head(waiters) \in Calls /\ Head(waiters) # c
      BY <1>2, <2>2 DEF GateInv, TypeOK, Queued, Holders
    <3>3. Holders' = (Holders \ {c}) \cup {Head(waiters)}
      BY <3>1, <3>2 DEF Holders, TypeOK
    <3> QED BY <1>2, <2>2, <3>1, <3>3 DEF Gate!Leave
  <2> QED BY <2>1, <2>2
<1>3. ASSUME NEW c \in Calls, ScheduleRaw(c) \/ (\E k \in Keys : Lead(c, k))
      PROVE  Gate!GNext
  BY <1>1, <1>3 DEF ScheduleRaw, Lead, Gate!GNext
<1>4. ASSUME NEW c \in Calls, Wake(c)
      PROVE  Gate!GNext
  BY <1>1, <1>4 DEF Wake, Gate!GNext
<1>5. ASSUME NEW c \in Calls, BackOff(c)
      PROVE  Gate!GNext
  BY <1>2, <1>5 DEF BackOff, Holders, Gate!GNext
<1>6. ASSUME NEW c \in Calls, Settle(c)
      PROVE  Gate!GNext
  BY <1>2, <1>6 DEF Settle, Holders, Gate!GNext
<1>7. ASSUME NEW c \in Calls,
             \/ ReceiveTransient(c) \/ Clear(c) \/ Follow(c)
             \/ \E k \in Keys : Join(c, k)
      PROVE  UNCHANGED Gate!gvars
  BY <1>7
  DEF ReceiveTransient, Clear, Follow, Join, Gate!gvars, Holders, TypeOK
<1>8. CASE UNCHANGED vars
  BY <1>8 DEF vars, Gate!gvars, Holders
<1> QED
  BY <1>3, <1>4, <1>5, <1>6, <1>7, <1>8 DEF Next, Step

\* For any number of calls and any cap the scheduler implements the gate.
THEOREM SchedulerImplementsGate == Spec => ImplementsGate
<1>1. Init => Gate!GInit
  BY DEF Init, Gate!GInit, Holders
<1>2. Inv /\ [Next]_vars => [Gate!GNext]_(Gate!gvars)
  BY StepImplements
<1> QED
  BY <1>1, <1>2, InvInit, InvStep, PTL DEF Spec, ImplementsGate, Gate!GSpec

-----------------------------------------------------------------------------
(* The observation cache.                                                   *)

\* What a call knows: a conditional one holds an entry, of a slice that is cached since;
\* the rows of an answer are of its tag or newer.
CallInv(c) ==
  /\ call[c].pc # "idle" => call[c].slice \in Slices
  /\ call[c].pc = "idle" => call[c].held = Null
  /\ call[c].pc \in {"idle", "sent", "tagged"} => call[c].outcome = "none"
  /\ call[c].sent # Null =>
       /\ call[c].slice \in Slices
       /\ call[c].held \in Entry
       /\ cache[call[c].slice] \in Entry
  /\ call[c].outcome = "304" => call[c].sent # Null
  /\ call[c].pc = "tagged" => call[c].tag \in Version /\ call[c].tag <= version
  /\ call[c].pc = "parsing" => call[c].outcome = "200"
  /\ call[c].outcome = "200" =>
       /\ call[c].slice \in Slices
       /\ call[c].rows \in Version
       /\ call[c].tag \in Version /\ call[c].tag <= version
       /\ call[c].tag = version => call[c].rows = content[call[c].slice]

\* An entry has the rows of the call that stored it, which is done and stays as it is.
Stored(calls, e, s) ==
  /\ e.by \in Queries
  /\ calls[e.by].pc = "done" /\ calls[e.by].outcome = "200"
  /\ calls[e.by].slice = s /\ calls[e.by].rows = e.rows

CacheInv ==
  /\ CacheTypeOK
  /\ \A c \in Queries : CallInv(c)
  /\ \A s \in Slices : cache[s] # Null => Stored(call, cache[s], s)
  /\ \A c \in Queries : call[c].held # Null => Stored(call, call[c].held, call[c].slice)

LEMMA CacheStart == CacheInit => CacheInv
<1> SUFFICES ASSUME CacheInit PROVE CacheInv
  OBVIOUS
<1>1. 0 \in Version
  BY CacheConstants DEF Version
<1> QED
  BY <1>1 DEF CacheInit, CacheInv, CacheTypeOK, CallInv, Call

\* A step of a call that is not done leaves the others, and what they have stored.
LEMMA OneCall ==
  ASSUME CacheInv, NEW c \in Queries, NEW k \in Call, call' = [call EXCEPT ![c] = k],
         call[c].pc # "done", UNCHANGED <<version, content>>,
         etag' \in Version \cup {Null}, cache' \in [Slices -> Entry \cup {Null}],
         \A s \in Slices : cache[s] \in Entry => cache'[s] \in Entry,
         \A s \in Slices : cache'[s] # Null =>
           Stored(call, cache'[s], s) \/ Stored(call', cache'[s], s),
         k.held # Null => Stored(call, k.held, k.slice),
         CallInv(c)'
  PROVE  CacheInv'
<1> USE DEF CacheInv
<1>1. CacheTypeOK'
  BY DEF CacheTypeOK
<1>2. ASSUME NEW d \in Queries, d # c PROVE call'[d] = call[d] /\ CallInv(d)'
  <2>1. call'[d] = call[d] /\ CallInv(d)
    BY <1>2 DEF CacheTypeOK
  <2> QED
    BY <2>1 DEF CallInv
<1>3. ASSUME NEW e, NEW s, Stored(call, e, s) PROVE Stored(call', e, s)
  BY <1>2, <1>3 DEF Stored
<1>4. \A s \in Slices : cache'[s] # Null => Stored(call', cache'[s], s)
  BY <1>3
<1>5. call'[c] = k
  BY DEF CacheTypeOK
<1>6. \A d \in Queries : call'[d].held # Null => Stored(call', call'[d].held, call'[d].slice)
  BY <1>2, <1>3, <1>5
<1> QED
  BY <1>1, <1>2, <1>4, <1>6

LEMMA ServerKeeps ==
  ASSUME CacheInv, NEW c \in Queries, ServeTag(c) \/ ServeRows(c) \/ Fail(c)
  PROVE  CacheInv'
<1> USE DEF CacheInv
<1> call[c] \in Call /\ CallInv(c) /\ version \in Version
  BY DEF CacheTypeOK
<1>0. UNCHANGED <<version, content, cache, etag>>
  BY DEF ServeTag, ServeRows, Fail
<1>1. CASE call[c].pc = "sent" /\ call[c].sent = version
           /\ call' = [call EXCEPT ![c].pc = "answered", ![c].outcome = "304"]
  <2> DEFINE k == [call[c] EXCEPT !.pc = "answered", !.outcome = "304"]
  <2>1. call' = [call EXCEPT ![c] = k]
    BY <1>1 DEF CacheTypeOK
  <2>2. /\ k \in Call /\ k.pc = "answered" /\ k.outcome = "304" /\ k.slice = call[c].slice
        /\ k.sent = call[c].sent /\ k.held = call[c].held
    BY DEF Call
  <2>3. call'[c] = k
    BY <2>1 DEF CacheTypeOK
  <2>4. call[c].sent # Null
    BY <1>1, CacheConstants DEF Version
  <2> HIDE DEF k
  <2>5. CallInv(c)'
    BY <1>0, <1>1, <2>2, <2>3, <2>4 DEF CallInv
  <2> QED
    BY <1>0, <1>1, <2>1, <2>2, <2>5, OneCall DEF CacheTypeOK
<1>2. CASE call[c].pc = "sent"
           /\ call' = [call EXCEPT ![c].pc = "tagged", ![c].tag = version]
  <2> DEFINE k == [call[c] EXCEPT !.pc = "tagged", !.tag = version]
  <2>1. call' = [call EXCEPT ![c] = k]
    BY <1>2 DEF CacheTypeOK
  <2>2. /\ k \in Call /\ k.pc = "tagged" /\ k.outcome = call[c].outcome
        /\ k.slice = call[c].slice /\ k.tag = version
        /\ k.sent = call[c].sent /\ k.held = call[c].held
    BY DEF Call
  <2>3. call'[c] = k
    BY <2>1 DEF CacheTypeOK
  <2>4. version <= version
    BY CacheConstants DEF Version
  <2> HIDE DEF k
  <2>5. CallInv(c)'
    BY <1>0, <1>2, <2>2, <2>3, <2>4 DEF CallInv
  <2> QED
    BY <1>0, <1>2, <2>1, <2>2, <2>5, OneCall DEF CacheTypeOK
<1>3. CASE ServeRows(c)
  <2> DEFINE rows == content[call[c].slice]
             k == [call[c] EXCEPT !.pc = "answered", !.outcome = "200", !.rows = rows]
  <2>1. call' = [call EXCEPT ![c] = k] /\ call[c].pc = "tagged"
    BY <1>3 DEF ServeRows, CacheTypeOK
  <2>2. call[c].slice \in Slices /\ rows \in Version
    BY <2>1 DEF CallInv, CacheTypeOK
  <2>3. /\ k \in Call /\ k.pc = "answered" /\ k.outcome = "200" /\ k.rows = rows
        /\ k.slice = call[c].slice /\ k.tag = call[c].tag
        /\ k.sent = call[c].sent /\ k.held = call[c].held
    BY <2>2 DEF Call
  <2>4. call'[c] = k
    BY <2>1 DEF CacheTypeOK
  <2> HIDE DEF k
  <2>5. CallInv(c)'
    BY <1>0, <2>1, <2>2, <2>3, <2>4 DEF CallInv
  <2> QED
    BY <1>0, <2>1, <2>3, <2>5, OneCall DEF CacheTypeOK
<1>4. CASE Fail(c)
  <2> DEFINE k == [call[c] EXCEPT !.pc = "answered", !.outcome = "failed"]
  <2>1. call' = [call EXCEPT ![c] = k] /\ call[c].pc \in {"sent", "tagged"}
    BY <1>4 DEF Fail, CacheTypeOK
  <2>2. /\ k \in Call /\ k.pc = "answered" /\ k.outcome = "failed"
        /\ k.slice = call[c].slice
        /\ k.sent = call[c].sent /\ k.held = call[c].held
    BY DEF Call
  <2>3. call'[c] = k
    BY <2>1 DEF CacheTypeOK
  <2> HIDE DEF k
  <2>4. CallInv(c)'
    BY <1>0, <2>1, <2>2, <2>3 DEF CallInv
  <2> QED
    BY <1>0, <2>1, <2>2, <2>4, OneCall DEF CacheTypeOK
<1> QED
  BY <1>1, <1>2, <1>3, <1>4 DEF ServeTag

\* queryAsync(), up to the request.
LEMMA AskKeeps ==
  ASSUME CacheInv, NEW c \in Queries, NEW s \in Slices, Hit(c, s) \/ Send(c, s)
  PROVE  CacheInv'
<1> USE DEF CacheInv
<1> call[c] \in Call /\ CallInv(c) /\ cache[s] \in Entry \cup {Null}
  BY DEF CacheTypeOK
<1>0. UNCHANGED <<version, content, cache, etag>> /\ call[c].pc = "idle"
  BY DEF Hit, Send
<1>1. CASE Hit(c, s)
  <2> DEFINE k == [call[c] EXCEPT !.pc = "done", !.slice = s, !.outcome = "cached",
                                  !.rows = cache[s].rows]
  <2>1. call' = [call EXCEPT ![c] = k]
    BY <1>1 DEF Hit, CacheTypeOK
  <2>2. cache[s] \in Entry
    BY <1>1 DEF Hit, IsFresh
  <2>3. /\ k \in Call /\ k.pc = "done" /\ k.outcome = "cached" /\ k.slice = s
        /\ k.sent = call[c].sent /\ k.held = call[c].held
    BY <2>2 DEF Call, Entry
  <2>4. call'[c] = k
    BY <2>1 DEF CacheTypeOK
  <2> HIDE DEF k
  <2>5. CallInv(c)'
    BY <1>0, <2>2, <2>3, <2>4 DEF CallInv
  <2>6. k.held = Null
    BY <1>0, <2>3 DEF CallInv
  <2> QED
    BY <1>0, <2>1, <2>3, <2>5, <2>6, OneCall DEF CacheTypeOK
<1>2. CASE Send(c, s)
  <2> DEFINE tag == IF cache[s] # Null THEN etag ELSE Null
             k == [call[c] EXCEPT !.pc = "sent", !.slice = s, !.held = cache[s],
                                  !.sent = tag]
  <2>1. call' = [call EXCEPT ![c] = k]
    BY <1>2 DEF Send, CacheTypeOK
  <2>2. tag \in Version \cup {Null} /\ (tag # Null => cache[s] \in Entry)
    BY DEF CacheTypeOK
  <2>3. /\ k \in Call /\ k.pc = "sent" /\ k.outcome = call[c].outcome /\ k.slice = s
        /\ k.sent = tag /\ k.held = cache[s]
    BY <2>2 DEF Call
  <2>4. call'[c] = k
    BY <2>1 DEF CacheTypeOK
  <2> HIDE DEF k, tag
  <2>5. CallInv(c)'
    BY <1>0, <2>2, <2>3, <2>4 DEF CallInv
  <2> QED
    BY <1>0, <2>1, <2>3, <2>5, OneCall DEF CacheTypeOK
<1> QED
  BY <1>1, <1>2

\* queryAsync(), from the answer on.
LEMMA ReceiveKeeps ==
  ASSUME CacheInv, NEW c \in Queries,
         \/ Receive304(c) \/ ReceiveFailure(c) \/ ReceiveHeaders(c)
         \/ Store(c) \/ LoseBody(c)
  PROVE  CacheInv'
<1> USE DEF CacheInv
<1> DEFINE s == call[c].slice
<1> call[c] \in Call /\ CallInv(c)
  BY DEF CacheTypeOK
<1>0. /\ call[c].pc \notin {"idle", "done"} /\ s \in Slices /\ UNCHANGED <<version, content>>
      /\ call[c].held # Null => Stored(call, call[c].held, s)
      /\ \A x \in Slices : cache[x] # Null => Stored(call, cache[x], x)
  BY DEF Receive304, ReceiveFailure, ReceiveHeaders, Store, LoseBody, CallInv
<1> cache[s] \in Entry \cup {Null}
  BY <1>0 DEF CacheTypeOK
<1>1. CASE Receive304(c)
  <2> DEFINE k == [call[c] EXCEPT !.pc = "done", !.rows = call[c].held.rows]
  <2>1. /\ call' = [call EXCEPT ![c] = k] /\ call[c].outcome = "304" /\ etag' = etag
        /\ cache' = [cache EXCEPT ![s].fresh = TRUE] \/ cache' = cache
    BY <1>1 DEF Receive304, CacheTypeOK
  <2>2. call[c].sent # Null /\ call[c].held \in Entry /\ cache[s] \in Entry
    BY <2>1 DEF CallInv
  <2>3. /\ k \in Call /\ k.pc = "done" /\ k.outcome = "304" /\ k.slice = s
        /\ k.sent = call[c].sent /\ k.held = call[c].held
    BY <2>1, <2>2 DEF Call, Entry
  <2>4. call'[c] = k
    BY <2>1 DEF CacheTypeOK
  <2>5. /\ cache' \in [Slices -> Entry \cup {Null}]
        /\ \A x \in Slices : cache[x] \in Entry => cache'[x] \in Entry
      /\ \A x \in Slices : cache'[x] # Null => Stored(call, cache'[x], x)
    <3>1. [cache[s] EXCEPT !.fresh = TRUE] \in Entry
      BY <2>2 DEF Entry
    <3>2. cache' = [cache EXCEPT ![s] = [cache[s] EXCEPT !.fresh = TRUE]] \/ cache' = cache
      BY <2>1
    <3>3. Stored(call, [cache[s] EXCEPT !.fresh = TRUE], s)
      BY <1>0, <2>2, NullIsNoEntry DEF Entry, Stored
    <3> QED
      BY <1>0, <2>2, <3>1, <3>2, <3>3 DEF CacheTypeOK
  <2> HIDE DEF k
  <2>6. CallInv(c)'
    BY <1>0, <2>1, <2>2, <2>3, <2>4, <2>5 DEF CallInv
  <2> QED
    BY <1>0, <2>1, <2>3, <2>5, <2>6, OneCall DEF CacheTypeOK
<1>2. CASE ReceiveFailure(c)
  <2>1. UNCHANGED <<cache, etag>> /\ call[c].outcome = "failed"
    BY <1>2 DEF ReceiveFailure
  <2>2. PICK k \in Call :
          /\ call' = [call EXCEPT ![c] = k]
          /\ k.pc = "done" /\ k.outcome \in {"stale", "error"} /\ k.slice = s
          /\ k.sent = call[c].sent /\ k.held = call[c].held
    <3>1. CASE cache[s] # Null
      <4> DEFINE k == [call[c] EXCEPT !.pc = "done", !.outcome = "stale",
                                      !.rows = cache[s].rows]
      <4>1. call' = [call EXCEPT ![c] = k]
        BY <1>2, <3>1 DEF ReceiveFailure, CacheTypeOK
      <4>2. k \in Call
        BY <3>1 DEF Call, Entry
      <4> QED
        BY <4>1, <4>2 DEF Call
    <3>2. CASE cache[s] = Null
      <4> DEFINE k == [call[c] EXCEPT !.pc = "done", !.outcome = "error"]
      <4>1. call' = [call EXCEPT ![c] = k]
        BY <1>2, <3>2 DEF ReceiveFailure, CacheTypeOK
      <4>2. k \in Call
        BY DEF Call
      <4> QED
        BY <4>1, <4>2 DEF Call
    <3> QED
      BY <3>1, <3>2
  <2>3. call'[c] = k
    BY <2>2 DEF CacheTypeOK
  <2>4. CallInv(c)'
    BY <1>0, <2>1, <2>2, <2>3 DEF CallInv
  <2> QED
    BY <1>0, <2>1, <2>2, <2>4, OneCall DEF CacheTypeOK
<1>3. CASE ReceiveHeaders(c)
  <2> DEFINE k == [call[c] EXCEPT !.pc = "parsing"]
  <2>1. /\ call' = [call EXCEPT ![c] = k] /\ call[c].outcome = "200" /\ cache' = cache
        /\ etag' = call[c].tag
    BY <1>3 DEF ReceiveHeaders, CacheTypeOK
  <2>2. /\ k \in Call /\ k.pc = "parsing" /\ k.outcome = "200" /\ k.slice = s
        /\ k.sent = call[c].sent /\ k.held = call[c].held
        /\ k.tag = call[c].tag /\ k.rows = call[c].rows
    BY <2>1 DEF Call
  <2>3. call'[c] = k
    BY <2>1 DEF CacheTypeOK
  <2>4. etag' \in Version
    BY <2>1 DEF CallInv
  <2> HIDE DEF k
  <2>5. CallInv(c)'
    BY <1>0, <2>1, <2>2, <2>3 DEF CallInv
  <2> QED
    BY <1>0, <2>1, <2>2, <2>4, <2>5, OneCall DEF CacheTypeOK
<1>4. CASE Store(c)
  <2> DEFINE k == [call[c] EXCEPT !.pc = "done"]
             entry == [rows |-> call[c].rows, fresh |-> TRUE, by |-> c]
  <2>1. /\ call' = [call EXCEPT ![c] = k] /\ call[c].pc = "parsing" /\ etag' = etag
        /\ cache' = [cache EXCEPT ![s] = entry]
    BY <1>4 DEF Store, CacheTypeOK
  <2>2. /\ call[c].outcome = "200" /\ entry \in Entry
        /\ entry.by = c /\ entry.rows = call[c].rows
    BY <2>1 DEF CallInv, Entry
  <2>3. /\ k \in Call /\ k.pc = "done" /\ k.outcome = "200" /\ k.slice = s
        /\ k.sent = call[c].sent /\ k.held = call[c].held
        /\ k.tag = call[c].tag /\ k.rows = call[c].rows
    BY <2>2 DEF Call
  <2>4. call'[c] = k
    BY <2>1 DEF CacheTypeOK
  <2> HIDE DEF k, entry
  <2>5. /\ cache' \in [Slices -> Entry \cup {Null}]
        /\ \A x \in Slices : cache[x] \in Entry => cache'[x] \in Entry
    BY <1>0, <2>1, <2>2 DEF CacheTypeOK
  <2>6. CallInv(c)'
    BY <1>0, <2>1, <2>2, <2>3, <2>4, <2>5 DEF CallInv
  <2>7. Stored(call', entry, s)
    BY <2>2, <2>3, <2>4 DEF Stored
  <2>8. \A x \in Slices : cache'[x] # Null =>
          Stored(call, cache'[x], x) \/ Stored(call', cache'[x], x)
    BY <1>0, <2>1, <2>7 DEF CacheTypeOK
  <2> QED
    BY <1>0, <2>1, <2>3, <2>5, <2>6, <2>8, OneCall DEF CacheTypeOK
<1>5. CASE LoseBody(c)
  <2> DEFINE k == [call[c] EXCEPT !.pc = "done", !.outcome = "rejected"]
  <2>1. call' = [call EXCEPT ![c] = k] /\ UNCHANGED <<cache, etag>>
    BY <1>5 DEF LoseBody, CacheTypeOK
  <2>2. /\ k \in Call /\ k.pc = "done" /\ k.outcome = "rejected" /\ k.slice = s
        /\ k.sent = call[c].sent /\ k.held = call[c].held
    BY DEF Call
  <2>3. call'[c] = k
    BY <2>1 DEF CacheTypeOK
  <2> HIDE DEF k
  <2>4. CallInv(c)'
    BY <1>0, <2>1, <2>2, <2>3 DEF CallInv
  <2> QED
    BY <1>0, <2>1, <2>2, <2>4, OneCall DEF CacheTypeOK
<1> QED
  BY <1>1, <1>2, <1>3, <1>4, <1>5

\* A publish makes every tag handed out old; the rows that came with it may be newer.
LEMMA PublishKeeps == ASSUME CacheInv, Publish PROVE CacheInv'
<1> USE DEF CacheInv
<1>1. /\ version' = version + 1 /\ version \in Nat /\ version' \in Version
      /\ UNCHANGED <<cache, etag, call>>
  BY CacheConstants DEF Publish, CacheTypeOK, Version
<1>2. content' \in [Slices -> Version]
  BY <1>1 DEF Publish, CacheTypeOK
<1>3. ASSUME NEW c \in Queries PROVE CallInv(c)'
  <2>1. ASSUME NEW t \in Version, t <= version PROVE t <= version' /\ t # version'
    BY <1>1, <2>1 DEF Version
  <2> QED
    BY <1>1, <2>1 DEF CallInv
<1> QED
  BY <1>1, <1>2, <1>3 DEF CacheTypeOK

LEMMA ExpireKeeps == ASSUME CacheInv, NEW s \in Slices, Expire(s) PROVE CacheInv'
<1> USE DEF CacheInv
<1>1. UNCHANGED <<version, content, etag, call>> /\ cache[s] \in Entry
      /\ cache' = [cache EXCEPT ![s] = [cache[s] EXCEPT !.fresh = FALSE]]
  BY DEF Expire, IsFresh, CacheTypeOK
<1>2. [cache[s] EXCEPT !.fresh = FALSE] \in Entry
  BY <1>1 DEF Entry
<1>3. /\ cache' \in [Slices -> Entry \cup {Null}]
      /\ \A x \in Slices : cache[x] \in Entry => cache'[x] \in Entry
  BY <1>1, <1>2 DEF CacheTypeOK
<1>4. cache[s] # Null /\ Stored(call, [cache[s] EXCEPT !.fresh = FALSE], s)
  BY <1>1, NullIsNoEntry DEF Entry, Stored
<1>5. \A x \in Slices : cache'[x] # Null => Stored(call, cache'[x], x)
  BY <1>1, <1>4 DEF CacheTypeOK
<1>6. \A c \in Queries : CallInv(c)'
  BY <1>1, <1>3 DEF CallInv
<1> QED
  BY <1>1, <1>3, <1>5, <1>6 DEF CacheTypeOK

LEMMA CacheHolds == CacheSpec => []CacheInv
<1>1. CacheInv /\ UNCHANGED cacheVars => CacheInv'
  BY DEF cacheVars, CacheInv, CacheTypeOK, CallInv
<1>2. CacheInv /\ [CacheNext]_cacheVars => CacheInv'
  BY <1>1, ServerKeeps, AskKeeps, ReceiveKeeps, PublishKeeps, ExpireKeeps DEF CacheNext
<1> QED
  BY <1>2, CacheStart, PTL DEF CacheSpec

\* Types of the cache, of its validator and of calls and their responses.
THEOREM CacheIsTyped == CacheSpec => []CacheTypeOK
<1>1. CacheInv => CacheTypeOK
  BY DEF CacheInv
<1> QED
  BY <1>1, CacheHolds, PTL

\* observations.ts reads the version before the rows. Whatever is published between the
\* two statements or later, an answer whose ETag is the version of now has the rows of now.
THEOREM RowsKeepUp == CacheSpec => []RowsAreNotOlderThanTag
<1>1. CacheInv => RowsAreNotOlderThanTag
  BY DEF CacheInv, CallInv, RowsAreNotOlderThanTag
<1> QED
  BY <1>1, CacheHolds, PTL

\* store-api.ts and observations.ts: held rows that the server confirms by the ETag they
\* came with are the rows it would send, whichever calls and publishes come in between.
THEOREM OwnTagIsSound == CacheSpec => RevalidatedWithOwnTag
<1> DEFINE Sound == \A c \in Queries :
      call[c].outcome # "304" /\ call'[c].outcome = "304"
        /\ call[c].sent = OwnTag(call[c].held) =>
          call[c].held.rows = content[call[c].slice]
<1>1. CacheInv /\ [CacheNext]_cacheVars => [Sound]_cacheVars
  <2> SUFFICES ASSUME CacheInv, CacheNext, NEW d \in Queries,
                      call[d].outcome # "304", call'[d].outcome = "304",
                      call[d].sent = OwnTag(call[d].held)
               PROVE  call[d].held.rows = content[call[d].slice]
    OBVIOUS
  <2>1. call'[d] # call[d]
    OBVIOUS
  <2>2. call \in [Queries -> Call] /\ call[d] \in Call /\ CallInv(d)
    BY DEF CacheInv, CacheTypeOK
  \* Only the first statement of the handler answers 304.
  <2>3. call[d].sent = version
    <3>1. CASE Publish \/ \E s \in Slices : Expire(s)
      BY <2>1, <3>1 DEF Publish, Expire
    <3>2. CASE \E c \in Queries : ServeTag(c)
      BY <2>1, <2>2, <3>2 DEF ServeTag, Call
    <3>3. ASSUME NEW c \in Queries,
                 \/ ServeRows(c) \/ Fail(c) \/ Receive304(c) \/ ReceiveFailure(c)
                 \/ ReceiveHeaders(c) \/ Store(c) \/ LoseBody(c)
                 \/ \E s \in Slices : Hit(c, s) \/ Send(c, s)
          PROVE  FALSE
      <4>1. c = d
        BY <2>1, <2>2, <3>3 DEF ServeRows, Fail, Receive304, ReceiveFailure,
           ReceiveHeaders, Store, LoseBody, Hit, Send
      <4>2. CASE ServeRows(d) \/ Fail(d)
        BY <2>2, <4>2 DEF ServeRows, Fail, Call
      <4>3. CASE Receive304(d) \/ ReceiveHeaders(d)
        BY <2>2, <4>3 DEF Receive304, ReceiveHeaders, Call
      <4>4. CASE Store(d) \/ LoseBody(d)
        BY <2>2, <4>4 DEF Store, LoseBody, Call
      <4>5. CASE ReceiveFailure(d)
        BY <2>2, <4>5 DEF ReceiveFailure, Call
      <4>6. ASSUME NEW s \in Slices, Hit(d, s) \/ Send(d, s) PROVE FALSE
        BY <2>2, <4>6 DEF Hit, Send, Call
      <4> QED
        BY <3>3, <4>1, <4>2, <4>3, <4>4, <4>5, <4>6
    <3> QED
      BY <3>1, <3>2, <3>3 DEF CacheNext
  \* The entry has the rows of an answer with the tag of now.
  <2>4. call[d].held # Null
    <3>1. call[d].sent # Null
      BY <2>3, CacheConstants DEF CacheInv, CacheTypeOK, Version
    <3> QED
      BY <2>2, <3>1, NullIsNoEntry DEF CallInv
  <2> DEFINE b == call[d].held.by
  <2>5. Stored(call, call[d].held, call[d].slice)
    BY <2>4 DEF CacheInv
  <2>6. b \in Queries /\ call[b].tag = version /\ call[b].outcome = "200"
        /\ call[b].slice = call[d].slice /\ call[b].rows = call[d].held.rows
    BY <2>3, <2>5 DEF Stored, OwnTag
  <2> QED
    BY <2>6 DEF CacheInv, CallInv
<1> QED
  BY <1>1, CacheHolds, PTL DEF CacheSpec, RevalidatedWithOwnTag
=============================================================================
