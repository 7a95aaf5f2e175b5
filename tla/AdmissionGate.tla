---------------------------- MODULE AdmissionGate ----------------------------
(***************************************************************************)
(* What a bounded-concurrency gate promises: at most Slots tasks inside,   *)
(* nobody waits while a slot is free, and slots are handed over in the     *)
(* order of arrival.  The client's FetchScheduler is shown to implement    *)
(* it, and the API's Bulkhead, whose process may restart.                  *)
(***************************************************************************)
EXTENDS Naturals, Sequences, FiniteSets

CONSTANTS Tasks, Slots

VARIABLES
  queue,  \* the tasks waiting, first come first
  inside  \* the tasks holding a slot

gvars == <<queue, inside>>

GInit == queue = <<>> /\ inside = {}

Outside(t) == t \notin inside /\ \A i \in DOMAIN queue : queue[i] # t

Enter(t) ==
  /\ Outside(t)
  /\ queue = <<>>
  /\ Cardinality(inside) < Slots
  /\ inside' = inside \cup {t}
  /\ UNCHANGED queue

Wait(t) ==
  /\ Outside(t)
  /\ Cardinality(inside) >= Slots
  /\ queue' = Append(queue, t)
  /\ UNCHANGED inside

\* The slot of a leaving task goes to the head of the queue in the same step.
Leave(t) ==
  /\ t \in inside
  /\ \/ /\ queue = <<>>
        /\ inside' = inside \ {t}
        /\ UNCHANGED queue
     \/ /\ queue # <<>>
        /\ inside' = (inside \ {t}) \cup {Head(queue)}
        /\ queue' = Tail(queue)

GNext == \E t \in Tasks : Enter(t) \/ Wait(t) \/ Leave(t)

GSpec == GInit /\ [][GNext]_gvars

\* A gate in the memory of a process that may be restarted.
GRestart == queue' = <<>> /\ inside' = {}

GSpecR == GInit /\ [][GNext \/ GRestart]_gvars
=============================================================================
