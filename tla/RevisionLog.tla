---------------------------- MODULE RevisionLog ----------------------------
(***************************************************************************)
(* What ADR-052 promises of a configuration document (V39__config_revision *)
(* .sql): a write replaces the current body and files it as the next       *)
(* revision, in one step; a revision never changes; a restore is a new     *)
(* revision that names its source; and whatever rests is in the dialect of *)
(* rest.  A document that is created has no revision yet.                  *)
(***************************************************************************)
EXTENDS Naturals, Sequences

CONSTANTS
  Docs,
  Specs,
  AtRest,  \* AtRest[s]: what is read back after s was written
  None

VARIABLES row, log

Resting == {AtRest[s] : s \in Specs}

Revision == [body : Specs, from : Nat]

\* The genesis rows of V39 adopt the documents there are, in whatever dialect.
Init ==
  /\ row \in [Docs -> Specs \cup {None}]
  /\ log = [d \in Docs |-> IF row[d] = None THEN <<>>
                           ELSE <<[body |-> row[d], from |-> 0]>>]

Create(d) ==
  /\ row[d] = None /\ log[d] = <<>>
  /\ \E s \in Resting : row' = [row EXCEPT ![d] = s]
  /\ UNCHANGED log

File(d, s, from) ==
  /\ row[d] # None
  /\ row' = [row EXCEPT ![d] = s]
  /\ log' = [log EXCEPT ![d] = Append(@, [body |-> s, from |-> from])]

Write(d) == \E s \in Resting : File(d, s, 0)

Restore(d) == \E i \in DOMAIN log[d] : File(d, AtRest[log[d][i].body], i)

Delete(d) ==
  /\ row[d] # None
  /\ row' = [row EXCEPT ![d] = None]
  /\ UNCHANGED log

Next == \E d \in Docs : Create(d) \/ Write(d) \/ Restore(d) \/ Delete(d)

Spec == Init /\ [][Next]_<<row, log>>
=============================================================================
