---------------------------- MODULE VintageLedger ----------------------------
(***************************************************************************)
(* What release vintages promise to a reader of the statistics (ADR-0025): *)
(* publishing a release changes the public figures in one step and files   *)
(* the result as the vintage of that release; a vintage never changes.     *)
(* The promise is about the series nobody has disturbed: a disturbed one   *)
(* is struck from the ledger, and the rest of it stands.                   *)
(***************************************************************************)
CONSTANTS Series, Values, Releases, None

VARIABLES
  clean,   \* the series the ledger is about
  public,  \* their figures as published now; None where there are none
  ledger   \* ledger[r]: the vintage of r, for the releases that are out

lvars == <<clean, public, ledger>>

LInit ==
  /\ clean = Series
  /\ public = [s \in Series |-> None]
  /\ ledger = [r \in {} |-> None]

\* Some series are struck; all other figures stay, of now and of every vintage.
Strike(C) ==
  /\ clean' = C
  /\ public' = [s \in C |-> public[s]]
  /\ ledger' = [q \in DOMAIN ledger |-> [s \in C |-> ledger[q][s]]]

\* A release may revise any of the figures, or none; it withdraws none.
Publish(r, C) ==
  /\ r \notin DOMAIN ledger
  /\ clean' = C
  /\ \E S \in SUBSET C : \E facts \in [S -> Values] :
       public' = [s \in C |-> IF s \in S THEN facts[s] ELSE public[s]]
  /\ ledger' = [q \in DOMAIN ledger \cup {r} |->
       IF q = r THEN public' ELSE [s \in C |-> ledger[q][s]]]

LNext ==
  \E C \in SUBSET clean : Strike(C) \/ \E r \in Releases : Publish(r, C)

LSpec == LInit /\ [][LNext]_lvars
=============================================================================
