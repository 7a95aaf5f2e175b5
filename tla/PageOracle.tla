----------------------------- MODULE PageOracle -----------------------------
(***************************************************************************)
(* What a page promises its reader, and the path that is taken today: a    *)
(* node shows what it derives from the state the page is in.  QueryGraph   *)
(* implements it with memos (packages/core/src/graph/shadow.ts compares    *)
(* the two).                                                               *)
(***************************************************************************)
CONSTANTS
  States,  \* the states of the page
  Nodes,   \* its data nodes
  Shown,   \* Shown[n][s]: what node n derives from state s
  None

VARIABLES state, answer

NoAnswer == [node |-> None, value |-> None]

Init == state \in States /\ answer = NoAnswer

Change == state' \in States /\ answer' = NoAnswer

Read(n) ==
  /\ answer' = [node |-> n, value |-> Shown[n][state]]
  /\ UNCHANGED state

Next == Change \/ \E n \in Nodes : Read(n)

Spec == Init /\ [][Next]_<<state, answer>>
=============================================================================
