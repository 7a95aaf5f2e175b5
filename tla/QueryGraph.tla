----------------------------- MODULE QueryGraph -----------------------------
(***************************************************************************)
(* The reactive graph a page is compiled to (packages/core/src/graph:      *)
(* engine.ts, compilePage.ts): one memo per data node, invalidated by the  *)
(* sources that a new state changes, recomputed when it is read.  A cell   *)
(* that is not valid keeps its value to return the same reference for an   *)
(* equal one; values are compared by what they are here, so it is left out *)
(***************************************************************************)
EXTENDS NodeData

VARIABLES
  state,  \* the page's state
  valid,  \* the nodes whose cell is valid
  memo,   \* their values
  answer  \* what the last step returned, if it was a get()

vars == <<state, valid, memo, answer>>

ASSUME NodesAreAnalysable == \A n \in Nodes : Analysable(Node[n])

NoAnswer == [node |-> None, value |-> None]

\* compilePage(): the sources are extracted once, when the page is compiled.
sourcesOf == [n \in Nodes |-> extractDeps(Node[n])]

Current(n) == Derive(Node[n], state)

Shown == [n \in Nodes |-> [s \in GraphState |-> Derive(Node[n], s)]]

ValuesOf == [n \in Nodes |-> {Derive(Node[n], s) : s \in GraphState}]

TypeOK ==
  /\ state \in GraphState
  /\ valid \in SUBSET Nodes
  /\ \A n \in valid : memo[n] \in ValuesOf[n]
  /\ answer.node \in Nodes \cup {None}

Init ==
  /\ state \in GraphState
  /\ valid = {}
  /\ memo = [n \in Nodes |-> None]
  /\ answer = NoAnswer

-----------------------------------------------------------------------------

\* invalidate(): the nodes that read a source that changed.
invalidate(changed) == {n \in Nodes : sourcesOf[n] \cap changed # {}}

Forget(N) == memo' = [n \in Nodes |-> IF n \in N THEN None ELSE memo[n]]

\* setState(): only marks; nothing is computed.
SetState(t) ==
  /\ state' = t
  /\ valid' = valid \ invalidate(diffState(state, t))
  /\ Forget(invalidate(diffState(state, t)))
  /\ answer' = NoAnswer

\* The cells that are not valid are computed.
Fill(N) ==
  /\ memo' = [n \in Nodes |-> IF n \in N \ valid THEN Current(n) ELSE memo[n]]
  /\ valid' = valid \cup N
  /\ UNCHANGED state

\* get(): the memo, recomputed if it is not valid.
Get(n) ==
  /\ Fill({n})
  /\ answer' = [node |-> n, value |-> memo'[n]]

EvaluateAll ==
  /\ Fill(Nodes)
  /\ answer' = NoAnswer

Next ==
  \/ \E t \in GraphState : SetState(t)
  \/ \E n \in Nodes : Get(n)
  \/ EvaluateAll

Spec == Init /\ [][Next]_vars
-----------------------------------------------------------------------------

\* shadow.ts: "VALUE PARITY ... the nodes the graph SKIPS serve correct memos". A memo
\* that get() would serve is what the node derives from the state of now.
MemoIsCurrent == \A n \in valid : memo[n] = Current(n)

\* shadow.ts: "the graph is EQUIVALENT to the current path in OUTPUT". Whatever the
\* order of writes and reads, a get() answers what a fresh derivation would.
Oracle == INSTANCE PageOracle WITH States <- GraphState
ImplementsOracle == Oracle!Spec
=============================================================================
