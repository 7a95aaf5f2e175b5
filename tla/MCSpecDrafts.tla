---------------------------- MODULE MCSpecDrafts ----------------------------
(***************************************************************************)
(* One document, which may be there or be created, and two tabs of one     *)
(* browser.  Sugar is lowered to plain when it rests.                      *)
(***************************************************************************)
EXTENDS SpecDrafts, TLC

CONSTANTS sugar, plain, other, t1, t2, home

MCTabs == {t1, t2}
MCBrowser == [t \in MCTabs |-> home]
MCSpecs == {sugar, plain, other}
MCAtRest == [s \in MCSpecs |-> IF s = sugar THEN plain ELSE s]

Interchangeable == Permutations(Tabs) \cup Permutations(Requests)
=============================================================================
