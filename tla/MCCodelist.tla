----------------------------- MODULE MCCodelist -----------------------------
(* TLC instance of the codelist writes: a root and two children, payloads   *)
(* that relabel the root, a child or both, and overlays of one or two.      *)
EXTENDS Codelist, TLC

CONSTANTS root, east, west, old, new, short, long

Member(label, parent) == [label |-> label, parent |-> parent]

FewCodelists ==
  { root :> Member(old, None) @@ east :> Member(old, root),
    root :> Member(new, None) @@ east :> Member(new, root),
    east :> Member(old, root) @@ west :> Member(old, root),
    east :> Member(new, root) @@ west :> Member(old, root) }

FewDisplays == { east :> short, root :> long @@ east :> long }

JobSymmetry == Permutations(Jobs)
=============================================================================
