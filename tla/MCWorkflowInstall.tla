-------------------------- MODULE MCWorkflowInstall --------------------------
(* Two versions, and worktrees with no pair, a managed one, a workflow that  *)
(* nobody owns and one that was changed after Memoria wrote it.              *)
EXTENDS WorkflowInstall, TLC

CONSTANTS p1, p2, e1, e2, i1, i2, i3, i4, i5, i6
CONSTANTS faults, changes

Bounds == [fault |-> faults, edit |-> changes]

Pair(w, r) == [workflow |-> w, record |-> r]
WholePairs == {Pair(None, None), Pair(1, 1)}
AnyPairs == WholePairs \cup {Pair(1, None), Pair(2, 1)}

AnyIntent == {None, Foreign}

Symmetric == Permutations(Procs) \cup Permutations(Edits)
=============================================================================
