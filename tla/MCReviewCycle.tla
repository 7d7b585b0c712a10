---------------------------- MODULE MCReviewCycle ----------------------------
(* Two documents: the root README exports to a child that imports it.      *)
EXTENDS ReviewCycle, TLC

CONSTANTS root, child, p1, p2, t1, t2, f1, f2, x, y, g1, g2, because
CONSTANTS
    edits, hands, guides, tracks, checkouts, inits, invalidations, crashes, busies

TwoDocs == {root, child}
ChildImportsRoot == [d \in TwoDocs |-> IF d = child THEN {root} ELSE {}]

(* The two texts differ in what they export.                               *)
Texts == {t1, t2}
TextExport == [t \in Texts |-> IF t = t1 THEN x ELSE y]

ProcSymmetry == Permutations({p1, p2})

AllOrChild == {TwoDocs, {child}}

Bounds ==
    {[k \in EventKinds |->
         CASE k = "edit"       -> edits
           [] k = "hand"       -> hands
           [] k = "guide"      -> guides
           [] k = "track"      -> tracks
           [] k = "checkout"   -> checkouts
           [] k = "init"       -> inits
           [] k = "invalidate" -> invalidations
           [] k = "crash"      -> crashes
           [] k = "busy"       -> busies]}

(* Someone edits a document or its files, or the project's guidance, or     *)
(* takes a document away, or checks out an earlier lock file.               *)
OneChange ==
    UNION {{b, [b EXCEPT !["edit"] = 0, !["guide"] = edits],
               [b EXCEPT !["edit"] = 0, !["track"] = edits],
               [b EXCEPT !["edit"] = 0, !["checkout"] = edits]} : b \in Bounds}
=============================================================================
