--------------------------- MODULE MCSkillInstall ---------------------------
(* One parent with up to three backup names, and what may be there before. *)
EXTENDS SkillInstall, TLC

CONSTANTS p1, p2, v1, v2, agent, u0, u1, u2
CONSTANTS writes, mishaps

Names == <<"b1", "b2", "b3">>
Bounds == [write |-> writes, mishap |-> mishaps]

Empty == [x \in Places |-> None]

\* Nothing yet, a directory of the user's, or a package that an earlier
\* release installed over another of its own and over the user's original.
UsersOwn == [Empty EXCEPT !["dest"] = [record |-> None, whole |-> FALSE,
                                       files |-> {u0}]]
Package(backup) ==
    [record |-> [target |-> agent, version |-> v1, backup |-> backup],
     whole |-> TRUE, files |-> {}]
Legacy == [Empty EXCEPT !["dest"] = Package("b1"),
                        !["b1"]   = Package("b2"),
                        !["b2"]   = [record |-> None, whole |-> FALSE,
                                     files |-> {u0}]]

OldAndNew == {Empty, UsersOwn, Legacy}

ProcSymmetry == Permutations(Procs)
=============================================================================
