--------------------------- MODULE MCHookInstall ---------------------------
(* Two executables (the command may be relocated) and one user group.      *)
EXTENDS HookInstall, TLC

CONSTANTS p1, p2, bin1, bin2, theirs

Relocated == [p \in Procs |-> IF p = p1 THEN bin1 ELSE bin2]

Config(hooks, stop, groups, events, keys) ==
    [hooks |-> hooks, stop |-> stop, groups |-> groups, events |-> events,
     keys |-> keys]

\* No file, or an empty container among other keys.
JsonOriginals ==
    {None, Config(TRUE, FALSE, <<>>, FALSE, TRUE)}

\* The inline table is chosen only while it holds something.
TomlOriginals ==
    {Config(TRUE, FALSE, <<>>, TRUE, TRUE)}
=============================================================================
