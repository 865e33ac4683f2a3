---------------------------- MODULE MCContainer -----------------------------
(* Small instance of Container.                                            *)
EXTENDS Container

\* With a scale of three and integers of four bits, the keys of -1 and 1 are exact, that of
\* 2 overflows behind two other declarations, and 7 is the priority that stands for none.
MCPriorities == {-1, 1, 2, 7}

\* One type; a plain key, a named one and one of a group.
MCKeys == {Key("T", "", ""), Key("T", "a", ""), Key("T", "", "g")}
=============================================================================
