---------------------------- MODULE MCSourceSync ----------------------------
EXTENDS SourceSync
CONSTANTS p1, p2, h1, a, b
MCPidOf == [p \in Procs |-> p]
MCHostOf == [p \in Procs |-> h1]

\* Of the versions 1 to 4, the first and the third are alike: a file may be renamed and then
\* edited.  Two files make one pair at most.
Alike(v, w) == v = w \/ {v, w} = {1, 3}
MCPaired(s, t) == {m \in Gone(s, t) \X New(s, t) : Alike(s[m[1]], t[m[2]])}
=============================================================================
