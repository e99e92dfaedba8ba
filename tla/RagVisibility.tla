---------------------------- MODULE RagVisibility ----------------------------
(***************************************************************************)
(* What retrieval is promised about a wiki page: it finds either nothing   *)
(* of the page or the whole of the one revision that is wanted now.  A     *)
(* change of the page hides it at once; afterwards it may be shown, once,  *)
(* and only a further change may hide it again.                            *)
(***************************************************************************)
EXTENDS Naturals

CONSTANTS
  Pages,   \* wiki pages
  Revs,    \* page revisions
  NoRev    \* nothing

VARIABLES
  version, \* version[p]: how often the page changed
  wanted,  \* wanted[p]: the revision retrieval should find, or NoRev
  shown    \* shown[p]: the revision retrieval does find, or NoRev

vars == <<version, wanted, shown>>

Init ==
  /\ version = [p \in Pages |-> 0]
  /\ wanted = [p \in Pages |-> NoRev]
  /\ shown = [p \in Pages |-> NoRev]

Change(p) ==
  /\ version' = [version EXCEPT ![p] = @ + 1]
  /\ \E r \in Revs \cup {NoRev} : wanted' = [wanted EXCEPT ![p] = r]
  /\ shown' = [shown EXCEPT ![p] = NoRev]

Show(p) ==
  /\ shown[p] = NoRev
  /\ shown' = [shown EXCEPT ![p] = wanted[p]]
  /\ UNCHANGED <<version, wanted>>

Next == \E p \in Pages : Change(p) \/ Show(p)

Spec == Init /\ [][Next]_vars
=============================================================================
