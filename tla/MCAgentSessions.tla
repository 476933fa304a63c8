--------------------------- MODULE MCAgentSessions -------------------------
(* Two connections on two socket ids or, one after the other, on one; the    *)
(* second may log in the user of the first or another one, or both; two      *)
(* threads whose logins overlap.                                             *)
EXTENDS AgentSessions, TLC

CONSTANTS i1, i2, u1, u2, t1, t2
TwoIds == {i1, i2}
TwoUsers == {u1, u2}
TwoThreads == {t1, t2}
OneOrBoth == <<{u1}, {u1, u2}>>

\* Nothing tells two ids or two threads apart.
Alike == Permutations(TwoIds) \cup Permutations(TwoThreads)
=============================================================================
