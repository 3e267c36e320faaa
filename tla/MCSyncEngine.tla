---------------------------- MODULE MCSyncEngine ----------------------------
(***************************************************************************)
(* Instances of SyncEngine for TLC.  e1 and e3 are authored on d1, e2 on   *)
(* d2, so every run has an author and a reader, and both at once.          *)
(***************************************************************************)
EXTENDS SyncRefinement

CONSTANTS d1, d2, e1, e2, e3

TwoDevices == {d1, d2}
OneEnv == {e1}
TwoEnvs == {e1, e2}
AllEnvs == {e1, e2, e3}
AuthorOf == [e \in Env |-> IF e = e2 THEN d2 ELSE d1]
Nobody == {}
JustD1 == {d1}
JustE1 == {e1}
=============================================================================
