------------------------ MODULE MCStreamingSessions ------------------------
(***************************************************************************)
(* Instances of StreamingSessions in which one user opens every session:   *)
(* one session that is restarted twice, or two that compete for one slot.  *)
(***************************************************************************)
EXTENDS StreamingSessions

CONSTANTS s1, s2, u1

OneSession == {s1}
TwoSessions == {s1, s2}
OneUser == {u1}
OwnedByOne == [s \in Session |-> u1]
ThreeProcesses == [s \in Session |-> 3]
FirstRestarts == [s \in Session |-> IF s = s1 THEN 2 ELSE 1]
=============================================================================
