---------------------------- MODULE MCContention ----------------------------
(***************************************************************************)
(* What waits for something else: the chains and twins of MCJobQueue, and  *)
(* two sessions of one user for one slot, of which the first may restart.  *)
(* The two modules share no state here: a behaviour is about one of them,  *)
(* which part names, and the other stays in its initial state.             *)
(***************************************************************************)
EXTENDS MCJobQueue, StreamingSessions

CONSTANTS s1, u1

VARIABLE part

OwnedByOne == [s \in Session |-> u1]
FirstRestarts == [s \in Session |-> IF s = s1 THEN 2 ELSE 1]

ContentionInit ==
    /\ part \in {"chains", "sessions"}
    /\ Init
    /\ SessionsInit

ContentionNext ==
    \/ part = "chains" /\ Next /\ UNCHANGED <<part, sessionVars>>
    \/ part = "sessions" /\ SessionsNext /\ UNCHANGED <<part, vars>>

ContentionSpec == ContentionInit /\ [][ContentionNext]_<<part, vars, sessionVars>>

\* Bound: the first session restarts by a seek; for the fallback to the software
\* encoder see MCStreamingSessionsOne.cfg.
Contenders == ChainOrTwins /\ deadSeen = {}
=============================================================================
