---------------------------- MODULE MCReplicas ----------------------------
(***************************************************************************)
(* couch-repl outside and inside: the server that runs replications, and   *)
(* what replications do to a document.  Neither looks at the state of the  *)
(* other, so interleaving them would show nothing: each behaviour is one   *)
(* of the two.                                                             *)
(*                                                                         *)
(* Two sites replicate both ways, over a first edit with two rival         *)
(* successors, one of them a deletion.                                     *)
(***************************************************************************)
EXTENDS Replicas, JobServer

VARIABLE watched   \* the one of the two that runs

\*   1 -- 2
\*    \-- 3
MCHistory ==
    [r \in Revs |-> CASE r = 1 -> <<1>>
                      [] r = 2 -> <<2, 1>>
                      [] r = 3 -> <<3, 1>>]

BothWays == {<<"a", "b">>, <<"b", "a">>}

EitherInit == Init /\ ReplicasInit /\ watched \in {"server", "replicas"}

\* Bound: a behaviour has purges or losses, not both.
OneKindOfTrouble == purges' = MaxPurges \/ losses' = MaxLosses

EitherNext ==
    \/ watched = "server" /\ Next /\ UNCHANGED <<replicaVars, watched>>
    \/ watched = "replicas" /\ ReplicasNext /\ OneKindOfTrouble /\ UNCHANGED <<vars, watched>>

\* Both keep the fairness they are specified with.
EitherSpec ==
    /\ EitherInit /\ [][EitherNext]_<<vars, replicaVars, watched>>
    /\ Fairness /\ WF_replicaVars(Replicating)
=============================================================================
