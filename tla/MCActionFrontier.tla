-------------------------- MODULE MCActionFrontier --------------------------
(***************************************************************************)
(* Instances of ActionFrontier for TLC.  One run explores two profiles: a  *)
(* single action under every method, and three actions under the methods   *)
(* that touch dependencies or the states a dependency is asked for, which  *)
(* are enough for chains, diamonds and long cycles.                        *)
(***************************************************************************)
EXTENDS ActionFrontier, TLC

VARIABLE profile

mcVars == <<vars, profile>>

MCInit == Init /\ profile \in {"one action", "dependencies"}

DependencyNext ==
    \/ \E deps \in SUBSET Ids : Enqueue(deps, NoGoal)
    \/ \E id \in Ids, deps \in SUBSET Ids : SetDependsOn(id, deps)
    \/ \E id \in Ids, w \in Workers :
          \/ Claim(id, w)
          \/ CompleteAs(id, "done", w, TRUE)
          \/ CompleteAs(id, "blocked", w, TRUE)
    \/ \E id \in Ids : Requeue(id) \/ Escalate(id)
    \/ CascadeDepFailures
    \/ \E old \in SUBSET Ids : Prune(old)

MCNext ==
    /\ \/ profile = "one action" /\ Next /\ next_id' <= 2
       \/ profile = "dependencies" /\ DependencyNext
    /\ UNCHANGED profile

MCSpec == MCInit /\ [][MCNext]_mcVars

WorkerSymmetry == Permutations(Workers)
=============================================================================
