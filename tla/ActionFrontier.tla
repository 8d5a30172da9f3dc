--------------------------- MODULE ActionFrontier ---------------------------
(***************************************************************************)
(* The action frontier of backend/src/engine/agent_action.rs: the table of *)
(* actions that agents claim, work on and report, and the goals that group *)
(* them.                                                                   *)
(*                                                                         *)
(* Every method of ActionFrontier holds one mutex from its first read to   *)
(* its last write, so each is one action here.  The two methods that take  *)
(* the goal lock and the action lock one after the other (prove_goal and   *)
(* maybe_close_goal) are one action per critical section.  Next lets any   *)
(* caller call any method at any time: the most general client.  The order *)
(* in which the tools and the sweeper really call them is the subject of   *)
(* ActionDispatch, which implements this specification.                    *)
(*                                                                         *)
(* Deadlines are kept relative to the clock: lease_until and not_before    *)
(* hold the ticks left, and Tick takes one off each of them.               *)
(***************************************************************************)
EXTENDS Integers, FiniteSets

CONSTANTS
    MaxActions,   \* bound: action ids handed out
    MaxGoals,     \* bound: goal ids handed out
    Workers,      \* worker labels
    None,         \* "no worker" and "no deadline"
    Lease,        \* DEFAULT_LEASE_SECS, in ticks
    BackoffBase,  \* TRANSIENT_BACKOFF_BASE_SECS, in ticks
    BackoffMax,   \* TRANSIENT_BACKOFF_MAX_SECS, in ticks
    MaxOpen,      \* max_open, the cap on non-terminal actions
    MaxSteer,     \* the cap on undelivered steer notes
    CountMax      \* the value at which the u32 counters saturate

ASSUME BoundsAssumption ==
    /\ MaxActions \in Nat /\ MaxGoals \in Nat /\ MaxOpen \in Nat
    /\ Lease \in Nat \ {0} /\ BackoffBase \in Nat /\ BackoffMax \in Nat
    /\ MaxSteer \in Nat /\ CountMax \in Nat \ {0}

ASSUME NoneAssumption == None \notin Workers /\ None \notin Int

VARIABLES
    actions,  \* id -> action record; state "absent" is an id not in the map
    next_id,  \* the next action id
    goals     \* goal id -> state; "absent" is an id not handed out yet

vars == <<actions, next_id, goals>>

Ids     == 1..MaxActions
GoalIds == 1..MaxGoals
NoGoal  == 0

----------------------------------------------------------------------------
(* Action records *)

TerminalStates    == {"done", "blocked", "exhausted", "cancelled", "stopped"}
NonFailureStops   == {"cancelled", "stopped"}
LiveStates        == {"open", "claimed"}
ActionStates      == LiveStates \cup TerminalStates
GoalStates        == {"open", "achieved", "closed"}

ActionRecord ==
    [state: ActionStates \cup {"absent"},
     claimed_by: Workers \cup {None}, assignee: Workers \cup {None},
     lease_until: (-1..Lease) \cup {None}, not_before: 0..BackoffMax,
     requeue_count: 0..CountMax, transient_retries: 0..CountMax,
     escalated: BOOLEAN, paused: BOOLEAN, steer_pending: 0..MaxSteer,
     depends_on: SUBSET Ids, goal_id: GoalIds \cup {NoGoal}]

NewAction(deps, goal) ==
    [state |-> "open", claimed_by |-> None, assignee |-> None,
     lease_until |-> None, not_before |-> 0, requeue_count |-> 0,
     transient_retries |-> 0, escalated |-> FALSE, paused |-> FALSE,
     steer_pending |-> 0, depends_on |-> deps, goal_id |-> goal]

NoAction == [NewAction({}, NoGoal) EXCEPT !.state = "absent"]

StateOf(id)  == actions[id].state
Present      == {id \in Ids : StateOf(id) # "absent"}
Live         == {id \in Ids : StateOf(id) \in LiveStates}
Owner(a)     == IF a.assignee # None THEN a.assignee ELSE a.claimed_by

\* Mutant of Bumped: wraps past the width of the counter.
BumpedUnbounded(n) == n + 1

\* Saturating u32 increment.
Bumped(n) == IF n < CountMax THEN n + 1 ELSE n

Lesser(m, n) == IF m <= n THEN m ELSE n

\* Ticks of backoff before the given retry: doubling from the base, capped.
TransientBackoff(attempt) ==
    LET shift == IF attempt <= 1 THEN 0 ELSE Lesser(attempt - 1, 16)
    IN  Lesser(BackoffBase * 2^shift, BackoffMax)

\* Mutant of LeaseExpired: a paused claim expires too.
LeaseExpiredEvenPaused(a) == a.lease_until # None /\ a.lease_until < 0

LeaseExpired(a) == ~a.paused /\ a.lease_until # None /\ a.lease_until < 0

\* A claim that counts as its worker's load.
HoldsLiveClaim(a) == a.state = "claimed" /\ ~a.paused /\ ~LeaseExpired(a)

\* Mutants of ExpiredClaims: any state, and any running claim.
ExpiredInAnyState == {id \in Ids : StateOf(id) # "absent" /\ LeaseExpired(actions[id])}
AllRunningClaims  == {id \in Ids : StateOf(id) = "claimed" /\ ~actions[id].paused}

\* Claimed actions whose lease deadline has passed.
ExpiredClaims == {id \in Ids : StateOf(id) = "claimed" /\ LeaseExpired(actions[id])}

----------------------------------------------------------------------------
(* Dependencies *)

\* Mutant of FailedDep: a claimed dependency counts as failed.
FailedUnlessOpen(d) == StateOf(d) # "done"
                         /\ (actions[d].escalated \/ StateOf(d) # "open")

\* A dependency that can no longer become done: escalated, ended without
\* success, or gone from the table.
FailedDep(d)  == StateOf(d) # "done"
                   /\ (actions[d].escalated \/ StateOf(d) \notin LiveStates)
DepsFailed(a) == \E d \in a.depends_on : FailedDep(d)
DepsReady(a)  == \A d \in a.depends_on : StateOf(d) = "done"

\* The actions reachable from deps along depends_on: the least set that holds
\* deps and the dependencies of all its members.
HoldsUpstream(S, deps) ==
    deps \subseteq S /\ \A d \in S \cap Present : actions[d].depends_on \subseteq S
Upstream(deps) ==
    {d \in Ids : \A S \in SUBSET Ids : HoldsUpstream(S, deps) => d \in S}

\* Mutant of ValidDeps: no search for a cycle.
ValidDepsNoSearch(id, deps) == deps \subseteq Present \ {id}

ValidDeps(id, deps) ==
    deps \subseteq Present \ {id} /\ id \notin Upstream(deps)

\* Mutant of Doomed: the cascade reaches claimed actions only.
DoomedClaimed == {id \in Ids : StateOf(id) = "claimed" /\ DepsFailed(actions[id])}

\* The live actions that a failed dependency dooms, directly or through others:
\* the least set that the rounds of the cascade reach.
CascadeClosed(S) ==
    \A id \in Live : (\E d \in actions[id].depends_on : FailedDep(d) \/ d \in S)
                       => id \in S
Doomed == {id \in Live : \A S \in SUBSET Live : CascadeClosed(S) => id \in S}

----------------------------------------------------------------------------
(* What each method does to the record it changes *)

\* Mutant of Released: the owner is not cleared.
ReleasedOwned(a) == [a EXCEPT !.state = "open", !.lease_until = None]

Released(a) ==
    [a EXCEPT !.state = "open", !.claimed_by = None, !.assignee = None,
              !.lease_until = None]

AsClaimed(a, w) ==
    [a EXCEPT !.state = "claimed", !.lease_until = Lease, !.claimed_by = w,
              !.assignee = IF @ = None THEN w ELSE @]

AsRequeued(a) ==
    [Released(a) EXCEPT !.requeue_count = Bumped(@), !.escalated = FALSE]

AsRetried(a) ==
    [Released(a) EXCEPT
        !.transient_retries = Bumped(@),
        !.not_before = TransientBackoff(Bumped(a.transient_retries))]

\* Mutants of AsEscalated: whatever the state is, and without leaving it.
AsEscalatedAnyState(a) == [a EXCEPT !.escalated = TRUE, !.state = "blocked"]
AsEscalatedFlagOnly(a) == [a EXCEPT !.escalated = TRUE]

AsEscalated(a) ==
    [a EXCEPT !.escalated = TRUE,
              !.state = IF @ \in LiveStates THEN "blocked" ELSE @]

AsDepFailed(a) ==
    [a EXCEPT !.state = "blocked", !.claimed_by = None, !.assignee = None,
              !.lease_until = None]

AsCancelled(a) ==
    [a EXCEPT !.state = "cancelled", !.lease_until = None, !.not_before = 0]

AsStopped(a) ==
    [a EXCEPT !.state = "stopped", !.paused = FALSE, !.lease_until = None,
              !.not_before = 0]

----------------------------------------------------------------------------
(* When each method succeeds; a call that fails changes nothing *)

CanClaim(id, w) ==
    /\ StateOf(id) = "open"
    /\ actions[id].not_before = 0
    /\ DepsReady(actions[id])
    /\ actions[id].assignee \in {None, w}

\* Mutant of CanAssign: a claimed action can be assigned over.
CanAssignOver(id) ==
    /\ StateOf(id) \in LiveStates
    /\ actions[id].not_before = 0
    /\ DepsReady(actions[id])

CanAssign(id) ==
    /\ StateOf(id) = "open"
    /\ actions[id].not_before = 0
    /\ DepsReady(actions[id])
    /\ actions[id].assignee = None

CanComplete(id, actor, admin) ==
    /\ id \in Live
    /\ ~actions[id].paused
    /\ Owner(actions[id]) \in {None, actor} \/ admin

CanRequeue(id) == StateOf(id) \in {"claimed", "blocked", "exhausted"}

\* Mutant of CanRetry: ended actions are retried too.
CanRetryAny(id) == StateOf(id) # "absent"

CanRetry(id)   == StateOf(id) \in LiveStates \cup {"blocked", "exhausted"}

----------------------------------------------------------------------------
(* The methods *)

Update(id, a) == actions' = [actions EXCEPT ![id] = a]

\* Mutant of HasRoom: claimed actions are not counted.
HasRoomInPool == Cardinality({id \in Ids : StateOf(id) = "open"}) < MaxOpen

HasRoom == Cardinality(Live) < MaxOpen

\* enqueue: cap check, dependency check and insert under one lock.
Enqueue(deps, goal) ==
    /\ next_id \in Ids
    /\ HasRoom
    /\ ValidDeps(next_id, deps)
    /\ Update(next_id, NewAction(deps, goal))
    /\ next_id' = next_id + 1
    /\ UNCHANGED goals

SetDependsOn(id, deps) ==
    /\ StateOf(id) = "open"
    /\ ValidDeps(id, deps)
    /\ Update(id, [actions[id] EXCEPT !.depends_on = deps])
    /\ UNCHANGED <<next_id, goals>>

Claim(id, w) ==
    /\ CanClaim(id, w)
    /\ Update(id, AsClaimed(actions[id], w))
    /\ UNCHANGED <<next_id, goals>>

Assign(id, w) ==
    /\ CanAssign(id)
    /\ Update(id, [AsClaimed(actions[id], w) EXCEPT !.assignee = w])
    /\ UNCHANGED <<next_id, goals>>

\* Delivers the steer notes; renews the lease of a running claim.  The owner of
\* a stopped or cancelled action is answered too, and learns that it must halt.
Heartbeat(id, w) ==
    LET a == actions[id]
    IN  /\ Owner(a) = w
        /\ a.state \in NonFailureStops \cup {"claimed"}
        /\ Update(id, [a EXCEPT
             !.steer_pending = 0,
             !.lease_until = IF a.state = "claimed" /\ ~a.paused
                             THEN Lease ELSE @])
        /\ UNCHANGED <<next_id, goals>>

RenewLease(id, w) ==
    /\ StateOf(id) = "claimed"
    /\ Owner(actions[id]) = w
    /\ Update(id, [actions[id] EXCEPT !.lease_until = Lease])
    /\ UNCHANGED <<next_id, goals>>

Steer(id) ==
    /\ StateOf(id) = "claimed"
    /\ actions[id].steer_pending < MaxSteer
    /\ Update(id, [actions[id] EXCEPT !.steer_pending = @ + 1])
    /\ UNCHANGED <<next_id, goals>>

SetPaused(id, paused) ==
    /\ StateOf(id) = "claimed"
    /\ actions[id].paused # paused
    /\ Update(id, [actions[id] EXCEPT
         !.paused = paused,
         !.lease_until = IF paused THEN @ ELSE Lease])
    /\ UNCHANGED <<next_id, goals>>

Stop(id) ==
    /\ id \in Live
    /\ Update(id, AsStopped(actions[id]))
    /\ UNCHANGED <<next_id, goals>>

CompleteAs(id, terminal, actor, admin) ==
    /\ terminal \in {"done", "blocked", "exhausted"}
    /\ CanComplete(id, actor, admin)
    /\ Update(id, [actions[id] EXCEPT !.state = terminal])
    /\ UNCHANGED <<next_id, goals>>

Requeue(id) ==
    /\ CanRequeue(id)
    /\ Update(id, AsRequeued(actions[id]))
    /\ UNCHANGED <<next_id, goals>>

RetryTransient(id) ==
    /\ CanRetry(id)
    /\ Update(id, AsRetried(actions[id]))
    /\ UNCHANGED <<next_id, goals>>

Escalate(id) ==
    /\ id \in Present
    /\ Update(id, AsEscalated(actions[id]))
    /\ UNCHANGED <<next_id, goals>>

CascadeDepFailures ==
    /\ actions' = [id \in Ids |-> IF id \in Doomed THEN AsDepFailed(actions[id])
                                  ELSE actions[id]]
    /\ UNCHANGED <<next_id, goals>>

\* Mutant of Prunable: dependents are not looked at.
PrunableEnded == Present \ Live

\* Terminal actions that no live action depends on; old of them are past the
\* retention age and are dropped.
Prunable == {id \in Present \ Live : \A l \in Live : id \notin actions[l].depends_on}

Prune(old) ==
    /\ old \subseteq Prunable
    /\ actions' = [id \in Ids |-> IF id \in old THEN NoAction ELSE actions[id]]
    /\ UNCHANGED <<next_id, goals>>

CreateGoal(g) ==
    /\ goals[g] = "absent"
    /\ \A h \in GoalIds : h < g => goals[h] # "absent"
    /\ goals' = [goals EXCEPT ![g] = "open"]
    /\ UNCHANGED <<actions, next_id>>

\* prove_goal, under the goal lock: the evidence is accepted.
AchieveGoal(g) ==
    /\ goals[g] = "open"
    /\ goals' = [goals EXCEPT ![g] = "achieved"]
    /\ UNCHANGED <<actions, next_id>>

\* Mutant of CancelRemaining: actions still in the pool are left there.
CancelClaimed(g) ==
    /\ actions' = [id \in Ids |-> IF StateOf(id) = "claimed" /\ actions[id].goal_id = g
                                  THEN AsCancelled(actions[id]) ELSE actions[id]]
    /\ UNCHANGED <<next_id, goals>>

\* prove_goal, under the action lock: what is left of the goal is cancelled.
CancelRemaining(g) ==
    /\ actions' = [id \in Ids |-> IF id \in Live /\ actions[id].goal_id = g
                                  THEN AsCancelled(actions[id]) ELSE actions[id]]
    /\ UNCHANGED <<next_id, goals>>

\* maybe_close_goal, under the action lock.
AllDone(g) ==
    LET members == {id \in Present : actions[id].goal_id = g}
    IN  members # {} /\ \A id \in members : StateOf(id) = "done"

\* maybe_close_goal, under the goal lock.
CloseGoal(g) ==
    /\ goals[g] = "open"
    /\ goals' = [goals EXCEPT ![g] = "closed"]
    /\ UNCHANGED <<actions, next_id>>

\* One tick of the clock, for every deadline at once.
Aged(a) ==
    [a EXCEPT
        !.lease_until = IF @ = None \/ @ < 0 THEN @ ELSE @ - 1,
        !.not_before  = IF @ = 0 THEN 0 ELSE @ - 1]

Tick ==
    /\ actions' = [id \in Ids |-> Aged(actions[id])]
    /\ UNCHANGED <<next_id, goals>>

----------------------------------------------------------------------------
Init ==
    /\ actions = [id \in Ids |-> NoAction]
    /\ next_id = 1
    /\ goals = [g \in GoalIds |-> "absent"]

WorkerStep(id, w) ==
    \/ Claim(id, w)
    \/ Assign(id, w)
    \/ Heartbeat(id, w)
    \/ RenewLease(id, w)
    \/ \E terminal \in {"done", "blocked", "exhausted"}, admin \in BOOLEAN :
          CompleteAs(id, terminal, w, admin)

PlannerStep(id) ==
    \/ \E deps \in SUBSET Ids : SetDependsOn(id, deps)
    \/ Steer(id)
    \/ \E paused \in BOOLEAN : SetPaused(id, paused)
    \/ Stop(id)

AccountingStep(id) ==
    \/ Requeue(id)
    \/ RetryTransient(id)
    \/ Escalate(id)

GoalStep(g) ==
    \/ CreateGoal(g)
    \/ AchieveGoal(g)
    \/ CancelRemaining(g)
    \/ CloseGoal(g)

Next ==
    \/ \E deps \in SUBSET Ids, goal \in GoalIds \cup {NoGoal} : Enqueue(deps, goal)
    \/ \E id \in Ids, w \in Workers : WorkerStep(id, w)
    \/ \E id \in Ids : PlannerStep(id)
    \/ \E id \in Ids : AccountingStep(id)
    \/ \E g \in GoalIds : GoalStep(g)
    \/ CascadeDepFailures
    \/ \E old \in SUBSET Ids : Prune(old)
    \/ Tick

Spec == Init /\ [][Next]_vars

----------------------------------------------------------------------------
(* Properties *)

\* Every variable has the type the code gives it, and ids that were not handed
\* out are not in the table.
TypeOK ==
    /\ actions \in [Ids -> ActionRecord]
    /\ next_id \in 1..(MaxActions + 1)
    /\ goals \in [GoalIds -> GoalStates \cup {"absent"}]
    /\ \A id \in Ids : id >= next_id => StateOf(id) = "absent"

\* Ownership bookkeeping: an action back in the pool carries no trace of its
\* last owner, and a claimed action has exactly one owner and a deadline, so it
\* can never sit claimed by nobody or beyond the reach of the lease sweep.
\* (agent_action.rs: claim, assign, requeue, retry_transient.)
OwnershipConsistent ==
    \A id \in Ids :
        LET a == actions[id]
        IN  /\ a.claimed_by = a.assignee
            /\ a.state = "open" =>
                 a.assignee = None /\ a.lease_until = None
            /\ a.state = "claimed" =>
                 a.assignee # None /\ a.lease_until # None

\* Work in progress rests on finished work: whatever is claimed or requeued,
\* edited, pruned or cascaded around it, every dependency of a claimed action
\* is done and still in the table.  (check_deps, prune_terminal_older_than.)
ClaimedDepsDone ==
    \A id \in Ids : StateOf(id) = "claimed" => DepsReady(actions[id])

\* The dependency graph stays acyclic, so a chain of waiting actions always has
\* one that waits for nobody.  (validate_deps, set_depends_on.)
NoDependencyCycle ==
    \A id \in Present : id \notin Upstream(actions[id].depends_on)

----------------------------------------------------------------------------
(* The frontier implements ActionLifecycle *)

PhaseOf(id) ==
    CASE StateOf(id) = "absent"  -> IF id < next_id THEN "dropped" ELSE "unborn"
      [] StateOf(id) = "open"    -> "queued"
      [] StateOf(id) = "claimed" -> "held"
      [] StateOf(id) \in {"blocked", "exhausted"} -> "failed"
      [] OTHER -> StateOf(id)

HolderOf(id) == IF StateOf(id) = "claimed" THEN actions[id].assignee ELSE None

Lifecycle == INSTANCE ActionLifecycle
             WITH phase  <- [id \in Ids |-> PhaseOf(id)],
                  holder <- [id \in Ids |-> HolderOf(id)]

\* Seen one action at a time, every method of the frontier is a step of the
\* life cycle or leaves the action alone: no double holder, no hand-over outside
\* the queue, no resurrection, and an id that was dropped is never used again.
ImplementsLifecycle == Lifecycle!Spec
=============================================================================
