--------------------------- MODULE ActionDispatch ---------------------------
(***************************************************************************)
(* Who drives the action frontier: the MCP tools of engine/mcp.rs, each    *)
(* running in its own request, and the lease sweep of the scheduler, over  *)
(* the worker registry and the failure accounting of engine/dispatch.rs.   *)
(*                                                                         *)
(* A call takes the locks of the frontier and of the registry one after    *)
(* the other.  Each critical section is a step here, so between two steps  *)
(* of one call the steps of the others interleave: this is where the code  *)
(* acts on what it read under a lock it has since released.                *)
(***************************************************************************)
EXTENDS ActionFrontier

CONSTANTS
    Handlers,      \* bound: requests that can be in flight
    Sweeper,       \* the scheduler's sweep (one at a time: cycle_gate)
    Admins,        \* the handlers whose caller is an admin
    Tools,         \* the tools called in this instance
    MaxBusy,       \* bound: calls in flight at a time; 1 is one after the other
    MaxDeps,       \* bound: dependencies of one proposed action
    PruneIds,      \* bound: the ids that may pass the retention age
    MaxLoad,       \* worker -> max_load
    Blacklist,     \* DEFAULT_BLACKLIST_SECS, in ticks
    MaxRequeues,   \* MAX_REQUEUES
    MaxTransientRetries

ASSUME DispatchAssumption ==
    /\ IsFiniteSet(Handlers) /\ Sweeper \notin Handlers /\ Admins \subseteq Handlers
    /\ MaxBusy \in Nat /\ MaxDeps \in Nat /\ PruneIds \subseteq Ids
    /\ MaxLoad \in [Workers -> Nat \ {0}]
    /\ Blacklist \in Nat /\ MaxRequeues \in Nat /\ MaxTransientRetries \in Nat

VARIABLES
    registry,  \* worker -> [registered, blacklisted: ticks left]
    calls      \* process -> the Call it is running

dispatchVars == <<actions, next_id, goals, registry, calls>>
frontierVars == <<actions, next_id, goals>>

Processes == Handlers \cup {Sweeper}

Outcomes == {"done", "transient", "exhausted", "blocked"}
Kinds    == Outcomes \cup {"lease_expired", "none"}

PCs == {"idle", "propose", "complete", "close_check", "close", "account", "retry",
        "requeue", "escalate", "cascade", "cancel", "assign", "unregister",
        "sweep", "settle", "save"}

\* What a call keeps between its steps; pc names the step it takes next.
Call == [pc: PCs, id: Ids \cup {0}, goal: GoalIds \cup {NoGoal},
         worker: Workers \cup {None}, kind: Kinds, todo: SUBSET Ids, swept: BOOLEAN]

NoCall == [pc |-> "idle", id |-> 0, goal |-> NoGoal, worker |-> None,
           kind |-> "none", todo |-> {}, swept |-> FALSE]

At(p, pc) == calls[p].pc = pc
Busy      == {p \in Processes : ~At(p, "idle")}

\* p begins a call that has c still to do.
Begin(p, tool, c) ==
    /\ At(p, "idle")
    /\ tool \in Tools
    /\ Cardinality(Busy) < MaxBusy
    /\ calls' = [calls EXCEPT ![p] = c]

Continue(p, c) == calls' = [calls EXCEPT ![p] = c]
Saving   == [NoCall EXCEPT !.pc = "save"]
Return(p) == Continue(p, NoCall)

\* A one-lock tool: the frontier method, then the save.
OneStep(p, tool) == Begin(p, tool, Saving) /\ UNCHANGED registry

----------------------------------------------------------------------------
(* memory_propose_actions *)

ProposeStart(p) ==
    \E g \in GoalIds \cup {NoGoal} :
        /\ g # NoGoal => goals[g] = "open"
        /\ Begin(p, "propose", [NoCall EXCEPT !.pc = "propose", !.goal = g])
        /\ UNCHANGED <<frontierVars, registry>>

\* One draft of the batch.
ProposeDraft(p) ==
    /\ At(p, "propose")
    /\ \E deps \in SUBSET Ids :
        /\ Cardinality(deps) <= MaxDeps
        /\ Enqueue(deps, calls[p].goal)
    /\ UNCHANGED <<registry, calls>>

ProposeEnd(p) ==
    /\ At(p, "propose")
    /\ Continue(p, Saving)
    /\ UNCHANGED <<frontierVars, registry>>

----------------------------------------------------------------------------
(* action_claim, action_heartbeat, action_control, action_assign, goals *)

ClaimTool(p) ==
    /\ \E id \in Ids, w \in Workers : Claim(id, w)
    /\ OneStep(p, "claim")

HeartbeatTool(p) ==
    /\ \E id \in Ids, w \in Workers : Heartbeat(id, w)
    /\ OneStep(p, "heartbeat")

ControlTool(p) ==
    /\ \E id \in Ids : Steer(id) \/ SetPaused(id, TRUE) \/ SetPaused(id, FALSE)
    /\ OneStep(p, "control")

StopTool(p) ==
    /\ \E id \in Ids : Stop(id)
    /\ Begin(p, "control", [NoCall EXCEPT !.pc = "cascade"])
    /\ UNCHANGED registry

CreateGoalTool(p) ==
    /\ \E g \in GoalIds : CreateGoal(g)
    /\ OneStep(p, "goals")

\* action_goal_prove: accept the evidence, cancel what is left, then cascade.
ProveGoalTool(p) ==
    \E g \in GoalIds :
        /\ AchieveGoal(g)
        /\ Begin(p, "goals", [NoCall EXCEPT !.pc = "cancel", !.goal = g])
        /\ UNCHANGED registry

Cancel(p) ==
    /\ At(p, "cancel")
    /\ CancelRemaining(calls[p].goal)
    /\ Continue(p, [NoCall EXCEPT !.pc = "cascade"])
    /\ UNCHANGED registry

AssignTool(p) ==
    /\ \E id \in Ids, w \in Workers : Assign(id, w)
    /\ OneStep(p, "assign")

----------------------------------------------------------------------------
(* The worker registry and automatic assignment *)

Load(w) == Cardinality({id \in Ids : HoldsLiveClaim(actions[id])
                                     /\ w \in {actions[id].assignee, actions[id].claimed_by}})

Pickable == {w \in Workers : registry[w].registered /\ registry[w].blacklisted = 0
                             /\ Load(w) < MaxLoad[w]}

\* The least loaded worker; which one of several is a matter of their names.
AutoAssignPick(p) ==
    \E id \in Ids, w \in Pickable :
        /\ StateOf(id) = "open"
        /\ \A v \in Pickable : Load(w) <= Load(v)
        /\ Begin(p, "dispatch", [NoCall EXCEPT !.pc = "assign", !.id = id, !.worker = w])
        /\ UNCHANGED <<frontierVars, registry>>

\* Mutant of AutoAssign: the action is not looked at again.
AutoAssignUnchecked(p) ==
    /\ At(p, "assign")
    /\ Update(calls[p].id, AsClaimed(actions[calls[p].id], calls[p].worker))
    /\ Continue(p, Saving)
    /\ UNCHANGED <<next_id, goals, registry>>

AutoAssign(p) ==
    /\ At(p, "assign")
    /\ IF CanAssign(calls[p].id)
       THEN Assign(calls[p].id, calls[p].worker) /\ Continue(p, Saving)
       ELSE Return(p) /\ UNCHANGED frontierVars
    /\ UNCHANGED registry

RegisterTool(p) ==
    \E w \in Workers :
        /\ Begin(p, "workers", NoCall)
        /\ registry' = [registry EXCEPT ![w].registered = TRUE]
        /\ UNCHANGED frontierVars

\* The load check and the removal are two critical sections.
UnregisterCheck(p) ==
    \E w \in Workers, force \in BOOLEAN :
        /\ Load(w) = 0 \/ force
        /\ Begin(p, "workers", [NoCall EXCEPT !.pc = "unregister", !.worker = w])
        /\ UNCHANGED <<frontierVars, registry>>

Unregister(p) ==
    /\ At(p, "unregister")
    /\ registry' = [registry EXCEPT
                      ![calls[p].worker] = [registered |-> FALSE, blacklisted |-> 0]]
    /\ Return(p)
    /\ UNCHANGED frontierVars

----------------------------------------------------------------------------
(* action_complete *)

TerminalFor(outcome) ==
    CASE outcome = "done"      -> "done"
      [] outcome = "exhausted" -> "exhausted"
      [] OTHER                 -> "blocked"

\* The checks made on a copy of the action, before the outcome memory is
\* written.  A "done" without proof of every done_when item is "blocked".
CompleteCheck(p) ==
    \E id \in Ids, w \in Workers, outcome \in Outcomes :
        /\ CanComplete(id, w, p \in Admins)
        /\ Begin(p, "complete", [NoCall EXCEPT !.pc = "complete", !.id = id,
                                               !.worker = w, !.kind = outcome])
        /\ UNCHANGED <<frontierVars, registry>>

\* Mutant of OwesAccounting: running out of steps is not accounted for.
OwesAccountingIfBlocked(kind, a) == kind \in {"transient", "blocked"} /\ ~a.escalated

OwesAccounting(kind, a) == kind # "done" /\ ~a.escalated

\* The transition; when it lost a race the outcome memory is purged again.
CompleteCommit(p) ==
    LET c == calls[p]
        a == actions[c.id]
    IN  /\ At(p, "complete")
        /\ IF CanComplete(c.id, c.worker, p \in Admins)
           THEN /\ CompleteAs(c.id, TerminalFor(c.kind), c.worker, p \in Admins)
                /\ Continue(p,
                     CASE c.kind = "done" /\ a.goal_id # NoGoal ->
                            [NoCall EXCEPT !.pc = "close_check", !.goal = a.goal_id]
                       [] OwesAccounting(c.kind, a) ->
                            [NoCall EXCEPT !.pc = "account", !.id = c.id, !.kind = c.kind]
                       [] OTHER -> Saving)
           ELSE Return(p) /\ UNCHANGED frontierVars
        /\ UNCHANGED registry

CloseCheck(p) ==
    /\ At(p, "close_check")
    /\ Continue(p, IF AllDone(calls[p].goal)
                   THEN [calls[p] EXCEPT !.pc = "close"] ELSE Saving)
    /\ UNCHANGED <<frontierVars, registry>>

Close(p) ==
    /\ At(p, "close")
    /\ \/ CloseGoal(calls[p].goal)
       \/ goals[calls[p].goal] # "open" /\ UNCHANGED frontierVars
    /\ Continue(p, Saving)
    /\ UNCHANGED registry

----------------------------------------------------------------------------
(* account_failure_kind: what a failed action costs, and what becomes of it *)

\* Where the caller goes when the accounting is over.
Accounted(p, swept) ==
    IF p = Sweeper THEN [NoCall EXCEPT !.pc = "sweep", !.todo = calls[p].todo,
                                       !.swept = calls[p].swept \/ swept]
    ELSE Saving

IsTransient(kind, a) == kind = "transient" /\ a.transient_retries < MaxTransientRetries

\* Mutant of Decision: one requeue too many.
DecisionOffByOne(kind, a) ==
    CASE IsTransient(kind, a)             -> "retry"
      [] a.requeue_count <= MaxRequeues   -> "requeue"
      [] OTHER                            -> "escalate"

Decision(kind, a) ==
    CASE IsTransient(kind, a)             -> "retry"
      [] a.requeue_count < MaxRequeues    -> "requeue"
      [] OTHER                            -> "escalate"

\* Reads the action, blacklists its owner and decides, on this copy, what to do.
Account(p) ==
    LET c == calls[p]
        a == actions[c.id]
        blamed == /\ ~IsTransient(c.kind, a)
                  /\ c.kind \in {"transient", "blocked", "lease_expired"}
    IN  /\ At(p, "account")
        /\ IF c.id \in Present
           THEN /\ Continue(p, [c EXCEPT !.pc = Decision(c.kind, a), !.kind = "none"])
                /\ registry' = [w \in Workers |->
                     IF w = Owner(a) /\ blamed /\ registry[w].registered
                     THEN [registry[w] EXCEPT !.blacklisted = Blacklist]
                     ELSE registry[w]]
           ELSE Continue(p, Accounted(p, FALSE)) /\ UNCHANGED registry
        /\ UNCHANGED frontierVars

AccountRetry(p) ==
    /\ At(p, "retry")
    /\ IF CanRetry(calls[p].id)
       THEN RetryTransient(calls[p].id) /\ Continue(p, Accounted(p, TRUE))
       ELSE UNCHANGED frontierVars /\ Continue(p, Accounted(p, FALSE))
    /\ UNCHANGED registry

AccountRequeue(p) ==
    /\ At(p, "requeue")
    /\ IF CanRequeue(calls[p].id)
       THEN Requeue(calls[p].id) /\ Continue(p, Accounted(p, TRUE))
       ELSE UNCHANGED frontierVars /\ Continue(p, Accounted(p, FALSE))
    /\ UNCHANGED registry

AccountEscalate(p) ==
    /\ At(p, "escalate")
    /\ IF calls[p].id \in Present
       THEN Escalate(calls[p].id) /\ Continue(p, [calls[p] EXCEPT !.pc = "cascade"])
       ELSE UNCHANGED frontierVars /\ Continue(p, Accounted(p, FALSE))
    /\ UNCHANGED registry

Cascade(p) ==
    /\ At(p, "cascade")
    /\ CascadeDepFailures
    /\ Continue(p, Accounted(p, TRUE))
    /\ UNCHANGED registry

----------------------------------------------------------------------------
(* sweep_action_leases, and the save that ends every call *)

SweepStart(p) ==
    /\ p = Sweeper
    /\ Begin(p, "sweep", [NoCall EXCEPT !.pc = "sweep", !.todo = ExpiredClaims])
    /\ UNCHANGED <<frontierVars, registry>>

\* The next expired claim of the list, in id order.
SweepNext(p) ==
    /\ At(p, "sweep")
    /\ IF calls[p].todo = {}
       THEN Continue(p, [calls[p] EXCEPT !.pc = "settle"])
       ELSE \E id \in calls[p].todo :
              /\ \A other \in calls[p].todo : id <= other
              /\ Continue(p, [calls[p] EXCEPT !.pc = "account", !.id = id,
                                !.kind = "lease_expired", !.todo = @ \ {id}])
    /\ UNCHANGED <<frontierVars, registry>>

\* Settles the dependents of failed actions; saves if anything changed.
SweepSettle(p) ==
    /\ At(p, "settle")
    /\ CascadeDepFailures
    /\ Continue(p, IF calls[p].swept \/ Doomed # {} THEN Saving ELSE NoCall)
    /\ UNCHANGED registry

\* save_action_frontier drops the ended actions past the retention age.
Save(p) ==
    /\ At(p, "save")
    /\ \E old \in SUBSET PruneIds : Prune(old)
    /\ Return(p)
    /\ UNCHANGED registry

DispatchTick ==
    /\ Tick
    /\ registry' = [w \in Workers |-> [registry[w] EXCEPT
                                         !.blacklisted = IF @ = 0 THEN 0 ELSE @ - 1]]
    /\ UNCHANGED calls

----------------------------------------------------------------------------
\* A fresh frontier beside a registry restored with every worker in it.
DispatchInit ==
    /\ Init
    /\ registry = [w \in Workers |-> [registered |-> TRUE, blacklisted |-> 0]]
    /\ calls = [p \in Processes |-> NoCall]

Request(p) ==
    \/ ProposeStart(p)
    \/ ClaimTool(p)
    \/ HeartbeatTool(p)
    \/ ControlTool(p)
    \/ StopTool(p)
    \/ CreateGoalTool(p)
    \/ ProveGoalTool(p)
    \/ AssignTool(p)
    \/ AutoAssignPick(p)
    \/ RegisterTool(p)
    \/ UnregisterCheck(p)
    \/ CompleteCheck(p)

Resume(p) ==
    \/ ProposeDraft(p)
    \/ ProposeEnd(p)
    \/ Cancel(p)
    \/ AutoAssign(p)
    \/ Unregister(p)
    \/ CompleteCommit(p)
    \/ CloseCheck(p)
    \/ Close(p)
    \/ Account(p)
    \/ AccountRetry(p)
    \/ AccountRequeue(p)
    \/ AccountEscalate(p)
    \/ Cascade(p)
    \/ SweepNext(p)
    \/ SweepSettle(p)
    \/ Save(p)

DispatchNext ==
    \/ \E p \in Handlers : Request(p)
    \/ \E p \in Processes : Resume(p)
    \/ SweepStart(Sweeper)
    \/ DispatchTick

DispatchSpec == DispatchInit /\ [][DispatchNext]_dispatchVars

\* A call that began runs to its end, the clock ticks, and the scheduler's
\* routine cycle keeps calling the sweep (run_commit_cycle).
Fairness ==
    /\ \A p \in Processes : WF_dispatchVars(Resume(p) /\ ~ProposeDraft(p))
    /\ WF_dispatchVars(SweepStart(Sweeper))
    /\ WF_dispatchVars(DispatchTick)

FairDispatchSpec == DispatchSpec /\ Fairness

----------------------------------------------------------------------------
(* Properties that hold however the calls interleave *)

\* The tools and the sweep change the frontier only by its methods, one at a
\* time, so all that is proved of ActionFrontier holds under every
\* interleaving of calls.
ImplementsFrontier == Spec

\* The accounting of a failed action, in the hands of some call.
BeingAccounted(id) ==
    \E p \in Processes : calls[p].id = id
                         /\ calls[p].pc \in {"account", "retry", "requeue", "escalate"}

\* No exhausted action is forgotten: as long as it is exhausted and no human
\* was told, some call still has to requeue or escalate it.  (tool_action_complete
\* accounts for the failure after complete_as has released the lock.)
ExhaustedIsAccounted ==
    \A id \in Ids : StateOf(id) = "exhausted" =>
        actions[id].escalated \/ BeingAccounted(id)

\* The requeue budget is decided on a copy, so racing calls can overdraw it, but
\* by no more than one requeue for each request in flight: every decision to
\* requeue is held by one call until it is applied, and the last one within the
\* budget was applied too.  (account_failure_kind reads requeue_count, unlocks,
\* then requeues.)
BudgetOverdraftBounded ==
    \A id \in Ids : actions[id].requeue_count <= MaxRequeues + Cardinality(Handlers)

\* The cap on live actions is checked at enqueue only; a failed action that is
\* requeued after its slot was given away exceeds it.  The excess is bounded:
\* it never grows beyond one action for every action that was ever requeued.
\* (enqueue counts non-terminal actions, requeue does not.)
CapExcessBounded ==
    Cardinality(Live) <=
        MaxOpen + Cardinality({id \in Live : actions[id].requeue_count
                                            + actions[id].transient_retries > 0})


----------------------------------------------------------------------------
(* What the code's comments and tests say of it; calls that interleave can    *)
(* break each of these, calls that run one after the other cannot             *)

\* A blocked action was escalated, is being accounted for, or has a dependency
\* that failed: an upstream that is merely waiting to be requeued "is still
\* waiting, not failed" (agent_action.rs, Readiness and
\* dep_failure_cascades_transitively).
BlockedForAReason ==
    \A id \in Ids : StateOf(id) = "blocked" =>
        \/ actions[id].escalated
        \/ BeingAccounted(id)
        \/ DepsFailed(actions[id])

\* Achieving a goal "stops the remaining work", a closed goal has only done
\* actions, and new actions join open goals only (agent_action.rs:139,
\* 598): a finished goal has no live action, once its cancellation is over.
NoLiveWorkInFinishedGoal ==
    \A id \in Live : actions[id].goal_id # NoGoal =>
        \/ goals[actions[id].goal_id] = "open"
        \/ \E p \in Processes : At(p, "cancel") /\ calls[p].goal = actions[id].goal_id

\* Done, cancelled and stopped are not failures: "no budget/blame/escalation"
\* (agent_action.rs:72).
NoEscalationWithoutFailure ==
    \A id \in Ids : StateOf(id) \in {"done"} \cup NonFailureStops => ~actions[id].escalated

\* The sweep takes a claim away only past its deadline, and "paused claims
\* never expire" (agent_action.rs:902, 1893): when the sweep moves a claimed action
\* on, its lease has run out and it is not paused.
SweepRespectsLease ==
    [][\A id \in Ids :
          /\ calls[Sweeper].pc \in {"requeue", "escalate"} /\ calls[Sweeper].id = id
          /\ calls'[Sweeper] # calls[Sweeper]
          /\ StateOf(id) = "claimed" /\ StateOf(id)' # "claimed"
          => LeaseExpired(actions[id])]_dispatchVars

\* What is in the pool can be run: nothing open is still paused ("Planner paused
\* this claimed action", agent_action.rs:243), and the dependencies of live work
\* are still there to be waited for ("Keep upstreams still referenced by a live
\* dependent", agent_action.rs:1271), though a failed action whose requeue is to
\* come is not live.
PoolCanRun ==
    /\ \A id \in Ids : StateOf(id) = "open" => ~actions[id].paused
    /\ \A id \in Live : actions[id].depends_on \subseteq Present

----------------------------------------------------------------------------
(* Liveness *)

\* A claim whose owner went silent does not stay claimed: the lease runs out
\* and the sweep moves it on, unless the owner returns or it is paused.
SilentClaimsMoveOn ==
    \A id \in Ids : ExpiredClaims \cap {id} # {} ~> id \notin ExpiredClaims

\* No action stays live on a dependency that has failed for good ("no silent
\* waiting forever", dispatch.rs:284): it is blocked, unless the dependency is
\* requeued before.
DoomedAreBlocked ==
    \A id \in Ids : (id \in Live /\ DepsFailed(actions[id]))
                        ~> ~(id \in Live /\ DepsFailed(actions[id]))
=============================================================================
