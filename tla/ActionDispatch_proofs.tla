----------------------- MODULE ActionDispatch_proofs -----------------------
(***************************************************************************)
(* What the tools and the sweep do to the frontier, for every number of    *)
(* requests in flight: proofs of ActionDispatch.  A step of a call is      *)
(* first put in one of a few classes (DispatchSteps); each invariant then  *)
(* has one step per class.                                                 *)
(***************************************************************************)
EXTENDS ActionDispatch, ActionFrontier_proofs

----------------------------------------------------------------------------
(* Types *)

AccountingPCs == {"account", "retry", "requeue", "escalate"}

\* What a call keeps that its next step relies on: the action it works on, the
\* worker it acts for, the goal it settles.
CallTyped(c) ==
    /\ c \in Call
    /\ c.pc \in AccountingPCs \cup {"complete", "assign"} => c.id \in Ids
    /\ c.pc \in {"complete", "assign", "unregister"} => c.worker \in Workers
    /\ c.pc \in {"cancel", "close_check", "close"} => c.goal \in GoalIds

\* The type of the state of the dispatch.
DispatchTypeOK ==
    /\ TypeOK
    /\ registry \in [Workers -> [registered: BOOLEAN, blacklisted: 0..Blacklist]]
    /\ DOMAIN calls = Processes /\ calls = [p \in Processes |-> calls[p]]
    /\ \A p \in Processes : CallTyped(calls[p])

\* The methods of the frontier that neither requeue an action nor end one.
QuietMethod ==
    \/ \E deps \in SUBSET Ids, goal \in GoalIds \cup {NoGoal} : Enqueue(deps, goal)
    \/ \E id \in Ids, w \in Workers : Claim(id, w) \/ Assign(id, w) \/ Heartbeat(id, w)
    \/ \E id \in Ids : \/ Steer(id) \/ SetPaused(id, TRUE) \/ SetPaused(id, FALSE)
                       \/ Stop(id) \/ RetryTransient(id) \/ Escalate(id)
    \/ \E g \in GoalIds : GoalStep(g)
    \/ CascadeDepFailures
    \/ \E old \in SUBSET Ids : Prune(old)
    \/ Tick
    \/ UNCHANGED vars

\* Of all calls, the step moves the one of p only, to c.
CallBecomes(p, c) == calls' = [calls EXCEPT ![p] = c]

\* A step of p outside the accounting of a failed action.
PlainStep(p) ==
    /\ calls[p].pc \notin AccountingPCs
    /\ \E c \in Call : /\ CallTyped(c) /\ CallBecomes(p, c)
                       /\ c.pc \notin {"retry", "requeue", "escalate"}
    /\ QuietMethod

\* Types of the records that calls are made of.
LEMMA FixedCalls ==
    /\ CallTyped(NoCall) /\ CallTyped(Saving)
    /\ CallTyped([NoCall EXCEPT !.pc = "cascade"])
    /\ NoCall.pc = "idle" /\ Saving.pc = "save"
BY DEF CallTyped, Call, NoCall, Saving, PCs, Kinds, Outcomes, NoGoal, AccountingPCs

\* The changed call of a step.
LEMMA CallsAfter ==
    ASSUME DispatchTypeOK, NEW p \in Processes, NEW c, CallBecomes(p, c)
    PROVE  /\ calls'[p] = c
           /\ \A q \in Processes \ {p} : calls'[q] = calls[q]
           /\ DOMAIN calls' = Processes /\ calls' = [q \in Processes |-> calls'[q]]
BY DEF DispatchTypeOK, CallBecomes

\* Requests begin a call of an idle process.
LEMMA RequestSteps ==
    ASSUME DispatchTypeOK, NEW p \in Handlers, Request(p)
    PROVE  PlainStep(p)
<1>a. p \in Processes /\ \A tool, c : Begin(p, tool, c) => CallBecomes(p, c) /\ calls[p].pc = "idle"
  BY DEF Processes, Begin, CallBecomes, At
<1>b. ASSUME NEW tool, NEW c \in Call, Begin(p, tool, c), CallTyped(c),
             c.pc \notin {"retry", "requeue", "escalate"}, QuietMethod
      PROVE  PlainStep(p)
  BY <1>a, <1>b DEF PlainStep, AccountingPCs
<1>c. ASSUME NEW tool, OneStep(p, tool), QuietMethod
      PROVE  PlainStep(p)
  BY <1>b, <1>c, FixedCalls DEF OneStep, CallTyped
<1>d. UNCHANGED frontierVars => QuietMethod
  BY DEF QuietMethod, frontierVars, vars
<1>1. CASE ProposeStart(p)
  <2>1. PICK g \in GoalIds \cup {NoGoal} :
          Begin(p, "propose", [NoCall EXCEPT !.pc = "propose", !.goal = g])
    BY <1>1 DEF ProposeStart
  <2> DEFINE c == [NoCall EXCEPT !.pc = "propose", !.goal = g]
  <2>2. CallTyped(c) /\ c.pc = "propose"
    BY DEF CallTyped, Call, NoCall, PCs, Kinds, Outcomes, NoGoal, AccountingPCs
  <2> QED BY <1>1, <1>b, <1>d, <2>1, <2>2 DEF ProposeStart, CallTyped
<1>2. CASE ClaimTool(p)
  BY <1>2, <1>c DEF ClaimTool, QuietMethod
<1>3. CASE HeartbeatTool(p)
  BY <1>3, <1>c DEF HeartbeatTool, QuietMethod
<1>4. CASE ControlTool(p)
  BY <1>4, <1>c DEF ControlTool, QuietMethod
<1>5. CASE StopTool(p)
  <2>1. [NoCall EXCEPT !.pc = "cascade"].pc = "cascade"
    BY DEF NoCall
  <2> QED BY <1>5, <1>b, <2>1, FixedCalls DEF StopTool, QuietMethod, CallTyped
<1>6. CASE CreateGoalTool(p)
  BY <1>6, <1>c DEF CreateGoalTool, QuietMethod, GoalStep
<1>7. CASE ProveGoalTool(p)
  <2>1. PICK g \in GoalIds : /\ AchieveGoal(g)
                             /\ Begin(p, "goals", [NoCall EXCEPT !.pc = "cancel", !.goal = g])
    BY <1>7 DEF ProveGoalTool
  <2> DEFINE c == [NoCall EXCEPT !.pc = "cancel", !.goal = g]
  <2>2. CallTyped(c) /\ c.pc = "cancel"
    BY DEF CallTyped, Call, NoCall, PCs, Kinds, Outcomes, NoGoal, AccountingPCs
  <2> QED BY <1>b, <2>1, <2>2 DEF QuietMethod, GoalStep, CallTyped
<1>8. CASE AssignTool(p)
  BY <1>8, <1>c DEF AssignTool, QuietMethod
<1>9. CASE AutoAssignPick(p)
  <2>1. PICK id \in Ids, w \in Workers :
          Begin(p, "dispatch", [NoCall EXCEPT !.pc = "assign", !.id = id, !.worker = w])
    BY <1>9 DEF AutoAssignPick, Pickable
  <2> DEFINE c == [NoCall EXCEPT !.pc = "assign", !.id = id, !.worker = w]
  <2>2. CallTyped(c) /\ c.pc = "assign"
    BY DEF CallTyped, Call, NoCall, PCs, Kinds, Outcomes, NoGoal, AccountingPCs
  <2> QED BY <1>9, <1>b, <1>d, <2>1, <2>2 DEF AutoAssignPick, CallTyped
<1>10. CASE RegisterTool(p)
  BY <1>10, <1>b, <1>d, FixedCalls DEF RegisterTool, CallTyped
<1>11. CASE UnregisterCheck(p)
  <2>1. PICK w \in Workers :
          Begin(p, "workers", [NoCall EXCEPT !.pc = "unregister", !.worker = w])
    BY <1>11 DEF UnregisterCheck
  <2> DEFINE c == [NoCall EXCEPT !.pc = "unregister", !.worker = w]
  <2>2. CallTyped(c) /\ c.pc = "unregister"
    BY DEF CallTyped, Call, NoCall, PCs, Kinds, Outcomes, NoGoal, AccountingPCs
  <2> QED BY <1>11, <1>b, <1>d, <2>1, <2>2 DEF UnregisterCheck, CallTyped
<1>12. CASE CompleteCheck(p)
  <2>1. PICK id \in Ids, w \in Workers, outcome \in Outcomes :
          Begin(p, "complete", [NoCall EXCEPT !.pc = "complete", !.id = id,
                                              !.worker = w, !.kind = outcome])
    BY <1>12 DEF CompleteCheck
  <2> DEFINE c == [NoCall EXCEPT !.pc = "complete", !.id = id,
                                 !.worker = w, !.kind = outcome]
  <2>2. CallTyped(c) /\ c.pc = "complete"
    BY DEF CallTyped, Call, NoCall, PCs, Kinds, Outcomes, NoGoal, AccountingPCs
  <2> QED BY <1>12, <1>b, <1>d, <2>1, <2>2 DEF CompleteCheck, CallTyped
<1> QED BY <1>1, <1>2, <1>3, <1>4, <1>5, <1>6, <1>7, <1>8, <1>9, <1>10, <1>11, <1>12
        DEF Request
\* Where a call goes when its accounting is over.
LEMMA AccountedTyped ==
    ASSUME DispatchTypeOK, NEW p \in Processes, NEW swept \in BOOLEAN
    PROVE  CallTyped(Accounted(p, swept)) /\ Accounted(p, swept).pc \in {"sweep", "save"}
<1>1. calls[p] \in Call
  BY DEF DispatchTypeOK, CallTyped
<1>2. calls[p].todo \in SUBSET Ids /\ (calls[p].swept \/ swept) \in BOOLEAN
  BY <1>1 DEF Call
<1>3. ASSUME NEW todo \in SUBSET Ids, NEW any \in BOOLEAN
      PROVE  LET c == [NoCall EXCEPT !.pc = "sweep", !.todo = todo, !.swept = any]
             IN  CallTyped(c) /\ c.pc = "sweep"
  BY DEF CallTyped, Call, NoCall, PCs, Kinds, Outcomes, NoGoal, AccountingPCs
<1>4. LET c == [NoCall EXCEPT !.pc = "sweep", !.todo = calls[p].todo,
                              !.swept = calls[p].swept \/ swept]
      IN  CallTyped(c) /\ c.pc = "sweep"
  BY <1>2, <1>3, Zenon
<1> QED BY <1>4, FixedCalls DEF Accounted

\* A call that goes on with another pc is typed when the pc asks no more of it.
LEMMA ContinuedTyped ==
    ASSUME NEW c, CallTyped(c), NEW pc \in PCs,
           pc \in AccountingPCs \cup {"complete", "assign"} => c.id \in Ids,
           pc \in {"complete", "assign", "unregister"} => c.worker \in Workers,
           pc \in {"cancel", "close_check", "close"} => c.goal \in GoalIds
    PROVE  CallTyped([c EXCEPT !.pc = pc]) /\ [c EXCEPT !.pc = pc].pc = pc
BY DEF CallTyped, Call

\* The steps of a call that began, outside the accounting and the commit.
PlainResume(p) ==
    \/ ProposeDraft(p) \/ ProposeEnd(p) \/ Cancel(p) \/ AutoAssign(p) \/ Unregister(p)
    \/ CloseCheck(p) \/ Close(p) \/ Cascade(p) \/ SweepNext(p) \/ SweepSettle(p) \/ Save(p)

LEMMA ResumeSteps ==
    ASSUME DispatchTypeOK, NEW p \in Processes, PlainResume(p)
    PROVE  PlainStep(p)
<1>a. UNCHANGED frontierVars => QuietMethod
  BY DEF QuietMethod, frontierVars, vars
<1>b. ASSUME NEW c, CallTyped(c), Continue(p, c), calls[p].pc \notin AccountingPCs,
             c.pc \notin {"retry", "requeue", "escalate"}, QuietMethod
      PROVE  PlainStep(p)
  BY <1>b DEF PlainStep, CallBecomes, Continue, CallTyped
<1>c. CallTyped(calls[p])
  BY DEF DispatchTypeOK
<1>1. CASE ProposeDraft(p)
  <2>1. PICK deps \in SUBSET Ids : Enqueue(deps, calls[p].goal)
    BY <1>1 DEF ProposeDraft
  <2>2. calls[p].goal \in GoalIds \cup {NoGoal} /\ calls[p].pc = "propose"
    BY <1>1, <1>c DEF CallTyped, Call, ProposeDraft, At
  <2>3. Continue(p, calls[p])
    BY <1>1 DEF ProposeDraft, Continue, DispatchTypeOK
  <2> QED BY <2>1, <2>2, <2>3, <1>b, <1>c DEF QuietMethod, AccountingPCs
<1>2. CASE ProposeEnd(p)
  BY <1>2, <1>a, <1>b, FixedCalls DEF ProposeEnd, At, AccountingPCs
<1>3. CASE Cancel(p)
  <2>1. calls[p].goal \in GoalIds /\ calls[p].pc = "cancel" /\ QuietMethod
    BY <1>3, <1>c DEF CallTyped, Cancel, At, QuietMethod, GoalStep
  <2>2. [NoCall EXCEPT !.pc = "cascade"].pc = "cascade"
    BY DEF NoCall
  <2> QED BY <1>3, <1>b, <2>1, <2>2, FixedCalls DEF Cancel, AccountingPCs
<1>4. CASE AutoAssign(p)
  <2>1. calls[p].pc = "assign" /\ calls[p].id \in Ids /\ calls[p].worker \in Workers
    BY <1>4, <1>c DEF AutoAssign, At, CallTyped
  <2>2. QuietMethod /\ (Continue(p, Saving) \/ Continue(p, NoCall))
    BY <1>4, <1>a, <2>1 DEF AutoAssign, QuietMethod, Return
  <2> QED BY <1>b, <2>1, <2>2, FixedCalls DEF AccountingPCs
<1>5. CASE Unregister(p)
  BY <1>5, <1>a, <1>b, FixedCalls DEF Unregister, Return, At, AccountingPCs
<1>6. CASE CloseCheck(p)
  <2> DEFINE closing == [calls[p] EXCEPT !.pc = "close"]
  <2>1. calls[p].pc = "close_check" /\ (Continue(p, closing) \/ Continue(p, Saving))
    BY <1>6 DEF CloseCheck, At
  <2>2. calls[p].goal \in GoalIds
    BY <1>c, <2>1 DEF CallTyped
  <2>3. CallTyped(closing) /\ closing.pc = "close"
    BY <1>c, <2>2, ContinuedTyped DEF PCs, AccountingPCs
  <2> QED BY <1>6, <1>a, <1>b, <2>1, <2>3, FixedCalls DEF CloseCheck, AccountingPCs
<1>7. CASE Close(p)
  <2>1. calls[p].goal \in GoalIds /\ calls[p].pc = "close" /\ Continue(p, Saving)
    BY <1>7, <1>c DEF CallTyped, Close, At
  <2>2. QuietMethod
    BY <1>7, <1>a, <2>1 DEF Close, QuietMethod, GoalStep
  <2> QED BY <1>b, <2>1, <2>2, FixedCalls DEF AccountingPCs
<1>8. CASE Cascade(p)
  <2>1. calls[p].pc = "cascade" /\ Continue(p, Accounted(p, TRUE)) /\ QuietMethod
    BY <1>8 DEF Cascade, At, QuietMethod
  <2> QED BY <1>b, <2>1, AccountedTyped DEF AccountingPCs
<1>9. CASE SweepNext(p)
  <2>1. calls[p].pc = "sweep" /\ QuietMethod
    BY <1>9, <1>a DEF SweepNext, At
  <2>2. CASE calls[p].todo = {}
    <3> DEFINE c == [calls[p] EXCEPT !.pc = "settle"]
    <3>1. CallTyped(c) /\ c.pc = "settle"
      BY <1>c, ContinuedTyped DEF PCs, AccountingPCs
    <3> QED BY <1>9, <1>b, <2>1, <2>2, <3>1 DEF SweepNext, AccountingPCs
  <2>3. CASE calls[p].todo # {}
    <3>1. PICK id \in calls[p].todo :
            Continue(p, [calls[p] EXCEPT !.pc = "account", !.id = id,
                           !.kind = "lease_expired", !.todo = @ \ {id}])
      BY <1>9, <2>3 DEF SweepNext
    <3> DEFINE c == [calls[p] EXCEPT !.pc = "account", !.id = id,
                       !.kind = "lease_expired", !.todo = @ \ {id}]
    <3>2. id \in Ids
      BY <1>c DEF CallTyped, Call
    <3>3. CallTyped(c) /\ c.pc = "account"
      BY <1>c, <3>2 DEF CallTyped, Call, PCs, Kinds, AccountingPCs
    <3> QED BY <1>b, <2>1, <3>1, <3>3 DEF AccountingPCs
  <2> QED BY <2>2, <2>3
<1>10. CASE SweepSettle(p)
  <2>1. calls[p].pc = "settle" /\ QuietMethod /\ (Continue(p, Saving) \/ Continue(p, NoCall))
    BY <1>10 DEF SweepSettle, At, QuietMethod
  <2> QED BY <1>b, <2>1, FixedCalls DEF AccountingPCs
<1>11. CASE Save(p)
  <2>1. PruneIds \subseteq Ids
    BY DispatchAssumption
  <2>2. calls[p].pc = "save" /\ QuietMethod /\ Continue(p, NoCall)
    BY <1>11, <2>1 DEF Save, At, QuietMethod, Return
  <2> QED BY <1>b, <2>2, FixedCalls DEF AccountingPCs
<1> QED BY <1>1, <1>2, <1>3, <1>4, <1>5, <1>6, <1>7, <1>8, <1>9, <1>10, <1>11
        DEF PlainResume

\* The classes of the steps of the dispatch.
LEMMA DispatchSteps ==
    ASSUME DispatchTypeOK, [DispatchNext]_dispatchVars
    PROVE  \/ \E p \in Processes : \/ PlainStep(p) \/ CompleteCommit(p) \/ Account(p)
                                   \/ AccountRetry(p) \/ AccountRequeue(p)
                                   \/ AccountEscalate(p)
           \/ UNCHANGED calls /\ QuietMethod
<1>1. ASSUME NEW p \in Handlers, Request(p)
      PROVE  p \in Processes /\ PlainStep(p)
  BY <1>1, RequestSteps DEF Processes
<1>2. ASSUME NEW p \in Processes, Resume(p)
      PROVE  \/ PlainStep(p) \/ CompleteCommit(p) \/ Account(p)
             \/ AccountRetry(p) \/ AccountRequeue(p) \/ AccountEscalate(p)
  <2>1. PlainResume(p) => PlainStep(p)
    BY ResumeSteps
  <2> QED BY <1>2, <2>1 DEF Resume, PlainResume
<1>3. ASSUME SweepStart(Sweeper)
      PROVE  Sweeper \in Processes /\ PlainStep(Sweeper)
  <2> DEFINE c == [NoCall EXCEPT !.pc = "sweep", !.todo = ExpiredClaims]
  <2>1. CallTyped(c) /\ c.pc = "sweep"
    BY DEF CallTyped, Call, NoCall, PCs, Kinds, NoGoal, AccountingPCs, ExpiredClaims
  <2>2. /\ Sweeper \in Processes /\ calls[Sweeper].pc = "idle"
        /\ CallBecomes(Sweeper, c) /\ UNCHANGED vars
    BY <1>3 DEF SweepStart, Begin, CallBecomes, At, Processes, frontierVars, vars
  <2> QED BY <2>1, <2>2 DEF PlainStep, QuietMethod, AccountingPCs, CallTyped
<1>4. CASE DispatchTick
  BY <1>4 DEF DispatchTick, QuietMethod
<1>5. CASE UNCHANGED dispatchVars
  BY <1>5 DEF dispatchVars, QuietMethod, vars
<1> QED BY <1>1, <1>2, <1>3, <1>4, <1>5 DEF DispatchNext
----------------------------------------------------------------------------
(* The steps of the accounting *)

\* action_complete: the transition, and where the call goes with it.
LEMMA CommitSteps ==
    ASSUME DispatchTypeOK, NEW p \in Processes, CompleteCommit(p)
    PROVE  /\ calls[p].pc = "complete" /\ calls[p].id \in Ids /\ calls[p].worker \in Workers
           /\ UNCHANGED registry
           /\ \E c : /\ CallTyped(c) /\ CallBecomes(p, c)
                     /\ c.pc \notin {"retry", "requeue", "escalate"}
                     /\ \/ UNCHANGED vars
                        \/ \E terminal \in {"done", "blocked", "exhausted"} :
                             /\ CompleteAs(calls[p].id, terminal, calls[p].worker, p \in Admins)
                             /\ terminal = "exhausted" /\ ~actions[calls[p].id].escalated
                                  => c.pc = "account" /\ c.id = calls[p].id
<1> DEFINE id == calls[p].id
           a  == actions[id]
           k  == calls[p].kind
           closing == [NoCall EXCEPT !.pc = "close_check", !.goal = a.goal_id]
           owing   == [NoCall EXCEPT !.pc = "account", !.id = id, !.kind = k]
<1>1. CallTyped(calls[p]) /\ calls[p].pc = "complete"
  BY DEF DispatchTypeOK, CompleteCommit, At
<1>2. id \in Ids /\ calls[p].worker \in Workers /\ k \in Kinds
  BY <1>1 DEF CallTyped, Call
<1>3. a \in ActionRecord
  BY <1>2 DEF DispatchTypeOK, TypeOK
<1>4. a.goal_id # NoGoal => CallTyped(closing) /\ closing.pc = "close_check"
  BY <1>3 DEF ActionRecord, CallTyped, Call, NoCall, PCs, Kinds, Outcomes, NoGoal,
     AccountingPCs
<1>5. CallTyped(owing) /\ owing.pc = "account" /\ owing.id = id
  BY <1>2 DEF CallTyped, Call, NoCall, PCs, NoGoal, AccountingPCs
<1>6. UNCHANGED registry
  BY DEF CompleteCommit
<1>7. CASE CanComplete(id, calls[p].worker, p \in Admins)
  <2>1. CompleteAs(id, TerminalFor(k), calls[p].worker, p \in Admins)
    BY <1>7 DEF CompleteCommit
  <2>2. TerminalFor(k) \in {"done", "blocked", "exhausted"}
    BY <2>1 DEF CompleteAs
  <2>3. TerminalFor(k) = "exhausted" => k = "exhausted"
    BY DEF TerminalFor
  <2> HIDE DEF id, a, k, closing, owing
  <2>4. CASE k = "done" /\ a.goal_id # NoGoal
    <3>1. CallBecomes(p, closing)
      BY <1>7, <2>4 DEF CompleteCommit, Continue, CallBecomes, OwesAccounting, id, a, k, closing
    <3> QED BY <1>1, <1>2, <1>4, <1>6, <2>1, <2>2, <2>3, <2>4, <3>1 DEF id, a, k
  <2>5. CASE ~(k = "done" /\ a.goal_id # NoGoal) /\ OwesAccounting(k, a)
    <3>1. CallBecomes(p, owing)
      BY <1>7, <2>5 DEF CompleteCommit, Continue, CallBecomes, id, a, k, owing
    <3> QED BY <1>1, <1>2, <1>5, <1>6, <2>1, <2>2, <3>1 DEF id, a, k
  <2>6. CASE ~(k = "done" /\ a.goal_id # NoGoal) /\ ~OwesAccounting(k, a)
    <3>1. CallBecomes(p, Saving)
      BY <1>7, <2>6 DEF CompleteCommit, Continue, CallBecomes, id, a, k
    <3>2. k = "exhausted" => a.escalated
      BY <2>6 DEF OwesAccounting
    <3> QED BY <1>1, <1>2, <1>6, <2>1, <2>2, <2>3, <3>1, <3>2, FixedCalls DEF id, a, k
  <2> QED BY <2>4, <2>5, <2>6
<1>8. CASE ~CanComplete(id, calls[p].worker, p \in Admins)
  <2>1. CallBecomes(p, NoCall) /\ UNCHANGED vars
    BY <1>8 DEF CompleteCommit, Return, Continue, CallBecomes, frontierVars, vars
  <2> QED BY <1>1, <1>2, <1>6, <2>1, FixedCalls
<1> QED BY <1>7, <1>8

\* account_failure_kind, up to its decision.
LEMMA AccountSteps ==
    ASSUME DispatchTypeOK, NEW p \in Processes, Account(p)
    PROVE  /\ calls[p].pc = "account" /\ calls[p].id \in Ids /\ UNCHANGED vars
           /\ \E c : /\ CallTyped(c) /\ CallBecomes(p, c)
                     /\ c.pc = "requeue" => c.id = calls[p].id
                          /\ actions[c.id].requeue_count < MaxRequeues
                     /\ calls[p].id \in Present =>
                          c.id = calls[p].id /\ c.pc \in {"retry", "requeue", "escalate"}
<1> DEFINE id == calls[p].id
           d  == Decision(calls[p].kind, actions[id])
<1>1. CallTyped(calls[p]) /\ calls[p].pc = "account" /\ UNCHANGED vars
  BY DEF DispatchTypeOK, Account, At, frontierVars, vars
<1>2. id \in Ids
  BY <1>1 DEF CallTyped, AccountingPCs
<1>3. CASE id \in Present
  <2> DEFINE c == [calls[p] EXCEPT !.pc = d, !.kind = "none"]
  <2>1. CallBecomes(p, c)
    BY <1>3 DEF Account, Continue, CallBecomes
  <2>2. /\ d \in {"retry", "requeue", "escalate"}
        /\ d = "requeue" => actions[id].requeue_count < MaxRequeues
    BY DEF Decision
  <2> HIDE DEF d
  <2>3. CallTyped(c) /\ c.pc = d /\ c.id = id
    BY <1>1, <1>2, <2>2 DEF CallTyped, Call, PCs, Kinds, AccountingPCs
  <2> QED BY <1>1, <1>2, <2>1, <2>2, <2>3
<1>4. CASE id \notin Present
  <2>1. CallBecomes(p, Accounted(p, FALSE))
    BY <1>4 DEF Account, Continue, CallBecomes
  <2> QED BY <1>1, <1>2, <1>4, <2>1, AccountedTyped
<1> QED BY <1>3, <1>4

\* account_failure_kind, applying the decision.
LEMMA ApplySteps ==
    ASSUME DispatchTypeOK, NEW p \in Processes,
           AccountRetry(p) \/ AccountRequeue(p) \/ AccountEscalate(p)
    PROVE  /\ calls[p].pc \in AccountingPCs /\ calls[p].id \in Ids /\ UNCHANGED registry
           /\ \E c : CallTyped(c) /\ CallBecomes(p, c) /\ c.pc \notin AccountingPCs
           /\ \/ AccountRetry(p) /\ RetryTransient(calls[p].id)
              \/ AccountRetry(p) /\ ~CanRetry(calls[p].id) /\ UNCHANGED vars
              \/ AccountRequeue(p) /\ calls[p].pc = "requeue" /\ Requeue(calls[p].id)
              \/ AccountRequeue(p) /\ ~CanRequeue(calls[p].id) /\ UNCHANGED vars
              \/ AccountEscalate(p) /\ Escalate(calls[p].id)
              \/ AccountEscalate(p) /\ calls[p].id \notin Present /\ UNCHANGED vars
<1>1. CallTyped(calls[p]) /\ calls[p].pc \in AccountingPCs /\ UNCHANGED registry
  BY DEF DispatchTypeOK, AccountRetry, AccountRequeue, AccountEscalate, At, AccountingPCs
<1>2. calls[p].id \in Ids
  BY <1>1 DEF CallTyped, AccountingPCs
<1>3. CallTyped([calls[p] EXCEPT !.pc = "cascade"])
      /\ [calls[p] EXCEPT !.pc = "cascade"].pc = "cascade"
  BY <1>1, ContinuedTyped DEF PCs, AccountingPCs
<1>4. \E c : CallTyped(c) /\ CallBecomes(p, c) /\ c.pc \notin AccountingPCs
  <2>1. \/ CallBecomes(p, Accounted(p, TRUE)) \/ CallBecomes(p, Accounted(p, FALSE))
        \/ CallBecomes(p, [calls[p] EXCEPT !.pc = "cascade"])
    BY DEF AccountRetry, AccountRequeue, AccountEscalate, Continue, CallBecomes
  <2> QED BY <1>3, <2>1, AccountedTyped DEF AccountingPCs
<1>5. \/ AccountRetry(p) /\ RetryTransient(calls[p].id)
      \/ AccountRetry(p) /\ ~CanRetry(calls[p].id) /\ UNCHANGED vars
      \/ AccountRequeue(p) /\ calls[p].pc = "requeue" /\ Requeue(calls[p].id)
      \/ AccountRequeue(p) /\ ~CanRequeue(calls[p].id) /\ UNCHANGED vars
      \/ AccountEscalate(p) /\ Escalate(calls[p].id)
      \/ AccountEscalate(p) /\ calls[p].id \notin Present /\ UNCHANGED vars
  BY DEF AccountRetry, AccountRequeue, AccountEscalate, At, frontierVars, vars
<1> QED BY <1>1, <1>2, <1>4, <1>5

----------------------------------------------------------------------------
(* Every step is a step of the frontier *)

LEMMA QuietIsNext == QuietMethod => [Next]_vars
BY DEF QuietMethod, Next, WorkerStep, PlannerStep, AccountingStep

LEMMA DispatchStepIsNext == DispatchTypeOK /\ [DispatchNext]_dispatchVars => [Next]_vars
<1> SUFFICES ASSUME DispatchTypeOK, [DispatchNext]_dispatchVars PROVE [Next]_vars
  OBVIOUS
<1>1. ASSUME NEW p \in Processes, PlainStep(p) PROVE [Next]_vars
  BY <1>1, QuietIsNext DEF PlainStep
<1>2. ASSUME NEW p \in Processes, CompleteCommit(p) PROVE [Next]_vars
  <2>1. (p \in Admins) \in BOOLEAN
    OBVIOUS
  <2> QED BY <1>2, <2>1, CommitSteps DEF Next, WorkerStep
<1>3. ASSUME NEW p \in Processes, Account(p) PROVE [Next]_vars
  BY <1>3, AccountSteps
<1>4. ASSUME NEW p \in Processes, AccountRetry(p) \/ AccountRequeue(p) \/ AccountEscalate(p)
      PROVE [Next]_vars
  BY <1>4, ApplySteps DEF Next, AccountingStep
<1> QED BY <1>1, <1>2, <1>3, <1>4, DispatchSteps, QuietIsNext

\* A blacklist entry is set to Blacklist, counted down, or cleared.
LEMMA RegistryStep ==
    ASSUME DispatchTypeOK, [DispatchNext]_dispatchVars
    PROVE  registry' \in [Workers -> [registered: BOOLEAN, blacklisted: 0..Blacklist]]
<1> DEFINE Entry == [registered: BOOLEAN, blacklisted: 0..Blacklist]
<1>1. registry \in [Workers -> Entry] /\ Blacklist \in 0..Blacklist /\ 0 \in 0..Blacklist
  BY DispatchAssumption DEF DispatchTypeOK
<1>2. ASSUME NEW p \in Handlers, Request(p) PROVE registry' \in [Workers -> Entry]
  <2>1. CASE RegisterTool(p)
    BY <1>1, <2>1 DEF RegisterTool
  <2>2. CASE ~RegisterTool(p)
    <3>1. UNCHANGED registry
      BY <1>2, <2>2 DEF Request, ProposeStart, ClaimTool, HeartbeatTool, ControlTool,
         StopTool, CreateGoalTool, ProveGoalTool, AssignTool, AutoAssignPick,
         UnregisterCheck, CompleteCheck, OneStep
    <3> QED BY <1>1, <3>1
  <2> QED BY <2>1, <2>2
<1>3. ASSUME NEW p \in Processes, Resume(p) PROVE registry' \in [Workers -> Entry]
  <2>1. CASE Unregister(p)
    BY <1>1, <2>1 DEF Unregister
  <2>2. CASE Account(p)
    BY <1>1, <2>2 DEF Account
  <2>3. CASE ~Unregister(p) /\ ~Account(p)
    <3>1. UNCHANGED registry
      BY <1>3, <2>3 DEF Resume, ProposeDraft, ProposeEnd, Cancel, AutoAssign,
         CompleteCommit, CloseCheck, Close, AccountRetry, AccountRequeue, AccountEscalate,
         Cascade, SweepNext, SweepSettle, Save
    <3> QED BY <1>1, <3>1
  <2> QED BY <2>1, <2>2, <2>3
<1>4. CASE DispatchTick
  <2>1. \A t \in 0..Blacklist : (IF t = 0 THEN 0 ELSE t - 1) \in 0..Blacklist
    BY DispatchAssumption
  <2> QED BY <1>1, <1>4, <2>1 DEF DispatchTick
<1>5. CASE SweepStart(Sweeper) \/ UNCHANGED dispatchVars
  BY <1>1, <1>5 DEF SweepStart, dispatchVars
<1> QED BY <1>2, <1>3, <1>4, <1>5 DEF DispatchNext

LEMMA DispatchTypeInit == DispatchInit => DispatchTypeOK
BY TypeInit, FixedCalls, DispatchAssumption DEF DispatchInit, DispatchTypeOK

LEMMA DispatchTypeStep ==
    DispatchTypeOK /\ [DispatchNext]_dispatchVars => DispatchTypeOK'
<1> SUFFICES ASSUME DispatchTypeOK, [DispatchNext]_dispatchVars PROVE DispatchTypeOK'
  OBVIOUS
<1>1. TypeOK'
  BY DispatchStepIsNext, TypeStep DEF DispatchTypeOK
<1>2. /\ DOMAIN calls' = Processes /\ calls' = [p \in Processes |-> calls'[p]]
      /\ \A p \in Processes : CallTyped(calls'[p])
  <2>1. \/ \E p \in Processes : \E c : CallTyped(c) /\ CallBecomes(p, c)
        \/ UNCHANGED calls
    <3>1. \A p \in Processes : PlainStep(p) => \E c : CallTyped(c) /\ CallBecomes(p, c)
      BY DEF PlainStep
    <3> QED BY <3>1, DispatchSteps, CommitSteps, AccountSteps, ApplySteps
  <2>2. ASSUME NEW p \in Processes, NEW c, CallTyped(c), CallBecomes(p, c)
        PROVE  /\ DOMAIN calls' = Processes /\ calls' = [q \in Processes |-> calls'[q]]
               /\ \A q \in Processes : CallTyped(calls'[q])
    BY <2>2, CallsAfter DEF DispatchTypeOK
  <2>3. CASE UNCHANGED calls
    BY <2>3 DEF DispatchTypeOK
  <2> QED BY <2>1, <2>2, <2>3
<1> QED BY <1>1, <1>2, RegistryStep DEF DispatchTypeOK

\* However many requests run and however they interleave with the sweep, the
\* calls keep their types: a step never acts on an action, a worker or a goal
\* that its call did not name.
THEOREM DispatchTypeCorrect == DispatchSpec => []DispatchTypeOK
BY DispatchTypeInit, DispatchTypeStep, PTL DEF DispatchSpec

\* The tools and the sweep change the frontier by its methods only, one at a
\* time, so whatever is proved of ActionFrontier holds under every interleaving
\* of calls.  (The tools of engine/mcp.rs and sweep_action_leases.)
THEOREM DispatchImplementsFrontier == DispatchSpec => ImplementsFrontier
<1>1. DispatchInit => Init
  BY DEF DispatchInit
<1> QED BY <1>1, DispatchTypeCorrect, DispatchStepIsNext, PTL
        DEF DispatchSpec, ImplementsFrontier, Spec
\* The cap of enqueue is exceeded by put-back actions only, under every
\* interleaving of calls: the frontier's own invariant, carried over.
THEOREM CapExcessSafe == DispatchSpec => []CapExcessBounded
<1>1. TypeOK /\ FreshWithinCap => CapExcessBounded
  <2> SUFFICES ASSUME TypeOK, FreshWithinCap PROVE CapExcessBounded
    OBVIOUS
  <2> DEFINE back == {id \in Live : actions[id].requeue_count
                                      + actions[id].transient_retries > 0}
  <2>1. Live = FreshLive \cup back /\ FreshLive \cap back = {}
    <3>1. \A id \in Live : actions[id].requeue_count \in Nat
                           /\ actions[id].transient_retries \in Nat
      BY DEF Live, TypeOK, ActionRecord
    <3> QED BY <3>1 DEF FreshLive, Fresh
  <2>2. FreshLive \in SUBSET Ids /\ back \in SUBSET Ids
    BY DEF FreshLive, Live
  <2> HIDE DEF back
  <2>3. /\ IsFiniteSet(FreshLive) /\ IsFiniteSet(back)
        /\ Cardinality(FreshLive) \in Nat /\ Cardinality(back) \in Nat
    BY <2>2, IdsFinite
  <2>4. Cardinality(FreshLive \cap back) = 0
    BY <2>1, FS_EmptySet
  <2>5. Cardinality(Live) = Cardinality(FreshLive) + Cardinality(back)
                              - Cardinality(FreshLive \cap back)
    BY <2>1, <2>3, FS_Union
  <2>6. Cardinality(Live) <= MaxOpen + Cardinality(back)
    BY <2>3, <2>4, <2>5, BoundsAssumption DEF FreshWithinCap
  <2> QED BY <2>6 DEF CapExcessBounded, back
<1> QED BY <1>1, TypeCorrect, FreshActionsWithinCap, DispatchImplementsFrontier, PTL
        DEF ImplementsFrontier

----------------------------------------------------------------------------
(* What the methods do to the budget and to exhausted actions *)

\* An exhausted action nobody was told of.
Unsettled(id) == StateOf(id) = "exhausted" /\ ~actions[id].escalated

\* A quiet method spends no requeue and leaves no action exhausted.
LEMMA QuietEffects ==
    ASSUME TypeOK, QuietMethod, NEW k \in Ids
    PROVE  /\ actions'[k].requeue_count <= actions[k].requeue_count
           /\ Unsettled(k)' => Unsettled(k)
<1> USE DEF Unsettled, StateOf
<1>a. /\ \A id \in Ids : actions[id] \in ActionRecord
      /\ \A id \in Ids : actions[id].requeue_count \in Nat
  BY BoundsAssumption DEF TypeOK, ActionRecord
<1>b. ASSUME NEW id \in Ids, NEW a, Update(id, a),
             a.requeue_count <= actions[id].requeue_count,
             a.state = "exhausted" /\ ~a.escalated
               => actions[id].state = "exhausted" /\ ~actions[id].escalated
      PROVE  /\ actions'[k].requeue_count <= actions[k].requeue_count
             /\ Unsettled(k)' => Unsettled(k)
  <2>1. actions'[k] = IF k = id THEN a ELSE actions[k]
    BY <1>b DEF Update, TypeOK
  <2> QED BY <1>a, <1>b, <2>1
<1>1. ASSUME NEW deps \in SUBSET Ids, NEW goal \in GoalIds \cup {NoGoal},
             Enqueue(deps, goal)
      PROVE  /\ actions'[k].requeue_count <= actions[k].requeue_count
             /\ Unsettled(k)' => Unsettled(k)
  BY <1>1, <1>a, <1>b DEF Enqueue, NewAction
<1>2. ASSUME NEW id \in Ids, NEW w \in Workers, Claim(id, w) \/ Assign(id, w) \/ Heartbeat(id, w)
      PROVE  /\ actions'[k].requeue_count <= actions[k].requeue_count
             /\ Unsettled(k)' => Unsettled(k)
  <2> DEFINE beat == [actions[id] EXCEPT
                        !.steer_pending = 0,
                        !.lease_until = IF actions[id].state = "claimed"
                                             /\ ~actions[id].paused
                                        THEN Lease ELSE @]
             assigned == [AsClaimed(actions[id], w) EXCEPT !.assignee = w]
  <2>1. /\ beat.requeue_count = actions[id].requeue_count
        /\ beat.state = actions[id].state /\ beat.escalated = actions[id].escalated
        /\ AsClaimed(actions[id], w).requeue_count = actions[id].requeue_count
        /\ assigned.requeue_count = actions[id].requeue_count
        /\ AsClaimed(actions[id], w).state = "claimed" /\ assigned.state = "claimed"
    BY <1>a DEF ActionRecord, AsClaimed
  <2>2. Update(id, beat) \/ Update(id, AsClaimed(actions[id], w)) \/ Update(id, assigned)
    BY <1>2 DEF Claim, Assign, Heartbeat
  <2>3. PICK a \in {beat, AsClaimed(actions[id], w), assigned} : Update(id, a)
    BY <2>2
  <2>4. /\ a.requeue_count <= actions[id].requeue_count
        /\ a.state = "exhausted" /\ ~a.escalated
             => actions[id].state = "exhausted" /\ ~actions[id].escalated
    <3> HIDE DEF beat, assigned
    <3>1. a = beat \/ a.state = "claimed"
      BY <2>1, <2>3
    <3>2. a.requeue_count = actions[id].requeue_count
      BY <2>1, <2>3
    <3> QED BY <1>a, <2>1, <3>1, <3>2
  <2> QED BY <1>b, <2>3, <2>4
<1>3. ASSUME NEW id \in Ids,
             \/ Steer(id) \/ SetPaused(id, TRUE) \/ SetPaused(id, FALSE)
             \/ Stop(id) \/ RetryTransient(id) \/ Escalate(id)
      PROVE  /\ actions'[k].requeue_count <= actions[k].requeue_count
             /\ Unsettled(k)' => Unsettled(k)
  <2> DEFINE Harmless(a) == /\ a.requeue_count = actions[id].requeue_count
                            /\ \/ a.state \in {"open", "blocked", "stopped"}
                               \/ a.escalated
                               \/ /\ a.state = actions[id].state
                                  /\ a.escalated = actions[id].escalated
  <2>1. ASSUME NEW a, Update(id, a), Harmless(a)
        PROVE  /\ actions'[k].requeue_count <= actions[k].requeue_count
               /\ Unsettled(k)' => Unsettled(k)
    BY <1>a, <1>b, <2>1
  <2>2. CASE Steer(id)
    <3>1. Harmless([actions[id] EXCEPT !.steer_pending = @ + 1])
      BY <1>a DEF ActionRecord
    <3> QED BY <2>1, <2>2, <3>1 DEF Steer
  <2>3. ASSUME NEW paused \in BOOLEAN, SetPaused(id, paused)
        PROVE  /\ actions'[k].requeue_count <= actions[k].requeue_count
               /\ Unsettled(k)' => Unsettled(k)
    <3>1. Harmless([actions[id] EXCEPT !.paused = paused,
                                       !.lease_until = IF paused THEN @ ELSE Lease])
      BY <1>a DEF ActionRecord
    <3> QED BY <2>1, <2>3, <3>1 DEF SetPaused
  <2>4. CASE Stop(id)
    <3>1. Harmless(AsStopped(actions[id]))
      BY <1>a DEF AsStopped, ActionRecord
    <3> QED BY <2>1, <2>4, <3>1 DEF Stop
  <2>5. CASE RetryTransient(id)
    <3>1. Harmless(AsRetried(actions[id]))
      BY <1>a DEF AsRetried, Released, ActionRecord
    <3> QED BY <2>1, <2>5, <3>1 DEF RetryTransient
  <2>6. CASE Escalate(id)
    <3>1. Harmless(AsEscalated(actions[id]))
      BY <1>a DEF AsEscalated, ActionRecord
    <3> QED BY <2>1, <2>6, <3>1 DEF Escalate
  <2> QED BY <1>3, <2>2, <2>3, <2>4, <2>5, <2>6
<1>4. ASSUME NEW g \in GoalIds, GoalStep(g)
      PROVE  /\ actions'[k].requeue_count <= actions[k].requeue_count
             /\ Unsettled(k)' => Unsettled(k)
  <2>1. AsCancelled(actions[k]).state = "cancelled"
        /\ AsCancelled(actions[k]).requeue_count = actions[k].requeue_count
    BY <1>a DEF AsCancelled, ActionRecord
  <2> QED BY <1>4, <1>a, <2>1 DEF GoalStep, CreateGoal, AchieveGoal, CloseGoal, CancelRemaining
<1>5. CASE CascadeDepFailures
  <2>1. AsDepFailed(actions[k]).state = "blocked"
        /\ AsDepFailed(actions[k]).requeue_count = actions[k].requeue_count
    BY <1>a DEF AsDepFailed, ActionRecord
  <2> QED BY <1>5, <1>a, <2>1 DEF CascadeDepFailures
<1>6. ASSUME NEW old \in SUBSET Ids, Prune(old)
      PROVE  /\ actions'[k].requeue_count <= actions[k].requeue_count
             /\ Unsettled(k)' => Unsettled(k)
  BY <1>6, <1>a DEF Prune, NoAction, NewAction
<1>7. CASE Tick
  <2>1. /\ Aged(actions[k]).state = actions[k].state
        /\ Aged(actions[k]).escalated = actions[k].escalated
        /\ Aged(actions[k]).requeue_count = actions[k].requeue_count
    BY <1>a DEF Aged, ActionRecord
  <2> QED BY <1>7, <1>a, <2>1 DEF Tick
<1>8. CASE UNCHANGED vars
  BY <1>8, <1>a DEF vars
<1> QED BY <1>1, <1>2, <1>3, <1>4, <1>5, <1>6, <1>7, <1>8 DEF QuietMethod

\* Completing an action spends no requeue, and may leave that one exhausted.
LEMMA CompleteEffects ==
    ASSUME TypeOK, NEW id \in Ids, NEW terminal \in {"done", "blocked", "exhausted"},
           NEW w, NEW admin, CompleteAs(id, terminal, w, admin), NEW k \in Ids
    PROVE  /\ actions'[k].requeue_count = actions[k].requeue_count
           /\ Unsettled(k)' => Unsettled(k) \/ (/\ k = id /\ terminal = "exhausted"
                                                /\ ~actions[id].escalated)
<1>1. actions'[k] = IF k = id THEN [actions[id] EXCEPT !.state = terminal] ELSE actions[k]
  BY DEF CompleteAs, Update, TypeOK
<1>2. actions[id] \in ActionRecord
  BY DEF TypeOK
<1> QED BY <1>1, <1>2 DEF ActionRecord, Unsettled, StateOf

\* A requeue spends at most one.
LEMMA RequeueEffects ==
    ASSUME TypeOK, NEW id \in Ids, Requeue(id), NEW k \in Ids
    PROVE  /\ k = id => actions'[k].requeue_count <= actions[k].requeue_count + 1
           /\ k # id => actions'[k].requeue_count = actions[k].requeue_count
           /\ Unsettled(k)' => Unsettled(k) /\ k # id
<1>1. actions'[k] = IF k = id THEN AsRequeued(actions[id]) ELSE actions[k]
  BY DEF Requeue, Update, TypeOK
<1>2. actions[id] \in ActionRecord
  BY DEF TypeOK
<1>3. /\ AsRequeued(actions[id]).state = "open"
      /\ AsRequeued(actions[id]).requeue_count = Bumped(actions[id].requeue_count)
  BY <1>2 DEF AsRequeued, Released, ActionRecord
<1>4. Bumped(actions[id].requeue_count) <= actions[id].requeue_count + 1
  BY <1>2, BoundsAssumption DEF Bumped, ActionRecord
<1> QED BY <1>1, <1>3, <1>4 DEF Unsettled, StateOf
----------------------------------------------------------------------------
(* No exhausted action is forgotten *)

LEMMA ExhaustedInit == DispatchInit => ExhaustedIsAccounted
BY DEF DispatchInit, Init, ExhaustedIsAccounted, StateOf, NoAction, NewAction

LEMMA ExhaustedStep ==
    DispatchTypeOK /\ ExhaustedIsAccounted /\ [DispatchNext]_dispatchVars
        => ExhaustedIsAccounted'
<1> SUFFICES ASSUME DispatchTypeOK, ExhaustedIsAccounted, [DispatchNext]_dispatchVars,
                    NEW id \in Ids, Unsettled(id)'
             PROVE  BeingAccounted(id)'
  BY DEF ExhaustedIsAccounted, Unsettled
<1> DEFINE Has(q) == calls[q].id = id /\ calls[q].pc \in AccountingPCs
<1>a. TypeOK
  BY DEF DispatchTypeOK
<1>b. ASSUME Unsettled(id)
      PROVE  \E q \in Processes : Has(q)
  BY <1>b DEF ExhaustedIsAccounted, Unsettled, BeingAccounted, AccountingPCs
<1>c. ASSUME NEW q \in Processes, calls'[q].id = id, calls'[q].pc \in AccountingPCs
      PROVE  BeingAccounted(id)'
  BY <1>c DEF BeingAccounted, AccountingPCs
<1>d. ASSUME NEW p \in Processes, NEW c, CallBecomes(p, c), NEW q \in Processes, Has(q), q # p
      PROVE  BeingAccounted(id)'
  BY <1>c, <1>d, CallsAfter
<1>1. ASSUME NEW p \in Processes, PlainStep(p)
      PROVE  BeingAccounted(id)'
  <2>1. \E q \in Processes : Has(q)
    BY <1>1, <1>a, <1>b, QuietEffects DEF PlainStep
  <2> QED BY <1>1, <1>d, <2>1 DEF PlainStep
<1>2. ASSUME NEW p \in Processes, CompleteCommit(p)
      PROVE  BeingAccounted(id)'
  <2>1. PICK c : /\ CallTyped(c) /\ CallBecomes(p, c)
                 /\ \/ UNCHANGED vars
                    \/ \E terminal \in {"done", "blocked", "exhausted"} :
                         /\ CompleteAs(calls[p].id, terminal, calls[p].worker, p \in Admins)
                         /\ terminal = "exhausted" /\ ~actions[calls[p].id].escalated
                              => c.pc = "account" /\ c.id = calls[p].id
    BY <1>2, CommitSteps
  <2>2. calls[p].id \in Ids /\ calls[p].pc \notin AccountingPCs
    BY <1>2, CommitSteps DEF AccountingPCs
  <2>3. CASE Unsettled(id)
    <3>1. PICK q \in Processes : Has(q)
      BY <1>b, <2>3
    <3> QED BY <1>d, <2>1, <2>2, <3>1
  <2>4. CASE ~Unsettled(id)
    <3>1. c.pc = "account" /\ c.id = id
      BY <1>a, <2>1, <2>2, <2>4, CompleteEffects DEF vars, Unsettled, StateOf
    <3> QED BY <1>c, <2>1, <3>1, CallsAfter DEF AccountingPCs
  <2> QED BY <2>3, <2>4
<1>3. ASSUME NEW p \in Processes, Account(p)
      PROVE  BeingAccounted(id)'
  <2>1. PICK c : /\ CallBecomes(p, c)
                 /\ calls[p].id \in Present =>
                      c.id = calls[p].id /\ c.pc \in {"retry", "requeue", "escalate"}
    BY <1>3, AccountSteps
  <2>2. Unsettled(id) /\ id \in Present
    BY <1>3, AccountSteps DEF Unsettled, StateOf, vars, Present
  <2>3. PICK q \in Processes : Has(q)
    BY <1>b, <2>2
  <2>4. CASE q = p
    BY <1>c, <2>1, <2>2, <2>3, <2>4, CallsAfter DEF AccountingPCs
  <2> QED BY <1>d, <2>1, <2>3, <2>4
<1>4. ASSUME NEW p \in Processes, AccountRetry(p) \/ AccountRequeue(p) \/ AccountEscalate(p)
      PROVE  BeingAccounted(id)'
  <2> DEFINE it == calls[p].id
  <2>1. PICK c : CallBecomes(p, c)
    BY <1>4, ApplySteps
  <2>2. it \in Ids
    BY <1>4, ApplySteps
  <2>3. Unsettled(id) /\ id # it
    <3>1. CASE RetryTransient(it)
      <4>1. Unsettled(id)
        BY <1>a, <2>2, <3>1, QuietEffects DEF QuietMethod
      <4>2. AsRetried(actions[it]).state = "open"
        BY <1>a, <2>2 DEF TypeOK, ActionRecord, AsRetried, Released
      <4> QED BY <1>a, <2>2, <3>1, <4>1, <4>2
              DEF RetryTransient, Update, TypeOK, Unsettled, StateOf
    <3>2. CASE Requeue(it)
      BY <1>a, <2>2, <3>2, RequeueEffects
    <3>3. CASE Escalate(it)
      <4>1. Unsettled(id)
        BY <1>a, <2>2, <3>3, QuietEffects DEF QuietMethod
      <4>2. AsEscalated(actions[it]).escalated
        BY <1>a, <2>2 DEF TypeOK, ActionRecord, AsEscalated
      <4> QED BY <1>a, <2>2, <3>3, <4>1, <4>2
              DEF Escalate, Update, TypeOK, Unsettled, StateOf
    <3>4. CASE /\ UNCHANGED vars
               /\ ~CanRetry(it) \/ ~CanRequeue(it) \/ it \notin Present
      BY <2>2, <3>4 DEF vars, Unsettled, StateOf, CanRetry, CanRequeue, Present
    <3> QED BY <1>4, <3>1, <3>2, <3>3, <3>4, ApplySteps
  <2>4. PICK q \in Processes : Has(q)
    BY <1>b, <2>3
  <2> QED BY <1>d, <2>1, <2>3, <2>4
<1>5. CASE UNCHANGED calls /\ QuietMethod
  <2>1. PICK q \in Processes : Has(q)
    BY <1>a, <1>b, <1>5, QuietEffects
  <2> QED BY <1>c, <1>5, <2>1
<1> QED BY <1>1, <1>2, <1>3, <1>4, <1>5, DispatchSteps

\* As long as an action is exhausted and no human was told, some call still has
\* to requeue, retry or escalate it, whatever other calls do to the action
\* between the transition and its accounting.  (tool_action_complete releases
\* the lock of complete_as before account_failure_kind.)
THEOREM ExhaustedNeverForgotten == DispatchSpec => []ExhaustedIsAccounted
<1>1. DispatchTypeOK /\ ExhaustedIsAccounted /\ [DispatchNext]_dispatchVars
        => (DispatchTypeOK /\ ExhaustedIsAccounted)'
  BY DispatchTypeStep, ExhaustedStep
<1> QED BY <1>1, DispatchTypeInit, ExhaustedInit, PTL DEF DispatchSpec

----------------------------------------------------------------------------
(* The requeue budget *)

\* The calls that decided to requeue an action and have not done it yet.
Deciders(id) == {p \in Processes : At(p, "requeue") /\ calls[p].id = id}

\* Requeues spent and decided: a decision within the budget finds at most one
\* held by every other process.
BudgetWithDeciders ==
    \A id \in Ids : actions[id].requeue_count + Cardinality(Deciders(id))
                      <= MaxRequeues + Cardinality(Handlers)

\* There is one process more than there are handlers.
LEMMA ProcessesFinite ==
    /\ IsFiniteSet(Processes) /\ Cardinality(Processes) = Cardinality(Handlers) + 1
    /\ Cardinality(Handlers) \in Nat
    /\ \A S \in SUBSET Processes : /\ IsFiniteSet(S) /\ Cardinality(S) \in Nat
                                   /\ Cardinality(S) <= Cardinality(Processes)
    /\ \A S \in SUBSET Processes : \A T \in SUBSET S : Cardinality(T) <= Cardinality(S)
<1>1. /\ IsFiniteSet(Processes) /\ Cardinality(Processes) = Cardinality(Handlers) + 1
      /\ Cardinality(Handlers) \in Nat
  BY DispatchAssumption, FS_AddElement, FS_CardinalityType DEF Processes
<1>2. ASSUME NEW S \in SUBSET Processes
      PROVE  /\ IsFiniteSet(S) /\ Cardinality(S) \in Nat
             /\ Cardinality(S) <= Cardinality(Processes)
             /\ \A T \in SUBSET S : Cardinality(T) <= Cardinality(S)
  BY <1>1, FS_Subset, FS_CardinalityType
<1> QED BY <1>1, <1>2

LEMMA BudgetInit == DispatchInit => BudgetWithDeciders
<1> SUFFICES ASSUME DispatchInit, NEW id \in Ids
             PROVE  actions[id].requeue_count + Cardinality(Deciders(id))
                      <= MaxRequeues + Cardinality(Handlers)
  BY DEF BudgetWithDeciders
<1>1. Deciders(id) = {} /\ actions[id].requeue_count = 0
  BY DEF DispatchInit, Init, Deciders, At, NoCall, NoAction, NewAction
<1> QED BY <1>1, FS_EmptySet, ProcessesFinite, DispatchAssumption

LEMMA BudgetStep ==
    DispatchTypeOK /\ BudgetWithDeciders /\ [DispatchNext]_dispatchVars
        => BudgetWithDeciders'
<1> SUFFICES ASSUME DispatchTypeOK, BudgetWithDeciders, [DispatchNext]_dispatchVars,
                    NEW id \in Ids
             PROVE  actions'[id].requeue_count + Cardinality(Deciders(id)')
                      <= MaxRequeues + Cardinality(Handlers)
  BY DEF BudgetWithDeciders
<1> DEFINE before == Deciders(id)
           after  == Deciders(id)'
           spent  == actions[id].requeue_count
           spentNext == actions'[id].requeue_count
<1>a. TypeOK
  BY DEF DispatchTypeOK
<1>b. spent \in Nat /\ spentNext \in Nat
  BY DispatchTypeStep, BoundsAssumption DEF DispatchTypeOK, TypeOK, ActionRecord
<1>c. before \in SUBSET Processes /\ after \in SUBSET Processes
  BY DEF Deciders
<1>d. spent + Cardinality(before) <= MaxRequeues + Cardinality(Handlers)
  BY DEF BudgetWithDeciders
<1>e. ASSUME NEW p \in Processes, NEW c, CallBecomes(p, c),
             c.pc = "requeue" => c.id # id
      PROVE  after \subseteq before \ {p}
  BY <1>e, CallsAfter DEF Deciders, At
<1> HIDE DEF before, after, spent, spentNext
<1>f. ASSUME after \subseteq before, spentNext <= spent
      PROVE  spentNext + Cardinality(after) <= MaxRequeues + Cardinality(Handlers)
  <2>1. Cardinality(after) <= Cardinality(before) /\ Cardinality(after) \in Nat
        /\ Cardinality(before) \in Nat
    BY <1>c, <1>f, ProcessesFinite
  <2> QED BY <1>b, <1>d, <1>f, <2>1, ProcessesFinite, DispatchAssumption
<1>1. ASSUME NEW p \in Processes, PlainStep(p)
      PROVE  spentNext + Cardinality(after) <= MaxRequeues + Cardinality(Handlers)
  <2>1. spentNext <= spent
    BY <1>1, <1>a, QuietEffects DEF PlainStep, spent, spentNext
  <2> QED BY <1>1, <1>e, <1>f, <2>1 DEF PlainStep
<1>2. ASSUME NEW p \in Processes, CompleteCommit(p)
      PROVE  spentNext + Cardinality(after) <= MaxRequeues + Cardinality(Handlers)
  <2>1. spentNext <= spent
    <3>1. CASE UNCHANGED vars
      BY <1>b, <3>1 DEF vars, spent, spentNext
    <3>2. ASSUME NEW terminal \in {"done", "blocked", "exhausted"},
                 CompleteAs(calls[p].id, terminal, calls[p].worker, p \in Admins)
          PROVE  spentNext <= spent
      <4>1. calls[p].id \in Ids
        BY <1>2, CommitSteps
      <4> QED BY <1>a, <1>b, <3>2, <4>1, CompleteEffects DEF spent, spentNext
    <3> QED BY <1>2, <3>1, <3>2, CommitSteps
  <2>2. \E c : CallBecomes(p, c) /\ c.pc # "requeue"
    BY <1>2, CommitSteps
  <2> QED BY <1>e, <1>f, <2>1, <2>2
<1>3. ASSUME NEW p \in Processes, Account(p)
      PROVE  spentNext + Cardinality(after) <= MaxRequeues + Cardinality(Handlers)
  <2>1. PICK c : /\ CallBecomes(p, c)
                 /\ c.pc = "requeue" => c.id = calls[p].id
                                        /\ actions[c.id].requeue_count < MaxRequeues
    BY <1>3, AccountSteps
  <2>2. spentNext = spent
    BY <1>3, AccountSteps DEF vars, spent, spentNext
  <2>3. CASE c.pc = "requeue" /\ c.id = id
    <3>1. spent < MaxRequeues
      BY <2>1, <2>3 DEF spent
    <3>2. Cardinality(after) <= Cardinality(Handlers) + 1 /\ Cardinality(after) \in Nat
      BY <1>c, ProcessesFinite
    <3> QED BY <1>b, <2>2, <3>1, <3>2, ProcessesFinite, DispatchAssumption
  <2>4. CASE ~(c.pc = "requeue" /\ c.id = id)
    BY <1>b, <1>e, <1>f, <2>1, <2>2, <2>4
  <2> QED BY <2>3, <2>4
<1>4. ASSUME NEW p \in Processes, AccountRetry(p) \/ AccountRequeue(p) \/ AccountEscalate(p)
      PROVE  spentNext + Cardinality(after) <= MaxRequeues + Cardinality(Handlers)
  <2>1. PICK c : CallBecomes(p, c) /\ c.pc \notin AccountingPCs
    BY <1>4, ApplySteps
  <2>2. after \subseteq before \ {p}
    BY <1>e, <2>1 DEF AccountingPCs
  <2>3. calls[p].id \in Ids
    BY <1>4, ApplySteps
  <2>4. CASE Requeue(calls[p].id) /\ calls[p].pc = "requeue" /\ calls[p].id = id
    <3>1. p \in before
      BY <2>4 DEF before, Deciders, At
    <3>2. Cardinality(before \ {p}) = Cardinality(before) - 1
      BY <1>c, <3>1, ProcessesFinite, FS_RemoveElement
    <3>3. Cardinality(after) <= Cardinality(before \ {p})
      BY <1>c, <2>2, ProcessesFinite
    <3>4. spentNext <= spent + 1
      BY <1>a, <2>4, RequeueEffects DEF spent, spentNext
    <3>5. Cardinality(after) \in Nat /\ Cardinality(before) \in Nat
      BY <1>c, ProcessesFinite
    <3> QED BY <1>b, <1>d, <3>2, <3>3, <3>4, <3>5, ProcessesFinite, DispatchAssumption
  <2>5. CASE ~(Requeue(calls[p].id) /\ calls[p].pc = "requeue" /\ calls[p].id = id)
    <3>1. spentNext <= spent
      <4>1. CASE UNCHANGED vars
        BY <1>b, <4>1 DEF vars, spent, spentNext
      <4>2. CASE RetryTransient(calls[p].id) \/ Escalate(calls[p].id)
        BY <1>a, <2>3, <4>2, QuietEffects DEF QuietMethod, spent, spentNext
      <4>3. CASE Requeue(calls[p].id) /\ calls[p].pc = "requeue"
        BY <1>a, <1>b, <2>3, <2>5, <4>3, RequeueEffects DEF spent, spentNext
      <4> QED BY <1>4, <4>1, <4>2, <4>3, ApplySteps
    <3> QED BY <1>f, <2>2, <3>1
  <2> QED BY <2>4, <2>5
<1>5. ASSUME UNCHANGED calls, QuietMethod
      PROVE  spentNext + Cardinality(after) <= MaxRequeues + Cardinality(Handlers)
  <2>1. after = before
    BY <1>5 DEF before, after, Deciders, At
  <2>2. spentNext <= spent
    BY <1>5, <1>a, QuietEffects DEF spent, spentNext
  <2> QED BY <1>f, <2>1, <2>2
<1>6. spentNext + Cardinality(after) <= MaxRequeues + Cardinality(Handlers)
  BY <1>1, <1>2, <1>3, <1>4, <1>5, DispatchSteps
<1> QED BY <1>6 DEF after, spentNext

\* The overdraft of the requeue budget is at most one requeue for each request
\* in flight.  The bound on what is spent is not inductive: a decision taken
\* within the budget is applied later, whatever was spent meanwhile, so the
\* decisions not yet applied are counted with it.  (account_failure_kind reads
\* requeue_count, unlocks, and requeues under another lock.)
THEOREM OverdraftBounded == DispatchSpec => []BudgetOverdraftBounded
<1>1. DispatchTypeOK /\ BudgetWithDeciders /\ [DispatchNext]_dispatchVars
        => (DispatchTypeOK /\ BudgetWithDeciders)'
  BY DispatchTypeStep, BudgetStep
<1>2. DispatchTypeOK /\ BudgetWithDeciders => BudgetOverdraftBounded
  <2> SUFFICES ASSUME DispatchTypeOK, BudgetWithDeciders, NEW id \in Ids
               PROVE  actions[id].requeue_count <= MaxRequeues + Cardinality(Handlers)
    BY DEF BudgetOverdraftBounded
  <2>1. Deciders(id) \in SUBSET Processes
    BY DEF Deciders
  <2>2. Cardinality(Deciders(id)) \in Nat /\ Cardinality(Handlers) \in Nat
    BY <2>1, ProcessesFinite
  <2>3. actions[id].requeue_count \in Nat
    BY BoundsAssumption DEF DispatchTypeOK, TypeOK, ActionRecord
  <2> QED BY <2>2, <2>3, DispatchAssumption DEF BudgetWithDeciders
<1> QED BY <1>1, <1>2, DispatchTypeInit, BudgetInit, PTL DEF DispatchSpec
----------------------------------------------------------------------------
(* Calls that run one after the other *)

\* The failed action c is accounting for is id.
InAccount(c, id) == c.pc \in AccountingPCs /\ c.id = id

OpenGoal(g) == g = NoGoal \/ goals[g] = "open"

\* Escalated and paused actions are where they can be, and live work has its
\* dependencies in the table.
Records ==
    \A id \in Ids :
        /\ actions[id].escalated => StateOf(id) \in {"blocked", "exhausted"}
        /\ actions[id].paused => StateOf(id) \in {"claimed", "cancelled"}
        /\ id \in Live => actions[id].depends_on \subseteq Present

\* Every blocked action has its reason, which the call c will not take away.
Reasons(c) ==
    \A id \in Ids : StateOf(id) = "blocked" =>
        \/ actions[id].escalated
        \/ InAccount(c, id)
        \/ \E d \in actions[id].depends_on : FailedDep(d) /\ ~InAccount(c, d)

\* Live work is of an open goal, or the call c is about to cancel it.
Served(c) ==
    \A id \in Live : \/ OpenGoal(actions[id].goal_id)
                     \/ c.pc = "cancel" /\ c.goal = actions[id].goal_id

\* An action that failed and may go back to the pool as it is.
Accountable(id) ==
    /\ StateOf(id) \in {"claimed", "blocked", "exhausted"}
    /\ StateOf(id) = "claimed" => id \in ExpiredClaims
    /\ ~actions[id].paused /\ ~actions[id].escalated
    /\ actions[id].depends_on \subseteq Present
    /\ OpenGoal(actions[id].goal_id)

\* What the call c read under a lock it released is still so.
StillTrue(c) ==
    /\ c.pc = "propose" => OpenGoal(c.goal)
    /\ c.pc = "close" => \A id \in Live : actions[id].goal_id # c.goal
    /\ c.pc \in AccountingPCs => Accountable(c.id) /\ c.id \notin c.todo
    /\ c.pc \in AccountingPCs \cup {"sweep", "cascade"} => c.todo \subseteq ExpiredClaims

WorkFits(c) == Records /\ Reasons(c) /\ Served(c) /\ StillTrue(c)

\* p is the only process that may be in a call.
Only(p) == \A q \in Processes \ {p} : At(q, "idle")

\* There is one call at a time, and the frontier fits it.
SerialInv ==
    /\ \E p \in Processes : Only(p)
    /\ \A p \in Processes : Only(p) => WorkFits(calls[p])

\* What is known of every frontier, whatever calls overlap.
Sound == TypeOK /\ ClaimedDepsDone /\ DepsHandedOut

----------------------------------------------------------------------------
(* What the methods do to work and its reasons *)

\* A doomed action has a dependency that failed or is doomed itself.
LEMMA DoomedWhy ==
    ASSUME NEW id \in Doomed
    PROVE  \E d \in actions[id].depends_on : FailedDep(d) \/ d \in Doomed
<1> SUFFICES ASSUME \A d \in actions[id].depends_on : ~FailedDep(d) /\ d \notin Doomed
             PROVE  FALSE
  OBVIOUS
<1> DEFINE rest == Doomed \ {id}
<1>1. rest \in SUBSET Live
  BY DEF Doomed
<1>2. ASSUME NEW j \in Live, NEW d \in actions[j].depends_on, FailedDep(d) \/ d \in rest
      PROVE  j \in rest
  <2>1. j # id
    BY <1>2
  <2>2. ASSUME NEW S \in SUBSET Live, CascadeClosed(S) PROVE j \in S
    <3>1. FailedDep(d) \/ d \in S
      BY <1>2, <2>2 DEF Doomed
    <3> QED BY <1>2, <2>2, <3>1 DEF CascadeClosed
  <2>3. j \in Doomed
    BY <2>2 DEF Doomed
  <2> QED BY <2>1, <2>3
<1>3. CascadeClosed(rest)
  BY <1>2 DEF CascadeClosed
<1>4. id \in rest
  BY <1>1, <1>3 DEF Doomed
<1> QED BY <1>4

\* The dependencies of a claimed action are done, so no failure dooms it.
LEMMA DoomedIsOpen ==
    ASSUME ClaimedDepsDone, NEW id \in Doomed
    PROVE  id \in Ids /\ StateOf(id) = "open"
<1>1. id \in Live
  BY DEF Doomed
<1>2. PICK d \in actions[id].depends_on : FailedDep(d) \/ d \in Doomed
  BY DoomedWhy
<1>3. StateOf(d) # "done"
  BY <1>2 DEF FailedDep, Doomed, Live, LiveStates
<1>4. StateOf(id) # "claimed"
  BY <1>1, <1>3 DEF ClaimedDepsDone, DepsReady, Live
<1> QED BY <1>1, <1>4 DEF Live, LiveStates

\* Action id stays what it is for those that wait for it: its dependencies, goal
\* and escalation stay, and it changes its state only while it is live, but
\* not by a failure.
Touched(id) ==
    /\ actions'[id].depends_on = actions[id].depends_on
    /\ actions'[id].goal_id = actions[id].goal_id
    /\ actions'[id].escalated = actions[id].escalated
    /\ \/ actions'[id].state = StateOf(id)
       \/ id \in Live /\ actions'[id].state \in {"claimed", "cancelled", "stopped"}
    /\ actions'[id].paused => \/ actions'[id].state = "claimed"
                              \/ actions[id].paused /\ actions'[id].state \in {StateOf(id), "cancelled"}

\* The methods that only touch actions.
Touching ==
    \/ \E id \in Ids, w \in Workers : Claim(id, w) \/ Assign(id, w) \/ Heartbeat(id, w)
    \/ \E id \in Ids : Steer(id) \/ SetPaused(id, TRUE) \/ SetPaused(id, FALSE) \/ Stop(id)
    \/ \E g \in GoalIds : GoalStep(g)
    \/ Tick
    \/ UNCHANGED vars

LEMMA OneTouched ==
    ASSUME TypeOK, NEW it \in Ids, NEW b, Update(it, b),
           b.depends_on = actions[it].depends_on, b.goal_id = actions[it].goal_id,
           b.escalated = actions[it].escalated,
           \/ b.state = StateOf(it)
           \/ it \in Live /\ b.state \in {"claimed", "cancelled", "stopped"},
           b.paused => b.state = "claimed" \/ (actions[it].paused /\ b.state = StateOf(it))
    PROVE  \A id \in Ids : Touched(id)
BY DEF Update, TypeOK, Touched, StateOf

LEMMA TouchingTouches ==
    ASSUME TypeOK, Touching
    PROVE  \A id \in Ids : Touched(id)
<1>a. \A id \in Ids : actions[id] \in ActionRecord
  BY DEF TypeOK
<1>1. ASSUME NEW id \in Ids, NEW w \in Workers, Claim(id, w) \/ Assign(id, w)
      PROVE  \A k \in Ids : Touched(k)
  <2> DEFINE b == AsClaimed(actions[id], w)
  <2>1. /\ b.depends_on = actions[id].depends_on /\ b.goal_id = actions[id].goal_id
        /\ b.escalated = actions[id].escalated /\ b.state = "claimed"
        /\ LET e == [b EXCEPT !.assignee = w] IN
           /\ e.depends_on = actions[id].depends_on /\ e.goal_id = actions[id].goal_id
           /\ e.escalated = actions[id].escalated /\ e.state = "claimed"
    BY <1>a DEF ActionRecord, AsClaimed
  <2>2. id \in Live
    BY <1>1 DEF Claim, Assign, CanClaim, CanAssign, Live, LiveStates
  <2>3. Update(id, b) \/ Update(id, [b EXCEPT !.assignee = w])
    BY <1>1 DEF Claim, Assign
  <2> HIDE DEF b
  <2> QED BY <2>1, <2>2, <2>3, OneTouched
<1>2. ASSUME NEW id \in Ids, NEW w \in Workers, Heartbeat(id, w)
      PROVE  \A k \in Ids : Touched(k)
  <2> DEFINE b == [actions[id] EXCEPT
             !.steer_pending = 0,
             !.lease_until = IF actions[id].state = "claimed" /\ ~actions[id].paused
                             THEN Lease ELSE @]
  <2>1. /\ b.depends_on = actions[id].depends_on /\ b.goal_id = actions[id].goal_id
        /\ b.escalated = actions[id].escalated /\ b.state = StateOf(id)
        /\ b.paused = actions[id].paused
    BY <1>a DEF ActionRecord, StateOf
  <2>2. Update(id, b)
    BY <1>2 DEF Heartbeat
  <2> HIDE DEF b
  <2> QED BY <2>1, <2>2, OneTouched
<1>3. ASSUME NEW id \in Ids, Steer(id)
      PROVE  \A k \in Ids : Touched(k)
  <2> DEFINE b == [actions[id] EXCEPT !.steer_pending = @ + 1]
  <2>1. /\ b.depends_on = actions[id].depends_on /\ b.goal_id = actions[id].goal_id
        /\ b.escalated = actions[id].escalated /\ b.state = StateOf(id)
        /\ b.paused = actions[id].paused
    BY <1>a DEF ActionRecord, StateOf
  <2>2. Update(id, b)
    BY <1>3 DEF Steer
  <2> HIDE DEF b
  <2> QED BY <2>1, <2>2, OneTouched
<1>4. ASSUME NEW id \in Ids, NEW paused \in BOOLEAN, SetPaused(id, paused)
      PROVE  \A k \in Ids : Touched(k)
  <2> DEFINE b == [actions[id] EXCEPT !.paused = paused,
                                      !.lease_until = IF paused THEN @ ELSE Lease]
  <2>1. /\ b.depends_on = actions[id].depends_on /\ b.goal_id = actions[id].goal_id
        /\ b.escalated = actions[id].escalated /\ b.state = StateOf(id)
    BY <1>a DEF ActionRecord, StateOf
  <2>2. Update(id, b) /\ StateOf(id) = "claimed"
    BY <1>4 DEF SetPaused
  <2> HIDE DEF b
  <2> QED BY <2>1, <2>2, OneTouched
<1>5. ASSUME NEW id \in Ids, Stop(id)
      PROVE  \A k \in Ids : Touched(k)
  <2> DEFINE b == AsStopped(actions[id])
  <2>1. /\ b.depends_on = actions[id].depends_on /\ b.goal_id = actions[id].goal_id
        /\ b.escalated = actions[id].escalated /\ b.state = "stopped" /\ ~b.paused
    BY <1>a DEF ActionRecord, AsStopped
  <2>2. Update(id, b) /\ id \in Live
    BY <1>5 DEF Stop
  <2> HIDE DEF b
  <2> QED BY <2>1, <2>2, OneTouched
<1>b. actions' = actions => \A k \in Ids : Touched(k)
  BY DEF Touched, StateOf
<1>6. ASSUME NEW g \in GoalIds, GoalStep(g)
      PROVE  \A k \in Ids : Touched(k)
  <2>1. CASE CancelRemaining(g)
    <3> SUFFICES ASSUME NEW k \in Ids PROVE Touched(k)
      OBVIOUS
    <3>1. /\ AsCancelled(actions[k]).depends_on = actions[k].depends_on
          /\ AsCancelled(actions[k]).goal_id = actions[k].goal_id
          /\ AsCancelled(actions[k]).escalated = actions[k].escalated
          /\ AsCancelled(actions[k]).paused = actions[k].paused
          /\ AsCancelled(actions[k]).state = "cancelled"
      BY <1>a DEF ActionRecord, AsCancelled
    <3>2. actions'[k] = IF k \in Live /\ actions[k].goal_id = g
                        THEN AsCancelled(actions[k]) ELSE actions[k]
      BY <2>1 DEF CancelRemaining
    <3> QED BY <3>1, <3>2 DEF Touched, StateOf
  <2>2. CASE ~CancelRemaining(g)
    BY <1>b, <1>6, <2>2 DEF GoalStep, CreateGoal, AchieveGoal, CloseGoal
  <2> QED BY <2>1, <2>2
<1>7. CASE Tick
  <2> SUFFICES ASSUME NEW k \in Ids PROVE Touched(k)
    OBVIOUS
  <2>1. /\ Aged(actions[k]).depends_on = actions[k].depends_on
        /\ Aged(actions[k]).goal_id = actions[k].goal_id
        /\ Aged(actions[k]).escalated = actions[k].escalated
        /\ Aged(actions[k]).paused = actions[k].paused
        /\ Aged(actions[k]).state = actions[k].state
    BY <1>a DEF ActionRecord, Aged
  <2>2. actions'[k] = Aged(actions[k])
    BY <1>7 DEF Tick
  <2> QED BY <2>1, <2>2 DEF Touched, StateOf
<1>8. CASE UNCHANGED vars
  BY <1>8, <1>b DEF vars
<1> QED BY <1>1, <1>2, <1>3, <1>4, <1>5, <1>6, <1>7, <1>8 DEF Touching

\* A dependency that failed stays failed, and live work was live before.
LEMMA TouchedStays ==
    ASSUME Records, \A id \in Ids : Touched(id), NEW id \in Ids
    PROVE  /\ FailedDep(id) => FailedDep(id)'
           /\ id \in Live' => id \in Live
           /\ id \in Present' <=> id \in Present
           /\ StateOf(id)' = "blocked" => StateOf(id) = "blocked"
<1>1. Touched(id)
  OBVIOUS
<1>2. actions[id].escalated => StateOf(id) \in {"blocked", "exhausted"}
  BY DEF Records
<1> QED BY <1>1, <1>2 DEF Touched, FailedDep, Live, Present, LiveStates, StateOf

\* Touching leaves the records and the reasons right; goals may open.
LEMMA TouchedFits ==
    ASSUME TypeOK, Records, \A id \in Ids : Touched(id), NEW c, Reasons(c),
           NEW d, \A id \in Ids : InAccount(d, id) <=> InAccount(c, id)
    PROVE  Records' /\ Reasons(d)'
<1>a. /\ Present' = Present
      /\ \A id \in Ids : actions[id].depends_on \subseteq Ids
  <2>1. \A id \in Ids : id \in Present' <=> id \in Present
    BY TouchedStays
  <2>2. Present' \subseteq Ids /\ Present \subseteq Ids
    BY DEF Present
  <2> QED BY <2>1, <2>2 DEF TypeOK, ActionRecord
<1>1. ASSUME NEW id \in Ids
      PROVE  /\ actions'[id].escalated => StateOf(id)' \in {"blocked", "exhausted"}
             /\ actions'[id].paused => StateOf(id)' \in {"claimed", "cancelled"}
             /\ id \in Live' => actions'[id].depends_on \subseteq Present'
  <2>1. Touched(id) /\ (id \in Live' => id \in Live)
    BY TouchedStays
  <2>2. /\ actions[id].escalated => StateOf(id) \in {"blocked", "exhausted"}
        /\ actions[id].paused => StateOf(id) \in {"claimed", "cancelled"}
        /\ id \in Live => actions[id].depends_on \subseteq Present
    BY DEF Records
  <2>3. id \in Live => StateOf(id) \notin {"blocked", "exhausted"}
    BY DEF Live, LiveStates
  <2> QED BY <1>a, <2>1, <2>2, <2>3 DEF Touched, StateOf
<1>2. ASSUME NEW id \in Ids, StateOf(id)' = "blocked"
      PROVE  \/ actions'[id].escalated \/ InAccount(d, id)
             \/ \E k \in actions'[id].depends_on : FailedDep(k)' /\ ~InAccount(d, k)
  <2>1. StateOf(id) = "blocked" /\ Touched(id)
    BY <1>2, TouchedStays
  <2>2. \/ actions[id].escalated \/ InAccount(c, id)
        \/ \E k \in actions[id].depends_on : FailedDep(k) /\ ~InAccount(c, k)
    BY <2>1 DEF Reasons
  <2>3. \A k \in Ids : FailedDep(k) => FailedDep(k)'
    BY TouchedStays
  <2> QED BY <1>a, <2>1, <2>2, <2>3 DEF Touched
<1> QED BY <1>1, <1>2 DEF Records, Reasons, InAccount

\* A new action has its dependencies in the table and joins an open goal; what
\* is blocked waits for actions handed out before.
LEMMA EnqueueFits ==
    ASSUME Sound, Records, NEW c, Reasons(c), Served(c), NEW d,
           \A id \in Ids : InAccount(d, id) <=> InAccount(c, id),
           c.pc # "cancel", NEW deps \in SUBSET Ids, NEW goal \in GoalIds \cup {NoGoal},
           OpenGoal(goal), Enqueue(deps, goal)
    PROVE  Records' /\ Reasons(d)' /\ Served(d)'
<1> DEFINE new == NewAction(deps, goal)
<1>1. /\ next_id \in Ids /\ StateOf(next_id) = "absent" /\ goals' = goals
      /\ actions'[next_id] = new /\ \A id \in Ids \ {next_id} : actions'[id] = actions[id]
      /\ deps \subseteq Present \ {next_id}
  BY DEF Sound, TypeOK, Enqueue, Update, ValidDeps
<1>2. /\ new.state = "open" /\ new.escalated = FALSE /\ new.paused = FALSE
      /\ new.depends_on = deps /\ new.goal_id = goal
  BY DEF NewAction
<1> HIDE DEF new
<1>3. Present \subseteq Present'
  BY <1>1, <1>2 DEF Present, StateOf
<1>4. Records'
  <2> SUFFICES ASSUME NEW id \in Ids
               PROVE  /\ actions'[id].escalated => StateOf(id)' \in {"blocked", "exhausted"}
                      /\ actions'[id].paused => StateOf(id)' \in {"claimed", "cancelled"}
                      /\ id \in Live' => actions'[id].depends_on \subseteq Present'
    BY DEF Records
  <2>1. CASE id = next_id
    BY <1>1, <1>2, <1>3, <2>1 DEF StateOf
  <2>2. CASE id # next_id
    <3>1. id \in Live' => id \in Live
      BY <1>1, <2>2 DEF Live, StateOf
    <3> QED BY <1>1, <1>3, <2>2, <3>1 DEF Records, StateOf
  <2> QED BY <2>1, <2>2
<1>5. Reasons(d)'
  <2> SUFFICES ASSUME NEW id \in Ids, StateOf(id)' = "blocked"
               PROVE  \/ actions'[id].escalated \/ InAccount(d, id)
                      \/ \E k \in actions'[id].depends_on : FailedDep(k)' /\ ~InAccount(d, k)
    BY DEF Reasons, InAccount
  <2>1. id # next_id /\ actions'[id] = actions[id] /\ StateOf(id) = "blocked"
    BY <1>1, <1>2 DEF StateOf
  <2>2. \/ actions[id].escalated \/ InAccount(c, id)
        \/ \E k \in actions[id].depends_on : FailedDep(k) /\ ~InAccount(c, k)
    BY <2>1 DEF Reasons
  <2>3. ASSUME NEW k \in actions[id].depends_on, FailedDep(k)
        PROVE  k \in Ids /\ FailedDep(k)'
    <3>1. k \in Ids /\ k < next_id
      BY <2>1 DEF Sound, DepsHandedOut, Present, TypeOK, ActionRecord
    <3>2. k # next_id
      BY <1>1, <3>1 DEF Ids
    <3> QED BY <1>1, <2>3, <3>1, <3>2 DEF FailedDep, StateOf
  <2> QED BY <2>1, <2>2, <2>3
<1>6. Served(d)'
  <2> SUFFICES ASSUME NEW id \in Live' PROVE OpenGoal(actions[id].goal_id)'
    BY DEF Served
  <2>1. CASE id = next_id
    BY <1>1, <1>2, <2>1 DEF OpenGoal
  <2>2. CASE id # next_id
    <3>1. id \in Live /\ actions'[id] = actions[id]
      BY <1>1, <2>2 DEF Live, StateOf
    <3> QED BY <1>1, <3>1 DEF OpenGoal, Served
  <2> QED BY <2>1, <2>2
<1> QED BY <1>4, <1>5, <1>6

\* No action is in the accounting of c or d.
Quiet(c, d) == c.pc \notin AccountingPCs /\ d.pc \notin AccountingPCs

\* The cascade blocks open actions only, each for a dependency that failed.
LEMMA CascadeFits ==
    ASSUME Sound, Records, NEW c, Reasons(c), Served(c), NEW d, Quiet(c, d),
           c.pc # "cancel", CascadeDepFailures
    PROVE  /\ Records' /\ Reasons(d)' /\ Served(d)'
           /\ \A id \in ExpiredClaims : id \in ExpiredClaims'
<1>1. /\ goals' = goals
      /\ \A id \in Ids : actions'[id] = IF id \in Doomed THEN AsDepFailed(actions[id])
                                        ELSE actions[id]
  BY DEF CascadeDepFailures
<1>2. \A id \in Doomed : id \in Ids /\ StateOf(id) = "open"
  BY DoomedIsOpen DEF Sound
<1>3. ASSUME NEW id \in Ids
      PROVE  LET a == AsDepFailed(actions[id]) IN
             /\ a.state = "blocked" /\ a.escalated = actions[id].escalated
             /\ a.paused = actions[id].paused /\ a.depends_on = actions[id].depends_on
             /\ a.goal_id = actions[id].goal_id
  BY DEF Sound, TypeOK, ActionRecord, AsDepFailed
<1>4. \A id \in Ids : /\ actions'[id].escalated = actions[id].escalated
                      /\ actions'[id].paused = actions[id].paused
                      /\ actions'[id].depends_on = actions[id].depends_on
                      /\ actions'[id].goal_id = actions[id].goal_id
                      /\ StateOf(id)' = IF id \in Doomed THEN "blocked" ELSE StateOf(id)
  BY <1>1, <1>3 DEF StateOf
<1>5. Present' = Present /\ Live' \subseteq Live
  BY <1>2, <1>4 DEF Present, Live, LiveStates
<1>6. \A k \in Ids : FailedDep(k) \/ k \in Doomed => FailedDep(k)'
  <2> SUFFICES ASSUME NEW k \in Ids, FailedDep(k) \/ k \in Doomed PROVE FailedDep(k)'
    OBVIOUS
  <2>1. CASE k \in Doomed
    BY <1>4, <2>1 DEF FailedDep, LiveStates
  <2>2. CASE k \notin Doomed
    BY <1>4, <2>2 DEF FailedDep, StateOf
  <2> QED BY <2>1, <2>2
<1>7. Records'
  <2> SUFFICES ASSUME NEW id \in Ids
               PROVE  /\ actions'[id].escalated => StateOf(id)' \in {"blocked", "exhausted"}
                      /\ actions'[id].paused => StateOf(id)' \in {"claimed", "cancelled"}
                      /\ id \in Live' => actions'[id].depends_on \subseteq Present'
    BY DEF Records
  <2>1. /\ actions[id].escalated => StateOf(id) \in {"blocked", "exhausted"}
        /\ actions[id].paused => StateOf(id) \in {"claimed", "cancelled"}
        /\ id \in Live => actions[id].depends_on \subseteq Present
    BY DEF Records
  <2> QED BY <1>2, <1>4, <1>5, <2>1
<1>8. Reasons(d)'
  <2> SUFFICES ASSUME NEW id \in Ids, StateOf(id)' = "blocked"
               PROVE  \/ actions'[id].escalated
                      \/ \E k \in actions'[id].depends_on : FailedDep(k)'
    BY DEF Reasons, InAccount, Quiet
  <2>1. \A k \in actions[id].depends_on : k \in Ids
    BY DEF Sound, TypeOK, ActionRecord
  <2>2. CASE id \in Doomed
    <3>1. \E k \in actions[id].depends_on : FailedDep(k) \/ k \in Doomed
      BY <2>2, DoomedWhy
    <3> QED BY <1>4, <1>6, <2>1, <3>1
  <2>3. CASE id \notin Doomed
    <3>1. \/ actions[id].escalated \/ \E k \in actions[id].depends_on : FailedDep(k)
      BY <1>4, <2>3 DEF Reasons, InAccount, Quiet
    <3> QED BY <1>4, <1>6, <2>1, <3>1
  <2> QED BY <2>2, <2>3
<1>9. Served(d)'
  <2>1. \A id \in Live' : id \in Ids /\ id \in Live
    BY <1>5 DEF Live
  <2> QED BY <1>1, <1>4, <2>1 DEF Served, OpenGoal
<1>10. ASSUME NEW id \in ExpiredClaims PROVE id \in ExpiredClaims'
  <2>1. id \in Ids /\ StateOf(id) = "claimed"
    BY DEF ExpiredClaims
  <2>2. actions'[id] = actions[id]
    BY <1>1, <1>2, <2>1
  <2> QED BY <2>1, <2>2 DEF ExpiredClaims, StateOf
<1> QED BY <1>7, <1>8, <1>9, <1>10

\* Retention drops nothing that live work waits for.
LEMMA PruneFits ==
    ASSUME Sound, Records, NEW c, Reasons(c), Served(c), NEW d, Quiet(c, d),
           c.pc # "cancel", NEW old \in SUBSET Ids, Prune(old)
    PROVE  Records' /\ Reasons(d)' /\ Served(d)'
<1>1. /\ goals' = goals /\ old \subseteq Prunable
      /\ \A id \in Ids : actions'[id] = IF id \in old THEN NoAction ELSE actions[id]
  BY DEF Prune
<1>2. /\ NoAction.state = "absent" /\ ~NoAction.escalated /\ ~NoAction.paused
  BY DEF NoAction, NewAction
<1>3. /\ \A id \in Ids : id \in Live' => id \in Live /\ actions'[id] = actions[id]
      /\ \A id \in Live : actions[id].depends_on \cap old = {}
  BY <1>1, <1>2 DEF Live, LiveStates, StateOf, Prunable
<1>4. Present' = Present \ old
  BY <1>1, <1>2 DEF Present, StateOf
<1>5. Records'
  <2> SUFFICES ASSUME NEW id \in Ids
               PROVE  /\ actions'[id].escalated => StateOf(id)' \in {"blocked", "exhausted"}
                      /\ actions'[id].paused => StateOf(id)' \in {"claimed", "cancelled"}
                      /\ id \in Live' => actions'[id].depends_on \subseteq Present'
    BY DEF Records
  <2>1. /\ actions[id].escalated => StateOf(id) \in {"blocked", "exhausted"}
        /\ actions[id].paused => StateOf(id) \in {"claimed", "cancelled"}
        /\ id \in Live => actions[id].depends_on \subseteq Present
    BY DEF Records
  <2>2. id \in Live' => actions'[id].depends_on \subseteq Present'
    BY <1>3, <1>4, <2>1
  <2> QED BY <1>1, <1>2, <2>1, <2>2 DEF StateOf
<1>6. Reasons(d)'
  <2> SUFFICES ASSUME NEW id \in Ids, StateOf(id)' = "blocked"
               PROVE  \/ actions'[id].escalated
                      \/ \E k \in actions'[id].depends_on : FailedDep(k)'
    BY DEF Reasons, InAccount, Quiet
  <2>1. id \notin old /\ actions'[id] = actions[id] /\ StateOf(id) = "blocked"
    BY <1>1, <1>2 DEF StateOf
  <2>2. \/ actions[id].escalated \/ \E k \in actions[id].depends_on : FailedDep(k)
    BY <2>1 DEF Reasons, InAccount, Quiet
  <2>3. ASSUME NEW k \in actions[id].depends_on, FailedDep(k) PROVE FailedDep(k)'
    <3>1. k \in Ids
      BY DEF Sound, TypeOK, ActionRecord
    <3>2. CASE k \in old
      BY <1>1, <1>2, <3>1, <3>2 DEF FailedDep, LiveStates, StateOf
    <3>3. CASE k \notin old
      BY <1>1, <2>3, <3>1, <3>3 DEF FailedDep, StateOf
    <3> QED BY <3>2, <3>3
  <2> QED BY <2>1, <2>2, <2>3
<1>7. Served(d)'
  <2>1. \A id \in Live' : id \in Ids
    BY DEF Live
  <2> QED BY <1>1, <1>3, <2>1 DEF Served, OpenGoal
<1> QED BY <1>5, <1>6, <1>7

\* A failure is recorded: the call has the action in its accounting next.
LEMMA CompleteFits ==
    ASSUME Sound, Records, NEW c, Reasons(c), Served(c), c.pc = "complete",
           NEW it \in Ids, NEW terminal \in {"done", "blocked", "exhausted"}, NEW w, NEW admin,
           CompleteAs(it, terminal, w, admin),
           NEW d, \A k \in Ids : InAccount(d, k) => k = it,
           terminal = "blocked" => InAccount(d, it)
    PROVE  /\ Records' /\ Reasons(d)' /\ Served(d)'
           /\ terminal # "done" => Accountable(it)'
<1>1. /\ goals' = goals /\ it \in Live /\ ~actions[it].paused
      /\ actions'[it] = [actions[it] EXCEPT !.state = terminal]
      /\ \A id \in Ids \ {it} : actions'[id] = actions[id]
  BY DEF Sound, TypeOK, CompleteAs, CanComplete, Update
<1>2. /\ StateOf(it)' = terminal /\ actions'[it].escalated = actions[it].escalated
      /\ actions'[it].paused = actions[it].paused /\ actions'[it].depends_on = actions[it].depends_on
      /\ actions'[it].goal_id = actions[it].goal_id
  BY <1>1 DEF Sound, TypeOK, ActionRecord, StateOf
<1>3. /\ ~actions[it].escalated /\ actions[it].depends_on \subseteq Present
      /\ ~FailedDep(it)
  BY <1>1 DEF Records, Live, LiveStates, FailedDep
<1>4. Present' = Present /\ Live' = Live \ {it}
  <2>1. \A id \in Ids : StateOf(id)' = IF id = it THEN terminal ELSE StateOf(id)
    BY <1>1, <1>2 DEF StateOf
  <2>2. StateOf(it) # "absent" /\ terminal # "absent" /\ terminal \notin LiveStates
    BY <1>1 DEF Live, LiveStates
  <2> QED BY <2>1, <2>2 DEF Present, Live
<1>5. Records'
  <2> SUFFICES ASSUME NEW id \in Ids
               PROVE  /\ actions'[id].escalated => StateOf(id)' \in {"blocked", "exhausted"}
                      /\ actions'[id].paused => StateOf(id)' \in {"claimed", "cancelled"}
                      /\ id \in Live' => actions'[id].depends_on \subseteq Present'
    BY DEF Records
  <2>1. CASE id = it
    BY <1>1, <1>2, <1>3, <1>4, <2>1
  <2>2. CASE id # it
    BY <1>1, <1>4, <2>2 DEF Records, StateOf
  <2> QED BY <2>1, <2>2
<1>6. Reasons(d)'
  <2> SUFFICES ASSUME NEW id \in Ids, StateOf(id)' = "blocked", ~InAccount(d, id)
               PROVE  \/ actions'[id].escalated
                      \/ \E k \in actions'[id].depends_on : FailedDep(k)' /\ ~InAccount(d, k)
    BY DEF Reasons, InAccount
  <2>1. id # it
    BY <1>2
  <2>2. actions'[id] = actions[id] /\ StateOf(id) = "blocked"
    BY <1>1, <2>1 DEF StateOf
  <2>3. ~InAccount(c, id)
    BY DEF InAccount, AccountingPCs
  <2>4. \/ actions[id].escalated \/ \E k \in actions[id].depends_on : FailedDep(k)
    BY <2>2, <2>3 DEF Reasons
  <2>5. ASSUME NEW k \in actions[id].depends_on, FailedDep(k)
        PROVE  FailedDep(k)' /\ ~InAccount(d, k)
    <3>1. k \in Ids /\ k # it
      BY <1>3, <2>5 DEF Sound, TypeOK, ActionRecord
    <3> QED BY <1>1, <2>5, <3>1 DEF FailedDep, StateOf
  <2> QED BY <2>2, <2>4, <2>5
<1>7. Served(d)'
  <2>1. \A id \in Live' : id \in Ids \ {it} /\ id \in Live
    BY <1>4 DEF Live
  <2> QED BY <1>1, <2>1 DEF Served, OpenGoal
<1>8. terminal # "done" => Accountable(it)'
  <2>1. OpenGoal(actions[it].goal_id)
    BY <1>1 DEF Served
  <2> QED BY <1>1, <1>2, <1>3, <1>4, <2>1 DEF Accountable, OpenGoal
<1> QED BY <1>5, <1>6, <1>7, <1>8

\* What is put back can be run, and what is blocked waits for something else.
LEMMA PutBackFits ==
    ASSUME Sound, Records, NEW c, Reasons(c), Served(c), c.pc # "cancel",
           NEW it \in Ids, Accountable(it), InAccount(c, it),
           Requeue(it) \/ RetryTransient(it), NEW d, d.pc \notin AccountingPCs
    PROVE  /\ Records' /\ Reasons(d)' /\ Served(d)'
           /\ \A id \in ExpiredClaims \ {it} : id \in ExpiredClaims'
<1>1. PICK b : /\ b \in {AsRequeued(actions[it]), AsRetried(actions[it])}
               /\ actions' = [actions EXCEPT ![it] = b] /\ goals' = goals
  BY DEF Requeue, RetryTransient, Update
<1>2. /\ b.state = "open" /\ ~b.escalated /\ ~b.paused
      /\ b.depends_on = actions[it].depends_on /\ b.goal_id = actions[it].goal_id
  <2>1. actions[it] \in ActionRecord /\ ~actions[it].escalated /\ ~actions[it].paused
    BY DEF Sound, TypeOK, Accountable
  <2> QED BY <1>1, <2>1 DEF ActionRecord, AsRequeued, AsRetried, Released
<1>3. /\ actions'[it] = b /\ \A id \in Ids \ {it} : actions'[id] = actions[id]
      /\ goals' = goals
  BY <1>1 DEF Sound, TypeOK
<1>4. Present' = Present /\ \A id \in Live' \ {it} : id \in Live /\ actions'[id] = actions[id]
  BY <1>2, <1>3 DEF Present, Live, StateOf, Accountable
<1>5. Records'
  <2> SUFFICES ASSUME NEW id \in Ids
               PROVE  /\ actions'[id].escalated => StateOf(id)' \in {"blocked", "exhausted"}
                      /\ actions'[id].paused => StateOf(id)' \in {"claimed", "cancelled"}
                      /\ id \in Live' => actions'[id].depends_on \subseteq Present'
    BY DEF Records
  <2>1. CASE id = it
    BY <1>2, <1>3, <1>4, <2>1 DEF Accountable
  <2>2. CASE id # it
    BY <1>3, <1>4, <2>2 DEF Records, StateOf
  <2> QED BY <2>1, <2>2
<1>6. Reasons(d)'
  <2> SUFFICES ASSUME NEW id \in Ids, StateOf(id)' = "blocked"
               PROVE  \/ actions'[id].escalated
                      \/ \E k \in actions'[id].depends_on : FailedDep(k)'
    BY DEF Reasons, InAccount
  <2>1. id # it
    BY <1>2, <1>3 DEF StateOf
  <2>2. actions'[id] = actions[id] /\ StateOf(id) = "blocked" /\ ~InAccount(c, id)
    BY <1>3, <2>1 DEF StateOf, InAccount
  <2>3. \/ actions[id].escalated
        \/ \E k \in actions[id].depends_on : FailedDep(k) /\ ~InAccount(c, k)
    BY <2>2 DEF Reasons
  <2>4. ASSUME NEW k \in actions[id].depends_on, FailedDep(k), ~InAccount(c, k)
        PROVE  FailedDep(k)'
    <3>1. k \in Ids /\ k # it
      BY <2>4 DEF Sound, TypeOK, ActionRecord
    <3> QED BY <1>3, <2>4, <3>1 DEF FailedDep, StateOf
  <2> QED BY <2>2, <2>3, <2>4
<1>7. Served(d)'
  <2> SUFFICES ASSUME NEW id \in Live' PROVE OpenGoal(actions[id].goal_id)'
    BY DEF Served
  <2>1. CASE id = it
    BY <1>2, <1>3, <2>1 DEF Accountable, OpenGoal
  <2>2. CASE id # it
    BY <1>3, <1>4, <2>2 DEF Served, OpenGoal
  <2> QED BY <2>1, <2>2
<1>8. \A id \in ExpiredClaims \ {it} : id \in ExpiredClaims'
  BY <1>3 DEF ExpiredClaims, StateOf
<1> QED BY <1>5, <1>6, <1>7, <1>8

\* What is escalated is blocked or exhausted, and a human knows why.
LEMMA EscalateFits ==
    ASSUME Sound, Records, NEW c, Reasons(c), Served(c), c.pc # "cancel",
           NEW it \in Ids, Accountable(it), InAccount(c, it), Escalate(it),
           NEW d, d.pc \notin AccountingPCs
    PROVE  /\ Records' /\ Reasons(d)' /\ Served(d)'
           /\ \A id \in ExpiredClaims \ {it} : id \in ExpiredClaims'
<1> DEFINE b == AsEscalated(actions[it])
<1>1. /\ actions'[it] = b /\ \A id \in Ids \ {it} : actions'[id] = actions[id]
      /\ goals' = goals
  BY DEF Escalate, Update, Sound, TypeOK
<1>2. /\ b.state \in {"blocked", "exhausted"} /\ b.escalated /\ ~b.paused
      /\ b.depends_on = actions[it].depends_on /\ b.goal_id = actions[it].goal_id
  <2>1. actions[it] \in ActionRecord /\ ~actions[it].paused
        /\ actions[it].state \in {"claimed", "blocked", "exhausted"}
    BY DEF Sound, TypeOK, Accountable, StateOf
  <2> QED BY <2>1 DEF ActionRecord, AsEscalated, LiveStates
<1> HIDE DEF b
<1>3. Present' = Present /\ \A id \in Live' : id # it /\ id \in Live /\ actions'[id] = actions[id]
  BY <1>1, <1>2 DEF Present, Live, LiveStates, StateOf, Accountable
<1>4. Records'
  <2> SUFFICES ASSUME NEW id \in Ids
               PROVE  /\ actions'[id].escalated => StateOf(id)' \in {"blocked", "exhausted"}
                      /\ actions'[id].paused => StateOf(id)' \in {"claimed", "cancelled"}
                      /\ id \in Live' => actions'[id].depends_on \subseteq Present'
    BY DEF Records
  <2>1. CASE id = it
    BY <1>1, <1>2, <1>3, <2>1 DEF StateOf
  <2>2. CASE id # it
    BY <1>1, <1>3, <2>2 DEF Records, StateOf
  <2> QED BY <2>1, <2>2
<1>5. Reasons(d)'
  <2> SUFFICES ASSUME NEW id \in Ids, StateOf(id)' = "blocked"
               PROVE  \/ actions'[id].escalated
                      \/ \E k \in actions'[id].depends_on : FailedDep(k)'
    BY DEF Reasons, InAccount
  <2>1. CASE id = it
    BY <1>1, <1>2, <2>1
  <2>2. CASE id # it
    <3>1. actions'[id] = actions[id] /\ StateOf(id) = "blocked" /\ ~InAccount(c, id)
      BY <1>1, <2>2 DEF StateOf, InAccount
    <3>2. \/ actions[id].escalated
          \/ \E k \in actions[id].depends_on : FailedDep(k) /\ ~InAccount(c, k)
      BY <3>1 DEF Reasons
    <3>3. ASSUME NEW k \in actions[id].depends_on, FailedDep(k), ~InAccount(c, k)
          PROVE  FailedDep(k)'
      <4>1. k \in Ids /\ k # it
        BY <3>3 DEF Sound, TypeOK, ActionRecord
      <4> QED BY <1>1, <3>3, <4>1 DEF FailedDep, StateOf
    <3> QED BY <3>1, <3>2, <3>3
  <2> QED BY <2>1, <2>2
<1>6. Served(d)'
  BY <1>1, <1>3 DEF Served, OpenGoal
<1>7. \A id \in ExpiredClaims \ {it} : id \in ExpiredClaims'
  BY <1>1 DEF ExpiredClaims, StateOf
<1> QED BY <1>4, <1>5, <1>6, <1>7

----------------------------------------------------------------------------
(* One call after the other *)

\* The call of p becomes d, nobody else is in a call.
Turn(p, d) == Only(p) /\ CallBecomes(p, d)

\* What fits the one call there is fits every process that could be in a call.
LEMMA TurnKeeps ==
    ASSUME DispatchTypeOK, NEW p \in Processes, NEW d, Turn(p, d), WorkFits(d)'
    PROVE  SerialInv'
<1>1. calls'[p] = d /\ \A q \in Processes \ {p} : calls'[q].pc = "idle"
  BY CallsAfter DEF Turn, Only, At
<1>2. Only(p)'
  BY <1>1 DEF Only, At
<1>3. ASSUME NEW q \in Processes, Only(q)' PROVE WorkFits(calls[q])'
  <2>1. CASE q = p
    BY <1>1, <2>1
  <2>2. CASE q # p
    <3>1. d.pc = "idle" /\ calls'[q].pc = "idle"
      BY <1>1, <1>3, <2>2 DEF Only, At
    <3>2. \A id \in Ids : ~InAccount(d, id) /\ ~InAccount(calls'[q], id)
      BY <3>1 DEF InAccount, AccountingPCs
    <3>3. Records' /\ Reasons(d)' /\ Served(d)'
      BY DEF WorkFits
    <3>4. Reasons(calls[q])'
      <4>1. \A c, id : c.pc = "idle" => ~InAccount(c, id)
        BY DEF InAccount, AccountingPCs
      <4> QED BY <3>1, <3>3, <4>1 DEF Reasons
    <3>5. Served(calls[q])'
      BY <3>1, <3>3 DEF Served
    <3>6. StillTrue(calls[q])'
      BY <3>1 DEF StillTrue, AccountingPCs
    <3> QED BY <3>3, <3>4, <3>5, <3>6 DEF WorkFits
  <2> QED BY <2>1, <2>2
<1> QED BY <1>2, <1>3 DEF SerialInv

\* A call begins when there is none.
LEMMA BeginTurn ==
    ASSUME DispatchTypeOK, SerialInv, MaxBusy = 1, NEW p \in Processes, NEW tool, NEW d,
           Begin(p, tool, d)
    PROVE  Turn(p, d) /\ WorkFits(calls[p]) /\ calls[p].pc = "idle"
<1>1. Busy \in SUBSET Processes /\ Cardinality(Busy) < 1
  BY DEF Begin, Busy
<1>2. Cardinality(Busy) \in Nat /\ IsFiniteSet(Busy)
  BY <1>1, ProcessesFinite
<1>3. Busy = {}
  BY <1>1, <1>2, FS_EmptySet
<1>4. Only(p) /\ calls[p].pc = "idle"
  BY <1>3 DEF Only, Busy, At
<1> QED BY <1>4 DEF Turn, SerialInv, Begin, CallBecomes

\* The process that goes on is the one in a call.
LEMMA ResumeTurn ==
    ASSUME DispatchTypeOK, SerialInv, NEW p \in Processes, calls[p].pc # "idle", NEW d,
           CallBecomes(p, d)
    PROVE  Turn(p, d) /\ WorkFits(calls[p])
<1>1. Only(p)
  BY DEF SerialInv, Only, At
<1> QED BY <1>1 DEF Turn, SerialInv

\* A call that asks nothing of what it read.
Plain(d) == d.pc \notin AccountingPCs \cup {"propose", "close", "sweep", "cascade"}

LEMMA PlainFits ==
    ASSUME NEW d, Plain(d)
    PROVE  StillTrue(d)' /\ \A id : ~InAccount(d, id)
BY DEF Plain, StillTrue, InAccount

LEMMA PlainCalls ==
    /\ Plain(NoCall) /\ Plain(Saving)
    /\ NoCall.pc = "idle" /\ Saving.pc = "save" /\ NoCall.todo = {}
BY DEF Plain, NoCall, Saving, AccountingPCs

\* The methods that only touch actions, called within a turn.
LEMMA TouchingTurn ==
    ASSUME DispatchTypeOK, NEW c, WorkFits(c), Touching, NEW d,
           \A id \in Ids : InAccount(d, id) <=> InAccount(c, id),
           c.pc # "cancel", \A g \in GoalIds : goals[g] = "open" => goals'[g] = "open"
    PROVE  Records' /\ Reasons(d)' /\ Served(d)'
<1>1. Records /\ Reasons(c) /\ Served(c) /\ TypeOK
  BY DEF WorkFits, DispatchTypeOK
<1>2. \A id \in Ids : Touched(id)
  BY <1>1, TouchingTouches
<1>3. Records' /\ Reasons(d)'
  BY <1>1, <1>2, TouchedFits
<1>4. ASSUME NEW id \in Live' PROVE OpenGoal(actions[id].goal_id)'
  <2>1. id \in Ids /\ id \in Live /\ actions'[id].goal_id = actions[id].goal_id
    <3>1. id \in Ids
      BY DEF Live
    <3> QED BY <1>1, <1>2, <3>1, TouchedStays DEF Touched
  <2>2. OpenGoal(actions[id].goal_id) /\ actions[id].goal_id \in GoalIds \cup {NoGoal}
    BY <1>1, <2>1 DEF Served, TypeOK, ActionRecord
  <2> QED BY <2>1, <2>2 DEF OpenGoal
<1> QED BY <1>3, <1>4 DEF Served

\* Goals that are open stay so, unless one is achieved or closed.
LEMMA GoalsStayOpen ==
    ASSUME UNCHANGED goals \/ (TypeOK /\ \E g \in GoalIds : CreateGoal(g) \/ CancelRemaining(g))
    PROVE  \A g \in GoalIds : goals[g] = "open" => goals'[g] = "open"
BY DEF CreateGoal, CancelRemaining, TypeOK

\* A request that begins a call.
LEMMA RequestFits ==
    ASSUME DispatchTypeOK, SerialInv, MaxBusy = 1, NEW p \in Handlers, Request(p)
    PROVE  SerialInv'
<1>a. p \in Processes /\ TypeOK
  BY DEF Processes, DispatchTypeOK
<1>b. ASSUME NEW tool, NEW d, Begin(p, tool, d), Touching,
             \A g \in GoalIds : goals[g] = "open" => goals'[g] = "open",
             StillTrue(d)', d.pc \notin AccountingPCs
      PROVE  SerialInv'
  <2>1. Turn(p, d) /\ WorkFits(calls[p]) /\ calls[p].pc = "idle"
    BY <1>a, <1>b, BeginTurn
  <2>2. \A id \in Ids : InAccount(d, id) <=> InAccount(calls[p], id)
    BY <1>b, <2>1 DEF InAccount, AccountingPCs
  <2>3. Records' /\ Reasons(d)' /\ Served(d)'
    BY <1>b, <2>1, <2>2, TouchingTurn
  <2>4. WorkFits(d)'
    BY <1>b, <2>3 DEF WorkFits
  <2> QED BY <1>a, <2>1, <2>4, TurnKeeps
<1>c. ASSUME NEW tool, OneStep(p, tool), Touching,
             \A g \in GoalIds : goals[g] = "open" => goals'[g] = "open"
      PROVE  SerialInv'
  BY <1>b, <1>c, PlainCalls, PlainFits DEF OneStep, Plain
<1>d. UNCHANGED frontierVars
        => /\ Touching /\ goals' = goals
           /\ \A g \in GoalIds : goals[g] = "open" => goals'[g] = "open"
  BY DEF Touching, frontierVars, vars
<1>1. CASE ProposeStart(p)
  <2>1. PICK g \in GoalIds \cup {NoGoal} :
          /\ g # NoGoal => goals[g] = "open"
          /\ Begin(p, "propose", [NoCall EXCEPT !.pc = "propose", !.goal = g])
          /\ UNCHANGED frontierVars
    BY <1>1 DEF ProposeStart
  <2> DEFINE d == [NoCall EXCEPT !.pc = "propose", !.goal = g]
  <2>2. d.pc = "propose" /\ d.goal = g
    BY DEF NoCall
  <2> HIDE DEF d
  <2>3. StillTrue(d)'
    BY <1>d, <2>1, <2>2 DEF StillTrue, AccountingPCs, OpenGoal
  <2> QED BY <1>b, <1>d, <2>1, <2>2, <2>3 DEF d, AccountingPCs
<1>2. CASE ClaimTool(p)
  <2>1. Touching /\ goals' = goals /\ OneStep(p, "claim")
    BY <1>2 DEF ClaimTool, Touching, Claim
  <2> QED BY <1>c, <2>1
<1>3. CASE HeartbeatTool(p)
  <2>1. Touching /\ goals' = goals /\ OneStep(p, "heartbeat")
    BY <1>3 DEF HeartbeatTool, Touching, Heartbeat
  <2> QED BY <1>c, <2>1
<1>4. CASE ControlTool(p)
  <2>1. Touching /\ goals' = goals /\ OneStep(p, "control")
    BY <1>4 DEF ControlTool, Touching, Steer, SetPaused
  <2> QED BY <1>c, <2>1
<1>5. CASE StopTool(p)
  <2> DEFINE d == [NoCall EXCEPT !.pc = "cascade"]
  <2>1. Touching /\ goals' = goals /\ Begin(p, "control", d)
    BY <1>5 DEF StopTool, Touching, Stop
  <2>2. d.pc = "cascade" /\ d.todo = {}
    BY DEF NoCall
  <2> HIDE DEF d
  <2>3. StillTrue(d)'
    BY <2>2 DEF StillTrue, AccountingPCs
  <2> QED BY <1>b, <2>1, <2>2, <2>3 DEF AccountingPCs
<1>6. CASE CreateGoalTool(p)
  <2>1. PICK g \in GoalIds : CreateGoal(g) /\ OneStep(p, "goals")
    BY <1>6, <1>a DEF CreateGoalTool, OneStep, Begin
  <2>2. Touching
    BY <2>1 DEF Touching, GoalStep
  <2> QED BY <1>a, <1>c, <2>1, <2>2, GoalsStayOpen
<1>7. CASE ProveGoalTool(p)
  <2>1. PICK g \in GoalIds : /\ AchieveGoal(g)
                             /\ Begin(p, "goals", [NoCall EXCEPT !.pc = "cancel", !.goal = g])
    BY <1>7 DEF ProveGoalTool
  <2> DEFINE d == [NoCall EXCEPT !.pc = "cancel", !.goal = g]
  <2>2. d.pc = "cancel" /\ d.goal = g /\ Plain(d)
    BY DEF NoCall, Plain, AccountingPCs
  <2> HIDE DEF d
  <2>3. Turn(p, d) /\ WorkFits(calls[p]) /\ calls[p].pc = "idle"
    BY <1>a, <2>1, BeginTurn DEF d
  <2>4. /\ actions' = actions /\ \A h \in GoalIds \ {g} : goals'[h] = goals[h]
        /\ \A id \in Ids : Touched(id)
    <3>1. Touching
      BY <2>1 DEF Touching, GoalStep
    <3> QED BY <1>a, <2>1, <3>1, TouchingTouches DEF AchieveGoal, TypeOK
  <2>5. Records' /\ Reasons(d)'
    <3>1. \A id \in Ids : InAccount(d, id) <=> InAccount(calls[p], id)
      BY <2>2, <2>3 DEF InAccount, AccountingPCs
    <3> QED BY <1>a, <2>3, <2>4, <3>1, TouchedFits DEF WorkFits
  <2>6. Served(d)'
    <3> SUFFICES ASSUME NEW id \in Live'
                 PROVE  OpenGoal(actions[id].goal_id)' \/ d.goal = actions'[id].goal_id
      BY <2>2 DEF Served
    <3>1. id \in Live /\ actions'[id] = actions[id]
      BY <2>4 DEF Live, StateOf
    <3>2. OpenGoal(actions[id].goal_id) /\ actions[id].goal_id \in GoalIds \cup {NoGoal}
      <4>1. id \in Ids
        BY <3>1 DEF Live
      <4> QED BY <1>a, <2>3, <3>1, <4>1 DEF WorkFits, Served, TypeOK, ActionRecord
    <3> QED BY <2>2, <2>4, <3>1, <3>2 DEF OpenGoal
  <2>7. WorkFits(d)'
    BY <2>2, <2>5, <2>6, PlainFits DEF WorkFits
  <2> QED BY <1>a, <2>3, <2>7, TurnKeeps
<1>8. CASE AssignTool(p)
  <2>1. Touching /\ goals' = goals /\ OneStep(p, "assign")
    BY <1>8 DEF AssignTool, Touching, Assign
  <2> QED BY <1>c, <2>1
<1>9. CASE AutoAssignPick(p)
  <2>1. PICK id \in Ids, w \in Pickable :
          /\ Begin(p, "dispatch", [NoCall EXCEPT !.pc = "assign", !.id = id, !.worker = w])
          /\ UNCHANGED frontierVars
    BY <1>9 DEF AutoAssignPick
  <2> DEFINE d == [NoCall EXCEPT !.pc = "assign", !.id = id, !.worker = w]
  <2>2. d.pc = "assign" /\ Plain(d)
    BY DEF NoCall, Plain, AccountingPCs
  <2> HIDE DEF d
  <2> QED BY <1>b, <1>d, <2>1, <2>2, PlainFits DEF d, AccountingPCs
<1>10. CASE RegisterTool(p)
  <2>1. PICK w \in Workers : Begin(p, "workers", NoCall) /\ UNCHANGED frontierVars
    BY <1>10 DEF RegisterTool
  <2> QED BY <1>b, <1>d, <2>1, PlainCalls, PlainFits DEF AccountingPCs
<1>11. CASE UnregisterCheck(p)
  <2>1. PICK w \in Workers :
          /\ Begin(p, "workers", [NoCall EXCEPT !.pc = "unregister", !.worker = w])
          /\ UNCHANGED frontierVars
    BY <1>11 DEF UnregisterCheck
  <2> DEFINE d == [NoCall EXCEPT !.pc = "unregister", !.worker = w]
  <2>2. d.pc = "unregister" /\ Plain(d)
    BY DEF NoCall, Plain, AccountingPCs
  <2> HIDE DEF d
  <2> QED BY <1>b, <1>d, <2>1, <2>2, PlainFits DEF d, AccountingPCs
<1>12. CASE CompleteCheck(p)
  <2>1. PICK id \in Ids, w \in Workers, outcome \in Outcomes :
          /\ Begin(p, "complete", [NoCall EXCEPT !.pc = "complete", !.id = id,
                                                 !.worker = w, !.kind = outcome])
          /\ UNCHANGED frontierVars
    BY <1>12 DEF CompleteCheck
  <2> DEFINE d == [NoCall EXCEPT !.pc = "complete", !.id = id,
                                 !.worker = w, !.kind = outcome]
  <2>2. d.pc = "complete" /\ Plain(d)
    BY DEF NoCall, Plain, AccountingPCs
  <2> HIDE DEF d
  <2> QED BY <1>b, <1>d, <2>1, <2>2, PlainFits DEF d, AccountingPCs
<1> QED BY <1>1, <1>2, <1>3, <1>4, <1>5, <1>6, <1>7, <1>8, <1>9, <1>10, <1>11, <1>12
        DEF Request

\* After the accounting the sweep goes on with its list, a tool saves.
LEMMA AccountedIs ==
    ASSUME NEW p \in Processes, NEW swept \in BOOLEAN
    PROVE  LET d == Accounted(p, swept) IN
           d.pc \in {"sweep", "save"} /\ (d.pc = "sweep" => d.todo = calls[p].todo)
BY DEF Accounted, Saving, NoCall

\* What an unchanged frontier said is still so.
LEMMA StillTrueStays ==
    ASSUME UNCHANGED vars, NEW d, StillTrue(d)
    PROVE  StillTrue(d)'
BY DEF StillTrue, vars, OpenGoal, Accountable, Live, ExpiredClaims, Present, StateOf

LEMMA UnchangedFits ==
    ASSUME UNCHANGED vars, NEW d, Records, Reasons(d), Served(d), StillTrue(d)
    PROVE  Records' /\ Reasons(d)' /\ Served(d)' /\ StillTrue(d)'
<1>1. \A id : FailedDep(id)' <=> FailedDep(id)
  BY DEF vars, FailedDep, StateOf
<1>2. Live' = Live /\ Present' = Present
  BY DEF vars, Live, Present, StateOf
<1> QED BY <1>1, <1>2, StillTrueStays
        DEF vars, Records, Reasons, Served, StateOf, InAccount, OpenGoal

\* The call that is not over.
Goes(p, c, d) == c = calls[p] /\ c.pc # "idle" /\ CallBecomes(p, d)

LEMMA GoesKeeps ==
    ASSUME DispatchTypeOK, SerialInv, NEW p \in Processes, NEW c, NEW d, Goes(p, c, d)
    PROVE  WorkFits(c) /\ (WorkFits(d)' => SerialInv')
BY ResumeTurn, TurnKeeps DEF Goes

\* A step that only touches actions, and where the call goes with it.
LEMMA TouchingGoes ==
    ASSUME DispatchTypeOK, SerialInv, NEW p \in Processes, NEW c, NEW d, Goes(p, c, d),
           Touching, UNCHANGED goals, c.pc # "cancel", StillTrue(d)',
           \A id \in Ids : InAccount(d, id) <=> InAccount(c, id)
    PROVE  SerialInv'
<1>1. WorkFits(c)
  BY GoesKeeps
<1>2. Records' /\ Reasons(d)' /\ Served(d)'
  BY <1>1, TouchingTurn
<1> QED BY <1>2, GoesKeeps DEF WorkFits

\* The steps of a call outside the accounting of a failure.
LEMMA PlainResumeFits ==
    ASSUME DispatchTypeOK, Sound, SerialInv, NEW p \in Processes, PlainResume(p)
    PROVE  SerialInv'
<1> DEFINE here == calls[p]
<1>a. PICK c : c = here
  OBVIOUS
<1>b. CallTyped(c) /\ TypeOK
  BY <1>a DEF DispatchTypeOK
<1>c. UNCHANGED frontierVars => Touching /\ UNCHANGED goals /\ UNCHANGED vars
  BY DEF Touching, frontierVars, vars
<1>d. \A d : Continue(p, d) /\ c.pc # "idle" => Goes(p, c, d)
  BY <1>a DEF Goes, Continue, CallBecomes
<1>e. ASSUME NEW d, Continue(p, d), c.pc # "idle", c.pc # "cancel", Touching, UNCHANGED goals,
             StillTrue(d)', d.pc \notin AccountingPCs, c.pc \notin AccountingPCs
      PROVE  SerialInv'
  <2>1. \A id \in Ids : InAccount(d, id) <=> InAccount(c, id)
    BY <1>e DEF InAccount
  <2> QED BY <1>d, <1>e, <2>1, TouchingGoes
<1>f. /\ StillTrue(Saving)' /\ StillTrue(NoCall)'
      /\ Saving.pc \notin AccountingPCs /\ NoCall.pc \notin AccountingPCs
  BY PlainCalls, PlainFits DEF Plain
<1>1. CASE ProposeDraft(p)
  <2>1. PICK deps \in SUBSET Ids : Enqueue(deps, c.goal)
    BY <1>1, <1>a DEF ProposeDraft
  <2>2. c.pc = "propose" /\ Goes(p, c, c)
    BY <1>1, <1>a DEF ProposeDraft, At, Goes, CallBecomes, DispatchTypeOK
  <2>3. WorkFits(c)
    BY <2>2, GoesKeeps
  <2>4. OpenGoal(c.goal) /\ c.goal \in GoalIds \cup {NoGoal} /\ UNCHANGED goals
    BY <1>b, <2>1, <2>2, <2>3 DEF WorkFits, StillTrue, CallTyped, Call, Enqueue
  <2>5. Records' /\ Reasons(c)' /\ Served(c)'
    BY <2>1, <2>2, <2>3, <2>4, EnqueueFits DEF WorkFits
  <2>6. StillTrue(c)'
    BY <2>2, <2>4 DEF StillTrue, OpenGoal, AccountingPCs
  <2> QED BY <2>2, <2>5, <2>6, GoesKeeps DEF WorkFits
<1>2. CASE ProposeEnd(p)
  BY <1>2, <1>a, <1>c, <1>e, <1>f DEF ProposeEnd, At, AccountingPCs
<1>3. CASE Cancel(p)
  <2> DEFINE d == [NoCall EXCEPT !.pc = "cascade"]
  <2>1. c.pc = "cancel" /\ CancelRemaining(c.goal) /\ Continue(p, d)
    BY <1>3, <1>a DEF Cancel, At
  <2>2. d.pc = "cascade" /\ d.todo = {}
    BY DEF NoCall
  <2> HIDE DEF d
  <2>3. Goes(p, c, d) /\ c.goal \in GoalIds
    BY <1>b, <1>d, <2>1 DEF CallTyped
  <2>4. WorkFits(c)
    BY <2>3, GoesKeeps
  <2>5. \A id \in Ids : Touched(id)
    <3>1. Touching
      BY <2>1, <2>3 DEF Touching, GoalStep
    <3> QED BY <1>b, <3>1, TouchingTouches
  <2>6. Records' /\ Reasons(d)'
    <3>1. \A id \in Ids : InAccount(d, id) <=> InAccount(c, id)
      BY <2>1, <2>2 DEF InAccount, AccountingPCs
    <3> QED BY <1>b, <2>4, <2>5, <3>1, TouchedFits DEF WorkFits
  <2>7. ASSUME NEW id \in Live' PROVE OpenGoal(actions[id].goal_id)'
    <3>1. id \in Ids /\ StateOf(id)' \in LiveStates
      BY DEF Live
    <3>2. id \in Live /\ actions'[id].goal_id = actions[id].goal_id
      BY <2>4, <2>5, <3>1, TouchedStays DEF WorkFits, Touched
    <3>3. AsCancelled(actions[id]).state = "cancelled"
      BY <1>b, <3>1 DEF TypeOK, ActionRecord, AsCancelled
    <3>4. actions[id].goal_id # c.goal
      BY <2>1, <3>1, <3>2, <3>3 DEF CancelRemaining, StateOf, LiveStates
    <3>5. OpenGoal(actions[id].goal_id)
      BY <2>4, <3>2, <3>4 DEF WorkFits, Served
    <3> QED BY <2>1, <3>2, <3>5 DEF OpenGoal, CancelRemaining
  <2>8. Served(d)' /\ StillTrue(d)'
    BY <2>2, <2>7 DEF Served, StillTrue, AccountingPCs
  <2> QED BY <2>3, <2>6, <2>8, GoesKeeps DEF WorkFits
<1>4. CASE AutoAssign(p)
  <2>1. c.pc = "assign" /\ c.id \in Ids /\ c.worker \in Workers
    BY <1>4, <1>a, <1>b DEF AutoAssign, At, CallTyped
  <2>2. Touching /\ UNCHANGED goals /\ (Continue(p, Saving) \/ Continue(p, NoCall))
    BY <1>4, <1>a, <1>c, <2>1 DEF AutoAssign, Touching, Assign, Return
  <2> QED BY <1>e, <1>f, <2>1, <2>2 DEF AccountingPCs
<1>5. CASE Unregister(p)
  BY <1>5, <1>a, <1>c, <1>e, <1>f DEF Unregister, Return, At, AccountingPCs
<1>6. CASE CloseCheck(p)
  <2> DEFINE closing == [c EXCEPT !.pc = "close"]
  <2>1. c.pc = "close_check" /\ UNCHANGED frontierVars
        /\ ((AllDone(c.goal) /\ Continue(p, closing)) \/ Continue(p, Saving))
    BY <1>6, <1>a DEF CloseCheck, At
  <2>2. closing.pc = "close" /\ closing.goal = c.goal
    BY <1>b DEF CallTyped, Call
  <2> HIDE DEF closing
  <2>3. AllDone(c.goal) => StillTrue(closing)
    <3>1. ASSUME AllDone(c.goal), NEW id \in Live PROVE actions[id].goal_id # c.goal
      BY <3>1 DEF AllDone, Live, LiveStates, Present
    <3> QED BY <2>2, <3>1 DEF StillTrue, AccountingPCs
  <2>4. AllDone(c.goal) => StillTrue(closing)'
    BY <1>c, <2>1, <2>3, StillTrueStays
  <2> QED BY <1>c, <1>e, <1>f, <2>1, <2>2, <2>4 DEF AccountingPCs
<1>7. CASE Close(p)
  <2>1. c.pc = "close" /\ Continue(p, Saving)
        /\ (CloseGoal(c.goal) \/ UNCHANGED frontierVars)
    BY <1>7, <1>a DEF Close, At
  <2>2. CASE UNCHANGED frontierVars
    BY <1>c, <1>e, <1>f, <2>1, <2>2 DEF AccountingPCs
  <2>3. CASE CloseGoal(c.goal)
    <3>1. c.goal \in GoalIds /\ Goes(p, c, Saving)
      BY <1>b, <1>d, <2>1 DEF CallTyped
    <3>2. WorkFits(c)
      BY <3>1, GoesKeeps
    <3>3. actions' = actions /\ \A g \in GoalIds \ {c.goal} : goals'[g] = goals[g]
      BY <1>b, <2>3 DEF CloseGoal, TypeOK
    <3>4. \A id \in Ids : Touched(id)
      <4>1. Touching
        BY <2>3, <3>1 DEF Touching, GoalStep
      <4> QED BY <1>b, <4>1, TouchingTouches
    <3>5. Records' /\ Reasons(Saving)'
      <4>1. \A id \in Ids : InAccount(Saving, id) <=> InAccount(c, id)
        BY <1>f, <2>1 DEF InAccount, AccountingPCs
      <4> QED BY <1>b, <3>2, <3>4, <4>1, TouchedFits DEF WorkFits
    <3>6. ASSUME NEW id \in Live' PROVE OpenGoal(actions[id].goal_id)'
      <4>1. id \in Live /\ id \in Ids /\ actions'[id] = actions[id]
        BY <3>3 DEF Live, StateOf
      <4>2. OpenGoal(actions[id].goal_id) /\ actions[id].goal_id # c.goal
            /\ actions[id].goal_id \in GoalIds \cup {NoGoal}
        BY <1>b, <2>1, <3>2, <4>1 DEF WorkFits, Served, StillTrue, TypeOK, ActionRecord
      <4> QED BY <3>3, <4>1, <4>2 DEF OpenGoal
    <3>7. Served(Saving)'
      BY <3>6 DEF Served
    <3> QED BY <1>f, <3>1, <3>5, <3>7, GoesKeeps DEF WorkFits
  <2> QED BY <2>1, <2>2, <2>3
<1>8. CASE Cascade(p)
  <2>1. c.pc = "cascade" /\ CascadeDepFailures /\ Continue(p, Accounted(p, TRUE))
    BY <1>8, <1>a DEF Cascade, At
  <2>2. PICK d : /\ d = Accounted(p, TRUE) /\ d.pc \in {"sweep", "save"}
                 /\ d.pc = "sweep" => d.todo = c.todo
    BY <1>a, AccountedIs
  <2>3. Goes(p, c, d)
    BY <1>d, <2>1, <2>2
  <2>4. WorkFits(c)
    BY <2>3, GoesKeeps
  <2>5. /\ Records' /\ Reasons(d)' /\ Served(d)'
        /\ \A id \in ExpiredClaims : id \in ExpiredClaims'
    BY <2>1, <2>2, <2>4, CascadeFits DEF WorkFits, Quiet, AccountingPCs
  <2>6. c.todo \subseteq ExpiredClaims
    BY <2>1, <2>4 DEF WorkFits, StillTrue
  <2>7. StillTrue(d)'
    BY <2>2, <2>5, <2>6 DEF StillTrue, AccountingPCs
  <2> QED BY <2>3, <2>5, <2>7, GoesKeeps DEF WorkFits
<1>9. CASE SweepNext(p)
  <2>1. c.pc = "sweep" /\ UNCHANGED frontierVars
    BY <1>9, <1>a DEF SweepNext, At
  <2>2. CASE c.todo = {}
    <3> DEFINE d == [c EXCEPT !.pc = "settle"]
    <3>1. d.pc = "settle" /\ Continue(p, d)
      BY <1>9, <1>a, <1>b, <2>2 DEF SweepNext, CallTyped, Call
    <3> HIDE DEF d
    <3>2. Plain(d)
      BY <3>1 DEF Plain, AccountingPCs
    <3> QED BY <1>c, <1>e, <2>1, <3>1, <3>2, PlainFits DEF AccountingPCs
  <2>3. CASE c.todo # {}
    <3>1. PICK id \in c.todo :
            Continue(p, [c EXCEPT !.pc = "account", !.id = id,
                           !.kind = "lease_expired", !.todo = @ \ {id}])
      BY <1>9, <1>a, <2>3 DEF SweepNext
    <3> DEFINE d == [c EXCEPT !.pc = "account", !.id = id,
                       !.kind = "lease_expired", !.todo = @ \ {id}]
    <3>2. d.pc = "account" /\ d.id = id /\ d.todo = c.todo \ {id}
      BY <1>b DEF CallTyped, Call
    <3>3. Goes(p, c, d)
      BY <1>d, <2>1, <3>1
    <3> HIDE DEF d
    <3>4. WorkFits(c) /\ c.todo \subseteq ExpiredClaims
      BY <2>1, <3>3, GoesKeeps DEF WorkFits, StillTrue
    <3>5. id \in Ids /\ StateOf(id) = "claimed" /\ id \in ExpiredClaims /\ id \in Live
          /\ ~actions[id].paused
      BY <3>4 DEF ExpiredClaims, LeaseExpired, Live, LiveStates
    <3>6. Accountable(id)
      <4>1. ~actions[id].escalated /\ actions[id].depends_on \subseteq Present
            /\ OpenGoal(actions[id].goal_id)
        BY <2>1, <3>4, <3>5 DEF WorkFits, Records, Served
      <4> QED BY <3>5, <4>1 DEF Accountable
    <3>7. StillTrue(d)
      BY <3>2, <3>4, <3>6 DEF StillTrue, AccountingPCs
    <3>8. Reasons(d)
      <4> SUFFICES ASSUME NEW k \in Ids, StateOf(k) = "blocked"
                   PROVE  \/ actions[k].escalated
                          \/ \E e \in actions[k].depends_on : FailedDep(e) /\ ~InAccount(d, e)
        BY DEF Reasons
      <4>1. \/ actions[k].escalated \/ \E e \in actions[k].depends_on : FailedDep(e)
        BY <2>1, <3>4 DEF WorkFits, Reasons, InAccount, AccountingPCs
      <4>2. \A e : FailedDep(e) => e # id
        BY <3>5, <3>6 DEF FailedDep, LiveStates, Accountable
      <4> QED BY <3>2, <4>1, <4>2 DEF InAccount
    <3>9. Records' /\ Reasons(d)' /\ Served(d)' /\ StillTrue(d)'
      <4>1. Records /\ Served(d)
        BY <2>1, <3>4 DEF WorkFits, Served
      <4> QED BY <1>c, <2>1, <3>7, <3>8, <4>1, UnchangedFits
    <3> QED BY <3>3, <3>9, GoesKeeps DEF WorkFits
  <2> QED BY <2>2, <2>3
<1>10. CASE SweepSettle(p)
  <2>1. /\ c.pc = "settle" /\ CascadeDepFailures
        /\ \E d \in {Saving, NoCall} : Continue(p, d)
    BY <1>10, <1>a DEF SweepSettle, At
  <2>2. PICK d : d \in {Saving, NoCall} /\ Goes(p, c, d)
    BY <1>d, <2>1
  <2>3. WorkFits(c)
    BY <2>2, GoesKeeps
  <2>4. Records' /\ Reasons(d)' /\ Served(d)'
    BY <1>f, <2>1, <2>2, <2>3, CascadeFits DEF WorkFits, Quiet, AccountingPCs
  <2> QED BY <1>f, <2>2, <2>4, GoesKeeps DEF WorkFits
<1>11. CASE Save(p)
  <2>1. PICK old \in SUBSET Ids : c.pc = "save" /\ Prune(old) /\ Continue(p, NoCall)
    BY <1>11, <1>a, DispatchAssumption DEF Save, At, Return
  <2>2. Goes(p, c, NoCall)
    BY <1>d, <2>1
  <2>3. WorkFits(c)
    BY <2>2, GoesKeeps
  <2>4. Records' /\ Reasons(NoCall)' /\ Served(NoCall)'
    BY <1>f, <2>1, <2>3, PruneFits DEF WorkFits, Quiet, AccountingPCs
  <2> QED BY <1>f, <2>2, <2>4, GoesKeeps DEF WorkFits
<1> QED BY <1>1, <1>2, <1>3, <1>4, <1>5, <1>6, <1>7, <1>8, <1>9, <1>10, <1>11
        DEF PlainResume

----------------------------------------------------------------------------
(* The accounting of a failure, when nothing else happens meanwhile *)

\* action_complete: the failure it records is the one it accounts for.
LEMMA CommitFits ==
    ASSUME DispatchTypeOK, Sound, SerialInv, NEW p \in Processes, CompleteCommit(p)
    PROVE  SerialInv'
<1>a. PICK c : c = calls[p]
  OBVIOUS
<1>b. c.pc = "complete" /\ c.id \in Ids /\ CallTyped(c)
  BY <1>a DEF CompleteCommit, At, DispatchTypeOK, CallTyped
<1>c. \A d : Continue(p, d) => Goes(p, c, d)
  BY <1>a, <1>b DEF Goes, Continue, CallBecomes
<1>1. CASE ~CanComplete(c.id, c.worker, p \in Admins)
  <2>1. Continue(p, NoCall) /\ UNCHANGED vars
    BY <1>1, <1>a DEF CompleteCommit, Return, frontierVars, vars
  <2>2. Touching /\ UNCHANGED goals /\ StillTrue(NoCall)'
    BY <2>1, PlainCalls, PlainFits DEF Touching, vars
  <2>3. \A id \in Ids : InAccount(NoCall, id) <=> InAccount(c, id)
    BY <1>b, PlainCalls DEF InAccount, AccountingPCs
  <2> QED BY <1>b, <1>c, <2>1, <2>2, <2>3, TouchingGoes
<1>2. CASE CanComplete(c.id, c.worker, p \in Admins)
  <2>1. PICK a : a = actions[c.id]
    OBVIOUS
  <2> DEFINE terminal == TerminalFor(c.kind)
             closing == [NoCall EXCEPT !.pc = "close_check", !.goal = a.goal_id]
             owing   == [NoCall EXCEPT !.pc = "account", !.id = c.id, !.kind = c.kind]
  <2>2. /\ CompleteAs(c.id, terminal, c.worker, p \in Admins)
        /\ Continue(p, CASE c.kind = "done" /\ a.goal_id # NoGoal -> closing
                         [] OwesAccounting(c.kind, a) -> owing
                         [] OTHER -> Saving)
    BY <1>2, <1>a, <2>1 DEF CompleteCommit
  <2>3. \/ Continue(p, closing) /\ c.kind = "done"
        \/ Continue(p, owing) /\ c.kind # "done"
        \/ Continue(p, Saving) /\ (c.kind = "done" \/ a.escalated)
    BY <2>2 DEF OwesAccounting
  <2>4. /\ Plain(closing)
        /\ owing.pc = "account" /\ owing.id = c.id /\ owing.todo = {}
    BY DEF NoCall, Plain, AccountingPCs
  <2>5. terminal \in {"done", "blocked", "exhausted"} /\ (c.kind = "done" <=> terminal = "done")
    BY <2>2 DEF TerminalFor, CompleteAs
  <2> HIDE DEF terminal, closing, owing
  <2>6. PICK d : /\ Goes(p, c, d)
                 /\ \/ Plain(d) /\ (c.kind = "done" \/ a.escalated)
                    \/ d = owing /\ c.kind # "done"
    BY <1>c, <2>3, <2>4, PlainCalls
  <2>7. WorkFits(c)
    BY <2>6, GoesKeeps
  <2>8. ~a.escalated
    BY <1>2, <1>b, <2>1, <2>7 DEF WorkFits, Records, CanComplete, Live, LiveStates
  <2>9. /\ \A k \in Ids : InAccount(d, k) => k = c.id
        /\ terminal = "blocked" => InAccount(d, c.id)
    BY <2>4, <2>5, <2>6, <2>8 DEF Plain, InAccount, AccountingPCs
  <2>10. /\ Records' /\ Reasons(d)' /\ Served(d)'
         /\ terminal # "done" => Accountable(c.id)'
    BY <1>b, <2>2, <2>5, <2>7, <2>9, CompleteFits DEF WorkFits
  <2>11. StillTrue(d)'
    <3>1. CASE Plain(d)
      BY <3>1, PlainFits
    <3>2. CASE d = owing /\ c.kind # "done"
      BY <2>4, <2>5, <2>10, <3>2 DEF StillTrue, AccountingPCs
    <3> QED BY <2>6, <3>1, <3>2
  <2> QED BY <2>6, <2>10, <2>11, GoesKeeps DEF WorkFits
<1> QED BY <1>1, <1>2

\* account_failure_kind, up to its decision: it takes up the same action.
LEMMA AccountFits ==
    ASSUME DispatchTypeOK, SerialInv, NEW p \in Processes, Account(p)
    PROVE  SerialInv'
<1>a. PICK c : c = calls[p]
  OBVIOUS
<1>b. c.pc = "account" /\ c.id \in Ids /\ CallTyped(c) /\ UNCHANGED vars
  BY <1>a DEF Account, At, DispatchTypeOK, CallTyped, AccountingPCs, frontierVars, vars
<1>c. WorkFits(c)
  BY <1>a, <1>b, ResumeTurn, AccountSteps
<1>1. c.id \in Present
  BY <1>b, <1>c DEF WorkFits, StillTrue, Accountable, AccountingPCs, Present
<1>2. PICK pc : pc = Decision(c.kind, actions[c.id])
  OBVIOUS
<1> DEFINE d == [c EXCEPT !.pc = pc, !.kind = "none"]
<1>3. Goes(p, c, d)
  BY <1>1, <1>2, <1>a, <1>b DEF Account, Continue, Goes, CallBecomes
<1>4. d.pc \in {"retry", "requeue", "escalate"} /\ d.id = c.id /\ d.todo = c.todo
  <2>1. pc \in {"retry", "requeue", "escalate"}
    BY <1>2 DEF Decision
  <2> QED BY <1>b, <2>1 DEF CallTyped, Call
<1> HIDE DEF d
<1>5. \A id : InAccount(d, id) <=> InAccount(c, id)
  BY <1>4, <1>b DEF InAccount, AccountingPCs
<1>6. Records /\ Reasons(d) /\ Served(d) /\ StillTrue(d)
  <2>1. Reasons(d)
    BY <1>5, <1>c DEF WorkFits, Reasons
  <2>2. Served(d)
    BY <1>b, <1>c DEF WorkFits, Served
  <2>3. StillTrue(d)
    BY <1>4, <1>b, <1>c DEF WorkFits, StillTrue, AccountingPCs
  <2> QED BY <1>c, <2>1, <2>2, <2>3 DEF WorkFits
<1> QED BY <1>3, <1>6, <1>b, UnchangedFits, GoesKeeps DEF WorkFits

\* account_failure_kind, applying the decision: what it decided on is still so.
LEMMA ApplyFits ==
    ASSUME DispatchTypeOK, Sound, SerialInv, NEW p \in Processes,
           AccountRetry(p) \/ AccountRequeue(p) \/ AccountEscalate(p)
    PROVE  SerialInv'
<1>a. PICK c : c = calls[p]
  OBVIOUS
<1>b. c.pc \in AccountingPCs /\ c.id \in Ids /\ CallTyped(c)
  BY <1>a, ApplySteps DEF DispatchTypeOK
<1>c. c.pc # "idle" /\ c.pc # "cancel"
  BY <1>b DEF AccountingPCs
<1>d. WorkFits(c)
  <2>1. \E d : CallBecomes(p, d)
    BY ApplySteps
  <2> QED BY <1>a, <1>c, <2>1, ResumeTurn
<1>e. Accountable(c.id) /\ c.id \notin c.todo /\ c.todo \subseteq ExpiredClaims
      /\ InAccount(c, c.id)
  BY <1>b, <1>d DEF WorkFits, StillTrue, InAccount
<1>1. CanRetry(c.id) /\ CanRequeue(c.id) /\ c.id \in Present
  BY <1>b, <1>e DEF Accountable, CanRetry, CanRequeue, Present, LiveStates
<1>2. PICK d : /\ Goes(p, c, d)
               /\ d.pc \in {"sweep", "save", "cascade"}
               /\ d.pc # "save" => d.todo = c.todo
               /\ Requeue(c.id) \/ RetryTransient(c.id) \/ Escalate(c.id)
  <2>1. CASE AccountRetry(p) \/ AccountRequeue(p)
    <3>1. PICK d : d = Accounted(p, TRUE) /\ d.pc \in {"sweep", "save"}
                   /\ (d.pc = "sweep" => d.todo = c.todo)
      BY <1>a, AccountedIs
    <3>2. CallBecomes(p, d) /\ (Requeue(c.id) \/ RetryTransient(c.id))
      BY <1>1, <1>a, <2>1, <3>1 DEF AccountRetry, AccountRequeue, Continue, CallBecomes
    <3> QED BY <1>a, <1>c, <3>1, <3>2 DEF Goes
  <2>2. CASE AccountEscalate(p)
    <3> DEFINE d == [c EXCEPT !.pc = "cascade"]
    <3>1. CallBecomes(p, d) /\ Escalate(c.id)
      BY <1>1, <1>a, <2>2 DEF AccountEscalate, Continue, CallBecomes
    <3>2. d.pc = "cascade" /\ d.todo = c.todo
      BY <1>b DEF CallTyped, Call
    <3> HIDE DEF d
    <3> QED BY <1>a, <1>c, <3>1, <3>2 DEF Goes
  <2> QED BY <2>1, <2>2
<1>3. d.pc \notin AccountingPCs
  BY <1>2 DEF AccountingPCs
<1>4. /\ Records' /\ Reasons(d)' /\ Served(d)'
      /\ \A id \in ExpiredClaims \ {c.id} : id \in ExpiredClaims'
  <2>1. Records /\ Reasons(c) /\ Served(c)
    BY <1>d DEF WorkFits
  <2>2. CASE Requeue(c.id) \/ RetryTransient(c.id)
    BY <1>3, <1>b, <1>c, <1>e, <2>1, <2>2, PutBackFits
  <2>3. CASE Escalate(c.id)
    BY <1>3, <1>b, <1>c, <1>e, <2>1, <2>3, EscalateFits
  <2> QED BY <1>2, <2>2, <2>3
<1>5. StillTrue(d)'
  BY <1>2, <1>4, <1>e DEF StillTrue, AccountingPCs
<1> QED BY <1>2, <1>4, <1>5, GoesKeeps DEF WorkFits

\* sweep_action_leases takes its list when nobody else is in a call.
LEMMA SweepStartFits ==
    ASSUME DispatchTypeOK, SerialInv, MaxBusy = 1, SweepStart(Sweeper)
    PROVE  SerialInv'
<1> DEFINE d == [NoCall EXCEPT !.pc = "sweep", !.todo = ExpiredClaims]
<1>a. PICK e : e = d
  OBVIOUS
<1>1. Sweeper \in Processes /\ Begin(Sweeper, "sweep", e) /\ UNCHANGED vars
  BY <1>a DEF SweepStart, Processes, frontierVars, vars
<1>2. e.pc = "sweep" /\ e.todo = ExpiredClaims
  BY <1>a DEF NoCall
<1>3. Turn(Sweeper, e) /\ WorkFits(calls[Sweeper]) /\ calls[Sweeper].pc = "idle"
  BY <1>1, BeginTurn
<1>4. Records /\ Reasons(e) /\ Served(e) /\ StillTrue(e)
  <2>1. \A id : ~InAccount(e, id) /\ ~InAccount(calls[Sweeper], id)
    BY <1>2, <1>3 DEF InAccount, AccountingPCs
  <2>2. Reasons(e)
    BY <1>3, <2>1 DEF WorkFits, Reasons
  <2>3. Served(e)
    BY <1>3 DEF WorkFits, Served
  <2>4. StillTrue(e)
    BY <1>2 DEF StillTrue, AccountingPCs
  <2> QED BY <1>3, <2>2, <2>3, <2>4 DEF WorkFits
<1>5. WorkFits(e)'
  BY <1>1, <1>4, UnchangedFits DEF WorkFits
<1> QED BY <1>1, <1>3, <1>5, TurnKeeps

\* The clock takes nothing back of what a call read.
LEMMA TickFits ==
    ASSUME DispatchTypeOK, SerialInv, Tick, UNCHANGED calls
    PROVE  SerialInv'
<1>a. TypeOK /\ Touching /\ UNCHANGED goals
  BY DEF DispatchTypeOK, Touching, Tick
<1>b. \A id \in Ids : Touched(id)
  BY <1>a, TouchingTouches
<1>1. \A id \in Ids : /\ StateOf(id)' = StateOf(id) /\ actions'[id].paused = actions[id].paused
                      /\ actions'[id].depends_on = actions[id].depends_on
                      /\ actions'[id].goal_id = actions[id].goal_id
                      /\ actions'[id].escalated = actions[id].escalated
                      /\ id \in ExpiredClaims => id \in ExpiredClaims'
  <2> SUFFICES ASSUME NEW id \in Ids
               PROVE  /\ StateOf(id)' = StateOf(id) /\ actions'[id].paused = actions[id].paused
                      /\ actions'[id].depends_on = actions[id].depends_on
                      /\ actions'[id].goal_id = actions[id].goal_id
                      /\ actions'[id].escalated = actions[id].escalated
                      /\ id \in ExpiredClaims => id \in ExpiredClaims'
    OBVIOUS
  <2>1. actions[id] \in ActionRecord /\ actions'[id] = Aged(actions[id])
    BY <1>a DEF TypeOK, Tick
  <2>2. /\ Aged(actions[id]).state = actions[id].state
        /\ Aged(actions[id]).paused = actions[id].paused
        /\ Aged(actions[id]).depends_on = actions[id].depends_on
        /\ Aged(actions[id]).goal_id = actions[id].goal_id
        /\ Aged(actions[id]).escalated = actions[id].escalated
        /\ actions[id].lease_until # None /\ actions[id].lease_until < 0
             => Aged(actions[id]).lease_until = actions[id].lease_until
    BY <2>1 DEF ActionRecord, Aged
  <2> QED BY <2>1, <2>2 DEF StateOf, ExpiredClaims, LeaseExpired
<1>2. Present' = Present /\ Live' = Live /\ \A id \in ExpiredClaims : id \in ExpiredClaims'
  BY <1>1 DEF Present, Live, ExpiredClaims
<1>3. \A g : OpenGoal(g)' <=> OpenGoal(g)
  BY <1>a DEF OpenGoal
<1>4. ASSUME NEW c, WorkFits(c), CallTyped(c) PROVE WorkFits(c)'
  <2>1. Records' /\ Reasons(c)'
    BY <1>4, <1>a, <1>b, TouchedFits DEF WorkFits
  <2>2. Served(c)'
    <3>1. Served(c) /\ \A id \in Live : id \in Ids
      BY <1>4 DEF WorkFits, Live
    <3> QED BY <1>1, <1>2, <1>3, <3>1 DEF Served
  <2>3. StillTrue(c)'
    <3>1. StillTrue(c)
      BY <1>4 DEF WorkFits
    <3>2. c.pc = "close" => \A id \in Live' : actions'[id].goal_id # c.goal
      <4>1. \A id \in Live : id \in Ids
        BY DEF Live
      <4> QED BY <1>1, <1>2, <3>1, <4>1 DEF StillTrue
    <3>3. c.pc \in AccountingPCs => Accountable(c.id)'
      <4>1. c.pc \in AccountingPCs => c.id \in Ids /\ Accountable(c.id)
        BY <1>4, <3>1 DEF CallTyped, StillTrue
      <4> QED BY <1>1, <1>2, <1>3, <4>1 DEF Accountable
    <3> QED BY <1>2, <1>3, <3>1, <3>2, <3>3 DEF StillTrue
  <2> QED BY <2>1, <2>2, <2>3 DEF WorkFits
<1>5. \A p \in Processes : calls'[p] = calls[p] /\ (Only(p)' <=> Only(p)) /\ CallTyped(calls[p])
  BY DEF Only, At, DispatchTypeOK
<1>6. \A p \in Processes : Only(p)' => WorkFits(calls[p])'
  <2> SUFFICES ASSUME NEW p \in Processes, Only(p) PROVE WorkFits(calls[p])'
    BY <1>5
  <2>1. PICK c : c = calls[p]
    OBVIOUS
  <2>2. WorkFits(c) /\ CallTyped(c)
    BY <1>5, <2>1 DEF SerialInv
  <2>3. WorkFits(c)'
    BY <1>4, <2>2
  <2> QED BY <1>5, <2>1, <2>3
<1> QED BY <1>5, <1>6 DEF SerialInv

----------------------------------------------------------------------------
(* What holds when calls run one after the other *)

LEMMA SerialStart == DispatchInit => SerialInv
<1> SUFFICES ASSUME DispatchInit PROVE SerialInv
  OBVIOUS
<1>1. \A id \in Ids : /\ StateOf(id) = "absent"
                      /\ ~actions[id].escalated /\ ~actions[id].paused
  BY DEF DispatchInit, Init, StateOf, NoAction, NewAction
<1>2. Live = {}
  BY <1>1 DEF Live, LiveStates
<1>3. \A p \in Processes : At(p, "idle") /\ calls[p] = NoCall
  BY PlainCalls DEF DispatchInit, At
<1>4. Records /\ Reasons(NoCall) /\ Served(NoCall)
  BY <1>1, <1>2 DEF Records, Reasons, Served
<1>5. StillTrue(NoCall)
  BY PlainCalls DEF StillTrue, AccountingPCs
<1>6. Sweeper \in Processes /\ Only(Sweeper)
  BY <1>3 DEF Only, Processes
<1> QED BY <1>3, <1>4, <1>5, <1>6 DEF SerialInv, WorkFits

LEMMA SerialStep ==
    ASSUME MaxBusy = 1, DispatchTypeOK, Sound, SerialInv, [DispatchNext]_dispatchVars
    PROVE  SerialInv'
<1>1. ASSUME NEW p \in Handlers, Request(p) PROVE SerialInv'
  BY <1>1, RequestFits
<1>2. ASSUME NEW p \in Processes, Resume(p) PROVE SerialInv'
  <2>1. CASE PlainResume(p)
    BY <2>1, PlainResumeFits
  <2>2. CASE CompleteCommit(p)
    BY <2>2, CommitFits
  <2>3. CASE Account(p)
    BY <2>3, AccountFits
  <2>4. CASE AccountRetry(p) \/ AccountRequeue(p) \/ AccountEscalate(p)
    BY <2>4, ApplyFits
  <2> QED BY <1>2, <2>1, <2>2, <2>3, <2>4 DEF Resume, PlainResume
<1>3. CASE SweepStart(Sweeper)
  BY <1>3, SweepStartFits
<1>4. CASE DispatchTick
  BY <1>4, TickFits DEF DispatchTick
<1>5. CASE UNCHANGED dispatchVars
  <2>1. \A id : FailedDep(id)' <=> FailedDep(id)
    BY <1>5 DEF dispatchVars, FailedDep, StateOf
  <2>2. UNCHANGED vars /\ UNCHANGED calls
    BY <1>5 DEF dispatchVars, vars
  <2>3. \A p \in Processes : calls'[p] = calls[p] /\ (Only(p)' <=> Only(p))
    BY <2>2 DEF Only, At
  <2>4. ASSUME NEW c, WorkFits(c) PROVE WorkFits(c)'
    BY <2>2, <2>4, UnchangedFits DEF WorkFits
  <2>5. \A p \in Processes : Only(p)' => WorkFits(calls[p])'
    <3> SUFFICES ASSUME NEW p \in Processes, Only(p) PROVE WorkFits(calls[p])'
      BY <2>3
    <3>1. PICK c : c = calls[p]
      OBVIOUS
    <3>2. WorkFits(c)'
      BY <2>4, <3>1 DEF SerialInv
    <3> QED BY <2>3, <3>1, <3>2
  <2> QED BY <2>3, <2>5 DEF SerialInv
<1> QED BY <1>1, <1>2, <1>3, <1>4, <1>5 DEF DispatchNext

\* What the frontier guarantees under every interleaving, for the steps of a call.
LEMMA DispatchSound == DispatchSpec => []Sound
<1>1. Init => TypeOK /\ ClaimedDepsDone /\ NoDependencyCycle /\ DepsHandedOut
  BY TypeInit, DepsInit, CycleInit
<1>2. TypeOK /\ ClaimedDepsDone /\ NoDependencyCycle /\ DepsHandedOut /\ [Next]_vars
        => (TypeOK /\ ClaimedDepsDone /\ NoDependencyCycle /\ DepsHandedOut)'
  BY TypeStep, DepsStep, CycleStep
<1>3. Spec => [](TypeOK /\ ClaimedDepsDone /\ NoDependencyCycle /\ DepsHandedOut)
  BY <1>1, <1>2, PTL DEF Spec
<1>4. TypeOK /\ ClaimedDepsDone /\ NoDependencyCycle /\ DepsHandedOut => Sound
  BY DEF Sound
<1> QED BY <1>3, <1>4, DispatchImplementsFrontier, PTL DEF ImplementsFrontier

\* The strengthening the five statements below share: there is one call, what it
\* read under a lock it released is still so, and the frontier is as it expects.
THEOREM SerialCallsFit ==
    ASSUME MaxBusy = 1
    PROVE  DispatchSpec => []SerialInv
<1>1. DispatchTypeOK /\ Sound /\ SerialInv /\ [DispatchNext]_dispatchVars => SerialInv'
  BY SerialStep
<1> QED BY <1>1, SerialStart, DispatchTypeCorrect, DispatchSound, PTL DEF DispatchSpec

\* The process in a call, when its work fits.
LEMMA TheOne ==
    ASSUME SerialInv
    PROVE  \E p \in Processes : WorkFits(calls[p])
BY DEF SerialInv

\* When calls run one after the other, a blocked action was escalated, is being
\* accounted for, or waits for a dependency that failed.  (cascade_dep_failures
\* "is still waiting, not failed"; hasty_cascade shows that calls that overlap
\* break it.)
THEOREM SerialBlockedForAReason ==
    ASSUME MaxBusy = 1
    PROVE  DispatchSpec => []BlockedForAReason
<1>1. SerialInv => BlockedForAReason
  <2> SUFFICES ASSUME SerialInv, NEW id \in Ids, StateOf(id) = "blocked"
               PROVE  actions[id].escalated \/ BeingAccounted(id) \/ DepsFailed(actions[id])
    BY DEF BlockedForAReason
  <2>1. PICK p \in Processes : Reasons(calls[p])
    BY TheOne DEF WorkFits
  <2>2. InAccount(calls[p], id) => BeingAccounted(id)
    BY DEF InAccount, AccountingPCs, BeingAccounted
  <2> QED BY <2>1, <2>2 DEF Reasons, DepsFailed
<1> QED BY <1>1, SerialCallsFit, PTL

\* When calls run one after the other, a goal that was achieved or closed has no
\* live action once its cancellation is over.  (prove_goal and maybe_close_goal
\* take two locks, finished_goal shows what a call in between can do.)
THEOREM SerialGoalsFinish ==
    ASSUME MaxBusy = 1
    PROVE  DispatchSpec => []NoLiveWorkInFinishedGoal
<1>1. SerialInv => NoLiveWorkInFinishedGoal
  <2> SUFFICES ASSUME SerialInv, NEW id \in Live, actions[id].goal_id # NoGoal
               PROVE  \/ goals[actions[id].goal_id] = "open"
                      \/ \E p \in Processes : /\ At(p, "cancel")
                                              /\ calls[p].goal = actions[id].goal_id
    BY DEF NoLiveWorkInFinishedGoal
  <2>1. PICK p \in Processes : Served(calls[p])
    BY TheOne DEF WorkFits
  <2> QED BY <2>1 DEF Served, OpenGoal, At
<1> QED BY <1>1, SerialCallsFit, PTL

\* When calls run one after the other, no action that was done, cancelled or
\* stopped is escalated to a human.  (escalate asks only whether the action is
\* there.)
THEOREM SerialEscalatesFailures ==
    ASSUME MaxBusy = 1
    PROVE  DispatchSpec => []NoEscalationWithoutFailure
<1>1. SerialInv => NoEscalationWithoutFailure
  <2> SUFFICES ASSUME SerialInv, NEW id \in Ids, StateOf(id) \in {"done"} \cup NonFailureStops
               PROVE  ~actions[id].escalated
    BY DEF NoEscalationWithoutFailure
  <2>1. Records
    BY TheOne DEF WorkFits
  <2> QED BY <2>1 DEF Records, NonFailureStops
<1> QED BY <1>1, SerialCallsFit, PTL

\* When calls run one after the other, nothing in the pool is paused and live
\* work never waits for an action that was pruned.  (prune_terminal_older_than
\* keeps the dependencies of live work, a requeue brings work back.)
THEOREM SerialPoolCanRun ==
    ASSUME MaxBusy = 1
    PROVE  DispatchSpec => []PoolCanRun
<1>1. SerialInv => PoolCanRun
  <2> SUFFICES ASSUME SerialInv PROVE PoolCanRun
    OBVIOUS
  <2>1. Records /\ \A id \in Live : id \in Ids
    BY TheOne DEF WorkFits, Live
  <2> QED BY <2>1 DEF Records, PoolCanRun
<1> QED BY <1>1, SerialCallsFit, PTL

\* When calls run one after the other, the sweep takes a claim away only past its
\* deadline: what it listed as expired is still so when it comes to it.
\* (sweep_action_leases lists under one lock and requeues under another;
\* stale_sweep shows the heartbeat in between.)
THEOREM SerialSweepRespectsLease ==
    ASSUME MaxBusy = 1
    PROVE  DispatchSpec => SweepRespectsLease
<1> DEFINE Respects ==
      \A id \in Ids :
          /\ calls[Sweeper].pc \in {"requeue", "escalate"} /\ calls[Sweeper].id = id
          /\ calls'[Sweeper] # calls[Sweeper]
          /\ StateOf(id) = "claimed" /\ StateOf(id)' # "claimed"
          => LeaseExpired(actions[id])
<1>1. SerialInv => Respects
  <2> SUFFICES ASSUME SerialInv, NEW id \in Ids,
                      calls[Sweeper].pc \in {"requeue", "escalate"}, calls[Sweeper].id = id,
                      StateOf(id) = "claimed"
               PROVE  LeaseExpired(actions[id])
    OBVIOUS
  <2>1. Sweeper \in Processes /\ Only(Sweeper)
    BY DEF Processes, SerialInv, Only, At
  <2>2. StillTrue(calls[Sweeper])
    BY <2>1 DEF SerialInv, WorkFits
  <2> QED BY <2>2 DEF StillTrue, AccountingPCs, Accountable, ExpiredClaims
<1> QED BY <1>1, SerialCallsFit, PTL DEF SweepRespectsLease
=============================================================================
