----------------------- MODULE ActionFrontier_proofs -----------------------
(***************************************************************************)
(* What ActionFrontier does for every number of actions, goals and         *)
(* workers: proofs of its invariants.  Each proof has one step per method. *)
(***************************************************************************)
EXTENDS ActionFrontier, FiniteSetTheorems, TLAPS

----------------------------------------------------------------------------
(* Records *)

\* The powers of two that transient_backoff_secs multiplies by are numbers.
LEMMA PowersOfTwo == \A s \in 0..16 : 2^s \in Nat
<1>1. /\ 2^0 \in Nat /\ 2^1 \in Nat /\ 2^2 \in Nat /\ 2^3 \in Nat /\ 2^4 \in Nat
      /\ 2^5 \in Nat /\ 2^6 \in Nat /\ 2^7 \in Nat /\ 2^8 \in Nat /\ 2^9 \in Nat
      /\ 2^10 \in Nat /\ 2^11 \in Nat /\ 2^12 \in Nat /\ 2^13 \in Nat
      /\ 2^14 \in Nat /\ 2^15 \in Nat /\ 2^16 \in Nat
  BY Z3
<1>2. \A s \in 0..16 : s \in {0, 1, 2, 3, 4, 5, 6, 7, 8, 9, 10, 11, 12, 13, 14, 15, 16}
  BY Z3
<1> QED BY <1>1, <1>2, Zenon

\* The backoff of transient_backoff_secs never exceeds its cap.
LEMMA BackoffCapped ==
    ASSUME NEW n \in Nat
    PROVE  TransientBackoff(n) \in 0..BackoffMax
<1> DEFINE shift == IF n <= 1 THEN 0 ELSE Lesser(n - 1, 16)
<1>1. shift \in 0..16
  BY DEF Lesser
<1>2. 2^shift \in Nat
  BY <1>1, PowersOfTwo
<1> HIDE DEF shift
<1>3. \A k \in Nat : BackoffBase * k \in Nat
  BY BoundsAssumption
<1>4. Lesser(BackoffBase * 2^shift, BackoffMax) \in 0..BackoffMax
  BY <1>2, <1>3, BoundsAssumption DEF Lesser
<1> QED BY <1>4 DEF TransientBackoff, shift

\* A counter of the record saturates within its width.
LEMMA BumpedInRange ==
    ASSUME NEW n \in 0..CountMax
    PROVE  Bumped(n) \in 0..CountMax /\ Bumped(n) >= n
BY BoundsAssumption DEF Bumped

\* The values that records start from are in range.
LEMMA Ranges ==
    /\ 0 \in 0..BackoffMax /\ 0 \in 0..CountMax /\ 0 \in 0..MaxSteer
    /\ Lease \in -1..Lease
BY BoundsAssumption

\* A new action is a record; so is the place of an absent one.
LEMMA NewActionType ==
    ASSUME NEW deps \in SUBSET Ids, NEW goal \in GoalIds \cup {NoGoal}
    PROVE  /\ NewAction(deps, goal) \in ActionRecord
           /\ NoAction \in ActionRecord
BY Ranges DEF NewAction, NoAction, ActionRecord, ActionStates, LiveStates

\* What a claim makes of an action is an action.
LEMMA ClaimedType ==
    ASSUME NEW a \in ActionRecord, NEW w \in Workers
    PROVE  AsClaimed(a, w) \in ActionRecord
BY Ranges DEF AsClaimed, ActionRecord, ActionStates, LiveStates

\* What putting an action back makes of it is an action.
LEMMA ReleasedType ==
    ASSUME NEW a \in ActionRecord
    PROVE  AsRequeued(a) \in ActionRecord /\ AsRetried(a) \in ActionRecord
<1> USE DEF ActionRecord, ActionStates, LiveStates
<1>1. AsRequeued(a) \in ActionRecord
  BY BumpedInRange DEF AsRequeued, Released
<1>2. Bumped(a.transient_retries) \in 0..CountMax
  BY BumpedInRange
<1>3. TransientBackoff(Bumped(a.transient_retries)) \in 0..BackoffMax
  BY <1>2, BackoffCapped
<1>4. AsRetried(a) \in ActionRecord
  BY <1>2, <1>3 DEF AsRetried, Released
<1> QED BY <1>1, <1>4

\* What ending an action makes of it is an action.
LEMMA EndedType ==
    ASSUME NEW a \in ActionRecord
    PROVE  /\ AsEscalated(a) \in ActionRecord /\ AsDepFailed(a) \in ActionRecord
           /\ AsCancelled(a) \in ActionRecord /\ AsStopped(a) \in ActionRecord
<1> USE DEF ActionRecord, ActionStates, LiveStates, TerminalStates
<1>1. AsEscalated(a) \in ActionRecord
  BY DEF AsEscalated
<1>2. AsDepFailed(a) \in ActionRecord
  BY DEF AsDepFailed
<1>3. AsCancelled(a) \in ActionRecord
  BY Ranges DEF AsCancelled
<1>4. AsStopped(a) \in ActionRecord
  BY Ranges DEF AsStopped
<1> QED BY <1>1, <1>2, <1>3, <1>4

\* An action a tick older is an action.
LEMMA AgedType ==
    ASSUME NEW a \in ActionRecord
    PROVE  Aged(a) \in ActionRecord /\ Aged(a).state = a.state
<1>1. \A t \in (-1..Lease) \cup {None} :
         (IF t = None \/ t < 0 THEN t ELSE t - 1) \in (-1..Lease) \cup {None}
  BY BoundsAssumption, NoneAssumption
<1>2. \A t \in 0..BackoffMax : (IF t = 0 THEN 0 ELSE t - 1) \in 0..BackoffMax
  BY BoundsAssumption
<1> QED BY <1>1, <1>2 DEF Aged, ActionRecord

----------------------------------------------------------------------------
(* Type correctness *)

\* A method that changes the record of an id already handed out.
LEMMA UpdateType ==
    ASSUME TypeOK, NEW id \in Ids, NEW a \in ActionRecord, id < next_id,
           Update(id, a), UNCHANGED <<next_id, goals>>
    PROVE  TypeOK'
<1>1. actions' \in [Ids -> ActionRecord]
  BY DEF TypeOK, Update
<1>2. ASSUME NEW k \in Ids, k >= next_id PROVE actions'[k].state = "absent"
  <2>1. k # id
    BY <1>2 DEF TypeOK, Ids
  <2> QED BY <1>2, <2>1 DEF TypeOK, Update, StateOf
<1> QED BY <1>1, <1>2 DEF TypeOK, StateOf

\* A method that changes the records of several ids, none of them absent.
LEMMA TableType ==
    ASSUME TypeOK, NEW table \in [Ids -> ActionRecord], actions' = table,
           \A id \in Ids : StateOf(id) = "absent" => table[id].state = "absent",
           UNCHANGED <<next_id, goals>>
    PROVE  TypeOK'
BY DEF TypeOK, StateOf

\* An id in the table was handed out.
LEMMA PresentBelowNext ==
    ASSUME TypeOK, NEW id \in Present
    PROVE  id \in Ids /\ id < next_id /\ actions[id] \in ActionRecord
BY DEF TypeOK, Present, StateOf, Ids

\* The states an action can be in are not "absent".
LEMMA StatesArePresent ==
    ASSUME NEW id \in Ids
    PROVE  /\ StateOf(id) \in ActionStates => id \in Present
           /\ id \in Live => id \in Present
BY DEF ActionStates, LiveStates, TerminalStates, Present, Live

LEMMA TypeInit == Init => TypeOK
<1> SUFFICES ASSUME Init PROVE TypeOK
  OBVIOUS
<1>1. NoAction \in ActionRecord
  BY NewActionType DEF GoalIds, NoGoal
<1>2. NoAction.state = "absent"
  BY DEF NoAction, NewAction
<1> QED BY <1>1, <1>2, BoundsAssumption DEF Init, TypeOK, StateOf

LEMMA TypeStep == TypeOK /\ [Next]_vars => TypeOK'
<1> SUFFICES ASSUME TypeOK, [Next]_vars PROVE TypeOK'
  OBVIOUS
<1>1. ASSUME NEW deps \in SUBSET Ids, NEW goal \in GoalIds \cup {NoGoal},
             Enqueue(deps, goal)
      PROVE  TypeOK'
  <2>1. NewAction(deps, goal) \in ActionRecord
    BY NewActionType
  <2>2. actions' \in [Ids -> ActionRecord]
    BY <1>1, <2>1 DEF TypeOK, Enqueue, Update
  <2>3. next_id' = next_id + 1 /\ next_id \in Ids
    BY <1>1 DEF Enqueue
  <2>4. ASSUME NEW k \in Ids, k >= next_id' PROVE actions'[k].state = "absent"
    <3>1. k # next_id /\ k >= next_id
      BY <2>3, <2>4 DEF Ids
    <3> QED BY <1>1, <3>1 DEF TypeOK, Enqueue, Update, StateOf
  <2>5. next_id' \in 1..(MaxActions + 1)
    BY <2>3, BoundsAssumption DEF Ids
  <2> QED BY <1>1, <2>2, <2>4, <2>5 DEF TypeOK, Enqueue, StateOf
<1>2. ASSUME NEW id \in Ids, NEW w \in Workers, WorkerStep(id, w)
      PROVE  TypeOK'
  <2>1. CASE Claim(id, w)
    <3>1. id \in Present /\ Update(id, AsClaimed(actions[id], w))
      BY <2>1 DEF Claim, CanClaim, Present
    <3> QED BY <2>1, <3>1, PresentBelowNext, ClaimedType, UpdateType DEF Claim
  <2>2. CASE Assign(id, w)
    <3> DEFINE a == [AsClaimed(actions[id], w) EXCEPT !.assignee = w]
    <3>1. id \in Present /\ Update(id, a)
      BY <2>2 DEF Assign, CanAssign, Present
    <3>2. a \in ActionRecord
      BY <3>1, PresentBelowNext, ClaimedType DEF ActionRecord
    <3> QED BY <2>2, <3>1, <3>2, PresentBelowNext, UpdateType DEF Assign
  <2>3. CASE Heartbeat(id, w)
    <3> DEFINE a == [actions[id] EXCEPT
                       !.steer_pending = 0,
                       !.lease_until = IF actions[id].state = "claimed"
                                            /\ ~actions[id].paused
                                       THEN Lease ELSE @]
    <3>1. id \in Present /\ Update(id, a)
      BY <2>3 DEF Heartbeat, Present, NonFailureStops, StateOf
    <3>2. a \in ActionRecord
      BY <3>1, PresentBelowNext, Ranges DEF ActionRecord
    <3> QED BY <2>3, <3>1, <3>2, PresentBelowNext, UpdateType DEF Heartbeat
  <2>4. CASE RenewLease(id, w)
    <3> DEFINE a == [actions[id] EXCEPT !.lease_until = Lease]
    <3>1. id \in Present /\ Update(id, a)
      BY <2>4 DEF RenewLease, Present
    <3>2. a \in ActionRecord
      BY <3>1, PresentBelowNext, Ranges DEF ActionRecord
    <3> QED BY <2>4, <3>1, <3>2, PresentBelowNext, UpdateType DEF RenewLease
  <2>5. ASSUME NEW terminal \in {"done", "blocked", "exhausted"}, NEW admin \in BOOLEAN,
               CompleteAs(id, terminal, w, admin)
        PROVE  TypeOK'
    <3> DEFINE a == [actions[id] EXCEPT !.state = terminal]
    <3>1. id \in Present /\ Update(id, a)
      BY <2>5, StatesArePresent DEF CompleteAs, CanComplete
    <3>2. a \in ActionRecord
      BY <3>1, PresentBelowNext DEF ActionRecord, ActionStates, TerminalStates
    <3> QED BY <2>5, <3>1, <3>2, PresentBelowNext, UpdateType DEF CompleteAs
  <2> QED BY <1>2, <2>1, <2>2, <2>3, <2>4, <2>5 DEF WorkerStep
<1>3. ASSUME NEW id \in Ids, PlannerStep(id)
      PROVE  TypeOK'
  <2>1. ASSUME NEW deps \in SUBSET Ids, SetDependsOn(id, deps)
        PROVE  TypeOK'
    <3> DEFINE a == [actions[id] EXCEPT !.depends_on = deps]
    <3>1. id \in Present /\ Update(id, a)
      BY <2>1 DEF SetDependsOn, Present
    <3>2. a \in ActionRecord
      BY <3>1, PresentBelowNext DEF ActionRecord
    <3> QED BY <2>1, <3>1, <3>2, PresentBelowNext, UpdateType DEF SetDependsOn
  <2>2. CASE Steer(id)
    <3> DEFINE a == [actions[id] EXCEPT !.steer_pending = @ + 1]
    <3>1. id \in Present /\ Update(id, a)
      BY <2>2 DEF Steer, Present
    <3>2. actions[id].steer_pending + 1 \in 0..MaxSteer
      BY <2>2, <3>1, PresentBelowNext, BoundsAssumption DEF Steer, ActionRecord
    <3>3. a \in ActionRecord
      BY <3>1, <3>2, PresentBelowNext DEF ActionRecord
    <3> QED BY <2>2, <3>1, <3>3, PresentBelowNext, UpdateType DEF Steer
  <2>3. ASSUME NEW paused \in BOOLEAN, SetPaused(id, paused)
        PROVE  TypeOK'
    <3> DEFINE a == [actions[id] EXCEPT
                       !.paused = paused,
                       !.lease_until = IF paused THEN @ ELSE Lease]
    <3>1. id \in Present /\ Update(id, a)
      BY <2>3 DEF SetPaused, Present
    <3>2. a \in ActionRecord
      BY <3>1, PresentBelowNext, Ranges DEF ActionRecord
    <3> QED BY <2>3, <3>1, <3>2, PresentBelowNext, UpdateType DEF SetPaused
  <2>4. CASE Stop(id)
    <3>1. id \in Present /\ Update(id, AsStopped(actions[id]))
      BY <2>4, StatesArePresent DEF Stop
    <3>2. AsStopped(actions[id]) \in ActionRecord
      BY <3>1, PresentBelowNext, EndedType
    <3> QED BY <2>4, <3>1, <3>2, PresentBelowNext, UpdateType DEF Stop
  <2> QED BY <1>3, <2>1, <2>2, <2>3, <2>4 DEF PlannerStep
<1>4. ASSUME NEW id \in Ids, AccountingStep(id)
      PROVE  TypeOK'
  <2> DEFINE Becomes(a) == id \in Present /\ Update(id, a) /\ UNCHANGED <<next_id, goals>>
  <2>1. \/ Becomes(AsRequeued(actions[id]))
        \/ Becomes(AsRetried(actions[id]))
        \/ Becomes(AsEscalated(actions[id]))
    BY <1>4, StatesArePresent DEF AccountingStep, Requeue, CanRequeue, RetryTransient,
       CanRetry, Escalate, ActionStates, LiveStates, TerminalStates
  <2>2. id \in Present
    BY <2>1
  <2> QED BY <2>1, <2>2, PresentBelowNext, ReleasedType, EndedType, UpdateType
<1>5. ASSUME NEW g \in GoalIds, GoalStep(g)
      PROVE  TypeOK'
  <2>1. CASE CreateGoal(g) \/ AchieveGoal(g) \/ CloseGoal(g)
    BY <2>1 DEF CreateGoal, AchieveGoal, CloseGoal, TypeOK, StateOf, GoalStates
  <2>2. CASE CancelRemaining(g)
    <3> DEFINE table == [id \in Ids |-> IF id \in Live /\ actions[id].goal_id = g
                                       THEN AsCancelled(actions[id]) ELSE actions[id]]
    <3>1. table \in [Ids -> ActionRecord]
      BY EndedType DEF TypeOK
    <3>2. \A id \in Ids : StateOf(id) = "absent" => table[id] = actions[id]
      BY DEF Live, LiveStates
    <3> QED BY <2>2, <3>1, <3>2, TableType DEF CancelRemaining, StateOf
  <2> QED BY <1>5, <2>1, <2>2 DEF GoalStep
<1>6. CASE CascadeDepFailures
  <2> DEFINE table == [id \in Ids |-> IF id \in Doomed THEN AsDepFailed(actions[id])
                                     ELSE actions[id]]
  <2>1. table \in [Ids -> ActionRecord]
    BY EndedType DEF TypeOK
  <2>2. \A id \in Ids : StateOf(id) = "absent" => table[id] = actions[id]
    BY DEF Doomed, Live, LiveStates
  <2> QED BY <1>6, <2>1, <2>2, TableType DEF CascadeDepFailures, StateOf
<1>7. ASSUME NEW old \in SUBSET Ids, Prune(old)
      PROVE  TypeOK'
  <2> DEFINE table == [id \in Ids |-> IF id \in old THEN NoAction ELSE actions[id]]
  <2>1. NoAction \in ActionRecord /\ NoAction.state = "absent"
    BY NewActionType DEF NoAction, NewAction, GoalIds, NoGoal
  <2>2. table \in [Ids -> ActionRecord]
    BY <2>1 DEF TypeOK
  <2>3. \A id \in Ids : StateOf(id) = "absent" => table[id].state = "absent"
    BY <2>1 DEF StateOf
  <2> QED BY <1>7, <2>2, <2>3, TableType DEF Prune
<1>8. CASE Tick
  <2> DEFINE table == [id \in Ids |-> Aged(actions[id])]
  <2>1. table \in [Ids -> ActionRecord]
    BY AgedType DEF TypeOK
  <2>2. \A id \in Ids : StateOf(id) = "absent" => table[id].state = "absent"
    BY AgedType DEF TypeOK, StateOf
  <2> QED BY <1>8, <2>1, <2>2, TableType DEF Tick
<1>9. CASE UNCHANGED vars
  BY <1>9 DEF vars, TypeOK, StateOf
<1> QED BY <1>1, <1>2, <1>3, <1>4, <1>5, <1>6, <1>7, <1>8, <1>9 DEF Next

\* Type correctness: whatever the methods are called with, in whatever order,
\* every record keeps the type the code gives it and no id is reused.
THEOREM TypeCorrect == Spec => []TypeOK
<1>1. Init => TypeOK
  BY TypeInit
<1>2. TypeOK /\ [Next]_vars => TypeOK'
  BY TypeStep
<1> QED BY <1>1, <1>2, PTL DEF Spec

----------------------------------------------------------------------------
(* Ownership *)

OwnedRight(a) ==
    /\ a.claimed_by = a.assignee
    /\ a.state = "open" => a.assignee = None /\ a.lease_until = None
    /\ a.state = "claimed" => a.assignee # None /\ a.lease_until # None

\* Each way a record changes keeps its owner and its deadline in step with its
\* state.
LEMMA OwnedSteps ==
    ASSUME NEW a \in ActionRecord, OwnedRight(a)
    PROVE  /\ OwnedRight(AsRequeued(a)) /\ OwnedRight(AsRetried(a))
           /\ OwnedRight(AsEscalated(a)) /\ OwnedRight(AsDepFailed(a))
           /\ OwnedRight(AsCancelled(a)) /\ OwnedRight(AsStopped(a))
           /\ OwnedRight(Aged(a))
<1> USE DEF OwnedRight, ActionRecord
<1>1. OwnedRight(AsRequeued(a)) /\ OwnedRight(AsRetried(a))
  BY DEF AsRequeued, AsRetried, Released
<1>2. OwnedRight(AsEscalated(a))
  BY DEF AsEscalated, LiveStates
<1>3. OwnedRight(AsDepFailed(a))
  BY DEF AsDepFailed
<1>4. OwnedRight(AsCancelled(a)) /\ OwnedRight(AsStopped(a))
  BY DEF AsCancelled, AsStopped
<1>5. OwnedRight(Aged(a))
  <2>1. \A t \in Int : t # None /\ t - 1 # None
    BY NoneAssumption
  <2> QED BY <2>1, BoundsAssumption DEF Aged
<1> QED BY <1>1, <1>2, <1>3, <1>4, <1>5

\* A claim of an action of the pool gives it one owner.
LEMMA OwnedClaim ==
    ASSUME NEW a \in ActionRecord, OwnedRight(a), a.state = "open", NEW w \in Workers
    PROVE  /\ OwnedRight(AsClaimed(a, w))
           /\ OwnedRight([AsClaimed(a, w) EXCEPT !.assignee = w])
<1>1. w # None /\ Lease # None
  BY NoneAssumption, BoundsAssumption
<1> QED BY <1>1 DEF OwnedRight, ActionRecord, AsClaimed

LEMMA OwnershipInit == Init => OwnershipConsistent
BY DEF Init, OwnershipConsistent, NoAction, NewAction

LEMMA OwnershipStep ==
    TypeOK /\ OwnershipConsistent /\ [Next]_vars => OwnershipConsistent'
<1> SUFFICES ASSUME TypeOK, OwnershipConsistent, [Next]_vars
             PROVE  OwnershipConsistent'
  OBVIOUS
<1> DEFINE Changes(id, a) == actions' = [actions EXCEPT ![id] = a]
<1>a. \A id \in Ids : actions[id] \in ActionRecord /\ OwnedRight(actions[id])
  BY DEF TypeOK, OwnershipConsistent, OwnedRight
<1>b. ASSUME \A id \in Ids : OwnedRight(actions'[id])
      PROVE  OwnershipConsistent'
  BY <1>b DEF OwnershipConsistent, OwnedRight
<1>c. ASSUME NEW id \in Ids, NEW a, Changes(id, a), OwnedRight(a)
      PROVE  OwnershipConsistent'
  BY <1>a, <1>b, <1>c DEF TypeOK
<1>d. OwnedRight(NoAction)
  BY DEF NoAction, NewAction, OwnedRight
<1>1. ASSUME NEW deps \in SUBSET Ids, NEW goal \in GoalIds \cup {NoGoal},
             Enqueue(deps, goal)
      PROVE  OwnershipConsistent'
  <2>1. OwnedRight(NewAction(deps, goal))
    BY DEF NewAction, OwnedRight
  <2> QED BY <1>1, <1>c, <2>1 DEF Enqueue, Update
<1>2. ASSUME NEW id \in Ids, NEW w \in Workers, WorkerStep(id, w)
      PROVE  OwnershipConsistent'
  <2>1. CASE Claim(id, w)
    BY <2>1, <1>a, <1>c, OwnedClaim DEF Claim, CanClaim, StateOf, Update
  <2>2. CASE Assign(id, w)
    BY <2>2, <1>a, <1>c, OwnedClaim DEF Assign, CanAssign, StateOf, Update
  <2>3. CASE Heartbeat(id, w) \/ RenewLease(id, w)
    <3> DEFINE beat == [actions[id] EXCEPT
                          !.steer_pending = 0,
                          !.lease_until = IF actions[id].state = "claimed"
                                               /\ ~actions[id].paused
                                          THEN Lease ELSE @]
               renewed == [actions[id] EXCEPT !.lease_until = Lease]
    <3>1. actions[id].state # "open" /\ (Changes(id, beat) \/ Changes(id, renewed))
      BY <2>3 DEF Heartbeat, RenewLease, Update, NonFailureStops, StateOf
    <3>2. OwnedRight(beat) /\ OwnedRight(renewed)
      BY <1>a, <3>1, NoneAssumption, BoundsAssumption DEF OwnedRight, ActionRecord
    <3> QED BY <3>1, <3>2, <1>c
  <2>4. ASSUME NEW terminal \in {"done", "blocked", "exhausted"}, NEW admin \in BOOLEAN,
               CompleteAs(id, terminal, w, admin)
        PROVE  OwnershipConsistent'
    <3>1. OwnedRight([actions[id] EXCEPT !.state = terminal])
      BY <1>a DEF OwnedRight, ActionRecord
    <3> QED BY <2>4, <3>1, <1>c DEF CompleteAs, Update
  <2> QED BY <1>2, <2>1, <2>2, <2>3, <2>4 DEF WorkerStep
<1>3. ASSUME NEW id \in Ids, PlannerStep(id)
      PROVE  OwnershipConsistent'
  <2>1. ASSUME NEW deps \in SUBSET Ids, SetDependsOn(id, deps)
        PROVE  OwnershipConsistent'
    <3>1. OwnedRight([actions[id] EXCEPT !.depends_on = deps])
      BY <1>a DEF OwnedRight, ActionRecord
    <3> QED BY <2>1, <3>1, <1>c DEF SetDependsOn, Update
  <2>2. CASE Steer(id)
    <3>1. OwnedRight([actions[id] EXCEPT !.steer_pending = @ + 1])
      BY <1>a DEF OwnedRight, ActionRecord
    <3> QED BY <2>2, <3>1, <1>c DEF Steer, Update
  <2>3. ASSUME NEW paused \in BOOLEAN, SetPaused(id, paused)
        PROVE  OwnershipConsistent'
    <3> DEFINE a == [actions[id] EXCEPT
                       !.paused = paused,
                       !.lease_until = IF paused THEN @ ELSE Lease]
    <3>1. actions[id].state = "claimed" /\ Changes(id, a)
      BY <2>3 DEF SetPaused, Update, StateOf
    <3>2. OwnedRight(a)
      BY <1>a, <3>1, NoneAssumption, BoundsAssumption DEF OwnedRight, ActionRecord
    <3> QED BY <3>1, <3>2, <1>c
  <2>4. CASE Stop(id)
    BY <2>4, <1>a, <1>c, OwnedSteps DEF Stop, Update
  <2> QED BY <1>3, <2>1, <2>2, <2>3, <2>4 DEF PlannerStep
<1>4. ASSUME NEW id \in Ids, AccountingStep(id)
      PROVE  OwnershipConsistent'
  BY <1>4, <1>a, <1>c, OwnedSteps DEF AccountingStep, Requeue, RetryTransient, Escalate,
     Update
<1>5. ASSUME NEW g \in GoalIds, GoalStep(g)
      PROVE  OwnershipConsistent'
  <2>1. CASE CreateGoal(g) \/ AchieveGoal(g) \/ CloseGoal(g)
    BY <2>1 DEF CreateGoal, AchieveGoal, CloseGoal, OwnershipConsistent
  <2>2. CASE CancelRemaining(g)
    BY <2>2, <1>a, <1>b, OwnedSteps DEF CancelRemaining
  <2> QED BY <1>5, <2>1, <2>2 DEF GoalStep
<1>6. CASE CascadeDepFailures
  BY <1>6, <1>a, <1>b, OwnedSteps DEF CascadeDepFailures
<1>7. ASSUME NEW old \in SUBSET Ids, Prune(old)
      PROVE  OwnershipConsistent'
  BY <1>7, <1>a, <1>b, <1>d DEF Prune
<1>8. CASE Tick
  BY <1>8, <1>a, <1>b, OwnedSteps DEF Tick
<1>9. CASE UNCHANGED vars
  BY <1>9 DEF vars, OwnershipConsistent
<1> QED BY <1>1, <1>2, <1>3, <1>4, <1>5, <1>6, <1>7, <1>8, <1>9 DEF Next

\* Ownership: no action is ever claimed by nobody, claimed without a deadline
\* that the sweep can find, or back in the pool with an owner.  TypeOK is the
\* strengthening that makes it inductive.  (claim, assign, requeue,
\* retry_transient, set_paused.)
THEOREM OwnershipSafe == Spec => []OwnershipConsistent
<1>1. Init => TypeOK /\ OwnershipConsistent
  BY TypeInit, OwnershipInit
<1>2. TypeOK /\ OwnershipConsistent /\ [Next]_vars => (TypeOK /\ OwnershipConsistent)'
  BY TypeStep, OwnershipStep
<1> QED BY <1>1, <1>2, PTL DEF Spec

----------------------------------------------------------------------------
(* Dependencies of claimed work *)

\* A change of one record keeps the dependencies of claimed work done when it
\* does not reopen a done action and claims only what rests on done work.
LEMMA DepsAfterUpdate ==
    ASSUME TypeOK, ClaimedDepsDone, NEW id \in Ids, NEW a \in ActionRecord,
           Update(id, a),
           StateOf(id) = "done" => a.state = "done",
           a.state = "claimed" => StateOf(id) # "done"
                                  /\ \A d \in a.depends_on : StateOf(d) = "done"
    PROVE  ClaimedDepsDone'
<1>1. \A k \in Ids : actions'[k] = IF k = id THEN a ELSE actions[k]
  BY DEF Update, TypeOK
<1>2. \A k \in Ids : StateOf(k) = "done" => actions'[k].state = "done"
  BY <1>1 DEF StateOf
<1>3. ASSUME NEW k \in Ids, actions'[k].state = "claimed", NEW d \in actions'[k].depends_on
      PROVE  actions'[d].state = "done"
  <2>1. StateOf(d) = "done"
    BY <1>1, <1>3 DEF ClaimedDepsDone, DepsReady, StateOf
  <2>2. d \in Ids
    BY <1>1, <1>3 DEF TypeOK, ActionRecord
  <2> QED BY <2>1, <2>2, <1>2
<1> QED BY <1>3 DEF ClaimedDepsDone, DepsReady, StateOf

\* A change of several records keeps them done when it claims nothing, edits no
\* dependencies of claimed work, and done actions that claimed work needs stay.
LEMMA DepsAfterSweep ==
    ASSUME TypeOK, ClaimedDepsDone, NEW table \in [Ids -> ActionRecord], actions' = table,
           \A id \in Ids : table[id].state = "claimed" =>
               StateOf(id) = "claimed" /\ table[id].depends_on = actions[id].depends_on,
           \A id \in Ids : StateOf(id) = "done" =>
               \/ table[id].state = "done"
               \/ \A k \in Live : id \notin actions[k].depends_on
    PROVE  ClaimedDepsDone'
<1>1. ASSUME NEW k \in Ids, table[k].state = "claimed", NEW d \in table[k].depends_on
      PROVE  table[d].state = "done"
  <2>1. k \in Live /\ d \in actions[k].depends_on /\ StateOf(d) = "done"
    BY <1>1 DEF ClaimedDepsDone, DepsReady, Live, LiveStates
  <2>2. d \in Ids
    BY <1>1 DEF ActionRecord
  <2> QED BY <2>1, <2>2
<1> QED BY <1>1 DEF ClaimedDepsDone, DepsReady, StateOf

LEMMA DepsInit == Init => ClaimedDepsDone
BY DEF Init, ClaimedDepsDone, NoAction, NewAction, StateOf

LEMMA DepsStep ==
    TypeOK /\ ClaimedDepsDone /\ [Next]_vars => ClaimedDepsDone'
<1> SUFFICES ASSUME TypeOK, ClaimedDepsDone, [Next]_vars
             PROVE  ClaimedDepsDone'
  OBVIOUS
<1>a. \A id \in Ids : actions[id] \in ActionRecord
  BY DEF TypeOK
<1>b. ASSUME NEW id \in Ids, StateOf(id) = "claimed"
      PROVE  \A d \in actions[id].depends_on : StateOf(d) = "done"
  BY <1>b DEF ClaimedDepsDone, DepsReady
<1>1. ASSUME NEW deps \in SUBSET Ids, NEW goal \in GoalIds \cup {NoGoal},
             Enqueue(deps, goal)
      PROVE  ClaimedDepsDone'
  <2>1. NewAction(deps, goal) \in ActionRecord /\ NewAction(deps, goal).state = "open"
    BY NewActionType DEF NewAction
  <2>2. next_id \in Ids /\ StateOf(next_id) # "done"
    BY <1>1 DEF Enqueue, TypeOK, Ids
  <2> QED BY <1>1, <2>1, <2>2, DepsAfterUpdate DEF Enqueue
<1>2. ASSUME NEW id \in Ids, NEW w \in Workers, WorkerStep(id, w)
      PROVE  ClaimedDepsDone'
  <2>1. CASE Claim(id, w)
    <3> DEFINE a == AsClaimed(actions[id], w)
    <3>1. StateOf(id) = "open" /\ DepsReady(actions[id]) /\ Update(id, a)
      BY <2>1 DEF Claim, CanClaim
    <3>2. a \in ActionRecord
      BY <1>a, ClaimedType
    <3>3. a.depends_on = actions[id].depends_on
      BY <1>a DEF AsClaimed, ActionRecord
    <3> QED BY <3>1, <3>2, <3>3, DepsAfterUpdate DEF DepsReady
  <2>2. CASE Assign(id, w)
    <3> DEFINE a == [AsClaimed(actions[id], w) EXCEPT !.assignee = w]
    <3>1. StateOf(id) = "open" /\ DepsReady(actions[id]) /\ Update(id, a)
      BY <2>2 DEF Assign, CanAssign
    <3>2. AsClaimed(actions[id], w) \in ActionRecord
      BY <1>a, ClaimedType
    <3>3. a \in ActionRecord
      BY <3>2 DEF ActionRecord
    <3>4. a.depends_on = actions[id].depends_on
      BY <1>a DEF AsClaimed, ActionRecord
    <3> QED BY <3>1, <3>3, <3>4, DepsAfterUpdate DEF DepsReady
  <2>3. CASE Heartbeat(id, w)
    <3> DEFINE a == [actions[id] EXCEPT
                       !.steer_pending = 0,
                       !.lease_until = IF actions[id].state = "claimed"
                                            /\ ~actions[id].paused
                                       THEN Lease ELSE @]
    <3>1. Update(id, a) /\ StateOf(id) # "done"
      BY <2>3 DEF Heartbeat, NonFailureStops, StateOf
    <3>2. a \in ActionRecord
      <4>1. actions[id] \in ActionRecord
        BY <1>a
      <4> QED BY <4>1, Ranges DEF ActionRecord
    <3>3. a.state = StateOf(id) /\ a.depends_on = actions[id].depends_on
      BY <1>a DEF ActionRecord, StateOf
    <3> QED BY <3>1, <3>2, <3>3, <1>b, DepsAfterUpdate
  <2>4. CASE RenewLease(id, w)
    <3> DEFINE a == [actions[id] EXCEPT !.lease_until = Lease]
    <3>1. a \in ActionRecord /\ a.state = StateOf(id)
          /\ a.depends_on = actions[id].depends_on
      BY <1>a, Ranges DEF ActionRecord, StateOf
    <3> QED BY <2>4, <3>1, <1>b, DepsAfterUpdate DEF RenewLease
  <2>5. ASSUME NEW terminal \in {"done", "blocked", "exhausted"}, NEW admin \in BOOLEAN,
               CompleteAs(id, terminal, w, admin)
        PROVE  ClaimedDepsDone'
    <3> DEFINE a == [actions[id] EXCEPT !.state = terminal]
    <3>1. a \in ActionRecord /\ a.state = terminal
      BY <1>a DEF ActionRecord, ActionStates, TerminalStates
    <3>2. StateOf(id) # "done" /\ Update(id, a)
      BY <2>5 DEF CompleteAs, CanComplete, Live, LiveStates
    <3> QED BY <3>1, <3>2, DepsAfterUpdate
  <2> QED BY <1>2, <2>1, <2>2, <2>3, <2>4, <2>5 DEF WorkerStep
<1>3. ASSUME NEW id \in Ids, PlannerStep(id)
      PROVE  ClaimedDepsDone'
  <2>1. ASSUME NEW deps \in SUBSET Ids, SetDependsOn(id, deps)
        PROVE  ClaimedDepsDone'
    <3> DEFINE a == [actions[id] EXCEPT !.depends_on = deps]
    <3>1. a \in ActionRecord /\ a.state = StateOf(id)
      BY <1>a DEF ActionRecord, StateOf
    <3> QED BY <2>1, <3>1, DepsAfterUpdate DEF SetDependsOn
  <2>2. CASE Steer(id)
    <3> DEFINE a == [actions[id] EXCEPT !.steer_pending = @ + 1]
    <3>1. actions[id].steer_pending + 1 \in 0..MaxSteer
      BY <2>2, <1>a, BoundsAssumption DEF Steer, ActionRecord
    <3>2. a \in ActionRecord /\ a.state = StateOf(id)
          /\ a.depends_on = actions[id].depends_on
      BY <1>a, <3>1 DEF ActionRecord, StateOf
    <3> QED BY <2>2, <3>2, <1>b, DepsAfterUpdate DEF Steer
  <2>3. ASSUME NEW paused \in BOOLEAN, SetPaused(id, paused)
        PROVE  ClaimedDepsDone'
    <3> DEFINE a == [actions[id] EXCEPT
                       !.paused = paused,
                       !.lease_until = IF paused THEN @ ELSE Lease]
    <3>1. a \in ActionRecord
      <4>1. actions[id] \in ActionRecord
        BY <1>a
      <4> QED BY <4>1, Ranges DEF ActionRecord
    <3>2. a.state = StateOf(id) /\ a.depends_on = actions[id].depends_on
      BY <1>a DEF ActionRecord, StateOf
    <3> QED BY <2>3, <3>1, <3>2, <1>b, DepsAfterUpdate DEF SetPaused
  <2>4. CASE Stop(id)
    <3>1. AsStopped(actions[id]) \in ActionRecord
      BY <1>a, EndedType
    <3>2. AsStopped(actions[id]).state = "stopped"
      BY <1>a DEF AsStopped, ActionRecord
    <3>3. StateOf(id) # "done"
      BY <2>4 DEF Stop, Live, LiveStates
    <3> QED BY <2>4, <3>1, <3>2, <3>3, DepsAfterUpdate DEF Stop
  <2> QED BY <1>3, <2>1, <2>2, <2>3, <2>4 DEF PlannerStep
<1>4. ASSUME NEW id \in Ids, AccountingStep(id)
      PROVE  ClaimedDepsDone'
  <2>1. CASE Requeue(id) \/ RetryTransient(id)
    <3>1. /\ AsRequeued(actions[id]).state = "open"
          /\ AsRetried(actions[id]).state = "open"
      BY <1>a DEF AsRequeued, AsRetried, Released, ActionRecord
    <3>2. StateOf(id) # "done"
      BY <2>1 DEF Requeue, CanRequeue, RetryTransient, CanRetry, LiveStates
    <3> QED BY <2>1, <3>1, <3>2, <1>a, ReleasedType, DepsAfterUpdate
            DEF Requeue, RetryTransient
  <2>2. CASE Escalate(id)
    <3> DEFINE a == AsEscalated(actions[id])
    <3>1. a \in ActionRecord
      BY <1>a, EndedType
    <3>2. a.state # "claimed" /\ (StateOf(id) = "done" => a.state = "done")
      BY <1>a DEF AsEscalated, LiveStates, ActionRecord, StateOf
    <3> QED BY <2>2, <3>1, <3>2, DepsAfterUpdate DEF Escalate
  <2> QED BY <1>4, <2>1, <2>2 DEF AccountingStep
<1>5. ASSUME NEW g \in GoalIds, GoalStep(g)
      PROVE  ClaimedDepsDone'
  <2>1. CASE CreateGoal(g) \/ AchieveGoal(g) \/ CloseGoal(g)
    BY <2>1 DEF CreateGoal, AchieveGoal, CloseGoal, ClaimedDepsDone, DepsReady, StateOf
  <2>2. CASE CancelRemaining(g)
    <3> DEFINE table == [id \in Ids |-> IF id \in Live /\ actions[id].goal_id = g
                                       THEN AsCancelled(actions[id]) ELSE actions[id]]
    <3>1. \A id \in Ids : AsCancelled(actions[id]).state = "cancelled"
      BY <1>a DEF AsCancelled, ActionRecord
    <3>2. table \in [Ids -> ActionRecord]
      BY <1>a, EndedType
    <3>3. \A id \in Ids : StateOf(id) = "done" => table[id].state = "done"
      BY DEF Live, LiveStates, StateOf
    <3>4. \A id \in Ids : table[id].state = "claimed" => table[id] = actions[id]
      BY <3>1
    <3> QED BY <2>2, <3>2, <3>3, <3>4, DepsAfterSweep DEF CancelRemaining, StateOf
  <2> QED BY <1>5, <2>1, <2>2 DEF GoalStep
<1>6. CASE CascadeDepFailures
  <2> DEFINE table == [id \in Ids |-> IF id \in Doomed THEN AsDepFailed(actions[id])
                                     ELSE actions[id]]
  <2>1. \A id \in Ids : AsDepFailed(actions[id]).state = "blocked"
    BY <1>a DEF AsDepFailed, ActionRecord
  <2>2. table \in [Ids -> ActionRecord]
    BY <1>a, EndedType
  <2>3. \A id \in Ids : StateOf(id) = "done" => table[id].state = "done"
    BY DEF Doomed, Live, LiveStates, StateOf
  <2>4. \A id \in Ids : table[id].state = "claimed" => table[id] = actions[id]
    BY <2>1
  <2> QED BY <1>6, <2>2, <2>3, <2>4, DepsAfterSweep DEF CascadeDepFailures, StateOf
<1>7. ASSUME NEW old \in SUBSET Ids, Prune(old)
      PROVE  ClaimedDepsDone'
  <2> DEFINE table == [id \in Ids |-> IF id \in old THEN NoAction ELSE actions[id]]
  <2>1. NoAction \in ActionRecord /\ NoAction.state = "absent"
    BY NewActionType DEF NoAction, NewAction, GoalIds, NoGoal
  <2>2. table \in [Ids -> ActionRecord]
    BY <1>a, <2>1
  <2>3. \A id \in old : \A k \in Live : id \notin actions[k].depends_on
    BY <1>7 DEF Prune, Prunable
  <2>4. \A id \in Ids : table[id].state = "claimed" => table[id] = actions[id]
    BY <2>1
  <2> QED BY <1>7, <2>2, <2>3, <2>4, DepsAfterSweep DEF Prune, StateOf
<1>8. CASE Tick
  <2> DEFINE table == [id \in Ids |-> Aged(actions[id])]
  <2>1. \A id \in Ids : /\ table[id] \in ActionRecord
                        /\ table[id].state = StateOf(id)
                        /\ table[id].depends_on = actions[id].depends_on
    BY <1>a, AgedType DEF Aged, ActionRecord, StateOf
  <2> QED BY <1>8, <2>1, DepsAfterSweep DEF Tick
<1>9. CASE UNCHANGED vars
  BY <1>9 DEF vars, ClaimedDepsDone, DepsReady, StateOf
<1> QED BY <1>1, <1>2, <1>3, <1>4, <1>5, <1>6, <1>7, <1>8, <1>9 DEF Next

\* Work in progress rests on finished work: every dependency of a claimed action
\* is done and in the table, whatever is requeued, edited, pruned or cascaded
\* around it.  (check_deps, set_depends_on, prune_terminal_older_than.)
THEOREM ClaimedWorkIsReady == Spec => []ClaimedDepsDone
<1>1. Init => TypeOK /\ ClaimedDepsDone
  BY TypeInit, DepsInit
<1>2. TypeOK /\ ClaimedDepsDone /\ [Next]_vars => (TypeOK /\ ClaimedDepsDone)'
  BY TypeStep, DepsStep
<1> QED BY <1>1, <1>2, PTL DEF Spec
----------------------------------------------------------------------------
(* The frontier implements ActionLifecycle *)

\* Never put back since it was enqueued.
Fresh(a) == a.requeue_count + a.transient_retries = 0

\* What a method may make of the state of one action.
StateMove(id) ==
    LET s == StateOf(id)
        t == actions'[id].state
    IN  \/ /\ t = s
           /\ s = "claimed" => actions'[id].assignee = actions[id].assignee
           /\ s = "absent" => (id < next_id' <=> id < next_id)
           /\ Fresh(actions'[id]) => Fresh(actions[id])
        \/ s = "absent" /\ t = "open" /\ id = next_id /\ HasRoom
        \/ s = "open" /\ t = "claimed" /\ (Fresh(actions'[id]) => Fresh(actions[id]))
        \/ s \in {"claimed", "blocked", "exhausted"} /\ t = "open" /\ ~Fresh(actions'[id])
        \/ s \in LiveStates /\ t \in TerminalStates
        \/ s \in TerminalStates /\ t = "absent" /\ id < next_id'

\* A method that changes one record moves no other action.
LEMMA MoveOfOne ==
    ASSUME TypeOK, NEW id \in Ids, NEW a, Update(id, a), next_id' = next_id,
           actions'[id] = a => StateMove(id),
           NEW k \in Ids
    PROVE  StateMove(k)
<1>1. actions' = [actions EXCEPT ![id] = a] /\ DOMAIN actions = Ids
  BY DEF Update, TypeOK
<1>2. CASE k = id
  BY <1>1, <1>2
<1>3. CASE k # id
  BY <1>1, <1>3 DEF StateMove, StateOf
<1> QED BY <1>2, <1>3

\* Every method moves each action along StateMove.
LEMMA StatesMove ==
    ASSUME TypeOK, [Next]_vars, NEW k \in Ids
    PROVE  StateMove(k)
<1>a. \A id \in Ids : actions[id] \in ActionRecord
  BY DEF TypeOK
<1>1. ASSUME NEW deps \in SUBSET Ids, NEW goal \in GoalIds \cup {NoGoal},
             Enqueue(deps, goal)
      PROVE  StateMove(k)
  <2>1. actions' = [actions EXCEPT ![next_id] = NewAction(deps, goal)]
        /\ next_id \in Ids /\ next_id' = next_id + 1
    BY <1>1 DEF Enqueue, Update
  <2>2. CASE k = next_id
    <3>1. StateOf(k) = "absent" /\ HasRoom
      BY <1>1, <2>2 DEF TypeOK, Ids, Enqueue
    <3>2. actions'[k].state = "open"
      BY <2>1, <2>2 DEF TypeOK, NewAction
    <3> QED BY <2>2, <3>1, <3>2 DEF StateMove
  <2>3. CASE k # next_id
    <3>1. actions'[k] = actions[k] /\ (k < next_id' <=> k < next_id)
      BY <2>1, <2>3 DEF TypeOK, Ids
    <3> QED BY <3>1 DEF StateMove, StateOf
  <2> QED BY <2>2, <2>3
<1>2. ASSUME NEW id \in Ids, NEW w \in Workers, WorkerStep(id, w)
      PROVE  StateMove(k)
  <2>1. CASE Claim(id, w)
    <3> DEFINE a == AsClaimed(actions[id], w)
    <3>1. StateOf(id) = "open" /\ a.state = "claimed" /\ (Fresh(a) => Fresh(actions[id]))
      BY <2>1, <1>a DEF Claim, CanClaim, AsClaimed, ActionRecord, Fresh
    <3> QED BY <2>1, <3>1, MoveOfOne DEF Claim, StateMove
  <2>2. CASE Assign(id, w)
    <3> DEFINE a == [AsClaimed(actions[id], w) EXCEPT !.assignee = w]
    <3>1. StateOf(id) = "open" /\ a.state = "claimed" /\ (Fresh(a) => Fresh(actions[id]))
      BY <2>2, <1>a DEF Assign, CanAssign, AsClaimed, ActionRecord, Fresh
    <3> QED BY <2>2, <3>1, MoveOfOne DEF Assign, StateMove
  <2>3. CASE Heartbeat(id, w) \/ RenewLease(id, w)
    <3> DEFINE beat == [actions[id] EXCEPT
                          !.steer_pending = 0,
                          !.lease_until = IF actions[id].state = "claimed"
                                               /\ ~actions[id].paused
                                          THEN Lease ELSE @]
               renewed == [actions[id] EXCEPT !.lease_until = Lease]
    <3>1. /\ beat.state = StateOf(id) /\ beat.assignee = actions[id].assignee
          /\ renewed.state = StateOf(id) /\ renewed.assignee = actions[id].assignee
          /\ Fresh(beat) \/ Fresh(renewed) => Fresh(actions[id])
      BY <1>a DEF ActionRecord, StateOf, Fresh
    <3>2. /\ Update(id, beat) \/ Update(id, renewed)
          /\ next_id' = next_id
      BY <2>3 DEF Heartbeat, RenewLease
    <3> QED BY <3>1, <3>2, MoveOfOne DEF StateMove
  <2>4. ASSUME NEW terminal \in {"done", "blocked", "exhausted"}, NEW admin \in BOOLEAN,
               CompleteAs(id, terminal, w, admin)
        PROVE  StateMove(k)
    <3> DEFINE a == [actions[id] EXCEPT !.state = terminal]
    <3>1. a.state \in TerminalStates /\ StateOf(id) \in LiveStates
      BY <2>4, <1>a DEF CompleteAs, CanComplete, Live, ActionRecord, TerminalStates
    <3> QED BY <2>4, <3>1, MoveOfOne DEF CompleteAs, StateMove
  <2> QED BY <1>2, <2>1, <2>2, <2>3, <2>4 DEF WorkerStep
<1>3. ASSUME NEW id \in Ids, PlannerStep(id)
      PROVE  StateMove(k)
  <2> DEFINE KeepsState(a) == /\ a.state = StateOf(id) /\ a.assignee = actions[id].assignee
                              /\ Fresh(a) => Fresh(actions[id])
  <2>1. ASSUME NEW deps \in SUBSET Ids, SetDependsOn(id, deps)
        PROVE  StateMove(k)
    <3>1. KeepsState([actions[id] EXCEPT !.depends_on = deps])
      BY <1>a DEF ActionRecord, StateOf, Fresh
    <3> QED BY <2>1, <3>1, MoveOfOne DEF SetDependsOn, StateMove
  <2>2. CASE Steer(id)
    <3>1. KeepsState([actions[id] EXCEPT !.steer_pending = @ + 1])
      BY <1>a DEF ActionRecord, StateOf, Fresh
    <3> QED BY <2>2, <3>1, MoveOfOne DEF Steer, StateMove
  <2>3. ASSUME NEW paused \in BOOLEAN, SetPaused(id, paused)
        PROVE  StateMove(k)
    <3>1. KeepsState([actions[id] EXCEPT
                        !.paused = paused,
                        !.lease_until = IF paused THEN @ ELSE Lease])
      BY <1>a DEF ActionRecord, StateOf, Fresh
    <3> QED BY <2>3, <3>1, MoveOfOne DEF SetPaused, StateMove
  <2>4. CASE Stop(id)
    <3>1. AsStopped(actions[id]).state = "stopped" /\ StateOf(id) \in LiveStates
      BY <2>4, <1>a DEF Stop, Live, AsStopped, ActionRecord
    <3> QED BY <2>4, <3>1, MoveOfOne DEF Stop, StateMove, TerminalStates
  <2> QED BY <1>3, <2>1, <2>2, <2>3, <2>4 DEF PlannerStep
<1>4. ASSUME NEW id \in Ids, AccountingStep(id)
      PROVE  StateMove(k)
  <2>1. CASE Requeue(id)
    <3>1. AsRequeued(actions[id]).state = "open" /\ ~Fresh(AsRequeued(actions[id]))
      <4>1. AsRequeued(actions[id]) =
              [Released(actions[id]) EXCEPT !.requeue_count = Bumped(actions[id].requeue_count),
                                            !.escalated = FALSE]
        BY <1>a DEF AsRequeued, Released, ActionRecord
      <4>2. Bumped(actions[id].requeue_count) > 0 /\ actions[id].transient_retries >= 0
        BY <1>a, BoundsAssumption DEF Bumped, ActionRecord
      <4> QED BY <1>a, <4>1, <4>2, BumpedInRange DEF Released, ActionRecord, Fresh
    <3> QED BY <2>1, <3>1, MoveOfOne DEF Requeue, CanRequeue, StateMove
  <2>2. CASE RetryTransient(id)
    <3>1. AsRetried(actions[id]).state = "open" /\ ~Fresh(AsRetried(actions[id]))
      <4>1. /\ AsRetried(actions[id]).state = "open"
            /\ AsRetried(actions[id]).requeue_count = actions[id].requeue_count
            /\ AsRetried(actions[id]).transient_retries = Bumped(actions[id].transient_retries)
        BY <1>a DEF AsRetried, Released, ActionRecord
      <4>2. Bumped(actions[id].transient_retries) > 0 /\ actions[id].requeue_count >= 0
        BY <1>a, BoundsAssumption DEF Bumped, ActionRecord
      <4> QED BY <1>a, <4>1, <4>2, BumpedInRange DEF ActionRecord, Fresh
    <3> QED BY <2>2, <3>1, MoveOfOne DEF RetryTransient, CanRetry, LiveStates, StateMove
  <2>3. CASE Escalate(id)
    <3> DEFINE a == AsEscalated(actions[id])
    <3>1. \/ StateOf(id) \in LiveStates /\ a.state = "blocked"
          \/ /\ StateOf(id) \notin LiveStates /\ a.state = StateOf(id)
             /\ Fresh(a) => Fresh(actions[id])
      BY <1>a DEF AsEscalated, ActionRecord, StateOf, Fresh
    <3>2. "blocked" \in TerminalStates /\ "claimed" \in LiveStates
      BY DEF TerminalStates, LiveStates
    <3> QED BY <2>3, <3>1, <3>2, MoveOfOne DEF Escalate, StateMove
  <2> QED BY <1>4, <2>1, <2>2, <2>3 DEF AccountingStep
<1>5. ASSUME NEW g \in GoalIds, GoalStep(g)
      PROVE  StateMove(k)
  <2>1. CASE CreateGoal(g) \/ AchieveGoal(g) \/ CloseGoal(g)
    BY <2>1 DEF CreateGoal, AchieveGoal, CloseGoal, StateMove, StateOf
  <2>2. CASE CancelRemaining(g)
    <3>1. AsCancelled(actions[k]).state = "cancelled"
      BY <1>a DEF AsCancelled, ActionRecord
    <3> QED BY <2>2, <3>1 DEF CancelRemaining, StateMove, StateOf, Live, TerminalStates
  <2> QED BY <1>5, <2>1, <2>2 DEF GoalStep
<1>6. CASE CascadeDepFailures
  <2>1. AsDepFailed(actions[k]).state = "blocked"
    BY <1>a DEF AsDepFailed, ActionRecord
  <2>2. k \in Doomed => StateOf(k) \in LiveStates
    BY DEF Doomed, Live
  <2> QED BY <1>6, <2>1, <2>2 DEF CascadeDepFailures, StateMove, StateOf, TerminalStates
<1>7. ASSUME NEW old \in SUBSET Ids, Prune(old)
      PROVE  StateMove(k)
  <2>1. CASE k \in old
    <3>1. k \in Present \ Live /\ actions'[k] = NoAction /\ next_id' = next_id
      BY <1>7, <2>1 DEF Prune, Prunable
    <3>2. StateOf(k) \in TerminalStates /\ k < next_id'
      BY <3>1, <1>a, PresentBelowNext DEF Present, Live, ActionRecord, ActionStates, StateOf
    <3> QED BY <3>1, <3>2 DEF NoAction, NewAction, StateMove
  <2>2. CASE k \notin old
    BY <1>7, <2>2 DEF Prune, StateMove, StateOf
  <2> QED BY <2>1, <2>2
<1>8. CASE Tick
  <2>1. Aged(actions[k]).state = StateOf(k)
        /\ Aged(actions[k]).assignee = actions[k].assignee
        /\ (Fresh(Aged(actions[k])) => Fresh(actions[k]))
    BY <1>a DEF Aged, ActionRecord, StateOf, Fresh
  <2> QED BY <1>8, <2>1 DEF Tick, StateMove
<1>9. CASE UNCHANGED vars
  BY <1>9 DEF vars, StateMove, StateOf
<1> QED BY <1>1, <1>2, <1>3, <1>4, <1>5, <1>6, <1>7, <1>8, <1>9 DEF Next

\* The phase of an action, spelled out.
LEMMA PhaseOfState ==
    ASSUME NEW id \in Ids, StateOf(id) \in ActionStates \cup {"absent"}
    PROVE  /\ StateOf(id) = "absent" =>
                PhaseOf(id) = IF id < next_id THEN "dropped" ELSE "unborn"
           /\ StateOf(id) = "open" => PhaseOf(id) = "queued"
           /\ StateOf(id) = "claimed" => PhaseOf(id) = "held"
           /\ StateOf(id) \in {"blocked", "exhausted"} => PhaseOf(id) = "failed"
           /\ StateOf(id) \in {"done", "cancelled", "stopped"} => PhaseOf(id) = StateOf(id)
BY DEF PhaseOf, ActionStates, LiveStates, TerminalStates
\* The phase of an action and its holder are what ActionLifecycle says they are.
PhasesTyped ==
    \A id \in Ids : /\ PhaseOf(id) \in Lifecycle!Phases
                    /\ HolderOf(id) \in Workers \cup {None}
                    /\ PhaseOf(id) = "held" <=> HolderOf(id) \in Workers

LEMMA LifecycleTypes == TypeOK /\ OwnershipConsistent => PhasesTyped
<1> SUFFICES ASSUME TypeOK, OwnershipConsistent, NEW id \in Ids
             PROVE  /\ PhaseOf(id) \in Lifecycle!Phases
                    /\ HolderOf(id) \in Workers \cup {None}
                    /\ PhaseOf(id) = "held" <=> HolderOf(id) \in Workers
  BY DEF PhasesTyped
<1>1. actions[id] \in ActionRecord /\ StateOf(id) \in ActionStates \cup {"absent"}
  BY DEF TypeOK, ActionRecord, StateOf
<1>2. StateOf(id) = "claimed" => actions[id].assignee \in Workers
  BY <1>1 DEF OwnershipConsistent, ActionRecord, StateOf
<1> QED BY <1>1, <1>2, PhaseOfState, NoneAssumption DEF HolderOf, Lifecycle!Phases,
           Lifecycle!Final, ActionStates, LiveStates, TerminalStates

\* The move of an action is a step of its life.
LEMMA MoveIsLifeStep ==
    ASSUME TypeOK, TypeOK', PhasesTyped, PhasesTyped', NEW id \in Ids, StateMove(id)
    PROVE  Lifecycle!Step(PhaseOf(id), HolderOf(id), PhaseOf(id)', HolderOf(id)')
<1> DEFINE p == PhaseOf(id)
           h == HolderOf(id)
           s == StateOf(id)
<1>1. s \in ActionStates \cup {"absent"} /\ s' \in ActionStates \cup {"absent"}
  BY DEF TypeOK, ActionRecord, StateOf
<1>2. /\ s = "absent" => p = IF id < next_id THEN "dropped" ELSE "unborn"
      /\ s = "open" => p = "queued"
      /\ s = "claimed" => p = "held"
      /\ s \in {"blocked", "exhausted"} => p = "failed"
      /\ s \in {"done", "cancelled", "stopped"} => p = s
  BY <1>1, PhaseOfState
<1>3. /\ s' = "absent" => p' = IF id < next_id' THEN "dropped" ELSE "unborn"
      /\ s' = "open" => p' = "queued"
      /\ s' = "claimed" => p' = "held"
      /\ s' \in {"blocked", "exhausted"} => p' = "failed"
      /\ s' \in {"done", "cancelled", "stopped"} => p' = s'
  BY <1>1 DEF PhaseOf, ActionStates, LiveStates, TerminalStates
<1>4. /\ p' = "held" => h' \in Workers
      /\ p' # "held" => h' = None
      /\ p # "held" => h = None
  BY DEF PhasesTyped
<1>5. s = "claimed" /\ s' = "claimed" /\ actions'[id].assignee = actions[id].assignee
        => h' = h
  BY DEF HolderOf, StateOf
<1>6. next_id \in Int /\ next_id' \in Int /\ s' = actions'[id].state
      /\ (id >= next_id => ~(id < next_id))
  BY DEF TypeOK, StateOf, Ids
<1>a. CASE /\ s' = s
           /\ s = "claimed" => actions'[id].assignee = actions[id].assignee
           /\ s = "absent" => (id < next_id' <=> id < next_id)
  <2>1. p' = p
    BY <1>a, <1>1, <1>2, <1>3 DEF ActionStates, LiveStates, TerminalStates
  <2>2. h' = h
    BY <1>a, <2>1, <1>1, <1>2, <1>4, <1>5 DEF HolderOf
  <2> QED BY <2>1, <2>2 DEF Lifecycle!Step, Lifecycle!Keep
<1>b. CASE s = "absent" /\ s' = "open" /\ id = next_id
  BY <1>b, <1>2, <1>3, <1>4, <1>6 DEF Lifecycle!Step, Lifecycle!Submit
<1>c. CASE s = "open" /\ s' = "claimed"
  BY <1>c, <1>2, <1>3, <1>4 DEF Lifecycle!Step, Lifecycle!Take
<1>d. CASE s \in {"claimed", "blocked", "exhausted"} /\ s' = "open"
  BY <1>d, <1>2, <1>3, <1>4 DEF Lifecycle!Step, Lifecycle!Release
<1>e. CASE s \in LiveStates /\ s' \in TerminalStates
  <2>1. p \in {"queued", "held"}
    BY <1>e, <1>2 DEF LiveStates
  <2>2. p' \in {"failed"} \cup Lifecycle!Final
    BY <1>e, <1>3 DEF TerminalStates, Lifecycle!Final
  <2>3. h' = None
    BY <2>2, <1>4 DEF Lifecycle!Final
  <2> QED BY <2>1, <2>2, <2>3 DEF Lifecycle!Step, Lifecycle!Fail, Lifecycle!Finish
<1>f. CASE s \in TerminalStates /\ s' = "absent" /\ id < next_id'
  <2>1. p \in Lifecycle!Final \cup {"failed"}
    BY <1>f, <1>2 DEF TerminalStates, Lifecycle!Final
  <2>2. p' = "dropped" /\ h' = None
    BY <1>f, <1>3, <1>4
  <2> QED BY <2>1, <2>2 DEF Lifecycle!Step, Lifecycle!Drop
<1> QED BY <1>a, <1>b, <1>c, <1>d, <1>e, <1>f, <1>6 DEF StateMove

LEMMA LifecycleInit == Init => Lifecycle!Init
<1> SUFFICES ASSUME Init PROVE Lifecycle!Init
  OBVIOUS
<1>1. ASSUME NEW id \in Ids PROVE StateOf(id) = "absent" /\ ~(id < next_id)
  BY <1>1 DEF Init, StateOf, NoAction, NewAction, Ids
<1>2. ASSUME NEW id \in Ids PROVE PhaseOf(id) = "unborn" /\ HolderOf(id) = None
  BY <1>1 DEF PhaseOf, HolderOf
<1> QED BY <1>2 DEF Lifecycle!Init

LEMMA LifecycleStep ==
    TypeOK /\ TypeOK' /\ PhasesTyped /\ PhasesTyped' /\ [Next]_vars
        => [Lifecycle!Next]_(Lifecycle!vars)
<1> SUFFICES ASSUME TypeOK, TypeOK', PhasesTyped, PhasesTyped', [Next]_vars
             PROVE  Lifecycle!Next
  OBVIOUS
<1>1. ASSUME NEW id \in Ids
      PROVE  Lifecycle!Step(PhaseOf(id), HolderOf(id), PhaseOf(id)', HolderOf(id)')
  BY StatesMove, MoveIsLifeStep
<1> QED BY <1>1 DEF PhasesTyped, Lifecycle!Next

\* The frontier implements the life cycle of an action: for any number of
\* actions and workers, no method lets two workers hold one action, hands it on
\* outside the queue, revives what is done, cancelled or stopped, or reuses an
\* id.  A step maps to a step of every action at once; OwnershipConsistent is
\* needed because the holder is read from the assignee.
THEOREM FrontierImplementsLifecycle == Spec => ImplementsLifecycle
<1>1. Init => TypeOK /\ OwnershipConsistent
  BY TypeInit, OwnershipInit
<1>2. TypeOK /\ OwnershipConsistent /\ [Next]_vars => (TypeOK /\ OwnershipConsistent)'
  BY TypeStep, OwnershipStep
<1> QED BY <1>1, <1>2, LifecycleTypes, LifecycleInit, LifecycleStep, PTL
        DEF Spec, ImplementsLifecycle, Lifecycle!Spec
----------------------------------------------------------------------------
(* The dependency graph stays acyclic *)

\* Whatever an action in the table waits for was handed out before: what is
\* enqueued next cannot be upstream of anything yet.
DepsHandedOut ==
    \A id \in Present : \A d \in actions[id].depends_on : d < next_id

\* S holds the dependencies of all its members, after the step.
ClosedNext(S) ==
    \A d \in S : actions'[d].state # "absent" => actions'[d].depends_on \subseteq S

\* Upstream(deps) holds deps, is closed under dependencies, and is the least such.
LEMMA UpstreamClosed ==
    ASSUME TypeOK, NEW deps \in SUBSET Ids
    PROVE  /\ Upstream(deps) \subseteq Ids
           /\ HoldsUpstream(Upstream(deps), deps)
<1>1. Upstream(deps) \subseteq Ids
  BY DEF Upstream
<1>2. deps \subseteq Upstream(deps)
  BY DEF Upstream, HoldsUpstream
<1>3. ASSUME NEW d \in Upstream(deps) \cap Present
      PROVE  actions[d].depends_on \subseteq Upstream(deps)
  <2>1. actions[d].depends_on \subseteq Ids
    BY <1>3, PresentBelowNext DEF ActionRecord
  <2>2. ASSUME NEW S \in SUBSET Ids, HoldsUpstream(S, deps)
        PROVE  actions[d].depends_on \subseteq S
    BY <1>3, <2>2 DEF Upstream, HoldsUpstream
  <2> QED BY <2>1, <2>2 DEF Upstream
<1> QED BY <1>1, <1>2, <1>3 DEF HoldsUpstream

LEMMA UpstreamLeast ==
    ASSUME NEW deps, NEW S \in SUBSET Ids, HoldsUpstream(S, deps)
    PROVE  Upstream(deps) \subseteq S
BY DEF Upstream

\* A closed set around each action that leaves it out shows that no action is
\* upstream of itself.
LEMMA ClosedSetsCut ==
    ASSUME \A id \in Ids : actions'[id].state # "absent" =>
               \E S \in SUBSET Ids : /\ id \notin S
                                     /\ actions'[id].depends_on \subseteq S
                                     /\ ClosedNext(S)
    PROVE  NoDependencyCycle'
BY DEF NoDependencyCycle, Upstream, HoldsUpstream, Present, StateOf, ClosedNext

\* A method that adds no dependency makes no cycle.
LEMMA NoNewEdges ==
    ASSUME TypeOK, NoDependencyCycle, DepsHandedOut, next_id' = next_id,
           \A id \in Ids : actions'[id].state # "absent" =>
               id \in Present /\ actions'[id].depends_on = actions[id].depends_on
    PROVE  NoDependencyCycle' /\ DepsHandedOut'
<1>1. ASSUME NEW id \in Ids, actions'[id].state # "absent"
      PROVE  \E S \in SUBSET Ids : /\ id \notin S
                                   /\ actions'[id].depends_on \subseteq S
                                   /\ ClosedNext(S)
  <2> DEFINE S == Upstream(actions[id].depends_on)
  <2>1. id \in Present /\ actions[id].depends_on \in SUBSET Ids
    BY <1>1 DEF TypeOK, ActionRecord
  <2>2. S \subseteq Ids /\ HoldsUpstream(S, actions[id].depends_on) /\ id \notin S
    BY <2>1, UpstreamClosed DEF NoDependencyCycle
  <2> HIDE DEF S
  <2>3. ClosedNext(S) /\ actions'[id].depends_on \subseteq S
    BY <1>1, <2>2 DEF HoldsUpstream, ClosedNext
  <2> QED BY <2>2, <2>3
<1>2. DepsHandedOut'
  BY DEF DepsHandedOut, Present, StateOf
<1> QED BY <1>1, <1>2, ClosedSetsCut

\* Enqueue: the new action is upstream of nothing yet.
LEMMA EnqueueMakesNoCycle ==
    ASSUME TypeOK, NoDependencyCycle, DepsHandedOut,
           NEW deps \in SUBSET Ids, NEW goal, Enqueue(deps, goal)
    PROVE  NoDependencyCycle' /\ DepsHandedOut'
<1> DEFINE below == {k \in Ids : k < next_id}
<1>1. /\ next_id \in Ids /\ next_id' = next_id + 1 /\ ValidDeps(next_id, deps)
      /\ \A k \in Ids : actions'[k] = IF k = next_id THEN NewAction(deps, goal)
                                      ELSE actions[k]
  BY DEF Enqueue, Update, TypeOK
<1>2. deps \subseteq Present /\ next_id \notin Upstream(deps) /\ next_id \notin below
  BY <1>1 DEF ValidDeps, Ids
<1>3. \A d \in Present : d \in below /\ actions[d].depends_on \subseteq below
  BY PresentBelowNext DEF DepsHandedOut, ActionRecord
<1>4. NewAction(deps, goal).depends_on = deps
  BY DEF NewAction
<1>5. ASSUME NEW S \in SUBSET Ids, NEW seed, HoldsUpstream(S, seed), next_id \notin S
      PROVE  ClosedNext(S)
  BY <1>1, <1>5 DEF HoldsUpstream, ClosedNext, Present, StateOf
<1>6. ASSUME NEW id \in Ids, actions'[id].state # "absent"
      PROVE  \E S \in SUBSET Ids : /\ id \notin S
                                   /\ actions'[id].depends_on \subseteq S
                                   /\ ClosedNext(S)
  <2>1. CASE id = next_id
    <3>1. Upstream(deps) \in SUBSET Ids /\ HoldsUpstream(Upstream(deps), deps)
      BY UpstreamClosed
    <3>2. ClosedNext(Upstream(deps)) /\ actions'[id].depends_on = deps
      BY <1>1, <1>2, <1>4, <1>5, <2>1, <3>1
    <3> QED BY <1>2, <2>1, <3>1, <3>2 DEF HoldsUpstream
  <2>2. CASE id # next_id
    <3> DEFINE old == actions[id].depends_on
    <3>1. id \in Present /\ actions'[id].depends_on = old
      BY <1>1, <1>6, <2>2 DEF Present, StateOf
    <3>2. old \in SUBSET Ids
      BY DEF TypeOK, ActionRecord
    <3>3. Upstream(old) \in SUBSET Ids /\ HoldsUpstream(Upstream(old), old)
      BY <3>2, UpstreamClosed
    <3>4. HoldsUpstream(below, old)
      BY <1>3, <3>1 DEF HoldsUpstream
    <3>5. next_id \notin Upstream(old)
      BY <1>2, <3>4, UpstreamLeast
    <3>6. ClosedNext(Upstream(old)) /\ id \notin Upstream(old)
      BY <1>5, <3>1, <3>3, <3>5 DEF NoDependencyCycle
    <3> QED BY <3>1, <3>3, <3>6 DEF HoldsUpstream
  <2> QED BY <2>1, <2>2
<1>7. DepsHandedOut'
  <2>1. next_id \in Int /\ \A k \in Ids : k \in Int
    BY DEF TypeOK, Ids
  <2>2. ASSUME NEW id \in Ids, actions'[id].state # "absent", NEW d \in actions'[id].depends_on
        PROVE  d < next_id'
    <3>1. d \in below
      BY <1>1, <1>2, <1>3, <1>4, <2>2 DEF Present, StateOf
    <3> QED BY <1>1, <2>1, <3>1
  <2> QED BY <2>2 DEF DepsHandedOut, Present, StateOf
<1> QED BY <1>6, <1>7, ClosedSetsCut

\* set_depends_on: an action upstream of what it is to wait for is refused, and
\* so is every one that reaches it.
LEMMA SetDependsOnMakesNoCycle ==
    ASSUME TypeOK, NoDependencyCycle, DepsHandedOut,
           NEW it \in Ids, NEW deps \in SUBSET Ids, SetDependsOn(it, deps)
    PROVE  NoDependencyCycle' /\ DepsHandedOut'
<1> DEFINE U == Upstream(deps)
<1>1. /\ it \in Present /\ next_id' = next_id /\ deps \subseteq Present /\ it \notin U
      /\ \A k \in Ids : actions'[k] = IF k = it THEN [actions[it] EXCEPT !.depends_on = deps]
                                      ELSE actions[k]
  BY DEF SetDependsOn, ValidDeps, Update, TypeOK, Present
<1>2. /\ U \subseteq Ids /\ deps \subseteq U
      /\ \A d \in U \cap Present : actions[d].depends_on \subseteq U
  BY UpstreamClosed DEF HoldsUpstream
<1>3. \A k \in Ids : actions'[k].state = StateOf(k)
                     /\ actions'[k].depends_on = IF k = it THEN deps ELSE actions[k].depends_on
  BY <1>1 DEF TypeOK, ActionRecord, StateOf
<1> HIDE DEF U
<1>4. ASSUME NEW id \in Ids, actions'[id].state # "absent"
      PROVE  \E S \in SUBSET Ids : /\ id \notin S
                                   /\ actions'[id].depends_on \subseteq S
                                   /\ ClosedNext(S)
  <2>1. CASE id = it
    <3>1. ClosedNext(U)
      BY <1>1, <1>2, <1>3 DEF ClosedNext, Present, StateOf
    <3> QED BY <1>1, <1>2, <1>3, <2>1, <3>1
  <2>2. CASE id # it
    <3> DEFINE old == actions[id].depends_on
               V   == Upstream(old)
    <3>1. id \in Present /\ actions'[id].depends_on = old /\ old \in SUBSET Ids
      BY <1>3, <1>4, <2>2 DEF Present, StateOf, TypeOK, ActionRecord
    <3>2. /\ V \subseteq Ids /\ old \subseteq V /\ id \notin V
          /\ \A d \in V \cap Present : actions[d].depends_on \subseteq V
      BY <3>1, UpstreamClosed DEF HoldsUpstream, NoDependencyCycle
    <3>3. id \in U => V \subseteq U
      BY <1>2, <3>1, UpstreamLeast DEF HoldsUpstream
    <3> HIDE DEF V
    <3>4. CASE it \notin V
      <4>1. ClosedNext(V)
        BY <1>3, <3>2, <3>4 DEF ClosedNext, Present, StateOf
      <4> QED BY <3>1, <3>2, <4>1
    <3>5. CASE it \in V
      <4>1. id \notin U
        BY <1>1, <3>3, <3>5
      <4>2. ClosedNext(V \cup U)
        BY <1>2, <1>3, <3>2 DEF ClosedNext, Present, StateOf
      <4>3. V \cup U \in SUBSET Ids /\ id \notin V \cup U /\ old \subseteq V \cup U
        BY <1>2, <3>2, <4>1
      <4> QED BY <3>1, <4>2, <4>3
    <3> QED BY <3>4, <3>5
  <2> QED BY <2>1, <2>2
<1>5. DepsHandedOut'
  BY <1>1, <1>3, PresentBelowNext DEF DepsHandedOut, Present, StateOf
<1> QED BY <1>4, <1>5, ClosedSetsCut

LEMMA CycleInit == Init => NoDependencyCycle /\ DepsHandedOut
BY DEF Init, NoDependencyCycle, DepsHandedOut, Present, StateOf, NoAction, NewAction

LEMMA CycleStep ==
    TypeOK /\ NoDependencyCycle /\ DepsHandedOut /\ [Next]_vars
        => (NoDependencyCycle /\ DepsHandedOut)'
<1> SUFFICES ASSUME TypeOK, NoDependencyCycle, DepsHandedOut, [Next]_vars
             PROVE  NoDependencyCycle' /\ DepsHandedOut'
  OBVIOUS
<1> DEFINE SameDeps(id, a) == a.depends_on = actions[id].depends_on
<1>a. \A id \in Ids : actions[id] \in ActionRecord
  BY DEF TypeOK
<1>b. ASSUME NEW id \in Present, NEW a, Update(id, a), SameDeps(id, a), next_id' = next_id
      PROVE  NoDependencyCycle' /\ DepsHandedOut'
  <2>1. \A k \in Ids : actions'[k] = IF k = id THEN a ELSE actions[k]
    BY <1>b DEF Update, TypeOK, Present
  <2> QED BY <1>b, <2>1, NoNewEdges DEF Present, StateOf
<1>1. ASSUME NEW deps \in SUBSET Ids, NEW goal \in GoalIds \cup {NoGoal},
             Enqueue(deps, goal)
      PROVE  NoDependencyCycle' /\ DepsHandedOut'
  BY <1>1, EnqueueMakesNoCycle
<1>2. ASSUME NEW id \in Ids, NEW w \in Workers, WorkerStep(id, w)
      PROVE  NoDependencyCycle' /\ DepsHandedOut'
  <2>1. CASE Claim(id, w)
    <3>1. SameDeps(id, AsClaimed(actions[id], w)) /\ id \in Present
      BY <2>1, <1>a DEF AsClaimed, ActionRecord, Claim, CanClaim, Present
    <3> QED BY <2>1, <3>1, <1>b DEF Claim
  <2>2. CASE Assign(id, w)
    <3>1. SameDeps(id, [AsClaimed(actions[id], w) EXCEPT !.assignee = w]) /\ id \in Present
      BY <2>2, <1>a DEF AsClaimed, ActionRecord, Assign, CanAssign, Present
    <3> QED BY <2>2, <3>1, <1>b DEF Assign
  <2>3. CASE Heartbeat(id, w) \/ RenewLease(id, w)
    <3> DEFINE beat == [actions[id] EXCEPT
                          !.steer_pending = 0,
                          !.lease_until = IF actions[id].state = "claimed"
                                               /\ ~actions[id].paused
                                          THEN Lease ELSE @]
               renewed == [actions[id] EXCEPT !.lease_until = Lease]
    <3>1. SameDeps(id, beat) /\ SameDeps(id, renewed)
      BY <1>a DEF ActionRecord
    <3>2. /\ id \in Present /\ next_id' = next_id
          /\ Update(id, beat) \/ Update(id, renewed)
      BY <2>3 DEF Heartbeat, RenewLease, NonFailureStops, Present, StateOf
    <3> QED BY <3>1, <3>2, <1>b
  <2>4. ASSUME NEW terminal \in {"done", "blocked", "exhausted"}, NEW admin \in BOOLEAN,
               CompleteAs(id, terminal, w, admin)
        PROVE  NoDependencyCycle' /\ DepsHandedOut'
    <3>1. SameDeps(id, [actions[id] EXCEPT !.state = terminal]) /\ id \in Present
      BY <2>4, <1>a, StatesArePresent DEF ActionRecord, CompleteAs, CanComplete
    <3> QED BY <2>4, <3>1, <1>b DEF CompleteAs
  <2> QED BY <1>2, <2>1, <2>2, <2>3, <2>4 DEF WorkerStep
<1>3. ASSUME NEW id \in Ids, PlannerStep(id)
      PROVE  NoDependencyCycle' /\ DepsHandedOut'
  <2>1. ASSUME NEW deps \in SUBSET Ids, SetDependsOn(id, deps)
        PROVE  NoDependencyCycle' /\ DepsHandedOut'
    BY <2>1, SetDependsOnMakesNoCycle
  <2>2. CASE Steer(id)
    <3>1. SameDeps(id, [actions[id] EXCEPT !.steer_pending = @ + 1]) /\ id \in Present
      BY <2>2, <1>a DEF ActionRecord, Steer, Present
    <3> QED BY <2>2, <3>1, <1>b DEF Steer
  <2>3. ASSUME NEW paused \in BOOLEAN, SetPaused(id, paused)
        PROVE  NoDependencyCycle' /\ DepsHandedOut'
    <3>1. /\ id \in Present
          /\ SameDeps(id, [actions[id] EXCEPT
                             !.paused = paused,
                             !.lease_until = IF paused THEN @ ELSE Lease])
      BY <2>3, <1>a DEF ActionRecord, SetPaused, Present
    <3> QED BY <2>3, <3>1, <1>b DEF SetPaused
  <2>4. CASE Stop(id)
    <3>1. SameDeps(id, AsStopped(actions[id])) /\ id \in Present
      BY <2>4, <1>a, StatesArePresent DEF ActionRecord, AsStopped, Stop
    <3> QED BY <2>4, <3>1, <1>b DEF Stop
  <2> QED BY <1>3, <2>1, <2>2, <2>3, <2>4 DEF PlannerStep
<1>4. ASSUME NEW id \in Ids, AccountingStep(id)
      PROVE  NoDependencyCycle' /\ DepsHandedOut'
  <2>1. /\ SameDeps(id, AsRequeued(actions[id])) /\ SameDeps(id, AsRetried(actions[id]))
        /\ SameDeps(id, AsEscalated(actions[id]))
    BY <1>a DEF AsRequeued, AsRetried, AsEscalated, Released, ActionRecord
  <2>2. id \in Present
    BY <1>4 DEF AccountingStep, Requeue, CanRequeue, RetryTransient, CanRetry, LiveStates,
       Escalate, Present
  <2> QED BY <1>4, <2>1, <2>2, <1>b DEF AccountingStep, Requeue, RetryTransient, Escalate
<1>5. ASSUME NEW g \in GoalIds, GoalStep(g)
      PROVE  NoDependencyCycle' /\ DepsHandedOut'
  <2>1. CASE CreateGoal(g) \/ AchieveGoal(g) \/ CloseGoal(g)
    BY <2>1, NoNewEdges DEF CreateGoal, AchieveGoal, CloseGoal, Present, StateOf
  <2>2. CASE CancelRemaining(g)
    <3>1. \A id \in Ids : AsCancelled(actions[id]).depends_on = actions[id].depends_on
      BY <1>a DEF AsCancelled, ActionRecord
    <3> QED BY <2>2, <3>1, StatesArePresent, NoNewEdges DEF CancelRemaining, Present, StateOf
  <2> QED BY <1>5, <2>1, <2>2 DEF GoalStep
<1>6. CASE CascadeDepFailures
  <2>1. \A id \in Ids : AsDepFailed(actions[id]).depends_on = actions[id].depends_on
    BY <1>a DEF AsDepFailed, ActionRecord
  <2>2. \A id \in Doomed : id \in Present
    BY StatesArePresent DEF Doomed, Live
  <2> QED BY <1>6, <2>1, <2>2, NoNewEdges DEF CascadeDepFailures, Present, StateOf
<1>7. ASSUME NEW old \in SUBSET Ids, Prune(old)
      PROVE  NoDependencyCycle' /\ DepsHandedOut'
  <2>1. NoAction.state = "absent"
    BY DEF NoAction, NewAction
  <2> QED BY <1>7, <2>1, NoNewEdges DEF Prune, Present, StateOf
<1>8. CASE Tick
  <2>1. \A id \in Ids : /\ Aged(actions[id]).state = actions[id].state
                        /\ Aged(actions[id]).depends_on = actions[id].depends_on
    BY <1>a DEF Aged, ActionRecord
  <2> QED BY <1>8, <2>1, NoNewEdges DEF Tick, Present, StateOf
<1>9. CASE UNCHANGED vars
  BY <1>9, NoNewEdges DEF vars, Present, StateOf
<1> QED BY <1>1, <1>2, <1>3, <1>4, <1>5, <1>6, <1>7, <1>8, <1>9 DEF Next

\* No action ever waits for itself, directly or through others, so a chain of
\* waiting actions always has one that waits for nobody.  Enqueue never closes a
\* cycle only because nothing can depend on an id not handed out yet:
\* DepsHandedOut is what makes the invariant inductive.  (validate_deps,
\* enqueue, set_depends_on.)
THEOREM DependenciesAcyclic == Spec => []NoDependencyCycle
<1>1. Init => TypeOK /\ NoDependencyCycle /\ DepsHandedOut
  BY TypeInit, CycleInit
<1>2. TypeOK /\ NoDependencyCycle /\ DepsHandedOut /\ [Next]_vars
        => (TypeOK /\ NoDependencyCycle /\ DepsHandedOut)'
  BY TypeStep, CycleStep
<1> QED BY <1>1, <1>2, PTL DEF Spec
----------------------------------------------------------------------------
(* The cap on live actions *)

\* The live actions that were never put back: only enqueue adds to them.
FreshLive == {id \in Live : Fresh(actions[id])}

\* enqueue enforces the cap on these; what is put back comes on top.
FreshWithinCap == Cardinality(FreshLive) <= MaxOpen

\* Sets of ids are finite.
LEMMA IdsFinite ==
    ASSUME NEW S \in SUBSET Ids
    PROVE  IsFiniteSet(S) /\ Cardinality(S) \in Nat
<1>1. IsFiniteSet(Ids)
  BY FS_Interval, BoundsAssumption DEF Ids
<1> QED BY <1>1, FS_Subset, FS_CardinalityType

\* A smaller set of ids has no more members.
LEMMA FewerIds ==
    ASSUME NEW S \in SUBSET Ids, NEW T \in SUBSET S
    PROVE  Cardinality(T) <= Cardinality(S)
BY IdsFinite, FS_Subset

LEMMA CapInit == Init => FreshWithinCap
<1> SUFFICES ASSUME Init PROVE FreshWithinCap
  OBVIOUS
<1>1. FreshLive = {}
  BY DEF Init, FreshLive, Live, LiveStates, StateOf, NoAction, NewAction
<1> QED BY <1>1, FS_EmptySet, BoundsAssumption DEF FreshWithinCap

LEMMA CapStep == TypeOK /\ FreshWithinCap /\ [Next]_vars => FreshWithinCap'
<1> SUFFICES ASSUME TypeOK, FreshWithinCap, [Next]_vars
             PROVE  FreshWithinCap'
  OBVIOUS
<1> DEFINE before == FreshLive
           after  == FreshLive'
<1>1. before \in SUBSET Ids /\ after \in SUBSET Ids /\ Live \in SUBSET Ids
  BY DEF FreshLive, Live
<1>2. /\ "absent" \notin LiveStates /\ "open" \in LiveStates /\ "claimed" \in LiveStates
      /\ LiveStates \cap TerminalStates = {}
  BY DEF LiveStates, TerminalStates
<1>3. ASSUME NEW id \in after
      PROVE  id \in before \/ (StateOf(id) = "absent" /\ id = next_id /\ HasRoom)
  <2>1. id \in Ids /\ actions'[id].state \in LiveStates /\ Fresh(actions'[id])
    BY <1>3 DEF FreshLive, Live, StateOf, Fresh
  <2>2. StateMove(id)
    BY <2>1, StatesMove
  <2> QED BY <1>2, <2>1, <2>2 DEF StateMove, FreshLive, Live
<1>4. CASE after \subseteq before
  <2>1. Cardinality(after) <= Cardinality(before)
    BY <1>1, <1>4, FewerIds
  <2> HIDE DEF before, after
  <2>2. Cardinality(before) \in Nat /\ Cardinality(after) \in Nat
    BY <1>1, IdsFinite
  <2>3. Cardinality(before) <= MaxOpen
    BY DEF FreshWithinCap, before
  <2>4. Cardinality(after) <= MaxOpen
    BY <2>1, <2>2, <2>3, BoundsAssumption
  <2> QED BY <2>4 DEF FreshWithinCap, after
<1>5. CASE ~(after \subseteq before)
  <2> DEFINE n == next_id
  <2>1. HasRoom /\ n \in Ids /\ n \notin Live /\ after \subseteq Live \cup {n}
    BY <1>1, <1>2, <1>3, <1>5 DEF FreshLive, Live
  <2> HIDE DEF n, before, after
  <2>2. IsFiniteSet(Live) /\ Cardinality(Live) \in Nat
    BY <1>1, IdsFinite
  <2>3. Cardinality(Live \cup {n}) = Cardinality(Live) + 1
    BY <2>1, <2>2, FS_AddElement
  <2>4. Cardinality(after) <= Cardinality(Live \cup {n})
    BY <1>1, <2>1, FewerIds
  <2>5. Cardinality(Live) < MaxOpen
    BY <2>1 DEF HasRoom
  <2>6. Cardinality(after) \in Nat
    BY <1>1, IdsFinite
  <2>7. Cardinality(after) <= MaxOpen
    BY <2>2, <2>3, <2>4, <2>5, <2>6, BoundsAssumption
  <2> QED BY <2>7 DEF FreshWithinCap, after
<1> QED BY <1>4, <1>5

\* The cap holds for the live actions that were never put back, whatever is
\* requeued, retried and escalated around them.  (enqueue.)
THEOREM FreshActionsWithinCap == Spec => []FreshWithinCap
<1>1. Init => TypeOK /\ FreshWithinCap
  BY TypeInit, CapInit
<1>2. TypeOK /\ FreshWithinCap /\ [Next]_vars => (TypeOK /\ FreshWithinCap)'
  BY TypeStep, CapStep
<1> QED BY <1>1, <1>2, PTL DEF Spec
=============================================================================
