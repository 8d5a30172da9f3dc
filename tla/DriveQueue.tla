------------------------------ MODULE DriveQueue ------------------------------
(***************************************************************************)
(* The queue of drive signals: what the personality wants done, waiting    *)
(* for someone to do it and acknowledge it.                                *)
(*                                                                         *)
(* The signals and the policy learned from their outcomes live in memory   *)
(* under a lock each; every change is followed by a save.  A save takes    *)
(* drive_save_gate and then goes through the database in separate steps:   *)
(* archive, snapshot, full-table write, policy.  Producers test the queue  *)
(* and enqueue under two locks, and an acknowledgement reads the signal    *)
(* before it settles it.  The process may crash between any two steps and  *)
(* starts again from what the database holds.                              *)
(***************************************************************************)
EXTENDS Integers, FiniteSets, Functions, SequencesExt

CONSTANTS
    Callers,           \* threads of the process: handlers, the tick, the planner
    Fingerprints,      \* an intent with the evidence it is about
    Evidence,          \* fingerprint -> ids of the memories it cites
    Mentions,          \* fingerprints whose text says Executed, Rejected or Expired
    MAX_QUEUE_SIGNALS, \* 2000 in the code
    MAX_RETRIES,       \* 3 in the code
    MaxId,             \* bound: signals born
    MaxAcks,           \* bound: acknowledgements
    MaxCrashes,        \* bound: crashes
    MaxFaults          \* bound: reads and writes of the database that fail

ASSUME DriveAssumption ==
    /\ IsFiniteSet(Callers) /\ Mentions \subseteq Fingerprints
    /\ DOMAIN Evidence = Fingerprints /\ \A fp \in Fingerprints : Evidence[fp] \subseteq Nat
    /\ {MAX_QUEUE_SIGNALS, MAX_RETRIES, MaxId, MaxAcks, MaxCrashes, MaxFaults} \subseteq Nat
    /\ "free" \notin Callers

VARIABLES
    queue,      \* DriveQueue.signals: id -> signal
    next_id,
    policy,     \* fingerprint -> [ok, bad], the outcomes learned
    disk,       \* the tables drive_signals and drive_signals_archive, and the policy
    gate,       \* drive_save_gate: the caller that saves, or "free"
    calls,      \* caller -> the operation it is in
    up,         \* the process runs
    rows_aged,  \* the stored rows were last written over seven days ago
    ledger,     \* what callers were told, once their save had worked
    misread,    \* some start-up failed to read what was stored
    spent       \* [acks, crashes, faults] so far (for the bounds only)

memoryVars == <<queue, next_id, policy>>
vars == <<queue, next_id, policy, disk, gate, calls, up, rows_aged, ledger, misread, spent>>

Statuses == {"pending", "executed", "rejected", "expired"}
Signal   == [fp : Fingerprints, status : Statuses, retries : Nat]
Settled(signal) == signal.status \in {"executed", "rejected", "expired"}
SettledIn(signals) == {id \in DOMAIN signals : Settled(signals[id])}
LiveIn(signals)    == DOMAIN signals \ SettledIn(signals)

NoOutcomes == [fp \in Fingerprints |-> [ok |-> 0, bad |-> 0]]
Empty      == [id \in {} |-> 0]
Idle       == [pc |-> "idle"]
ArchivedIds == {entry.id : entry \in disk.archive}

At(c, pc) == up /\ calls[c].pc = pc
Goto(c, pc) == calls' = [calls EXCEPT ![c].pc = pc]
Finish(c)   == calls' = [calls EXCEPT ![c] = Idle]
\* A step of the database that goes wrong.
Fault == spent.faults < MaxFaults /\ spent' = [spent EXCEPT !.faults = @ + 1]
-----------------------------------------------------------------------------
(* The queue and the policy *)

LiveFingerprint(fp) == \E id \in LiveIn(queue) : queue[id].fp = fp
EvidenceDone(fp) ==
    \E id \in DOMAIN queue : /\ queue[id].status \in {"executed", "rejected"}
                             /\ Evidence[queue[id].fp] \cap Evidence[fp] # {}
ShouldEmit(fp) ==
    /\ ~(policy[fp].ok >= 1 /\ Evidence[fp] # {})
    /\ ~(policy[fp].bad >= 3 /\ policy[fp].bad > 2 * policy[fp].ok)
\* Mutant of ShouldBirth: what waits in the queue is not looked at.
ShouldBirthAgain(fp) == ~EvidenceDone(fp) /\ ShouldEmit(fp)

ShouldBirth(fp) == ~LiveFingerprint(fp) /\ ~EvidenceDone(fp) /\ ShouldEmit(fp)

\* The first id at or above next_id that no signal of the queue has.
NewId == CHOOSE id \in next_id..(next_id + Cardinality(DOMAIN queue)) :
            id \notin DOMAIN queue /\ next_id..(id - 1) \subseteq DOMAIN queue
Enqueue(fp) ==
    /\ Cardinality(DOMAIN queue) < MAX_QUEUE_SIGNALS /\ NewId <= MaxId
    /\ queue' = [id \in DOMAIN queue \cup {NewId} |->
                    IF id = NewId THEN [fp |-> fp, status |-> "pending", retries |-> 0]
                    ELSE queue[id]]
    /\ next_id' = NewId + 1

Expire(signals, ids) ==
    [id \in DOMAIN signals |->
        IF id \in ids /\ ~Settled(signals[id]) THEN [signals[id] EXCEPT !.status = "expired"]
        ELSE signals[id]]

\* Mutant of Consumed: one retry too many.
ConsumedOffByOne(signal, executed) ==
    [signal EXCEPT
        !.retries = IF executed THEN @ ELSE @ + 1,
        !.status = CASE executed -> "executed"
                     [] ~executed /\ signal.retries <= MAX_RETRIES -> "pending"
                     [] OTHER -> "rejected"]

Consumed(signal, executed) ==
    [signal EXCEPT
        !.retries = IF executed THEN @ ELSE @ + 1,
        !.status = CASE executed -> "executed"
                     [] ~executed /\ signal.retries + 1 <= MAX_RETRIES -> "pending"
                     [] OTHER -> "rejected"]
LearnOutcome(fp, good) ==
    policy' = IF good THEN [policy EXCEPT ![fp].ok = @ + 1]
                      ELSE [policy EXCEPT ![fp].bad = @ + 1]
-----------------------------------------------------------------------------
(* Producers *)

BirthCheck(c, fp) ==
    /\ At(c, "idle") /\ ShouldBirth(fp)
    /\ calls' = [calls EXCEPT ![c] = [pc |-> "birth", fp |-> fp]]
    /\ UNCHANGED <<memoryVars, disk, gate, up, rows_aged, ledger, misread, spent>>

ToSave(c) == calls' = [calls EXCEPT ![c] = [pc |-> "save", clean |-> TRUE, ack |-> FALSE]]

BirthEnqueue(c) ==
    /\ At(c, "birth")
    /\ \/ Enqueue(calls[c].fp) /\ ToSave(c)
       \/ Cardinality(DOMAIN queue) >= MAX_QUEUE_SIGNALS /\ Finish(c) /\ UNCHANGED <<queue, next_id>>
    /\ UNCHANGED <<policy, disk, gate, up, rows_aged, ledger, misread, spent>>

\* The planner and the task timer enqueue signals without evidence, unchecked.
EnqueueUnchecked(c, fp) ==
    /\ At(c, "idle") /\ Evidence[fp] = {}
    /\ Enqueue(fp) /\ ToSave(c)
    /\ UNCHANGED <<policy, disk, gate, up, rows_aged, ledger, misread, spent>>
-----------------------------------------------------------------------------
(* Consumers *)

\* get_signal and peek first expire the signals past their time to live.  An
\* explore of the tick takes only signals that are pending.
AckRead(c, via, id, lapsed, executed, good) ==
    /\ At(c, "idle") /\ spent.acks < MaxAcks /\ id < next_id
    /\ lapsed \subseteq LiveIn(queue) /\ queue' = Expire(queue, lapsed)
    /\ via = "explore" => id \in LiveIn(queue')
    /\ calls' = [calls EXCEPT ![c] =
                    [pc |-> "mark", via |-> via, id |-> id, executed |-> executed, good |-> good,
                     seen |-> IF id \in DOMAIN queue THEN queue'[id].retries ELSE 0]]
    /\ spent' = [spent EXCEPT !.acks = @ + 1]
    /\ UNCHANGED <<next_id, policy, disk, gate, up, rows_aged, ledger, misread>>

\* mark_consumed: a settled signal stays as it is and counts as acknowledged.
AckMark(c) ==
    LET call == calls[c] id == call.id IN
    /\ At(c, "mark")
    /\ \/ id \notin DOMAIN queue /\ Finish(c) /\ UNCHANGED <<queue, policy>>
       \/ /\ id \in DOMAIN queue
          /\ \/ Settled(queue[id]) /\ UNCHANGED <<queue, policy>>
             \/ /\ ~Settled(queue[id])
                /\ queue' = [queue EXCEPT ![id] = Consumed(@, call.executed)]
                /\ LearnOutcome(queue[id].fp, call.good)
          /\ calls' = [calls EXCEPT ![c] =
                [pc |-> "save", clean |-> TRUE, ack |-> TRUE, id |-> id, fp |-> queue[id].fp,
                 settled |-> Settled(queue'[id]),
                 learned |-> ~Settled(queue[id]) /\ call.good,
                 penalty |-> /\ call.via = "http" /\ ~call.executed
                             /\ ~Settled(queue[id])
                             /\ call.seen + 1 > MAX_RETRIES
                             /\ Evidence[queue[id].fp] # {}]]
    /\ UNCHANGED <<next_id, disk, gate, up, rows_aged, ledger, misread, spent>>

\* current_drive_inbox works out which signals cite changed memories on a copy.
InboxRead(c, lapsed, stale) ==
    /\ At(c, "idle") /\ lapsed \subseteq LiveIn(queue)
    /\ stale \subseteq LiveIn(queue) \ lapsed
    /\ \A id \in stale : Evidence[queue[id].fp] # {}
    /\ queue' = Expire(queue, lapsed)
    /\ calls' = [calls EXCEPT ![c] = IF stale = {} THEN Idle ELSE [pc |-> "expire", stale |-> stale]]
    /\ UNCHANGED <<next_id, policy, disk, gate, up, rows_aged, ledger, misread, spent>>

InboxExpire(c) ==
    /\ At(c, "expire")
    /\ queue' = Expire(queue, calls[c].stale)
    /\ IF queue' # queue THEN ToSave(c) ELSE Finish(c)
    /\ UNCHANGED <<next_id, policy, disk, gate, up, rows_aged, ledger, misread, spent>>

\* Every fifth tick, and at shutdown.
TickSave(c) ==
    /\ At(c, "idle") /\ ToSave(c)
    /\ UNCHANGED <<memoryVars, disk, gate, up, rows_aged, ledger, misread, spent>>
-----------------------------------------------------------------------------
(* save_drive_queue *)

\* Mutant of SaveArchive: the save does not wait for the gate.
SaveArchiveUngated(c, old) ==
    /\ At(c, "save") /\ old = {}
    /\ gate' = c /\ Goto(c, "archived")
    /\ UNCHANGED <<memoryVars, disk, up, rows_aged, ledger, misread, spent>>

Archived(old) ==
    [disk EXCEPT !.archive = @ \cup {[id |-> id, signal |-> queue[id]] : id \in old},
                 !.signals = Restrict(@, DOMAIN @ \ old)]

\* Mutant of SaveArchive: the signals leave the queue also when the archive fails.
SaveArchiveAnyway(c, old) ==
    /\ At(c, "save") /\ gate = "free" /\ old \subseteq SettledIn(queue)
    /\ gate' = c /\ Goto(c, "archived")
    /\ queue' = Restrict(queue, DOMAIN queue \ old)
    /\ \/ disk' = Archived(old) /\ UNCHANGED spent
       \/ Fault /\ UNCHANGED disk
    /\ UNCHANGED <<next_id, policy, up, rows_aged, ledger, misread>>

\* The queue's lock is held through the archive write.
SaveArchive(c, old) ==
    /\ At(c, "save") /\ gate = "free" /\ old \subseteq SettledIn(queue)
    /\ gate' = c /\ Goto(c, "archived")
    /\ \/ /\ queue' = Restrict(queue, DOMAIN queue \ old)
          /\ disk' = Archived(old) /\ UNCHANGED spent
       \/ old # {} /\ Fault /\ UNCHANGED <<queue, disk>>
    /\ UNCHANGED <<next_id, policy, up, rows_aged, ledger, misread>>

SaveSnapshot(c) ==
    /\ At(c, "archived")
    /\ calls' = [calls EXCEPT ![c] = [pc |-> "snapped", call |-> @, signals |-> queue]]
    /\ UNCHANGED <<memoryVars, disk, gate, up, rows_aged, ledger, misread, spent>>

\* One transaction deletes every row and inserts the snapshot.
SaveSignals(c) ==
    LET call == calls[c].call IN
    /\ At(c, "snapped")
    /\ \/ /\ disk' = [disk EXCEPT !.signals = calls[c].signals]
          /\ rows_aged' = FALSE
          /\ calls' = [calls EXCEPT ![c] = [call EXCEPT !.pc = "written"]]
          /\ UNCHANGED spent
       \/ /\ Fault /\ UNCHANGED <<disk, rows_aged>>
          /\ calls' = [calls EXCEPT ![c] = [call EXCEPT !.pc = "written", !.clean = FALSE]]
    /\ UNCHANGED <<memoryVars, gate, up, ledger, misread>>

SavePolicy(c) ==
    /\ At(c, "written")
    /\ gate' = "free"
    /\ \/ disk' = [disk EXCEPT !.policy = policy] /\ Goto(c, "answer") /\ UNCHANGED spent
       \/ /\ Fault /\ UNCHANGED disk
          /\ calls' = [calls EXCEPT ![c].pc = "answer", ![c].clean = FALSE]
    /\ UNCHANGED <<memoryVars, up, rows_aged, ledger, misread>>

\* The code logs a failed save and answers all the same.  The ledger keeps, for
\* the properties, what was answered after a save that worked.
Only(condition, x) == {y \in {x} : condition}

Answer(c) ==
    LET call == calls[c] counts == call.ack /\ call.clean IN
    /\ At(c, "answer") /\ Finish(c)
    /\ ledger' = IF ~counts THEN ledger ELSE
                    [settled   |-> ledger.settled \cup Only(call.settled, call.id),
                     learned   |-> ledger.learned \cup Only(call.learned, call.fp),
                     penalised |-> ledger.penalised \cup Only(call.penalty, call.id)]
    /\ UNCHANGED <<memoryVars, disk, gate, up, rows_aged, misread, spent>>

\* auto_save moves rows unwritten for seven days, and takes neither the gate nor the
\* queue.  It looks for "Executed", "Rejected" or "Expired" in the stored text; a
\* status is stored in small letters, so that only what else the text says is found.
ArchiveOldRows(c) ==
    LET old == {id \in DOMAIN disk.signals : disk.signals[id].fp \in Mentions} IN
    /\ At(c, "idle") /\ rows_aged /\ old # {}
    /\ disk' = [disk EXCEPT
            !.archive = @ \cup {[id |-> id, signal |-> disk.signals[id]] : id \in old},
            !.signals = Restrict(@, DOMAIN @ \ old)]
    /\ UNCHANGED <<memoryVars, gate, calls, up, rows_aged, ledger, misread, spent>>
-----------------------------------------------------------------------------
(* Crash and start-up *)

Crash ==
    /\ up /\ spent.crashes < MaxCrashes
    /\ spent' = [spent EXCEPT !.crashes = @ + 1]
    /\ up' = FALSE /\ gate' = "free" /\ calls' = [c \in Callers |-> Idle]
    /\ queue' = Empty /\ next_id' = 1 /\ policy' = NoOutcomes
    /\ UNCHANGED <<disk, rows_aged, ledger, misread>>

NextAbove(ids) == IF ids = {} THEN 1 ELSE Max(ids) + 1

Misread(seen, reserved, learned) == seen # DOMAIN disk.signals \/ ~reserved \/ ~learned

\* Mutants of Restart: ids are reserved above the active signals only; above the
\* archived ones only; the policy is not read.
RestartWith(first, outcomes, seen, reserved, learned, lapsed) ==
    /\ ~up /\ up' = TRUE
    /\ seen \subseteq DOMAIN disk.signals /\ lapsed \subseteq LiveIn(Restrict(disk.signals, seen))
    /\ IF Misread(seen, reserved, learned) THEN Fault ELSE UNCHANGED spent
    /\ misread' = (misread \/ Misread(seen, reserved, learned))
    /\ queue' = Expire(Restrict(disk.signals, seen), lapsed)
    /\ next_id' = first /\ policy' = outcomes
    /\ UNCHANGED <<disk, gate, calls, ledger, rows_aged>>
RestartActiveOnly(seen, reserved, learned, lapsed) ==
    RestartWith(NextAbove(DOMAIN disk.signals), disk.policy, seen, reserved, learned, lapsed)
RestartArchiveOnly(seen, reserved, learned, lapsed) ==
    RestartWith(NextAbove(ArchivedIds), disk.policy, seen, reserved, learned, lapsed)
RestartUnlearned(seen, reserved, learned, lapsed) ==
    RestartWith(NextAbove(DOMAIN disk.signals \cup ArchivedIds), NoOutcomes,
                seen, reserved, learned, lapsed)

\* restore_drive_queue: any of the three reads may fail and is only logged, and a
\* row that does not parse is skipped.
Restart(seen, reserved, learned, lapsed) ==
    LET signals == Restrict(disk.signals, seen) IN
    /\ ~up /\ up' = TRUE
    /\ seen \subseteq DOMAIN disk.signals /\ lapsed \subseteq LiveIn(signals)
    /\ IF Misread(seen, reserved, learned) THEN Fault ELSE UNCHANGED spent
    /\ misread' = (misread \/ Misread(seen, reserved, learned))
    /\ queue' = Expire(signals, lapsed)
    /\ next_id' = NextAbove(IF reserved THEN DOMAIN disk.signals \cup ArchivedIds ELSE seen)
    /\ policy' = IF learned THEN disk.policy ELSE NoOutcomes
    /\ rows_aged' \in {rows_aged, TRUE}
    /\ UNCHANGED <<disk, gate, calls, ledger>>
-----------------------------------------------------------------------------
DriveInit ==
    /\ queue = Empty /\ next_id = 1 /\ policy = NoOutcomes
    /\ disk = [signals |-> Empty, archive |-> {}, policy |-> NoOutcomes]
    /\ gate = "free" /\ calls = [c \in Callers |-> Idle] /\ up = TRUE
    /\ rows_aged = FALSE /\ misread = FALSE
    /\ ledger = [settled |-> {}, learned |-> {}, penalised |-> {}]
    /\ spent = [acks |-> 0, crashes |-> 0, faults |-> 0]

CallerNext(c) ==
    \/ \E fp \in Fingerprints : BirthCheck(c, fp) \/ EnqueueUnchecked(c, fp)
    \/ BirthEnqueue(c)
    \/ \E via \in {"http", "mcp", "explore"}, id \in 1..MaxId, executed, good \in BOOLEAN :
          \E lapsed \in SUBSET DOMAIN queue : AckRead(c, via, id, lapsed, executed, good)
    \/ AckMark(c)
    \/ \E lapsed, stale \in SUBSET DOMAIN queue : InboxRead(c, lapsed, stale)
    \/ InboxExpire(c)
    \/ TickSave(c)
    \/ \E old \in SUBSET DOMAIN queue : SaveArchive(c, old)
    \/ SaveSnapshot(c) \/ SaveSignals(c) \/ SavePolicy(c)
    \/ Answer(c)
    \/ ArchiveOldRows(c)

DriveNext ==
    \/ \E c \in Callers : CallerNext(c)
    \/ Crash
    \/ \E seen \in SUBSET DOMAIN disk.signals, reserved, learned \in BOOLEAN :
          \E lapsed \in SUBSET seen : Restart(seen, reserved, learned, lapsed)

DriveSpec == DriveInit /\ [][DriveNext]_vars
-----------------------------------------------------------------------------
(* Properties *)

SignalTable(signals) == DOMAIN signals \subseteq 1..MaxId /\ \A id \in DOMAIN signals : signals[id] \in Signal
Outcomes == [Fingerprints -> [ok : Nat, bad : Nat]]

\* Type invariant: the gate's holder is in a save, and no id of the queue is
\* still to be given out.
DriveTypeOK ==
    /\ SignalTable(queue) /\ SignalTable(disk.signals)
    /\ next_id \in 1..(MaxId + 1) /\ \A id \in DOMAIN queue : id < next_id
    /\ policy \in Outcomes /\ disk.policy \in Outcomes
    /\ \A entry \in disk.archive : entry.id \in 1..MaxId /\ entry.signal \in Signal
    /\ \A c \in Callers : gate = c <=> calls[c].pc \in {"archived", "snapped", "written"}
    /\ up \in BOOLEAN /\ rows_aged \in BOOLEAN /\ misread \in BOOLEAN
    /\ ~up => queue = Empty /\ gate = "free"

\* An acknowledgement that was saved is never undone: the signal does not come
\* back to life in the queue or in its table, whatever saves run at the same
\* time and wherever the process crashes (the reason save_drive_queue gives for
\* the gate).
AnsweredStaysSettled ==
    misread \/ /\ ledger.settled \cap LiveIn(queue) = {}
               /\ ledger.settled \cap LiveIn(disk.signals) = {}

\* Evidence whose signal succeeded closes the birth valve for good: no producer
\* can pass should_birth with it, also after the signal was archived and after a
\* restart.
LearnedClosesValve ==
    (up /\ ~misread) => \A fp \in ledger.learned : Evidence[fp] = {} \/ ~ShouldBirth(fp)

\* A row of drive_signals leaves it only for the archive.
StoredIsKept ==
    [][\A id \in DOMAIN disk.signals :
          id \in DOMAIN disk'.signals \/ id \in ArchivedIds' \/ misread]_vars

\* A signal is never born under an id that a stored or archived signal has.
IdsNeverReused ==
    [][\A id \in DOMAIN queue' \ DOMAIN queue :
          (up /\ ~misread) => id \notin DOMAIN disk.signals \cup ArchivedIds]_vars

\* The check and the enqueue are two locks, so two producers may bear the same
\* signal twice, but never more often than there are producers.
DuplicatesBounded ==
    \A fp \in Fingerprints : Evidence[fp] # {} =>
        Cardinality({id \in LiveIn(queue) : queue[id].fp = fp})
        + Cardinality({c \in Callers : calls[c].pc = "birth" /\ calls[c].fp = fp})
            <= Cardinality(Callers)

\* Only the evidence of a dead letter loses importance, though the retry count is
\* read before the acknowledgement.
PenaltyOnlyForDeadLetters ==
    misread \/ \A id \in ledger.penalised \cap DOMAIN disk.signals :
                  disk.signals[id].status = "rejected"
=============================================================================
