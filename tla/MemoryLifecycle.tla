--------------------------- MODULE MemoryLifecycle ---------------------------
(***************************************************************************)
(* The life of memory rows under the background consolidation and the      *)
(* users' tools.                                                           *)
(*                                                                         *)
(* Consolidation reads a snapshot of the space and then applies operations *)
(* to the rows one by one, each under the write lock: the governor (TTL,   *)
(* decay, boost, merge of equal contents) and the dream cycle (quarantine, *)
(* merge of similar rows).  dream_gate lets one such cycle run at a time.  *)
(* A user's tool reads a row, works out what the row should become, and    *)
(* writes the difference back: rows change between the read and the write. *)
(***************************************************************************)
EXTENDS MemoryOps, FiniteSets

CONSTANTS
    Ids,          \* the rows of the space
    Timestamp,    \* row -> creation time
    Class,        \* row -> memory_class
    Old,          \* the rows past every age the code asks for (1 to 60 days)
    Hot,          \* the rows with a label searched for often enough
    Duplicates,   \* pairs {a, b} of rows with matching contents
    InitRows,     \* the rows a run starts from: Ids -> Row
    Users,        \* tool calls in flight
    Tools,        \* the tools users call in this instance
    DecayTo,      \* bound: what effective_importance may come to
    Adjustments,  \* bound: the changes feedback and recompute_importance make
    MaxCycles,    \* bound: consolidation cycles
    MaxCalls      \* bound: tool calls

Labels  == {"note", "junk", "outdated", "quarantine", "superseded"}
Classes == {"permanent", "session", "bridge", "episodic"}
Row     == [labels: SUBSET Labels, valid_to: BOOLEAN, importance: 0..500,
            mass: MASS_MIN..MASS_MAX, enforced: BOOLEAN, access: {0, 3}]

ASSUME MemoryAssumption ==
    /\ Ids \subseteq Nat /\ IsFiniteSet(Ids)
    /\ Timestamp \in [Ids -> Nat] /\ Class \in [Ids -> Classes]
    /\ Old \subseteq Ids /\ Hot \subseteq Ids
    /\ \A pair \in Duplicates : pair \subseteq Ids /\ Cardinality(pair) = 2
    /\ InitRows \subseteq [Ids -> Row]
    /\ DecayTo \subseteq 0..500 /\ Adjustments \subseteq -500..500
    /\ MaxCycles \in Nat /\ MaxCalls \in Nat

VARIABLES
    rows,    \* Space: id -> row
    cycle,   \* the consolidation cycle in progress
    calls,   \* user -> the tool call in progress
    spent    \* [cycles, calls] started so far (for the bounds only)

memoryVars == <<rows, cycle, calls, spent>>

\* Only the auto cycle has the governor's phases; the manual one recomputes.
CyclePCs == {"idle", "govern", "boost", "aggregate", "adjust", "doctor", "absorb",
             "gain", "reset", "label", "supersede", "recompute"}

\* seen is the snapshot the phase works from, todo the rows it has left, pairs the
\* dream's merges left, merged the rows absorbed; list the order in which the
\* governor's search lists the rows, keep and remove the two rows being merged.
NoCycle == [pc |-> "idle", auto |-> FALSE, seen |-> <<>>, todo |-> {}, recurrent |-> {},
            pairs |-> {}, merged |-> {}, list |-> <<>>, keep |-> 0, remove |-> 0,
            evicted |-> FALSE]
NoCallYet == [tool |-> "none", id |-> 0, base |-> <<>>, desired |-> <<>>]

At(pc) == cycle.pc = pc

Update(id, row) == rows' = [rows EXCEPT ![id] = row]

UsersIdle == UNCHANGED <<calls, spent>>

----------------------------------------------------------------------------
(* LifecycleGovernor::evaluate_with_hot_labels *)

Expired(id, row)  == row.importance < 15 /\ ~row.valid_to
TtlOver(id, row)  == Class[id] \in {"session", "bridge"} /\ ~row.valid_to
Decays(row, to)   == row.access = 0 /\ to < row.importance - 5

Governable(id, row) ==
    /\ ~row.enforced /\ Class[id] # "permanent" /\ id \notin Hot /\ id \in Old
    /\ Expired(id, row) \/ TtlOver(id, row) \/ \E to \in DecayTo : Decays(row, to)

\* What the governor's operation, chosen from the snapshot, may make of a row.
Governed(id, seen, row) ==
    IF Expired(id, seen) THEN {Tombstone(row, FORGET_IMPORTANCE, 15)}
    ELSE IF TtlOver(id, seen) THEN {Tombstone(row, FORGET_IMPORTANCE, 1000)}
    ELSE {CasImportance(row, seen.importance, Greatest(to, IMPORTANCE_FLOOR)) :
             to \in {t \in DecayTo : Decays(seen, t)}}

RecurrentIn(seen) == {id \in Ids : ~seen[id].enforced /\ seen[id].access >= 3}

StartAuto ==
    /\ At("idle") /\ spent.cycles < MaxCycles
    /\ spent' = [spent EXCEPT !.cycles = @ + 1]
    /\ cycle' = [NoCycle EXCEPT !.pc = "govern", !.auto = TRUE, !.seen = rows,
                     !.todo = {id \in Ids : Governable(id, rows[id])},
                     !.recurrent = RecurrentIn(rows)]
    /\ UNCHANGED <<rows, calls>>

Govern ==
    /\ At("govern")
    /\ \E id \in cycle.todo :
           /\ \E row \in Governed(id, cycle.seen[id], rows[id]) : Update(id, row)
           /\ cycle' = [cycle EXCEPT !.todo = @ \ {id}]
    /\ UsersIdle

GovernDone ==
    /\ At("govern") /\ cycle.todo = {}
    /\ cycle' = [cycle EXCEPT !.pc = "boost", !.seen = <<>>, !.todo = cycle.recurrent]
    /\ UNCHANGED rows /\ UsersIdle

\* Three to five accesses are worth 0.1; the count is read again at the boost.
Boost ==
    /\ At("boost")
    /\ \E id \in cycle.todo :
           /\ Update(id, AddImportance(rows[id], IF rows[id].access >= 3 THEN 10 ELSE 30, 350))
           /\ cycle' = [cycle EXCEPT !.todo = @ \ {id}]
    /\ UsersIdle

\* Feedback aggregation patches the rows the feedback names; here at most one.
BoostDone ==
    /\ At("boost") /\ cycle.todo = {}
    /\ \/ cycle' = [cycle EXCEPT !.pc = "aggregate"]
       \/ \E id \in Ids :
              cycle' = [cycle EXCEPT !.pc = "adjust", !.keep = id, !.seen = rows]
    /\ UNCHANGED rows /\ UsersIdle

Aggregate ==
    /\ At("adjust")
    /\ \E by \in Adjustments :
           LET base    == cycle.seen[cycle.keep]
               desired == [base EXCEPT !.importance = Clamp(@ + by, IMPORTANCE_FLOOR, 500)]
           IN  Update(cycle.keep, Patch(rows[cycle.keep], base, desired))
    /\ cycle' = [cycle EXCEPT !.pc = "aggregate", !.keep = 0, !.seen = <<>>]
    /\ UsersIdle

\* The cycle ends early when nothing calls for a dream, the last dream is too
\* recent or the energy is short: all of them may be so whatever the rows are.
SkipDream ==
    /\ At("aggregate")
    /\ cycle' = NoCycle
    /\ UNCHANGED rows /\ UsersIdle

----------------------------------------------------------------------------
(* DreamEngine::cycle *)

\* Old, unimportant or junk rows; a mass is never below MASS_MIN.
Sick(id, row) ==
    /\ Lifecycle(row) = "Active" /\ ~row.enforced
    /\ "junk" \in row.labels \/ (id \in Old /\ row.importance < IMPORTANCE_FLOOR)

Doctor(c) == [c EXCEPT !.pc = "doctor", !.seen = rows,
                       !.todo = {id \in Ids : Sick(id, rows[id])}]

StartDream ==
    /\ At("aggregate")
    /\ cycle' = Doctor(cycle)
    /\ UNCHANGED rows /\ UsersIdle

\* api_dream: the cycle run from a tool.
StartManual ==
    /\ At("idle") /\ spent.cycles < MaxCycles
    /\ spent' = [spent EXCEPT !.cycles = @ + 1]
    /\ cycle' = Doctor(NoCycle)
    /\ UNCHANGED <<rows, calls>>

QuarantineSick ==
    /\ At("doctor")
    /\ \E id \in cycle.todo :
           LET row == Quarantine(rows[id], IMPORTANCE_FLOOR, MASS_MIN)
           IN  /\ Update(id, row)
               /\ cycle' = [cycle EXCEPT !.todo = @ \ {id},
                                         !.evicted = @ \/ row # rows[id]]
    /\ UsersIdle

MergeablePairs(seen) ==
    {pair \in Duplicates :
        \A id \in pair : ~seen[id].enforced /\ Lifecycle(seen[id]) # "Superseded"}

\* The snapshot is taken again only when a row was quarantined.
DoctorDone ==
    /\ At("doctor") /\ cycle.todo = {}
    /\ LET seen == IF cycle.evicted THEN rows ELSE cycle.seen
       IN  cycle' = [cycle EXCEPT !.pc = "absorb", !.seen = seen,
                                  !.pairs = MergeablePairs(seen)]
    /\ UNCHANGED rows /\ UsersIdle

\* The heavier row of the pair (by the snapshot) is kept; the other one is
\* superseded, and only a row that changed counts as merged.
Absorb ==
    /\ At("absorb")
    /\ \E pair \in {p \in cycle.pairs : p \cap cycle.merged = {}} :
       \E keep \in pair, remove \in pair :
           LET row  == Supersede(rows[remove], IMPORTANCE_FLOOR, MASS_MIN)
               rest == cycle.pairs \ {pair}
           IN  /\ keep # remove /\ cycle.seen[keep].mass >= cycle.seen[remove].mass
               /\ Update(remove, row)
               /\ cycle' = IF row = rows[remove]
                           THEN [cycle EXCEPT !.pairs = rest]
                           ELSE [cycle EXCEPT !.pc = "gain", !.keep = keep, !.pairs = rest,
                                              !.merged = @ \cup {remove}]
    /\ UsersIdle

Gain ==
    /\ At("gain")
    /\ Update(cycle.keep, AdjustMass(rows[cycle.keep], 50))
    /\ cycle' = [cycle EXCEPT !.pc = "absorb", !.keep = 0]
    /\ UsersIdle

DreamDone ==
    /\ At("absorb")
    /\ \A pair \in cycle.pairs : pair \cap cycle.merged # {}
    /\ cycle' = IF cycle.auto
                THEN [NoCycle EXCEPT !.pc = "reset", !.auto = TRUE, !.todo = cycle.recurrent]
                ELSE [NoCycle EXCEPT !.pc = "recompute", !.seen = rows, !.todo = Ids]
    /\ UNCHANGED rows /\ UsersIdle

\* recompute_importance: a row the snapshot shows alive, clamped to the live range.
Recompute ==
    /\ At("recompute")
    /\ \E id \in cycle.todo, by \in Adjustments \cup {0} :
           LET seen == cycle.seen[id]
               new  == Clamp(seen.importance + by, IMPORTANCE_FLOOR, 300)
           IN  /\ Update(id, IF seen.enforced \/ seen.valid_to THEN rows[id]
                             ELSE CasImportance(rows[id], seen.importance, new))
               /\ cycle' = [cycle EXCEPT !.todo = @ \ {id}]
    /\ UsersIdle

RecomputeDone ==
    /\ At("recompute") /\ cycle.todo = {}
    /\ cycle' = NoCycle
    /\ UNCHANGED rows /\ UsersIdle

----------------------------------------------------------------------------
(* reset_access_counts, find_merge_candidates and execute_merges *)

ResetAccess ==
    /\ At("reset")
    /\ \E id \in cycle.todo :
           /\ Update(id, ResetAccessCount(rows[id]))
           /\ cycle' = [cycle EXCEPT !.todo = @ \ {id}]
    /\ UsersIdle

\* The order in which Space, a hash map, lists its rows: any.
Lists == {list \in [Ids -> 1..Cardinality(Ids)] : \A i, j \in Ids : list[i] = list[j] => i = j}

\* Each row in list order is paired with the first later row that matches it; rows
\* already removed are passed over.  Neither the lifecycle nor enforced is looked at.
Matches ==
    {match \in cycle.todo \X cycle.todo :
        cycle.list[match[1]] < cycle.list[match[2]] /\ {match[1], match[2]} \in Duplicates}
FirstMatch(i, j) ==
    /\ <<i, j>> \in Matches
    /\ \A match \in Matches : cycle.list[i] <= cycle.list[match[1]]
    /\ \A match \in Matches : match[1] = i => cycle.list[j] <= cycle.list[match[2]]

ResetDone ==
    /\ At("reset") /\ cycle.todo = {}
    /\ \E list \in Lists :
           cycle' = [NoCycle EXCEPT !.pc = "label", !.auto = TRUE, !.seen = rows, !.todo = Ids,
                                    !.list = list]
    /\ UNCHANGED rows /\ UsersIdle

\* The code finds all pairs first and merges them then.  Which ones it finds depends
\* on the snapshot alone, so here a pair is found when its turn has come.  The newer
\* row is kept; the search goes on after the row it was at.
MergeLabels ==
    /\ At("label")
    /\ \E i \in cycle.todo, j \in cycle.todo :
           LET keep   == IF Timestamp[i] >= Timestamp[j] THEN i ELSE j
               remove == IF keep = i THEN j ELSE i
           IN  /\ FirstMatch(i, j)
               /\ Update(keep, AddLabels(rows[keep], cycle.seen[i].labels \cup cycle.seen[j].labels))
               /\ cycle' = [cycle EXCEPT
                               !.pc = "supersede", !.keep = keep, !.remove = remove,
                               !.todo = {k \in @ \ {remove} : cycle.list[k] > cycle.list[i]}]
    /\ UsersIdle

MergeSupersede ==
    /\ At("supersede")
    /\ Update(cycle.remove, Supersede(rows[cycle.remove], FORGET_IMPORTANCE, MASS_MIN))
    /\ cycle' = [cycle EXCEPT !.pc = "label", !.keep = 0, !.remove = 0]
    /\ UsersIdle

MergeDone ==
    /\ At("label") /\ Matches = {}
    /\ cycle' = NoCycle
    /\ UNCHANGED rows /\ UsersIdle

ConsolidationNext ==
    \/ StartAuto \/ Govern \/ GovernDone \/ Boost \/ BoostDone \/ Aggregate \/ SkipDream
    \/ StartDream \/ StartManual \/ QuarantineSick \/ DoctorDone \/ Absorb \/ Gain
    \/ DreamDone \/ Recompute \/ RecomputeDone \/ ResetAccess \/ ResetDone
    \/ MergeLabels \/ MergeSupersede \/ MergeDone

----------------------------------------------------------------------------
(* The users' tools *)

Call(u, tool) ==
    /\ calls[u].tool = "none"
    /\ tool \in Tools /\ spent.calls < MaxCalls
    /\ spent' = [spent EXCEPT !.calls = @ + 1]
    /\ UNCHANGED cycle

\* A tool that reads the row, and will write what it made of it with Patch.
ReadFor(u, tool, id, desired) ==
    /\ Call(u, tool)
    /\ calls' = [calls EXCEPT ![u] =
                    [tool |-> tool, id |-> id, base |-> rows[id], desired |-> desired]]
    /\ UNCHANGED rows

ForgetRead(u, id) ==
    /\ ~rows[id].enforced
    /\ ReadFor(u, "forget", id,
               [rows[id] EXCEPT !.valid_to = TRUE, !.importance = FORGET_IMPORTANCE])

RestoreRead(u, id) ==
    /\ rows[id].valid_to
    /\ ReadFor(u, "restore", id,
               [rows[id] EXCEPT !.valid_to = FALSE,
                                !.importance = Least(Greatest(@, 50) + 50, 300)])

\* Writing a memory close to this one (Mem0 DELETE) ends this one.
WriteOverRead(u, id) ==
    ReadFor(u, "write", id,
            [rows[id] EXCEPT !.labels = @ \cup {"superseded"}, !.valid_to = TRUE,
                             !.importance = Greatest((@ * 15) \div 100, IMPORTANCE_FLOOR)])

\* memory_feedback moves the mass at once and patches the payload: a correction
\* (with the marks of a failed task), or the correction taken back.
FeedbackRead(u, id) ==
    \E marks \in {[mass |-> -15, importance |-> -90, gained |-> {"outdated"}, lost |-> {}],
                  [mass |-> 35, importance |-> 80, gained |-> {},
                   lost |-> {"outdated", "superseded"}]} :
        LET row     == AdjustMass(rows[id], marks.mass)
            desired == [row EXCEPT
                           !.labels     = (@ \cup marks.gained) \ marks.lost,
                           !.importance = Clamp(@ + marks.importance, IMPORTANCE_FLOOR, 500)]
        IN  /\ Call(u, "feedback")
            /\ Update(id, row)
            /\ calls' = [calls EXCEPT ![u] =
                            [tool |-> "feedback", id |-> id, base |-> row, desired |-> desired]]

\* A quarantine, or its restore, that a token confirmed: refused when a target is
\* enforced, and carried out in a task that reads the row again.
Confirm(u, id) ==
    \E op \in {"quarantine", "unquarantine"} :
        /\ ~rows[id].enforced
        /\ Call(u, op)
        /\ calls' = [calls EXCEPT ![u] = [NoCallYet EXCEPT !.tool = op, !.id = id]]
        /\ UNCHANGED rows

Confirmed(op, row) ==
    IF op = "quarantine"
    THEN [row EXCEPT !.labels = @ \cup {"quarantine"}, !.importance = Least(@, 10)]
    ELSE [row EXCEPT !.labels = @ \ {"quarantine"}, !.importance = IF @ < 30 THEN 50 ELSE @]

ConfirmedRead(u) ==
    LET op == calls[u].tool  row == rows[calls[u].id] IN
    /\ op \in {"quarantine", "unquarantine"} /\ calls[u].base = <<>>
    /\ calls' = IF op = "quarantine" /\ "quarantine" \in row.labels
                THEN [calls EXCEPT ![u] = NoCallYet]
                ELSE [calls EXCEPT ![u].base = row, ![u].desired = Confirmed(op, row)]
    /\ UNCHANGED <<rows, cycle, spent>>

PatchBack(u) ==
    /\ calls[u].base # <<>>
    /\ Update(calls[u].id, Patch(rows[calls[u].id], calls[u].base, calls[u].desired))
    /\ calls' = [calls EXCEPT ![u] = NoCallYet]
    /\ UNCHANGED <<cycle, spent>>

\* The tools that change one field under the lock.
AddUserLabel(u, id) ==
    /\ Call(u, "label")
    /\ \E label \in {"note", "junk"} : Update(id, AddLabels(rows[id], {label}))
    /\ UNCHANGED calls

Enforce(u, id) ==
    /\ Call(u, "enforce")
    /\ \E on \in BOOLEAN : Update(id, [rows[id] EXCEPT !.enforced = on])
    /\ UNCHANGED calls

\* flush_access_counts: searches found the row three times.
FlushAccess(u, id) ==
    /\ Call(u, "search")
    /\ Update(id, [rows[id] EXCEPT !.access = 3])
    /\ UNCHANGED calls

UserNext ==
    \E u \in Users :
        \/ PatchBack(u) \/ ConfirmedRead(u)
        \/ \E id \in Ids :
              \/ ForgetRead(u, id) \/ RestoreRead(u, id) \/ WriteOverRead(u, id)
              \/ FeedbackRead(u, id) \/ Confirm(u, id)
              \/ AddUserLabel(u, id) \/ Enforce(u, id) \/ FlushAccess(u, id)

MemoryInit ==
    /\ rows \in InitRows
    /\ cycle = NoCycle
    /\ calls = [u \in Users |-> NoCallYet]
    /\ spent = [cycles |-> 0, calls |-> 0]

MemoryNext == ConsolidationNext \/ UserNext

MemorySpec == MemoryInit /\ [][MemoryNext]_memoryVars

----------------------------------------------------------------------------
(* Properties *)

\* Rows keep their types, a snapshot is present in the phases that read one,
\* and a call in progress holds a row it read and a row to write.
MemoryTypeOK ==
    /\ rows \in [Ids -> Row]
    /\ cycle.pc \in CyclePCs
    /\ cycle.pc \in {"govern", "adjust", "doctor", "absorb", "gain", "recompute",
                    "label", "supersede"} => cycle.seen \in [Ids -> Row]
    /\ cycle.todo \subseteq Ids /\ cycle.pairs \subseteq Duplicates
    /\ \A u \in Users : calls[u].base # <<>> => {calls[u].base, calls[u].desired} \subseteq Row

\* A label a user adds is never lost, whatever snapshot another writer's payload
\* was computed from (domain/ops.rs: no lost update).
UserLabelsSurvive ==
    [][\A id \in Ids : "note" \in rows[id].labels => "note" \in rows'[id].labels]_memoryVars

\* A row that was ended is made valid again by memory_restore only: neither a
\* consolidation step nor a tool that read the row while it was valid undoes it.
OnlyRestoreRevives ==
    [][\A id \in Ids : rows[id].valid_to /\ ~rows'[id].valid_to
          => \E u \in Users : calls[u].tool = "restore" /\ calls[u].id = id]_memoryVars

\* Consolidation never ends a row that is enforced at that moment, even when its
\* snapshot was taken before a user enforced the row.
EnforcedKeepsValidity ==
    [][\A id \in Ids :
          rows[id].enforced /\ ~rows[id].valid_to /\ rows'[id].valid_to
              => cycle' = cycle]_memoryVars

\* The live floor of engine/governor.rs: a consolidation step that lowers a row's
\* importance leaves it at the floor or above, unless the row has ended.
LiveFloor ==
    [][\A id \in Ids :
          cycle' # cycle /\ rows'[id].importance < rows[id].importance
              => rows'[id].importance >= IMPORTANCE_FLOOR \/ rows'[id].valid_to]_memoryVars

\* Merging duplicates absorbs one copy into the other: of a set of duplicates
\* that started with a copy not superseded, one stays so (governor.rs).
OneCopyStays ==
    \A pair \in Duplicates : \E id \in pair : Lifecycle(rows[id]) # "Superseded"

=============================================================================
