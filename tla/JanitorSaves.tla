----------------------------- MODULE JanitorSaves -----------------------------
(***************************************************************************)
(* How the memories and the knowledge graph of one engine reach its        *)
(* database while they are being changed.                                  *)
(*                                                                         *)
(* A change to a relation is made under the write lock of the relations,   *)
(* then queued as a pending change, then counted as a revision: three      *)
(* locks.  persist_knowledge_graph takes the revision, drains the queue    *)
(* and writes either the drained delta or the whole graph, and clears the  *)
(* dirty mark when the revision is still the one it took.  Rows are        *)
(* written as copies by their writers and again by auto_save, which drains *)
(* the set of dirty ids.  Every step below may be interleaved with those   *)
(* of the other threads, and a write of the database may fail.             *)
(***************************************************************************)
EXTENDS Integers, FiniteSets

CONSTANTS
    Threads,        \* handlers and the scheduler's loop
    Edges,          \* relations, each named by its ends and its type
    Rows,           \* memories
    MaxStrength,    \* bound: levels of a relation's strength, 0 = not there
    MAX_DELTA,      \* 50,000 in the code
    MaxChanges,     \* bound: changes of the graph
    MaxRowChanges,  \* bound: changes of rows
    MaxSaveFaults   \* bound: transactions that fail

ASSUME JanitorAssumption ==
    /\ IsFiniteSet(Threads) /\ IsFiniteSet(Edges) /\ IsFiniteSet(Rows)
    /\ Edges # {} /\ Rows # {} /\ "free" \notin Threads
    /\ {MaxStrength, MAX_DELTA, MaxChanges, MaxRowChanges, MaxSaveFaults} \subseteq Nat

VARIABLES
    kg,           \* [relations : edge -> strength, concepts : version]
    pending,      \* pending_relations: edge -> strength to write, 0 = delete
    persistence,  \* [revision, dirty, full_save_required]
    rel_lock,     \* the thread that holds the relations for writing, or "free"
    rows,         \* row -> version in memory
    dirty_set,    \* ids for the next auto_save
    stored_graph, \* what the database holds of the graph
    stored_rows,  \* and of the rows
    work,         \* thread -> the operation it is in
    holes,        \* which of the known hazards have happened
    used          \* [changes, row_changes, faults] so far (for the bounds only)

graphVars == <<kg, pending, persistence, rel_lock>>
rowVars   == <<rows, dirty_set>>
storedVars == <<stored_graph, stored_rows>>
janitorVars == <<kg, pending, persistence, rel_lock, rows, dirty_set, stored_graph, stored_rows, work, holes, used>>

Hazards == {"overlapping saves", "lost delta", "stale reinforcement", "unmarked upsert"}
NoWork == [pc |-> "idle", via |-> "none", revision |-> 0, delta |-> [e \in {} |-> 0], ids |-> {},
           edge |-> CHOOSE e \in Edges : TRUE, row |-> CHOOSE r \in Rows : TRUE, copy |-> 0]

\* A change of relations on top of earlier ones.
LaidOver(new, old) ==
    [e \in DOMAIN new \cup DOMAIN old |-> IF e \in DOMAIN new THEN new[e] ELSE old[e]]

In(t, pc) == work[t].pc = pc
Continue(t, operation) == work' = [work EXCEPT ![t] = operation]
Become(t, pc) == Continue(t, [work[t] EXCEPT !.pc = pc])
Leave(t) == Continue(t, NoWork)
SaveFails == used.faults < MaxSaveFaults /\ used' = [used EXCEPT !.faults = @ + 1]
-----------------------------------------------------------------------------
(* KnowledgeGraph *)

MarkDirty(full) ==
    persistence' = [revision |-> persistence.revision + 1, dirty |-> TRUE,
                    full_save_required |-> persistence.full_save_required \/ full]
MarkSaved(revision) ==
    persistence' = IF persistence.revision # revision THEN persistence
                   ELSE [persistence EXCEPT !.dirty = FALSE, !.full_save_required = FALSE]

\* A change of the graph begins: the thread, what it leaves in memory, and
\* whether it keeps the relations locked until it is counted.  A change is of one
\* relation; one of several queues them one by one.
Change(t, new, pc, edge, strength, keeps_lock) ==
    /\ In(t, "idle") /\ rel_lock = "free" /\ used.changes < MaxChanges
    /\ used' = [used EXCEPT !.changes = @ + 1]
    /\ kg' = new
    /\ Continue(t, [work[t] EXCEPT !.pc = pc, !.edge = edge, !.copy = strength])
    /\ rel_lock' = IF keeps_lock THEN t ELSE "free"
    /\ UNCHANGED <<pending, persistence, rowVars, storedVars, holes>>

AddRelation(t, e, strength) ==
    /\ kg.relations[e] = 0
    /\ Change(t, [kg EXCEPT !.relations[e] = strength], "queue", e, strength, TRUE)
RemoveRelation(t, e) ==
    /\ kg.relations[e] > 0
    /\ Change(t, [kg EXCEPT !.relations[e] = 0], "queue", e, 0, TRUE)
RemoveRelationsFor(t, e) ==
    /\ kg.relations[e] > 0
    /\ Change(t, [kg EXCEPT !.relations[e] = 0], "queue_for", e, 0, TRUE)
\* reinforce_edges gives the lock back before it queues the copy.
ReinforceEdge(t, e) ==
    /\ kg.relations[e] \in 1..(MaxStrength - 1)
    /\ Change(t, [kg EXCEPT !.relations[e] = @ + 1], "queue", e, kg.relations[e] + 1, FALSE)
DecayRelations(t) ==
    /\ \E e \in Edges : kg.relations[e] > 0
    /\ Change(t, [kg EXCEPT !.relations = [e \in Edges |-> IF @[e] > 0 THEN @[e] - 1 ELSE 0]],
              "mark_full", work[t].edge, 0, TRUE)
\* merge_duplicate_concepts, or a memory without relations that leaves its concept.
ChangeConcepts(t) ==
    Change(t, [kg EXCEPT !.concepts = @ + 1], "mark", work[t].edge, 0, FALSE)

QueueChange(t) ==
    /\ work[t].pc \in {"queue", "queue_for"}
    /\ Become(t, IF In(t, "queue") THEN "mark" ELSE "mark_for")
    /\ pending' = LaidOver([e \in {work[t].edge} |-> work[t].copy], pending)
    /\ holes' = IF work[t].copy = kg.relations[work[t].edge] THEN holes
                ELSE holes \cup {"stale reinforcement"}
    /\ UNCHANGED <<kg, persistence, rel_lock, rowVars, storedVars, used>>
\* Mutant of CountChange: a full-save change keeps the relations locked.
CountChangeHolds(t) ==
    /\ work[t].pc \in {"mark", "mark_full"} /\ Leave(t)
    /\ MarkDirty(In(t, "mark_full"))
    /\ rel_lock' = IF rel_lock = t /\ In(t, "mark") THEN "free" ELSE rel_lock
    /\ UNCHANGED <<kg, pending, rowVars, storedVars, holes, used>>

CountChange(t) ==
    /\ work[t].pc \in {"mark", "mark_full"} /\ Leave(t)
    /\ MarkDirty(In(t, "mark_full"))
    /\ rel_lock' = IF rel_lock = t THEN "free" ELSE rel_lock
    /\ UNCHANGED <<kg, pending, rowVars, storedVars, holes, used>>
\* remove_relations_for gives the relations back and then takes the memory out of
\* its concept, if it has one, which is counted again.
CountRemoval(t) ==
    /\ In(t, "mark_for") /\ Become(t, "members")
    /\ MarkDirty(FALSE) /\ rel_lock' = "free"
    /\ UNCHANGED <<kg, pending, rowVars, storedVars, holes, used>>
RemoveMember(t) ==
    /\ In(t, "members") /\ Become(t, "mark")
    /\ kg' = [kg EXCEPT !.concepts = @ + 1]
    /\ UNCHANGED <<pending, persistence, rel_lock, rowVars, storedVars, holes, used>>
NoMember(t) ==
    /\ In(t, "members") /\ Leave(t)
    /\ UNCHANGED <<graphVars, rowVars, storedVars, holes, used>>
-----------------------------------------------------------------------------
(* persist_knowledge_graph, called by auto_save ("auto") and by            *)
(* mark_dirty_persist ("row")                                              *)

Uncounted == {"queue", "queue_for", "mark", "mark_for", "mark_full"}
Saving == {"drain", "drain_full", "save_delta", "save_full", "mark_delta", "mark_saved", "fallback"}
Others(t) == {o \in Threads \ {t} : work[o].pc \in Saving}
Persisted(t) == IF work[t].via = "auto" THEN "auto_drain" ELSE "row_mark"

\* persistence_snapshot: nothing to do on a clean graph.
BeginPersist(t) ==
    /\ In(t, "persist")
    /\ Continue(t, [work[t] EXCEPT
            !.pc = CASE ~persistence.dirty -> Persisted(t)
                     [] persistence.full_save_required -> "drain_full"
                     [] OTHER -> "drain",
            !.revision = persistence.revision])
    /\ holes' = IF persistence.dirty /\ Others(t) # {}
                THEN holes \cup {"overlapping saves"} ELSE holes
    /\ UNCHANGED <<graphVars, rowVars, storedVars, used>>

DrainDelta(t) ==
    LET size == Cardinality(DOMAIN pending) IN
    /\ In(t, "drain")
    /\ Continue(t, [work[t] EXCEPT !.delta = pending,
                    !.pc = IF size \in 1..MAX_DELTA THEN "save_delta" ELSE "fallback"])
    /\ pending' = [e \in {} |-> 0]
    /\ UNCHANGED <<kg, persistence, rel_lock, rowVars, storedVars, holes, used>>

\* save_relations_delta: the delta and all concepts, in one transaction.
SaveDelta(t) ==
    /\ In(t, "save_delta") /\ Become(t, "mark_delta")
    /\ stored_graph' = [relations |-> LaidOver(work[t].delta, stored_graph.relations), concepts |-> kg.concepts]
    /\ UNCHANGED <<graphVars, rowVars, stored_rows, holes, used>>
SaveDeltaFails(t) ==
    /\ In(t, "save_delta") /\ SaveFails /\ Become(t, "fallback")
    /\ UNCHANGED <<graphVars, rowVars, storedVars, holes>>

\* A revision that has moved on is saved in full at once.
MarkDelta(t) ==
    /\ In(t, "mark_delta") /\ MarkSaved(work[t].revision)
    /\ Become(t, IF persistence.revision = work[t].revision THEN Persisted(t) ELSE "fallback")
    /\ UNCHANGED <<kg, pending, rel_lock, rowVars, storedVars, holes, used>>
Fallback(t) ==
    /\ In(t, "fallback")
    /\ Continue(t, [work[t] EXCEPT !.pc = IF persistence.dirty THEN "drain_full" ELSE Persisted(t),
                                   !.revision = persistence.revision])
    /\ UNCHANGED <<graphVars, rowVars, storedVars, holes, used>>

DrainBeforeFull(t) ==
    /\ In(t, "drain_full") /\ Become(t, "save_full")
    /\ pending' = [e \in {} |-> 0]
    /\ UNCHANGED <<kg, persistence, rel_lock, rowVars, storedVars, holes, used>>
\* save_kg_only waits for a writer of the relations.
SaveFull(t) ==
    /\ In(t, "save_full") /\ rel_lock = "free" /\ Become(t, "mark_saved")
    /\ stored_graph' = kg
    /\ UNCHANGED <<graphVars, rowVars, stored_rows, holes, used>>
SaveFullFails(t) ==
    /\ In(t, "save_full") /\ SaveFails /\ Become(t, Persisted(t))
    /\ holes' = IF persistence.full_save_required THEN holes ELSE holes \cup {"lost delta"}
    /\ UNCHANGED <<graphVars, rowVars, storedVars>>
\* Mutant of MarkFull: whatever changed since the snapshot is taken as saved.
MarkFullAnyway(t) ==
    /\ In(t, "mark_saved") /\ MarkSaved(persistence.revision) /\ Become(t, Persisted(t))
    /\ UNCHANGED <<kg, pending, rel_lock, rowVars, storedVars, holes, used>>

MarkFull(t) ==
    /\ In(t, "mark_saved") /\ MarkSaved(work[t].revision) /\ Become(t, Persisted(t))
    /\ UNCHANGED <<kg, pending, rel_lock, rowVars, storedVars, holes, used>>
-----------------------------------------------------------------------------
(* Rows *)

\* A writer changes a row and takes the copy it will store: persist_tetra keeps it
\* dirty; decay_evidence, the bulk and the confirmed quarantines and restores and
\* the self-exploration store it and mark nothing.
ChangeRow(t, r, via) ==
    /\ In(t, "idle") /\ used.row_changes < MaxRowChanges
    /\ used' = [used EXCEPT !.row_changes = @ + 1]
    /\ rows' = [rows EXCEPT ![r] = @ + 1]
    /\ Continue(t, [work[t] EXCEPT !.pc = "row_copy", !.via = via, !.row = r])
    /\ UNCHANGED <<graphVars, dirty_set, storedVars, holes>>
CopyRow(t) ==
    /\ In(t, "row_copy")
    /\ Continue(t, [work[t] EXCEPT !.pc = "row_upsert", !.copy = rows[work[t].row]])
    /\ UNCHANGED <<graphVars, rowVars, storedVars, holes, used>>
UpsertRow(t, works) ==
    /\ In(t, "row_upsert")
    /\ IF works THEN stored_rows' = [stored_rows EXCEPT ![work[t].row] = work[t].copy] /\ UNCHANGED used
       ELSE SaveFails /\ UNCHANGED stored_rows
    /\ IF work[t].via = "row" THEN Become(t, "persist") /\ UNCHANGED holes
       ELSE /\ Leave(t)
            /\ holes' = IF works /\ work[t].copy = rows[work[t].row] THEN holes
                        ELSE holes \cup {"unmarked upsert"}
    /\ UNCHANGED <<graphVars, rowVars, stored_graph>>
MarkRow(t) ==
    /\ In(t, "row_mark") /\ Leave(t)
    /\ dirty_set' = dirty_set \cup {work[t].row}
    /\ UNCHANGED <<graphVars, rows, storedVars, holes, used>>

AutoSave(t) ==
    /\ In(t, "idle") /\ (persistence.dirty \/ dirty_set # {})
    /\ Continue(t, [work[t] EXCEPT !.pc = "persist", !.via = "auto"])
    /\ UNCHANGED <<graphVars, rowVars, storedVars, holes, used>>
AutoDrain(t) ==
    /\ In(t, "auto_drain") /\ dirty_set' = {}
    /\ Continue(t, [work[t] EXCEPT !.pc = "auto_upsert", !.ids = dirty_set])
    /\ UNCHANGED <<graphVars, rows, storedVars, holes, used>>
\* Mutant of AutoUpsertFails: the drained ids are not put back.
AutoUpsertForgets(t) ==
    /\ In(t, "auto_upsert") /\ SaveFails /\ Leave(t)
    /\ UNCHANGED <<graphVars, rowVars, storedVars, holes>>

\* batch_upsert reads the rows when it runs; it writes all of them or none, and
\* then they are marked again.
AutoUpsertFails(t) ==
    /\ In(t, "auto_upsert") /\ SaveFails /\ Leave(t)
    /\ dirty_set' = dirty_set \cup work[t].ids
    /\ UNCHANGED <<graphVars, rows, storedVars, holes>>
AutoUpsert(t) ==
    /\ In(t, "auto_upsert") /\ Leave(t)
    /\ stored_rows' = [r \in Rows |-> IF r \in work[t].ids THEN rows[r] ELSE stored_rows[r]]
    /\ UNCHANGED <<graphVars, rowVars, stored_graph, holes, used>>
-----------------------------------------------------------------------------
JanitorInit ==
    /\ kg = [relations |-> [e \in Edges |-> 0], concepts |-> 0]
    /\ pending = [e \in {} |-> 0] /\ rel_lock = "free"
    /\ persistence = [revision |-> 0, dirty |-> FALSE, full_save_required |-> FALSE]
    /\ rows = [r \in Rows |-> 0] /\ dirty_set = {}
    /\ stored_graph = kg /\ stored_rows = rows
    /\ work = [t \in Threads |-> NoWork] /\ holes = {}
    /\ used = [changes |-> 0, row_changes |-> 0, faults |-> 0]

GraphStep(t) ==
    \/ \E e \in Edges : \/ \E strength \in 1..MaxStrength : AddRelation(t, e, strength)
                        \/ RemoveRelation(t, e) \/ RemoveRelationsFor(t, e)
                        \/ ReinforceEdge(t, e)
    \/ DecayRelations(t) \/ ChangeConcepts(t)
    \/ QueueChange(t) \/ CountChange(t)
    \/ CountRemoval(t) \/ RemoveMember(t) \/ NoMember(t)
PersistStep(t) ==
    \/ BeginPersist(t)
    \/ DrainDelta(t) \/ SaveDelta(t) \/ SaveDeltaFails(t) \/ MarkDelta(t) \/ Fallback(t)
    \/ DrainBeforeFull(t) \/ SaveFull(t) \/ SaveFullFails(t) \/ MarkFull(t)
RowStep(t) ==
    \/ \E r \in Rows, via \in {"row", "direct"} : ChangeRow(t, r, via)
    \/ CopyRow(t) \/ MarkRow(t)
    \/ \E works \in BOOLEAN : UpsertRow(t, works)
    \/ AutoSave(t) \/ AutoDrain(t) \/ AutoUpsertFails(t) \/ AutoUpsert(t)

JanitorNext == \E t \in Threads : GraphStep(t) \/ PersistStep(t) \/ RowStep(t)

JanitorSpec == JanitorInit /\ [][JanitorNext]_janitorVars
-----------------------------------------------------------------------------
(* Properties *)

Graph  == [relations : [Edges -> 0..MaxStrength], concepts : Nat]
Deltas == UNION {[changed -> 0..MaxStrength] : changed \in SUBSET Edges}
Work == [pc : {"idle", "persist", "members", "row_copy", "row_upsert", "row_mark",
               "auto_drain", "auto_upsert"} \cup Uncounted \cup Saving,
         via : {"none", "row", "direct", "auto"}, revision : Nat, delta : Deltas,
         ids : SUBSET Rows, edge : Edges, row : Rows, copy : Nat]

\* Type invariant: whoever locks the relations is between changing and counting.
JanitorTypeOK ==
    /\ kg \in Graph /\ stored_graph \in Graph /\ pending \in Deltas
    /\ persistence \in [revision : Nat, dirty : BOOLEAN, full_save_required : BOOLEAN]
    /\ persistence.full_save_required => persistence.dirty
    /\ work \in [Threads -> Work]
    /\ rel_lock \in Threads \cup {"free"}
    /\ \A t \in Threads : rel_lock = t => work[t].pc \in Uncounted
    /\ rows \in [Rows -> Nat] /\ stored_rows \in [Rows -> Nat] /\ dirty_set \subseteq Rows
    /\ holes \subseteq Hazards
    /\ used \in [changes : Nat, row_changes : Nat, faults : Nat]

\* A graph that is not marked dirty is the graph the database holds: no change
\* of a relation or a concept falls between a drain, a save and the clearing of
\* the mark, with failing transactions and the fallback to a full save.  Three
\* hazards of the code are let out by name: two saves at once, a full save that
\* fails after the delta was drained, and a reinforcement queued after the
\* relation changed again.
CleanIsSaved ==
    (/\ holes \subseteq {"unmarked upsert"} /\ ~persistence.dirty
     /\ \A t \in Threads : work[t].pc \notin Uncounted) => stored_graph = kg

\* A row whose stored copy is not the current one is in the dirty set or in the
\* hands of a thread that will write or mark it, so that some later auto_save
\* writes it: an older copy may overwrite a newer one, but not for good.  The
\* hazard let out is a writer that marks nothing and stores an old copy or fails.
RowsTracked ==
    "unmarked upsert" \in holes \/
        \A r \in Rows : stored_rows[r] # rows[r] =>
            \/ r \in dirty_set
            \/ \E t \in Threads :
                  \/ work[t].pc = "auto_upsert" /\ r \in work[t].ids
                  \/ work[t].via \in {"row", "direct"} /\ work[t].row = r
=============================================================================
