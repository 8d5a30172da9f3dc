-------------------------- MODULE JanitorSaves_proofs --------------------------
(***************************************************************************)
(* What JanitorSaves keeps for every number of threads, relations and      *)
(* rows: the types of its variables, with the discipline of the relations' *)
(* lock, that no row is forgotten, that a clean graph is the saved one.    *)
(***************************************************************************)
EXTENDS JanitorSaves, TLAPS

\* Which operation a thread is in at each of its steps.
WayOK(w) ==
    /\ w.pc \in {"idle", "members"} \cup Uncounted => w.via = "none"
    /\ w.pc \in {"row_copy", "row_upsert"} => w.via \in {"row", "direct"}
    /\ w.pc = "row_mark" => w.via = "row"
    /\ w.pc \in {"persist"} \cup Saving => w.via \in {"row", "auto"}
    /\ w.pc \in {"auto_drain", "auto_upsert"} => w.via = "auto"
    /\ w.pc \in {"queue", "queue_for"} => w.copy \in 0..MaxStrength
Ways == \A t \in Threads : WayOK(work[t])

\* A thread that will still write or mark a row.
Carries(w, r) == \/ w.pc = "auto_upsert" /\ r \in w.ids
                 \/ w.via \in {"row", "direct"} /\ w.row = r

JanitorIInv == JanitorTypeOK /\ Ways /\ RowsTracked
-----------------------------------------------------------------------------
(* Operations and deltas *)

\* A thread that is idle has an operation too.
LEMMA NoWorkType == NoWork \in Work /\ WayOK(NoWork)
                    /\ NoWork.pc = "idle" /\ NoWork.via = "none"
<1>1. (CHOOSE e \in Edges : TRUE) \in Edges /\ (CHOOSE r \in Rows : TRUE) \in Rows
  BY JanitorAssumption
<1>2. [e \in {} |-> 0] \in Deltas
  BY DEF Deltas
<1> QED BY <1>1, <1>2 DEF NoWork, Work, WayOK, Uncounted, Saving

\* One thread goes on: its own operation changes, those of the others do not.
LEMMA OneContinues ==
    ASSUME work \in [Threads -> Work], NEW t \in Threads, NEW w \in Work, Continue(t, w)
    PROVE  /\ work' \in [Threads -> Work] /\ work'[t] = w
           /\ \A o \in Threads \ {t} : work'[o] = work[o]
BY DEF Continue

\* The pending changes and a drained delta stay deltas; a delta laid over a
\* graph's relations is again relations.
LEMMA DeltaLaidOver ==
    ASSUME NEW old \in Deltas, NEW e \in Edges, NEW strength \in 0..MaxStrength,
           NEW relations \in [Edges -> 0..MaxStrength]
    PROVE  /\ LaidOver([x \in {e} |-> strength], old) \in Deltas
           /\ LaidOver(old, relations) \in [Edges -> 0..MaxStrength]
           /\ [x \in {} |-> 0] \in Deltas
<1>1. PICK changed \in SUBSET Edges : old \in [changed -> 0..MaxStrength]
  BY DEF Deltas
<1>2. LaidOver([x \in {e} |-> strength], old) \in [changed \cup {e} -> 0..MaxStrength]
  BY <1>1 DEF LaidOver
<1>3. LaidOver(old, relations) \in [Edges -> 0..MaxStrength]
  BY <1>1 DEF LaidOver
<1>4. [x \in {} |-> 0] \in [{} -> 0..MaxStrength]
  OBVIOUS
<1>5. LaidOver([x \in {e} |-> strength], old) \in Deltas
  BY <1>2 DEF Deltas
<1>6. [x \in {} |-> 0] \in Deltas
  BY <1>4 DEF Deltas
<1> QED BY <1>3, <1>5, <1>6

\* A step of one thread that leaves the rows alone, and the thread with what it
\* carries, forgets no row.
LEMMA RowsLeftAlone ==
    ASSUME RowsTracked, NEW t \in Threads,
           UNCHANGED <<rows, dirty_set, stored_rows>>, holes \subseteq holes',
           \A o \in Threads \ {t} : work'[o] = work[o],
           \A r \in Rows : Carries(work[t], r) => Carries(work'[t], r)
    PROVE  RowsTracked'
<1>1. CASE "unmarked upsert" \in holes
  BY <1>1 DEF RowsTracked
<1>2. CASE "unmarked upsert" \notin holes
  <2> SUFFICES ASSUME NEW r \in Rows, stored_rows[r] # rows[r]
               PROVE  r \in dirty_set \/ \E o \in Threads : Carries(work'[o], r)
    BY DEF RowsTracked, Carries
  <2>1. r \in dirty_set \/ \E o \in Threads : Carries(work[o], r)
    BY <1>2 DEF RowsTracked, Carries
  <2> QED BY <2>1
<1> QED BY <1>1, <1>2
-----------------------------------------------------------------------------
(* Changes of the graph *)

\* Types a step of thread t starts from.
LEMMA Before ==
    ASSUME JanitorIInv, NEW t \in Threads
    PROVE  /\ work \in [Threads -> Work] /\ work[t] \in Work /\ WayOK(work[t])
           /\ kg \in Graph /\ stored_graph \in Graph /\ pending \in Deltas
           /\ persistence \in [revision : Nat, dirty : BOOLEAN, full_save_required : BOOLEAN]
           /\ holes \subseteq Hazards /\ used \in [changes : Nat, row_changes : Nat, faults : Nat]
           /\ rel_lock \in Threads \cup {"free"} /\ (rel_lock = t => work[t].pc \in Uncounted)
BY DEF JanitorIInv, JanitorTypeOK, Ways

\* A step of thread t preserves the invariant when it leaves the rows alone and
\* keeps its variables in their types.
LEMMA GraphSideStep ==
    ASSUME JanitorIInv, NEW t \in Threads, NEW w \in Work, Continue(t, w), WayOK(w),
           UNCHANGED <<rows, dirty_set, stored_rows>>,
           holes \subseteq holes', holes' \subseteq Hazards,
           kg' \in Graph, stored_graph' \in Graph, pending' \in Deltas,
           persistence' \in [revision : Nat, dirty : BOOLEAN, full_save_required : BOOLEAN],
           persistence'.full_save_required => persistence'.dirty,
           used' \in [changes : Nat, row_changes : Nat, faults : Nat],
           rel_lock' \in {rel_lock, t, "free"}, rel_lock' = t => w.pc \in Uncounted,
           \A r \in Rows : Carries(work[t], r) => Carries(w, r)
    PROVE  JanitorIInv'
<1>1. /\ work' \in [Threads -> Work] /\ work'[t] = w
      /\ \A o \in Threads \ {t} : work'[o] = work[o]
  BY Before, OneContinues
<1>2. rel_lock' \in Threads \cup {"free"}
      /\ \A o \in Threads : rel_lock' = o => work'[o].pc \in Uncounted
  BY <1>1, JanitorAssumption DEF JanitorIInv, JanitorTypeOK
<1>3. JanitorTypeOK'
  BY <1>1, <1>2 DEF JanitorIInv, JanitorTypeOK
<1>4. Ways'
  BY <1>1 DEF JanitorIInv, Ways, WayOK
<1>5. RowsTracked'
  BY <1>1, RowsLeftAlone DEF JanitorIInv
<1> QED BY <1>3, <1>4, <1>5 DEF JanitorIInv

\* What MarkDirty and MarkSaved make of the persistence state is one.
LEMMA Marks ==
    ASSUME JanitorTypeOK,
           (\E full \in BOOLEAN : MarkDirty(full)) \/ (\E n \in Nat : MarkSaved(n))
             \/ UNCHANGED persistence
    PROVE  /\ persistence' \in [revision : Nat, dirty : BOOLEAN, full_save_required : BOOLEAN]
           /\ persistence'.full_save_required => persistence'.dirty
<1> USE DEF JanitorTypeOK
<1>1. ASSUME NEW full \in BOOLEAN, MarkDirty(full)
      PROVE  /\ persistence' \in [revision : Nat, dirty : BOOLEAN, full_save_required : BOOLEAN]
             /\ persistence'.dirty
  BY <1>1 DEF MarkDirty
<1>2. ASSUME NEW n \in Nat, MarkSaved(n)
      PROVE  /\ persistence' \in [revision : Nat, dirty : BOOLEAN, full_save_required : BOOLEAN]
             /\ persistence'.full_save_required => persistence'.dirty
  BY <1>2 DEF MarkSaved
<1> QED BY <1>1, <1>2

\* The counts of what has happened stay counts.
LEMMA Counts ==
    ASSUME used \in [changes : Nat, row_changes : Nat, faults : Nat]
    PROVE  /\ [used EXCEPT !.changes = @ + 1] \in [changes : Nat, row_changes : Nat, faults : Nat]
           /\ [used EXCEPT !.row_changes = @ + 1] \in [changes : Nat, row_changes : Nat, faults : Nat]
           /\ SaveFails => used' \in [changes : Nat, row_changes : Nat, faults : Nat]
BY DEF SaveFails

LEMMA ChangeInv ==
    ASSUME JanitorIInv, NEW t \in Threads, NEW new \in Graph,
           NEW pc \in {"queue", "queue_for", "mark", "mark_full"}, NEW edge \in Edges,
           NEW strength \in 0..MaxStrength, NEW keeps_lock \in BOOLEAN,
           Change(t, new, pc, edge, strength, keeps_lock)
    PROVE  JanitorIInv'
<1> DEFINE w == [work[t] EXCEPT !.pc = pc, !.edge = edge, !.copy = strength]
<1>1. work[t] \in Work /\ WayOK(work[t]) /\ work[t].via = "none" /\ strength \in Nat
  BY Before, JanitorAssumption DEF Change, In, WayOK
<1>2. w \in Work /\ w.pc = pc /\ w.via = "none" /\ w.copy = strength
      /\ w.row = work[t].row
  BY <1>1 DEF Work, Uncounted
<1>3. WayOK(w) /\ \A r \in Rows : Carries(work[t], r) => Carries(w, r)
  BY <1>1, <1>2 DEF WayOK, Carries, Change, In, Uncounted, Saving
<1>4. Continue(t, w) /\ kg' = new /\ rel_lock' \in {rel_lock, t, "free"}
      /\ UNCHANGED <<pending, persistence, rows, dirty_set, stored_graph, stored_rows, holes>>
      /\ used' = [used EXCEPT !.changes = @ + 1]
  BY DEF Change, rowVars, storedVars
<1>5. w.pc \in Uncounted
  BY <1>2 DEF Uncounted
<1>6. JanitorTypeOK
  BY DEF JanitorIInv
<1> HIDE DEF w
<1> QED BY <1>2, <1>3, <1>4, <1>5, <1>6, Before, Marks, Counts, GraphSideStep

LEMMA ChangesInv ==
    ASSUME JanitorIInv, NEW t \in Threads,
           \/ \E e \in Edges : \/ \E strength \in 1..MaxStrength : AddRelation(t, e, strength)
                               \/ RemoveRelation(t, e) \/ RemoveRelationsFor(t, e)
                               \/ ReinforceEdge(t, e)
           \/ DecayRelations(t) \/ ChangeConcepts(t)
    PROVE  JanitorIInv'
<1>0. kg \in Graph /\ kg.relations \in [Edges -> 0..MaxStrength] /\ work[t].edge \in Edges
  BY Before DEF Graph, Work
<1>1. MaxStrength \in Nat
  BY JanitorAssumption
<1>2. ASSUME NEW e \in Edges, NEW n \in 0..MaxStrength
      PROVE  [kg EXCEPT !.relations[e] = n] \in Graph
  BY <1>0, <1>2 DEF Graph
<1>3. ASSUME NEW e \in Edges, NEW strength \in 1..MaxStrength, AddRelation(t, e, strength)
      PROVE  JanitorIInv'
  <2> DEFINE new == [kg EXCEPT !.relations[e] = strength]
  <2>1. strength \in 0..MaxStrength
    BY <1>1
  <2>2. new \in Graph
    BY <1>2, <2>1
  <2>3. Change(t, new, "queue", e, strength, TRUE)
    BY <1>3 DEF AddRelation
  <2> HIDE DEF new
  <2> QED BY <2>1, <2>2, <2>3, ChangeInv
<1>4. ASSUME NEW e \in Edges, RemoveRelation(t, e) \/ RemoveRelationsFor(t, e)
      PROVE  JanitorIInv'
  <2> DEFINE new == [kg EXCEPT !.relations[e] = 0]
  <2>1. new \in Graph /\ 0 \in 0..MaxStrength
    BY <1>1, <1>2
  <2>2. Change(t, new, "queue", e, 0, TRUE) \/ Change(t, new, "queue_for", e, 0, TRUE)
    BY <1>4 DEF RemoveRelation, RemoveRelationsFor
  <2> HIDE DEF new
  <2> QED BY <2>1, <2>2, ChangeInv
<1>5. ASSUME NEW e \in Edges, ReinforceEdge(t, e) PROVE JanitorIInv'
  <2>1. kg.relations[e] + 1 \in 0..MaxStrength
    BY <1>0, <1>1, <1>5 DEF ReinforceEdge
  <2>2. [kg EXCEPT !.relations[e] = @ + 1] = [kg EXCEPT !.relations[e] = kg.relations[e] + 1]
    OBVIOUS
  <2> QED BY <1>2, <1>5, <2>1, <2>2, ChangeInv DEF ReinforceEdge
<1>6. CASE DecayRelations(t)
  <2>1. \A e \in Edges : (IF kg.relations[e] > 0 THEN kg.relations[e] - 1 ELSE 0) \in 0..MaxStrength
    BY <1>0, <1>1
  <2>2. [kg EXCEPT !.relations = [e \in Edges |-> IF @[e] > 0 THEN @[e] - 1 ELSE 0]] \in Graph
    BY <1>0, <2>1 DEF Graph
  <2> DEFINE new == [kg EXCEPT !.relations = [e \in Edges |-> IF @[e] > 0 THEN @[e] - 1 ELSE 0]]
  <2>3. Change(t, new, "mark_full", work[t].edge, 0, TRUE)
    BY <1>6 DEF DecayRelations
  <2>4. new \in Graph /\ 0 \in 0..MaxStrength
    BY <1>1, <2>2
  <2> HIDE DEF new
  <2> QED BY <1>0, <2>3, <2>4, ChangeInv
<1>7. CASE ChangeConcepts(t)
  <2>1. [kg EXCEPT !.concepts = @ + 1] \in Graph
    BY <1>0 DEF Graph
  <2> DEFINE new == [kg EXCEPT !.concepts = @ + 1]
  <2>2. Change(t, new, "mark", work[t].edge, 0, FALSE)
    BY <1>7 DEF ChangeConcepts
  <2>3. new \in Graph /\ 0 \in 0..MaxStrength
    BY <1>1, <2>1
  <2> HIDE DEF new
  <2> QED BY <1>0, <2>2, <2>3, ChangeInv
<1> QED BY <1>3, <1>4, <1>5, <1>6, <1>7

\* The rest of a change: it is queued, counted, and a removed memory leaves its
\* concept.
LEMMA CountingInv ==
    ASSUME JanitorIInv, NEW t \in Threads,
           \/ QueueChange(t) \/ CountChange(t) \/ CountRemoval(t) \/ RemoveMember(t) \/ NoMember(t)
    PROVE  JanitorIInv'
<1> DEFINE next(pc) == [work[t] EXCEPT !.pc = pc]
<1>1. work[t] \in Work /\ WayOK(work[t]) /\ JanitorTypeOK
  BY Before DEF JanitorIInv
<1>2. work[t].via = "none" /\ work[t].pc # "auto_upsert"
  BY <1>1 DEF WayOK, QueueChange, CountChange, CountRemoval, RemoveMember, NoMember, In, Uncounted
<1>3. ASSUME NEW pc \in {"mark", "mark_for", "members"}
      PROVE  /\ next(pc) \in Work /\ WayOK(next(pc)) /\ next(pc).pc = pc
             /\ \A r \in Rows : Carries(work[t], r) => Carries(next(pc), r)
  BY <1>1, <1>2 DEF Work, WayOK, Carries, Uncounted, Saving
<1>4. \A r \in Rows : Carries(work[t], r) => Carries(NoWork, r)
  BY <1>2 DEF Carries
<1> HIDE DEF next
<1>5. CASE QueueChange(t)
  <2>1. \E pc \in {"mark", "mark_for"} : Continue(t, next(pc))
    BY <1>5 DEF QueueChange, Become, next
  <2>2. work[t].edge \in Edges /\ work[t].copy \in 0..MaxStrength
    BY <1>1, <1>5 DEF QueueChange, WayOK, Work
  <2>3. pending' \in Deltas
    <3>1. pending \in Deltas /\ kg.relations \in [Edges -> 0..MaxStrength]
      BY Before DEF Graph
    <3> QED BY <1>5, <2>2, <3>1, DeltaLaidOver DEF QueueChange
  <2>4. holes \subseteq holes' /\ holes' \subseteq Hazards
    BY <1>5, Before DEF QueueChange, Hazards
  <2>5. UNCHANGED <<kg, persistence, rel_lock, rows, dirty_set, stored_graph, stored_rows, used>>
    BY <1>5 DEF QueueChange, rowVars, storedVars
  <2>6. {"mark", "mark_for"} \subseteq Uncounted
    BY DEF Uncounted
  <2>7. PICK pc \in {"mark", "mark_for"} : Continue(t, next(pc))
    BY <2>1
  <2> QED BY <1>1, <1>3, <2>3, <2>4, <2>5, <2>6, <2>7, Before, Marks, GraphSideStep
<1>6. CASE CountChange(t)
  <2>1. Continue(t, NoWork) /\ (\E full \in BOOLEAN : MarkDirty(full))
        /\ rel_lock' \in {rel_lock, "free"} /\ rel_lock' # t
        /\ UNCHANGED <<kg, pending, rows, dirty_set, stored_graph, stored_rows, holes, used>>
    BY <1>6, JanitorAssumption DEF CountChange, Leave, rowVars, storedVars, In
  <2> QED BY <1>1, <1>4, <2>1, Before, Marks, NoWorkType, GraphSideStep
<1>7. CASE CountRemoval(t)
  <2>1. Continue(t, next("members")) /\ MarkDirty(FALSE) /\ rel_lock' = "free" /\ "free" # t
        /\ UNCHANGED <<kg, pending, rows, dirty_set, stored_graph, stored_rows, holes, used>>
    BY <1>7, JanitorAssumption DEF CountRemoval, Become, rowVars, storedVars, next
  <2> QED BY <1>1, <1>3, <2>1, Before, Marks, GraphSideStep
<1>8. CASE RemoveMember(t)
  <2>1. Continue(t, next("mark")) /\ kg' = [kg EXCEPT !.concepts = @ + 1]
        /\ UNCHANGED <<pending, persistence, rel_lock, rows, dirty_set, stored_graph, stored_rows, holes, used>>
    BY <1>8 DEF RemoveMember, Become, rowVars, storedVars, next
  <2>2. kg' \in Graph
    BY <2>1, Before DEF Graph
  <2>3. "mark" \in Uncounted
    BY DEF Uncounted
  <2> QED BY <1>1, <1>3, <2>1, <2>2, <2>3, Before, Marks, GraphSideStep
<1>9. CASE NoMember(t)
  <2>1. Continue(t, NoWork) /\ rel_lock # t
        /\ UNCHANGED <<kg, pending, persistence, rel_lock, rows, dirty_set, stored_graph, stored_rows, holes, used>>
    BY <1>9, Before DEF NoMember, Leave, graphVars, rowVars, storedVars, In, Uncounted
  <2> QED BY <1>1, <1>4, <2>1, Before, Marks, NoWorkType, GraphSideStep
<1> QED BY <1>5, <1>6, <1>7, <1>8, <1>9
-----------------------------------------------------------------------------
(* persist_knowledge_graph *)

LEMMA PersistInv == ASSUME JanitorIInv, NEW t \in Threads, PersistStep(t) PROVE JanitorIInv'
<1> DEFINE Steps == Saving \cup {"auto_drain", "row_mark"}
           Moved(w) == /\ w \in Work /\ w.pc \in Steps /\ w.via = work[t].via
                       /\ w.row = work[t].row
                       /\ w.pc = "auto_drain" => w.via = "auto"
                       /\ w.pc = "row_mark" => w.via = "row"
<1>1. /\ work[t] \in Work /\ WayOK(work[t]) /\ JanitorTypeOK
      /\ persistence.revision \in Nat
  BY Before DEF JanitorIInv
<1>2. work[t].pc \in {"persist"} \cup Saving
  BY DEF PersistStep, BeginPersist, DrainDelta, SaveDelta, SaveDeltaFails, MarkDelta, Fallback,
         DrainBeforeFull, SaveFull, SaveFullFails, MarkFull, In, Saving
<1>3. work[t].via \in {"row", "auto"} /\ rel_lock # t /\ work[t].pc # "auto_upsert"
  BY <1>1, <1>2, Before DEF WayOK, Uncounted, Saving
<1>4. Persisted(t) \in Steps /\ (Persisted(t) = "auto_drain" => work[t].via = "auto")
      /\ (Persisted(t) = "row_mark" => work[t].via = "row")
  BY <1>3 DEF Persisted
<1>5. ASSUME NEW w, Moved(w)
      PROVE  WayOK(w) /\ \A r \in Rows : Carries(work[t], r) => Carries(w, r)
  BY <1>3, <1>5 DEF WayOK, Carries, Uncounted, Saving
\* Every step moves the thread on ...
<1>6. \E w : Moved(w) /\ Continue(t, w)
  <2>1. ASSUME NEW pc \in Steps, pc = "auto_drain" => work[t].via = "auto",
               pc = "row_mark" => work[t].via = "row",
               NEW n \in Nat, NEW delta \in Deltas
        PROVE  /\ Moved([work[t] EXCEPT !.pc = pc])
               /\ Moved([work[t] EXCEPT !.pc = pc, !.revision = n])
               /\ Moved([work[t] EXCEPT !.delta = delta, !.pc = pc])
    BY <1>1, <2>1 DEF Work, Saving
  <2>2. pending \in Deltas
    BY Before
  <2> HIDE DEF Moved
  <2>3. CASE BeginPersist(t)
    <3> DEFINE pc == CASE ~persistence.dirty -> Persisted(t)
                       [] persistence.full_save_required -> "drain_full"
                       [] OTHER -> "drain"
    <3>1. pc \in Steps /\ (pc = "auto_drain" => work[t].via = "auto")
          /\ (pc = "row_mark" => work[t].via = "row")
      BY <1>4, Before DEF Saving
    <3>2. Continue(t, [work[t] EXCEPT !.pc = pc, !.revision = persistence.revision])
      BY <2>3 DEF BeginPersist
    <3> HIDE DEF pc
    <3> QED BY <1>1, <2>1, <2>2, <3>1, <3>2
  <2>4. CASE DrainDelta(t)
    <3> DEFINE pc == IF Cardinality(DOMAIN pending) \in 1..MAX_DELTA THEN "save_delta" ELSE "fallback"
    <3>1. pc \in Steps /\ pc # "auto_drain" /\ pc # "row_mark"
      BY DEF Saving
    <3>2. Continue(t, [work[t] EXCEPT !.delta = pending, !.pc = pc])
      BY <2>4 DEF DrainDelta
    <3> HIDE DEF pc
    <3> QED BY <1>1, <2>1, <2>2, <3>1, <3>2
  <2>5. CASE Fallback(t)
    <3> DEFINE pc == IF persistence.dirty THEN "drain_full" ELSE Persisted(t)
    <3>1. pc \in Steps /\ (pc = "auto_drain" => work[t].via = "auto")
          /\ (pc = "row_mark" => work[t].via = "row")
      BY <1>4 DEF Saving
    <3>2. Continue(t, [work[t] EXCEPT !.pc = pc, !.revision = persistence.revision])
      BY <2>5 DEF Fallback
    <3> HIDE DEF pc
    <3> QED BY <1>1, <2>1, <2>2, <3>1, <3>2
  <2>6. CASE SaveDelta(t) \/ SaveDeltaFails(t) \/ MarkDelta(t) \/ DrainBeforeFull(t)
             \/ SaveFull(t) \/ SaveFullFails(t) \/ MarkFull(t)
    <3>1. \E pc \in {"mark_delta", "fallback", "save_full", "mark_saved", Persisted(t)} : Become(t, pc)
      BY <2>6 DEF SaveDelta, SaveDeltaFails, MarkDelta, DrainBeforeFull, SaveFull, SaveFullFails, MarkFull
    <3>2. PICK pc \in {"mark_delta", "fallback", "save_full", "mark_saved", Persisted(t)} : Become(t, pc)
      BY <3>1
    <3>3. pc \in Steps /\ (pc = "auto_drain" => work[t].via = "auto")
          /\ (pc = "row_mark" => work[t].via = "row")
      BY <1>4, <3>2 DEF Saving
    <3> QED BY <1>1, <2>1, <2>2, <3>2, <3>3 DEF Become
  <2> QED BY <2>3, <2>4, <2>5, <2>6 DEF PersistStep
\* ... and leaves every other variable in its type.
<1>7. /\ UNCHANGED <<kg, rel_lock, rows, dirty_set, stored_rows>>
      /\ holes \subseteq holes' /\ holes' \subseteq Hazards
      /\ used' \in [changes : Nat, row_changes : Nat, faults : Nat]
  BY Before, Counts DEF PersistStep, BeginPersist, DrainDelta, SaveDelta, SaveDeltaFails, MarkDelta, Fallback,
        DrainBeforeFull, SaveFull, SaveFullFails, MarkFull, graphVars, rowVars, storedVars, Hazards
<1>8. pending' \in Deltas
  <2>1. [e \in {} |-> 0] \in Deltas
    BY DEF Deltas
  <2>2. pending \in Deltas
    BY Before
  <2> QED BY <2>1, <2>2 DEF PersistStep, BeginPersist, DrainDelta, SaveDelta, SaveDeltaFails, MarkDelta, Fallback,
        DrainBeforeFull, SaveFull, SaveFullFails, MarkFull, graphVars
<1>9. stored_graph' \in Graph
  <2>1. CASE SaveDelta(t)
    <3>1. work[t].delta \in Deltas /\ stored_graph.relations \in [Edges -> 0..MaxStrength]
          /\ kg.concepts \in Nat
      BY <1>1, Before DEF Work, Graph
    <3>2. LaidOver(work[t].delta, stored_graph.relations) \in [Edges -> 0..MaxStrength]
      <4>1. PICK e \in Edges : TRUE
        BY JanitorAssumption
      <4>2. 0 \in 0..MaxStrength
        BY JanitorAssumption
      <4> QED BY <3>1, <4>1, <4>2, DeltaLaidOver
    <3> QED BY <2>1, <3>1, <3>2 DEF SaveDelta, Graph
  <2>2. CASE ~SaveDelta(t)
    <3>1. stored_graph' \in {stored_graph, kg}
      BY <2>2 DEF PersistStep, BeginPersist, DrainDelta, SaveDeltaFails, MarkDelta, Fallback,
         DrainBeforeFull, SaveFull, SaveFullFails, MarkFull, storedVars
    <3> QED BY <3>1, Before
  <2> QED BY <2>1, <2>2
<1>10. /\ persistence' \in [revision : Nat, dirty : BOOLEAN, full_save_required : BOOLEAN]
       /\ persistence'.full_save_required => persistence'.dirty
  <2>1. (\E n \in Nat : MarkSaved(n)) \/ UNCHANGED persistence
    <3>1. work[t].revision \in Nat
      BY <1>1 DEF Work
    <3> QED BY <3>1 DEF PersistStep, BeginPersist, DrainDelta, SaveDelta, SaveDeltaFails, MarkDelta, Fallback,
        DrainBeforeFull, SaveFull, SaveFullFails, MarkFull, graphVars
  <2> QED BY <1>1, <2>1, Marks
<1>11. PICK w : Moved(w) /\ Continue(t, w)
  BY <1>6
<1>12. w \in Work /\ WayOK(w) /\ \A r \in Rows : Carries(work[t], r) => Carries(w, r)
  BY <1>5, <1>11
<1>13. kg' \in Graph /\ rel_lock' \in {rel_lock, t, "free"} /\ rel_lock' # t
  BY <1>3, <1>7, Before
<1> HIDE DEF Moved, Steps
<1> QED BY <1>7, <1>8, <1>9, <1>10, <1>11, <1>12, <1>13, GraphSideStep
-----------------------------------------------------------------------------
(* Rows *)

\* A step that changes rows keeps the graph's side as it is.
LEMMA RowSideTypes ==
    ASSUME JanitorIInv, NEW t \in Threads, NEW w \in Work, Continue(t, w), WayOK(w),
           UNCHANGED <<kg, pending, persistence, rel_lock, stored_graph>>,
           work[t].pc \notin Uncounted,
           rows' \in [Rows -> Nat], stored_rows' \in [Rows -> Nat], dirty_set' \subseteq Rows,
           holes' \subseteq Hazards, used' \in [changes : Nat, row_changes : Nat, faults : Nat]
    PROVE  /\ JanitorTypeOK' /\ Ways' /\ work'[t] = w
           /\ \A o \in Threads \ {t} : work'[o] = work[o]
<1>1. /\ work' \in [Threads -> Work] /\ work'[t] = w
      /\ \A o \in Threads \ {t} : work'[o] = work[o]
  BY Before, OneContinues
<1>2. \A o \in Threads : rel_lock = o => work'[o].pc \in Uncounted
  BY <1>1, Before DEF JanitorIInv, JanitorTypeOK
<1> QED BY <1>1, <1>2 DEF JanitorIInv, JanitorTypeOK, Ways, WayOK

\* Rows that a step changes or stops carrying are clean, dirty or carried after it.
LEMMA RowsStillTracked ==
    ASSUME RowsTracked, NEW t \in Threads, holes \subseteq holes',
           \A o \in Threads \ {t} : work'[o] = work[o],
           \A r \in Rows :
              \/ stored_rows'[r] = rows'[r] \/ r \in dirty_set' \/ Carries(work'[t], r)
              \/ /\ stored_rows'[r] = stored_rows[r] /\ rows'[r] = rows[r]
                 /\ r \in dirty_set => r \in dirty_set'
                 /\ ~Carries(work[t], r)
              \/ "unmarked upsert" \in holes'
    PROVE  RowsTracked'
<1> SUFFICES ASSUME "unmarked upsert" \notin holes', NEW r \in Rows, stored_rows'[r] # rows'[r]
             PROVE  r \in dirty_set' \/ \E o \in Threads : Carries(work'[o], r)
  BY DEF RowsTracked, Carries
<1>1. stored_rows[r] # rows[r] => r \in dirty_set \/ \E o \in Threads : Carries(work[o], r)
  BY DEF RowsTracked, Carries
<1>2. CASE r \in dirty_set' \/ Carries(work'[t], r)
  BY <1>2
<1>3. CASE /\ stored_rows'[r] = stored_rows[r] /\ rows'[r] = rows[r]
           /\ r \in dirty_set => r \in dirty_set'
           /\ ~Carries(work[t], r)
  BY <1>1, <1>3
<1> QED BY <1>2, <1>3

LEMMA WriterInv ==
    ASSUME JanitorIInv, NEW t \in Threads,
           \/ \E r \in Rows, via \in {"row", "direct"} : ChangeRow(t, r, via)
           \/ CopyRow(t) \/ MarkRow(t)
    PROVE  JanitorIInv'
<1>1. /\ work[t] \in Work /\ WayOK(work[t]) /\ JanitorTypeOK /\ RowsTracked
  BY Before DEF JanitorIInv
<1>2. work[t].pc \notin Uncounted
  BY DEF ChangeRow, CopyRow, MarkRow, In, Uncounted
<1>3. ASSUME NEW r \in Rows, NEW via \in {"row", "direct"}, ChangeRow(t, r, via) PROVE JanitorIInv'
  <2> DEFINE w == [work[t] EXCEPT !.pc = "row_copy", !.via = via, !.row = r]
  <2>1. /\ Continue(t, w) /\ rows' = [rows EXCEPT ![r] = @ + 1] /\ work[t].pc = "idle"
        /\ used' = [used EXCEPT !.row_changes = @ + 1]
        /\ UNCHANGED <<kg, pending, persistence, rel_lock, dirty_set, stored_graph, stored_rows, holes>>
    BY <1>3 DEF ChangeRow, In, graphVars, storedVars
  <2>2. w \in Work /\ w.pc = "row_copy" /\ w.via = via /\ w.row = r
    BY <1>1 DEF Work
  <2>3. WayOK(w) /\ Carries(w, r) /\ \A x \in Rows : ~Carries(work[t], x)
    BY <1>1, <2>1, <2>2 DEF WayOK, Carries, Uncounted, Saving
  <2>4. rows' \in [Rows -> Nat] /\ \A x \in Rows \ {r} : rows'[x] = rows[x]
    BY <1>1, <2>1 DEF JanitorTypeOK
  <2>5. used' \in [changes : Nat, row_changes : Nat, faults : Nat]
    BY <2>1, Before, Counts
  <2> HIDE DEF w
  <2>6. JanitorTypeOK' /\ Ways' /\ work'[t] = w /\ \A o \in Threads \ {t} : work'[o] = work[o]
    BY <1>1, <1>2, <2>1, <2>2, <2>3, <2>4, <2>5, RowSideTypes DEF JanitorTypeOK
  <2>7. RowsTracked'
    <3>1. ASSUME NEW x \in Rows
          PROVE  \/ Carries(work'[t], x)
                 \/ /\ stored_rows'[x] = stored_rows[x] /\ rows'[x] = rows[x]
                    /\ dirty_set' = dirty_set /\ ~Carries(work[t], x)
      BY <2>1, <2>3, <2>4, <2>6
    <3>2. holes \subseteq holes'
      BY <2>1
    <3> QED BY <1>1, <2>6, <3>1, <3>2, RowsStillTracked
  <2> QED BY <2>6, <2>7 DEF JanitorIInv
<1>4. CASE CopyRow(t)
  <2> DEFINE w == [work[t] EXCEPT !.pc = "row_upsert", !.copy = rows[work[t].row]]
  <2>1. /\ Continue(t, w) /\ work[t].pc = "row_copy"
        /\ UNCHANGED <<kg, pending, persistence, rel_lock, rows, dirty_set, stored_graph, stored_rows, holes, used>>
    BY <1>4 DEF CopyRow, In, graphVars, rowVars, storedVars
  <2>2. rows[work[t].row] \in Nat
    BY <1>1 DEF JanitorTypeOK, Work
  <2>3. w \in Work /\ w.pc = "row_upsert" /\ w.via = work[t].via /\ w.row = work[t].row
    BY <1>1, <2>2 DEF Work
  <2>4. WayOK(w) /\ \A x \in Rows : Carries(work[t], x) => Carries(w, x)
    BY <1>1, <2>1, <2>3 DEF WayOK, Carries, Uncounted, Saving
  <2> HIDE DEF w
  <2>5. JanitorTypeOK' /\ Ways' /\ work'[t] = w /\ \A o \in Threads \ {t} : work'[o] = work[o]
    BY <1>1, <1>2, <2>1, <2>3, <2>4, RowSideTypes DEF JanitorTypeOK
  <2>6. RowsTracked'
    BY <1>1, <2>1, <2>4, <2>5, RowsLeftAlone
  <2> QED BY <2>5, <2>6 DEF JanitorIInv
<1>5. CASE MarkRow(t)
  <2>1. /\ Continue(t, NoWork) /\ work[t].pc = "row_mark" /\ dirty_set' = dirty_set \cup {work[t].row}
        /\ UNCHANGED <<kg, pending, persistence, rel_lock, rows, stored_graph, stored_rows, holes, used>>
    BY <1>5 DEF MarkRow, Leave, In, graphVars, storedVars
  <2>2. work[t].row \in Rows /\ \A x \in Rows : Carries(work[t], x) => x = work[t].row
    BY <1>1, <2>1 DEF Work, Carries
  <2>3. JanitorTypeOK' /\ Ways' /\ \A o \in Threads \ {t} : work'[o] = work[o]
    BY <1>1, <1>2, <2>1, <2>2, NoWorkType, RowSideTypes DEF JanitorTypeOK
  <2>4. RowsTracked'
    BY <1>1, <2>1, <2>2, <2>3, RowsStillTracked
  <2> QED BY <2>3, <2>4 DEF JanitorIInv
<1> QED BY <1>3, <1>4, <1>5

LEMMA UpsertRowInv ==
    ASSUME JanitorIInv, NEW t \in Threads, NEW works \in BOOLEAN, UpsertRow(t, works)
    PROVE  JanitorIInv'
<1> DEFINE row == work[t].row
           w == IF work[t].via = "row" THEN [work[t] EXCEPT !.pc = "persist"] ELSE NoWork
<1>1. /\ work[t] \in Work /\ WayOK(work[t]) /\ JanitorTypeOK /\ RowsTracked
      /\ work[t].pc = "row_upsert" /\ row \in Rows
  BY Before DEF JanitorIInv, UpsertRow, In, Work
<1>2. work[t].pc \notin Uncounted /\ work[t].via \in {"row", "direct"}
  BY <1>1 DEF Uncounted, WayOK
<1>3. Continue(t, w) /\ UNCHANGED <<kg, pending, persistence, rel_lock, rows, dirty_set, stored_graph>>
  BY DEF UpsertRow, Leave, Become, graphVars, rowVars
<1>4. w \in Work /\ WayOK(w) /\ (work[t].via = "row" => w.via = "row" /\ w.row = row)
  <2>1. CASE work[t].via = "row"
    <3>1. w \in Work /\ w.pc = "persist" /\ w.via = "row" /\ w.row = row
      BY <1>1, <2>1 DEF Work
    <3> QED BY <3>1 DEF WayOK, Uncounted, Saving
  <2> QED BY <2>1, NoWorkType
<1>5. stored_rows' \in [Rows -> Nat] /\ (\A x \in Rows \ {row} : stored_rows'[x] = stored_rows[x])
      /\ (works => stored_rows'[row] = work[t].copy)
  <2>1. work[t].copy \in Nat
    BY <1>1 DEF Work
  <2> QED BY <1>1, <2>1 DEF UpsertRow, JanitorTypeOK
<1>6. used' \in [changes : Nat, row_changes : Nat, faults : Nat]
  BY Before, Counts DEF UpsertRow
<1>7. /\ holes \subseteq holes' /\ holes' \subseteq Hazards
      /\ work[t].via # "row" =>
            "unmarked upsert" \in holes' \/ (works /\ work[t].copy = rows[row])
  BY Before DEF UpsertRow, Hazards
<1> HIDE DEF w
<1>8. JanitorTypeOK' /\ Ways' /\ work'[t] = w /\ \A o \in Threads \ {t} : work'[o] = work[o]
  BY <1>1, <1>2, <1>3, <1>4, <1>5, <1>6, <1>7, RowSideTypes DEF JanitorTypeOK
<1>9. \A x \in Rows : Carries(work[t], x) => x = row
  BY <1>1, <1>2 DEF Carries
<1>10. work[t].via = "row" => Carries(work'[t], row)
  BY <1>4, <1>8 DEF Carries
<1>11. RowsTracked'
  BY <1>1, <1>3, <1>5, <1>7, <1>8, <1>9, <1>10, RowsStillTracked
<1> QED BY <1>8, <1>11 DEF JanitorIInv

LEMMA AutoSaveInv ==
    ASSUME JanitorIInv, NEW t \in Threads,
           AutoSave(t) \/ AutoDrain(t) \/ AutoUpsertFails(t) \/ AutoUpsert(t)
    PROVE  JanitorIInv'
<1>1. /\ work[t] \in Work /\ WayOK(work[t]) /\ JanitorTypeOK /\ RowsTracked
  BY Before DEF JanitorIInv
<1>2. work[t].pc \in {"idle", "auto_drain", "auto_upsert"} /\ work[t].pc \notin Uncounted
      /\ work[t].via \in {"none", "auto"}
  BY <1>1 DEF AutoSave, AutoDrain, AutoUpsertFails, AutoUpsert, In, Uncounted, WayOK
<1>3. \A x \in Rows : Carries(work[t], x) => work[t].pc = "auto_upsert" /\ x \in work[t].ids
  BY <1>2 DEF Carries
<1>4. CASE AutoSave(t)
  <2> DEFINE w == [work[t] EXCEPT !.pc = "persist", !.via = "auto"]
  <2>1. /\ Continue(t, w) /\ work[t].pc = "idle"
        /\ UNCHANGED <<kg, pending, persistence, rel_lock, rows, dirty_set, stored_graph, stored_rows, holes, used>>
    BY <1>4 DEF AutoSave, In, graphVars, rowVars, storedVars
  <2>2. w \in Work /\ WayOK(w)
    BY <1>1 DEF Work, WayOK, Uncounted, Saving
  <2> HIDE DEF w
  <2>3. JanitorTypeOK' /\ Ways' /\ \A o \in Threads \ {t} : work'[o] = work[o]
    BY <1>1, <1>2, <2>1, <2>2, RowSideTypes DEF JanitorTypeOK
  <2>4. RowsTracked'
    BY <1>1, <1>3, <2>1, <2>3, RowsStillTracked
  <2> QED BY <2>3, <2>4 DEF JanitorIInv
<1>5. CASE AutoDrain(t)
  <2> DEFINE w == [work[t] EXCEPT !.pc = "auto_upsert", !.ids = dirty_set]
  <2>1. /\ Continue(t, w) /\ work[t].pc = "auto_drain" /\ dirty_set' = {}
        /\ UNCHANGED <<kg, pending, persistence, rel_lock, rows, stored_graph, stored_rows, holes, used>>
    BY <1>5 DEF AutoDrain, In, graphVars, storedVars
  <2>2. dirty_set \subseteq Rows /\ work[t].via = "auto"
    BY <1>1, <2>1 DEF JanitorTypeOK, WayOK
  <2>3. w \in Work /\ w.pc = "auto_upsert" /\ w.via = "auto" /\ w.ids = dirty_set
    BY <1>1, <2>2 DEF Work
  <2>4. WayOK(w) /\ \A x \in Rows : x \in dirty_set => Carries(w, x)
    BY <2>3 DEF WayOK, Carries, Uncounted, Saving
  <2> HIDE DEF w
  <2>5. JanitorTypeOK' /\ Ways' /\ work'[t] = w /\ \A o \in Threads \ {t} : work'[o] = work[o]
    BY <1>1, <1>2, <2>1, <2>3, <2>4, RowSideTypes DEF JanitorTypeOK
  <2>6. RowsTracked'
    BY <1>1, <1>3, <2>1, <2>4, <2>5, RowsStillTracked
  <2> QED BY <2>5, <2>6 DEF JanitorIInv
<1>6. CASE AutoUpsertFails(t)
  <2>1. /\ Continue(t, NoWork) /\ SaveFails /\ dirty_set' = dirty_set \cup work[t].ids
        /\ UNCHANGED <<kg, pending, persistence, rel_lock, rows, stored_graph, stored_rows, holes>>
    BY <1>6 DEF AutoUpsertFails, Leave, graphVars, storedVars
  <2>2. work[t].ids \subseteq Rows /\ used' \in [changes : Nat, row_changes : Nat, faults : Nat]
    BY <1>1, <2>1, Before, Counts DEF Work
  <2>3. JanitorTypeOK' /\ Ways' /\ \A o \in Threads \ {t} : work'[o] = work[o]
    BY <1>1, <1>2, <2>1, <2>2, NoWorkType, RowSideTypes DEF JanitorTypeOK
  <2>4. RowsTracked'
    BY <1>1, <1>3, <2>1, <2>3, RowsStillTracked
  <2> QED BY <2>3, <2>4 DEF JanitorIInv
<1>7. CASE AutoUpsert(t)
  <2>1. /\ Continue(t, NoWork)
        /\ stored_rows' = [r \in Rows |-> IF r \in work[t].ids THEN rows[r] ELSE stored_rows[r]]
        /\ UNCHANGED <<kg, pending, persistence, rel_lock, rows, dirty_set, stored_graph, holes, used>>
    BY <1>7 DEF AutoUpsert, Leave, graphVars, rowVars
  <2>2. stored_rows' \in [Rows -> Nat]
    BY <1>1, <2>1 DEF JanitorTypeOK
  <2>3. JanitorTypeOK' /\ Ways' /\ \A o \in Threads \ {t} : work'[o] = work[o]
    BY <1>1, <1>2, <2>1, <2>2, NoWorkType, RowSideTypes DEF JanitorTypeOK
  <2>4. RowsTracked'
    BY <1>1, <1>3, <2>1, <2>3, RowsStillTracked
  <2> QED BY <2>3, <2>4 DEF JanitorIInv
<1> QED BY <1>4, <1>5, <1>6, <1>7
-----------------------------------------------------------------------------
(* What keeps the saved graph the graph in memory *)

\* A change of the graph that is made and not yet counted: of anything, and of
\* one relation whose strength is still to be queued (or of all of them at once,
\* which are never queued).
BeingChanged == \E t \in Threads : work[t].pc \in Uncounted
ToBeQueued(e) ==
    \E t \in Threads : \/ work[t].pc \in {"queue", "queue_for"} /\ work[t].edge = e
                       \/ work[t].pc = "mark_full"

\* The strength of a relation that the database comes to hold when what is drained
\* and what is pending is written is the one in memory.
Reaches(e) ==
    IF e \in DOMAIN pending THEN pending[e] = kg.relations[e]
    ELSE \/ \E t \in Threads : /\ In(t, "save_delta") /\ e \in DOMAIN work[t].delta
                               /\ work[t].delta[e] = kg.relations[e]
         \/ /\ \A t \in Threads : In(t, "save_delta") => e \notin DOMAIN work[t].delta
            /\ stored_graph.relations[e] = kg.relations[e]
OnItsWay(e) == ToBeQueued(e) \/ Reaches(e)
PendingIsNew(e) == ToBeQueued(e) \/ (e \in DOMAIN pending => pending[e] = kg.relations[e])

\* The graph has changed since a thread took the revision; and is to be saved whole.
Outdated(w) == w.revision < persistence.revision
SavedAgain(w) == Outdated(w) /\ persistence.full_save_required

\* Where one save stands.
SaveOK(w) ==
    /\ w.pc \in Saving => persistence.dirty
    /\ w.pc \in {"drain", "save_delta", "mark_delta"} /\ persistence.full_save_required => Outdated(w)
    /\ w.pc = "save_delta" => Outdated(w) \/ BeingChanged \/ DOMAIN pending = {}
    /\ w.pc = "save_full" => SavedAgain(w) \/ \A e \in Edges : PendingIsNew(e)
    /\ w.pc = "mark_saved" => SavedAgain(w) \/ \A e \in Edges : OnItsWay(e)
    /\ w.pc \in {"mark_delta", "mark_saved"} => Outdated(w) \/ BeingChanged \/ stored_graph = kg

OneSave == \A t, o \in Threads : work[t].pc \in Saving /\ work[o].pc \in Saving => t = o
WholeSaveAhead == \/ persistence.full_save_required
                  \/ \E t \in Threads : work[t].pc \in {"fallback", "drain_full", "save_full"}

\* No save took a revision that is yet to come; and, as long as the hazards that
\* CleanIsSaved lets out have not happened: one save at a time, each change of a
\* relation on its way to the database or a save of the whole graph ahead, every
\* save where it should be, and the dirty mark on a graph that differs.
Tamed == holes \subseteq {"unmarked upsert"}
GraphSaved ==
    /\ OneSave
    /\ WholeSaveAhead \/ \A e \in Edges : OnItsWay(e)
    /\ \A t \in Threads : SaveOK(work[t])
    /\ persistence.dirty \/ BeingChanged \/ stored_graph = kg
RevisionsTaken == \A t \in Threads : work[t].revision <= persistence.revision
SavesIInv == RevisionsTaken /\ (Tamed => GraphSaved)

\* A thread goes on with the operation w, the others stay where they are.
WorkMoves(t, w) == work'[t] = w /\ \A o \in Threads \ {t} : work'[o] = work[o]

LEMMA ReachesStays ==
    ASSUME NEW t \in Threads, NEW w, WorkMoves(t, w), NEW e \in Edges,
           work[t].pc # "save_delta", w.pc # "save_delta",
           UNCHANGED <<pending, stored_graph>>, kg'.relations[e] = kg.relations[e]
    PROVE  Reaches(e)' <=> Reaches(e)
<1>1. (\E o \in Threads : /\ In(o, "save_delta") /\ e \in DOMAIN work[o].delta
                          /\ work[o].delta[e] = kg.relations[e])'
      <=> \E o \in Threads : /\ In(o, "save_delta") /\ e \in DOMAIN work[o].delta
                             /\ work[o].delta[e] = kg.relations[e]
  BY DEF WorkMoves, In
<1>2. (\A o \in Threads : In(o, "save_delta") => e \notin DOMAIN work[o].delta)'
      <=> \A o \in Threads : In(o, "save_delta") => e \notin DOMAIN work[o].delta
  BY DEF WorkMoves, In
<1> QED BY <1>1, <1>2 DEF Reaches

\* What is to be queued still is, unless this thread was to queue it.
LEMMA QueuersStay ==
    ASSUME NEW t \in Threads, NEW w, WorkMoves(t, w), NEW e
    PROVE  /\ ToBeQueued(e) => \/ ToBeQueued(e)' \/ work[t].pc = "mark_full"
                               \/ work[t].pc \in {"queue", "queue_for"} /\ work[t].edge = e
           /\ BeingChanged => BeingChanged' \/ work[t].pc \in Uncounted
           /\ w.pc \in Uncounted => BeingChanged'
           /\ w.pc = "mark_full" => ToBeQueued(e)'
           /\ w.pc \in {"queue", "queue_for"} /\ w.edge = e => ToBeQueued(e)'
BY DEF WorkMoves, ToBeQueued, BeingChanged

\* A step that leaves the graph's side alone, of a thread outside of it.
LEMMA QuietSaves ==
    ASSUME SavesIInv, NEW t \in Threads, NEW w, WorkMoves(t, w), holes \subseteq holes',
           UNCHANGED <<kg, pending, persistence, stored_graph>>,
           work[t].pc \notin Uncounted \cup Saving, w.pc \notin Uncounted \cup Saving,
           w.revision <= persistence.revision
    PROVE  SavesIInv'
<1>1. RevisionsTaken'
  BY DEF SavesIInv, RevisionsTaken, WorkMoves
<1>2. ASSUME Tamed' PROVE GraphSaved'
  <2>1. Tamed /\ GraphSaved
    BY <1>2 DEF Tamed, SavesIInv
  <2>2. work[t].pc \notin {"save_delta", "mark_full", "queue", "queue_for", "fallback", "drain_full", "save_full"}
        /\ w.pc \notin {"save_delta", "mark_full", "queue", "queue_for", "fallback", "drain_full", "save_full"}
    BY DEF Uncounted, Saving
  <2>3. /\ \A e \in Edges : OnItsWay(e) => OnItsWay(e)'
        /\ \A e \in Edges : PendingIsNew(e) => PendingIsNew(e)'
        /\ BeingChanged => BeingChanged'
    BY <2>2, ReachesStays, QueuersStay DEF OnItsWay, PendingIsNew
  <2>4. OneSave'
    BY <2>1 DEF GraphSaved, OneSave, WorkMoves
  <2>5. WholeSaveAhead => WholeSaveAhead'
    BY <2>2 DEF WholeSaveAhead, WorkMoves
  <2>6. ASSUME NEW o \in Threads PROVE SaveOK(work[o])'
    <3>1. CASE o = t
      BY <3>1 DEF WorkMoves, SaveOK, Saving
    <3>2. CASE o # t
      <4>1. SaveOK(work[o]) /\ work'[o] = work[o]
        BY <2>1, <3>2 DEF GraphSaved, WorkMoves
      <4> QED BY <2>3, <4>1 DEF SaveOK, SavedAgain, Outdated
    <3> QED BY <3>1, <3>2
  <2> QED BY <2>1, <2>3, <2>4, <2>5, <2>6 DEF GraphSaved
<1> QED BY <1>1, <1>2 DEF SavesIInv

\* A change begins, of one relation, of all of them or of the concepts: it is
\* queued or saved whole later, and counted later.
LEMMA ChangeSaves ==
    ASSUME SavesIInv, NEW t \in Threads, NEW w, WorkMoves(t, w), holes \subseteq holes',
           UNCHANGED <<pending, persistence, stored_graph>>,
           work[t].pc \notin Uncounted \cup Saving, w.pc \in Uncounted,
           w.revision = work[t].revision,
           \A e \in Edges : \/ kg'.relations[e] = kg.relations[e]
                            \/ w.pc \in {"queue", "queue_for"} /\ w.edge = e
                            \/ w.pc = "mark_full"
    PROVE  SavesIInv'
<1>1. RevisionsTaken'
  BY DEF SavesIInv, RevisionsTaken, WorkMoves
<1>2. ASSUME Tamed' PROVE GraphSaved'
  <2>1. Tamed /\ GraphSaved
    BY <1>2 DEF Tamed, SavesIInv
  <2>2. /\ work[t].pc \notin {"save_delta", "mark_full", "queue", "queue_for", "fallback", "drain_full", "save_full"}
        /\ w.pc \notin Saving /\ w.pc # "save_delta"
    BY DEF Uncounted, Saving
  <2>3. BeingChanged'
    BY QueuersStay
  <2>4. ASSUME NEW e \in Edges
        PROVE  (OnItsWay(e) => OnItsWay(e)') /\ (PendingIsNew(e) => PendingIsNew(e)')
    <3>1. CASE kg'.relations[e] = kg.relations[e]
      BY <2>2, <3>1, ReachesStays, QueuersStay DEF OnItsWay, PendingIsNew
    <3>2. CASE kg'.relations[e] # kg.relations[e]
      <4>1. ToBeQueued(e)'
        BY <3>2, QueuersStay
      <4> QED BY <4>1 DEF OnItsWay, PendingIsNew
    <3> QED BY <3>1, <3>2
  <2>5. OneSave'
    BY <2>1, <2>2 DEF GraphSaved, OneSave, WorkMoves
  <2>6. WholeSaveAhead => WholeSaveAhead'
    BY <2>2 DEF WholeSaveAhead, WorkMoves
  <2>7. ASSUME NEW o \in Threads PROVE SaveOK(work[o])'
    <3>1. CASE o = t
      BY <2>2, <3>1 DEF WorkMoves, SaveOK, Saving
    <3>2. CASE o # t
      <4>1. SaveOK(work[o]) /\ work'[o] = work[o]
        BY <2>1, <3>2 DEF GraphSaved, WorkMoves
      <4> QED BY <2>3, <2>4, <4>1 DEF SaveOK, SavedAgain, Outdated
    <3> QED BY <3>1, <3>2
  <2> QED BY <2>1, <2>3, <2>4, <2>5, <2>6, <2>7 DEF GraphSaved
<1> QED BY <1>1, <1>2 DEF SavesIInv

\* The strength is queued; it is the one in memory, or a hazard has happened.
LEMMA QueueSaves ==
    ASSUME SavesIInv, NEW t \in Threads, NEW w, WorkMoves(t, w), holes \subseteq holes',
           UNCHANGED <<kg, persistence, stored_graph>>,
           work[t].pc \in {"queue", "queue_for"}, w.pc \in {"mark", "mark_for"},
           w.revision = work[t].revision, work[t].edge \in Edges,
           pending' = LaidOver([x \in {work[t].edge} |-> work[t].copy], pending),
           Tamed' => work[t].copy = kg.relations[work[t].edge]
    PROVE  SavesIInv'
<1>1. RevisionsTaken'
  BY DEF SavesIInv, RevisionsTaken, WorkMoves
<1>2. ASSUME Tamed' PROVE GraphSaved'
  <2>1. Tamed /\ GraphSaved
    BY <1>2 DEF Tamed, SavesIInv
  <2>2. w.pc \notin Saving /\ w.pc \in Uncounted /\ work[t].pc \notin Saving
    BY DEF Uncounted, Saving
  <2>3. BeingChanged'
    BY <2>2, QueuersStay
  <2>4. /\ work[t].edge \in DOMAIN pending' /\ pending'[work[t].edge] = kg.relations[work[t].edge]
        /\ \A e \in Edges \ {work[t].edge} :
              /\ e \in DOMAIN pending' <=> e \in DOMAIN pending
              /\ e \in DOMAIN pending => pending'[e] = pending[e]
    BY <1>2 DEF LaidOver
  <2>5. ASSUME NEW e \in Edges
        PROVE  (OnItsWay(e) => OnItsWay(e)') /\ (PendingIsNew(e) => PendingIsNew(e)')
    <3>1. CASE e = work[t].edge
      BY <2>4, <3>1 DEF OnItsWay, PendingIsNew, Reaches
    <3>2. CASE e # work[t].edge
      <4>1. ToBeQueued(e) => ToBeQueued(e)'
        BY <3>2, QueuersStay
      <4>2. (\E o \in Threads : /\ In(o, "save_delta") /\ e \in DOMAIN work[o].delta
                                /\ work[o].delta[e] = kg.relations[e])'
            <=> \E o \in Threads : /\ In(o, "save_delta") /\ e \in DOMAIN work[o].delta
                                   /\ work[o].delta[e] = kg.relations[e]
        BY DEF WorkMoves, In
      <4>3. (\A o \in Threads : In(o, "save_delta") => e \notin DOMAIN work[o].delta)'
            <=> \A o \in Threads : In(o, "save_delta") => e \notin DOMAIN work[o].delta
        BY DEF WorkMoves, In
      <4>4. Reaches(e) => Reaches(e)'
        BY <2>4, <3>2, <4>2, <4>3 DEF Reaches
      <4> QED BY <2>4, <3>2, <4>1, <4>4 DEF OnItsWay, PendingIsNew
    <3> QED BY <3>1, <3>2
  <2>6. OneSave'
    BY <2>1, <2>2 DEF GraphSaved, OneSave, WorkMoves
  <2>7. WholeSaveAhead => WholeSaveAhead'
    BY DEF WholeSaveAhead, WorkMoves
  <2>8. ASSUME NEW o \in Threads PROVE SaveOK(work[o])'
    <3>1. CASE o = t
      BY <2>2, <3>1 DEF WorkMoves, SaveOK, Saving
    <3>2. CASE o # t
      <4>1. SaveOK(work[o]) /\ work'[o] = work[o]
        BY <2>1, <3>2 DEF GraphSaved, WorkMoves
      <4> QED BY <2>3, <2>5, <4>1 DEF SaveOK, SavedAgain, Outdated
    <3> QED BY <3>1, <3>2
  <2> QED BY <2>1, <2>3, <2>5, <2>6, <2>7, <2>8 DEF GraphSaved
<1> QED BY <1>1, <1>2 DEF SavesIInv

\* A change is counted: the graph is dirty, and every revision taken so far is old.
LEMMA CountSaves ==
    ASSUME SavesIInv, NEW t \in Threads, NEW w, WorkMoves(t, w), holes \subseteq holes',
           UNCHANGED <<kg, pending, stored_graph>>, persistence.revision \in Nat,
           work \in [Threads -> Work], w \in Work,
           work[t].pc \in {"mark", "mark_full", "mark_for"}, w.pc \in {"idle", "members"},
           MarkDirty(work[t].pc = "mark_full"), w.revision <= persistence.revision
    PROVE  SavesIInv'
<1>0. /\ persistence'.revision = persistence.revision + 1 /\ persistence'.dirty
      /\ persistence'.full_save_required
            <=> persistence.full_save_required \/ work[t].pc = "mark_full"
  BY DEF MarkDirty
<1>1. \A o \in Threads : Outdated(work[o])'
  <2>1. \A o \in Threads : work[o].revision \in Nat /\ work[o].revision <= persistence.revision
    BY DEF Work, SavesIInv, RevisionsTaken
  <2>2. w.revision \in Nat
    BY DEF Work
  <2>3. \A o \in Threads : work'[o].revision < persistence.revision + 1
    BY <2>1, <2>2 DEF WorkMoves
  <2> QED BY <1>0, <2>3 DEF Outdated
<1>2. RevisionsTaken'
  <2>1. \A o \in Threads : work'[o].revision \in Nat
    BY DEF WorkMoves, Work
  <2> QED BY <1>0, <1>1, <2>1 DEF RevisionsTaken, Outdated
<1>3. ASSUME Tamed' PROVE GraphSaved'
  <2>1. Tamed /\ GraphSaved
    BY <1>3 DEF Tamed, SavesIInv
  <2>2. w.pc \notin Saving /\ work[t].pc \notin Saving
    BY DEF Saving
  <2>3. ASSUME work[t].pc # "mark_full", NEW e \in Edges
        PROVE  (OnItsWay(e) => OnItsWay(e)') /\ (PendingIsNew(e) => PendingIsNew(e)')
    BY <2>3, ReachesStays, QueuersStay DEF OnItsWay, PendingIsNew
  <2>4. OneSave'
    BY <2>1, <2>2 DEF GraphSaved, OneSave, WorkMoves
  <2>5. WholeSaveAhead => WholeSaveAhead'
    BY <1>0 DEF WholeSaveAhead, WorkMoves
  <2>6. work[t].pc = "mark_full" => WholeSaveAhead' /\ \A o \in Threads : SavedAgain(work[o])'
    BY <1>0, <1>1 DEF WholeSaveAhead, SavedAgain, Outdated
  <2>7. ASSUME NEW o \in Threads PROVE SaveOK(work[o])'
    <3>1. CASE o = t
      BY <2>2, <3>1 DEF WorkMoves, SaveOK, Saving
    <3>2. CASE o # t
      <4>1. SaveOK(work[o]) /\ work'[o] = work[o] /\ Outdated(work[o])'
        BY <1>1, <2>1, <3>2 DEF GraphSaved, WorkMoves
      <4>2. SavedAgain(work[o]) => SavedAgain(work[o])'
        BY <1>0, <4>1 DEF SavedAgain
      <4> QED BY <1>0, <2>3, <2>6, <4>1, <4>2 DEF SaveOK
    <3> QED BY <3>1, <3>2
  <2> QED BY <1>0, <2>1, <2>3, <2>4, <2>5, <2>6, <2>7 DEF GraphSaved
<1> QED BY <1>2, <1>3 DEF SavesIInv

\* The step of a save, or the one that begins it: no other thread is saving, and no
\* change begins or is counted.
LEMMA OneSaves ==
    ASSUME GraphSaved, NEW t \in Threads, NEW w, WorkMoves(t, w),
           \/ work[t].pc \in Saving
           \/ \A o \in Threads \ {t} : work[o].pc \notin Saving,
           work[t].pc \notin Uncounted, w.pc \notin Uncounted
    PROVE  /\ OneSave' /\ \A o \in Threads \ {t} : work[o].pc \notin Saving /\ work'[o] = work[o]
           /\ BeingChanged' <=> BeingChanged
           /\ \A e \in Edges : ToBeQueued(e)' <=> ToBeQueued(e)
<1>1. \A o \in Threads \ {t} : work[o].pc \notin Saving /\ work'[o] = work[o]
  BY DEF GraphSaved, OneSave, WorkMoves
<1>2. OneSave'
  BY <1>1 DEF OneSave
<1>3. BeingChanged' <=> BeingChanged
  BY DEF BeingChanged, WorkMoves
<1>4. \A e \in Edges : ToBeQueued(e)' <=> ToBeQueued(e)
  BY DEF ToBeQueued, WorkMoves, Uncounted
<1> QED BY <1>1, <1>2, <1>3, <1>4

\* It preserves the invariant when it leaves its own save where it should be.
LEMMA OneSaveStep ==
    ASSUME SavesIInv, NEW t \in Threads, NEW w, WorkMoves(t, w), holes \subseteq holes',
           w.revision <= persistence.revision, persistence'.revision = persistence.revision,
           Tamed' /\ GraphSaved =>
              /\ OneSave' /\ \A o \in Threads \ {t} : work[o].pc \notin Saving
              /\ WholeSaveAhead' \/ \A e \in Edges : OnItsWay(e)'
              /\ SaveOK(work[t])'
              /\ persistence'.dirty \/ BeingChanged' \/ stored_graph' = kg'
    PROVE  SavesIInv'
<1>1. RevisionsTaken'
  BY DEF SavesIInv, RevisionsTaken, WorkMoves
<1>2. ASSUME Tamed' PROVE GraphSaved'
  <2>1. Tamed /\ GraphSaved
    BY <1>2 DEF Tamed, SavesIInv
  <2>2. ASSUME NEW o \in Threads PROVE SaveOK(work[o])'
    <3>1. CASE o = t
      BY <1>2, <2>1, <3>1
    <3>2. CASE o # t
      <4>1. work'[o].pc \notin Saving
        BY <1>2, <2>1, <3>2 DEF WorkMoves
      <4> QED BY <4>1 DEF SaveOK, Saving
    <3> QED BY <3>1, <3>2
  <2> QED BY <1>2, <2>1, <2>2 DEF GraphSaved
<1> QED BY <1>1, <1>2 DEF SavesIInv

\* The types that a step of a save starts from, and what it does to its thread.
LEMMA SaveBefore ==
    ASSUME JanitorIInv, SavesIInv, NEW t \in Threads
    PROVE  /\ work[t] \in Work /\ work[t].revision \in Nat /\ persistence.revision \in Nat
           /\ work[t].revision <= persistence.revision
           /\ \A w : Continue(t, w) => WorkMoves(t, w)
           /\ \A pc : Become(t, pc) => WorkMoves(t, [work[t] EXCEPT !.pc = pc])
           /\ \A pc : /\ [work[t] EXCEPT !.pc = pc].pc = pc
                      /\ [work[t] EXCEPT !.pc = pc].revision = work[t].revision
                      /\ [work[t] EXCEPT !.pc = pc].delta = work[t].delta
                      /\ [work[t] EXCEPT !.pc = pc].edge = work[t].edge
           /\ Persisted(t) \notin Saving \cup Uncounted
<1>1. work \in [Threads -> Work] /\ work[t] \in Work /\ persistence.revision \in Nat
  BY Before
<1>2. work[t].revision \in Nat /\ work[t].revision <= persistence.revision
  BY <1>1 DEF Work, SavesIInv, RevisionsTaken
<1>3. \A w : Continue(t, w) => WorkMoves(t, w)
  BY <1>1 DEF Continue, WorkMoves
<1>4. \A pc : Become(t, pc) => WorkMoves(t, [work[t] EXCEPT !.pc = pc])
  BY <1>3 DEF Become
<1>5. \A pc : /\ [work[t] EXCEPT !.pc = pc].pc = pc
              /\ [work[t] EXCEPT !.pc = pc].revision = work[t].revision
              /\ [work[t] EXCEPT !.pc = pc].delta = work[t].delta
              /\ [work[t] EXCEPT !.pc = pc].edge = work[t].edge
  BY <1>1 DEF Work
<1>6. Persisted(t) \notin Saving \cup Uncounted
  BY DEF Persisted, Saving, Uncounted
<1> QED BY <1>1, <1>2, <1>3, <1>4, <1>5, <1>6

\* A save begins with the revision of a dirty graph; on a clean one there is none.
LEMMA BeginSaves ==
    ASSUME JanitorIInv, SavesIInv, NEW t \in Threads, BeginPersist(t)
    PROVE  SavesIInv'
<1> DEFINE pc == CASE ~persistence.dirty -> Persisted(t)
                   [] persistence.full_save_required -> "drain_full"
                   [] OTHER -> "drain"
           w == [work[t] EXCEPT !.pc = pc, !.revision = persistence.revision]
<1>1. work[t].pc = "persist" /\ work[t].pc \notin Saving \cup Uncounted
  BY DEF BeginPersist, In, Saving, Uncounted
<1>2. /\ WorkMoves(t, w) /\ holes \subseteq holes'
      /\ UNCHANGED <<kg, pending, persistence, stored_graph>>
      /\ Tamed' /\ persistence.dirty => \A o \in Threads \ {t} : work[o].pc \notin Saving
  BY SaveBefore DEF BeginPersist, graphVars, storedVars, Tamed, Others
<1>3. w.revision = persistence.revision /\ w.pc = pc
  BY SaveBefore DEF Work
<1>4. CASE ~persistence.dirty
  <2>1. pc = Persisted(t)
    BY <1>4 DEF JanitorIInv, JanitorTypeOK
  <2> HIDE DEF pc
  <2>3. w.pc \notin Saving \cup Uncounted
    BY <1>3, <2>1, SaveBefore
  <2>2. w.revision <= persistence.revision
    BY <1>3, SaveBefore
  <2> HIDE DEF w
  <2> QED BY <1>1, <1>2, <2>2, <2>3, QuietSaves
<1>5. CASE persistence.dirty
  <2>1. w.pc = IF persistence.full_save_required THEN "drain_full" ELSE "drain"
    BY <1>3, <1>5 DEF JanitorIInv, JanitorTypeOK
  <2>2. w.pc \in {"drain_full", "drain"} /\ w.pc \notin Uncounted /\ w.pc # "save_delta"
    BY <2>1 DEF Uncounted
  <2>3. w.revision <= persistence.revision /\ persistence'.revision = persistence.revision
    BY <1>2, <1>3, SaveBefore
  <2> HIDE DEF w, pc
  <2>4. ASSUME Tamed', GraphSaved
        PROVE  /\ OneSave' /\ \A o \in Threads \ {t} : work[o].pc \notin Saving
               /\ WholeSaveAhead' \/ \A e \in Edges : OnItsWay(e)'
               /\ SaveOK(work[t])'
               /\ persistence'.dirty \/ BeingChanged' \/ stored_graph' = kg'
    <3>1. /\ OneSave' /\ \A o \in Threads \ {t} : work[o].pc \notin Saving
          /\ \A e \in Edges : ToBeQueued(e)' <=> ToBeQueued(e)
      BY <1>1, <1>2, <1>5, <2>2, <2>4, OneSaves
    <3>2. \A e \in Edges : Reaches(e)' <=> Reaches(e)
      <4>1. work[t].pc # "save_delta"
        BY <1>1
      <4> QED BY <1>2, <2>2, <4>1, ReachesStays
    <3>3. WholeSaveAhead => WholeSaveAhead'
      BY <1>1, <1>2 DEF WholeSaveAhead, WorkMoves
    <3>4. WholeSaveAhead' \/ \A e \in Edges : OnItsWay(e)'
      BY <2>4, <3>1, <3>2, <3>3 DEF GraphSaved, OnItsWay
    <3>5. SaveOK(work[t])'
      BY <1>2, <1>5, <2>1 DEF SaveOK, WorkMoves
    <3> QED BY <1>2, <1>5, <3>1, <3>4, <3>5
  <2> QED BY <1>2, <2>3, <2>4, OneSaveStep
<1> QED BY <1>4, <1>5, Before

\* The pending changes are drained into a delta, or the whole graph is to be saved.
LEMMA DrainSaves ==
    ASSUME JanitorIInv, SavesIInv, NEW t \in Threads, DrainDelta(t)
    PROVE  SavesIInv'
<1> DEFINE pc == IF Cardinality(DOMAIN pending) \in 1..MAX_DELTA THEN "save_delta" ELSE "fallback"
           w == [work[t] EXCEPT !.delta = pending, !.pc = pc]
<1>1. work[t].pc = "drain" /\ work[t].pc \in Saving /\ work[t].pc \notin Uncounted
  BY DEF DrainDelta, In, Saving, Uncounted
<1>2. /\ WorkMoves(t, w) /\ holes \subseteq holes' /\ pending' = [e \in {} |-> 0]
      /\ UNCHANGED <<kg, persistence, stored_graph>>
  BY SaveBefore DEF DrainDelta, storedVars
<1>3. w.revision = work[t].revision /\ w.pc = pc /\ w.delta = pending
  BY SaveBefore DEF Work
<1>4. w.pc \in {"save_delta", "fallback"} /\ w.pc \notin Uncounted
  BY <1>3 DEF Uncounted
<1>5. w.revision <= persistence.revision /\ persistence'.revision = persistence.revision
  BY <1>2, <1>3, SaveBefore
<1> HIDE DEF w, pc
<1>6. ASSUME Tamed', GraphSaved
      PROVE  /\ OneSave' /\ \A o \in Threads \ {t} : work[o].pc \notin Saving
             /\ WholeSaveAhead' \/ \A e \in Edges : OnItsWay(e)'
             /\ SaveOK(work[t])'
             /\ persistence'.dirty \/ BeingChanged' \/ stored_graph' = kg'
  <2>1. /\ OneSave' /\ \A o \in Threads \ {t} : work[o].pc \notin Saving /\ work'[o] = work[o]
        /\ \A e \in Edges : ToBeQueued(e)' <=> ToBeQueued(e)
    BY <1>1, <1>2, <1>4, <1>6, OneSaves
  <2>2. SaveOK(work[t]) /\ persistence.dirty
    BY <1>1, <1>6 DEF GraphSaved, SaveOK
  <2>3. SaveOK(work[t])'
    BY <1>1, <1>2, <1>3, <1>4, <2>2 DEF SaveOK, WorkMoves, Outdated
  <2>4. WholeSaveAhead' \/ \A e \in Edges : OnItsWay(e)'
    <3>1. CASE w.pc = "fallback" \/ persistence.full_save_required
      BY <1>2, <3>1 DEF WholeSaveAhead, WorkMoves
    <3>2. CASE w.pc = "save_delta" /\ ~persistence.full_save_required
      <4>1. ~WholeSaveAhead
        BY <1>1, <2>1, <3>2 DEF WholeSaveAhead, Saving
      <4>2. ASSUME NEW e \in Edges, Reaches(e) PROVE Reaches(e)'
        <5>1. \A o \in Threads : work[o].pc # "save_delta"
          BY <1>1, <2>1 DEF Saving
        <5>2. work'[t].pc = "save_delta" /\ work'[t].delta = pending
              /\ \A o \in Threads : work'[o].pc = "save_delta" => o = t
          BY <1>2, <1>3, <2>1, <3>2, <5>1 DEF WorkMoves
        <5>3. IF e \in DOMAIN pending THEN pending[e] = kg.relations[e]
              ELSE stored_graph.relations[e] = kg.relations[e]
          BY <4>2, <5>1 DEF Reaches, In
        <5>4. e \notin DOMAIN pending'
          BY <1>2
        <5> QED BY <1>2, <5>2, <5>3, <5>4 DEF Reaches, In
      <4> QED BY <1>6, <2>1, <4>1, <4>2 DEF GraphSaved, OnItsWay
    <3> QED BY <1>4, <3>1, <3>2
  <2> QED BY <1>2, <2>1, <2>2, <2>3, <2>4
<1> QED BY <1>2, <1>5, <1>6, OneSaveStep

\* The delta is written, with all concepts.
LEMMA DeltaSaves ==
    ASSUME JanitorIInv, SavesIInv, NEW t \in Threads, SaveDelta(t)
    PROVE  SavesIInv'
<1> DEFINE w == [work[t] EXCEPT !.pc = "mark_delta"]
<1>1. work[t].pc = "save_delta" /\ work[t].pc \in Saving /\ work[t].pc \notin Uncounted
  BY DEF SaveDelta, In, Saving, Uncounted
<1>2. /\ WorkMoves(t, w) /\ holes \subseteq holes' /\ UNCHANGED <<kg, pending, persistence>>
      /\ stored_graph' = [relations |-> LaidOver(work[t].delta, stored_graph.relations), concepts |-> kg.concepts]
  BY SaveBefore DEF SaveDelta, graphVars
<1>3. w.revision = work[t].revision /\ w.pc = "mark_delta" /\ w.pc \notin Uncounted
  BY SaveBefore DEF Uncounted
<1>4. w.revision <= persistence.revision /\ persistence'.revision = persistence.revision
  BY <1>2, <1>3, SaveBefore
<1> HIDE DEF w
<1>5. /\ work[t].delta \in Deltas /\ kg \in Graph /\ stored_graph \in Graph
  BY Before DEF Work
<1>6. ASSUME NEW e \in Edges
      PROVE  stored_graph'.relations[e]
                = IF e \in DOMAIN work[t].delta THEN work[t].delta[e] ELSE stored_graph.relations[e]
  <2>1. e \in DOMAIN work[t].delta \cup DOMAIN stored_graph.relations
    BY <1>5 DEF Graph
  <2> QED BY <1>2, <2>1 DEF LaidOver
<1>7. ASSUME Tamed', GraphSaved
      PROVE  /\ OneSave' /\ \A o \in Threads \ {t} : work[o].pc \notin Saving
             /\ WholeSaveAhead' \/ \A e \in Edges : OnItsWay(e)'
             /\ SaveOK(work[t])'
             /\ persistence'.dirty \/ BeingChanged' \/ stored_graph' = kg'
  <2>1. /\ OneSave' /\ \A o \in Threads \ {t} : work[o].pc \notin Saving /\ work'[o] = work[o]
        /\ BeingChanged' <=> BeingChanged
        /\ \A e \in Edges : ToBeQueued(e)' <=> ToBeQueued(e)
    BY <1>1, <1>2, <1>3, <1>7, OneSaves
  <2>2. SaveOK(work[t]) /\ persistence.dirty
    BY <1>1, <1>7 DEF GraphSaved, SaveOK
  <2>3. /\ \A o \in Threads : work[o].pc = "save_delta" => o = t
        /\ \A o \in Threads : work'[o].pc # "save_delta"
    BY <1>2, <1>3, <2>1 DEF WorkMoves, Saving
  \* What was drained has arrived.
  <2>4. ASSUME NEW e \in Edges, Reaches(e)
        PROVE  IF e \in DOMAIN pending THEN pending[e] = kg.relations[e]
               ELSE stored_graph'.relations[e] = kg.relations[e]
    BY <1>1, <1>6, <2>3, <2>4 DEF Reaches, In
  <2>5. WholeSaveAhead' \/ \A e \in Edges : OnItsWay(e)'
    <3>1. WholeSaveAhead <=> WholeSaveAhead'
      BY <1>1, <1>2, <1>3 DEF WholeSaveAhead, WorkMoves
    <3>2. ASSUME NEW e \in Edges, Reaches(e) PROVE Reaches(e)'
      BY <1>2, <2>3, <2>4, <3>2 DEF Reaches, In
    <3> QED BY <1>7, <2>1, <3>1, <3>2 DEF GraphSaved, OnItsWay
  \* With nothing changed since the revision, the database holds the graph.
  <2>6. ASSUME ~Outdated(work[t]), ~BeingChanged PROVE stored_graph' = kg
    <3>1. ~persistence.full_save_required /\ DOMAIN pending = {}
      BY <1>1, <2>2, <2>6 DEF SaveOK
    <3>2. ~WholeSaveAhead
      BY <1>1, <2>1, <3>1 DEF WholeSaveAhead, Saving
    <3>3. ASSUME NEW e \in Edges PROVE ~ToBeQueued(e)
      BY <2>6 DEF ToBeQueued, BeingChanged, Uncounted
    <3>4. ASSUME NEW e \in Edges PROVE stored_graph'.relations[e] = kg.relations[e]
      BY <1>7, <2>4, <3>1, <3>2, <3>3 DEF GraphSaved, OnItsWay
    <3>5. stored_graph' \in Graph
      <4>1. LaidOver(work[t].delta, stored_graph.relations) \in [Edges -> 0..MaxStrength]
        <5>1. PICK e \in Edges : TRUE
          BY JanitorAssumption
        <5>2. 0 \in 0..MaxStrength
          BY JanitorAssumption
        <5>3. stored_graph.relations \in [Edges -> 0..MaxStrength]
          BY <1>5 DEF Graph
        <5> QED BY <1>5, <5>1, <5>2, <5>3, DeltaLaidOver
      <4> QED BY <1>2, <1>5, <4>1 DEF Graph
    <3>6. stored_graph'.concepts = kg.concepts
      BY <1>2
    <3>7. stored_graph'.relations = kg.relations
      BY <1>5, <3>4, <3>5 DEF Graph
    <3> QED BY <1>5, <3>5, <3>6, <3>7 DEF Graph
  <2>7. SaveOK(work[t])'
    <3>1. work'[t].pc = "mark_delta" /\ work'[t].revision = work[t].revision
      BY <1>2, <1>3 DEF WorkMoves
    <3>2. persistence.full_save_required => Outdated(work[t])
      BY <1>1, <2>2 DEF SaveOK
    <3>3. Outdated(work[t]) \/ BeingChanged' \/ stored_graph' = kg'
      BY <1>2, <2>1, <2>6
    <3>4. Outdated(work[t])' <=> Outdated(work[t])
      BY <1>2, <3>1 DEF Outdated
    <3> QED BY <1>2, <2>2, <3>1, <3>2, <3>3, <3>4 DEF SaveOK
  <2> QED BY <1>2, <2>1, <2>2, <2>5, <2>7
<1> QED BY <1>2, <1>4, <1>7, OneSaveStep

\* A delta that fails, or is old when it is written, leads to a save of the whole.
LEMMA FallingSaves ==
    ASSUME JanitorIInv, SavesIInv, NEW t \in Threads, NEW w, WorkMoves(t, w), holes \subseteq holes',
           UNCHANGED <<kg, pending, stored_graph, persistence>>,
           work[t].pc \in Saving, w.pc \in {"fallback", "drain_full"},
           w.revision <= persistence.revision
    PROVE  SavesIInv'
<1>1. work[t].pc \notin Uncounted /\ w.pc \notin Uncounted
  BY DEF Saving, Uncounted
<1>2. ASSUME Tamed', GraphSaved
      PROVE  /\ OneSave' /\ \A o \in Threads \ {t} : work[o].pc \notin Saving
             /\ WholeSaveAhead' \/ \A e \in Edges : OnItsWay(e)'
             /\ SaveOK(work[t])'
             /\ persistence'.dirty \/ BeingChanged' \/ stored_graph' = kg'
  <2>1. OneSave' /\ \A o \in Threads \ {t} : work[o].pc \notin Saving
    BY <1>1, <1>2, OneSaves
  <2>2. persistence.dirty
    BY <1>2 DEF GraphSaved, SaveOK
  <2>3. WholeSaveAhead'
    BY DEF WholeSaveAhead, WorkMoves
  <2>4. SaveOK(work[t])'
    BY <2>2 DEF SaveOK, WorkMoves
  <2> QED BY <2>1, <2>2, <2>3, <2>4
<1> QED BY <1>2, OneSaveStep

\* A save ends: it clears the mark when the graph is the one it took, and leaves it
\* when that moved on.
LEMMA EndSaves ==
    ASSUME JanitorIInv, SavesIInv, NEW t \in Threads, NEW w, WorkMoves(t, w), holes \subseteq holes',
           UNCHANGED <<kg, pending, stored_graph>>, w.pc \notin Saving \cup Uncounted,
           w.revision <= persistence.revision,
           \/ In(t, "mark_delta") /\ ~Outdated(work[t])
           \/ In(t, "mark_saved"),
           MarkSaved(work[t].revision)
    PROVE  SavesIInv'
<1>1. /\ work[t].pc \in {"mark_delta", "mark_saved"}
      /\ work[t].pc \in Saving /\ work[t].pc \notin Uncounted
  BY DEF In, Saving, Uncounted
<1>2. /\ persistence \in [revision : Nat, dirty : BOOLEAN, full_save_required : BOOLEAN]
      /\ work[t].revision \in Nat /\ work[t].revision <= persistence.revision
  BY Before, SaveBefore
<1>3. persistence'.revision = persistence.revision
  BY <1>2 DEF MarkSaved
<1>4. Outdated(work[t]) <=> work[t].revision # persistence.revision
  BY <1>2 DEF Outdated
<1>5. ASSUME Tamed', GraphSaved
      PROVE  /\ OneSave' /\ \A o \in Threads \ {t} : work[o].pc \notin Saving
             /\ WholeSaveAhead' \/ \A e \in Edges : OnItsWay(e)'
             /\ SaveOK(work[t])'
             /\ persistence'.dirty \/ BeingChanged' \/ stored_graph' = kg'
  <2>1. /\ OneSave' /\ \A o \in Threads \ {t} : work[o].pc \notin Saving
        /\ BeingChanged' <=> BeingChanged
        /\ \A e \in Edges : ToBeQueued(e)' <=> ToBeQueued(e)
    BY <1>1, <1>5, OneSaves
  <2>2. SaveOK(work[t]) /\ persistence.dirty
    BY <1>1, <1>5 DEF GraphSaved, SaveOK
  <2>3. \A e \in Edges : OnItsWay(e) => OnItsWay(e)'
    <3>1. work[t].pc # "save_delta" /\ w.pc # "save_delta"
      BY <1>1 DEF Saving
    <3> QED BY <2>1, <3>1, ReachesStays DEF OnItsWay
  <2>4. SaveOK(work[t])'
    BY DEF SaveOK, WorkMoves, Saving
  <2>5. CASE Outdated(work[t])
    <3>1. persistence' = persistence /\ In(t, "mark_saved")
      BY <1>4, <2>5 DEF MarkSaved
    <3>2. persistence.full_save_required \/ \A e \in Edges : OnItsWay(e)
      BY <2>2, <3>1 DEF SaveOK, SavedAgain, In
    <3> QED BY <2>1, <2>2, <2>3, <2>4, <3>1, <3>2 DEF WholeSaveAhead
  <2>6. CASE ~Outdated(work[t])
    <3>1. BeingChanged \/ stored_graph = kg
      BY <1>1, <2>2, <2>6 DEF SaveOK
    <3>2. \A e \in Edges : OnItsWay(e)
      <4>1. CASE work[t].pc = "mark_saved"
        BY <2>2, <2>6, <4>1 DEF SaveOK, SavedAgain
      <4>2. CASE work[t].pc = "mark_delta"
        <5>1. ~persistence.full_save_required
          BY <2>2, <2>6, <4>2 DEF SaveOK
        <5>2. ~WholeSaveAhead
          BY <2>1, <4>2, <5>1 DEF WholeSaveAhead, Saving
        <5> QED BY <1>5, <5>2 DEF GraphSaved
      <4> QED BY <1>1, <4>1, <4>2
    <3> QED BY <2>1, <2>3, <2>4, <3>1, <3>2
  <2> QED BY <2>5, <2>6
<1> QED BY <1>3, <1>5, OneSaveStep

\* The pending changes are dropped before a save of the whole graph ...
LEMMA DropSaves ==
    ASSUME JanitorIInv, SavesIInv, NEW t \in Threads, DrainBeforeFull(t)
    PROVE  SavesIInv'
<1> DEFINE w == [work[t] EXCEPT !.pc = "save_full"]
<1>1. work[t].pc = "drain_full" /\ work[t].pc \in Saving /\ work[t].pc \notin Uncounted
  BY DEF DrainBeforeFull, In, Saving, Uncounted
<1>2. /\ WorkMoves(t, w) /\ holes \subseteq holes' /\ UNCHANGED <<kg, persistence, stored_graph>>
      /\ pending' = [e \in {} |-> 0]
  BY SaveBefore DEF DrainBeforeFull, storedVars
<1>3. w.revision = work[t].revision /\ w.pc = "save_full" /\ w.pc \notin Uncounted
  BY SaveBefore DEF Uncounted
<1>4. w.revision <= persistence.revision /\ persistence'.revision = persistence.revision
  BY <1>2, <1>3, SaveBefore
<1> HIDE DEF w
<1>5. ASSUME Tamed', GraphSaved
      PROVE  /\ OneSave' /\ \A o \in Threads \ {t} : work[o].pc \notin Saving
             /\ WholeSaveAhead' \/ \A e \in Edges : OnItsWay(e)'
             /\ SaveOK(work[t])'
             /\ persistence'.dirty \/ BeingChanged' \/ stored_graph' = kg'
  <2>1. OneSave' /\ \A o \in Threads \ {t} : work[o].pc \notin Saving
    BY <1>1, <1>2, <1>3, <1>5, OneSaves
  <2>2. persistence.dirty
    BY <1>1, <1>5 DEF GraphSaved, SaveOK
  <2>3. WholeSaveAhead'
    BY <1>2, <1>3 DEF WholeSaveAhead, WorkMoves
  <2>4. \A e \in Edges : PendingIsNew(e)'
    BY <1>2 DEF PendingIsNew
  <2>5. SaveOK(work[t])'
    BY <1>2, <1>3, <2>2, <2>4 DEF SaveOK, WorkMoves
  <2> QED BY <1>2, <2>1, <2>2, <2>3, <2>5
<1> QED BY <1>2, <1>4, <1>5, OneSaveStep

\* ... which writes the graph as it is in memory then.
LEMMA WholeSaves ==
    ASSUME JanitorIInv, SavesIInv, NEW t \in Threads, SaveFull(t)
    PROVE  SavesIInv'
<1> DEFINE w == [work[t] EXCEPT !.pc = "mark_saved"]
<1>1. work[t].pc = "save_full" /\ work[t].pc \in Saving /\ work[t].pc \notin Uncounted
  BY DEF SaveFull, In, Saving, Uncounted
<1>2. /\ WorkMoves(t, w) /\ holes \subseteq holes' /\ UNCHANGED <<kg, pending, persistence>>
      /\ stored_graph' = kg
  BY SaveBefore DEF SaveFull, graphVars
<1>3. w.revision = work[t].revision /\ w.pc = "mark_saved" /\ w.pc \notin Uncounted
  BY SaveBefore DEF Uncounted
<1>4. w.revision <= persistence.revision /\ persistence'.revision = persistence.revision
  BY <1>2, <1>3, SaveBefore
<1> HIDE DEF w
<1>5. ASSUME Tamed', GraphSaved
      PROVE  /\ OneSave' /\ \A o \in Threads \ {t} : work[o].pc \notin Saving
             /\ WholeSaveAhead' \/ \A e \in Edges : OnItsWay(e)'
             /\ SaveOK(work[t])'
             /\ persistence'.dirty \/ BeingChanged' \/ stored_graph' = kg'
  <2>1. /\ OneSave' /\ \A o \in Threads \ {t} : work[o].pc \notin Saving /\ work'[o] = work[o]
        /\ \A e \in Edges : ToBeQueued(e)' <=> ToBeQueued(e)
    BY <1>1, <1>2, <1>3, <1>5, OneSaves
  <2>2. SaveOK(work[t]) /\ persistence.dirty
    BY <1>1, <1>5 DEF GraphSaved, SaveOK
  <2>3. \A o \in Threads : work'[o].pc # "save_delta"
    BY <1>2, <1>3, <2>1 DEF WorkMoves, Saving
  <2>4. ASSUME NEW e \in Edges, PendingIsNew(e) PROVE OnItsWay(e)'
    BY <1>2, <2>1, <2>3, <2>4 DEF PendingIsNew, OnItsWay, Reaches, In
  <2>5. SavedAgain(work[t]) \/ \A e \in Edges : OnItsWay(e)'
    BY <1>1, <2>2, <2>4 DEF SaveOK
  <2>6. SavedAgain(work[t])' <=> SavedAgain(work[t])
    BY <1>2, <1>3 DEF WorkMoves, SavedAgain, Outdated
  <2>7. SaveOK(work[t])'
    BY <1>2, <1>3, <2>2, <2>5, <2>6 DEF SaveOK, WorkMoves
  <2>8. WholeSaveAhead' \/ \A e \in Edges : OnItsWay(e)'
    BY <1>2, <2>5 DEF WholeSaveAhead, SavedAgain
  <2> QED BY <1>2, <2>1, <2>2, <2>7, <2>8
<1> QED BY <1>2, <1>4, <1>5, OneSaveStep

\* A whole save that fails leaves a graph that must be saved whole, or a delta lost.
LEMMA WholeFails ==
    ASSUME JanitorIInv, SavesIInv, NEW t \in Threads, SaveFullFails(t)
    PROVE  SavesIInv'
<1> DEFINE w == [work[t] EXCEPT !.pc = Persisted(t)]
<1>1. work[t].pc = "save_full" /\ work[t].pc \in Saving /\ work[t].pc \notin Uncounted
  BY DEF SaveFullFails, In, Saving, Uncounted
<1>2. /\ WorkMoves(t, w) /\ holes \subseteq holes'
      /\ UNCHANGED <<kg, pending, persistence, stored_graph>>
      /\ Tamed' => persistence.full_save_required
  BY SaveBefore DEF SaveFullFails, graphVars, storedVars, Tamed
<1>3. w.revision = work[t].revision /\ w.pc \notin Saving \cup Uncounted
  BY SaveBefore
<1>4. w.revision <= persistence.revision /\ persistence'.revision = persistence.revision
  BY <1>2, <1>3, SaveBefore
<1> HIDE DEF w
<1>5. ASSUME Tamed', GraphSaved
      PROVE  /\ OneSave' /\ \A o \in Threads \ {t} : work[o].pc \notin Saving
             /\ WholeSaveAhead' \/ \A e \in Edges : OnItsWay(e)'
             /\ SaveOK(work[t])'
             /\ persistence'.dirty \/ BeingChanged' \/ stored_graph' = kg'
  <2>1. OneSave' /\ \A o \in Threads \ {t} : work[o].pc \notin Saving
    BY <1>1, <1>2, <1>3, <1>5, OneSaves
  <2>2. persistence.dirty
    BY <1>1, <1>5 DEF GraphSaved, SaveOK
  <2>3. WholeSaveAhead'
    BY <1>2, <1>5 DEF WholeSaveAhead
  <2>4. SaveOK(work[t])'
    BY <1>2, <1>3 DEF SaveOK, WorkMoves, Saving
  <2> QED BY <1>2, <2>1, <2>2, <2>3, <2>4
<1> QED BY <1>2, <1>4, <1>5, OneSaveStep

LEMMA PersistSaves ==
    ASSUME JanitorIInv, SavesIInv, NEW t \in Threads, PersistStep(t)
    PROVE  SavesIInv'
<1>1. CASE SaveDeltaFails(t)
  <2> DEFINE w == [work[t] EXCEPT !.pc = "fallback"]
  <2>1. /\ WorkMoves(t, w) /\ holes \subseteq holes' /\ work[t].pc \in Saving
        /\ UNCHANGED <<kg, pending, stored_graph, persistence>>
    BY <1>1, SaveBefore DEF SaveDeltaFails, In, Saving, graphVars, storedVars
  <2>2. w.pc = "fallback" /\ w.revision <= persistence.revision
    BY SaveBefore
  <2> HIDE DEF w
  <2> QED BY <2>1, <2>2, FallingSaves
<1>2. CASE MarkDelta(t)
  <2>1. /\ holes \subseteq holes' /\ work[t].pc = "mark_delta" /\ work[t].pc \in Saving
        /\ UNCHANGED <<kg, pending, stored_graph>> /\ MarkSaved(work[t].revision)
    BY <1>2 DEF MarkDelta, In, Saving, storedVars
  <2>2. Outdated(work[t]) <=> persistence.revision # work[t].revision
    BY SaveBefore DEF Outdated
  <2>3. CASE Outdated(work[t])
    <3> DEFINE w == [work[t] EXCEPT !.pc = "fallback"]
    <3>1. WorkMoves(t, w) /\ UNCHANGED persistence
      BY <1>2, <2>2, <2>3, SaveBefore DEF MarkDelta, MarkSaved
    <3>2. w.pc = "fallback" /\ w.revision <= persistence.revision
      BY SaveBefore
    <3> HIDE DEF w
    <3> QED BY <2>1, <3>1, <3>2, FallingSaves
  <2>4. CASE ~Outdated(work[t])
    <3> DEFINE w == [work[t] EXCEPT !.pc = Persisted(t)]
    <3>1. WorkMoves(t, w)
      BY <1>2, <2>2, <2>4, SaveBefore DEF MarkDelta
    <3>2. w.pc \notin Saving \cup Uncounted /\ w.revision <= persistence.revision
      BY SaveBefore
    <3>3. In(t, "mark_delta")
      BY <2>1 DEF In
    <3> HIDE DEF w
    <3> QED BY <2>1, <2>4, <3>1, <3>2, <3>3, EndSaves
  <2> QED BY <2>3, <2>4
<1>3. CASE MarkFull(t)
  <2> DEFINE w == [work[t] EXCEPT !.pc = Persisted(t)]
  <2>1. /\ holes \subseteq holes' /\ In(t, "mark_saved") /\ WorkMoves(t, w)
        /\ UNCHANGED <<kg, pending, stored_graph>> /\ MarkSaved(work[t].revision)
    BY <1>3, SaveBefore DEF MarkFull, storedVars
  <2>2. w.pc \notin Saving \cup Uncounted /\ w.revision <= persistence.revision
    BY SaveBefore
  <2> HIDE DEF w
  <2> QED BY <2>1, <2>2, EndSaves
<1>4. CASE Fallback(t)
  <2> DEFINE pc == IF persistence.dirty THEN "drain_full" ELSE Persisted(t)
             w == [work[t] EXCEPT !.pc = pc, !.revision = persistence.revision]
  <2>1. /\ WorkMoves(t, w) /\ holes \subseteq holes' /\ work[t].pc \in Saving
        /\ UNCHANGED <<kg, pending, stored_graph, persistence>>
    BY <1>4, SaveBefore DEF Fallback, In, Saving, graphVars, storedVars
  <2>2. w.pc = pc /\ w.revision <= persistence.revision
    BY SaveBefore DEF Work
  <2>3. CASE persistence.dirty
    <3>1. w.pc = "drain_full"
      BY <2>2, <2>3
    <3> HIDE DEF w
    <3> QED BY <2>1, <2>2, <3>1, FallingSaves
  \* Nothing left to save: only when a hazard has happened.
  <2>4. CASE ~persistence.dirty
    <3>1. ~Tamed'
      <4>1. Tamed' => Tamed
        BY <2>1 DEF Tamed
      <4>2. Tamed => SaveOK(work[t])
        BY DEF SavesIInv, GraphSaved
      <4> QED BY <2>1, <2>4, <4>1, <4>2 DEF SaveOK
    <3> HIDE DEF w
    <3>2. RevisionsTaken'
      BY <2>1, <2>2 DEF SavesIInv, RevisionsTaken, WorkMoves
    <3> QED BY <3>1, <3>2 DEF SavesIInv
  <2> QED BY <2>3, <2>4
<1> QED BY <1>1, <1>2, <1>3, <1>4, BeginSaves, DrainSaves, DeltaSaves, DropSaves, WholeSaves, WholeFails
        DEF PersistStep

\* The steps of a change, each of one of these kinds.
LEMMA GraphSaves ==
    ASSUME JanitorIInv, SavesIInv, NEW t \in Threads, GraphStep(t)
    PROVE  SavesIInv'
<1>0. kg \in Graph /\ work \in [Threads -> Work] /\ work[t] \in Work
  BY Before
<1>1. ASSUME NEW new, NEW pc \in {"queue", "queue_for", "mark", "mark_full"}, NEW edge, NEW strength,
             NEW keeps_lock, Change(t, new, pc, edge, strength, keeps_lock),
             \A e \in Edges : \/ new.relations[e] = kg.relations[e]
                              \/ pc \in {"queue", "queue_for"} /\ edge = e
                              \/ pc = "mark_full"
      PROVE  SavesIInv'
  <2> DEFINE w == [work[t] EXCEPT !.pc = pc, !.edge = edge, !.copy = strength]
  <2>1. /\ WorkMoves(t, w) /\ holes \subseteq holes' /\ kg' = new
        /\ UNCHANGED <<pending, persistence, stored_graph>>
        /\ work[t].pc \notin Uncounted \cup Saving
    BY <1>1, SaveBefore DEF Change, In, storedVars, Uncounted, Saving
  <2>2. w.pc = pc /\ w.edge = edge /\ w.revision = work[t].revision /\ w.pc \in Uncounted
    BY <1>0 DEF Work, Uncounted
  <2> HIDE DEF w
  <2> QED BY <1>1, <2>1, <2>2, ChangeSaves
<1>2. ASSUME NEW e \in Edges, NEW strength, AddRelation(t, e, strength) PROVE SavesIInv'
  <2> DEFINE new == [kg EXCEPT !.relations[e] = strength]
  <2>1. Change(t, new, "queue", e, strength, TRUE)
    BY <1>2 DEF AddRelation
  <2>2. \A x \in Edges : new.relations[x] = kg.relations[x] \/ e = x
    BY <1>0 DEF Graph
  <2> HIDE DEF new
  <2> QED BY <1>1, <2>1, <2>2
<1>3. ASSUME NEW e \in Edges, RemoveRelation(t, e) \/ RemoveRelationsFor(t, e) PROVE SavesIInv'
  <2> DEFINE new == [kg EXCEPT !.relations[e] = 0]
  <2>1. Change(t, new, "queue", e, 0, TRUE) \/ Change(t, new, "queue_for", e, 0, TRUE)
    BY <1>3 DEF RemoveRelation, RemoveRelationsFor
  <2>2. \A x \in Edges : new.relations[x] = kg.relations[x] \/ e = x
    BY <1>0 DEF Graph
  <2> HIDE DEF new
  <2> QED BY <1>1, <2>1, <2>2
<1>4. ASSUME NEW e \in Edges, ReinforceEdge(t, e) PROVE SavesIInv'
  <2> DEFINE new == [kg EXCEPT !.relations[e] = @ + 1]
  <2>1. Change(t, new, "queue", e, kg.relations[e] + 1, FALSE)
    BY <1>4 DEF ReinforceEdge
  <2>2. \A x \in Edges : new.relations[x] = kg.relations[x] \/ e = x
    BY <1>0 DEF Graph
  <2> HIDE DEF new
  <2> QED BY <1>1, <2>1, <2>2
<1>5. CASE DecayRelations(t)
  <2> DEFINE new == [kg EXCEPT !.relations = [e \in Edges |-> IF @[e] > 0 THEN @[e] - 1 ELSE 0]]
  <2>1. Change(t, new, "mark_full", work[t].edge, 0, TRUE)
    BY <1>5 DEF DecayRelations
  <2> HIDE DEF new
  <2> QED BY <1>1, <2>1
<1>6. CASE ChangeConcepts(t)
  <2> DEFINE new == [kg EXCEPT !.concepts = @ + 1]
  <2>1. Change(t, new, "mark", work[t].edge, 0, FALSE)
    BY <1>6 DEF ChangeConcepts
  <2>2. \A x \in Edges : new.relations[x] = kg.relations[x]
    BY <1>0 DEF Graph
  <2> HIDE DEF new
  <2> QED BY <1>1, <2>1, <2>2
<1>7. CASE QueueChange(t)
  <2>1. PICK pc \in {"mark", "mark_for"} : Become(t, pc)
    BY <1>7 DEF QueueChange
  <2> DEFINE w == [work[t] EXCEPT !.pc = pc]
  <2>2. /\ WorkMoves(t, w) /\ w.pc = pc /\ w.revision = work[t].revision /\ work[t].edge \in Edges
    BY <1>0, <2>1, SaveBefore DEF Work
  <2>3. /\ work[t].pc \in {"queue", "queue_for"} /\ holes \subseteq holes'
        /\ UNCHANGED <<kg, persistence, stored_graph>>
        /\ pending' = LaidOver([x \in {work[t].edge} |-> work[t].copy], pending)
    BY <1>7 DEF QueueChange, storedVars
  <2>4. Tamed' => work[t].copy = kg.relations[work[t].edge]
    BY <1>7 DEF QueueChange, Tamed
  <2> HIDE DEF w
  <2> QED BY <2>2, <2>3, <2>4, QueueSaves
<1>8. CASE CountChange(t)
  <2>1. /\ WorkMoves(t, NoWork) /\ holes \subseteq holes' /\ UNCHANGED <<kg, pending, stored_graph>>
        /\ work[t].pc \in {"mark", "mark_full"} /\ MarkDirty(work[t].pc = "mark_full")
    BY <1>8, SaveBefore DEF CountChange, Leave, In, storedVars
  <2>2. NoWork \in Work /\ NoWork.pc = "idle" /\ NoWork.revision <= persistence.revision
        /\ persistence.revision \in Nat
    <3>1. persistence.revision \in Nat
      BY SaveBefore
    <3> QED BY <3>1, NoWorkType DEF NoWork
  <2> QED BY <1>0, <2>1, <2>2, CountSaves
<1>9. CASE CountRemoval(t)
  <2> DEFINE w == [work[t] EXCEPT !.pc = "members"]
  <2>1. /\ WorkMoves(t, w) /\ holes \subseteq holes' /\ UNCHANGED <<kg, pending, stored_graph>>
        /\ work[t].pc = "mark_for" /\ MarkDirty(work[t].pc = "mark_full")
    BY <1>9, SaveBefore DEF CountRemoval, In, storedVars
  <2>2. w \in Work /\ w.pc = "members" /\ w.revision <= persistence.revision
        /\ persistence.revision \in Nat
    BY <1>0, SaveBefore DEF Work
  <2> HIDE DEF w
  <2> QED BY <1>0, <2>1, <2>2, CountSaves
<1>10. CASE RemoveMember(t)
  <2> DEFINE w == [work[t] EXCEPT !.pc = "mark"]
  <2>1. /\ WorkMoves(t, w) /\ holes \subseteq holes' /\ kg' = [kg EXCEPT !.concepts = @ + 1]
        /\ UNCHANGED <<pending, persistence, stored_graph>>
        /\ work[t].pc \notin Uncounted \cup Saving
    BY <1>10, SaveBefore DEF RemoveMember, In, storedVars, Uncounted, Saving
  <2>2. w.pc \in Uncounted /\ w.revision = work[t].revision
    BY SaveBefore DEF Uncounted
  <2>3. \A e \in Edges : kg'.relations[e] = kg.relations[e]
    BY <1>0, <2>1 DEF Graph
  <2> HIDE DEF w
  <2> QED BY <2>1, <2>2, <2>3, ChangeSaves
<1>11. CASE NoMember(t)
  <2>1. /\ WorkMoves(t, NoWork) /\ holes \subseteq holes'
        /\ UNCHANGED <<kg, pending, persistence, stored_graph>>
        /\ work[t].pc \notin Uncounted \cup Saving
    BY <1>11, SaveBefore DEF NoMember, Leave, In, graphVars, storedVars, Uncounted, Saving
  <2>2. NoWork.pc \notin Uncounted \cup Saving /\ NoWork.revision <= persistence.revision
    <3>1. persistence.revision \in Nat
      BY SaveBefore
    <3> QED BY <3>1 DEF NoWork, Uncounted, Saving
  <2> QED BY <2>1, <2>2, QuietSaves
<1> QED BY <1>2, <1>3, <1>4, <1>5, <1>6, <1>7, <1>8, <1>9, <1>10, <1>11 DEF GraphStep

\* The writers of rows have no part in it.
LEMMA RowSaves ==
    ASSUME JanitorIInv, SavesIInv, NEW t \in Threads, RowStep(t)
    PROVE  SavesIInv'
<1>1. /\ UNCHANGED <<kg, pending, persistence, stored_graph>> /\ holes \subseteq holes'
      /\ work[t].pc \notin Uncounted \cup Saving
  BY DEF RowStep, ChangeRow, CopyRow, MarkRow, UpsertRow, AutoSave, AutoDrain, AutoUpsertFails, AutoUpsert,
         In, graphVars, storedVars, Uncounted, Saving
<1> DEFINE Elsewhere(w) == w.revision <= persistence.revision /\ w.pc \notin Uncounted \cup Saving
<1>2. work[t] \in Work /\ work[t].revision <= persistence.revision /\ 0 <= persistence.revision
  BY SaveBefore
<1>3. Elsewhere(NoWork)
  BY <1>2 DEF NoWork, Uncounted, Saving
<1>4. \E w : WorkMoves(t, w) /\ Elsewhere(w)
  <2>1. ASSUME NEW r, NEW via
        PROVE  Elsewhere([work[t] EXCEPT !.pc = "row_copy", !.via = via, !.row = r])
    BY <1>2 DEF Work, Uncounted, Saving
  <2>2. ASSUME NEW n PROVE Elsewhere([work[t] EXCEPT !.pc = "row_upsert", !.copy = n])
    BY <1>2 DEF Work, Uncounted, Saving
  <2>3. Elsewhere([work[t] EXCEPT !.pc = "persist"])
        /\ Elsewhere([work[t] EXCEPT !.pc = "persist", !.via = "auto"])
    BY <1>2 DEF Work, Uncounted, Saving
  <2>4. ASSUME NEW ids PROVE Elsewhere([work[t] EXCEPT !.pc = "auto_upsert", !.ids = ids])
    BY <1>2 DEF Work, Uncounted, Saving
  <2> HIDE DEF Elsewhere
  <2>5. \E w : Continue(t, w) /\ Elsewhere(w)
    <3>1. ASSUME NEW r \in Rows, NEW via \in {"row", "direct"}, ChangeRow(t, r, via)
          PROVE  \E w : Continue(t, w) /\ Elsewhere(w)
      BY <2>1, <3>1 DEF ChangeRow
    <3>2. ASSUME CopyRow(t) PROVE \E w : Continue(t, w) /\ Elsewhere(w)
      BY <2>2, <3>2 DEF CopyRow
    <3>3. ASSUME NEW works \in BOOLEAN, UpsertRow(t, works)
          PROVE  \E w : Continue(t, w) /\ Elsewhere(w)
      BY <1>3, <2>3, <3>3 DEF UpsertRow, Become, Leave
    <3>4. ASSUME AutoSave(t) \/ AutoDrain(t) PROVE \E w : Continue(t, w) /\ Elsewhere(w)
      BY <2>3, <2>4, <3>4 DEF AutoSave, AutoDrain
    <3>5. ASSUME MarkRow(t) \/ AutoUpsertFails(t) \/ AutoUpsert(t)
          PROVE  \E w : Continue(t, w) /\ Elsewhere(w)
      BY <1>3, <3>5 DEF MarkRow, AutoUpsertFails, AutoUpsert, Leave
    <3> QED BY <3>1, <3>2, <3>3, <3>4, <3>5 DEF RowStep
  <2> QED BY <2>5, SaveBefore
<1> QED BY <1>1, <1>4, QuietSaves

LEMMA SavesStep == JanitorIInv /\ SavesIInv /\ [JanitorNext]_janitorVars => SavesIInv'
<1> SUFFICES ASSUME JanitorIInv, SavesIInv, [JanitorNext]_janitorVars PROVE SavesIInv'
  OBVIOUS
<1>1. CASE UNCHANGED janitorVars
  BY <1>1 DEF janitorVars, SavesIInv, RevisionsTaken, Tamed, GraphSaved, OneSave, WholeSaveAhead, OnItsWay,
              Reaches, ToBeQueued, PendingIsNew, SaveOK, SavedAgain, Outdated, BeingChanged, In
<1>2. CASE JanitorNext
  BY <1>2, GraphSaves, PersistSaves, RowSaves DEF JanitorNext
<1> QED BY <1>1, <1>2

LEMMA SavesInit == JanitorInit => SavesIInv
<1> SUFFICES ASSUME JanitorInit PROVE SavesIInv
  OBVIOUS
<1>1. \A t \in Threads : work[t].pc = "idle" /\ work[t].revision = 0
  BY DEF JanitorInit, NoWork
<1>2. RevisionsTaken
  BY <1>1 DEF RevisionsTaken, JanitorInit
<1>3. OneSave /\ \A t \in Threads : SaveOK(work[t])
  BY <1>1 DEF OneSave, SaveOK, Saving
<1>4. stored_graph = kg /\ \A e \in Edges : OnItsWay(e)
  BY <1>1 DEF JanitorInit, OnItsWay, Reaches, In
<1> QED BY <1>2, <1>3, <1>4 DEF SavesIInv, GraphSaved
-----------------------------------------------------------------------------
(* The theorems *)

LEMMA JanitorInitInv == JanitorInit => JanitorIInv
<1> SUFFICES ASSUME JanitorInit PROVE JanitorIInv
  OBVIOUS
<1>1. 0 \in 0..MaxStrength
  BY JanitorAssumption
<1>2. kg \in Graph
  BY <1>1 DEF JanitorInit, Graph
<1>3. pending \in Deltas
  BY DEF JanitorInit, Deltas
<1>4. JanitorTypeOK
  BY <1>2, <1>3, NoWorkType, JanitorAssumption DEF JanitorInit, JanitorTypeOK
<1>5. Ways /\ RowsTracked
  BY NoWorkType DEF JanitorInit, Ways, RowsTracked
<1> QED BY <1>4, <1>5 DEF JanitorIInv

LEMMA JanitorStepInv == JanitorIInv /\ [JanitorNext]_janitorVars => JanitorIInv'
<1> SUFFICES ASSUME JanitorIInv, [JanitorNext]_janitorVars PROVE JanitorIInv'
  OBVIOUS
<1>1. ASSUME NEW t \in Threads, GraphStep(t) PROVE JanitorIInv'
  BY <1>1, ChangesInv, CountingInv DEF GraphStep
<1>2. ASSUME NEW t \in Threads, PersistStep(t) PROVE JanitorIInv'
  BY <1>2, PersistInv
<1>3. ASSUME NEW t \in Threads, RowStep(t) PROVE JanitorIInv'
  BY <1>3, WriterInv, UpsertRowInv, AutoSaveInv DEF RowStep
<1>4. CASE UNCHANGED janitorVars
  BY <1>4 DEF janitorVars, JanitorIInv, JanitorTypeOK, Ways, RowsTracked
<1> QED BY <1>1, <1>2, <1>3, <1>4 DEF JanitorNext

LEMMA JanitorAlways == JanitorSpec => []JanitorIInv
BY JanitorInitInv, JanitorStepInv, PTL DEF JanitorSpec

\* The variables keep their types, a graph that must be saved in full is marked
\* dirty, and a thread holds the relations only while it changes them.
THEOREM JanitorTypeCorrect == JanitorSpec => []JanitorTypeOK
<1>1. JanitorIInv => JanitorTypeOK
  BY DEF JanitorIInv
<1> QED BY <1>1, JanitorAlways, PTL

\* With any number of writers and savers and any failing transactions, a row
\* whose stored copy is old is dirty or in the hands of a thread that stores or
\* marks it.
THEOREM NoRowForgotten == JanitorSpec => []RowsTracked
<1>1. JanitorIInv => RowsTracked
  BY DEF JanitorIInv
<1> QED BY <1>1, JanitorAlways, PTL

\* With any number of threads, any relations and any bound of a delta, failing
\* transactions and the fallback to a full save: a graph that is not marked dirty,
\* with no change between memory and the mark, is the one the database holds,
\* unless saves overlapped, a delta was lost or a reinforcement was stale.
THEOREM CleanGraphIsSaved == JanitorSpec => []CleanIsSaved
<1>1. SavesIInv => CleanIsSaved
  BY DEF SavesIInv, Tamed, GraphSaved, BeingChanged, CleanIsSaved
<1> QED BY <1>1, SavesInit, SavesStep, JanitorAlways, PTL DEF JanitorSpec
=============================================================================
