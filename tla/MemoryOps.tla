------------------------------ MODULE MemoryOps ------------------------------
(***************************************************************************)
(* The field operations of domain/ops.rs.  Every background writer changes *)
(* a memory row with them, each list of operations under one write lock    *)
(* (Space::apply_ops), and every user-facing writer with Patch, the three- *)
(* way merge of Space::patch_payload.                                      *)
(*                                                                         *)
(* A row is the part of MemoryPayload these operations read or write:      *)
(*   labels      the label set                                             *)
(*   valid_to    whether valid_to is Some (the row is no longer valid)     *)
(*   importance  in hundredths                                             *)
(*   mass        in hundredths (kept beside the payload, not in it)            *)
(*   enforced, access (access_count)                                       *)
(***************************************************************************)
EXTENDS Integers

MASS_MIN == 10
MASS_MAX == 10000

IMPORTANCE_FLOOR  == 30
FORGET_IMPORTANCE == 1

Least(a, b)         == IF a <= b THEN a ELSE b
Greatest(a, b)      == IF a >= b THEN a ELSE b
Clamp(n, low, high) == Greatest(low, Least(n, high))

Lifecycle(row) ==
    IF "superseded" \in row.labels \/ row.valid_to THEN "Superseded"
    ELSE IF "quarantine" \in row.labels THEN "Quarantined" ELSE "Active"

AddLabels(row, labels) == [row EXCEPT !.labels = @ \cup labels]

\* Mutants: changes a run's property must catch.
AdjustMassUnclamped(row, delta) == [row EXCEPT !.mass = @ + delta]

QuarantineToForget(row, importance_cap, mass_cap) ==
    IF row.enforced \/ Lifecycle(row) # "Active" THEN row
    ELSE [row EXCEPT !.labels     = @ \cup {"quarantine"},
                     !.importance = Least(@, FORGET_IMPORTANCE),
                     !.mass       = Least(@, Greatest(mass_cap, MASS_MIN))]

SupersedeUnguarded(row, importance_floor, mass_cap) ==
    IF Lifecycle(row) = "Superseded" THEN row
    ELSE [row EXCEPT !.labels     = @ \cup {"superseded"},
                     !.valid_to   = TRUE,
                     !.importance = Greatest((@ * 15) \div 100, importance_floor),
                     !.mass       = Least(@, Greatest(mass_cap, MASS_MIN))]

AdjustMass(row, delta) == [row EXCEPT !.mass = Clamp(@ + delta, MASS_MIN, MASS_MAX)]

Quarantine(row, importance_cap, mass_cap) ==
    IF row.enforced \/ Lifecycle(row) # "Active" THEN row
    ELSE [row EXCEPT !.labels     = @ \cup {"quarantine"},
                     !.importance = Least(@, importance_cap),
                     !.mass       = Least(@, Greatest(mass_cap, MASS_MIN))]

\* importance_factor is 0.15 wherever the operation is used.
Supersede(row, importance_floor, mass_cap) ==
    IF row.enforced \/ Lifecycle(row) = "Superseded" THEN row
    ELSE [row EXCEPT !.labels     = @ \cup {"superseded"},
                     !.valid_to   = TRUE,
                     !.importance = Greatest((@ * 15) \div 100, importance_floor),
                     !.mass       = Least(@, Greatest(mass_cap, MASS_MIN))]

\* below: only_if_importance_below, or a value no importance reaches for None.
Tombstone(row, importance, below) ==
    IF row.enforced \/ row.valid_to \/ row.importance >= below THEN row
    ELSE [row EXCEPT !.valid_to = TRUE, !.importance = importance]

CasImportance(row, expect, new) ==
    IF row.importance # expect THEN row ELSE [row EXCEPT !.importance = new]

AddImportance(row, delta, max) == [row EXCEPT !.importance = Least(@ + delta, max)]

ResetAccessCount(row) == [row EXCEPT !.access = 0]

----------------------------------------------------------------------------
(* The three-way merge: desired was computed outside the lock from the     *)
(* snapshot base; cur is the row under the lock.                           *)

\* Mutants: the payload computed from the snapshot written over the row.
MergeFieldDesired(cur, base, desired) == desired

PatchWhole(cur, base, desired) == [desired EXCEPT !.mass = cur.mass]

MergeField(cur, base, desired) == IF desired # base THEN desired ELSE cur

MergeSet(cur, base, desired) == (cur \ (base \ desired)) \cup (desired \ base)

\* The mass is not part of the payload, so a patch leaves it alone.
Patch(cur, base, desired) ==
    [cur EXCEPT !.labels     = MergeSet(@, base.labels, desired.labels),
                !.valid_to   = MergeField(@, base.valid_to, desired.valid_to),
                !.importance = MergeField(@, base.importance, desired.importance),
                !.enforced   = MergeField(@, base.enforced, desired.enforced),
                !.access     = MergeField(@, base.access, desired.access)]

=============================================================================
