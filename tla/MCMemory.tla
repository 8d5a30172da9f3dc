-------------------------------- MODULE MCMemory --------------------------------
(***************************************************************************)
(* The rows of a user under consolidation and tools, and the confirmation  *)
(* of dangerous operations, for TLC.  The two share no state here: a       *)
(* behaviour explores one of them and leaves the other as it started.      *)
(***************************************************************************)
EXTENDS MCMemoryLifecycle, ConfirmedOperations

VARIABLE part

mcVars == <<memoryVars, operationVars, part>>

\* Two lists that differ in their order only, as in the test of take_pending_op,
\* and one list within them.
MCTargetLists == {<<1>>, <<1, 2>>, <<2, 1>>}

MCInit ==
    /\ MemoryInit /\ OperationsInit /\ part \in {"rows", "operations"}
    /\ part = "rows" => \A u \in Owners, id \in Memories : ~Protected(space[u][id])
    /\ part = "operations" => rows[1].access = 0 /\ rows[2].importance = 10

MCNext ==
    /\ UNCHANGED part
    /\ \/ part = "rows" /\ MemoryNext /\ UNCHANGED operationVars
       \/ part = "operations" /\ OperationsNext /\ UNCHANGED memoryVars

MCSpec == MCInit /\ [][MCNext]_mcVars

\* What one part permutes the other does not have.
Symmetry == Permutations(Users) \cup Permutations(Sessions) \cup Permutations(Owners)

\* Type invariant of both modules.
MCTypeOK == MemoryTypeOK /\ OperationsTypeOK
=============================================================================
