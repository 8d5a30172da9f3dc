-------------------------- MODULE MCMemoryLifecycle --------------------------
(* Two duplicate rows: the instance the consolidation runs use. *)
EXTENDS MemoryLifecycle, TLC

MCTimestamp  == [id \in Ids |-> id]
MCClass      == [id \in Ids |-> IF id = 1 THEN "episodic" ELSE "session"]
MCPermanent  == [id \in Ids |-> "permanent"]
MCDuplicates == {{a, b} : a, b \in Ids} \ {{a} : a \in Ids}
MCDecayTo    == {20}
MCAdjust     == {-20}

Fresh(importance, mass, access) ==
    [labels |-> {}, valid_to |-> FALSE, importance |-> importance, mass |-> mass,
     enforced |-> FALSE, access |-> access]

\* A heavy old row, unread or read often, beside a light new one.
MCRows == {(1 :> Fresh(100, 120, n)) @@ (2 :> Fresh(i, 100, 0)) : n \in {0, 3}, i \in {10, 100}}

=============================================================================
