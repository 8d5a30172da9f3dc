---------------------------- MODULE MCDriveQueue ----------------------------
(***************************************************************************)
(* Instances of DriveQueue for TLC, one fingerprint with evidence and one  *)
(* without, as the planner's warnings have.  One run explores three        *)
(* profiles: two callers in a process that keeps running, two callers and  *)
(* a crash, and one call at a time with crashes and a database that fails. *)
(***************************************************************************)
EXTENDS DriveQueue, TLC

VARIABLE profile

mcVars == <<vars, profile>>

MCEvidence == ("gap" :> {7}) @@ ("stall" :> {})

Budget == "race"   :> [acks |-> 2, crashes |-> 0, faults |-> 0] @@
          "crash"  :> [acks |-> 1, crashes |-> 1, faults |-> 0] @@
          "faults" :> [acks |-> 1, crashes |-> 2, faults |-> 1]

MCInit == DriveInit /\ profile \in DOMAIN Budget

MCNext ==
    /\ DriveNext
    /\ \A kind \in DOMAIN spent : spent'[kind] <= Budget[profile][kind]
    /\ profile = "faults" => next_id' <= 2 /\ \E c \in Callers : \A d \in Callers \ {c} : calls'[d] = Idle
    /\ UNCHANGED profile

MCSpec == MCInit /\ [][MCNext]_mcVars

\* Callers differ in nothing but where they are.
Symmetry == Permutations(Callers)
=============================================================================
