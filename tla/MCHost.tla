-------------------------------- MODULE MCHost --------------------------------
(***************************************************************************)
(* The persistence of one engine, the engines and the accounts of a        *)
(* process, its invitation codes and the guard daemon of the host, for     *)
(* TLC.  They share no state: a behaviour explores one of them and leaves  *)
(* the others as they started.  The janitor is explored in four profiles:  *)
(* changes of the graph, fewer of them on a bad disk, changes of rows, and *)
(* one of each; the codes in two: two codes with a crash and a failure,    *)
(* and three without; the guard in two: two commands, and one of them with *)
(* something that fails.                                                   *)
(***************************************************************************)
EXTENDS JanitorSaves, EngineSlots, Accounts, InviteCodes, EpicodeGuard, TLC

VARIABLE part

mcVars == <<janitorVars, slotVars, accountVars, inviteVars, guardVars, part>>

Budget == "graph" :> [changes |-> 3, row_changes |-> 0, faults |-> 0] @@
          "disk"  :> [changes |-> 2, row_changes |-> 0, faults |-> 2] @@
          "rows"  :> [changes |-> 0, row_changes |-> 3, faults |-> 1] @@
          "both"  :> [changes |-> 1, row_changes |-> 1, faults |-> 1]

MCInit ==
    /\ JanitorInit /\ SlotsInit /\ AccountsInit /\ InviteInit /\ GuardInit
    /\ part \in DOMAIN Budget \cup {"engines", "accounts", "codes", "more codes", "guard", "faulty guard"}
    /\ part = "accounts" \/ DOMAIN users_db = {}

JanitorPart ==
    /\ part \in DOMAIN Budget /\ JanitorNext
    /\ \A kind \in DOMAIN used : used'[kind] <= Budget[part][kind]
    /\ UNCHANGED <<slotVars, accountVars, inviteVars, guardVars>>
EnginesPart ==
    /\ part = "engines" /\ SlotsNext
    /\ UNCHANGED <<janitorVars, accountVars, inviteVars, guardVars>>
AccountsPart ==
    /\ part = "accounts" /\ AccountsNext
    /\ UNCHANGED <<janitorVars, slotVars, inviteVars, guardVars>>
CodesPart ==
    /\ \/ part = "codes" /\ InviteNext /\ issued' < MaxCodes
       \/ part = "more codes" /\ InviteNext /\ troubles' = troubles
    /\ UNCHANGED <<janitorVars, slotVars, accountVars, guardVars>>
GuardPart ==
    /\ \/ part = "guard" /\ GuardNext /\ tally'.faults = 0
       \/ part = "faulty guard" /\ GuardNext /\ tally'.commands < MaxCommands
    /\ UNCHANGED <<janitorVars, slotVars, accountVars, inviteVars>>

MCNext ==
    /\ UNCHANGED part
    /\ JanitorPart \/ EnginesPart \/ AccountsPart \/ CodesPart \/ GuardPart

MCSpec == MCInit /\ [][MCNext]_mcVars

\* Type invariant of the module that is explored; the others stay as they start.
HostTypeOK ==
    CASE part \in DOMAIN Budget             -> JanitorTypeOK
      [] part = "engines"                   -> SlotsTypeOK
      [] part = "accounts"                  -> AccountsTypeOK
      [] part \in {"codes", "more codes"}   -> InviteTypeOK
      [] part \in {"guard", "faulty guard"} -> GuardTypeOK
=============================================================================
