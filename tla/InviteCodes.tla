------------------------------ MODULE InviteCodes ------------------------------
(***************************************************************************)
(* Invitation codes: a code in circulation admits one account.             *)
(*                                                                         *)
(* UserManager keeps the current code, the pending codes and the used      *)
(* ones, each behind a lock of its own, and writes all three to            *)
(* invite_state.json after every change, outside the locks, in place.  A   *)
(* registration takes its code first and gives it back when the account    *)
(* cannot be made.  Taking a pending code holds the pending codes and      *)
(* waits for the used ones; giving it back holds the used codes and waits  *)
(* for the pending ones.                                                   *)
(***************************************************************************)
EXTENDS Integers, FiniteSets

CONSTANTS
    Visitors,         \* requests in flight
    MaxCodes,         \* bound: codes generated
    MaxInviteCrashes, \* bound: crashes
    MaxInviteFaults   \* bound: reads and writes of the file that fail

ASSUME InviteAssumption ==
    /\ IsFiniteSet(Visitors)
    /\ {MaxCodes, MaxInviteCrashes, MaxInviteFaults} \subseteq Nat /\ MaxCodes > 0

VARIABLES
    lists,       \* the current code; how often each code is pending and used
    issued,      \* codes 1..issued have been generated
    invite_file, \* invite_state.json
    serving,     \* the process is up
    visits,      \* request -> where it is, its code and what its save has read
    admitted,    \* code -> accounts made with it
    strays,      \* "overlap": a list changed during another's save; "failed save";
                 \* "loss": a crash or a failed read after one of them
    troubles     \* [crashes, faults] so far

inviteVars == <<lists, issued, invite_file, serving, visits, admitted, strays, troubles>>

Codes == 1..MaxCodes
Nowhere == [k \in Codes |-> 0]
NewLists(k) == [current |-> k, used |-> Nowhere, pending |-> Nowhere]
NoInvites == [state |-> "none", lists |-> NewLists(1)]
TornInvites == [state |-> "torn", lists |-> NewLists(1)]

NoVisit == [pc |-> "idle", op |-> "none", code |-> 0, snap |-> NewLists(1), mixed |-> FALSE]
Stage(c) == visits[c].pc
Moves(c, pc) == visits' = [visits EXCEPT ![c].pc = pc]
SaveSteps == {"read_current", "read_used", "read_pending", "open", "write"}
Saves(c, op) == visits' = [visits EXCEPT ![c].pc = "read_current", ![c].op = op]
Ends(c) == visits' = [visits EXCEPT ![c] = NoVisit]

\* Mutant of Holds: the pending codes are not dropped before the save.
HoldsIntoSave(c) ==
    IF Stage(c) = "take" \/ (visits[c].op = "use" /\ Stage(c) \in SaveSteps) THEN {"pending"}
    ELSE {}

\* The lock a request keeps while it waits for the next, and the one it waits for.
Holds(c) ==
    CASE Stage(c) = "take"   -> {"pending"}
      [] Stage(c) = "rotate" -> {"current"}
      [] Stage(c) = "give"   -> {"used"}
      [] OTHER              -> {}
Wants(c) ==
    CASE Stage(c) \in {"take", "rotate", "refund", "read_used"}  -> "used"
      [] Stage(c) \in {"match", "read_current"}                  -> "current"
      [] Stage(c) \in {"give", "show", "read_pending"}           -> "pending"
      [] OTHER                                                  -> "none"
Unlocked(lock) == \A d \in Visitors : lock \notin Holds(d)

\* A change of the lists during another's change or save.
UnderWay == {d \in Visitors : Stage(d) \in {"take", "give"} \cup SaveSteps}
Overlaps(c) == strays' = IF UnderWay \subseteq {c} THEN strays ELSE strays \cup {"overlap"}
-----------------------------------------------------------------------------
(* use_invite_code, and the registration it is for *)

\* Mutant of TakeCode: the code stays on the list of pending ones.
TakeCodeCopied(c, k) ==
    /\ serving /\ Stage(c) = "idle" /\ Unlocked("pending")
    /\ k \in 1..issued /\ lists.pending[k] > 0
    /\ visits' = [visits EXCEPT ![c] = [NoVisit EXCEPT !.pc = "take", !.op = "use", !.code = k]]
    /\ UNCHANGED <<lists, issued, invite_file, serving, admitted, strays, troubles>>

\* A pending code is taken off its list; any other may still be the current one.
TakeCode(c, k) ==
    LET pending == lists.pending[k] > 0 IN
    /\ serving /\ Stage(c) = "idle" /\ Unlocked("pending") /\ k \in 1..issued
    /\ lists' = IF pending THEN [lists EXCEPT !.pending[k] = @ - 1] ELSE lists
    /\ visits' = [visits EXCEPT ![c] =
          [NoVisit EXCEPT !.pc = IF pending THEN "take" ELSE "match", !.op = "use", !.code = k]]
    /\ IF pending THEN Overlaps(c) ELSE UNCHANGED strays
    /\ UNCHANGED <<issued, invite_file, serving, admitted, troubles>>

TakeUsed(c) ==
    /\ Stage(c) = "take" /\ Unlocked("used")
    /\ lists' = [lists EXCEPT !.used[visits[c].code] = @ + 1]
    /\ Saves(c, "use") /\ Overlaps(c)
    /\ UNCHANGED <<issued, invite_file, serving, admitted, troubles>>

MatchCurrent(c) ==
    /\ Stage(c) = "match" /\ Unlocked("current")
    /\ IF visits[c].code = lists.current THEN Moves(c, "rotate") ELSE Ends(c)
    /\ UNCHANGED <<lists, issued, invite_file, serving, admitted, strays, troubles>>

\* The current code is used up and replaced by a new one.
Rotate(c) ==
    /\ Stage(c) = "rotate" /\ Unlocked("used") /\ issued < MaxCodes
    /\ lists' = [lists EXCEPT !.used[lists.current] = @ + 1, !.current = issued + 1]
    /\ issued' = issued + 1
    /\ Saves(c, "use") /\ Overlaps(c)
    /\ UNCHANGED <<invite_file, serving, admitted, troubles>>

\* register_user: the account is made, or refused (name taken, too many, not saved).
MakeAccount(c) ==
    /\ Stage(c) = "register"
    /\ \/ admitted' = [admitted EXCEPT ![visits[c].code] = @ + 1] /\ Ends(c)
       \/ Moves(c, "refund") /\ UNCHANGED admitted
    /\ UNCHANGED <<lists, issued, invite_file, serving, strays, troubles>>

RefundUsed(c) ==
    LET k == visits[c].code IN
    /\ Stage(c) = "refund" /\ Unlocked("used")
    /\ IF lists.used[k] > 0
       THEN /\ lists' = [lists EXCEPT !.used[k] = @ - 1]
            /\ Moves(c, "give") /\ Overlaps(c)
       ELSE Saves(c, "refund") /\ UNCHANGED <<lists, strays>>
    /\ UNCHANGED <<issued, invite_file, serving, admitted, troubles>>

GiveBack(c) ==
    /\ Stage(c) = "give" /\ Unlocked("pending")
    /\ lists' = [lists EXCEPT !.pending[visits[c].code] = @ + 1]
    /\ Saves(c, "refund") /\ Overlaps(c)
    /\ UNCHANGED <<issued, invite_file, serving, admitted, troubles>>
-----------------------------------------------------------------------------
(* New codes *)

\* A new code joins the pending ones: generate_batch_codes, one after the other.
Adds(c) ==
    /\ Unlocked("pending") /\ issued < MaxCodes
    /\ lists' = [lists EXCEPT !.pending[issued + 1] = @ + 1]
    /\ issued' = issued + 1
    /\ visits' = [visits EXCEPT ![c] = [NoVisit EXCEPT !.pc = "read_current", !.op = "add"]]
    /\ Overlaps(c)
    /\ UNCHANGED <<invite_file, serving, admitted, troubles>>
GenerateCodes(c) == serving /\ Stage(c) = "idle" /\ Adds(c)

\* current_invite_code looks for a pending code and lets the lock go before it
\* adds one.
ShowCode(c) ==
    /\ serving /\ Stage(c) = "idle" /\ Unlocked("pending") /\ lists.pending = Nowhere
    /\ Moves(c, "show")
    /\ UNCHANGED <<lists, issued, invite_file, serving, admitted, strays, troubles>>
ShowNewCode(c) == Stage(c) = "show" /\ Adds(c)
-----------------------------------------------------------------------------
(* save_invite_state *)

\* The three lists are copied one after the other.
ReadList(c) ==
    /\ Stage(c) \in {"read_current", "read_used", "read_pending"} /\ Unlocked(Wants(c))
    /\ visits' = [visits EXCEPT
          ![c].pc = CASE @ = "read_current" -> "read_used"
                      [] @ = "read_used"    -> "read_pending"
                      [] OTHER              -> "open",
          ![c].snap = [@ EXCEPT ![Wants(c)] = lists[Wants(c)]]]
    /\ UNCHANGED <<lists, issued, invite_file, serving, admitted, strays, troubles>>

\* write() truncates the file and fills it: two at once may leave a mix.
OpenInvites(c) ==
    LET others == {d \in Visitors : Stage(d) = "write"} IN
    /\ Stage(c) = "open"
    /\ invite_file' = TornInvites
    /\ visits' = [d \in Visitors |->
          IF d = c THEN [visits[c] EXCEPT !.pc = "write", !.mixed = others # {}]
          ELSE IF d \in others THEN [visits[d] EXCEPT !.mixed = TRUE] ELSE visits[d]]
    /\ UNCHANGED <<lists, issued, serving, admitted, strays, troubles>>

\* After the save the code that was taken is used to register; the number of
\* pending codes left is only logged.
AfterSave(c) ==
    visits' = [visits EXCEPT ![c] =
        IF @.op = "use" THEN [@ EXCEPT !.pc = "register", !.snap = NewLists(1), !.mixed = FALSE]
        ELSE NoVisit]

WriteInvites(c) ==
    /\ Stage(c) = "write"
    /\ \/ invite_file' = [state |-> "whole", lists |-> visits[c].snap]
       \/ visits[c].mixed /\ invite_file' = TornInvites
    /\ AfterSave(c)
    /\ UNCHANGED <<lists, issued, serving, admitted, strays, troubles>>

Trouble(kind, max) == troubles[kind] < max /\ troubles' = [troubles EXCEPT ![kind] = @ + 1]

\* A failed write is logged.
InviteSaveFails(c) ==
    /\ Stage(c) \in {"open", "write"} /\ AfterSave(c)
    /\ Trouble("faults", MaxInviteFaults)
    /\ strays' = strays \cup {"failed save"}
    /\ UNCHANGED <<lists, issued, invite_file, serving, admitted>>
-----------------------------------------------------------------------------
(* Crash and restart *)

\* What the file does not say yet is lost.
CrashInvites ==
    /\ serving /\ serving' = FALSE /\ Trouble("crashes", MaxInviteCrashes)
    /\ strays' = IF strays = {} /\ invite_file.state = "whole"
                    /\ \A c \in Visitors : Stage(c) = "idle"
                 THEN strays ELSE strays \cup {"loss"}
    /\ visits' = [c \in Visitors |-> NoVisit]
    /\ UNCHANGED <<lists, issued, invite_file, admitted>>

\* load_invite_state reads the current and the used codes, load_pending_codes the
\* pending ones: two reads of the file, each of which may fail.  Without a current
\* code a new one is made, without the others there are none.
LoadCodes(state_read, pending_read) ==
    LET whole == invite_file.state = "whole"
        pending == IF pending_read /\ whole THEN invite_file.lists.pending ELSE Nowhere
    IN
    /\ ~serving /\ serving' = TRUE
    /\ IF state_read /\ pending_read THEN UNCHANGED <<troubles, strays>>
       ELSE Trouble("faults", MaxInviteFaults) /\ strays' = strays \cup {"loss"}
    /\ IF state_read /\ whole
       THEN lists' = [invite_file.lists EXCEPT !.pending = pending] /\ UNCHANGED issued
       ELSE /\ issued < MaxCodes /\ issued' = issued + 1
            /\ lists' = [NewLists(issued + 1) EXCEPT !.pending = pending]
    /\ UNCHANGED <<invite_file, visits, admitted>>
-----------------------------------------------------------------------------
\* A new installation: one code, in no file.
InviteInit ==
    /\ lists = NewLists(1) /\ issued = 1 /\ invite_file = NoInvites /\ serving = TRUE
    /\ visits = [c \in Visitors |-> NoVisit]
    /\ admitted = Nowhere /\ strays = {} /\ troubles = [crashes |-> 0, faults |-> 0]

VisitNext(c) ==
    \/ \E k \in Codes : TakeCode(c, k)
    \/ TakeUsed(c) \/ MatchCurrent(c) \/ Rotate(c)
    \/ MakeAccount(c) \/ RefundUsed(c) \/ GiveBack(c)
    \/ GenerateCodes(c) \/ ShowCode(c) \/ ShowNewCode(c)
    \/ ReadList(c) \/ OpenInvites(c) \/ WriteInvites(c) \/ InviteSaveFails(c)

InviteNext ==
    \/ \E c \in Visitors : VisitNext(c)
    \/ CrashInvites
    \/ \E state_read, pending_read \in BOOLEAN : LoadCodes(state_read, pending_read)

InviteSpec == InviteInit /\ [][InviteNext]_inviteVars
-----------------------------------------------------------------------------
(* Properties *)

CodeLists(l) == l \in [current : Codes, used : [Codes -> Nat], pending : [Codes -> Nat]]

\* Type invariant: a request past its first step knows its code, and a process
\* that is down serves nobody.
InviteTypeOK ==
    /\ CodeLists(lists) /\ issued \in Codes /\ serving \in BOOLEAN
    /\ invite_file.state \in {"none", "torn", "whole"} /\ CodeLists(invite_file.lists)
    /\ \A c \in Visitors : CodeLists(visits[c].snap) /\ (visits[c].op = "use" => visits[c].code \in Codes)
    /\ admitted \in [Codes -> Nat]
    /\ ~serving => \A c \in Visitors : Stage(c) = "idle"

\* Requests that have taken k off the lists and neither made an account with it nor
\* given it back.
InHand(k) ==
    {c \in Visitors : /\ visits[c].code = k /\ visits[c].op = "use"
                      /\ Stage(c) \notin {"idle", "match", "rotate"}}
InCirculation(k) == lists.pending[k] + (IF lists.current = k THEN 1 ELSE 0)

\* A code is in circulation, in the hands of one registration, or has made one
\* account: none admits two and none is lost (refund_invite_code: a registration
\* that fails must not cost its holder the code), however requests interleave, and
\* also after a restart unless saves overlapped or failed before it, or it cut a
\* request off.
EachCodeOnce ==
    (serving /\ "loss" \notin strays) =>
        \A k \in 1..issued :
            InCirculation(k) + Cardinality(InHand(k)) + admitted[k] = 1

\* Nobody waits for a request that cannot go on, unless a refund is waiting for the
\* pending codes: only there are two locks taken against the order of the others.
\* (use_invite_code drops its lock before save_invite_state, which takes all three.)
OnlyRefundsBlock ==
    \A c, d \in Visitors :
        Wants(c) \in Holds(d) => Unlocked(Wants(d)) \/ \E e \in Visitors : Stage(e) = "give"
=============================================================================
