-------------------------- MODULE ConfirmedOperations --------------------------
(***************************************************************************)
(* Dangerous operations in two steps: a dry run looks at the memories and  *)
(* hands out a token, a confirmation takes the token and executes what was *)
(* previewed.  Tokens live in one map of the process, for all users; a     *)
(* token is for its user, its operation and its exact list of targets.     *)
(*                                                                         *)
(* Every request works step by step: it reads the targets one by one, each *)
(* under a lock of its own, and between two reads other requests confirm,  *)
(* tokens grow old and the owner changes what is protected.                *)
(*                                                                         *)
(* Of a memory only what an operation tests or writes is kept; what the    *)
(* patches do to the other fields is in MemoryLifecycle, the count of      *)
(* memories that a deletion lowers is one of Accounts' records.            *)
(***************************************************************************)
EXTENDS Integers, Sequences, FiniteSets

CONSTANTS
    Sessions,          \* concurrent requests
    Owners,            \* users, each with an engine of their own
    Memories,
    TargetLists,       \* the lists of targets that requests may carry
    OP_TOKEN_TTL_SECS, \* 300 in the code; here in steps of the clock
    MaxTokens,         \* bound: dry runs
    MaxEdits           \* bound: changes of what is protected, and restarts

ASSUME OperationsAssumption ==
    /\ TargetLists \subseteq Seq(Memories) /\ IsFiniteSet(Sessions)
    /\ {OP_TOKEN_TTL_SECS, MaxTokens, MaxEdits} \subseteq Nat

VARIABLES
    space,       \* owner -> memory -> what the operations read and write of it
    pending_ops, \* token -> what it was handed out for, and its age
    sessions,    \* session -> the request it is in
    previews,    \* what the dry run of each token answered, in the order of the tokens
    executed,    \* tokens that were taken, in the order they were
    edits        \* protections changed and restarts so far (for the bound only)

operationVars == <<space, pending_ops, sessions, previews, executed, edits>>

Operations == {"delete", "quarantine", "merge", "restore"}
Memory == [protection : {"none", "identity", "enforced"}, quarantined : BOOLEAN, forgotten : BOOLEAN]
Protected(memory) == memory.protection # "none"

NoRequest == [pc |-> "idle"]
Reads(s, pc) == sessions[s].pc = pc
Target(s) == sessions[s].target_ids[sessions[s].next]
AllRead(s) == sessions[s].next > Len(sessions[s].target_ids)
Moves(s, request) == sessions' = [sessions EXCEPT ![s] = request]
Onward(s) == [sessions[s] EXCEPT !.next = @ + 1]
-----------------------------------------------------------------------------
(* The dry run *)

DryRun(s, u, op, ids) ==
    /\ Reads(s, "idle")
    /\ Len(previews) + Cardinality({r \in Sessions : Reads(r, "preview")}) < MaxTokens
    /\ Moves(s, [pc |-> "preview", user |-> u, operation |-> op, target_ids |-> ids,
                 critical |-> FALSE, next |-> 1])
    /\ UNCHANGED <<space, pending_ops, previews, executed, edits>>

\* A protected memory among the targets makes the operation critical.
PreviewTarget(s) ==
    /\ Reads(s, "preview") /\ ~AllRead(s)
    /\ LET protected == Protected(space[sessions[s].user][Target(s)]) IN
       Moves(s, [Onward(s) EXCEPT !.critical = @ \/ protected])
    /\ UNCHANGED <<space, pending_ops, previews, executed, edits>>

\* The token of a finished dry run; tokens that have run out are swept first.
Unexpired(ops) ==
    LET kept == {t \in DOMAIN ops : ops[t].age < OP_TOKEN_TTL_SECS} IN [t \in kept |-> ops[t]]
InsertToken(s) ==
    LET token == Len(previews) + 1
        swept == Unexpired(pending_ops)
        pending == [user |-> sessions[s].user, operation |-> sessions[s].operation,
                    target_ids |-> sessions[s].target_ids, critical |-> sessions[s].critical]
    IN
    /\ Reads(s, "preview") /\ AllRead(s)
    /\ pending_ops' = [t \in DOMAIN swept \cup {token} |->
                          IF t = token THEN [for |-> pending, age |-> 0] ELSE swept[t]]
    /\ previews' = Append(previews, pending)
    /\ Moves(s, NoRequest)
    /\ UNCHANGED <<space, executed, edits>>
-----------------------------------------------------------------------------
(* Taking a token *)

Without(token) == [t \in DOMAIN pending_ops \ {token} |-> pending_ops[t]]

\* Mutant of Consumed: the token is copied and stays in the map.
Copied(token) == pending_ops
Consumed(token) == Without(token)

Presents(s, u, token) ==
    Reads(s, "idle") /\ token \in DOMAIN pending_ops /\ pending_ops[token].for.user = u

\* A token that has run out is removed when its user presents it.
TokenExpired(s, u, token) ==
    /\ Presents(s, u, token) /\ pending_ops[token].age >= OP_TOKEN_TTL_SECS
    /\ pending_ops' = Without(token)
    /\ UNCHANGED <<space, sessions, previews, executed, edits>>

\* A token that is not there, belongs to another user or does not match is
\* refused and changes nothing.
TakePendingOp(s, u, token, op, ids) ==
    /\ Presents(s, u, token) /\ pending_ops[token].age < OP_TOKEN_TTL_SECS
    /\ pending_ops' = Consumed(token)
    /\ executed' = Append(executed, token)
    /\ Moves(s, [pc |-> "check", user |-> u, operation |-> op, target_ids |-> ids,
                 critical |-> pending_ops[token].for.critical, next |-> 1,
                 token |-> token, age |-> pending_ops[token].age])
    /\ UNCHANGED <<space, previews, edits>>

\* The confirmation executes what the token says; the bulk routes what they were
\* asked, which must be what the token says.
OperationsConfirm(s, u, token) ==
    /\ token \in DOMAIN pending_ops
    /\ TakePendingOp(s, u, token, pending_ops[token].for.operation, pending_ops[token].for.target_ids)
BulkRoute(s, u, token, op, ids) ==
    /\ token \in DOMAIN pending_ops
    /\ pending_ops[token].for.operation = op /\ pending_ops[token].for.target_ids = ids
    /\ TakePendingOp(s, u, token, op, ids)
BulkQuarantine(s, u, token, ids) == BulkRoute(s, u, token, "quarantine", ids)
BulkRestore(s, u, token, ids) == BulkRoute(s, u, token, "restore", ids)
-----------------------------------------------------------------------------
(* Execution: the check, then target after target *)

\* has_protected_targets, one target at a time; the token is spent all the same.
RefuseProtected(s) ==
    /\ Reads(s, "check")
    /\ \/ sessions[s].critical
       \/ ~AllRead(s) /\ Protected(space[sessions[s].user][Target(s)])
    /\ Moves(s, NoRequest)
    /\ UNCHANGED <<space, pending_ops, previews, executed, edits>>
CheckTarget(s) ==
    /\ Reads(s, "check") /\ ~sessions[s].critical /\ ~AllRead(s)
    /\ ~Protected(space[sessions[s].user][Target(s)])
    /\ Moves(s, Onward(s))
    /\ UNCHANGED <<space, pending_ops, previews, executed, edits>>
CheckDone(s) ==
    /\ Reads(s, "check") /\ ~sessions[s].critical /\ AllRead(s)
    /\ Moves(s, [sessions[s] EXCEPT !.pc = "execute", !.next = 1])
    /\ UNCHANGED <<space, pending_ops, previews, executed, edits>>

\* Which memories the operation leaves alone, by the copy it reads: a deletion an
\* enforced one, a quarantine a quarantined one, a restore one that is not (there the
\* confirmation patches nothing away, and the bulk route goes on), a merge all.
Skips(op, memory) ==
    \/ op = "delete" /\ memory.protection = "enforced"
    \/ op = "quarantine" /\ memory.quarantined
    \/ op = "restore" /\ ~memory.quarantined
    \/ op = "merge"
ReadTarget(s) ==
    /\ Reads(s, "execute") /\ ~AllRead(s)
    /\ Moves(s, IF Skips(sessions[s].operation, space[sessions[s].user][Target(s)])
                THEN Onward(s) ELSE [sessions[s] EXCEPT !.pc = "patch"])
    /\ UNCHANGED <<space, pending_ops, previews, executed, edits>>

\* patch_payload merges the one change into the memory as it is by then.
Patched(op, memory) ==
    CASE op = "delete"     -> [memory EXCEPT !.forgotten = TRUE]
      [] op = "quarantine" -> [memory EXCEPT !.quarantined = TRUE]
      [] op = "restore"    -> [memory EXCEPT !.quarantined = FALSE]
PatchTarget(s) ==
    /\ Reads(s, "patch")
    /\ space' = [space EXCEPT ![sessions[s].user][Target(s)] = Patched(sessions[s].operation, @)]
    /\ Moves(s, [Onward(s) EXCEPT !.pc = "execute"])
    /\ UNCHANGED <<pending_ops, previews, executed, edits>>

\* The answer, after the audit entry, a memory of its own.
AnswerConfirm(s) ==
    /\ Reads(s, "execute") /\ AllRead(s)
    /\ Moves(s, NoRequest)
    /\ UNCHANGED <<space, pending_ops, previews, executed, edits>>
-----------------------------------------------------------------------------
(* The owner and the clock *)

Protect(u, id, protection) ==
    /\ edits < MaxEdits /\ edits' = edits + 1
    /\ space' = [space EXCEPT ![u][id].protection = protection]
    /\ UNCHANGED <<pending_ops, sessions, previews, executed>>

Tick ==
    /\ \E t \in DOMAIN pending_ops : pending_ops[t].age < OP_TOKEN_TTL_SECS
    /\ pending_ops' = [t \in DOMAIN pending_ops |->
          [pending_ops[t] EXCEPT !.age = IF @ < OP_TOKEN_TTL_SECS THEN @ + 1 ELSE @]]
    /\ UNCHANGED <<space, sessions, previews, executed, edits>>

\* The process ends: the memories are on disk, the tokens are not.
ProcessRestarts ==
    /\ edits < MaxEdits /\ edits' = edits + 1
    /\ pending_ops' = [t \in {} |-> 0] /\ sessions' = [s \in Sessions |-> NoRequest]
    /\ UNCHANGED <<space, previews, executed>>
-----------------------------------------------------------------------------
OperationsInit ==
    /\ \E kind \in [Memories -> {"none", "identity"}] :
          space = [u \in Owners |-> [id \in Memories |->
                     [protection |-> kind[id], quarantined |-> FALSE, forgotten |-> FALSE]]]
    /\ pending_ops = [t \in {} |-> 0]
    /\ sessions = [s \in Sessions |-> NoRequest]
    /\ previews = <<>> /\ executed = <<>> /\ edits = 0

SessionNext(s) ==
    \/ \E u \in Owners :
          \/ \E op \in Operations, ids \in TargetLists : DryRun(s, u, op, ids)
          \/ \E token \in DOMAIN pending_ops :
                \/ OperationsConfirm(s, u, token) \/ TokenExpired(s, u, token)
                \/ \E ids \in TargetLists :
                      BulkQuarantine(s, u, token, ids) \/ BulkRestore(s, u, token, ids)
    \/ PreviewTarget(s) \/ InsertToken(s)
    \/ RefuseProtected(s) \/ CheckTarget(s) \/ CheckDone(s)
    \/ ReadTarget(s) \/ PatchTarget(s) \/ AnswerConfirm(s)

OperationsNext ==
    \/ \E s \in Sessions : SessionNext(s)
    \/ \E u \in Owners, id \in Memories, protection \in {"none", "identity", "enforced"} :
          Protect(u, id, protection)
    \/ Tick \/ ProcessRestarts

OperationsSpec == OperationsInit /\ [][OperationsNext]_operationVars
-----------------------------------------------------------------------------
(* Properties *)

Acting == {s \in Sessions : sessions[s].pc \in {"check", "execute", "patch"}}

\* Type invariant: tokens are handed out in order, and old ones are still known.
OperationsTypeOK ==
    /\ space \in [Owners -> [Memories -> Memory]]
    /\ DOMAIN pending_ops \subseteq 1..Len(previews)
    /\ \A t \in DOMAIN pending_ops : pending_ops[t].age \in 0..OP_TOKEN_TTL_SECS
    /\ \A s \in Sessions : sessions[s].pc \in {"idle", "preview", "check", "execute", "patch"}
    /\ Len(previews) <= MaxTokens /\ edits \in 0..MaxEdits

\* "The token must belong to this user, be unexpired and single-use"
\* (bin/cloud/memory.rs:3885): of all the confirmations and bulk calls that may race
\* for a token one acts, once, in time, and does to the targets of the preview what
\* was previewed for that user; an operation that was previewed as critical never
\* gets past the check, whatever became of its targets since.
ConfirmedAsPreviewed ==
    /\ \A i, j \in DOMAIN executed : executed[i] = executed[j] => i = j
    /\ \A s \in Acting :
          LET request == sessions[s]  preview == previews[request.token] IN
          /\ request.user = preview.user /\ request.operation = preview.operation
          /\ request.target_ids = preview.target_ids
          /\ request.age < OP_TOKEN_TTL_SECS
          /\ preview.critical => request.pc = "check"
=============================================================================
