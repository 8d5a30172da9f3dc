------------------------------- MODULE Accounts -------------------------------
(***************************************************************************)
(* The accounts of a cloud process and the file they are kept in.          *)
(*                                                                         *)
(* users_db is a map behind one lock.  Every change is made under the      *)
(* lock, takes a copy of the whole map, lets the lock go and then writes   *)
(* the copy to users_meta.json.tmp and renames that to users_meta.json.    *)
(* Nothing orders these writes: two of them share the temporary file, and  *)
(* the older copy may be the one renamed last.  A registration, a new      *)
(* sub-account and a new key are taken back in memory when their write     *)
(* fails; a removal is not.  Only delete_user writes under the lock.       *)
(*                                                                         *)
(* Of a record only what the properties read is kept: the main account it  *)
(* belongs to, the sub-accounts it lists and its API key.  The operations  *)
(* on the other fields (plan, password, role, permissions, settings, the   *)
(* count of memories) are one, TouchRecord, which writes the map as well.  *)
(***************************************************************************)
EXTENDS Integers, FiniteSets

CONSTANTS
    Clients,           \* concurrent requests
    Ids,               \* account names
    Root,              \* what a main account has for a parent
    MAX_ACCOUNTS,      \* MAX_USERS, 1000 in the code
    MAX_SUBS,          \* 10 in the code
    MaxAccountChanges, \* bound: changes
    MaxAccountFaults   \* bound: crashes, reads and writes that fail

ASSUME AccountsAssumption ==
    /\ IsFiniteSet(Clients) /\ IsFiniteSet(Ids) /\ Root \notin Ids
    /\ {MAX_ACCOUNTS, MAX_SUBS, MaxAccountChanges, MaxAccountFaults} \subseteq Nat

VARIABLES
    users_db,  \* id -> account, in memory
    meta_file, \* users_meta.json
    meta_tmp,  \* users_meta.json.tmp
    running,   \* the process is up
    clients,   \* client -> the change it is in, whether it crossed another, and
               \* what had been answered before it
    answered,  \* id -> its key after the last change answered, 0 = no account
    mishaps,   \* which of the known hazards have happened
    effort     \* [changes, faults] so far

accountVars == <<users_db, meta_file, meta_tmp, running, clients, answered, mishaps, effort>>

NoAccounts == [u \in {} |-> 0]
NoFile == [state |-> "none", db |-> NoAccounts]
Torn == [state |-> "torn", db |-> NoAccounts]
WholeFile(db) == [state |-> "whole", db |-> db]
Fresh(parent, key) == [parent |-> parent, subs |-> {}, key |-> key]
KeyIn(db, u) == IF u \in DOMAIN db THEN db[u].key ELSE 0

Added(db, u, account) == [x \in DOMAIN db \cup {u} |-> IF x = u THEN account ELSE db[x]]
Removed(db, gone) == [x \in DOMAIN db \ gone |-> db[x]]
Unlinked(db, p, u) ==
    [x \in DOMAIN db |-> IF x = p THEN [db[x] EXCEPT !.subs = @ \ {u}] ELSE db[x]]

NoChange == [pc |-> "idle", op |-> "none", ids |-> {}, db |-> NoAccounts, old |-> 0,
             before |-> NoAccounts, crossed |-> FALSE, onto |-> "tmp"]
At(c, pc) == clients[c].pc = pc
Busy == {c \in Clients : ~At(c, "idle")}
\* delete_user keeps the lock until its write is over.
Locked == \E c \in Clients : clients[c].op = "delete"
Goes(c, pc) == clients' = [clients EXCEPT ![c].pc = pc]
WriteFails == effort.faults < MaxAccountFaults /\ effort' = [effort EXCEPT !.faults = @ + 1]
-----------------------------------------------------------------------------
(* The changes, each under the lock *)

\* What is common to them: the new map, its copy for the file, and which accounts
\* the change decides about.  Two changes that are under way at once have crossed.
ChangeUsers(c, op, ids, old, db) ==
    /\ running /\ ~Locked /\ At(c, "idle")
    /\ effort.changes < MaxAccountChanges
    /\ users_db' = db
    /\ clients' = [x \in Clients |->
          IF x = c
          THEN [pc |-> "changed", op |-> op, ids |-> ids, db |-> db, old |-> old,
                before |-> [u \in ids \cap DOMAIN answered |-> answered[u]],
                crossed |-> Busy # {}, onto |-> "tmp"]
          ELSE [clients[x] EXCEPT !.crossed = @ \/ x \in Busy]]
    /\ answered' = Removed(answered, ids)
    /\ effort' = [effort EXCEPT !.changes = @ + 1]
    /\ UNCHANGED <<meta_file, meta_tmp, running>>

NewKey == effort.changes + 2

Register(c, u) ==
    /\ u \notin DOMAIN users_db /\ Cardinality(DOMAIN users_db) < MAX_ACCOUNTS
    /\ ChangeUsers(c, "register", {u}, 0, Added(users_db, u, Fresh(Root, NewKey)))
    /\ UNCHANGED mishaps

\* Only a main account has sub-accounts, at most MAX_SUBS, and each once.
CreateSubaccount(c, p, u) ==
    /\ u \notin DOMAIN users_db /\ p \in DOMAIN users_db
    /\ users_db[p].parent = Root
    /\ Cardinality(users_db[p].subs) < MAX_SUBS /\ u \notin users_db[p].subs
    /\ ChangeUsers(c, "create", {u}, 0,
                   Added([users_db EXCEPT ![p].subs = @ \cup {u}], u, Fresh(p, NewKey)))
    /\ UNCHANGED mishaps

ResetApiKey(c, u) ==
    /\ u \in DOMAIN users_db
    /\ ChangeUsers(c, "reset", {u}, users_db[u].key, [users_db EXCEPT ![u].key = NewKey])
    /\ UNCHANGED mishaps

\* The accounts below a revoked one go with it.
RevokeSubaccount(c, u) ==
    LET gone == {u} \cup {x \in DOMAIN users_db : users_db[x].parent = u} IN
    /\ u \in DOMAIN users_db /\ users_db[u].parent # Root
    /\ ChangeUsers(c, "revoke", gone, 0, Removed(Unlinked(users_db, users_db[u].parent, u), gone))
    /\ UNCHANGED mishaps

\* delete_user looks neither for sub-accounts nor at the list of the main account.
DeleteUser(c, u) ==
    /\ u \in DOMAIN users_db
    /\ ChangeUsers(c, "delete", {u}, 0, Removed(users_db, {u}))
    /\ mishaps' = IF users_db[u].parent # Root \/ users_db[u].subs # {}
                  THEN mishaps \cup {"family deleted"} ELSE mishaps

TouchRecord(c, u) ==
    /\ u \in DOMAIN users_db
    /\ ChangeUsers(c, "touch", {}, 0, users_db)
    /\ UNCHANGED mishaps
-----------------------------------------------------------------------------
(* save_users_db, outside the lock but for delete_user *)

\* Mutant of OpenTmp: the file is written in place.
OpenInPlace(c) ==
    /\ At(c, "changed") /\ Goes(c, "opened")
    /\ meta_file' = Torn
    /\ UNCHANGED <<users_db, meta_tmp, running, answered, mishaps, effort>>

\* write(tmp) truncates what is there.
OpenTmp(c) ==
    /\ At(c, "changed") /\ Goes(c, "opened")
    /\ meta_tmp' = Torn
    /\ UNCHANGED <<users_db, meta_file, running, answered, mishaps, effort>>

\* The bytes go to the file that was opened, wherever it has been renamed to
\* meanwhile; two writers of one file may leave a mix of both.
WriteTmp(c) ==
    /\ At(c, "opened") /\ Goes(c, "written")
    /\ \E content \in IF clients[c].crossed THEN {WholeFile(clients[c].db), Torn}
                                            ELSE {WholeFile(clients[c].db)} :
          /\ meta_tmp' = IF clients[c].onto = "tmp" THEN content ELSE meta_tmp
          /\ meta_file' = IF clients[c].onto = "file" THEN content ELSE meta_file
          /\ mishaps' = IF meta_file'.state = "torn" THEN mishaps \cup {"torn file"} ELSE mishaps
    /\ UNCHANGED <<users_db, running, answered, effort>>

\* Others that have the file open keep it open under its new name.
Renamed(c) ==
    [x \in Clients |->
        IF x = c THEN NoChange
        ELSE IF ~At(x, "opened") THEN clients[x]
        ELSE [clients[x] EXCEPT !.onto = IF @ = "tmp" THEN "file" ELSE "gone"]]

\* The change is answered with success.
RenameTmp(c) ==
    LET call == clients[c] IN
    /\ At(c, "written") /\ meta_tmp.state # "none"
    /\ meta_file' = meta_tmp /\ meta_tmp' = NoFile
    /\ clients' = Renamed(c)
    /\ answered' = IF call.crossed THEN answered
                   ELSE [u \in DOMAIN answered \cup call.ids |->
                            IF u \in call.ids THEN KeyIn(call.db, u) ELSE answered[u]]
    /\ mishaps' = IF meta_tmp.state = "torn" THEN mishaps \cup {"torn file"} ELSE mishaps
    /\ UNCHANGED <<users_db, running, effort>>

\* Another save has renamed the temporary file.
NothingToRename(c) ==
    /\ At(c, "written") /\ meta_tmp.state = "none" /\ Goes(c, "failed")
    /\ UNCHANGED <<users_db, meta_file, meta_tmp, running, answered, mishaps, effort>>
SaveAccountsFails(c) ==
    /\ clients[c].pc \in {"changed", "opened", "written"} /\ Goes(c, "failed")
    /\ WriteFails
    /\ UNCHANGED <<users_db, meta_file, meta_tmp, running, answered, mishaps>>

\* Mutant of Restored: a refused sub-account stays on its parent's list.
RestoredUnlinked(call) ==
    LET u == CHOOSE x \in call.ids : TRUE IN
    IF call.op = "reset" THEN [users_db EXCEPT ![u].key = call.old]
    ELSE Removed(users_db, {u})

\* The map without the change that could not be saved.
Restored(call) ==
    LET u == CHOOSE x \in call.ids : TRUE IN
    CASE call.op = "register" -> Removed(users_db, {u})
      [] call.op = "create"   -> Unlinked(Removed(users_db, {u}), call.db[u].parent, u)
      [] call.op = "reset"    -> IF u \in DOMAIN users_db
                                 THEN [users_db EXCEPT ![u].key = call.old] ELSE users_db

\* By the time of the rollback the name may belong to another family or have
\* sub-accounts of its own.
StaleRestore(call) ==
    \E u \in call.ids \cap DOMAIN users_db :
        /\ call.op # "reset"
        /\ users_db[u].parent # call.db[u].parent \/ users_db[u].subs # {}

\* The change is taken back, under the lock again, and answered with an error.
RollBack(c) ==
    LET call == clients[c] IN
    /\ At(c, "failed") /\ call.op \in {"register", "create", "reset"} /\ ~Locked
    /\ users_db' = Restored(call)
    /\ clients' = [clients EXCEPT ![c] = NoChange]
    /\ answered' = IF call.crossed THEN answered
                   ELSE [u \in DOMAIN answered \cup DOMAIN call.before |->
                            IF u \in call.ids THEN call.before[u] ELSE answered[u]]
    /\ mishaps' = IF StaleRestore(call) THEN mishaps \cup {"stale rollback"} ELSE mishaps
    /\ UNCHANGED <<meta_file, meta_tmp, running, effort>>

\* The others leave the change in memory and answer with an error.
LeaveUnsaved(c) ==
    /\ At(c, "failed") /\ clients[c].op \in {"revoke", "delete", "touch"}
    /\ clients' = [clients EXCEPT ![c] = NoChange]
    /\ UNCHANGED <<users_db, meta_file, meta_tmp, running, answered, mishaps, effort>>
-----------------------------------------------------------------------------
(* Crash and restart *)

CrashAccounts ==
    /\ running /\ running' = FALSE /\ WriteFails
    /\ users_db' = NoAccounts /\ clients' = [c \in Clients |-> NoChange]
    /\ UNCHANGED <<meta_file, meta_tmp, answered, mishaps>>

\* load_users_db: a file that cannot be read is taken for none, one that cannot
\* be decrypted or parsed is put aside.
LoadUsers(readable) ==
    /\ ~running /\ running' = TRUE
    /\ IF readable THEN UNCHANGED effort ELSE WriteFails /\ meta_file.state # "none"
    /\ users_db' = IF readable THEN meta_file.db ELSE NoAccounts
    /\ meta_file' \in IF ~readable THEN {meta_file, NoFile}
                      ELSE IF meta_file.state = "torn" THEN {NoFile} ELSE {meta_file}
    /\ mishaps' = IF readable THEN mishaps ELSE mishaps \cup {"unread file"}
    /\ UNCHANGED <<meta_tmp, clients, answered>>
-----------------------------------------------------------------------------
\* A new installation, or the accounts of one main account.
AccountsInit ==
    /\ \E m \in Ids, subs \in SUBSET Ids :
          LET family == [u \in subs |-> [parent |-> IF u = m THEN Root ELSE m,
                                         subs |-> IF u = m THEN subs \ {m} ELSE {}, key |-> 1]]
          IN /\ subs # {} => m \in subs /\ Cardinality(subs) <= MAX_SUBS + 1
             /\ users_db = family
             /\ meta_file = IF subs = {} THEN NoFile ELSE WholeFile(family)
    /\ meta_tmp = NoFile /\ running = TRUE
    /\ clients = [c \in Clients |-> NoChange]
    /\ answered = [u \in Ids |-> KeyIn(users_db, u)]
    /\ mishaps = {} /\ effort = [changes |-> 0, faults |-> 0]

ClientNext(c) ==
    \/ \E u \in Ids : \/ Register(c, u) \/ ResetApiKey(c, u) \/ RevokeSubaccount(c, u)
                      \/ DeleteUser(c, u) \/ TouchRecord(c, u)
                      \/ \E p \in Ids : CreateSubaccount(c, p, u)
    \/ OpenTmp(c) \/ WriteTmp(c) \/ RenameTmp(c) \/ NothingToRename(c)
    \/ SaveAccountsFails(c) \/ RollBack(c) \/ LeaveUnsaved(c)

AccountsNext ==
    \/ \E c \in Clients : ClientNext(c)
    \/ CrashAccounts
    \/ \E readable \in BOOLEAN : LoadUsers(readable)

AccountsSpec == AccountsInit /\ [][AccountsNext]_accountVars
-----------------------------------------------------------------------------
(* Properties *)

AccountTable(db) ==
    /\ DOMAIN db \subseteq Ids
    /\ \A u \in DOMAIN db : db[u] \in [parent : Ids \cup {Root}, subs : SUBSET Ids, key : Nat \ {0}]
MetaFile(f) == f.state \in {"none", "torn", "whole"} /\ AccountTable(f.db)

\* Type invariant: a process that is down has no accounts in memory.
AccountsTypeOK ==
    /\ AccountTable(users_db) /\ MetaFile(meta_file) /\ MetaFile(meta_tmp)
    /\ running \in BOOLEAN
    /\ \A c \in Clients : AccountTable(clients[c].db) /\ clients[c].ids \subseteq Ids
    /\ DOMAIN answered \subseteq Ids /\ \A u \in DOMAIN answered : answered[u] \in Nat
    /\ ~running => users_db = NoAccounts /\ Busy = {}

\* What a change answered is what memory says and what a restart will find: an
\* account that was created is there with its key, one that was removed is gone,
\* and a creation or a new key that was refused has left no trace.  Changes that
\* crossed another promise nothing about their own accounts, but they do not undo
\* what was answered before, unless they tore the file.
AnsweredIsStored ==
    mishaps \cap {"torn file", "unread file"} = {} =>
        \A u \in DOMAIN answered :
            /\ KeyIn(meta_file.db, u) = answered[u]
            /\ running => KeyIn(users_db, u) = answered[u]

Whole(db) ==
    \A u \in DOMAIN db :
        /\ db[u].parent # Root =>
              /\ db[u].parent \in DOMAIN db /\ db[u].subs = {}
              /\ db[db[u].parent].parent = Root /\ u \in db[db[u].parent].subs
        /\ \A s \in db[u].subs : s \in DOMAIN db /\ db[s].parent = u

\* Families stay whole, in memory and in the file: a sub-account has a main
\* account that lists it, a listed one exists, and the tree has one level
\* (create_subaccount: no grandchildren, revoke_subaccount: no orphans).  Only
\* delete_user and a rollback that comes late may break them.
FamiliesWhole ==
    mishaps \cap {"family deleted", "stale rollback"} = {} =>
        Whole(users_db) /\ Whole(meta_file.db)
=============================================================================
