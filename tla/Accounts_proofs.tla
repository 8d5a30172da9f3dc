---------------------------- MODULE Accounts_proofs ----------------------------
(***************************************************************************)
(* What UserManager's accounts and invitation codes keep for every set of  *)
(* accounts, clients and requests and all limits.                          *)
(*                                                                         *)
(* Accounts: its types, whole families, and that memory and file hold what *)
(* was answered.  A copy that waits to be written decides what the file    *)
(* will be, so the invariant speaks of every copy: the one of each client, *)
(* the temporary file and the file.                                        *)
(*                                                                         *)
(* InviteCodes: a code that was generated is in one place.  What a crash   *)
(* leaves of it depends on what the saves have copied, so the invariant    *)
(* follows the copies as long as changes and saves come one by one.        *)
(***************************************************************************)
EXTENDS Accounts, InviteCodes, FiniteSetTheorems, TLAPS

Account == [parent : Ids \cup {Root}, subs : SUBSET Ids, key : Nat \ {0}]
Tables == UNION {[some -> Account] : some \in SUBSET Ids}
KeyTables == UNION {[some -> Nat] : some \in SUBSET Ids}
File == [state : {"none", "torn", "whole"}, db : Tables]
Ops == {"none", "register", "create", "reset", "revoke", "delete", "touch"}
Call == [pc : {"idle", "changed", "opened", "written", "failed"}, op : Ops, ids : SUBSET Ids,
         db : Tables, old : Nat, before : KeyTables, crossed : BOOLEAN,
         onto : {"tmp", "file", "gone"}]

Shape ==
    /\ users_db \in Tables /\ meta_file \in File /\ meta_tmp \in File
    /\ running \in BOOLEAN /\ clients \in [Clients -> Call] /\ answered \in KeyTables
    /\ effort \in [changes : Nat, faults : Nat]
    /\ ~running => users_db = NoAccounts /\ Busy = {}

\* What a change that can be taken back is about.
About(op, ids, old, db) ==
    /\ op \in {"register", "create", "reset"} => \E u \in DOMAIN db : ids = {u}
    /\ op = "register" => \A u \in ids : db[u].parent = Root
    /\ op = "create" => \A u \in ids : db[u].parent \in Ids
    /\ op = "reset" => old # 0
Pending == \A c \in Clients : About(clients[c].op, clients[c].ids, clients[c].old, clients[c].db)

\* Without a mishap every copy is of whole families.
Calm == mishaps \cap {"family deleted", "stale rollback"} = {}
Families ==
    Calm => /\ Whole(users_db) /\ Whole(meta_file.db) /\ Whole(meta_tmp.db)
            /\ \A c \in Clients : Whole(clients[c].db)

\* Without these two the file was always read, and was never a mix.
Quiet == mishaps \cap {"torn file", "unread file"} = {}
Agrees(db) == \A u \in DOMAIN answered : KeyIn(db, u) = answered[u]

\* Every copy that may still reach the file says what was answered.
Copies ==
    Quiet => /\ Agrees(meta_file.db) /\ (running => Agrees(users_db))
             /\ \A c \in Busy : Agrees(clients[c].db)
             /\ \A c \in Clients : clients[c].pc \in {"opened", "written"} =>
                    (meta_tmp.state = "whole" => Agrees(meta_tmp.db))
TornIsKnown == meta_file.state = "torn" => "torn file" \in mishaps
Undecided == \A c \in Busy : clients[c].ids \cap DOMAIN answered = {}

\* A change that crossed no other is the only one under way: memory is its copy,
\* and the file is as it was when the change began.
Alone(c) ==
    LET call == clients[c] IN
    /\ Busy = {c} /\ call.onto = "tmp" /\ users_db = call.db
    /\ DOMAIN call.before \subseteq call.ids
    /\ call.pc = "written" => meta_tmp = WholeFile(call.db)
    /\ Quiet => \A u \in DOMAIN call.before :
          /\ KeyIn(meta_file.db, u) = call.before[u]
          /\ call.op \in {"register", "create"} => call.before[u] = 0
          /\ call.op = "reset" => call.before[u] = call.old
Uncrossed == \A c \in Busy : ~clients[c].crossed => Alone(c)

Answers == Copies /\ TornIsKnown /\ Undecided /\ Uncrossed
AInv == Shape /\ Pending /\ Families /\ Answers
-----------------------------------------------------------------------------
(* Tables *)

LEMMA TableDomain ==
    ASSUME NEW db \in Tables
    PROVE  DOMAIN db \subseteq Ids /\ \A u \in DOMAIN db : db[u] \in Account
BY DEF Tables

LEMMA MakeTable ==
    ASSUME NEW some \in SUBSET Ids, NEW db \in [some -> Account]
    PROVE  db \in Tables
BY DEF Tables

LEMMA EmptyTable == NoAccounts \in Tables /\ Whole(NoAccounts) /\ \A u : KeyIn(NoAccounts, u) = 0
<1>1. NoAccounts \in [{} -> Account]
  BY DEF NoAccounts
<1>2. NoAccounts \in Tables
  BY <1>1, MakeTable
<1> QED BY <1>2 DEF NoAccounts, Whole, KeyIn

LEMMA AddedTable ==
    ASSUME NEW db \in Tables, NEW u \in Ids, NEW account \in Account
    PROVE  Added(db, u, account) \in Tables
<1>1. DOMAIN db \cup {u} \in SUBSET Ids /\ \A x \in DOMAIN db : db[x] \in Account
  BY TableDomain
<1>2. Added(db, u, account) \in [DOMAIN db \cup {u} -> Account]
  BY <1>1 DEF Added
<1> QED BY <1>1, <1>2, MakeTable

LEMMA RemovedTable ==
    ASSUME NEW db \in Tables, NEW gone
    PROVE  Removed(db, gone) \in Tables
<1>1. DOMAIN db \ gone \in SUBSET Ids /\ \A x \in DOMAIN db : db[x] \in Account
  BY TableDomain
<1>2. Removed(db, gone) \in [DOMAIN db \ gone -> Account]
  BY <1>1 DEF Removed
<1> QED BY <1>1, <1>2, MakeTable

LEMMA UnlinkedTable ==
    ASSUME NEW db \in Tables, NEW p, NEW u
    PROVE  Unlinked(db, p, u) \in Tables
<1>1. DOMAIN db \in SUBSET Ids /\ \A x \in DOMAIN db : db[x] \in Account
  BY TableDomain
<1>2. \A x \in DOMAIN db : [db[x] EXCEPT !.subs = @ \ {u}] \in Account
  BY <1>1 DEF Account
<1>3. Unlinked(db, p, u) \in [DOMAIN db -> Account]
  BY <1>1, <1>2 DEF Unlinked
<1> QED BY <1>1, <1>3, MakeTable

LEMMA ChangedTable ==
    ASSUME NEW db \in Tables, NEW u \in DOMAIN db, NEW account \in Account
    PROVE  [db EXCEPT ![u] = account] \in Tables
<1>1. DOMAIN db \in SUBSET Ids /\ \A x \in DOMAIN db : db[x] \in Account
  BY TableDomain
<1>2. [db EXCEPT ![u] = account] \in [DOMAIN db -> Account]
  <2>1. db \in [DOMAIN db -> Account]
    BY <1>1 DEF Tables
  <2> QED BY <2>1
<1> QED BY <1>1, <1>2, MakeTable
-----------------------------------------------------------------------------
(* Families under the changes of a table *)

\* An account nobody refers to may come and go.
LEMMA AddMain ==
    ASSUME NEW db \in Tables, Whole(db), NEW u \in Ids, u \notin DOMAIN db, NEW key
    PROVE  Whole(Added(db, u, Fresh(Root, key)))
<1>1. \A x \in DOMAIN db : db[x] \in Account
  BY TableDomain
<1> QED BY <1>1, AccountsAssumption DEF Whole, Added, Fresh, Account

LEMMA RemoveLone ==
    ASSUME NEW db \in Tables, Whole(db), NEW u,
           u \in DOMAIN db => db[u].parent = Root /\ db[u].subs = {}
    PROVE  Whole(Removed(db, {u}))
<1>1. \A x \in DOMAIN db : db[x] \in Account
  BY TableDomain
<1>2. DOMAIN db \subseteq Ids /\ Root \notin Ids
  BY TableDomain, AccountsAssumption
<1>3. \A x \in DOMAIN db : u \in DOMAIN db => db[x].parent # u
  BY <1>2 DEF Whole
<1>4. \A x \in DOMAIN db : u \notin db[x].subs
  BY <1>2 DEF Whole
<1> DEFINE new == Removed(db, {u})
<1>5. DOMAIN new = DOMAIN db \ {u} /\ \A x \in DOMAIN new : new[x] = db[x]
  BY DEF Removed
<1>6. Whole(new)
  <2> HIDE DEF new
  <2> QED BY <1>2, <1>3, <1>4, <1>5 DEF Whole
<1> QED BY <1>6

LEMMA AddSub ==
    ASSUME NEW db \in Tables, Whole(db), NEW p \in DOMAIN db, db[p].parent = Root,
           NEW u \in Ids, u \notin DOMAIN db, NEW key
    PROVE  Whole(Added([db EXCEPT ![p].subs = @ \cup {u}], u, Fresh(p, key)))
<1>1. \A x \in DOMAIN db : db[x] \in Account
  BY TableDomain
<1> DEFINE linked == [db EXCEPT ![p].subs = @ \cup {u}]
           new == Added(linked, u, Fresh(p, key))
<1>2. DOMAIN linked = DOMAIN db /\ DOMAIN new = DOMAIN db \cup {u}
  BY DEF Added
<1>3. \A x \in DOMAIN db : /\ new[x].parent = db[x].parent
                           /\ new[x].subs = IF x = p THEN db[p].subs \cup {u} ELSE db[x].subs
  BY <1>1, <1>2 DEF Added, Account
<1>4. new[u].parent = p /\ new[u].subs = {}
  BY <1>2 DEF Added, Fresh
<1>5. p \in Ids /\ p # Root /\ p # u
  BY TableDomain, AccountsAssumption
<1>6. Whole(new)
  <2> HIDE DEF new, linked
  <2> QED BY <1>2, <1>3, <1>4, <1>5 DEF Whole
<1> QED BY <1>6

LEMMA RemoveSub ==
    ASSUME NEW db \in Tables, Whole(db), NEW p \in Ids, NEW u,
           u \in DOMAIN db => db[u].parent = p /\ db[u].subs = {}
    PROVE  /\ Whole(Unlinked(Removed(db, {u}), p, u))
           /\ Whole(Removed(Unlinked(db, p, u), {u}))
<1> DEFINE first == Unlinked(Removed(db, {u}), p, u)
           second == Removed(Unlinked(db, p, u), {u})
<1>1. \A x \in DOMAIN db : db[x] \in Account
  BY TableDomain
<1>2. DOMAIN first = DOMAIN db \ {u} /\ DOMAIN second = DOMAIN db \ {u}
  BY DEF Unlinked, Removed
<1>3. \A x \in DOMAIN db \ {u} :
         /\ first[x].parent = db[x].parent /\ second[x].parent = db[x].parent
         /\ first[x].subs = IF x = p THEN db[p].subs \ {u} ELSE db[x].subs
         /\ second[x].subs = first[x].subs
  BY <1>1 DEF Unlinked, Removed, Account
<1>5. DOMAIN db \subseteq Ids /\ Root \notin Ids /\ p # Root
  BY TableDomain, AccountsAssumption
<1>4. \A x \in DOMAIN db \ {u} : /\ u \in DOMAIN db => db[x].parent # u
                              /\ u \in db[x].subs => x = p
  BY <1>5 DEF Whole
<1> HIDE DEF first, second
<1>6. ASSUME NEW f, DOMAIN f = DOMAIN db \ {u},
             \A x \in DOMAIN db \ {u} : /\ f[x].parent = db[x].parent
                                        /\ f[x].subs = IF x = p THEN db[p].subs \ {u} ELSE db[x].subs
      PROVE  Whole(f)
  BY <1>4, <1>5, <1>6 DEF Whole
<1>7. Whole(first)
  BY <1>2, <1>3, <1>6
<1>8. Whole(second)
  BY <1>2, <1>3, <1>6
<1> QED BY <1>7, <1>8 DEF first, second

LEMMA ChangeKey ==
    ASSUME NEW db \in Tables, Whole(db), NEW u \in DOMAIN db, NEW key
    PROVE  Whole([db EXCEPT ![u].key = key])
<1>1. \A x \in DOMAIN db : db[x] \in Account
  BY TableDomain
<1> DEFINE new == [db EXCEPT ![u].key = key]
<1>2. DOMAIN new = DOMAIN db
  OBVIOUS
<1>3. \A x \in DOMAIN db : new[x].parent = db[x].parent /\ new[x].subs = db[x].subs
  BY <1>1 DEF Account
<1> HIDE DEF new
<1>4. Whole(new)
  BY <1>2, <1>3 DEF Whole
<1> QED BY <1>4 DEF new
-----------------------------------------------------------------------------
(* Keys under the changes of a table *)

LEMMA AddedKey ==
    ASSUME NEW db, NEW u, NEW account, NEW x
    PROVE  KeyIn(Added(db, u, account), x) = IF x = u THEN account.key ELSE KeyIn(db, x)
BY DEF KeyIn, Added

LEMMA RemovedKey ==
    ASSUME NEW db, NEW gone, NEW x
    PROVE  KeyIn(Removed(db, gone), x) = IF x \in gone THEN 0 ELSE KeyIn(db, x)
BY DEF KeyIn, Removed

LEMMA UnlinkedKey ==
    ASSUME NEW db \in Tables, NEW p, NEW u, NEW x
    PROVE  KeyIn(Unlinked(db, p, u), x) = KeyIn(db, x)
<1>1. \A y \in DOMAIN db : db[y] \in Account
  BY TableDomain
<1> QED BY <1>1 DEF KeyIn, Unlinked, Account

LEMMA LinkedTable ==
    ASSUME NEW db \in Tables, NEW p \in DOMAIN db, NEW u \in Ids
    PROVE  /\ [db EXCEPT ![p].subs = @ \cup {u}] \in Tables
           /\ \A x : KeyIn([db EXCEPT ![p].subs = @ \cup {u}], x) = KeyIn(db, x)
<1>1. \A y \in DOMAIN db : db[y] \in Account
  BY TableDomain
<1>2. [db[p] EXCEPT !.subs = @ \cup {u}] \in Account
  BY <1>1 DEF Account
<1>3. [db EXCEPT ![p].subs = @ \cup {u}] = [db EXCEPT ![p] = [db[p] EXCEPT !.subs = @ \cup {u}]]
  OBVIOUS
<1>4. [db EXCEPT ![p].subs = @ \cup {u}] \in Tables
  BY <1>2, <1>3, ChangedTable
<1>5. \A x : KeyIn([db EXCEPT ![p].subs = @ \cup {u}], x) = KeyIn(db, x)
  BY <1>1 DEF KeyIn, Account
<1> QED BY <1>4, <1>5

LEMMA KeyedTable ==
    ASSUME NEW db \in Tables, NEW u \in DOMAIN db, NEW key \in Nat \ {0}
    PROVE  /\ [db EXCEPT ![u].key = key] \in Tables
           /\ \A x : KeyIn([db EXCEPT ![u].key = key], x) = IF x = u THEN key ELSE KeyIn(db, x)
<1>1. \A y \in DOMAIN db : db[y] \in Account
  BY TableDomain
<1>2. [db[u] EXCEPT !.key = key] \in Account
  BY <1>1 DEF Account
<1>3. [db EXCEPT ![u].key = key] = [db EXCEPT ![u] = [db[u] EXCEPT !.key = key]]
  OBVIOUS
<1>4. [db EXCEPT ![u].key = key] \in Tables
  BY <1>2, <1>3, ChangedTable
<1>5. \A x : KeyIn([db EXCEPT ![u].key = key], x) = IF x = u THEN key ELSE KeyIn(db, x)
  BY <1>1 DEF KeyIn, Account
<1> QED BY <1>4, <1>5

LEMMA Later == \A n \in Nat : n + 1 \in Nat /\ n + 2 \in Nat \ {0}
OBVIOUS

LEMMA TheOne == \A v : (CHOOSE x \in {v} : TRUE) = v
OBVIOUS
-----------------------------------------------------------------------------
(* The changes *)

\* What a change must do to keep the invariant: leave whole families and the
\* keys of the accounts it does not decide about.
LEMMA ChangeKeeps ==
    ASSUME AInv, NEW c \in Clients, NEW op \in Ops \ {"none"}, NEW ids \in SUBSET Ids,
           NEW old \in Nat, NEW db \in Tables,
           ChangeUsers(c, op, ids, old, db),
           mishaps \subseteq mishaps', mishaps' \subseteq mishaps \cup {"family deleted"},
           Calm' => Whole(db), About(op, ids, old, db),
           \A u \in Ids \ ids : KeyIn(db, u) = KeyIn(users_db, u),
           op \in {"register", "create"} => \A u \in ids : KeyIn(users_db, u) = 0,
           op = "reset" => \A u \in ids : KeyIn(users_db, u) = old
    PROVE  AInv'
<1> DEFINE before == [u \in ids \cap DOMAIN answered |-> answered[u]]
           call == [pc |-> "changed", op |-> op, ids |-> ids, db |-> db, old |-> old,
                    before |-> before, crossed |-> Busy # {}, onto |-> "tmp"]
<1>1. /\ running /\ running' = running /\ users_db' = db
      /\ meta_file' = meta_file /\ meta_tmp' = meta_tmp
      /\ clients[c].pc = "idle"
      /\ clients' = [x \in Clients |->
                       IF x = c THEN call ELSE [clients[x] EXCEPT !.crossed = @ \/ x \in Busy]]
      /\ answered' = [u \in DOMAIN answered \ ids |-> answered[u]]
      /\ effort' = [effort EXCEPT !.changes = @ + 1]
  BY DEF ChangeUsers, At, Removed
<1>2. /\ clients \in [Clients -> Call] /\ DOMAIN answered \subseteq Ids
      /\ \A u \in DOMAIN answered : answered[u] \in Nat
  <2>1. clients \in [Clients -> Call] /\ answered \in KeyTables
    BY DEF AInv, Shape
  <2> QED BY <2>1 DEF KeyTables
<1>3. /\ before \in KeyTables /\ call \in Call
      /\ \A x \in Clients \ {c} : [clients[x] EXCEPT !.crossed = @ \/ x \in Busy] \in Call
  <2>1. before \in KeyTables
    <3>1. before \in [ids \cap DOMAIN answered -> Nat] /\ ids \cap DOMAIN answered \in SUBSET Ids
      BY <1>2
    <3> QED BY <3>1 DEF KeyTables
  <2>2. call \in Call
    BY <2>1 DEF Call, Ops
  <2>3. \A x \in Clients \ {c} : [clients[x] EXCEPT !.crossed = @ \/ x \in Busy] \in Call
    <3>1. \A x \in Clients : (clients[x].crossed \/ x \in Busy) \in BOOLEAN
      BY <1>2
    <3> QED BY <1>2, <3>1 DEF Call
  <2> QED BY <2>1, <2>2, <2>3
<1>a. /\ call.pc = "changed" /\ call.op = op /\ call.ids = ids /\ call.db = db
      /\ call.old = old /\ call.before = before /\ call.onto = "tmp"
      /\ ~call.crossed => Busy = {}
  OBVIOUS
<1> HIDE DEF call
<1>4. /\ clients'[c] = call
      /\ \A x \in Clients \ {c} :
            /\ clients'[x].pc = clients[x].pc /\ clients'[x].op = clients[x].op
            /\ clients'[x].ids = clients[x].ids /\ clients'[x].db = clients[x].db
            /\ clients'[x].old = clients[x].old
            /\ clients'[x].crossed = (clients[x].crossed \/ x \in Busy)
  BY <1>1, <1>2 DEF Call
<1>5. Busy' = Busy \cup {c} /\ c \notin Busy
  <2>1. \A x \in Clients : clients'[x].pc = IF x = c THEN "changed" ELSE clients[x].pc
    BY <1>a, <1>4
  <2> QED BY <1>1, <2>1 DEF Busy, At
<1>6. Shape'
  <2>1. clients' \in [Clients -> Call]
    BY <1>1, <1>3
  <2>2. answered' \in KeyTables
    <3>1. answered' \in [DOMAIN answered \ ids -> Nat] /\ DOMAIN answered \ ids \in SUBSET Ids
      BY <1>1, <1>2
    <3> QED BY <3>1 DEF KeyTables
  <2>3. effort' \in [changes : Nat, faults : Nat]
    <3>1. effort \in [changes : Nat, faults : Nat]
      BY DEF AInv, Shape
    <3>2. effort' = [changes |-> effort.changes + 1, faults |-> effort.faults]
      BY <1>1, <3>1
    <3>3. effort.changes \in Nat /\ effort.faults \in Nat
      BY <3>1
    <3>4. effort.changes + 1 \in Nat
      BY <3>3, Later
    <3> QED BY <3>2, <3>3, <3>4
  <2> QED BY <1>1, <2>1, <2>2, <2>3 DEF AInv, Shape
<1>7. Pending'
  <2> SUFFICES ASSUME NEW x \in Clients
               PROVE  About(clients'[x].op, clients'[x].ids, clients'[x].old, clients'[x].db)
    BY DEF Pending, About
  <2>1. CASE x = c
    BY <1>a, <1>4, <2>1
  <2>2. CASE x # c
    BY <1>4, <2>2 DEF AInv, Pending
  <2> QED BY <2>1, <2>2
<1>8. Families'
  <2> SUFFICES ASSUME Calm' PROVE Families'
    BY DEF Families
  <2>1. Calm
    BY DEF Calm
  <2>2. /\ Whole(meta_file.db) /\ Whole(meta_tmp.db) /\ Whole(db)
        /\ \A x \in Clients : Whole(clients[x].db)
    BY <2>1 DEF AInv, Families
  <2>3. \A x \in Clients : Whole(clients'[x].db)
    BY <1>a, <1>4, <2>2
  <2> QED BY <1>1, <2>2, <2>3 DEF Families
<1>9. Quiet' => Quiet
  BY DEF Quiet
<1>10. Quiet => /\ \A u \in DOMAIN answered' : KeyIn(db, u) = answered'[u]
                /\ \A d : Agrees(d) => \A u \in DOMAIN answered' : KeyIn(d, u) = answered'[u]
  <2>1. Quiet => Agrees(users_db)
    BY <1>1 DEF AInv, Answers, Copies
  <2> QED BY <1>1, <1>2, <2>1 DEF Agrees
<1>11. Copies'
  <2> SUFFICES ASSUME Quiet' PROVE Copies'
    BY DEF Copies
  <2>1. Copies /\ Quiet
    BY <1>9 DEF AInv, Answers
  <2>2. Agrees(meta_file.db)' /\ Agrees(users_db)'
    BY <1>1, <1>10, <2>1 DEF Agrees, Copies
  <2>3. ASSUME NEW x \in Busy' PROVE Agrees(clients[x].db)'
    <3>1. CASE x = c
      BY <1>a, <1>4, <1>10, <2>1, <3>1 DEF Agrees
    <3>2. CASE x # c
      <4>1. x \in Busy /\ x \in Clients
        BY <1>5, <3>2 DEF Busy
      <4>2. Agrees(clients[x].db) /\ clients'[x].db = clients[x].db
        BY <1>4, <2>1, <3>2, <4>1 DEF Copies
      <4> QED BY <1>10, <2>1, <4>2 DEF Agrees
    <3> QED BY <3>1, <3>2
  <2>4. ASSUME NEW x \in Clients, clients'[x].pc \in {"opened", "written"}, meta_tmp'.state = "whole"
        PROVE  Agrees(meta_tmp.db)'
    <3>1. x # c
      BY <1>a, <1>4, <2>4
    <3> QED BY <1>1, <1>4, <1>10, <2>1, <2>4, <3>1 DEF Agrees, Copies
  <2> QED BY <2>2, <2>3, <2>4 DEF Copies
<1>12. TornIsKnown' /\ Undecided'
  <2>1. TornIsKnown'
    BY <1>1 DEF AInv, Answers, TornIsKnown
  <2>2. DOMAIN answered' = DOMAIN answered \ ids
    BY <1>1
  <2>3. Undecided'
    BY <1>a, <1>4, <1>5, <2>2 DEF AInv, Answers, Undecided, Busy
  <2> QED BY <2>1, <2>3
<1>13. Uncrossed'
  <2> SUFFICES ASSUME NEW x \in Busy', ~clients'[x].crossed
               PROVE  Alone(x)'
    BY DEF Uncrossed
  <2>1. x = c
    <3> SUFFICES ASSUME x # c PROVE FALSE
      OBVIOUS
    <3>1. x \in Busy /\ x \in Clients
      BY <1>5 DEF Busy
    <3> QED BY <1>4, <3>1
  <2>3. Busy = {}
    BY <1>a, <1>4, <2>1
  <2>2. Quiet => \A u \in DOMAIN before :
          /\ KeyIn(meta_file.db, u) = before[u]
          /\ op \in {"register", "create"} => before[u] = 0
          /\ op = "reset" => before[u] = old
    BY <1>1 DEF AInv, Answers, Copies, Agrees
  <2>4. DOMAIN before \subseteq ids
    OBVIOUS
  <2> HIDE DEF before
  <2>5. /\ Busy' = {c} /\ clients'[c].onto = "tmp" /\ users_db' = clients'[c].db
        /\ DOMAIN clients'[c].before \subseteq clients'[c].ids
        /\ clients'[c].pc # "written"
    BY <1>a, <1>1, <1>4, <1>5, <2>3, <2>4
  <2>6. Quiet' => \A u \in DOMAIN clients'[c].before :
          /\ KeyIn(meta_file'.db, u) = clients'[c].before[u]
          /\ clients'[c].op \in {"register", "create"} => clients'[c].before[u] = 0
          /\ clients'[c].op = "reset" => clients'[c].before[u] = clients'[c].old
    BY <1>a, <1>1, <1>4, <1>9, <2>2
  <2> QED BY <2>1, <2>5, <2>6 DEF Alone, KeyIn
<1> QED BY <1>6, <1>7, <1>8, <1>11, <1>12, <1>13 DEF AInv, Answers

\* What the changes read of the state.
LEMMA ChangeContext ==
    ASSUME AInv
    PROVE  /\ users_db \in Tables /\ DOMAIN users_db \subseteq Ids
           /\ \A x \in DOMAIN users_db : users_db[x] \in Account
           /\ NewKey \in Nat \ {0} /\ (Calm => Whole(users_db))
<1>1. users_db \in Tables /\ effort.changes \in Nat
  BY DEF AInv, Shape
<1>2. NewKey \in Nat \ {0}
  BY <1>1, Later DEF NewKey
<1>3. DOMAIN users_db \subseteq Ids /\ \A x \in DOMAIN users_db : users_db[x] \in Account
  BY <1>1, TableDomain
<1> QED BY <1>1, <1>2, <1>3 DEF AInv, Families

LEMMA RegisterKeeps ==
    ASSUME AInv, NEW c \in Clients, NEW u \in Ids, Register(c, u)
    PROVE  AInv'
<1> DEFINE account == Fresh(Root, NewKey)
           db == Added(users_db, u, account)
<1>1. /\ u \notin DOMAIN users_db /\ mishaps' = mishaps
      /\ ChangeUsers(c, "register", {u}, 0, db)
  BY DEF Register
<1>2. /\ users_db \in Tables /\ NewKey \in Nat \ {0} /\ (Calm => Whole(users_db))
  BY ChangeContext
<1>3. account \in Account /\ account.parent = Root
  BY <1>2 DEF Fresh, Account
<1>4. db \in Tables
  BY <1>2, <1>3, AddedTable
<1>5. Calm' => Whole(db)
  BY <1>1, <1>2, AddMain DEF Calm
<1>6. u \in DOMAIN db /\ db[u] = account
  BY DEF Added
<1>7. About("register", {u}, 0, db)
  BY <1>3, <1>6 DEF About
<1>8. \A x \in Ids \ {u} : KeyIn(db, x) = KeyIn(users_db, x)
  BY AddedKey
<1>9. KeyIn(users_db, u) = 0
  BY <1>1 DEF KeyIn
<1> HIDE DEF db, account
<1>10. /\ "register" \in Ops \ {"none"} /\ {u} \in SUBSET Ids /\ 0 \in Nat
      /\ mishaps \subseteq mishaps' /\ mishaps' \subseteq mishaps \cup {"family deleted"}
      /\ \A x \in {u} : KeyIn(users_db, x) = 0
  BY <1>1, <1>9 DEF Ops
<1> QED BY <1>1, <1>4, <1>5, <1>7, <1>8, <1>10, ChangeKeeps

LEMMA CreateKeeps ==
    ASSUME AInv, NEW c \in Clients, NEW p \in Ids, NEW u \in Ids, CreateSubaccount(c, p, u)
    PROVE  AInv'
<1> DEFINE account == Fresh(p, NewKey)
           linked == [users_db EXCEPT ![p].subs = @ \cup {u}]
           db == Added(linked, u, account)
<1>1. /\ u \notin DOMAIN users_db /\ p \in DOMAIN users_db /\ users_db[p].parent = Root
      /\ mishaps' = mishaps /\ ChangeUsers(c, "create", {u}, 0, db)
  BY DEF CreateSubaccount
<1>2. /\ users_db \in Tables /\ NewKey \in Nat \ {0} /\ (Calm => Whole(users_db))
  BY ChangeContext
<1>3. account \in Account /\ account.parent = p
  BY <1>2 DEF Fresh, Account
<1>4. linked \in Tables /\ \A x : KeyIn(linked, x) = KeyIn(users_db, x)
  BY <1>1, <1>2, LinkedTable
<1>5. db \in Tables
  <2> HIDE DEF linked, account
  <2> QED BY <1>3, <1>4, AddedTable
<1>6. Calm' => Whole(db)
  BY <1>1, <1>2, AddSub DEF Calm
<1>7. u \in DOMAIN db /\ db[u] = account
  BY DEF Added
<1>8. About("create", {u}, 0, db)
  BY <1>3, <1>7 DEF About
<1>9. \A x \in Ids \ {u} : KeyIn(db, x) = KeyIn(users_db, x)
  <2> HIDE DEF linked, account
  <2> QED BY <1>4, AddedKey
<1>10. KeyIn(users_db, u) = 0
  BY <1>1 DEF KeyIn
<1> HIDE DEF db, account, linked
<1>11. /\ "create" \in Ops \ {"none"} /\ {u} \in SUBSET Ids /\ 0 \in Nat
      /\ mishaps \subseteq mishaps' /\ mishaps' \subseteq mishaps \cup {"family deleted"}
      /\ \A x \in {u} : KeyIn(users_db, x) = 0
  BY <1>1, <1>10 DEF Ops
<1> QED BY <1>1, <1>5, <1>6, <1>8, <1>9, <1>11, ChangeKeeps

LEMMA ResetKeeps ==
    ASSUME AInv, NEW c \in Clients, NEW u \in Ids, ResetApiKey(c, u)
    PROVE  AInv'
<1> DEFINE db == [users_db EXCEPT ![u].key = NewKey]
           old == users_db[u].key
<1>1. /\ u \in DOMAIN users_db /\ mishaps' = mishaps
      /\ ChangeUsers(c, "reset", {u}, old, db)
  BY DEF ResetApiKey
<1>2. /\ users_db \in Tables /\ NewKey \in Nat \ {0} /\ (Calm => Whole(users_db))
      /\ old \in Nat \ {0}
  BY <1>1, ChangeContext DEF Account
<1>3. db \in Tables /\ \A x \in Ids \ {u} : KeyIn(db, x) = KeyIn(users_db, x)
  <2>1. /\ db \in Tables
        /\ \A x : KeyIn(db, x) = IF x = u THEN NewKey ELSE KeyIn(users_db, x)
    <3>1. users_db \in Tables /\ u \in DOMAIN users_db /\ NewKey \in Nat \ {0}
      BY <1>1, <1>2
    <3> HIDE DEF NewKey
    <3>2. db \in Tables
      BY <3>1, KeyedTable
    <3>3. \A x : KeyIn(db, x) = IF x = u THEN NewKey ELSE KeyIn(users_db, x)
      BY <3>1, ChangeContext DEF KeyIn, Account
    <3> QED BY <3>2, <3>3
  <2> HIDE DEF db
  <2> QED BY <2>1
<1>4. Calm' => Whole(db)
  BY <1>1, <1>2, ChangeKey DEF Calm
<1>5. About("reset", {u}, old, db)
  BY <1>1, <1>2 DEF About
<1>6. KeyIn(users_db, u) = old
  BY <1>1 DEF KeyIn
<1> HIDE DEF db, old
<1> QED BY <1>1, <1>2, <1>3, <1>4, <1>5, <1>6, ChangeKeeps DEF Ops

LEMMA RevokeKeeps ==
    ASSUME AInv, NEW c \in Clients, NEW u \in Ids, RevokeSubaccount(c, u)
    PROVE  AInv'
<1> DEFINE gone == {u} \cup {x \in DOMAIN users_db : users_db[x].parent = u}
           p == users_db[u].parent
           linked == Unlinked(users_db, p, u)
           db == Removed(linked, gone)
<1>1. /\ u \in DOMAIN users_db /\ p # Root /\ mishaps' = mishaps
      /\ ChangeUsers(c, "revoke", gone, 0, db)
  BY DEF RevokeSubaccount
<1>2. /\ users_db \in Tables /\ DOMAIN users_db \subseteq Ids /\ (Calm => Whole(users_db))
      /\ p \in Ids
  BY <1>1, ChangeContext DEF Account
<1>3. linked \in Tables /\ \A x : KeyIn(linked, x) = KeyIn(users_db, x)
  BY <1>2, UnlinkedTable, UnlinkedKey
<1>4. db \in Tables /\ gone \subseteq Ids
  <2> HIDE DEF linked
  <2> QED BY <1>2, <1>3, RemovedTable
<1>5. ASSUME Calm' PROVE Whole(db)
  <2>1. Whole(users_db)
    BY <1>1, <1>2, <1>5 DEF Calm
  <2>2. users_db[u].subs = {}
    BY <1>1, <2>1 DEF Whole
  <2>3. gone = {u}
    <3> SUFFICES ASSUME NEW x \in DOMAIN users_db, users_db[x].parent = u PROVE FALSE
      OBVIOUS
    <3>1. u # Root
      BY AccountsAssumption
    <3> QED BY <2>1, <2>2, <3>1 DEF Whole
  <2>4. Whole(Removed(Unlinked(users_db, p, u), {u}))
    <3> HIDE DEF p
    <3>1. u \in DOMAIN users_db => users_db[u].parent = p /\ users_db[u].subs = {}
      BY <2>2 DEF p
    <3> QED BY <1>2, <2>1, <3>1, RemoveSub
  <2> HIDE DEF gone
  <2> QED BY <2>3, <2>4
<1>6. About("revoke", gone, 0, db)
  BY DEF About
<1>7. \A x \in Ids \ gone : KeyIn(db, x) = KeyIn(users_db, x)
  <2> HIDE DEF linked, gone
  <2> QED BY <1>3, RemovedKey
<1> HIDE DEF db, gone
<1> QED BY <1>1, <1>4, <1>5, <1>6, <1>7, ChangeKeeps DEF Ops

LEMMA DeleteKeeps ==
    ASSUME AInv, NEW c \in Clients, NEW u \in Ids, DeleteUser(c, u)
    PROVE  AInv'
<1> DEFINE db == Removed(users_db, {u})
<1>1. /\ u \in DOMAIN users_db /\ ChangeUsers(c, "delete", {u}, 0, db)
      /\ mishaps' = IF users_db[u].parent # Root \/ users_db[u].subs # {}
                    THEN mishaps \cup {"family deleted"} ELSE mishaps
  BY DEF DeleteUser
<1>2. users_db \in Tables /\ (Calm => Whole(users_db))
  BY ChangeContext
<1>3. db \in Tables
  BY <1>2, RemovedTable
<1>4. Calm' => Whole(db)
  BY <1>1, <1>2, RemoveLone DEF Calm
<1>5. About("delete", {u}, 0, db)
  BY DEF About
<1>6. \A x \in Ids \ {u} : KeyIn(db, x) = KeyIn(users_db, x)
  BY RemovedKey
<1> HIDE DEF db
<1>7. mishaps \subseteq mishaps' /\ mishaps' \subseteq mishaps \cup {"family deleted"}
  BY <1>1
<1> QED BY <1>1, <1>3, <1>4, <1>5, <1>6, <1>7, ChangeKeeps DEF Ops

LEMMA TouchKeeps ==
    ASSUME AInv, NEW c \in Clients, NEW u \in Ids, TouchRecord(c, u)
    PROVE  AInv'
<1>1. ChangeUsers(c, "touch", {}, 0, users_db) /\ mishaps' = mishaps
  BY DEF TouchRecord
<1>2. users_db \in Tables /\ (Calm => Whole(users_db))
  BY ChangeContext
<1>3. (Calm' => Whole(users_db)) /\ About("touch", {}, 0, users_db)
  BY <1>1, <1>2 DEF Calm, About
<1> QED BY <1>1, <1>2, <1>3, ChangeKeeps DEF Ops
-----------------------------------------------------------------------------
(* The steps of a save *)

\* A change under way that crossed nothing is the only one.
LEMMA OnlyOne ==
    ASSUME AInv, NEW c \in Busy, NEW x \in Busy, ~clients[x].crossed
    PROVE  x = c /\ Alone(x)
<1>1. Alone(x)
  BY DEF AInv, Answers, Uncrossed
<1> QED BY <1>1 DEF Alone

\* A step that leaves the change under way.
LEMMA StepKeeps ==
    ASSUME AInv, NEW c \in Busy, NEW pc \in {"opened", "written", "failed"}, Goes(c, pc),
           UNCHANGED <<users_db, running, answered>>,
           effort' \in [changes : Nat, faults : Nat],
           mishaps \subseteq mishaps', mishaps' \subseteq mishaps \cup {"torn file"},
           meta_file' \in File, meta_tmp' \in File,
           Calm => Whole(meta_file'.db) /\ Whole(meta_tmp'.db),
           TornIsKnown', Quiet' => Agrees(meta_file.db)',
           Quiet' => \A x \in Clients : clients'[x].pc \in {"opened", "written"} =>
                        (meta_tmp'.state = "whole" => Agrees(meta_tmp.db)'),
           ~clients[c].crossed => /\ meta_file' = meta_file
                                  /\ pc = "written" => meta_tmp' = WholeFile(clients[c].db)
    PROVE  AInv'
<1>1. clients \in [Clients -> Call] /\ c \in Clients
  BY DEF AInv, Shape, Busy
<1>2. /\ clients' \in [Clients -> Call] /\ clients'[c].pc = pc
      /\ \A x \in Clients : x # c => clients'[x] = clients[x]
      /\ \A x \in Clients : /\ clients'[x].op = clients[x].op /\ clients'[x].ids = clients[x].ids
                            /\ clients'[x].db = clients[x].db /\ clients'[x].old = clients[x].old
                            /\ clients'[x].before = clients[x].before
                            /\ clients'[x].crossed = clients[x].crossed
                            /\ clients'[x].onto = clients[x].onto
  <2>1. [clients[c] EXCEPT !.pc = pc] \in Call
    BY <1>1 DEF Call
  <2>2. clients' = [clients EXCEPT ![c] = [clients[c] EXCEPT !.pc = pc]]
    BY DEF Goes
  <2> QED BY <1>1, <2>1, <2>2 DEF Call
<1>3. Busy' = Busy
  BY <1>2 DEF Busy, At
<1>4. Shape'
  BY <1>2, <1>3 DEF AInv, Shape
<1>5. Pending'
  <2> SUFFICES ASSUME NEW x \in Clients
               PROVE  About(clients'[x].op, clients'[x].ids, clients'[x].old, clients'[x].db)
    BY DEF Pending, About
  <2> QED BY <1>2 DEF AInv, Pending
<1>6. Families'
  <2> SUFFICES ASSUME Calm' PROVE Families'
    BY DEF Families
  <2>1. Calm
    BY DEF Calm
  <2> QED BY <1>2, <2>1 DEF AInv, Families
<1>7. Quiet' => Quiet
  BY DEF Quiet
<1>8. Copies'
  <2> SUFFICES ASSUME Quiet' PROVE Copies'
    BY DEF Copies
  <2>1. \A x \in Busy : Agrees(clients[x].db)
    BY <1>7 DEF AInv, Answers, Copies
  <2>2. ASSUME NEW x \in Busy' PROVE Agrees(clients[x].db)'
    <3>1. x \in Busy /\ x \in Clients
      BY <1>3 DEF Busy
    <3>2. Agrees(clients[x].db) /\ clients'[x].db = clients[x].db /\ answered' = answered
      BY <1>2, <2>1, <3>1
    <3> QED BY <3>2 DEF Agrees
  <2>3. running' => Agrees(users_db)'
    BY <1>7 DEF AInv, Answers, Copies, Agrees
  <2> QED BY <2>2, <2>3 DEF Copies
<1>9. Undecided'
  BY <1>2, <1>3 DEF AInv, Answers, Undecided, Busy
<1>10. Uncrossed'
  <2> SUFFICES ASSUME NEW x \in Busy', ~clients'[x].crossed
               PROVE  Alone(x)'
    BY DEF Uncrossed
  <2>1. x \in Busy /\ x \in Clients /\ ~clients[x].crossed
    BY <1>2, <1>3 DEF Busy
  <2>2. x = c /\ Alone(c)
    BY <2>1, OnlyOne
  <2>3. /\ Busy' = {c} /\ clients'[c].onto = "tmp" /\ users_db' = clients'[c].db
        /\ DOMAIN clients'[c].before \subseteq clients'[c].ids
        /\ clients'[c].pc = "written" => meta_tmp' = WholeFile(clients'[c].db)
    BY <1>1, <1>2, <1>3, <2>1, <2>2 DEF Alone
  <2>4. Quiet' => \A u \in DOMAIN clients'[c].before :
          /\ KeyIn(meta_file'.db, u) = clients'[c].before[u]
          /\ clients'[c].op \in {"register", "create"} => clients'[c].before[u] = 0
          /\ clients'[c].op = "reset" => clients'[c].before[u] = clients'[c].old
    BY <1>1, <1>2, <1>7, <2>1, <2>2 DEF Alone
  <2> QED BY <2>2, <2>3, <2>4 DEF Alone
<1> QED BY <1>4, <1>5, <1>6, <1>8, <1>9, <1>10 DEF AInv, Answers

\* A step that ends the change.
LEMMA EndKeeps ==
    ASSUME AInv, NEW c \in Busy, clients' \in [Clients -> Call], clients'[c] = NoChange,
           \A x \in Clients \ {c} :
              /\ clients'[x].pc = clients[x].pc /\ clients'[x].op = clients[x].op
              /\ clients'[x].ids = clients[x].ids /\ clients'[x].db = clients[x].db
              /\ clients'[x].old = clients[x].old /\ clients'[x].crossed = clients[x].crossed,
           UNCHANGED <<running, effort>>, mishaps \subseteq mishaps',
           users_db' \in Tables, meta_file' \in File, answered' \in KeyTables,
           meta_tmp' \in {meta_tmp, NoFile},
           Calm' => Whole(users_db') /\ Whole(meta_file'.db),
           TornIsKnown', Quiet' => Agrees(meta_file.db)' /\ Agrees(users_db)',
           clients[c].crossed => answered' = answered
    PROVE  AInv'
<1>1. /\ NoFile \in File /\ Whole(NoFile.db) /\ NoFile.state = "none"
      /\ NoChange.pc = "idle" /\ NoChange.op = "none" /\ Whole(NoChange.db)
      /\ NoChange.ids = {}
  BY EmptyTable DEF NoFile, File, NoChange
<1>2. c \in Clients /\ Busy \subseteq Clients /\ clients \in [Clients -> Call]
  BY DEF Busy, AInv, Shape
<1>3. Busy' = Busy \ {c}
  BY <1>1, <1>2 DEF Busy, At
<1>4. Shape'
  <2>1. running /\ meta_tmp' \in File
    BY <1>1, <1>2 DEF AInv, Shape
  <2> QED BY <2>1 DEF AInv, Shape
<1>5. Pending'
  <2> SUFFICES ASSUME NEW x \in Clients
               PROVE  About(clients'[x].op, clients'[x].ids, clients'[x].old, clients'[x].db)
    BY DEF Pending, About
  <2>1. CASE x = c
    BY <1>1, <2>1 DEF About
  <2>2. CASE x # c
    BY <2>2 DEF AInv, Pending
  <2> QED BY <2>1, <2>2
<1>6. Families'
  <2> SUFFICES ASSUME Calm' PROVE Families'
    BY DEF Families
  <2>1. /\ Whole(meta_tmp.db) /\ \A x \in Clients : Whole(clients[x].db)
    BY DEF AInv, Families, Calm
  <2>2. Whole(meta_tmp'.db)
    BY <1>1, <2>1
  <2>3. \A x \in Clients : Whole(clients'[x].db)
    BY <1>1, <2>1
  <2> QED BY <2>2, <2>3 DEF Families
<1>7. \A x \in Busy : ~clients[x].crossed => Busy = {c}
  BY OnlyOne DEF Alone
<1>8. Busy' # {} => answered' = answered
  <2>1. clients[c].crossed \in BOOLEAN
    BY <1>2 DEF Call
  <2>2. ~clients[c].crossed => Busy = {c}
    BY <1>7
  <2> QED BY <1>3, <2>1, <2>2
<1>9. Copies'
  <2> SUFFICES ASSUME Quiet' PROVE Copies'
    BY DEF Copies
  <2>1. Quiet
    BY DEF Quiet
  <2>2. Copies
    BY DEF AInv, Answers
  <2>3. ASSUME NEW x \in Busy' PROVE Agrees(clients[x].db)'
    <3>1. x \in Busy /\ x # c /\ x \in Clients /\ answered' = answered
      BY <1>2, <1>3, <1>8
    <3> QED BY <2>1, <2>2, <3>1 DEF Copies, Agrees
  <2>4. ASSUME NEW x \in Clients, clients'[x].pc \in {"opened", "written"},
               meta_tmp'.state = "whole"
        PROVE  Agrees(meta_tmp.db)'
    <3>1. x # c /\ meta_tmp' = meta_tmp
      BY <1>1, <2>4
    <3>2. clients[x].pc \in {"opened", "written"} /\ x \in Busy'
      BY <1>3, <2>4, <3>1 DEF Busy, At
    <3>3. answered' = answered
      BY <1>8, <3>2
    <3> QED BY <2>1, <2>2, <2>4, <3>1, <3>2, <3>3 DEF Copies, Agrees
  <2> QED BY <2>3, <2>4 DEF Copies
<1>10. Undecided'
  <2> SUFFICES ASSUME NEW x \in Busy' PROVE clients'[x].ids \cap DOMAIN answered' = {}
    BY DEF Undecided
  <2>1. x \in Busy /\ x # c /\ x \in Clients /\ answered' = answered
    BY <1>2, <1>3, <1>8
  <2> QED BY <2>1 DEF AInv, Answers, Undecided
<1>11. Uncrossed'
  <2> SUFFICES ASSUME NEW x \in Busy', ~clients'[x].crossed PROVE FALSE
    BY DEF Uncrossed
  <2>1. x \in Busy /\ x # c /\ x \in Clients
    BY <1>2, <1>3
  <2> QED BY <1>7, <2>1
<1> QED BY <1>4, <1>5, <1>6, <1>9, <1>10, <1>11 DEF AInv, Answers

\* What the steps of a save read of the state.
LEMMA SaveContext ==
    ASSUME AInv
    PROVE  /\ clients \in [Clients -> Call] /\ meta_file \in File /\ meta_tmp \in File
           /\ effort \in [changes : Nat, faults : Nat]
           /\ TornIsKnown /\ (Quiet => Agrees(meta_file.db))
           /\ Calm => /\ Whole(users_db) /\ Whole(meta_file.db) /\ Whole(meta_tmp.db)
                      /\ \A c \in Clients : Whole(clients[c].db)
BY DEF AInv, Shape, Families, Answers, Copies

LEMMA Files ==
    /\ NoFile \in File /\ Torn \in File
    /\ Whole(NoFile.db) /\ Whole(Torn.db) /\ Torn.state = "torn" /\ NoFile.state = "none"
    /\ \A db \in Tables : /\ WholeFile(db) \in File /\ WholeFile(db).db = db
                          /\ WholeFile(db).state = "whole"
BY EmptyTable DEF NoFile, Torn, WholeFile, File

LEMMA OpenKeeps ==
    ASSUME AInv, NEW c \in Clients, OpenTmp(c)
    PROVE  AInv'
<1>1. /\ c \in Busy /\ Goes(c, "opened") /\ meta_tmp' = Torn
      /\ UNCHANGED <<users_db, meta_file, running, answered, mishaps, effort>>
  BY DEF OpenTmp, Busy, At
<1>2. TornIsKnown' /\ (Quiet' => Agrees(meta_file.db)')
  BY <1>1, SaveContext DEF TornIsKnown, Quiet, Agrees
<1>3. meta_tmp' \in File /\ meta_tmp'.state # "whole" /\ Whole(meta_tmp'.db)
  BY <1>1, Files
<1> QED BY <1>1, <1>2, <1>3, SaveContext, StepKeeps

LEMMA WriteKeeps ==
    ASSUME AInv, NEW c \in Clients, WriteTmp(c)
    PROVE  AInv'
<1> DEFINE call == clients[c]
<1>1. /\ c \in Busy /\ Goes(c, "written")
      /\ UNCHANGED <<users_db, running, answered, effort>>
      /\ mishaps' = IF meta_file'.state = "torn" THEN mishaps \cup {"torn file"} ELSE mishaps
  BY DEF WriteTmp, Busy, At
<1>2. PICK content \in {WholeFile(call.db), Torn} :
         /\ ~call.crossed => content = WholeFile(call.db)
         /\ meta_tmp' = IF call.onto = "tmp" THEN content ELSE meta_tmp
         /\ meta_file' = IF call.onto = "file" THEN content ELSE meta_file
  BY DEF WriteTmp
<1>3. call \in Call /\ call.db \in Tables
  BY SaveContext DEF Call
<1>4. content \in File /\ (Calm => Whole(content.db)) /\ (content.state = "whole" => content.db = call.db)
  BY <1>2, <1>3, Files, SaveContext
<1>5. meta_file' \in File /\ meta_tmp' \in File
  BY <1>2, <1>4, SaveContext
<1>6. Calm => Whole(meta_file'.db) /\ Whole(meta_tmp'.db)
  BY <1>2, <1>4, SaveContext
<1>7. mishaps \subseteq mishaps' /\ mishaps' \subseteq mishaps \cup {"torn file"}
  BY <1>1
<1>8. TornIsKnown'
  BY <1>1 DEF TornIsKnown
<1>9. Quiet' => Quiet /\ Copies
  BY <1>7 DEF Quiet, AInv, Answers
<1>10. Quiet' => Agrees(call.db)
  BY <1>1, <1>9 DEF Copies
<1>11. Quiet' => meta_file'.state # "torn"
  BY <1>1 DEF Quiet
<1>12. answered' = answered
  BY <1>1
<1>13. Quiet' => Agrees(meta_file.db)'
  <2> SUFFICES ASSUME Quiet' PROVE Agrees(meta_file'.db)
    BY <1>12 DEF Agrees
  <2>1. CASE call.onto = "file"
    <3>1. meta_file' = content /\ content.state # "torn"
      BY <1>2, <1>11, <2>1
    <3>2. content.db = call.db
      BY <1>3, <1>4, <3>1, Files
    <3> QED BY <1>10, <3>1, <3>2
  <2>2. CASE call.onto # "file"
    BY <1>2, <1>9, <2>2 DEF Copies
  <2> QED BY <2>1, <2>2
<1>14. Quiet' => (meta_tmp'.state = "whole" => Agrees(meta_tmp.db)')
  <2> SUFFICES ASSUME Quiet', meta_tmp'.state = "whole" PROVE Agrees(meta_tmp'.db)
    BY <1>12 DEF Agrees
  <2>1. CASE call.onto = "tmp"
    BY <1>2, <1>4, <1>10, <2>1
  <2>2. CASE call.onto # "tmp"
    <3>1. call.pc = "opened"
      BY DEF WriteTmp, At
    <3> QED BY <1>2, <1>9, <2>2, <3>1 DEF Copies
  <2> QED BY <2>1, <2>2
<1>15. ~call.crossed => meta_file' = meta_file /\ meta_tmp' = WholeFile(call.db)
  <2> SUFFICES ASSUME ~call.crossed PROVE meta_file' = meta_file /\ meta_tmp' = WholeFile(call.db)
    OBVIOUS
  <2>1. call.onto = "tmp"
    BY <1>1, OnlyOne DEF Alone
  <2> QED BY <1>2, <2>1
<1> HIDE DEF call
<1>16. effort' \in [changes : Nat, faults : Nat]
  BY <1>1, SaveContext
<1> QED BY <1>1, <1>5, <1>6, <1>7, <1>8, <1>13, <1>14, <1>15, <1>16, StepKeeps DEF call

LEMMA NothingToRenameKeeps ==
    ASSUME AInv, NEW c \in Clients, NothingToRename(c)
    PROVE  AInv'
<1>1. /\ c \in Busy /\ Goes(c, "failed") /\ meta_tmp.state = "none"
      /\ UNCHANGED <<users_db, meta_file, meta_tmp, running, answered, mishaps, effort>>
  BY DEF NothingToRename, Busy, At
<1>2. TornIsKnown' /\ (Quiet' => Agrees(meta_file.db)')
  BY <1>1, SaveContext DEF TornIsKnown, Quiet, Agrees
<1> QED BY <1>1, <1>2, SaveContext, StepKeeps

LEMMA SaveFailsKeeps ==
    ASSUME AInv, NEW c \in Clients, SaveAccountsFails(c)
    PROVE  AInv'
<1>1. /\ c \in Busy /\ Goes(c, "failed") /\ effort' = [effort EXCEPT !.faults = @ + 1]
      /\ UNCHANGED <<users_db, meta_file, meta_tmp, running, answered, mishaps>>
  BY DEF SaveAccountsFails, WriteFails, Busy, At
<1>2. TornIsKnown' /\ (Quiet' => Agrees(meta_file.db)')
  BY <1>1, SaveContext DEF TornIsKnown, Quiet, Agrees
<1>3. effort' \in [changes : Nat, faults : Nat]
  <2>1. effort \in [changes : Nat, faults : Nat]
    BY SaveContext
  <2>2. effort.changes \in Nat /\ effort.faults \in Nat
    BY <2>1
  <2>3. effort.faults + 1 \in Nat
    BY <2>2, Later
  <2>4. effort' = [changes |-> effort.changes, faults |-> effort.faults + 1]
    BY <1>1, <2>1
  <2> QED BY <2>2, <2>3, <2>4
<1>4. Quiet' => \A x \in Clients : clients'[x].pc \in {"opened", "written"} =>
                   (meta_tmp'.state = "whole" => Agrees(meta_tmp.db)')
  <2> SUFFICES ASSUME Quiet', NEW x \in Clients, clients'[x].pc \in {"opened", "written"},
                      meta_tmp'.state = "whole"
               PROVE  Agrees(meta_tmp.db)
    BY <1>1 DEF Agrees
  <2>1. clients'[x].pc = IF x = c THEN "failed" ELSE clients[x].pc
    BY <1>1, SaveContext DEF Goes, Call
  <2> QED BY <1>1, <2>1 DEF Quiet, AInv, Answers, Copies
<1> QED BY <1>1, <1>2, <1>3, <1>4, SaveContext, StepKeeps
-----------------------------------------------------------------------------
(* The ends of a change *)

LEMMA NoChangeIsCall == NoChange \in Call
<1>1. NoAccounts \in Tables
  BY EmptyTable
<1>2. NoAccounts \in [{} -> Nat]
  BY DEF NoAccounts
<1>3. NoAccounts \in KeyTables
  BY <1>2 DEF KeyTables
<1> QED BY <1>1, <1>3 DEF NoChange, Call, Ops

LEMMA KeysAreNumbers == \A db \in Tables : \A u : KeyIn(db, u) \in Nat
BY TableDomain DEF KeyIn, Account

\* What the other clients keep when one of them is done.
LEMMA RequestDone ==
    ASSUME AInv, NEW c \in Clients, clients' = [clients EXCEPT ![c] = NoChange]
    PROVE  /\ clients' \in [Clients -> Call] /\ clients'[c] = NoChange
           /\ \A x \in Clients \ {c} : clients'[x] = clients[x]
BY NoChangeIsCall, SaveContext

LEMMA RenameKeeps ==
    ASSUME AInv, NEW c \in Clients, RenameTmp(c)
    PROVE  AInv'
<1> DEFINE call == clients[c]
<1>1. /\ c \in Busy /\ call.pc = "written" /\ meta_tmp.state # "none"
      /\ meta_file' = meta_tmp /\ meta_tmp' = NoFile /\ clients' = Renamed(c)
      /\ answered' = IF call.crossed THEN answered
                     ELSE [u \in DOMAIN answered \cup call.ids |->
                              IF u \in call.ids THEN KeyIn(call.db, u) ELSE answered[u]]
      /\ mishaps' = IF meta_tmp.state = "torn" THEN mishaps \cup {"torn file"} ELSE mishaps
      /\ UNCHANGED <<users_db, running, effort>>
  BY DEF RenameTmp, Busy, At
<1>2. /\ clients \in [Clients -> Call] /\ call \in Call /\ meta_tmp \in File
      /\ answered \in KeyTables /\ users_db \in Tables /\ call.db \in Tables
      /\ call.ids \subseteq Ids
  BY DEF AInv, Shape, Call
<1>3. /\ clients' \in [Clients -> Call] /\ clients'[c] = NoChange
      /\ \A x \in Clients \ {c} :
            /\ clients'[x].pc = clients[x].pc /\ clients'[x].op = clients[x].op
            /\ clients'[x].ids = clients[x].ids /\ clients'[x].db = clients[x].db
            /\ clients'[x].old = clients[x].old /\ clients'[x].crossed = clients[x].crossed
  <2>1. NoChange \in Call
    BY NoChangeIsCall
  <2>2. ASSUME NEW x \in Clients \ {c}
        PROVE  /\ Renamed(c)[x] \in Call /\ Renamed(c)[x].pc = clients[x].pc
               /\ Renamed(c)[x].op = clients[x].op /\ Renamed(c)[x].ids = clients[x].ids
               /\ Renamed(c)[x].db = clients[x].db /\ Renamed(c)[x].old = clients[x].old
               /\ Renamed(c)[x].crossed = clients[x].crossed
    <3>1. clients[x] \in Call
      BY <1>2
    <3>2. CASE At(x, "opened")
      <4> DEFINE onto == IF clients[x].onto = "tmp" THEN "file" ELSE "gone"
      <4>1. Renamed(c)[x] = [clients[x] EXCEPT !.onto = onto]
        BY <3>2 DEF Renamed
      <4>2. onto \in {"tmp", "file", "gone"}
        OBVIOUS
      <4> HIDE DEF onto
      <4> QED BY <3>1, <4>1, <4>2 DEF Call
    <3>3. CASE ~At(x, "opened")
      <4>1. Renamed(c)[x] = clients[x]
        BY <3>3 DEF Renamed
      <4> QED BY <3>1, <4>1
    <3> QED BY <3>2, <3>3
  <2>3. Renamed(c)[c] = NoChange /\ Renamed(c) = [x \in Clients |-> Renamed(c)[x]]
    BY DEF Renamed
  <2> QED BY <1>1, <2>1, <2>2, <2>3
<1>4. answered' \in KeyTables
  <2>1. /\ DOMAIN answered \subseteq Ids /\ \A u \in DOMAIN answered : answered[u] \in Nat
        /\ \A u : KeyIn(call.db, u) \in Nat
    BY <1>2, KeysAreNumbers DEF KeyTables
  <2>2. CASE call.crossed
    BY <1>1, <1>2, <2>2
  <2>3. CASE ~call.crossed
    <3>1. answered' \in [DOMAIN answered \cup call.ids -> Nat]
      BY <1>1, <2>1, <2>3
    <3>2. DOMAIN answered \cup call.ids \in SUBSET Ids
      BY <1>2, <2>1
    <3> QED BY <3>1, <3>2 DEF KeyTables
  <2> QED BY <2>2, <2>3
<1>5. Calm' => Whole(users_db') /\ Whole(meta_file'.db)
  BY <1>1, SaveContext DEF Calm
<1>6. TornIsKnown'
  BY <1>1 DEF TornIsKnown
<1>7. ASSUME Quiet' PROVE Agrees(meta_file.db)' /\ Agrees(users_db)'
  <2>1. Quiet /\ meta_tmp.state = "whole" /\ running /\ Copies
    BY <1>1, <1>2, <1>7 DEF Quiet, File, AInv, Shape, Answers
  <2>2. Agrees(meta_tmp.db) /\ Agrees(users_db)
    BY <1>1, <2>1 DEF Copies
  <2>3. CASE call.crossed
    BY <1>1, <2>2, <2>3 DEF Agrees
  <2>4. CASE ~call.crossed
    <3>1. users_db = call.db /\ meta_tmp = WholeFile(call.db)
      BY <1>1, <2>4, OnlyOne DEF Alone
    <3>2. meta_tmp.db = call.db
      BY <1>2, <3>1, Files
    <3>3. \A u \in DOMAIN answered' : KeyIn(call.db, u) = answered'[u]
      <4>1. \A u \in DOMAIN answered : KeyIn(call.db, u) = answered[u]
        BY <2>2, <3>1 DEF Agrees
      <4> QED BY <1>1, <2>4, <4>1
    <3> QED BY <1>1, <3>1, <3>2, <3>3 DEF Agrees
  <2> QED BY <2>3, <2>4
<1>8. /\ c \in Busy /\ mishaps \subseteq mishaps' /\ users_db' \in Tables /\ meta_file' \in File
      /\ meta_tmp' \in {meta_tmp, NoFile} /\ (clients[c].crossed => answered' = answered)
      /\ UNCHANGED <<running, effort>>
  BY <1>1, <1>2
<1> HIDE DEF call
<1> QED BY <1>3, <1>4, <1>5, <1>6, <1>7, <1>8, EndKeeps

LEMMA LeaveKeeps ==
    ASSUME AInv, NEW c \in Clients, LeaveUnsaved(c)
    PROVE  AInv'
<1>1. /\ c \in Busy /\ clients' = [clients EXCEPT ![c] = NoChange]
      /\ UNCHANGED <<users_db, meta_file, meta_tmp, running, answered, mishaps, effort>>
  BY DEF LeaveUnsaved, Busy, At
<1>2. /\ users_db \in Tables /\ meta_file \in File /\ answered \in KeyTables /\ running
      /\ Answers /\ Families
  BY <1>1 DEF AInv, Shape
<1>3. /\ TornIsKnown' /\ (Quiet' => Agrees(meta_file.db)' /\ Agrees(users_db)')
      /\ Calm' => Whole(users_db') /\ Whole(meta_file'.db)
  BY <1>1, <1>2 DEF Answers, Copies, Families, TornIsKnown, Quiet, Calm, Agrees
<1>4. /\ clients' \in [Clients -> Call] /\ clients'[c] = NoChange
      /\ \A x \in Clients \ {c} :
            /\ clients'[x].pc = clients[x].pc /\ clients'[x].op = clients[x].op
            /\ clients'[x].ids = clients[x].ids /\ clients'[x].db = clients[x].db
            /\ clients'[x].old = clients[x].old /\ clients'[x].crossed = clients[x].crossed
  BY <1>1, RequestDone
<1>5. /\ c \in Busy
      /\ users_db' \in Tables /\ meta_file' \in File /\ answered' \in KeyTables
      /\ mishaps \subseteq mishaps' /\ meta_tmp' \in {meta_tmp, NoFile}
      /\ (clients[c].crossed => answered' = answered) /\ UNCHANGED <<running, effort>>
  BY <1>1, <1>2
<1> QED BY <1>3, <1>4, <1>5, EndKeeps

\* What a rollback does to the map: one account and, for a sub-account, the list
\* of its parent.
LEMMA RestoredTable ==
    ASSUME AInv, NEW c \in Busy, clients[c].op \in {"register", "create", "reset"}
    PROVE  \E u \in Ids :
              /\ clients[c].ids = {u} /\ u \in DOMAIN clients[c].db
              /\ Restored(clients[c]) \in Tables
              /\ \A x : x # u => KeyIn(Restored(clients[c]), x) = KeyIn(users_db, x)
              /\ clients[c].op # "reset" => KeyIn(Restored(clients[c]), u) = 0
              /\ clients[c].op = "reset" /\ u \in DOMAIN users_db =>
                    KeyIn(Restored(clients[c]), u) = clients[c].old
              /\ Whole(users_db) /\ ~StaleRestore(clients[c]) => Whole(Restored(clients[c]))
<1> DEFINE call == clients[c]
<1>1. /\ call \in Call /\ call.db \in Tables /\ users_db \in Tables /\ c \in Clients
      /\ call.old \in Nat
  BY DEF AInv, Shape, Call, Busy
<1>2. PICK u \in DOMAIN call.db : call.ids = {u}
  BY <1>1 DEF AInv, Pending, About
<1>3. u \in Ids /\ (CHOOSE x \in call.ids : TRUE) = u
  <2>1. DOMAIN call.db \subseteq Ids
    BY <1>1, TableDomain
  <2> QED BY <1>2, <2>1, TheOne
<1>4. /\ call.op = "register" => call.db[u].parent = Root
      /\ call.op = "create" => call.db[u].parent \in Ids
      /\ call.op = "reset" => call.old \in Nat \ {0}
  BY <1>1, <1>2 DEF AInv, Pending, About
<1> HIDE DEF call
<1>5. ASSUME ~StaleRestore(call), call.op # "reset", u \in DOMAIN users_db
      PROVE  users_db[u].parent = call.db[u].parent /\ users_db[u].subs = {}
  BY <1>2, <1>5 DEF StaleRestore
<1>6. CASE call.op = "register"
  <2>1. Restored(call) = Removed(users_db, {u})
    BY <1>3, <1>6 DEF Restored
  <2>2. Restored(call) \in Tables
    BY <1>1, <2>1, RemovedTable
  <2>3. \A x : KeyIn(Restored(call), x) = IF x = u THEN 0 ELSE KeyIn(users_db, x)
    BY <2>1, RemovedKey
  <2>4. Whole(users_db) /\ ~StaleRestore(call) => Whole(Restored(call))
    BY <1>1, <1>4, <1>5, <1>6, <2>1, RemoveLone
  <2> QED BY <1>2, <1>3, <1>6, <2>2, <2>3, <2>4 DEF call
<1>7. CASE call.op = "create"
  <2> DEFINE p == call.db[u].parent
             rest == Removed(users_db, {u})
  <2>1. Restored(call) = Unlinked(rest, p, u)
    BY <1>3, <1>7 DEF Restored
  <2>2. rest \in Tables /\ p \in Ids
    BY <1>1, <1>4, <1>7, RemovedTable
  <2>3. Restored(call) \in Tables
    BY <2>1, <2>2, UnlinkedTable
  <2>4. \A x : KeyIn(Restored(call), x) = IF x = u THEN 0 ELSE KeyIn(users_db, x)
    <3>1. \A x : KeyIn(rest, x) = IF x = u THEN 0 ELSE KeyIn(users_db, x)
      BY RemovedKey
    <3> HIDE DEF rest, p
    <3>2. \A x : KeyIn(Restored(call), x) = KeyIn(rest, x)
      BY <2>1, <2>2, UnlinkedKey
    <3> QED BY <3>1, <3>2
  <2>5. ASSUME Whole(users_db), ~StaleRestore(call) PROVE Whole(Restored(call))
    <3>1. u \in DOMAIN users_db => users_db[u].parent = p /\ users_db[u].subs = {}
      BY <1>5, <1>7, <2>5
    <3> HIDE DEF p
    <3> QED BY <1>1, <2>1, <2>2, <2>5, <3>1, RemoveSub
  <2> HIDE DEF p, rest
  <2> QED BY <1>2, <1>3, <1>7, <2>3, <2>4, <2>5 DEF call
<1>8. CASE call.op = "reset"
  <2>1. CASE u \notin DOMAIN users_db
    <3>1. Restored(call) = users_db
      BY <1>3, <1>8, <2>1 DEF Restored
    <3> QED BY <1>1, <1>2, <1>3, <1>8, <2>1, <3>1 DEF call
  <2>2. CASE u \in DOMAIN users_db
    <3> DEFINE old == call.old
    <3>2. old \in Nat \ {0}
      BY <1>4, <1>8
    <3>1. Restored(call) = [users_db EXCEPT ![u].key = old]
      BY <1>3, <1>8, <2>2 DEF Restored
    <3> HIDE DEF old
    <3>6. u \in DOMAIN users_db /\ users_db \in Tables
      BY <1>1, <2>2
    <3>3. Restored(call) \in Tables
      <4>1. [users_db EXCEPT ![u].key = old] \in Tables
        BY <3>2, <3>6, KeyedTable
      <4> QED BY <3>1, <4>1
    <3>4. \A x : KeyIn(Restored(call), x) = IF x = u THEN old ELSE KeyIn(users_db, x)
      BY <2>2, <3>1, <3>2, ChangeContext DEF KeyIn, Account
    <3>5. Whole(users_db) => Whole(Restored(call))
      <4>1. Whole(users_db) => Whole([users_db EXCEPT ![u].key = old])
        BY <3>6, ChangeKey
      <4> QED BY <3>1, <4>1
    <3> QED BY <1>2, <1>3, <1>8, <2>2, <3>3, <3>4, <3>5 DEF call, old
  <2> QED BY <2>1, <2>2
<1> QED BY <1>6, <1>7, <1>8 DEF call

LEMMA RollBackKeeps ==
    ASSUME AInv, NEW c \in Clients, RollBack(c)
    PROVE  AInv'
<1> DEFINE call == clients[c]
<1>1. /\ c \in Busy /\ call.op \in {"register", "create", "reset"}
      /\ users_db' = Restored(call) /\ clients' = [clients EXCEPT ![c] = NoChange]
      /\ answered' = IF call.crossed THEN answered
                     ELSE [u \in DOMAIN answered \cup DOMAIN call.before |->
                              IF u \in call.ids THEN call.before[u] ELSE answered[u]]
      /\ mishaps' = IF StaleRestore(call) THEN mishaps \cup {"stale rollback"} ELSE mishaps
      /\ UNCHANGED <<meta_file, meta_tmp, running, effort>>
  BY DEF RollBack, Busy, At
<1>2. PICK u \in Ids :
         /\ call.ids = {u} /\ u \in DOMAIN call.db /\ Restored(call) \in Tables
         /\ \A x : x # u => KeyIn(Restored(call), x) = KeyIn(users_db, x)
         /\ call.op # "reset" => KeyIn(Restored(call), u) = 0
         /\ call.op = "reset" /\ u \in DOMAIN users_db => KeyIn(Restored(call), u) = call.old
         /\ Whole(users_db) /\ ~StaleRestore(call) => Whole(Restored(call))
  BY <1>1, RestoredTable
<1>3. /\ call \in Call /\ answered \in KeyTables /\ meta_file \in File /\ running
      /\ call.before \in KeyTables /\ Answers /\ Families
  <2>1. call \in Call
    BY SaveContext
  <2>2. answered \in KeyTables /\ meta_file \in File /\ running /\ Answers /\ Families
    BY <1>1 DEF AInv, Shape
  <2> QED BY <2>1, <2>2 DEF Call
<1>4. /\ clients' \in [Clients -> Call] /\ clients'[c] = NoChange
      /\ \A x \in Clients \ {c} :
            /\ clients'[x].pc = clients[x].pc /\ clients'[x].op = clients[x].op
            /\ clients'[x].ids = clients[x].ids /\ clients'[x].db = clients[x].db
            /\ clients'[x].old = clients[x].old /\ clients'[x].crossed = clients[x].crossed
  BY <1>1, RequestDone
<1>5. ~call.crossed => Alone(c)
  BY <1>1, OnlyOne
<1>6. answered' \in KeyTables
  <2>1. /\ DOMAIN answered \subseteq Ids /\ \A x \in DOMAIN answered : answered[x] \in Nat
        /\ DOMAIN call.before \subseteq Ids
        /\ \A x \in DOMAIN call.before : call.before[x] \in Nat
    BY <1>3 DEF KeyTables
  <2>2. CASE call.crossed
    BY <1>1, <1>3, <2>2
  <2>3. CASE ~call.crossed
    <3>1. /\ DOMAIN call.before \subseteq call.ids /\ u \notin DOMAIN answered
          /\ \A x \in DOMAIN answered : x \notin call.ids
      BY <1>1, <1>2, <1>3, <1>5, <2>3 DEF Alone, Answers, Undecided
    <3>2. \A x \in DOMAIN answered \cup DOMAIN call.before :
             (IF x \in call.ids THEN call.before[x] ELSE answered[x]) \in Nat
      BY <2>1, <3>1
    <3>3. answered' \in [DOMAIN answered \cup DOMAIN call.before -> Nat]
      BY <1>1, <2>3, <3>2
    <3>4. DOMAIN answered \cup DOMAIN call.before \in SUBSET Ids
      BY <2>1
    <3> QED BY <3>3, <3>4 DEF KeyTables
  <2> QED BY <2>2, <2>3
<1>7. Calm' => Whole(users_db') /\ Whole(meta_file'.db)
  <2> SUFFICES ASSUME Calm' PROVE Whole(users_db') /\ Whole(meta_file'.db)
    OBVIOUS
  <2>1. Calm /\ ~StaleRestore(call)
    BY <1>1 DEF Calm
  <2> QED BY <1>1, <1>2, <1>3, <2>1 DEF Families
<1>8. TornIsKnown'
  BY <1>1, <1>3 DEF Answers, TornIsKnown
<1>9. ASSUME Quiet' PROVE Agrees(meta_file.db)' /\ Agrees(users_db)'
  <2>1. Quiet /\ Agrees(meta_file.db) /\ Agrees(users_db)
    BY <1>1, <1>3, <1>9 DEF Quiet, Answers, Copies
  <2>2. u \notin DOMAIN answered
    BY <1>1, <1>2, <1>3 DEF Answers, Undecided
  <2>3. \A x \in DOMAIN answered : /\ KeyIn(meta_file.db, x) = answered[x]
                                  /\ KeyIn(Restored(call), x) = answered[x]
    BY <1>2, <2>1, <2>2 DEF Agrees
  <2>4. CASE call.crossed
    BY <1>1, <2>3, <2>4 DEF Agrees
  <2>5. CASE ~call.crossed
    <3>1. DOMAIN call.before \subseteq {u} /\ users_db = call.db
      BY <1>2, <1>5, <2>5 DEF Alone
    <3>2. \A x \in DOMAIN call.before :
             /\ KeyIn(meta_file.db, x) = call.before[x]
             /\ call.op \in {"register", "create"} => call.before[x] = 0
             /\ call.op = "reset" => call.before[x] = call.old
      BY <1>5, <2>1, <2>5 DEF Alone
    <3>3. \A x \in DOMAIN call.before : KeyIn(Restored(call), x) = call.before[x]
      BY <1>1, <1>2, <3>1, <3>2
    <3>4. \A x \in DOMAIN answered' : /\ KeyIn(meta_file.db, x) = answered'[x]
                                     /\ KeyIn(Restored(call), x) = answered'[x]
      BY <1>1, <1>2, <2>2, <2>3, <2>5, <3>1, <3>2, <3>3
    <3> QED BY <1>1, <3>4 DEF Agrees
  <2> QED BY <2>4, <2>5
<1>10. /\ c \in Busy /\ users_db' \in Tables /\ meta_file' \in File
       /\ mishaps \subseteq mishaps' /\ meta_tmp' \in {meta_tmp, NoFile}
       /\ (clients[c].crossed => answered' = answered) /\ UNCHANGED <<running, effort>>
  BY <1>1, <1>2, <1>3
<1> HIDE DEF call
<1> QED BY <1>4, <1>6, <1>7, <1>8, <1>9, <1>10, EndKeeps
-----------------------------------------------------------------------------
(* Crash and restart, and the theorems *)

LEMMA CrashKeeps ==
    ASSUME AInv, CrashAccounts
    PROVE  AInv'
<1>1. /\ running' = FALSE /\ users_db' = NoAccounts /\ clients' = [c \in Clients |-> NoChange]
      /\ effort' = [effort EXCEPT !.faults = @ + 1]
      /\ UNCHANGED <<meta_file, meta_tmp, answered, mishaps>>
  BY DEF CrashAccounts, WriteFails
<1>2. /\ NoChange.pc = "idle" /\ NoChange.op = "none" /\ Whole(NoChange.db)
      /\ NoAccounts \in Tables /\ Whole(NoAccounts) /\ NoChange \in Call
  BY EmptyTable, NoChangeIsCall DEF NoChange
<1>3. Busy' = {} /\ \A c \in Clients : clients'[c] = NoChange
  BY <1>1, <1>2 DEF Busy, At
<1>4. effort' \in [changes : Nat, faults : Nat]
  <2>1. effort \in [changes : Nat, faults : Nat]
    BY SaveContext
  <2>2. effort.changes \in Nat /\ effort.faults \in Nat
    BY <2>1
  <2>3. effort.faults + 1 \in Nat
    BY <2>2, Later
  <2>4. effort' = [changes |-> effort.changes, faults |-> effort.faults + 1]
    BY <1>1, <2>1
  <2> QED BY <2>2, <2>3, <2>4
<1>5. Shape'
  <2>1. clients' \in [Clients -> Call]
    BY <1>1, <1>2
  <2>2. meta_file \in File /\ meta_tmp \in File /\ answered \in KeyTables
    BY DEF AInv, Shape
  <2> QED BY <1>1, <1>2, <1>3, <1>4, <2>1, <2>2 DEF Shape
<1>6. Pending'
  BY <1>2, <1>3 DEF Pending, About
<1>7. Families'
  <2> SUFFICES ASSUME Calm' PROVE Families'
    BY DEF Families
  <2>1. Whole(meta_file'.db) /\ Whole(meta_tmp'.db) /\ Whole(users_db')
    BY <1>1, <1>2, SaveContext DEF Calm
  <2>2. \A c \in Clients : Whole(clients'[c].db)
    BY <1>2, <1>3
  <2> QED BY <2>1, <2>2 DEF Families
<1>8. Answers'
  <2>1. TornIsKnown' /\ Undecided' /\ Uncrossed'
    BY <1>1, <1>3, SaveContext DEF TornIsKnown, Undecided, Uncrossed
  <2>2. Copies'
    BY <1>1, <1>2, <1>3, SaveContext DEF Copies, Quiet, Agrees
  <2> QED BY <2>1, <2>2 DEF Answers
<1> QED BY <1>5, <1>6, <1>7, <1>8 DEF AInv

LEMMA LoadKeeps ==
    ASSUME AInv, NEW readable \in BOOLEAN, LoadUsers(readable)
    PROVE  AInv'
<1>1. /\ ~running /\ running' = TRUE
      /\ users_db' = IF readable THEN meta_file.db ELSE NoAccounts
      /\ meta_file' \in {meta_file, NoFile}
      /\ readable /\ meta_file.state # "torn" => meta_file' = meta_file
      /\ mishaps' = IF readable THEN mishaps ELSE mishaps \cup {"unread file"}
      /\ UNCHANGED <<meta_tmp, clients, answered>>
      /\ effort' = effort \/ effort' = [effort EXCEPT !.faults = @ + 1]
  BY DEF LoadUsers, WriteFails
<1>2. Busy' = {} /\ Busy = {}
  BY <1>1 DEF Busy, At, AInv, Shape
<1>3. effort' \in [changes : Nat, faults : Nat]
  <2>1. effort \in [changes : Nat, faults : Nat]
    BY SaveContext
  <2>2. effort.changes \in Nat /\ effort.faults \in Nat
    BY <2>1
  <2>3. effort.faults + 1 \in Nat
    BY <2>2, Later
  <2>4. effort' \in {effort, [changes |-> effort.changes, faults |-> effort.faults + 1]}
    BY <1>1, <2>1
  <2> QED BY <2>1, <2>2, <2>3, <2>4
<1>4. /\ meta_file \in File /\ meta_file.db \in Tables /\ meta_tmp \in File
      /\ clients \in [Clients -> Call] /\ answered \in KeyTables
  BY DEF AInv, Shape, File
<1>5. Shape'
  <2>1. users_db' \in Tables /\ meta_file' \in File
    BY <1>1, <1>4, EmptyTable, Files
  <2> QED BY <1>1, <1>3, <1>4, <2>1 DEF Shape
<1>6. Pending'
  BY <1>1 DEF AInv, Pending
<1>7. Families'
  <2> SUFFICES ASSUME Calm' PROVE Families'
    BY DEF Families
  <2>1. Calm
    BY <1>1 DEF Calm
  <2>2. Whole(meta_file'.db) /\ Whole(users_db') /\ Whole(meta_tmp'.db)
    BY <1>1, <2>1, SaveContext, EmptyTable, Files
  <2>3. \A c \in Clients : Whole(clients'[c].db)
    BY <1>1, <2>1, SaveContext
  <2> QED BY <2>2, <2>3 DEF Families
<1>8. Answers'
  <2>1. TornIsKnown'
    BY <1>1, SaveContext, Files DEF TornIsKnown
  <2>2. Undecided' /\ Uncrossed'
    BY <1>2 DEF Undecided, Uncrossed
  <2>3. ASSUME Quiet' PROVE readable /\ Quiet /\ meta_file' = meta_file /\ users_db' = meta_file.db
    BY <1>1, <2>3, SaveContext DEF Quiet, TornIsKnown
  <2>4. Quiet' => Agrees(meta_file.db)' /\ Agrees(users_db)'
    BY <1>1, <2>3, SaveContext DEF Agrees
  <2>5. \A c \in Clients : clients'[c].pc = "idle"
    BY <1>2 DEF Busy, At
  <2>6. Copies'
    BY <1>2, <2>4, <2>5 DEF Copies
  <2> QED BY <2>1, <2>2, <2>6 DEF Answers
<1> QED BY <1>5, <1>6, <1>7, <1>8 DEF AInv

LEMMA InitAccounts ==
    ASSUME AccountsInit
    PROVE  AInv
<1>1. PICK m \in Ids, subs \in SUBSET Ids :
         /\ subs # {} => m \in subs
         /\ users_db = [u \in subs |-> [parent |-> IF u = m THEN Root ELSE m,
                                       subs |-> IF u = m THEN subs \ {m} ELSE {}, key |-> 1]]
         /\ meta_file = IF subs = {} THEN NoFile ELSE WholeFile(users_db)
  BY DEF AccountsInit
<1>2. /\ meta_tmp = NoFile /\ running = TRUE /\ clients = [c \in Clients |-> NoChange]
      /\ answered = [u \in Ids |-> KeyIn(users_db, u)]
      /\ mishaps = {} /\ effort = [changes |-> 0, faults |-> 0]
  BY DEF AccountsInit
<1>3. users_db \in Tables
  <2>1. users_db \in [subs -> Account]
    BY <1>1 DEF Account
  <2> QED BY <2>1, MakeTable
<1>4. Whole(users_db)
  <2>1. /\ DOMAIN users_db = subs /\ m # Root
        /\ \A u \in subs : /\ users_db[u].parent = IF u = m THEN Root ELSE m
                           /\ users_db[u].subs = IF u = m THEN subs \ {m} ELSE {}
    BY <1>1, AccountsAssumption
  <2> QED BY <1>1, <2>1 DEF Whole
<1>5. meta_file \in File /\ Whole(meta_file.db) /\ \A u : KeyIn(meta_file.db, u) = KeyIn(users_db, u)
  <2>1. CASE subs = {}
    <3>1. meta_file = NoFile /\ NoFile.db = NoAccounts /\ DOMAIN users_db = {}
      BY <1>1, <2>1 DEF NoFile
    <3> QED BY <3>1, EmptyTable, Files DEF KeyIn
  <2>2. CASE subs # {}
    <3>1. meta_file = WholeFile(users_db)
      BY <1>1, <2>2
    <3> QED BY <1>3, <1>4, <3>1, Files
  <2> QED BY <2>1, <2>2
<1>6. /\ NoChange.pc = "idle" /\ NoChange.op = "none" /\ Whole(NoChange.db)
      /\ NoChange \in Call
  BY EmptyTable, NoChangeIsCall DEF NoChange
<1>7. Busy = {} /\ \A c \in Clients : clients[c] = NoChange
  BY <1>2, <1>6 DEF Busy, At
<1>8. Shape
  <2>1. answered \in KeyTables
    <3>1. answered \in [Ids -> Nat] /\ Ids \in SUBSET Ids
      BY <1>2, <1>3, KeysAreNumbers
    <3> QED BY <3>1 DEF KeyTables
  <2>2. clients \in [Clients -> Call]
    BY <1>2, <1>6
  <2> QED BY <1>2, <1>3, <1>5, <2>1, <2>2, Files DEF Shape
<1>9. Pending /\ Families
  BY <1>2, <1>4, <1>5, <1>6, <1>7, Files DEF Pending, About, Families
<1>10. Answers
  <2>1. TornIsKnown
    BY <1>1, <1>3, Files DEF TornIsKnown
  <2>2. Agrees(users_db) /\ Agrees(meta_file.db)
    BY <1>2, <1>5 DEF Agrees
  <2>3. \A c \in Clients : clients[c].pc = "idle"
    BY <1>6, <1>7
  <2> QED BY <1>7, <2>1, <2>2, <2>3 DEF Answers, Copies, Undecided, Uncrossed
<1> QED BY <1>8, <1>9, <1>10 DEF AInv

LEMMA NextAccounts ==
    ASSUME AInv, [AccountsNext]_accountVars
    PROVE  AInv'
<1>1. CASE UNCHANGED accountVars
  <2>1. UNCHANGED <<users_db, meta_file, meta_tmp, running, clients, answered, mishaps, effort>>
    BY <1>1 DEF accountVars
  <2>2. Busy' = Busy
    BY <2>1 DEF Busy, At
  <2>3. Shape' /\ Pending' /\ Families'
    BY <2>1, <2>2 DEF AInv, Shape, Pending, Families, Calm
  <2>4. Copies' /\ TornIsKnown' /\ Undecided'
    BY <2>1, <2>2 DEF AInv, Answers, Copies, TornIsKnown, Undecided, Quiet, Agrees
  <2>5. Uncrossed'
    BY <2>1, <2>2 DEF AInv, Answers, Uncrossed, Alone, Quiet
  <2> QED BY <2>3, <2>4, <2>5 DEF AInv, Answers
<1>2. ASSUME NEW c \in Clients, ClientNext(c) PROVE AInv'
  <2>1. CASE \E u \in Ids : Register(c, u)
    BY <2>1, RegisterKeeps
  <2>2. CASE \E u \in Ids, p \in Ids : CreateSubaccount(c, p, u)
    BY <2>2, CreateKeeps
  <2>3. CASE \E u \in Ids : ResetApiKey(c, u)
    BY <2>3, ResetKeeps
  <2>4. CASE \E u \in Ids : RevokeSubaccount(c, u)
    BY <2>4, RevokeKeeps
  <2>5. CASE \E u \in Ids : DeleteUser(c, u)
    BY <2>5, DeleteKeeps
  <2>6. CASE \E u \in Ids : TouchRecord(c, u)
    BY <2>6, TouchKeeps
  <2>7. CASE OpenTmp(c) \/ WriteTmp(c) \/ RenameTmp(c)
    BY <2>7, OpenKeeps, WriteKeeps, RenameKeeps
  <2>8. CASE NothingToRename(c) \/ SaveAccountsFails(c)
    BY <2>8, NothingToRenameKeeps, SaveFailsKeeps
  <2>9. CASE RollBack(c) \/ LeaveUnsaved(c)
    BY <2>9, RollBackKeeps, LeaveKeeps
  <2> QED BY <1>2, <2>1, <2>2, <2>3, <2>4, <2>5, <2>6, <2>7, <2>8, <2>9 DEF ClientNext
<1>3. CASE CrashAccounts
  BY <1>3, CrashKeeps
<1>4. CASE \E readable \in BOOLEAN : LoadUsers(readable)
  BY <1>4, LoadKeeps
<1> QED BY <1>1, <1>2, <1>3, <1>4 DEF AccountsNext

\* The invariant is inductive.
THEOREM AccountsInvariant == AccountsSpec => []AInv
<1>1. AccountsInit => AInv
  BY InitAccounts
<1>2. AInv /\ [AccountsNext]_accountVars => AInv'
  BY NextAccounts
<1> QED BY <1>1, <1>2, PTL DEF AccountsSpec

\* Types: whatever fails, memory, file and temporary file are tables of accounts,
\* and a process that is down has none in memory.
THEOREM AccountsTyped == AccountsSpec => []AccountsTypeOK
<1>1. AInv => AccountsTypeOK
  <2> SUFFICES ASSUME AInv PROVE AccountsTypeOK
    OBVIOUS
  <2>1. \A db \in Tables : AccountTable(db)
    BY TableDomain DEF AccountTable, Account
  <2>2. AccountTable(users_db) /\ MetaFile(meta_file) /\ MetaFile(meta_tmp)
    BY <2>1 DEF AInv, Shape, File, MetaFile
  <2>3. \A c \in Clients : AccountTable(clients[c].db) /\ clients[c].ids \subseteq Ids
    BY <2>1, SaveContext DEF Call
  <2>4. answered \in KeyTables /\ running \in BOOLEAN /\ (~running => users_db = NoAccounts /\ Busy = {})
    BY DEF AInv, Shape
  <2>5. DOMAIN answered \subseteq Ids /\ \A u \in DOMAIN answered : answered[u] \in Nat
    BY <2>4 DEF KeyTables
  <2> QED BY <2>2, <2>3, <2>4, <2>5 DEF AccountsTypeOK
<1> QED BY <1>1, AccountsInvariant, PTL

\* create_subaccount and revoke_subaccount keep families whole in memory and in
\* the file, through writes that fail, rollbacks, crashes and restarts; only a
\* deleted relative or a late rollback breaks one.
THEOREM FamiliesStayWhole == AccountsSpec => []FamiliesWhole
<1>1. AInv => FamiliesWhole
  BY DEF AInv, Families, FamiliesWhole, Calm
<1> QED BY <1>1, AccountsInvariant, PTL

\* What a change answered is in memory and in the file, until the next change of
\* the same account, unless a mix of two writes reached the file or the file
\* could not be read at a start.
THEOREM AnsweredAreStored == AccountsSpec => []AnsweredIsStored
<1>1. AInv => AnsweredIsStored
  BY DEF AInv, Answers, Copies, Quiet, Agrees, AnsweredIsStored
<1> QED BY <1>1, AccountsInvariant, PTL
-----------------------------------------------------------------------------
(* Invitation codes *)

Lists == [current : Codes, used : [Codes -> Nat], pending : [Codes -> Nat]]
Visit == [pc : {"idle", "take", "match", "rotate", "register", "refund", "give", "show"} \cup SaveSteps,
          op : {"none", "use", "add", "refund"}, code : 0..MaxCodes, snap : Lists, mixed : BOOLEAN]
VisitOK(v, n) ==
    /\ v.pc = "idle" => v = NoVisit
    /\ v.pc \in {"take", "match", "rotate", "register", "refund", "give"} => v.op = "use"
    /\ v.pc = "show" => v.op # "use"
    /\ v.op = "use" => v.code \in 1..n

VisitsShape ==
    /\ lists \in Lists /\ issued \in Codes /\ serving \in BOOLEAN
    /\ invite_file \in [state : {"none", "torn", "whole"}, lists : Lists]
    /\ visits \in [Visitors -> Visit] /\ admitted \in [Codes -> Nat]
    /\ \A c \in Visitors : VisitOK(visits[c], issued)
    /\ ~serving => \A c \in Visitors : visits[c] = NoVisit

\* One request replaces the current code, and it holds that code.
Rotating ==
    /\ \A c \in Visitors : Stage(c) = "rotate" => visits[c].code = lists.current
    /\ \A c, d \in Visitors : Stage(c) = "rotate" /\ Stage(d) = "rotate" => c = d

\* Every code that was generated is in one place, the others are in none.
Places(k) == InCirculation(k) + Cardinality(InHand(k)) + admitted[k]
EachInOnePlace == \A k \in Codes : Places(k) = IF k <= issued THEN 1 ELSE 0

\* A code that was taken is among the used ones, so that it can be given back.
TakenIsUsed ==
    \A c \in Visitors :
        visits[c].op = "use" /\ Stage(c) \in SaveSteps \cup {"register", "refund"}
            => lists.used[visits[c].code] > 0

\* While nothing was lost; a process that is down has everything in its file.
Conserved ==
    "loss" \notin strays =>
        /\ EachInOnePlace /\ TakenIsUsed
        /\ ~serving => strays = {} /\ invite_file.state = "whole" /\ invite_file.lists = lists

\* As long as no changes and saves overlapped and none failed: one of them is under
\* way, what it has copied is what the lists are, and between them so is the file.
CopiedOK(v) ==
    /\ v.pc = "read_used" => v.snap.current = lists.current
    /\ v.pc = "read_pending" => v.snap.current = lists.current /\ v.snap.used = lists.used
    /\ v.pc \in {"open", "write"} => v.snap = lists
OneByOne ==
    strays = {} =>
        /\ \A c, d \in UnderWay : c = d
        /\ UnderWay = {} /\ invite_file.state = "whole" => invite_file.lists = lists
        /\ \A c \in Visitors : CopiedOK(visits[c])

InviteInv == VisitsShape /\ Rotating /\ Conserved /\ OneByOne

\* A request goes on to v, the others stay where they are.
VisitGoes(c, v) == visits' = [visits EXCEPT ![c] = v]

LEMMA OneGoes ==
    ASSUME VisitsShape, NEW c \in Visitors, NEW v \in Visit, VisitGoes(c, v)
    PROVE  visits' \in [Visitors -> Visit] /\ visits'[c] = v
           /\ \A d \in Visitors \ {c} : visits'[d] = visits[d]
BY DEF VisitGoes, VisitsShape

LEMMA NewVisit ==
    /\ NoVisit \in Visit /\ NoVisit.pc = "idle" /\ NoVisit.op = "none"
    /\ NoVisit.code = 0 /\ Nowhere \in [Codes -> Nat]
    /\ \A k \in Codes : NewLists(k) \in Lists
<1>1. MaxCodes \in Nat /\ MaxCodes > 0
  BY InviteAssumption
<1>2. Nowhere \in [Codes -> Nat]
  BY DEF Nowhere
<1>3. \A k \in Codes : NewLists(k) \in Lists
  BY <1>2 DEF NewLists, Lists
<1>4. 1 \in Codes /\ 0 \in 0..MaxCodes
  BY <1>1 DEF Codes
<1>5. NoVisit \in Visit
  BY <1>3, <1>4 DEF NoVisit, Visit
<1> QED BY <1>2, <1>3, <1>5 DEF NoVisit

\* Who holds which list.
LEMMA Locks ==
    /\ Unlocked("current") <=> \A d \in Visitors : Stage(d) # "rotate"
    /\ Unlocked("pending") <=> \A d \in Visitors : Stage(d) # "take"
    /\ Unlocked("used") <=> \A d \in Visitors : Stage(d) # "give"
<1>1. \A d \in Visitors : /\ "current" \in Holds(d) <=> Stage(d) = "rotate"
                          /\ "pending" \in Holds(d) <=> Stage(d) = "take"
                          /\ "used" \in Holds(d) <=> Stage(d) = "give"
  BY DEF Holds
<1> QED BY <1>1 DEF Unlocked

\* A request whose step is not its last: the shape.
LEMMA ShapeStays ==
    ASSUME VisitsShape, NEW c \in Visitors, NEW v \in Visit, VisitGoes(c, v),
           serving, UNCHANGED serving, lists' \in Lists, issued' \in Codes, issued <= issued',
           invite_file' \in [state : {"none", "torn", "whole"}, lists : Lists],
           admitted' \in [Codes -> Nat], VisitOK(v, issued')
    PROVE  VisitsShape'
<1>1. visits' \in [Visitors -> Visit] /\ visits'[c] = v
      /\ \A d \in Visitors \ {c} : visits'[d] = visits[d]
  BY OneGoes
<1>2. ASSUME NEW d \in Visitors PROVE VisitOK(visits[d], issued)'
  <2>1. CASE d = c
    BY <1>1, <2>1
  <2>2. CASE d # c
    <3>1. VisitOK(visits[d], issued) /\ visits'[d] = visits[d]
      BY <1>1, <2>2 DEF VisitsShape
    <3>2. issued \in Int /\ issued' \in Int
      BY DEF VisitsShape, Codes
    <3> QED BY <3>1, <3>2 DEF VisitOK
  <2> QED BY <2>1, <2>2
<1> QED BY <1>1, <1>2 DEF VisitsShape

LEMMA RotatingStays ==
    ASSUME VisitsShape, Rotating, NEW c \in Visitors, NEW v \in Visit, VisitGoes(c, v),
           v.pc # "rotate", lists'.current = lists.current \/ Stage(c) = "rotate"
    PROVE  Rotating'
BY OneGoes DEF Rotating, Stage

\* The requests that hold a code when one of them goes on.
Held(v, k) == v.code = k /\ v.op = "use" /\ v.pc \notin {"idle", "match", "rotate"}
One(b) == IF b THEN 1 ELSE 0

LEMMA HandsChange ==
    ASSUME VisitsShape, NEW c \in Visitors, NEW v \in Visit, VisitGoes(c, v), NEW k
    PROVE  /\ Cardinality(InHand(k)) \in Nat /\ Cardinality(InHand(k))' \in Nat
           /\ Cardinality(InHand(k))' + One(Held(visits[c], k))
                = Cardinality(InHand(k)) + One(Held(v, k))
           /\ Held(visits[c], k) => Cardinality(InHand(k)) > 0
<1> DEFINE rest == InHand(k) \ {c}
<1>1. visits'[c] = v /\ \A d \in Visitors \ {c} : visits'[d] = visits[d]
  BY OneGoes
<1>2. /\ InHand(k) = IF Held(visits[c], k) THEN rest \cup {c} ELSE rest
      /\ InHand(k)' = IF Held(v, k) THEN rest \cup {c} ELSE rest
  BY <1>1 DEF InHand, Held, Stage
<1>3. IsFiniteSet(InHand(k)) /\ IsFiniteSet(rest)
  <2>1. IsFiniteSet(Visitors) /\ InHand(k) \subseteq Visitors
    BY InviteAssumption DEF InHand
  <2>2. IsFiniteSet(InHand(k))
    BY <2>1, FS_Subset
  <2> QED BY <2>2, FS_Subset
<1>4. c \notin rest
  OBVIOUS
<1> HIDE DEF rest
<1>5. Cardinality(rest) \in Nat /\ Cardinality(rest \cup {c}) = Cardinality(rest) + 1
  BY <1>3, <1>4, FS_AddElement, FS_CardinalityType
<1> QED BY <1>2, <1>5 DEF One

\* The code of a request is one that was generated.
LEMMA UserCode ==
    ASSUME VisitsShape, NEW c \in Visitors, visits[c].op = "use"
    PROVE  visits[c].code \in Codes /\ visits[c].code <= issued
<1>1. VisitOK(visits[c], issued) /\ issued \in Codes /\ MaxCodes \in Nat
  BY InviteAssumption DEF VisitsShape
<1> QED BY <1>1 DEF VisitOK, Codes

LEMMA PlacesMove ==
    ASSUME VisitsShape, VisitsShape', NEW c \in Visitors, NEW v \in Visit, VisitGoes(c, v),
           NEW k \in Codes, NEW n \in Int,
           InCirculation(k)' + One(Held(v, k)) + admitted'[k]
              = InCirculation(k) + One(Held(visits[c], k)) + admitted[k] + n
    PROVE  Places(k)' = Places(k) + n
<1>1. InCirculation(k) \in Int /\ InCirculation(k)' \in Int
      /\ admitted[k] \in Int /\ admitted'[k] \in Int
  BY DEF VisitsShape, InCirculation, Lists
<1>2. One(Held(v, k)) \in Int /\ One(Held(visits[c], k)) \in Int
  BY DEF One
<1>3. /\ Cardinality(InHand(k)) \in Nat /\ Cardinality(InHand(k))' \in Nat
      /\ Cardinality(InHand(k))' + One(Held(visits[c], k)) = Cardinality(InHand(k)) + One(Held(v, k))
  BY HandsChange
<1> QED BY <1>1, <1>2, <1>3 DEF Places

\* A code in one place is in one hand at most.
LEMMA OneHand ==
    ASSUME VisitsShape, EachInOnePlace, NEW c \in Visitors, NEW d \in Visitors, NEW k \in Codes,
           Held(visits[c], k), Held(visits[d], k)
    PROVE  c = d
<1> SUFFICES ASSUME c # d PROVE FALSE
  OBVIOUS
<1>1. {c, d} \subseteq InHand(k) /\ IsFiniteSet(InHand(k))
  <2>1. IsFiniteSet(Visitors) /\ InHand(k) \subseteq Visitors
    BY InviteAssumption DEF InHand
  <2>2. IsFiniteSet(InHand(k))
    BY <2>1, FS_Subset
  <2> QED BY <2>2 DEF InHand, Held, Stage
<1>2. Cardinality(InHand(k)) \in Nat /\ Cardinality({c, d}) <= Cardinality(InHand(k))
  BY <1>1, FS_Subset, FS_CardinalityType
<1>3. Cardinality({c, d}) = 2
  <2>1. IsFiniteSet({c}) /\ Cardinality({c}) = 1
    BY FS_Singleton
  <2>2. d \notin {c} /\ {c, d} = {c} \cup {d}
    OBVIOUS
  <2>3. Cardinality({c} \cup {d}) = Cardinality({c}) + 1
    BY <2>1, <2>2, FS_AddElement
  <2> QED BY <2>1, <2>2, <2>3
<1>4. InCirculation(k) \in Nat /\ admitted[k] \in Nat
  BY DEF VisitsShape, InCirculation, Lists
<1>5. Places(k) <= 1
  BY DEF EachInOnePlace
<1> QED BY <1>2, <1>3, <1>4, <1>5 DEF Places

LEMMA TakenStays ==
    ASSUME VisitsShape, VisitsShape', TakenIsUsed, NEW c \in Visitors, NEW v \in Visit, VisitGoes(c, v),
           \A k \in Codes : \/ lists'.used[k] >= lists.used[k]
                            \/ \A d \in Visitors \ {c} : ~Held(visits[d], k),
           v.op = "use" /\ v.pc \in SaveSteps \cup {"register", "refund"} => lists'.used[v.code] > 0
    PROVE  TakenIsUsed'
<1>1. visits'[c] = v /\ \A d \in Visitors \ {c} : visits'[d] = visits[d]
  BY OneGoes
<1> SUFFICES ASSUME NEW d \in Visitors, visits'[d].op = "use",
                    visits'[d].pc \in SaveSteps \cup {"register", "refund"}
             PROVE  lists'.used[visits'[d].code] > 0
  BY DEF TakenIsUsed, Stage
<1>2. CASE d = c
  BY <1>1, <1>2
<1>3. CASE d # c
  <2>1. visits'[d] = visits[d] /\ lists.used[visits[d].code] > 0
    BY <1>1, <1>3 DEF TakenIsUsed, Stage
  <2>2. visits[d].code \in Codes
    BY <2>1, UserCode
  <2>3. Held(visits[d], visits[d].code)
    BY <2>1 DEF Held, SaveSteps
  <2>4. lists.used[visits[d].code] \in Nat /\ lists'.used[visits[d].code] \in Nat
    BY <2>2 DEF VisitsShape, Lists
  <2> QED BY <1>3, <2>1, <2>2, <2>3, <2>4
<1> QED BY <1>2, <1>3

\* A request changes the lists, alone or noticed.
LEMMA ChangeOneByOne ==
    ASSUME VisitsShape, OneByOne, NEW c \in Visitors, NEW v \in Visit, VisitGoes(c, v),
           v.pc \in {"take", "give", "read_current"}, Overlaps(c), UNCHANGED invite_file
    PROVE  OneByOne' /\ strays \subseteq strays' /\ ("loss" \in strays' => "loss" \in strays)
<1>1. visits'[c] = v /\ \A d \in Visitors \ {c} : visits'[d] = visits[d]
  BY OneGoes
<1>2. strays \subseteq strays' /\ ("loss" \in strays' => "loss" \in strays)
  BY DEF Overlaps
<1>3. ASSUME strays' = {}
      PROVE  /\ \A d, e \in UnderWay' : d = e
             /\ UnderWay' # {}
             /\ \A d \in Visitors : CopiedOK(visits[d])'
  <2>1. UnderWay \subseteq {c}
    BY <1>3 DEF Overlaps
  <2>2. UnderWay' = {c}
    BY <1>1, <2>1 DEF UnderWay, Stage, SaveSteps
  <2>3. CopiedOK(visits[c])'
    BY <1>1 DEF CopiedOK
  <2>4. ASSUME NEW d \in Visitors \ {c} PROVE CopiedOK(visits[d])'
    <3>1. visits'[d] = visits[d] /\ visits[d].pc \notin SaveSteps
      BY <1>1, <2>1 DEF UnderWay, Stage
    <3> QED BY <3>1 DEF CopiedOK, SaveSteps
  <2> QED BY <2>2, <2>3, <2>4
<1> QED BY <1>2, <1>3 DEF OneByOne

\* A request goes on outside of changes and saves.
LEMMA OutsideOneByOne ==
    ASSUME VisitsShape, OneByOne, NEW c \in Visitors, NEW v \in Visit, VisitGoes(c, v),
           Stage(c) \notin {"take", "give"} \cup SaveSteps, v.pc \notin {"take", "give"} \cup SaveSteps,
           UNCHANGED <<lists, invite_file, strays>>
    PROVE  OneByOne'
<1>1. visits'[c] = v /\ \A d \in Visitors \ {c} : visits'[d] = visits[d]
  BY OneGoes
<1>2. UnderWay' = UnderWay
  BY <1>1 DEF UnderWay, Stage
<1>3. ASSUME NEW d \in Visitors, CopiedOK(visits[d]) PROVE CopiedOK(visits[d])'
  BY <1>1, <1>3 DEF CopiedOK, SaveSteps
<1> QED BY <1>2, <1>3 DEF OneByOne
-----------------------------------------------------------------------------
(* The steps of a registration *)

\* What is left to show of a step that changes the lists.
LEMMA ChangeInvites ==
    ASSUME InviteInv, NEW c \in Visitors, NEW v \in Visit, VisitGoes(c, v),
           serving, UNCHANGED <<serving, invite_file, admitted>>,
           v.pc \in {"take", "give", "read_current"}, Overlaps(c),
           lists' \in Lists, issued' \in Codes, issued <= issued', VisitOK(v, issued'),
           lists'.current = lists.current \/ Stage(c) = "rotate",
           "loss" \notin strays /\ EachInOnePlace /\ TakenIsUsed =>
              /\ \A k \in Codes :
                    \/ lists'.used[k] >= lists.used[k]
                    \/ \A d \in Visitors \ {c} : ~Held(visits[d], k)
              /\ v.op = "use" /\ v.pc \in SaveSteps \cup {"register", "refund"} => lists'.used[v.code] > 0
              /\ \A k \in Codes :
                    InCirculation(k)' + One(Held(v, k))
                       = InCirculation(k) + One(Held(visits[c], k))
                         + One(k <= issued') - One(k <= issued)
    PROVE  InviteInv'
<1>1. VisitsShape /\ Rotating /\ Conserved /\ OneByOne
  BY DEF InviteInv
<1>2. VisitsShape'
  <2>1. /\ invite_file' \in [state : {"none", "torn", "whole"}, lists : Lists]
        /\ admitted' \in [Codes -> Nat]
    BY <1>1 DEF VisitsShape
  <2> QED BY <1>1, <2>1, ShapeStays
<1>3. Rotating'
  BY <1>1, RotatingStays
<1>4. OneByOne' /\ strays \subseteq strays' /\ ("loss" \in strays' => "loss" \in strays)
  BY <1>1, ChangeOneByOne
<1>5. ASSUME "loss" \notin strays' PROVE EachInOnePlace' /\ TakenIsUsed'
  <2>1. EachInOnePlace /\ TakenIsUsed /\ "loss" \notin strays
    BY <1>1, <1>4, <1>5 DEF Conserved
  <2>2. TakenIsUsed'
    BY <1>1, <1>2, <2>1, TakenStays
  <2>3. ASSUME NEW k \in Codes PROVE Places(k)' = One(k <= issued')
    <3> DEFINE n == One(k <= issued') - One(k <= issued)
    <3>1. n \in Int /\ One(k <= issued') \in Int /\ One(k <= issued) \in Int
      BY DEF One
    <3>2. /\ InCirculation(k)' \in Int /\ InCirculation(k) \in Int /\ admitted[k] \in Int
          /\ One(Held(v, k)) \in Int /\ One(Held(visits[c], k)) \in Int
      BY <1>1, <1>2 DEF VisitsShape, InCirculation, Lists, One
    <3>3. InCirculation(k)' + One(Held(v, k)) = InCirculation(k) + One(Held(visits[c], k)) + n
      BY <2>1, <3>1, <3>2
    <3> HIDE DEF n
    <3>4. InCirculation(k)' + One(Held(v, k)) + admitted'[k]
             = InCirculation(k) + One(Held(visits[c], k)) + admitted[k] + n
      BY <3>1, <3>2, <3>3
    <3>5. Places(k)' = Places(k) + n
      BY <1>1, <1>2, <3>1, <3>4, PlacesMove
    <3>6. Places(k) = One(k <= issued)
      BY <2>1 DEF EachInOnePlace, One
    <3> QED BY <3>1, <3>5, <3>6 DEF n
  <2>4. EachInOnePlace'
    BY <2>3 DEF EachInOnePlace, One
  <2> QED BY <2>2, <2>4
<1>6. Conserved'
  BY <1>5 DEF Conserved
<1> QED BY <1>2, <1>3, <1>4, <1>6 DEF InviteInv

\* The facts a step starts from.
LEMMA VisitBefore ==
    ASSUME InviteInv, NEW c \in Visitors
    PROVE  /\ VisitsShape /\ visits[c] \in Visit /\ VisitOK(visits[c], issued)
           /\ lists \in Lists /\ lists.current \in Codes
           /\ \A k \in Codes : lists.used[k] \in Nat /\ lists.pending[k] \in Nat
           /\ issued \in Codes /\ issued \in Nat /\ MaxCodes \in Nat /\ Codes = 1..MaxCodes
           /\ admitted \in [Codes -> Nat]
           /\ Stage(c) # "idle" => serving
           /\ Stage(c) = visits[c].pc
<1>1. VisitsShape /\ visits[c] \in Visit /\ VisitOK(visits[c], issued) /\ lists \in Lists
      /\ issued \in Codes /\ admitted \in [Codes -> Nat]
  BY DEF InviteInv, VisitsShape
<1>2. lists.current \in Codes /\ \A k \in Codes : lists.used[k] \in Nat /\ lists.pending[k] \in Nat
  BY <1>1 DEF Lists
<1>3. MaxCodes \in Nat /\ Codes = 1..MaxCodes
  BY InviteAssumption DEF Codes
<1>4. issued \in Nat
  BY <1>1, <1>3
<1>5. Stage(c) # "idle" => serving
  BY <1>1, NewVisit DEF VisitsShape, Stage
<1> QED BY <1>1, <1>2, <1>3, <1>4, <1>5 DEF Stage

\* How often a code is pending or used, and which is current, may change: the
\* lists are then m.
LEMMA PendingSet ==
    ASSUME NEW l \in Lists, NEW k \in Codes, NEW n \in Nat, NEW m,
           m = [l EXCEPT !.pending[k] = n]
    PROVE  /\ m \in Lists /\ m.current = l.current /\ m.used = l.used
           /\ \A x \in Codes : m.pending[x] = IF x = k THEN n ELSE l.pending[x]
<1>1. /\ l.pending \in [Codes -> Nat] /\ l.used \in [Codes -> Nat] /\ l.current \in Codes
      /\ l = [current |-> l.current, used |-> l.used, pending |-> l.pending]
  BY DEF Lists
<1>2. /\ [l.pending EXCEPT ![k] = n] \in [Codes -> Nat]
      /\ \A x \in Codes : [l.pending EXCEPT ![k] = n][x] = IF x = k THEN n ELSE l.pending[x]
  BY <1>1
<1>3. m = [current |-> l.current, used |-> l.used, pending |-> [l.pending EXCEPT ![k] = n]]
  BY <1>1
<1> QED BY <1>1, <1>2, <1>3 DEF Lists

LEMMA UsedSet ==
    ASSUME NEW l \in Lists, NEW k \in Codes, NEW n \in Nat, NEW m,
           m = [l EXCEPT !.used[k] = n]
    PROVE  /\ m \in Lists /\ m.current = l.current /\ m.pending = l.pending
           /\ \A x \in Codes : m.used[x] = IF x = k THEN n ELSE l.used[x]
<1>1. /\ l.pending \in [Codes -> Nat] /\ l.used \in [Codes -> Nat] /\ l.current \in Codes
      /\ l = [current |-> l.current, used |-> l.used, pending |-> l.pending]
  BY DEF Lists
<1>2. /\ [l.used EXCEPT ![k] = n] \in [Codes -> Nat]
      /\ \A x \in Codes : [l.used EXCEPT ![k] = n][x] = IF x = k THEN n ELSE l.used[x]
  BY <1>1
<1>3. m = [current |-> l.current, used |-> [l.used EXCEPT ![k] = n], pending |-> l.pending]
  BY <1>1
<1> QED BY <1>1, <1>2, <1>3 DEF Lists

LEMMA CurrentSet ==
    ASSUME NEW l \in Lists, NEW i \in Codes, NEW m, m = [l EXCEPT !.current = i]
    PROVE  /\ m \in Lists /\ m.current = i /\ m.used = l.used /\ m.pending = l.pending
BY DEF Lists

\* A request that changes no list goes on, and holds its code as before or makes
\* an account with it.
LEMMA ElsewhereInv ==
    ASSUME InviteInv, NEW c \in Visitors, NEW v \in Visit, VisitGoes(c, v),
           serving, UNCHANGED <<lists, issued, serving>>, VisitOK(v, issued),
           strays \subseteq strays', "loss" \in strays' => "loss" \in strays,
           invite_file' \in [state : {"none", "torn", "whole"}, lists : Lists],
           admitted' \in [Codes -> Nat], OneByOne',
           v.pc = "rotate" => v.code = lists.current /\ \A d \in Visitors \ {c} : Stage(d) # "rotate",
           "loss" \notin strays /\ TakenIsUsed =>
              \A k \in Codes : One(Held(v, k)) + admitted'[k] = One(Held(visits[c], k)) + admitted[k],
           "loss" \notin strays /\ TakenIsUsed /\ v.op = "use"
              /\ v.pc \in SaveSteps \cup {"register", "refund"} => lists.used[v.code] > 0
    PROVE  InviteInv'
<1>1. VisitsShape /\ Rotating /\ Conserved /\ OneByOne
  BY DEF InviteInv
<1>2. VisitsShape'
  <2>1. issued <= issued' /\ lists' \in Lists /\ issued' \in Codes /\ VisitOK(v, issued')
    BY VisitBefore
  <2> QED BY <1>1, <2>1, ShapeStays
<1>3. Rotating'
  BY <1>1, OneGoes DEF Rotating, Stage
<1>4. ASSUME "loss" \notin strays' PROVE EachInOnePlace' /\ TakenIsUsed'
  <2>1. EachInOnePlace /\ TakenIsUsed /\ "loss" \notin strays
    BY <1>1, <1>4 DEF Conserved
  <2>2. TakenIsUsed'
    <3>1. \A k \in Codes : lists'.used[k] >= lists.used[k]
      BY VisitBefore
    <3> QED BY <1>1, <1>2, <2>1, <3>1, TakenStays
  <2>3. ASSUME NEW k \in Codes PROVE Places(k)' = Places(k) + 0
    <3>1. /\ InCirculation(k)' = InCirculation(k) /\ InCirculation(k) \in Int
          /\ admitted[k] \in Int /\ admitted'[k] \in Int
          /\ One(Held(v, k)) \in Int /\ One(Held(visits[c], k)) \in Int
      BY <1>1 DEF VisitsShape, InCirculation, Lists, One
    <3>2. InCirculation(k)' + One(Held(v, k)) + admitted'[k]
             = InCirculation(k) + One(Held(visits[c], k)) + admitted[k] + 0
      BY <2>1, <3>1
    <3> QED BY <1>1, <1>2, <3>2, PlacesMove
  <2>4. ASSUME NEW k \in Codes PROVE Places(k) \in Int
    BY <1>1, HandsChange, <2>1 DEF EachInOnePlace
  <2> QED BY <2>1, <2>2, <2>3, <2>4 DEF EachInOnePlace
<1>5. Conserved'
  BY <1>4 DEF Conserved
<1> QED BY <1>2, <1>3, <1>5 DEF InviteInv

LEMMA TakeCodeInv ==
    ASSUME InviteInv, NEW c \in Visitors, NEW k \in Codes, TakeCode(c, k)
    PROVE  InviteInv'
<1>1. /\ VisitsShape /\ visits[c] = NoVisit /\ k \in 1..issued /\ serving /\ k <= MaxCodes
      /\ visits[c].pc = "idle" /\ visits[c].op = "none"
  BY VisitBefore, NewVisit DEF TakeCode, VisitOK
<1>2. CASE lists.pending[k] > 0
  <2> DEFINE v == [NoVisit EXCEPT !.pc = "take", !.op = "use", !.code = k]
  <2>1. /\ VisitGoes(c, v) /\ lists' = [lists EXCEPT !.pending[k] = @ - 1] /\ Overlaps(c)
        /\ UNCHANGED <<issued, invite_file, serving, admitted>>
    BY <1>2 DEF TakeCode, VisitGoes
  <2>2. v \in Visit /\ v.pc = "take" /\ v.op = "use" /\ v.code = k
    <3>1. k \in 0..MaxCodes /\ NoVisit \in Visit
      BY VisitBefore, NewVisit
    <3> QED BY <3>1 DEF Visit
  <2>3. VisitOK(v, issued')
    BY <1>1, <2>1, <2>2 DEF VisitOK
  <2>4. /\ lists' \in Lists /\ lists'.current = lists.current /\ lists'.used = lists.used
        /\ \A x \in Codes : lists'.pending[x] = IF x = k THEN lists.pending[k] - 1 ELSE lists.pending[x]
    <3>1. PICK n \in Nat : n = lists.pending[k] - 1
      BY <1>2, VisitBefore
    <3>2. lists \in Lists /\ lists' = [lists EXCEPT !.pending[k] = n]
      BY <2>1, <3>1, VisitBefore
    <3>3. /\ lists' \in Lists /\ lists'.current = lists.current /\ lists'.used = lists.used
          /\ \A x \in Codes : lists'.pending[x] = IF x = k THEN n ELSE lists.pending[x]
      BY <3>2, PendingSet
    <3> QED BY <3>1, <3>3
  <2> HIDE DEF v
  <2>5. ASSUME NEW x \in Codes
        PROVE  InCirculation(x)' + One(Held(v, x))
                  = InCirculation(x) + One(Held(visits[c], x)) + One(x <= issued') - One(x <= issued)
    <3>1. Held(v, x) <=> x = k
      BY <2>2 DEF Held
    <3>2. ~Held(visits[c], x)
      BY <1>1 DEF Held
    <3>3. lists.pending[x] \in Int /\ issued' = issued
      BY <2>1, VisitBefore
    <3>4. InCirculation(x)' = IF x = k THEN InCirculation(x) - 1 ELSE InCirculation(x)
      BY <2>4, <3>3 DEF InCirculation
    <3>5. InCirculation(x) \in Int
      BY <3>3 DEF InCirculation
    <3> QED BY <3>1, <3>2, <3>3, <3>4, <3>5 DEF One
  <2>6. \A x \in Codes : lists'.used[x] >= lists.used[x]
    BY <2>4, VisitBefore
  <2>7. issued' \in Codes /\ issued <= issued'
    BY <2>1, VisitBefore
  <2>8. v.pc \in {"take", "give", "read_current"} /\ v.pc \notin SaveSteps \cup {"register", "refund"}
    BY <2>2 DEF SaveSteps
  <2> QED BY <1>1, <2>1, <2>2, <2>3, <2>4, <2>5, <2>6, <2>7, <2>8, ChangeInvites
<1>3. CASE ~(lists.pending[k] > 0)
  <2> DEFINE v == [NoVisit EXCEPT !.pc = "match", !.op = "use", !.code = k]
  <2>1. /\ VisitGoes(c, v) /\ UNCHANGED <<lists, strays, issued, invite_file, serving, admitted>>
    BY <1>3 DEF TakeCode, VisitGoes
  <2>2. v \in Visit /\ v.pc = "match" /\ v.op = "use" /\ v.code = k
    <3>1. k \in 0..MaxCodes /\ NoVisit \in Visit
      BY VisitBefore, NewVisit
    <3> QED BY <3>1 DEF Visit
  <2>3. VisitOK(v, issued')
    BY <1>1, <2>1, <2>2 DEF VisitOK
  <2> HIDE DEF v
  <2>4. OneByOne'
    <3>1. /\ Stage(c) \notin {"take", "give"} \cup SaveSteps
          /\ v.pc \notin {"take", "give"} \cup SaveSteps
      BY <1>1, <2>2 DEF Stage, SaveSteps
    <3> QED BY <1>1, <2>1, <2>2, <3>1, OutsideOneByOne DEF InviteInv
  <2>5. \A x \in Codes : One(Held(v, x)) + admitted'[x] = One(Held(visits[c], x)) + admitted[x]
    BY <1>1, <2>1, <2>2 DEF Held
  <2>6. v.pc \notin SaveSteps \cup {"register", "refund"}
    BY <2>2 DEF SaveSteps
  <2>7. /\ invite_file' \in [state : {"none", "torn", "whole"}, lists : Lists]
        /\ admitted' \in [Codes -> Nat]
    BY <1>1, <2>1 DEF VisitsShape
  <2> QED BY <1>1, <2>1, <2>2, <2>3, <2>4, <2>5, <2>6, <2>7, ElsewhereInv
<1> QED BY <1>2, <1>3

\* The code that was taken is counted among the used ones.
LEMMA TakeUsedInv ==
    ASSUME InviteInv, NEW c \in Visitors, TakeUsed(c)
    PROVE  InviteInv'
<1> DEFINE k == visits[c].code
           v == [visits[c] EXCEPT !.pc = "read_current", !.op = "use"]
<1>1. /\ visits[c].pc = "take" /\ visits[c].op = "use" /\ serving /\ VisitsShape
      /\ VisitOK(visits[c], issued)
  BY VisitBefore DEF TakeUsed, VisitOK, Stage
<1>2. k \in Codes /\ k <= issued
  BY <1>1, UserCode
<1>3. /\ lists' = [lists EXCEPT !.used[k] = @ + 1] /\ Overlaps(c) /\ Saves(c, "use")
      /\ UNCHANGED <<issued, invite_file, serving, admitted>>
  BY DEF TakeUsed
<1>4. /\ VisitGoes(c, v) /\ v \in Visit /\ v.pc = "read_current" /\ v.op = "use" /\ v.code = k
  <2>1. v \in Visit /\ v.pc = "read_current" /\ v.op = "use" /\ v.code = visits[c].code
    <3>1. visits[c] \in Visit
      BY VisitBefore
    <3> QED BY <3>1 DEF Visit, SaveSteps
  <2>2. Saves(c, "use") => VisitGoes(c, v)
    BY DEF Saves, VisitGoes
  <2> QED BY <1>3, <2>1, <2>2
<1>5. /\ lists' \in Lists /\ lists'.current = lists.current /\ lists'.pending = lists.pending
      /\ \A x \in Codes : lists'.used[x] = IF x = k THEN lists.used[k] + 1 ELSE lists.used[x]
  <2>1. lists.used[k] + 1 \in Nat /\ lists \in Lists
    BY <1>2, VisitBefore
  <2>2. PICK n \in Nat : n = lists.used[k] + 1
    BY <2>1
  <2>3. k \in Codes /\ lists' = [lists EXCEPT !.used[k] = n]
    BY <1>2, <1>3, <2>2
  <2> HIDE DEF k
  <2>4. /\ lists' \in Lists /\ lists'.current = lists.current /\ lists'.pending = lists.pending
        /\ \A x \in Codes : lists'.used[x] = IF x = k THEN n ELSE lists.used[x]
    BY <2>1, <2>3, UsedSet
  <2> QED BY <2>2, <2>4
<1>6. VisitOK(v, issued')
  BY <1>1, <1>3, <1>4 DEF VisitOK
<1> HIDE DEF v
<1>7. ASSUME NEW x \in Codes
      PROVE  InCirculation(x)' + One(Held(v, x))
                = InCirculation(x) + One(Held(visits[c], x)) + One(x <= issued') - One(x <= issued)
  <2>1. Held(v, x) <=> Held(visits[c], x)
    BY <1>1, <1>4 DEF Held
  <2>2. InCirculation(x)' = InCirculation(x) /\ issued' = issued /\ InCirculation(x) \in Int
    BY <1>3, <1>5, VisitBefore DEF InCirculation
  <2> QED BY <2>1, <2>2 DEF One
<1>8. /\ \A x \in Codes : lists'.used[x] >= lists.used[x]
      /\ lists'.used[v.code] > 0
  <2>1. \A x \in Codes : lists.used[x] \in Nat
    BY VisitBefore
  <2>2. k \in Codes /\ v.code = k
    BY <1>2, <1>4
  <2> HIDE DEF k
  <2> QED BY <1>5, <2>1, <2>2
<1>9. issued' \in Codes /\ issued <= issued'
  BY <1>3, VisitBefore
<1> QED BY <1>1, <1>3, <1>4, <1>5, <1>6, <1>7, <1>8, <1>9, ChangeInvites

LEMMA MatchCurrentInv ==
    ASSUME InviteInv, NEW c \in Visitors, MatchCurrent(c)
    PROVE  InviteInv'
<1>1. /\ visits[c].pc = "match" /\ visits[c].op = "use" /\ serving /\ VisitsShape
      /\ VisitOK(visits[c], issued)
  BY VisitBefore DEF MatchCurrent, VisitOK, Stage
<1>2. /\ UNCHANGED <<lists, issued, invite_file, serving, admitted, strays>>
      /\ \A d \in Visitors : Stage(d) # "rotate"
      /\ IF visits[c].code = lists.current THEN Moves(c, "rotate") ELSE Ends(c)
  BY Locks DEF MatchCurrent
<1> DEFINE v == IF visits[c].code = lists.current THEN [visits[c] EXCEPT !.pc = "rotate"] ELSE NoVisit
<1>3. VisitGoes(c, v)
  BY <1>2 DEF Moves, Ends, VisitGoes
<1>4. /\ v \in Visit /\ v.pc \in {"rotate", "idle"}
      /\ v.pc = "rotate" => v.op = "use" /\ v.code = visits[c].code /\ v.code = lists.current
      /\ v.pc = "idle" => v = NoVisit /\ v.op = "none"
  <2>1. CASE visits[c].code = lists.current
    <3>1. v = [visits[c] EXCEPT !.pc = "rotate"] /\ visits[c] \in Visit
      BY <2>1, VisitBefore
    <3>2. v \in Visit /\ v.pc = "rotate" /\ v.op = "use" /\ v.code = visits[c].code
      BY <1>1, <3>1 DEF Visit
    <3> HIDE DEF v
    <3> QED BY <2>1, <3>1, <3>2
  <2>2. CASE visits[c].code # lists.current
    BY <2>2, NewVisit
  <2> QED BY <2>1, <2>2
<1> HIDE DEF v
<1>5. VisitOK(v, issued)
  BY <1>1, <1>4 DEF VisitOK
<1>6. OneByOne'
  <2>1. /\ Stage(c) \notin {"take", "give"} \cup SaveSteps
        /\ v.pc \notin {"take", "give"} \cup SaveSteps
    BY <1>1, <1>4 DEF Stage, SaveSteps
  <2> QED BY <1>1, <1>2, <1>3, <1>4, <2>1, OutsideOneByOne DEF InviteInv
<1>7. \A x \in Codes : One(Held(v, x)) + admitted'[x] = One(Held(visits[c], x)) + admitted[x]
  BY <1>1, <1>2, <1>4 DEF Held
<1>8. v.pc \notin SaveSteps \cup {"register", "refund"}
  BY <1>4 DEF SaveSteps
<1>9. /\ invite_file' \in [state : {"none", "torn", "whole"}, lists : Lists]
      /\ admitted' \in [Codes -> Nat]
  BY <1>1, <1>2 DEF VisitsShape
<1> QED BY <1>1, <1>2, <1>3, <1>4, <1>5, <1>6, <1>7, <1>8, <1>9, ElsewhereInv

\* The current code is in the hands of who found it, and a new one takes its place.
LEMMA RotateInv ==
    ASSUME InviteInv, NEW c \in Visitors, Rotate(c)
    PROVE  InviteInv'
<1> DEFINE k == lists.current
           v == [visits[c] EXCEPT !.pc = "read_current", !.op = "use"]
<1>1. /\ visits[c].pc = "rotate" /\ visits[c].op = "use" /\ serving /\ VisitsShape
      /\ VisitOK(visits[c], issued) /\ visits[c].code = k
  BY VisitBefore DEF Rotate, VisitOK, Stage, InviteInv, Rotating
<1>2. k \in Codes /\ k <= issued /\ issued < MaxCodes /\ issued \in Nat /\ Codes = 1..MaxCodes
  BY <1>1, UserCode, VisitBefore DEF Rotate
<1>3. /\ lists' = [lists EXCEPT !.used[k] = @ + 1, !.current = issued + 1]
      /\ Overlaps(c) /\ Saves(c, "use") /\ issued' = issued + 1
      /\ UNCHANGED <<invite_file, serving, admitted>>
  BY DEF Rotate
<1>4. /\ VisitGoes(c, v) /\ v \in Visit /\ v.pc = "read_current" /\ v.op = "use" /\ v.code = k
  <2>1. v \in Visit /\ v.pc = "read_current" /\ v.op = "use" /\ v.code = visits[c].code
    <3>1. visits[c] \in Visit
      BY VisitBefore
    <3> QED BY <3>1 DEF Visit, SaveSteps
  <2>2. Saves(c, "use") => VisitGoes(c, v)
    BY DEF Saves, VisitGoes
  <2> QED BY <1>1, <1>3, <2>1, <2>2
<1>5. issued + 1 \in Codes
  BY <1>2, VisitBefore
<1>6. /\ lists' \in Lists /\ lists'.current = issued + 1 /\ lists'.pending = lists.pending
      /\ \A x \in Codes : lists'.used[x] = IF x = k THEN lists.used[k] + 1 ELSE lists.used[x]
  <2>1. lists.used[k] + 1 \in Nat /\ lists \in Lists
    BY <1>2, VisitBefore
  <2>2. PICK n \in Nat : n = lists.used[k] + 1
    BY <2>1
  <2>3. PICK l : l = [lists EXCEPT !.used[k] = n]
    OBVIOUS
  <2>4. k \in Codes /\ lists' = [l EXCEPT !.current = issued + 1]
    BY <1>2, <1>3, <2>2, <2>3
  <2> HIDE DEF k
  <2>5. /\ l \in Lists /\ l.pending = lists.pending
        /\ \A x \in Codes : l.used[x] = IF x = k THEN n ELSE lists.used[x]
    BY <2>1, <2>3, <2>4, UsedSet
  <2>6. /\ lists' \in Lists /\ lists'.current = issued + 1
        /\ lists'.used = l.used /\ lists'.pending = l.pending
    BY <1>5, <2>4, <2>5, CurrentSet
  <2> QED BY <2>2, <2>5, <2>6
<1>7. VisitOK(v, issued')
  BY <1>2, <1>3, <1>4 DEF VisitOK
<1> HIDE DEF v
<1>8. ASSUME NEW x \in Codes
      PROVE  InCirculation(x)' + One(Held(v, x))
                = InCirculation(x) + One(Held(visits[c], x)) + One(x <= issued') - One(x <= issued)
  <2>1. Held(v, x) <=> x = k
    BY <1>4 DEF Held
  <2>2. ~Held(visits[c], x)
    BY <1>1 DEF Held
  <2>3. lists.pending[x] \in Int /\ x \in Int
    BY <1>2, VisitBefore
  <2>4. /\ InCirculation(x) = lists.pending[x] + One(x = k)
        /\ InCirculation(x)' = lists.pending[x] + One(x = issued + 1)
    BY <1>6 DEF InCirculation, One
  <2> QED BY <1>2, <1>3, <2>1, <2>2, <2>3, <2>4 DEF One
<1>9. /\ \A x \in Codes : lists'.used[x] >= lists.used[x]
      /\ lists'.used[v.code] > 0
  <2>1. \A x \in Codes : lists.used[x] \in Nat
    BY VisitBefore
  <2>2. k \in Codes /\ v.code = k
    BY <1>2, <1>4
  <2> HIDE DEF k
  <2> QED BY <1>6, <2>1, <2>2
<1>10. issued' \in Codes /\ issued <= issued'
  BY <1>2, <1>3, <1>5
<1>11. Stage(c) = "rotate"
  BY <1>1 DEF Stage
<1> QED BY <1>1, <1>3, <1>4, <1>6, <1>7, <1>8, <1>9, <1>10, <1>11, ChangeInvites

\* The code has made an account, or is to be given back.
LEMMA MakeAccountInv ==
    ASSUME InviteInv, NEW c \in Visitors, MakeAccount(c)
    PROVE  InviteInv'
<1> DEFINE k == visits[c].code
<1>1. /\ visits[c].pc = "register" /\ visits[c].op = "use" /\ serving /\ VisitsShape
      /\ VisitOK(visits[c], issued) /\ visits[c] \in Visit
      /\ invite_file \in [state : {"none", "torn", "whole"}, lists : Lists]
      /\ admitted \in [Codes -> Nat]
  BY VisitBefore DEF MakeAccount, VisitOK, Stage, VisitsShape
<1>2. UNCHANGED <<lists, issued, invite_file, serving, strays>>
  BY DEF MakeAccount
<1>3. k \in Codes
  BY <1>1, UserCode
<1>4. Stage(c) \notin {"take", "give"} \cup SaveSteps
  BY <1>1 DEF Stage, SaveSteps
<1>5. CASE admitted' = [admitted EXCEPT ![k] = @ + 1] /\ Ends(c)
  <2>1. VisitGoes(c, NoVisit) /\ NoVisit \in Visit /\ VisitOK(NoVisit, issued)
        /\ NoVisit.pc \notin {"take", "give"} \cup SaveSteps /\ NoVisit.pc # "rotate" /\ NoVisit.op # "use"
    BY <1>5, NewVisit DEF Ends, VisitGoes, VisitOK, SaveSteps
  <2>2. OneByOne'
    BY <1>1, <1>2, <1>4, <2>1, OutsideOneByOne DEF InviteInv
  <2>3. ASSUME NEW x \in Codes
        PROVE  One(Held(NoVisit, x)) + admitted'[x] = One(Held(visits[c], x)) + admitted[x]
    <3>1. ~Held(NoVisit, x) /\ (Held(visits[c], x) <=> x = k) /\ admitted[x] \in Nat
      BY <1>1, <2>1 DEF Held
    <3>2. admitted'[x] = IF x = k THEN admitted[x] + 1 ELSE admitted[x]
      BY <1>1, <1>5
    <3> QED BY <3>1, <3>2 DEF One
  <2>4. admitted' \in [Codes -> Nat] /\ invite_file' \in [state : {"none", "torn", "whole"}, lists : Lists]
    BY <1>1, <1>2, <1>3, <1>5
  <2> QED BY <1>1, <1>2, <2>1, <2>2, <2>3, <2>4, ElsewhereInv
<1>6. CASE Moves(c, "refund") /\ UNCHANGED admitted
  <2> DEFINE v == [visits[c] EXCEPT !.pc = "refund"]
  <2>1. /\ VisitGoes(c, v) /\ v \in Visit /\ v.pc = "refund" /\ v.op = "use" /\ v.code = k
    BY <1>1, <1>6 DEF Moves, VisitGoes, Visit
  <2>2. VisitOK(v, issued) /\ v.pc \notin {"take", "give"} \cup SaveSteps
    BY <1>1, <2>1 DEF VisitOK, SaveSteps
  <2> HIDE DEF v
  <2>3. OneByOne'
    BY <1>1, <1>2, <1>4, <2>1, <2>2, OutsideOneByOne DEF InviteInv
  <2>4. \A x \in Codes : One(Held(v, x)) + admitted'[x] = One(Held(visits[c], x)) + admitted[x]
    BY <1>1, <1>6, <2>1 DEF Held
  <2>5. TakenIsUsed => lists.used[v.code] > 0
    BY <1>1, <2>1 DEF TakenIsUsed, Stage
  <2> QED BY <1>1, <1>2, <1>6, <2>1, <2>2, <2>3, <2>4, <2>5, ElsewhereInv
<1> QED BY <1>5, <1>6 DEF MakeAccount

\* A registration that failed takes its code off the used ones ...
LEMMA RefundUsedInv ==
    ASSUME InviteInv, NEW c \in Visitors, RefundUsed(c)
    PROVE  InviteInv'
<1> DEFINE k == visits[c].code
<1>1. /\ visits[c].pc = "refund" /\ visits[c].op = "use" /\ serving /\ VisitsShape
      /\ VisitOK(visits[c], issued) /\ visits[c] \in Visit
      /\ invite_file \in [state : {"none", "torn", "whole"}, lists : Lists]
      /\ admitted \in [Codes -> Nat]
  BY VisitBefore DEF RefundUsed, VisitOK, Stage, VisitsShape
<1>2. UNCHANGED <<issued, invite_file, serving, admitted>>
  BY DEF RefundUsed
<1>3. k \in Codes /\ lists.used[k] \in Nat /\ lists \in Lists
  BY <1>1, UserCode, VisitBefore
<1>4. CASE lists.used[k] > 0
  <2> DEFINE v == [visits[c] EXCEPT !.pc = "give"]
  <2>1. /\ lists' = [lists EXCEPT !.used[k] = @ - 1] /\ Overlaps(c) /\ VisitGoes(c, v)
    BY <1>4 DEF RefundUsed, Moves, VisitGoes
  <2>2. v \in Visit /\ v.pc = "give" /\ v.op = "use" /\ v.code = k
    BY <1>1 DEF Visit
  <2>3. VisitOK(v, issued') /\ v.pc \notin SaveSteps \cup {"register", "refund"}
    BY <1>1, <1>2, <2>2 DEF VisitOK, SaveSteps
  <2>4. /\ lists' \in Lists /\ lists'.current = lists.current /\ lists'.pending = lists.pending
        /\ \A x \in Codes : lists'.used[x] = IF x = k THEN lists.used[k] - 1 ELSE lists.used[x]
    <3>1. PICK n \in Nat : n = lists.used[k] - 1
      BY <1>3, <1>4
    <3>2. k \in Codes /\ lists \in Lists /\ lists' = [lists EXCEPT !.used[k] = n]
      BY <1>3, <2>1, <3>1
    <3> HIDE DEF k
    <3>3. /\ lists' \in Lists /\ lists'.current = lists.current /\ lists'.pending = lists.pending
          /\ \A x \in Codes : lists'.used[x] = IF x = k THEN n ELSE lists.used[x]
      BY <3>2, UsedSet
    <3> QED BY <3>1, <3>3
  <2> HIDE DEF v
  <2>5. ASSUME NEW x \in Codes
        PROVE  InCirculation(x)' + One(Held(v, x))
                  = InCirculation(x) + One(Held(visits[c], x)) + One(x <= issued') - One(x <= issued)
    <3>1. Held(v, x) <=> Held(visits[c], x)
      BY <1>1, <2>2 DEF Held
    <3>2. InCirculation(x)' = InCirculation(x) /\ issued' = issued /\ InCirculation(x) \in Int
      BY <1>2, <2>4, VisitBefore DEF InCirculation
    <3> QED BY <3>1, <3>2 DEF One
  <2>6. ASSUME EachInOnePlace, NEW x \in Codes
        PROVE  lists'.used[x] >= lists.used[x] \/ \A d \in Visitors \ {c} : ~Held(visits[d], x)
    <3>1. CASE x = k
      <4>1. Held(visits[c], k)
        BY <1>1 DEF Held
      <4> HIDE DEF k
      <4> QED BY <1>1, <1>3, <2>6, <3>1, <4>1, OneHand
    <3>2. CASE x # k
      BY <2>4, <3>2, VisitBefore
    <3> QED BY <3>1, <3>2
  <2>7. issued' \in Codes /\ issued <= issued'
    BY <1>2, VisitBefore
  <2> QED BY <1>1, <1>2, <2>1, <2>2, <2>3, <2>4, <2>5, <2>6, <2>7, ChangeInvites
\* It is among them, unless something was lost.
<1>5. CASE ~(lists.used[k] > 0)
  <2> DEFINE v == [visits[c] EXCEPT !.pc = "read_current", !.op = "refund"]
  <2>1. UNCHANGED <<lists, strays>> /\ VisitGoes(c, v)
    BY <1>5 DEF RefundUsed, Saves, VisitGoes
  <2>2. v \in Visit /\ v.pc = "read_current" /\ v.op = "refund"
    BY <1>1 DEF Visit, SaveSteps
  <2>3. VisitOK(v, issued)
    BY <2>2 DEF VisitOK
  <2>4. "loss" \in strays
    BY <1>1, <1>5 DEF InviteInv, Conserved, TakenIsUsed, Stage
  <2>5. OneByOne'
    BY <2>1, <2>4 DEF OneByOne
  <2>6. v.pc # "rotate" /\ v.op # "use"
    BY <2>2
  <2> HIDE DEF v
  <2>7. /\ invite_file' \in [state : {"none", "torn", "whole"}, lists : Lists]
        /\ admitted' \in [Codes -> Nat]
    BY <1>1, <1>2
  <2> QED BY <1>1, <1>2, <2>1, <2>2, <2>3, <2>4, <2>5, <2>6, <2>7, ElsewhereInv
<1> QED BY <1>4, <1>5

\* ... and puts it back on the pending ones.
LEMMA GiveBackInv ==
    ASSUME InviteInv, NEW c \in Visitors, GiveBack(c)
    PROVE  InviteInv'
<1> DEFINE k == visits[c].code
           v == [visits[c] EXCEPT !.pc = "read_current", !.op = "refund"]
<1>1. /\ visits[c].pc = "give" /\ visits[c].op = "use" /\ serving /\ VisitsShape
      /\ VisitOK(visits[c], issued) /\ visits[c] \in Visit
  BY VisitBefore DEF GiveBack, VisitOK, Stage
<1>2. k \in Codes /\ lists.pending[k] \in Nat /\ lists \in Lists
  BY <1>1, UserCode, VisitBefore
<1>3. /\ lists' = [lists EXCEPT !.pending[k] = lists.pending[k] + 1] /\ Overlaps(c) /\ VisitGoes(c, v)
      /\ UNCHANGED <<issued, invite_file, serving, admitted>>
  BY DEF GiveBack, Saves, VisitGoes
<1>4. v \in Visit /\ v.pc = "read_current" /\ v.op = "refund"
  BY <1>1 DEF Visit, SaveSteps
<1>5. VisitOK(v, issued')
  BY <1>4 DEF VisitOK
<1> HIDE DEF v
<1>6. /\ lists' \in Lists /\ lists'.current = lists.current /\ lists'.used = lists.used
      /\ \A x \in Codes : lists'.pending[x] = IF x = k THEN lists.pending[k] + 1 ELSE lists.pending[x]
  <2>1. PICK n \in Nat : n = lists.pending[k] + 1
    BY <1>2
  <2>2. k \in Codes /\ lists \in Lists /\ lists' = [lists EXCEPT !.pending[k] = n]
    BY <1>2, <1>3, <2>1
  <2> HIDE DEF k
  <2>3. /\ lists' \in Lists /\ lists'.current = lists.current /\ lists'.used = lists.used
        /\ \A x \in Codes : lists'.pending[x] = IF x = k THEN n ELSE lists.pending[x]
    BY <2>2, PendingSet
  <2> QED BY <2>1, <2>3
<1>7. ASSUME NEW x \in Codes
      PROVE  InCirculation(x)' + One(Held(v, x))
                = InCirculation(x) + One(Held(visits[c], x)) + One(x <= issued') - One(x <= issued)
  <2>1. ~Held(v, x) /\ (Held(visits[c], x) <=> x = k)
    BY <1>1, <1>4 DEF Held
  <2>2. lists.pending[x] \in Int /\ issued' = issued
    BY <1>3, VisitBefore
  <2>3. InCirculation(x)' = IF x = k THEN InCirculation(x) + 1 ELSE InCirculation(x)
    BY <1>6, <2>2 DEF InCirculation
  <2>4. InCirculation(x) \in Int
    BY <2>2 DEF InCirculation
  <2> QED BY <2>1, <2>2, <2>3, <2>4 DEF One
<1>8. \A x \in Codes : lists'.used[x] >= lists.used[x]
  BY <1>6, VisitBefore
<1>9. issued' \in Codes /\ issued <= issued' /\ v.op # "use"
  BY <1>3, <1>4, VisitBefore
<1> QED BY <1>1, <1>3, <1>4, <1>5, <1>6, <1>7, <1>8, <1>9, ChangeInvites
-----------------------------------------------------------------------------
(* New codes, the save and the restart *)

LEMMA AddsInv ==
    ASSUME InviteInv, NEW c \in Visitors, Stage(c) \in {"idle", "show"}, serving, Adds(c)
    PROVE  InviteInv'
<1> DEFINE k == issued + 1
           v == [NoVisit EXCEPT !.pc = "read_current", !.op = "add"]
<1>1. /\ visits[c].op # "use" /\ VisitsShape
  BY VisitBefore, NewVisit DEF VisitOK
<1>2. /\ k \in Codes /\ issued \in Nat /\ Codes = 1..MaxCodes /\ MaxCodes \in Nat
      /\ lists.pending[k] \in Nat /\ lists \in Lists
  <2>1. issued < MaxCodes /\ issued \in Nat /\ Codes = 1..MaxCodes /\ MaxCodes \in Nat
    BY VisitBefore DEF Adds
  <2>2. k \in Codes
    BY <2>1
  <2> QED BY <2>1, <2>2, VisitBefore
<1>3. /\ lists' = [lists EXCEPT !.pending[k] = lists.pending[k] + 1] /\ Overlaps(c) /\ VisitGoes(c, v)
      /\ issued' = k /\ UNCHANGED <<invite_file, serving, admitted>>
  BY DEF Adds, VisitGoes
<1>4. v \in Visit /\ v.pc = "read_current" /\ v.op = "add"
  <2>1. NoVisit \in Visit
    BY NewVisit
  <2> QED BY <2>1 DEF Visit, SaveSteps
<1>5. VisitOK(v, issued') /\ v.op # "use"
  BY <1>4 DEF VisitOK
<1> HIDE DEF v
<1>6. /\ lists' \in Lists /\ lists'.current = lists.current /\ lists'.used = lists.used
      /\ \A x \in Codes : lists'.pending[x] = IF x = k THEN lists.pending[k] + 1 ELSE lists.pending[x]
  <2> DEFINE n == lists.pending[k] + 1
  <2>1. n \in Nat /\ k \in Codes /\ lists \in Lists /\ lists' = [lists EXCEPT !.pending[k] = n]
    BY <1>2, <1>3
  <2> HIDE DEF n, k
  <2>2. /\ lists' \in Lists /\ lists'.current = lists.current /\ lists'.used = lists.used
        /\ \A x \in Codes : lists'.pending[x] = IF x = k THEN n ELSE lists.pending[x]
    BY <2>1, PendingSet
  <2> QED BY <2>2 DEF n
<1>7. ASSUME NEW x \in Codes
      PROVE  InCirculation(x)' + One(Held(v, x))
                = InCirculation(x) + One(Held(visits[c], x)) + One(x <= issued') - One(x <= issued)
  <2>1. ~Held(v, x) /\ ~Held(visits[c], x)
    BY <1>1, <1>4 DEF Held
  <2>2. lists.pending[x] \in Int /\ x \in Int
    BY <1>2, VisitBefore
  <2>3. InCirculation(x)' = IF x = k THEN InCirculation(x) + 1 ELSE InCirculation(x)
    BY <1>6, <2>2 DEF InCirculation
  <2>4. InCirculation(x) \in Int
    BY <2>2 DEF InCirculation
  <2> QED BY <1>2, <1>3, <2>1, <2>2, <2>3, <2>4 DEF One
<1>8. \A x \in Codes : lists'.used[x] >= lists.used[x]
  BY <1>6, VisitBefore
<1>9. issued' \in Codes /\ issued <= issued'
  BY <1>2, <1>3
<1> QED BY <1>1, <1>3, <1>4, <1>5, <1>6, <1>7, <1>8, <1>9, ChangeInvites

LEMMA ShowCodeInv ==
    ASSUME InviteInv, NEW c \in Visitors, ShowCode(c)
    PROVE  InviteInv'
<1> DEFINE v == [visits[c] EXCEPT !.pc = "show"]
<1>1. /\ visits[c].pc = "idle" /\ visits[c].op # "use" /\ visits[c] \in Visit /\ VisitsShape
  BY VisitBefore, NewVisit DEF ShowCode, VisitOK, Stage
<1>2. /\ VisitGoes(c, v) /\ serving
      /\ UNCHANGED <<lists, issued, invite_file, serving, admitted, strays>>
  BY DEF ShowCode, Moves, VisitGoes
<1>3. v \in Visit /\ v.pc = "show" /\ v.op # "use"
  BY <1>1 DEF Visit
<1>4. VisitOK(v, issued)
  BY <1>3 DEF VisitOK
<1> HIDE DEF v
<1>5. OneByOne'
  <2>1. Stage(c) \notin {"take", "give"} \cup SaveSteps /\ v.pc \notin {"take", "give"} \cup SaveSteps
    BY <1>1, <1>3 DEF Stage, SaveSteps
  <2> QED BY <1>1, <1>2, <1>3, <2>1, OutsideOneByOne DEF InviteInv
<1>6. \A x \in Codes : One(Held(v, x)) + admitted'[x] = One(Held(visits[c], x)) + admitted[x]
  BY <1>1, <1>2, <1>3 DEF Held
<1>7. /\ invite_file' \in [state : {"none", "torn", "whole"}, lists : Lists]
      /\ admitted' \in [Codes -> Nat]
  BY <1>1, <1>2 DEF VisitsShape
<1> QED BY <1>1, <1>2, <1>3, <1>4, <1>5, <1>6, <1>7, ElsewhereInv

\* One list is copied: until the save has read them all they stay as they are.
LEMMA ReadListInv ==
    ASSUME InviteInv, NEW c \in Visitors, ReadList(c)
    PROVE  InviteInv'
<1>1. /\ visits[c].pc \in {"read_current", "read_used", "read_pending"} /\ serving
      /\ visits[c] \in Visit /\ VisitsShape /\ VisitOK(visits[c], issued) /\ lists \in Lists
      /\ visits[c].snap \in Lists
      /\ UNCHANGED <<lists, issued, invite_file, serving, admitted, strays>>
  BY VisitBefore DEF ReadList, Stage, Visit
<1>2. ASSUME NEW pc \in {"read_used", "read_pending", "open"}, NEW snap \in Lists,
             VisitGoes(c, [visits[c] EXCEPT !.pc = pc, !.snap = snap]),
             strays = {} => CopiedOK([visits[c] EXCEPT !.pc = pc, !.snap = snap])
      PROVE  InviteInv'
  <2> DEFINE v == [visits[c] EXCEPT !.pc = pc, !.snap = snap]
  <2>1. /\ v \in Visit /\ v.pc = pc /\ v.op = visits[c].op /\ v.code = visits[c].code
        /\ VisitGoes(c, v) /\ (strays = {} => CopiedOK(v))
    BY <1>1, <1>2 DEF Visit, SaveSteps
  <2> HIDE DEF v
  <2>2. VisitOK(v, issued) /\ v.pc # "rotate"
    BY <1>1, <2>1 DEF VisitOK
  <2>3. visits'[c] = v /\ \A d \in Visitors \ {c} : visits'[d] = visits[d]
    BY <1>1, <2>1, OneGoes
  <2>4. OneByOne'
    <3>1. UnderWay' = UnderWay
      BY <1>1, <2>1, <2>3 DEF UnderWay, Stage, SaveSteps
    <3>2. \A d \in Visitors : CopiedOK(visits[d])' <=> CopiedOK(visits'[d])
      BY <1>1 DEF CopiedOK
    <3> QED BY <1>1, <2>1, <2>3, <3>1, <3>2 DEF InviteInv, OneByOne
  <2>5. \A x \in Codes : One(Held(v, x)) + admitted'[x] = One(Held(visits[c], x)) + admitted[x]
    BY <1>1, <2>1 DEF Held
  <2>6. TakenIsUsed /\ v.op = "use" => lists.used[v.code] > 0
    BY <1>1, <2>1 DEF TakenIsUsed, Stage, SaveSteps
  <2>7. /\ invite_file' \in [state : {"none", "torn", "whole"}, lists : Lists]
        /\ admitted' \in [Codes -> Nat]
    BY <1>1 DEF VisitsShape
  <2> QED BY <1>1, <2>1, <2>2, <2>4, <2>5, <2>6, <2>7, ElsewhereInv
<1>3. strays = {} => CopiedOK(visits[c])
  BY DEF InviteInv, OneByOne
<1>4. CASE visits[c].pc = "read_current"
  <2> DEFINE snap == [visits[c].snap EXCEPT !.current = lists.current]
  <2>1. VisitGoes(c, [visits[c] EXCEPT !.pc = "read_used", !.snap = snap])
    BY <1>1, <1>4 DEF ReadList, VisitGoes, Wants, Stage
  <2>2. snap \in Lists
    BY <1>1 DEF Lists
  <2>3. CopiedOK([visits[c] EXCEPT !.pc = "read_used", !.snap = snap])
    BY <1>1 DEF CopiedOK, Visit, Lists
  <2> HIDE DEF snap
  <2> QED BY <1>2, <2>1, <2>2, <2>3
<1>5. CASE visits[c].pc = "read_used"
  <2> DEFINE snap == [visits[c].snap EXCEPT !.used = lists.used]
  <2>1. VisitGoes(c, [visits[c] EXCEPT !.pc = "read_pending", !.snap = snap])
    BY <1>1, <1>5 DEF ReadList, VisitGoes, Wants, Stage
  <2>2. snap \in Lists
    BY <1>1 DEF Lists
  <2>3. strays = {} => CopiedOK([visits[c] EXCEPT !.pc = "read_pending", !.snap = snap])
    BY <1>1, <1>3, <1>5 DEF CopiedOK, Visit, Lists
  <2> HIDE DEF snap
  <2> QED BY <1>2, <2>1, <2>2, <2>3
<1>6. CASE visits[c].pc = "read_pending"
  <2> DEFINE snap == [visits[c].snap EXCEPT !.pending = lists.pending]
  <2>1. VisitGoes(c, [visits[c] EXCEPT !.pc = "open", !.snap = snap])
    BY <1>1, <1>6 DEF ReadList, VisitGoes, Wants, Stage
  <2>2. snap \in Lists
    BY <1>1 DEF Lists
  <2>3. strays = {} => CopiedOK([visits[c] EXCEPT !.pc = "open", !.snap = snap])
    BY <1>1, <1>3, <1>6 DEF CopiedOK, Visit, Lists
  <2> HIDE DEF snap
  <2> QED BY <1>2, <2>1, <2>2, <2>3
<1> QED BY <1>1, <1>4, <1>5, <1>6

\* The file is opened, and the writes that are under way may mix with this one.
LEMMA OpenInvitesInv ==
    ASSUME InviteInv, NEW c \in Visitors, OpenInvites(c)
    PROVE  InviteInv'
<1>1. /\ VisitsShape /\ Rotating /\ Conserved /\ OneByOne /\ visits[c].pc = "open" /\ serving
      /\ UNCHANGED <<lists, issued, serving, admitted, strays>> /\ invite_file' = TornInvites
  BY VisitBefore DEF InviteInv, OpenInvites, Stage
<1>2. ASSUME NEW d \in Visitors
      PROVE  /\ visits'[d] \in Visit /\ visits'[d].op = visits[d].op
             /\ visits'[d].code = visits[d].code /\ visits'[d].snap = visits[d].snap
             /\ visits'[d].pc = IF d = c THEN "write" ELSE visits[d].pc
             /\ visits[d].pc \notin {"open", "write"} => visits'[d] = visits[d]
  <2>1. visits[d] \in Visit /\ "write" \in SaveSteps
    BY <1>1 DEF VisitsShape, SaveSteps
  <2>2. \/ d = c /\ \E b \in BOOLEAN : visits'[d] = [visits[d] EXCEPT !.pc = "write", !.mixed = b]
        \/ d # c /\ visits[d].pc = "write" /\ visits'[d] = [visits[d] EXCEPT !.mixed = TRUE]
        \/ d # c /\ visits'[d] = visits[d]
    BY DEF OpenInvites, Stage
  <2> QED BY <1>1, <2>1, <2>2 DEF Visit
<1>3. VisitsShape'
  <2>1. visits' \in [Visitors -> Visit]
    <3>1. visits' = [d \in Visitors |-> visits'[d]]
      BY DEF OpenInvites
    <3> QED BY <1>2, <3>1
  <2>2. ASSUME NEW d \in Visitors PROVE VisitOK(visits[d], issued)'
    <3>1. VisitOK(visits[d], issued)
      BY <1>1 DEF VisitsShape
    <3> QED BY <1>1, <1>2, <3>1 DEF VisitOK
  <2>3. invite_file' \in [state : {"none", "torn", "whole"}, lists : Lists]
    <3>1. NewLists(1) \in Lists
      BY VisitBefore, NewVisit
    <3> QED BY <1>1, <3>1 DEF TornInvites
  <2> QED BY <1>1, <2>1, <2>2, <2>3 DEF VisitsShape
<1>4. Rotating'
  BY <1>1, <1>2 DEF Rotating, Stage
<1>5. OneByOne'
  <2>1. UnderWay' = UnderWay /\ c \in UnderWay
    BY <1>1, <1>2 DEF UnderWay, Stage, SaveSteps
  <2>2. ASSUME NEW d \in Visitors, CopiedOK(visits[d]) PROVE CopiedOK(visits[d])'
    BY <1>1, <1>2, <2>2 DEF CopiedOK
  <2> QED BY <1>1, <2>1, <2>2 DEF OneByOne
<1>6. Conserved'
  <2>1. ASSUME NEW k PROVE InHand(k)' = InHand(k)
    BY <1>1, <1>2 DEF InHand, Stage
  <2>2. ASSUME NEW k PROVE Places(k)' = Places(k)
    BY <1>1, <2>1 DEF Places, InCirculation
  <2>3. EachInOnePlace => EachInOnePlace'
    BY <1>1, <2>2 DEF EachInOnePlace
  <2>4. TakenIsUsed => TakenIsUsed'
    BY <1>1, <1>2 DEF TakenIsUsed, Stage, SaveSteps
  <2> QED BY <1>1, <2>3, <2>4 DEF Conserved
<1> QED BY <1>3, <1>4, <1>5, <1>6 DEF InviteInv

\* The save is over, in the file or not.
LEMMA SaveEndsInv ==
    ASSUME InviteInv, NEW c \in Visitors, WriteInvites(c) \/ InviteSaveFails(c)
    PROVE  InviteInv'
<1> DEFINE v == IF visits[c].op = "use"
                THEN [visits[c] EXCEPT !.pc = "register", !.snap = NewLists(1), !.mixed = FALSE]
                ELSE NoVisit
<1>1. /\ VisitsShape /\ OneByOne /\ visits[c].pc \in {"open", "write"} /\ serving
      /\ visits[c] \in Visit /\ VisitOK(visits[c], issued)
      /\ UNCHANGED <<lists, issued, serving, admitted>> /\ VisitGoes(c, v)
  BY VisitBefore DEF InviteInv, WriteInvites, InviteSaveFails, AfterSave, Stage, VisitGoes
<1>2. /\ v \in Visit
      /\ v.op = "use" => v.pc = "register" /\ v.code = visits[c].code /\ visits[c].op = "use"
      /\ v.op # "use" => v = NoVisit /\ visits[c].op # "use"
  <2>1. NoVisit \in Visit /\ NoVisit.op # "use" /\ NewLists(1) \in Lists
    BY VisitBefore, NewVisit
  <2> QED BY <1>1, <2>1 DEF Visit
<1> HIDE DEF v
<1>3. /\ VisitOK(v, issued) /\ v.pc \in {"register", "idle"}
  BY <1>1, <1>2, NewVisit DEF VisitOK
<1>4. visits[c].snap \in Lists /\ TornInvites \in [state : {"none", "torn", "whole"}, lists : Lists]
  <2>1. NewLists(1) \in Lists
    BY VisitBefore, NewVisit
  <2> QED BY <1>1, <2>1 DEF Visit, TornInvites
<1>5. /\ invite_file' \in [state : {"none", "torn", "whole"}, lists : Lists]
      /\ strays \subseteq strays' /\ ("loss" \in strays' => "loss" \in strays)
  <2>1. \/ invite_file' = invite_file \/ invite_file' = TornInvites
        \/ invite_file' = [state |-> "whole", lists |-> visits[c].snap]
    BY DEF WriteInvites, InviteSaveFails
  <2>2. invite_file' \in [state : {"none", "torn", "whole"}, lists : Lists]
    <3>1. invite_file \in [state : {"none", "torn", "whole"}, lists : Lists]
      BY <1>1 DEF VisitsShape
    <3>2. [state |-> "whole", lists |-> visits[c].snap] \in [state : {"none", "torn", "whole"}, lists : Lists]
      BY <1>4
    <3>3. CASE invite_file' = invite_file
      BY <3>1, <3>3
    <3>4. CASE invite_file' = TornInvites
      BY <1>4, <3>4
    <3>5. CASE invite_file' = [state |-> "whole", lists |-> visits[c].snap]
      BY <3>2, <3>5
    <3> QED BY <2>1, <3>3, <3>4, <3>5
  <2>3. strays' = strays \/ strays' = strays \cup {"failed save"}
    BY DEF WriteInvites, InviteSaveFails
  <2>4. strays \subseteq strays' /\ ("loss" \in strays' => "loss" \in strays)
    BY <2>3
  <2> QED BY <2>2, <2>4
<1>6. OneByOne'
  <2> SUFFICES ASSUME strays' = {}
               PROVE  /\ \A d, e \in UnderWay' : d = e
                      /\ UnderWay' = {} /\ invite_file'.state = "whole" => invite_file'.lists = lists'
                      /\ \A d \in Visitors : CopiedOK(visits[d])'
    BY DEF OneByOne
  <2>1. WriteInvites(c) /\ strays = {}
    BY <1>5 DEF InviteSaveFails
  <2>2. visits[c].snap = lists /\ c \in UnderWay /\ \A d, e \in UnderWay : d = e
    BY <1>1, <2>1 DEF OneByOne, CopiedOK, UnderWay, Stage, SaveSteps
  <2>3. visits'[c] = v /\ \A d \in Visitors \ {c} : visits'[d] = visits[d]
    BY <1>1, <1>2, OneGoes
  <2>4. \A d \in Visitors : visits'[d].pc \notin {"take", "give"} \cup SaveSteps
    BY <1>3, <2>2, <2>3 DEF UnderWay, Stage, SaveSteps
  <2>5. UnderWay' = {} /\ \A d \in Visitors : CopiedOK(visits[d])'
    BY <2>4 DEF UnderWay, Stage, CopiedOK, SaveSteps
  <2>6. invite_file'.state = "whole" => invite_file'.lists = lists
    <3>1. \/ invite_file' = TornInvites
          \/ invite_file' = [state |-> "whole", lists |-> visits[c].snap]
      BY <2>1 DEF WriteInvites
    <3> QED BY <2>2, <3>1 DEF TornInvites
  <2> QED BY <1>1, <2>5, <2>6
<1>7. \A x \in Codes : One(Held(v, x)) + admitted'[x] = One(Held(visits[c], x)) + admitted[x]
  BY <1>1, <1>2 DEF Held
<1>8. TakenIsUsed /\ v.op = "use" => lists.used[v.code] > 0
  BY <1>1, <1>2 DEF TakenIsUsed, Stage, SaveSteps
<1>9. v.pc # "rotate" /\ admitted' \in [Codes -> Nat]
  BY <1>1, <1>3 DEF VisitsShape
<1> QED BY <1>1, <1>2, <1>3, <1>5, <1>6, <1>7, <1>8, <1>9, ElsewhereInv

\* The process ends and starts again from its file.
LEMMA RestartInv ==
    ASSUME InviteInv,
           CrashInvites \/ \E state_read, pending_read \in BOOLEAN : LoadCodes(state_read, pending_read)
    PROVE  InviteInv'
<1>1. VisitsShape /\ Rotating /\ Conserved /\ OneByOne
  BY DEF InviteInv
<1>2. /\ NoVisit \in Visit /\ NoVisit.pc = "idle" /\ NoVisit.op = "none" /\ Nowhere \in [Codes -> Nat]
      /\ \A n : VisitOK(NoVisit, n)
  BY NewVisit DEF VisitOK
<1>3. ASSUME NEW x PROVE Held(NoVisit, x) <=> FALSE
  BY <1>2 DEF Held
<1>4. CASE CrashInvites
  <2>1. /\ visits' = [c \in Visitors |-> NoVisit] /\ UNCHANGED <<lists, issued, invite_file, admitted>>
        /\ serving' = FALSE /\ strays \subseteq strays'
        /\ "loss" \notin strays' => /\ strays = {} /\ strays' = {} /\ invite_file.state = "whole"
                                    /\ \A c \in Visitors : Stage(c) = "idle"
    BY <1>4 DEF CrashInvites
  <2>2. VisitsShape'
    BY <1>1, <1>2, <2>1 DEF VisitsShape
  <2>3. Rotating'
    BY <1>2, <2>1 DEF Rotating, Stage
  <2>4. ASSUME "loss" \notin strays'
        PROVE  visits' = visits /\ strays = {} /\ invite_file.state = "whole" /\ invite_file.lists = lists
    <3>1. \A c \in Visitors : visits[c] = NoVisit
      BY <1>1, <2>1, <2>4 DEF VisitsShape, VisitOK, Stage
    <3>2. visits' = visits
      BY <1>1, <2>1, <3>1 DEF VisitsShape
    <3>3. UnderWay = {}
      BY <1>2, <3>1 DEF UnderWay, Stage, SaveSteps
    <3> QED BY <1>1, <2>1, <2>4, <3>2, <3>3 DEF OneByOne
  <2>5. Conserved'
    <3> SUFFICES ASSUME "loss" \notin strays'
                 PROVE  /\ EachInOnePlace' /\ TakenIsUsed'
                        /\ strays' = {} /\ invite_file'.state = "whole" /\ invite_file'.lists = lists'
      BY DEF Conserved
    <3>1. visits' = visits /\ strays = {} /\ strays' = {}
      BY <2>1, <2>4
    <3>2. EachInOnePlace /\ TakenIsUsed
      BY <1>1, <3>1 DEF Conserved
    <3>3. EachInOnePlace' /\ TakenIsUsed'
      BY <2>1, <3>1, <3>2 DEF EachInOnePlace, Places, InCirculation, InHand, Stage, TakenIsUsed
    <3> QED BY <2>1, <2>4, <3>1, <3>3
  <2>6. OneByOne'
    <3> SUFFICES ASSUME strays' = {} PROVE OneByOne'
      BY DEF OneByOne
    <3>1. visits' = visits /\ strays = {}
      BY <2>4
    <3> QED BY <1>1, <2>1, <3>1 DEF OneByOne, UnderWay, Stage, CopiedOK
  <2> QED BY <2>2, <2>3, <2>5, <2>6 DEF InviteInv
<1>5. ASSUME NEW state_read \in BOOLEAN, NEW pending_read \in BOOLEAN, LoadCodes(state_read, pending_read)
      PROVE  InviteInv'
  <2> DEFINE pending == IF pending_read /\ invite_file.state = "whole" THEN invite_file.lists.pending ELSE Nowhere
  <2>1. /\ UNCHANGED <<invite_file, visits, admitted>> /\ ~serving /\ serving' = TRUE
        /\ strays \subseteq strays'
        /\ "loss" \notin strays' => state_read /\ pending_read /\ strays' = strays
        /\ IF state_read /\ invite_file.state = "whole"
           THEN lists' = [invite_file.lists EXCEPT !.pending = pending] /\ UNCHANGED issued
           ELSE /\ issued < MaxCodes /\ issued' = issued + 1
                /\ lists' = [NewLists(issued + 1) EXCEPT !.pending = pending]
    BY <1>5 DEF LoadCodes
  <2>2. \A c \in Visitors : visits[c] = NoVisit
    BY <1>1, <2>1 DEF VisitsShape
  <2>3. invite_file.lists \in Lists /\ pending \in [Codes -> Nat] /\ issued \in Codes
    BY <1>1, <1>2 DEF VisitsShape, Lists
  <2>4. lists' \in Lists /\ issued' \in Codes
    <3>1. MaxCodes \in Nat /\ Codes = 1..MaxCodes
      BY InviteAssumption DEF Codes
    <3>2. CASE state_read /\ invite_file.state = "whole"
      BY <2>1, <2>3, <3>2 DEF Lists
    <3>3. CASE ~(state_read /\ invite_file.state = "whole")
      <4>1. issued + 1 \in Codes
        BY <2>1, <2>3, <3>1, <3>3
      <4>2. NewLists(issued + 1) \in Lists
        BY <4>1, NewVisit
      <4> HIDE DEF pending
      <4> QED BY <2>1, <2>3, <3>3, <4>1, <4>2 DEF Lists
    <3> QED BY <3>2, <3>3
  <2>5. VisitsShape'
    BY <1>1, <1>2, <2>1, <2>2, <2>4 DEF VisitsShape
  <2>6. Rotating'
    BY <1>2, <2>1, <2>2 DEF Rotating, Stage
  <2>7. ASSUME "loss" \notin strays' PROVE UNCHANGED <<lists, issued, strays>> /\ strays = {}
    <3>1. strays = {} /\ invite_file.state = "whole" /\ invite_file.lists = lists
      BY <1>1, <2>1, <2>7 DEF Conserved
    <3>2. lists' = [lists EXCEPT !.pending = lists.pending] /\ UNCHANGED <<issued, strays>>
      BY <2>1, <2>7, <3>1
    <3>3. lists \in Lists
      BY <1>1 DEF VisitsShape
    <3> QED BY <3>1, <3>2, <3>3 DEF Lists
  <2>8. Conserved'
    <3> SUFFICES ASSUME "loss" \notin strays' PROVE EachInOnePlace' /\ TakenIsUsed'
      BY <2>1 DEF Conserved
    <3>1. EachInOnePlace /\ TakenIsUsed
      BY <1>1, <2>7 DEF Conserved
    <3> QED BY <2>1, <2>7, <3>1 DEF EachInOnePlace, Places, InCirculation, InHand, Stage, TakenIsUsed
  <2>9. OneByOne'
    <3> SUFFICES ASSUME strays' = {} PROVE OneByOne'
      BY DEF OneByOne
    <3>1. UNCHANGED lists /\ strays = {}
      BY <2>7
    <3> QED BY <1>1, <2>1, <3>1 DEF OneByOne, UnderWay, Stage, CopiedOK
  <2> QED BY <2>5, <2>6, <2>8, <2>9 DEF InviteInv
<1> QED BY <1>4, <1>5

LEMMA InviteInitInv == InviteInit => InviteInv
<1> SUFFICES ASSUME InviteInit PROVE InviteInv
  OBVIOUS
<1>1. /\ lists = NewLists(1) /\ issued = 1 /\ invite_file = NoInvites /\ serving = TRUE
      /\ visits = [c \in Visitors |-> NoVisit] /\ admitted = Nowhere /\ strays = {}
  BY DEF InviteInit
<1>2. /\ NoVisit \in Visit /\ NoVisit.pc = "idle" /\ NoVisit.op = "none" /\ Nowhere \in [Codes -> Nat]
      /\ 1 \in Codes /\ NewLists(1) \in Lists /\ VisitOK(NoVisit, 1)
  <2>1. 1 \in Codes
    BY InviteAssumption DEF Codes
  <2> QED BY <2>1, NewVisit DEF VisitOK
<1>3. VisitsShape
  BY <1>1, <1>2 DEF VisitsShape, NoInvites
<1>4. Rotating
  BY <1>1, <1>2 DEF Rotating, Stage
<1>5. Conserved
  <2>1. \A k : InHand(k) = {}
    BY <1>1, <1>2 DEF InHand, Stage
  <2>2. Cardinality({}) = 0
    BY FS_EmptySet
  <2>3. \A k \in Codes : /\ lists.pending[k] = 0 /\ admitted[k] = 0 /\ lists.current = 1
                         /\ k \in Nat /\ k >= 1
    BY <1>1, InviteAssumption DEF NewLists, Nowhere, Codes
  <2>4. EachInOnePlace
    BY <1>1, <2>1, <2>2, <2>3 DEF EachInOnePlace, Places, InCirculation
  <2>5. TakenIsUsed
    BY <1>1, <1>2 DEF TakenIsUsed
  <2> QED BY <1>1, <2>4, <2>5 DEF Conserved
<1>6. OneByOne
  BY <1>1, <1>2 DEF OneByOne, UnderWay, Stage, SaveSteps, CopiedOK, NoInvites
<1> QED BY <1>3, <1>4, <1>5, <1>6 DEF InviteInv

LEMMA InviteStutterInv ==
    ASSUME InviteInv, UNCHANGED inviteVars
    PROVE  InviteInv'
<1>1. UNCHANGED <<lists, issued, invite_file, serving, visits, admitted, strays>>
  BY DEF inviteVars
<1>2. VisitsShape'
  BY <1>1 DEF InviteInv, VisitsShape
<1>3. Rotating'
  BY <1>1 DEF InviteInv, Rotating, Stage
<1>4. Conserved'
  BY <1>1 DEF InviteInv, Conserved, EachInOnePlace, Places, InCirculation, InHand, Stage, TakenIsUsed
<1>5. OneByOne'
  BY <1>1 DEF InviteInv, OneByOne, UnderWay, Stage, CopiedOK
<1> QED BY <1>2, <1>3, <1>4, <1>5 DEF InviteInv

LEMMA InviteStepInv == InviteInv /\ [InviteNext]_inviteVars => InviteInv'
<1> SUFFICES ASSUME InviteInv, [InviteNext]_inviteVars PROVE InviteInv'
  OBVIOUS
<1>1. ASSUME NEW c \in Visitors, VisitNext(c) PROVE InviteInv'
  <2>1. ASSUME NEW k \in Codes, TakeCode(c, k) PROVE InviteInv'
    BY <2>1, TakeCodeInv
  <2>2. CASE TakeUsed(c)
    BY <2>2, TakeUsedInv
  <2>3. CASE MatchCurrent(c)
    BY <2>3, MatchCurrentInv
  <2>4. CASE Rotate(c)
    BY <2>4, RotateInv
  <2>5. CASE MakeAccount(c)
    BY <2>5, MakeAccountInv
  <2>6. CASE RefundUsed(c)
    BY <2>6, RefundUsedInv
  <2>7. CASE GiveBack(c)
    BY <2>7, GiveBackInv
  <2>8. CASE GenerateCodes(c) \/ ShowNewCode(c)
    <3>1. Adds(c) /\ Stage(c) \in {"idle", "show"} /\ serving
      BY <2>8, VisitBefore DEF GenerateCodes, ShowNewCode
    <3> QED BY <3>1, AddsInv
  <2>9. CASE ShowCode(c)
    BY <2>9, ShowCodeInv
  <2>10. CASE ReadList(c)
    BY <2>10, ReadListInv
  <2>11. CASE OpenInvites(c)
    BY <2>11, OpenInvitesInv
  <2>12. CASE WriteInvites(c) \/ InviteSaveFails(c)
    BY <2>12, SaveEndsInv
  <2> QED BY <1>1, <2>1, <2>2, <2>3, <2>4, <2>5, <2>6, <2>7, <2>8, <2>9, <2>10, <2>11, <2>12
       DEF VisitNext
<1>2. CASE CrashInvites \/ \E state_read, pending_read \in BOOLEAN : LoadCodes(state_read, pending_read)
  BY <1>2, RestartInv
<1>3. CASE UNCHANGED inviteVars
  BY <1>3, InviteStutterInv
<1> QED BY <1>1, <1>2, <1>3 DEF InviteNext

LEMMA InviteInvHolds == InviteSpec => []InviteInv
BY InviteInitInv, InviteStepInv, PTL DEF InviteSpec

\* However many requests, codes, crashes and failed reads and writes there are, a
\* code that was generated is in circulation, in the hands of one registration or
\* has made one account (use_invite_code, refund_invite_code, load_invite_state),
\* unless a crash or a failed read took with it what the file did not say.
THEOREM EachCodeAdmitsOnce == InviteSpec => []EachCodeOnce
<1>1. InviteInv => EachCodeOnce
  <2>1. InviteInv => issued \in Nat /\ MaxCodes \in Nat /\ issued <= MaxCodes
    BY InviteAssumption DEF InviteInv, VisitsShape, Codes
  <2> QED BY <2>1 DEF InviteInv, Conserved, EachInOnePlace, Places, Codes, EachCodeOnce
<1> QED BY <1>1, InviteInvHolds, PTL

\* The lists, the file and the requests have their shape, in particular a request
\* past its first step has a code, and a process that is down serves nobody.
THEOREM InviteTypeCorrect == InviteSpec => []InviteTypeOK
<1>1. InviteInv => InviteTypeOK
  <2> SUFFICES ASSUME VisitsShape PROVE InviteTypeOK
    BY DEF InviteInv
  <2>1. ASSUME NEW c \in Visitors
        PROVE  visits[c].snap \in Lists /\ (visits[c].op = "use" => visits[c].code \in Codes)
    BY UserCode DEF VisitsShape, Visit
  <2>2. ~serving => \A c \in Visitors : Stage(c) = "idle"
    BY NewVisit DEF VisitsShape, Stage
  <2> QED BY <2>1, <2>2 DEF VisitsShape, InviteTypeOK, CodeLists, Lists
<1> QED BY <1>1, InviteInvHolds, PTL
-----------------------------------------------------------------------------
(* The locks of the lists *)

\* A lock has one holder.
LocksExclusive ==
    \A c, d \in Visitors : c # d => Holds(c) \cap Holds(d) = {}

\* Requests that all wait for a lock another one of them holds.
Knot(some) == some # {} /\ \A c \in some : \E d \in some : Wants(c) \in Holds(d)
KnotsHoldARefund ==
    \A some \in SUBSET Visitors : Knot(some) => \E e \in some : Stage(e) = "give"

LEMMA HoldersDiffer ==
    LocksExclusive <=> \A c, d \in Visitors :
        Stage(c) = Stage(d) /\ Stage(c) \in {"take", "rotate", "give"} => c = d
<1>1. \A d \in Visitors : Holds(d) = IF Stage(d) = "take" THEN {"pending"}
                                     ELSE IF Stage(d) = "rotate" THEN {"current"}
                                     ELSE IF Stage(d) = "give" THEN {"used"} ELSE {}
  BY DEF Holds
<1> QED BY <1>1 DEF LocksExclusive

\* A step takes at most one lock more, and only one that is free.
LEMMA LockTaken ==
    ASSUME VisitsShape, NEW c \in Visitors, VisitNext(c)
    PROVE  /\ \A d \in Visitors \ {c} : Stage(d)' = Stage(d)
           /\ Stage(c)' \in {"take", "rotate", "give"}
                => \A d \in Visitors : Stage(d) # Stage(c)'
<1>a. visits \in [Visitors -> Visit]
  BY DEF VisitsShape
<1>b. NoVisit.pc = "idle"
  BY NewVisit
<1>c. ASSUME NEW v, visits' = [visits EXCEPT ![c] = v]
      PROVE  Stage(c)' = v.pc /\ \A d \in Visitors \ {c} : Stage(d)' = Stage(d)
  BY <1>a, <1>c DEF Stage
<1>d. ASSUME NEW pc, visits' = [visits EXCEPT ![c].pc = pc]
      PROVE  Stage(c)' = pc /\ \A d \in Visitors \ {c} : Stage(d)' = Stage(d)
  BY <1>a, <1>d DEF Stage, Visit
<1>e. \A op : Saves(c, op) => /\ Stage(c)' = "read_current"
                              /\ \A d \in Visitors \ {c} : Stage(d)' = Stage(d)
  BY <1>a DEF Saves, Stage, Visit
<1>1. CASE \E k \in Codes : TakeCode(c, k)
  <2>1. PICK k \in Codes : TakeCode(c, k)
    BY <1>1
  <2>2. PICK pc \in {"take", "match"} :
          /\ visits' = [visits EXCEPT ![c] = [NoVisit EXCEPT !.pc = pc, !.op = "use", !.code = k]]
          /\ Unlocked("pending")
    BY <2>1 DEF TakeCode
  <2>3. [NoVisit EXCEPT !.pc = pc, !.op = "use", !.code = k].pc = pc
    BY DEF NoVisit
  <2> QED BY <1>c, <2>2, <2>3, Locks
<1>2. CASE TakeUsed(c) \/ Rotate(c) \/ GiveBack(c)
  BY <1>2, <1>e DEF TakeUsed, Rotate, GiveBack
<1>3. CASE MatchCurrent(c)
  <2>1. Unlocked("current")
    BY <1>3 DEF MatchCurrent
  <2>2. CASE Moves(c, "rotate")
    BY <1>d, <2>1, <2>2, Locks DEF Moves
  <2>3. CASE Ends(c)
    BY <1>b, <1>c, <2>3 DEF Ends
  <2> QED BY <1>3, <2>2, <2>3 DEF MatchCurrent
<1>4. CASE MakeAccount(c)
  BY <1>4, <1>b, <1>c, <1>d DEF MakeAccount, Ends, Moves
<1>5. CASE RefundUsed(c)
  <2>1. Unlocked("used")
    BY <1>5 DEF RefundUsed
  <2>2. CASE Moves(c, "give")
    BY <1>d, <2>1, <2>2, Locks DEF Moves
  <2>3. CASE Saves(c, "refund")
    BY <1>e, <2>3
  <2> QED BY <1>5, <2>2, <2>3 DEF RefundUsed
<1>6. CASE GenerateCodes(c) \/ ShowNewCode(c)
  <2>1. [NoVisit EXCEPT !.pc = "read_current", !.op = "add"].pc = "read_current"
    BY DEF NoVisit
  <2> QED BY <1>6, <1>c, <2>1 DEF GenerateCodes, ShowNewCode, Adds
<1>7. CASE ShowCode(c)
  <2>1. visits' = [visits EXCEPT ![c].pc = "show"]
    BY <1>7 DEF ShowCode, Moves
  <2>2. Stage(c)' = "show" /\ \A d \in Visitors \ {c} : Stage(d)' = Stage(d)
    BY <1>d, <2>1
  <2> QED BY <2>2
<1>8. CASE ReadList(c)
  <2> DEFINE next == CASE Stage(c) = "read_current" -> "read_used"
                       [] Stage(c) = "read_used"    -> "read_pending"
                       [] OTHER                     -> "open"
             snap == [visits[c].snap EXCEPT ![Wants(c)] = lists[Wants(c)]]
  <2>1. visits' = [visits EXCEPT ![c].pc = next, ![c].snap = snap]
    BY <1>8, <1>a DEF ReadList, Stage, Visit
  <2>2. next \in {"read_used", "read_pending", "open"}
    OBVIOUS
  <2> HIDE DEF next, snap
  <2>3. visits'[c].pc = next /\ \A d \in Visitors \ {c} : visits'[d] = visits[d]
    BY <1>a, <2>1 DEF Visit
  <2> QED BY <2>2, <2>3 DEF Stage
<1>9. CASE OpenInvites(c)
  <2>1. [visits[c] EXCEPT !.pc = "write", !.mixed = TRUE].pc = "write"
        /\ [visits[c] EXCEPT !.pc = "write", !.mixed = FALSE].pc = "write"
        /\ \A d \in Visitors : [visits[d] EXCEPT !.mixed = TRUE].pc = visits[d].pc
    BY <1>a DEF Visit
  <2> DEFINE others == {d \in Visitors : Stage(d) = "write"}
  <2>2. visits' = [d \in Visitors |->
          IF d = c THEN [visits[c] EXCEPT !.pc = "write", !.mixed = others # {}]
          ELSE IF d \in others THEN [visits[d] EXCEPT !.mixed = TRUE] ELSE visits[d]]
    BY <1>9 DEF OpenInvites
  <2> HIDE DEF others
  <2>3. visits'[c].pc = "write" /\ \A d \in Visitors \ {c} : visits'[d].pc = visits[d].pc
    BY <1>a, <2>1, <2>2 DEF Visit
  <2> QED BY <2>3 DEF Stage
<1>10. CASE WriteInvites(c) \/ InviteSaveFails(c)
  <2>1. AfterSave(c)
    BY <1>10 DEF WriteInvites, InviteSaveFails
  <2>2. Stage(c)' \in {"register", "idle"} /\ \A d \in Visitors \ {c} : Stage(d)' = Stage(d)
    BY <1>a, <1>b, <2>1 DEF AfterSave, Stage, Visit
  <2> QED BY <2>2
<1> QED BY <1>1, <1>2, <1>3, <1>4, <1>5, <1>6, <1>7, <1>8, <1>9, <1>10 DEF VisitNext

LEMMA LocksInit == InviteInit => LocksExclusive
BY HoldersDiffer, NewVisit DEF InviteInit, Stage

LEMMA LocksStep ==
    InviteInv /\ LocksExclusive /\ [InviteNext]_inviteVars => LocksExclusive'
<1> SUFFICES ASSUME VisitsShape, LocksExclusive, [InviteNext]_inviteVars
             PROVE  \A c, d \in Visitors :
                      Stage(c)' = Stage(d)' /\ Stage(c)' \in {"take", "rotate", "give"} => c = d
  <2>1. (LocksExclusive <=> \A c, d \in Visitors :
           Stage(c) = Stage(d) /\ Stage(c) \in {"take", "rotate", "give"} => c = d)'
    BY HoldersDiffer, PTL
  <2> QED BY <2>1 DEF InviteInv
<1>1. \A c, d \in Visitors : Stage(c) = Stage(d) /\ Stage(c) \in {"take", "rotate", "give"} => c = d
  BY HoldersDiffer
<1>2. ASSUME NEW p \in Visitors, VisitNext(p), NEW c \in Visitors, NEW d \in Visitors,
             Stage(c)' = Stage(d)', Stage(c)' \in {"take", "rotate", "give"}
      PROVE  c = d
  BY <1>1, <1>2, LockTaken
<1>3. CASE CrashInvites
  BY <1>3, NewVisit DEF CrashInvites, Stage
<1>4. CASE (\E state_read, pending_read \in BOOLEAN : LoadCodes(state_read, pending_read))
           \/ UNCHANGED inviteVars
  <2>1. UNCHANGED visits
    BY <1>4 DEF LoadCodes, inviteVars
  <2> QED BY <1>1, <2>1 DEF Stage
<1> QED BY <1>2, <1>3, <1>4 DEF InviteNext

\* The locks of the lists are locks: no two requests are ever past the acquisition
\* of one of them.  (Each of the three is a Mutex of UserManager.)
THEOREM ListLocksExclusive == InviteSpec => []LocksExclusive
<1>1. InviteInv /\ LocksExclusive /\ [InviteNext]_inviteVars => (InviteInv /\ LocksExclusive)'
  BY InviteStepInv, LocksStep
<1> QED BY <1>1, InviteInitInv, LocksInit, PTL DEF InviteSpec

\* Whatever requests wait for each other, one of them is a refund that holds the
\* used codes and waits for the pending ones: without it the order of the locks, the
\* used codes last, leaves somebody who can go on, however many wait.
\* (refund_invite_code takes used_codes before pending_codes, use_invite_code the
\* other way round.)
THEOREM OnlyARefundDeadlocks == InviteSpec => []KnotsHoldARefund
<1>1. KnotsHoldARefund
  <2> SUFFICES ASSUME NEW some \in SUBSET Visitors, Knot(some)
               PROVE  \E e \in some : Stage(e) = "give"
    BY DEF KnotsHoldARefund
  <2>1. PICK c \in some : TRUE
    BY DEF Knot
  <2>2. PICK d \in some : Wants(c) \in Holds(d)
    BY DEF Knot
  <2>3. CASE Stage(d) # "give"
    <3>1. Wants(d) = "used"
      BY <2>2, <2>3 DEF Holds, Wants
    <3>2. PICK e \in some : "used" \in Holds(e)
      BY <3>1 DEF Knot
    <3> QED BY <3>2 DEF Holds
  <2> QED BY <2>3
<1> QED BY <1>1, PTL

\* The same of two requests, as the run checks it: who waits for a request that
\* cannot go on waits behind a refund.  (use_invite_code drops its lock before
\* save_invite_state.)
THEOREM BlockedBehindRefunds == InviteSpec => []OnlyRefundsBlock
<1>1. OnlyRefundsBlock
  <2> SUFFICES ASSUME NEW c \in Visitors, NEW d \in Visitors, Wants(c) \in Holds(d),
                      \A e \in Visitors : Stage(e) # "give"
               PROVE  Unlocked(Wants(d))
    BY DEF OnlyRefundsBlock
  <2>1. Wants(d) = "used"
    BY DEF Holds, Wants
  <2> QED BY <2>1, Locks
<1> QED BY <1>1, PTL
=============================================================================
