------------------------------ MODULE EngineSlots ------------------------------
(***************************************************************************)
(* The engines of the users of one cloud process: loading one when it is   *)
(* first wanted, keeping it in a slot, evicting it when it is idle.        *)
(*                                                                         *)
(* A load is announced by a mark in loading_users and installs the engine  *)
(* in the slot of the user when it is done.  The slot and the mark have a  *)
(* lock each.  A request that wants an engine looks at the slot and then   *)
(* asks for the mark; the loader takes the mark back twice, once inside    *)
(* get_engine_inner and once around it.  Eviction takes an engine out of   *)
(* its slot under the lock and saves it after the lock; a request that got *)
(* the engine before keeps using it.                                       *)
(***************************************************************************)
EXTENDS Integers, FiniteSets

CONSTANTS
    Requests,     \* concurrent requests and background tasks
    Users,
    MAX_USERS,    \* 1000 in the code: slots before the oldest is evicted
    MaxEngines,   \* bound: engines built
    MaxMemories,  \* bound: memories written
    MaxEvictions  \* bound: evictions

ASSUME SlotsAssumption ==
    /\ IsFiniteSet(Requests) /\ IsFiniteSet(Users) /\ Users # {}
    /\ {MAX_USERS, MaxEngines, MaxMemories, MaxEvictions} \subseteq Nat

VARIABLES
    slots,      \* user -> the engine in its slot, 0 = no slot
    loading,    \* loading_users
    engines,    \* engine -> [user, space], the memories the engine knows
    table,      \* user -> the ids in its tetrahedrons table
    acked,      \* [user, id] of the writes that were answered
    overlapped, \* users that had two engines alive at once
    evictions,  \* count (for the bound only)
    requests    \* request -> where it is

slotVars == <<slots, loading, engines, table, acked, overlapped, evictions, requests>>

Engines == DOMAIN engines
Written == UNION {engines[e].space : e \in Engines}
Free == [pc |-> "free", user |-> CHOOSE u \in Users : TRUE, via |-> "none",
         engine |-> 0, saves |-> {}, memory |-> 0]

Where(q, pc) == requests[q].pc = pc
Taken == {u \in Users : slots[u] # 0}
Proceed(q, request) == requests' = [requests EXCEPT ![q] = request]
Step(q, pc) == Proceed(q, [requests[q] EXCEPT !.pc = pc])
Done(q) == Proceed(q, Free)
UserOf(q) == requests[q].user
\* An engine that a slot, a request or an eviction still holds.
Alive(e) == \/ \E u \in Users : slots[u] = e
            \/ \E q \in Requests : requests[q].engine = e \/ e \in requests[q].saves
-----------------------------------------------------------------------------
(* Asking for an engine *)

Begin(q, u, pc, via) ==
    /\ Where(q, "free")
    /\ Proceed(q, [Free EXCEPT !.pc = pc, !.user = u, !.via = via])
    /\ UNCHANGED <<slots, loading, engines, table, acked, overlapped, evictions>>

\* AuthedEngine reads the persona state: Ready goes on to get_engine, no slot
\* goes on to the mark, without another look at the slot.
AuthedRead(q, u) == Begin(q, u, IF slots[u] # 0 THEN "get" ELSE "claim", "loader")
\* get_engine_strict refuses while the user is loading; get_engine does not ask.
StrictRead(q, u) == u \notin loading /\ Begin(q, u, "get", "get")
GetRead(q, u) == Begin(q, u, "get", "get")

\* AuthedEngine: try_mark_loading; the load runs in a blocking task and the
\* request itself is told to come back.
ClaimLoad(q) ==
    /\ Where(q, "claim")
    /\ IF UserOf(q) \in loading THEN Done(q) ELSE Step(q, "evict")
    /\ loading' = loading \cup {UserOf(q)}
    /\ UNCHANGED <<slots, engines, table, acked, overlapped, evictions>>

GetSlot(q) ==
    /\ Where(q, "get")
    /\ Proceed(q, [requests[q] EXCEPT !.via = "get", !.engine = slots[UserOf(q)],
                                      !.pc = IF slots[UserOf(q)] # 0 THEN "serving" ELSE "mark"])
    /\ UNCHANGED <<slots, loading, engines, table, acked, overlapped, evictions>>
GetMark(q) ==
    /\ Where(q, "mark")
    /\ IF UserOf(q) \in loading THEN Done(q) ELSE Step(q, "recheck")
    /\ loading' = loading \cup {UserOf(q)}
    /\ UNCHANGED <<slots, engines, table, acked, overlapped, evictions>>
\* Another load may have finished before the mark was free.
Recheck(q) ==
    /\ Where(q, "recheck")
    /\ Proceed(q, [requests[q] EXCEPT !.engine = slots[UserOf(q)],
                                      !.pc = IF slots[UserOf(q)] # 0 THEN "clear" ELSE "evict"])
    /\ UNCHANGED <<slots, loading, engines, table, acked, overlapped, evictions>>
-----------------------------------------------------------------------------
(* get_engine_inner *)

\* evict_idle_with takes the idle users' engines out of their slots, or the oldest
\* one when none is idle and the slots are full.
EvictIdle(q, gone) ==
    /\ Where(q, "evict") /\ gone \subseteq Taken
    /\ gone = {} => Cardinality(Taken) < MAX_USERS
    /\ evictions + Cardinality(gone) <= MaxEvictions
    /\ evictions' = evictions + Cardinality(gone)
    /\ slots' = [u \in Users |-> IF u \in gone THEN 0 ELSE slots[u]]
    /\ Proceed(q, [requests[q] EXCEPT !.pc = "save", !.saves = {slots[u] : u \in gone}])
    /\ UNCHANGED <<loading, engines, table, acked, overlapped>>

\* final_save, outside the lock: rows the engine does not know leave the table
\* for the archive.  A save that fails is only logged.
FinalSave(q, e, works) ==
    /\ Where(q, "save") /\ e \in requests[q].saves
    /\ Proceed(q, [requests[q] EXCEPT !.saves = @ \ {e}])
    /\ table' = IF works THEN [table EXCEPT ![engines[e].user] = engines[e].space] ELSE table
    /\ UNCHANGED <<slots, loading, engines, acked, overlapped, evictions>>
EvictDone(q) ==
    /\ Where(q, "save") /\ requests[q].saves = {}
    /\ IF requests[q].via = "sweep" THEN Done(q) ELSE Step(q, "build")
    /\ UNCHANGED <<slots, loading, engines, table, acked, overlapped, evictions>>

BuildEngine(q, space) ==
    LET e == Cardinality(Engines) + 1
        u == UserOf(q)
    IN
    /\ Where(q, "build") /\ e <= MaxEngines
    /\ engines' = [x \in 1..e |-> IF x = e THEN [user |-> u, space |-> space] ELSE engines[x]]
    /\ overlapped' = IF \E x \in Engines : engines[x].user = u /\ Alive(x)
                     THEN overlapped \cup {u} ELSE overlapped
    /\ Proceed(q, [requests[q] EXCEPT !.pc = "install", !.engine = e])
    /\ UNCHANGED <<slots, loading, table, acked, evictions>>

\* Mutant of Build: an incomplete load is served as it is.
BuildIncomplete(q) == BuildEngine(q, {})

\* Engine::build loads the table into memory.
Build(q) == BuildEngine(q, table[UserOf(q)])

\* Mutant of BuildPanics: the panic is not caught and the mark stays.
BuildDies(q) ==
    /\ Where(q, "build") /\ Done(q)
    /\ UNCHANGED <<slots, loading, engines, table, acked, overlapped, evictions>>

\* A load that is not complete panics; both callers catch it and clear the mark.
BuildPanics(q) ==
    /\ Where(q, "build") /\ Step(q, "clear")
    /\ UNCHANGED <<slots, loading, engines, table, acked, overlapped, evictions>>

Install(q) ==
    /\ Where(q, "install") /\ Step(q, "unmark")
    /\ slots' = [slots EXCEPT ![UserOf(q)] = requests[q].engine]
    /\ UNCHANGED <<loading, engines, table, acked, overlapped, evictions>>
Unmark(q) ==
    /\ Where(q, "unmark") /\ Step(q, "clear")
    /\ loading' = loading \ {UserOf(q)}
    /\ UNCHANGED <<slots, engines, table, acked, overlapped, evictions>>

\* The wrapper removes the mark again: get_engine then serves its request, the
\* blocking task of AuthedEngine ends.
ClearLoading(q) ==
    /\ Where(q, "clear")
    /\ loading' = loading \ {UserOf(q)}
    /\ IF requests[q].via = "get" /\ requests[q].engine # 0 THEN Step(q, "serving") ELSE Done(q)
    /\ UNCHANGED <<slots, engines, table, acked, overlapped, evictions>>
-----------------------------------------------------------------------------
(* Using an engine *)

\* A new memory goes into the space, then into the table, then it is answered.
Remember(q) ==
    LET m == Cardinality(Written) + 1 IN
    /\ Where(q, "serving") /\ m <= MaxMemories
    /\ engines' = [engines EXCEPT ![requests[q].engine].space = @ \cup {m}]
    /\ Proceed(q, [requests[q] EXCEPT !.pc = "upsert", !.memory = m])
    /\ UNCHANGED <<slots, loading, table, acked, overlapped, evictions>>
UpsertMemory(q) ==
    /\ Where(q, "upsert") /\ Done(q)
    /\ table' = [table EXCEPT ![UserOf(q)] = @ \cup {requests[q].memory}]
    /\ acked' = acked \cup {[user |-> UserOf(q), id |-> requests[q].memory]}
    /\ UNCHANGED <<slots, loading, engines, overlapped, evictions>>
Respond(q) ==
    /\ Where(q, "serving") /\ Done(q)
    /\ UNCHANGED <<slots, loading, engines, table, acked, overlapped, evictions>>

\* The timer of the process evicts as a load does, at a shorter idle limit when
\* memory is scarce.
Sweep(q, u) == slots[u] # 0 /\ evictions < MaxEvictions /\ Begin(q, u, "evict", "sweep")
-----------------------------------------------------------------------------
SlotsInit ==
    /\ slots = [u \in Users |-> 0] /\ loading = {} /\ engines = [e \in {} |-> Free]
    /\ table = [u \in Users |-> {}] /\ acked = {} /\ overlapped = {} /\ evictions = 0
    /\ requests = [q \in Requests |-> Free]

RequestNext(q) ==
    \/ \E u \in Users : AuthedRead(q, u) \/ StrictRead(q, u) \/ GetRead(q, u) \/ Sweep(q, u)
    \/ ClaimLoad(q) \/ GetSlot(q) \/ GetMark(q) \/ Recheck(q)
    \/ \E gone \in SUBSET Users : EvictIdle(q, gone)
    \/ \E e \in Engines, works \in BOOLEAN : FinalSave(q, e, works)
    \/ EvictDone(q) \/ Build(q) \/ BuildPanics(q) \/ Install(q) \/ Unmark(q) \/ ClearLoading(q)
    \/ Remember(q) \/ UpsertMemory(q) \/ Respond(q)

SlotsNext == \E q \in Requests : RequestNext(q)

SlotsSpec == SlotsInit /\ [][SlotsNext]_slotVars
-----------------------------------------------------------------------------
(* Properties *)

Loading(q) == requests[q].via \in {"loader", "get"}
              /\ requests[q].pc \in {"recheck", "evict", "save", "build", "install", "unmark", "clear"}

SlotsTypeOK ==
    /\ slots \in [Users -> {0} \cup Engines] /\ loading \subseteq Users
    /\ \A u \in Users : slots[u] # 0 => engines[slots[u]].user = u
    /\ \A e \in Engines : engines[e].user \in Users /\ engines[e].space \subseteq 1..MaxMemories
    /\ \A q \in Requests : requests[q].saves \subseteq Engines
    /\ \A w \in acked : w.user \in Users /\ w.id \in 1..MaxMemories

\* A user that is marked as loading has a load under way that will take the mark
\* back, also when the load panics: the mark never keeps a user out until the
\* process restarts.
MarkHasLoader == \A u \in loading : \E q \in Requests : Loading(q) /\ UserOf(q) = u

\* An answered write stays in the table of its user through evictions, final
\* saves, failed saves and reloads, as long as the user never had two engines
\* alive at once: the final save of an engine moves what it does not know to the
\* archive.
WritesKept == \A w \in acked : w.user \notin overlapped => w.id \in table[w.user]

\* The engine of a slot is never replaced by another: it leaves by eviction
\* first ("removes the check-then-act window, the cause of double instances",
\* user_manager.rs).
SlotNeverReplaced == [][\A u \in Users : slots[u] # 0 => slots'[u] \in {0, slots[u]}]_slotVars
=============================================================================
