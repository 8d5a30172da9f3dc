-------------------------- MODULE EngineSlots_proofs --------------------------
(***************************************************************************)
(* What EngineSlots keeps for every number of users, requests, engines and *)
(* memories: its types, that a mark has a loader, and that an answered     *)
(* write stays in its table while its user never has two engines.          *)
(***************************************************************************)
EXTENDS EngineSlots, FiniteSetTheorems, TLAPS

Memories == 1..MaxMemories
Engine == [user : Users, space : SUBSET Memories]
Request == [pc : {"free", "claim", "get", "mark", "recheck", "evict", "save", "build", "install",
                  "unmark", "clear", "serving", "upsert"},
            user : Users, via : {"none", "loader", "get", "sweep"}, engine : {0} \cup Engines,
            saves : SUBSET Engines, memory : Nat]

LoadingPc == {"recheck", "evict", "save", "build", "install", "unmark", "clear"}
LoadsFor(r, u) == r.via \in {"loader", "get"} /\ r.pc \in LoadingPc /\ r.user = u

\* How a request may stand at each of its steps.
RequestOK(r) ==
    /\ r.pc = "claim" => r.via = "loader"
    /\ r.pc \in {"mark", "recheck"} => r.via = "get"
    /\ r.pc \in {"build", "install", "unmark", "clear"} => r.via \in {"loader", "get"}
    /\ r.pc \in {"evict", "save"} => r.via \in {"loader", "get", "sweep"}
    /\ r.pc \in {"install", "serving", "upsert"} => r.engine # 0
    /\ r.engine # 0 => engines[r.engine].user = r.user
    /\ r.pc = "upsert" => r.memory \in engines[r.engine].space

SlotShape ==
    /\ \E n \in Nat : Engines = 1..n
    /\ engines \in [Engines -> Engine]
    /\ table \in [Users -> SUBSET Memories]
    /\ acked \subseteq [user : Users, id : Memories]
    /\ slots \in [Users -> {0} \cup Engines] /\ loading \subseteq Users
    /\ \A u \in Users : slots[u] # 0 => engines[slots[u]].user = u
    /\ requests \in [Requests -> Request]
    /\ \A q \in Requests : RequestOK(requests[q])

\* A user that never had two engines alive has one at most.
OneEngine ==
    \A e, x \in Engines : /\ Alive(e) /\ Alive(x)
                          /\ engines[e].user = engines[x].user /\ engines[e].user \notin overlapped
                          => e = x
\* The table of such a user has the answered writes, and so has a live engine.
Kept ==
    \A w \in acked : w.user \notin overlapped =>
        /\ w.id \in table[w.user]
        /\ \A e \in Engines : Alive(e) /\ engines[e].user = w.user => w.id \in engines[e].space

SlotsIInv == SlotShape /\ MarkHasLoader /\ OneEngine /\ Kept
-----------------------------------------------------------------------------
(* Steps *)

LEMMA FreeRequest ==
    /\ Free \in Request /\ RequestOK(Free) /\ Free.engine = 0 /\ Free.saves = {} /\ Free.pc = "free"
<1>1. (CHOOSE u \in Users : TRUE) \in Users
  BY SlotsAssumption
<1> QED BY <1>1 DEF Free, Request, RequestOK

LEMMA OneProceeds ==
    ASSUME requests \in [Requests -> Request], NEW q \in Requests, NEW r, Proceed(q, r)
    PROVE  /\ requests' = [requests EXCEPT ![q] = r] /\ requests'[q] = r
           /\ \A p \in Requests \ {q} : requests'[p] = requests[p]
BY DEF Proceed

\* The marks after a step of one request: those of before whose loader still
\* loads, and its own.
LEMMA MarksKept ==
    ASSUME MarkHasLoader, requests \in [Requests -> Request], NEW q \in Requests, NEW r, Proceed(q, r),
           \A u \in loading' : \/ LoadsFor(r, u)
                               \/ u \in loading /\ ~LoadsFor(requests[q], u)
    PROVE  MarkHasLoader'
<1>1. requests'[q] = r /\ \A p \in Requests \ {q} : requests'[p] = requests[p]
  BY OneProceeds
<1> SUFFICES ASSUME NEW u \in loading' PROVE \E p \in Requests : LoadsFor(requests'[p], u)
  BY DEF MarkHasLoader, Loading, UserOf, LoadsFor, LoadingPc
<1>2. CASE LoadsFor(r, u)
  BY <1>1, <1>2
<1>3. CASE u \in loading /\ ~LoadsFor(requests[q], u)
  <2>1. PICK p \in Requests : LoadsFor(requests[p], u)
    BY <1>3 DEF MarkHasLoader, Loading, UserOf, LoadsFor, LoadingPc
  <2> QED BY <1>1, <1>3, <2>1
<1> QED BY <1>2, <1>3

\* A step after which no engine is alive that was not before.
LEMMA NoneRevived ==
    ASSUME SlotShape, NEW q \in Requests, NEW r, Proceed(q, r),
           \A e \in Engines : r.engine = e \/ e \in r.saves => Alive(e),
           \A e \in Engines, u \in Users : slots'[u] = e => Alive(e)
    PROVE  \A e \in Engines : Alive(e)' => Alive(e)
<1>1. requests'[q] = r /\ \A p \in Requests \ {q} : requests'[p] = requests[p]
  BY OneProceeds DEF SlotShape
<1> SUFFICES ASSUME NEW e \in Engines, Alive(e)' PROVE Alive(e)
  OBVIOUS
<1> QED BY <1>1 DEF Alive

\* A step of one request that changes no engine, no table and no answer.
LEMMA QuietStep ==
    ASSUME SlotsIInv, NEW q \in Requests, NEW r \in Request, RequestOK(r), Proceed(q, r),
           UNCHANGED <<engines, table, acked, overlapped>>,
           slots' \in [Users -> {0} \cup Engines],
           \A u \in Users : slots'[u] # 0 => engines[slots'[u]].user = u /\ Alive(slots'[u]),
           \A e \in Engines : r.engine = e \/ e \in r.saves => Alive(e),
           loading' \subseteq Users,
           \A u \in loading' : \/ LoadsFor(r, u)
                               \/ u \in loading /\ ~LoadsFor(requests[q], u)
    PROVE  SlotsIInv'
<1>0. requests \in [Requests -> Request] /\ 0 \notin Engines
  BY DEF SlotsIInv, SlotShape
<1>1. requests' = [requests EXCEPT ![q] = r] /\ requests'[q] = r
      /\ \A p \in Requests \ {q} : requests'[p] = requests[p]
  BY <1>0, OneProceeds
<1>2. SlotShape'
  <2>1. requests' \in [Requests -> Request']
    BY <1>0, <1>1 DEF Request, Engines
  <2>2. \A p \in Requests : RequestOK(requests[p])'
    BY <1>1 DEF SlotsIInv, SlotShape, RequestOK
  <2> QED BY <2>1, <2>2 DEF SlotsIInv, SlotShape, Engines
<1>3. MarkHasLoader'
  BY <1>0, MarksKept DEF SlotsIInv
<1>4. \A e \in Engines : Alive(e)' => Alive(e)
  BY <1>0, NoneRevived DEF SlotsIInv
<1>5. OneEngine' /\ Kept'
  BY <1>4 DEF SlotsIInv, OneEngine, Kept, Engines
<1> QED BY <1>2, <1>3, <1>5 DEF SlotsIInv

\* The engine and the saves of a request, and the engines of the slots, are alive.
LEMMA HeldLocks ==
    ASSUME SlotsIInv, NEW q \in Requests
    PROVE  /\ requests[q] \in Request /\ RequestOK(requests[q]) /\ UserOf(q) \in Users
           /\ requests[q].engine # 0 => requests[q].engine \in Engines /\ Alive(requests[q].engine)
           /\ \A e \in requests[q].saves : e \in Engines /\ Alive(e)
           /\ \A u \in Users : slots[u] # 0 => /\ slots[u] \in Engines /\ Alive(slots[u])
                                               /\ engines[slots[u]].user = u
           /\ slots \in [Users -> {0} \cup Engines] /\ 0 \notin Engines /\ loading \subseteq Users
<1>1. requests[q] \in Request /\ RequestOK(requests[q])
  BY DEF SlotsIInv, SlotShape
<1>2. slots \in [Users -> {0} \cup Engines] /\ 0 \notin Engines /\ loading \subseteq Users
  BY DEF SlotsIInv, SlotShape
<1> QED BY <1>1, <1>2 DEF SlotsIInv, SlotShape, Request, UserOf, Alive
-----------------------------------------------------------------------------
(* Asking for an engine *)

LEMMA BeginInv ==
    ASSUME SlotsIInv, NEW q \in Requests, NEW u \in Users,
           AuthedRead(q, u) \/ StrictRead(q, u) \/ GetRead(q, u) \/ Sweep(q, u)
    PROVE  SlotsIInv'
<1>1. \E pc \in {"get", "claim", "evict"}, via \in {"loader", "get", "sweep"} :
         /\ Begin(q, u, pc, via) /\ (pc = "claim" => via = "loader") /\ (pc = "evict" => via = "sweep")
  BY DEF AuthedRead, StrictRead, GetRead, Sweep
<1>2. PICK pc \in {"get", "claim", "evict"}, via \in {"loader", "get", "sweep"} :
         /\ Begin(q, u, pc, via) /\ (pc = "claim" => via = "loader") /\ (pc = "evict" => via = "sweep")
  BY <1>1
<1> DEFINE r == [Free EXCEPT !.pc = pc, !.user = u, !.via = via]
<1>3. /\ Proceed(q, r) /\ UNCHANGED <<slots, loading, engines, table, acked, overlapped>>
      /\ requests[q].pc = "free"
  BY <1>2 DEF Begin, Where
<1>4. r \in Request /\ r.pc = pc /\ r.via = via /\ r.engine = 0 /\ r.saves = {} /\ r.user = u
  BY FreeRequest DEF Request
<1>5. RequestOK(r)
  BY <1>2, <1>4 DEF RequestOK
<1>6. \A x \in loading : ~LoadsFor(requests[q], x)
  BY <1>3 DEF LoadsFor, LoadingPc
<1> HIDE DEF r
<1> QED BY <1>3, <1>4, <1>5, <1>6, HeldLocks, QuietStep

LEMMA MarkInv ==
    ASSUME SlotsIInv, NEW q \in Requests, ClaimLoad(q) \/ GetMark(q)
    PROVE  SlotsIInv'
<1> DEFINE next(pc) == [requests[q] EXCEPT !.pc = pc]
<1>1. requests[q] \in Request /\ RequestOK(requests[q]) /\ UserOf(q) \in Users /\ UserOf(q) = requests[q].user
  BY HeldLocks DEF UserOf
<1>2. PICK pc \in {"evict", "recheck"} :
         /\ IF UserOf(q) \in loading THEN Done(q) ELSE Proceed(q, next(pc))
         /\ requests[q].pc \in {"claim", "mark"} /\ loading' = loading \cup {UserOf(q)}
         /\ UNCHANGED <<slots, engines, table, acked, overlapped>>
         /\ pc = "recheck" => requests[q].pc = "mark"
  BY DEF ClaimLoad, GetMark, Step, Where
<1>3. next(pc) \in Request /\ next(pc).pc = pc /\ next(pc).via = requests[q].via
      /\ next(pc).engine = requests[q].engine /\ next(pc).saves = requests[q].saves
      /\ next(pc).user = requests[q].user
  BY <1>1 DEF Request
<1>4. RequestOK(next(pc)) /\ LoadsFor(next(pc), UserOf(q))
  BY <1>1, <1>2, <1>3 DEF RequestOK, LoadsFor, LoadingPc
<1>5. \A x \in Users : ~LoadsFor(requests[q], x)
  BY <1>2 DEF LoadsFor, LoadingPc
<1> HIDE DEF next
<1>6. CASE UserOf(q) \in loading
  <2>1. Proceed(q, Free) /\ loading' = loading
    BY <1>2, <1>6 DEF Done
  <2> QED BY <1>2, <1>5, <2>1, HeldLocks, FreeRequest, QuietStep
<1>7. CASE UserOf(q) \notin loading
  BY <1>1, <1>2, <1>3, <1>4, <1>5, <1>7, HeldLocks, QuietStep
<1> QED BY <1>6, <1>7

LEMMA LookInv ==
    ASSUME SlotsIInv, NEW q \in Requests, GetSlot(q) \/ Recheck(q)
    PROVE  SlotsIInv'
<1> DEFINE e == slots[UserOf(q)]
<1>1. /\ requests[q] \in Request /\ RequestOK(requests[q]) /\ UserOf(q) \in Users
      /\ UserOf(q) = requests[q].user /\ e \in {0} \cup Engines
      /\ e # 0 => engines[e].user = UserOf(q) /\ Alive(e)
  BY HeldLocks DEF UserOf
<1>2. UNCHANGED <<slots, loading, engines, table, acked, overlapped>>
  BY DEF GetSlot, Recheck
<1>3. CASE GetSlot(q)
  <2> DEFINE pc == IF e # 0 THEN "serving" ELSE "mark"
             r == [requests[q] EXCEPT !.via = "get", !.engine = e, !.pc = pc]
  <2>1. Proceed(q, r) /\ requests[q].pc = "get"
    BY <1>3 DEF GetSlot, Where
  <2>2. r \in Request /\ r.pc = pc /\ r.via = "get" /\ r.engine = e /\ r.user = UserOf(q)
        /\ r.saves = requests[q].saves
    BY <1>1 DEF Request
  <2>3. RequestOK(r) /\ \A x \in Users : ~LoadsFor(requests[q], x)
    BY <1>1, <2>1, <2>2 DEF RequestOK, LoadsFor, LoadingPc
  <2> HIDE DEF r, pc
  <2> QED BY <1>1, <1>2, <2>1, <2>2, <2>3, HeldLocks, QuietStep
<1>4. CASE Recheck(q)
  <2> DEFINE pc == IF e # 0 THEN "clear" ELSE "evict"
             r == [requests[q] EXCEPT !.engine = e, !.pc = pc]
  <2>1. Proceed(q, r) /\ requests[q].pc = "recheck"
    BY <1>4 DEF Recheck, Where
  <2>2. r \in Request /\ r.pc = pc /\ r.via = requests[q].via /\ r.engine = e /\ r.user = UserOf(q)
        /\ r.saves = requests[q].saves
    BY <1>1 DEF Request
  <2>3. RequestOK(r) /\ LoadsFor(r, UserOf(q)) /\ \A x \in Users \ {UserOf(q)} : ~LoadsFor(requests[q], x)
    BY <1>1, <2>1, <2>2 DEF RequestOK, LoadsFor, LoadingPc
  <2> HIDE DEF r, pc
  <2> QED BY <1>1, <1>2, <2>1, <2>2, <2>3, HeldLocks, QuietStep
<1> QED BY <1>3, <1>4
-----------------------------------------------------------------------------
(* Loading and evicting *)

LEMMA EvictIdleInv ==
    ASSUME SlotsIInv, NEW q \in Requests, NEW gone \in SUBSET Users, EvictIdle(q, gone)
    PROVE  SlotsIInv'
<1> DEFINE out == {slots[u] : u \in gone}
           r == [requests[q] EXCEPT !.pc = "save", !.saves = out]
<1>1. requests[q] \in Request /\ RequestOK(requests[q])
  BY HeldLocks
<1>2. /\ Proceed(q, r) /\ requests[q].pc = "evict" /\ gone \subseteq Taken
      /\ slots' = [u \in Users |-> IF u \in gone THEN 0 ELSE slots[u]]
      /\ UNCHANGED <<loading, engines, table, acked, overlapped>>
  BY DEF EvictIdle, Where
<1>3. \A e \in out : e \in Engines /\ Alive(e)
  BY <1>2, HeldLocks DEF Taken
<1>4. r \in Request /\ r.pc = "save" /\ r.via = requests[q].via /\ r.saves = out
      /\ r.engine = requests[q].engine /\ r.user = requests[q].user
  BY <1>1, <1>3 DEF Request
<1>5. RequestOK(r) /\ \A u \in Users : LoadsFor(requests[q], u) => LoadsFor(r, u)
  BY <1>1, <1>2, <1>4 DEF RequestOK, LoadsFor, LoadingPc
<1>6. slots' \in [Users -> {0} \cup Engines]
      /\ \A u \in Users : slots'[u] # 0 => engines[slots'[u]].user = u /\ Alive(slots'[u])
  BY <1>2, HeldLocks
<1> HIDE DEF r, out
<1>7. \A u \in loading' : LoadsFor(r, u) \/ (u \in loading /\ ~LoadsFor(requests[q], u))
  BY <1>2, <1>5, HeldLocks
<1>8. \A e \in Engines : r.engine = e \/ e \in r.saves => Alive(e)
  BY <1>3, <1>4, HeldLocks
<1> QED BY <1>2, <1>4, <1>5, <1>6, <1>7, <1>8, HeldLocks, QuietStep

LEMMA MovesOnInv ==
    ASSUME SlotsIInv, NEW q \in Requests,
           EvictDone(q) \/ BuildPanics(q) \/ Install(q) \/ Unmark(q) \/ ClearLoading(q) \/ Respond(q)
    PROVE  SlotsIInv'
<1> DEFINE next(pc) == [requests[q] EXCEPT !.pc = pc]
<1>1. requests[q] \in Request /\ RequestOK(requests[q]) /\ UserOf(q) \in Users /\ UserOf(q) = requests[q].user
  BY HeldLocks DEF UserOf
<1>2. ASSUME NEW pc \in {"build", "clear", "unmark", "serving"}
      PROVE  /\ next(pc) \in Request /\ next(pc).pc = pc /\ next(pc).via = requests[q].via
             /\ next(pc).engine = requests[q].engine /\ next(pc).saves = requests[q].saves
             /\ next(pc).user = requests[q].user
             /\ \A e \in Engines : next(pc).engine = e \/ e \in next(pc).saves => Alive(e)
  BY <1>1, HeldLocks DEF Request
<1>3. \A x \in Users \ {UserOf(q)} : ~LoadsFor(requests[q], x)
  BY <1>1 DEF LoadsFor
<1>4. UNCHANGED <<engines, table, acked, overlapped>>
  BY DEF EvictDone, BuildPanics, Install, Unmark, ClearLoading, Respond
<1> HIDE DEF next
<1>5. CASE EvictDone(q)
  <2>1. requests[q].pc = "save" /\ UNCHANGED <<slots, loading>>
    BY <1>5 DEF EvictDone, Where
  <2>2. CASE requests[q].via = "sweep"
    <3>1. Proceed(q, Free) /\ \A x \in Users : ~LoadsFor(requests[q], x)
      BY <1>5, <2>2 DEF EvictDone, Done, LoadsFor
    <3> QED BY <1>4, <2>1, <3>1, HeldLocks, FreeRequest, QuietStep
  <2>3. CASE requests[q].via # "sweep"
    <3>1. Proceed(q, next("build"))
      BY <1>5, <2>3 DEF EvictDone, Step, next
    <3>2. RequestOK(next("build")) /\ LoadsFor(next("build"), UserOf(q))
      BY <1>1, <1>2, <2>1, <2>3 DEF RequestOK, LoadsFor, LoadingPc
    <3> QED BY <1>2, <1>3, <1>4, <2>1, <3>1, <3>2, HeldLocks, QuietStep
  <2> QED BY <2>2, <2>3
<1>6. CASE BuildPanics(q) \/ Unmark(q)
  <2>1. /\ Proceed(q, next("clear")) /\ requests[q].pc \in {"build", "unmark"}
        /\ slots' = slots /\ loading' \subseteq loading
    BY <1>6 DEF BuildPanics, Unmark, Step, Where, next
  <2>2. RequestOK(next("clear")) /\ LoadsFor(next("clear"), UserOf(q))
    BY <1>1, <1>2, <2>1 DEF RequestOK, LoadsFor, LoadingPc
  <2> QED BY <1>2, <1>3, <1>4, <2>1, <2>2, HeldLocks, QuietStep
<1>7. CASE Install(q)
  <2>1. /\ Proceed(q, next("unmark")) /\ requests[q].pc = "install"
        /\ slots' = [slots EXCEPT ![UserOf(q)] = requests[q].engine] /\ loading' = loading
    BY <1>7 DEF Install, Step, Where, next
  <2>2. RequestOK(next("unmark")) /\ LoadsFor(next("unmark"), UserOf(q))
    BY <1>1, <1>2, <2>1 DEF RequestOK, LoadsFor, LoadingPc
  <2>3. /\ requests[q].engine \in Engines /\ Alive(requests[q].engine)
        /\ engines[requests[q].engine].user = UserOf(q)
    BY <1>1, <2>1, HeldLocks DEF RequestOK
  <2>4. slots' \in [Users -> {0} \cup Engines]
        /\ \A u \in Users : slots'[u] # 0 => engines[slots'[u]].user = u /\ Alive(slots'[u])
    BY <1>1, <2>1, <2>3, HeldLocks
  <2> QED BY <1>2, <1>3, <1>4, <2>1, <2>2, <2>4, HeldLocks, QuietStep
<1>8. CASE ClearLoading(q)
  <2>1. requests[q].pc = "clear" /\ slots' = slots /\ loading' = loading \ {UserOf(q)}
    BY <1>8 DEF ClearLoading, Where
  <2>2. CASE requests[q].via = "get" /\ requests[q].engine # 0
    <3>1. Proceed(q, next("serving"))
      BY <1>8, <2>2 DEF ClearLoading, Step, next
    <3>2. RequestOK(next("serving"))
      BY <1>1, <1>2, <2>1, <2>2 DEF RequestOK
    <3> QED BY <1>2, <1>3, <1>4, <2>1, <3>1, <3>2, HeldLocks, QuietStep
  <2>3. CASE ~(requests[q].via = "get" /\ requests[q].engine # 0)
    <3>1. Proceed(q, Free)
      BY <1>8, <2>3 DEF ClearLoading, Done
    <3> QED BY <1>3, <1>4, <2>1, <3>1, HeldLocks, FreeRequest, QuietStep
  <2> QED BY <2>2, <2>3
<1>9. CASE Respond(q)
  <2>1. Proceed(q, Free) /\ UNCHANGED <<slots, loading>> /\ \A x \in Users : ~LoadsFor(requests[q], x)
    BY <1>9 DEF Respond, Done, Where, LoadsFor, LoadingPc
  <2> QED BY <1>4, <2>1, HeldLocks, FreeRequest, QuietStep
<1> QED BY <1>5, <1>6, <1>7, <1>8, <1>9
-----------------------------------------------------------------------------
(* The steps that write: what a user keeps *)

\* The final save writes what a live engine knows, and that has the answered
\* writes of its user.
LEMMA FinalSaveInv ==
    ASSUME SlotsIInv, NEW q \in Requests, NEW e \in Engines, NEW works \in BOOLEAN,
           FinalSave(q, e, works)
    PROVE  SlotsIInv'
<1> DEFINE r == [requests[q] EXCEPT !.saves = @ \ {e}]
           u == engines[e].user
<1>1. /\ requests[q] \in Request /\ RequestOK(requests[q]) /\ Alive(e)
      /\ u \in Users /\ engines[e].space \subseteq Memories
  BY HeldLocks DEF FinalSave, SlotsIInv, SlotShape, Engine
<1>2. /\ Proceed(q, r) /\ UNCHANGED <<slots, loading, engines, acked, overlapped>>
      /\ table' = IF works THEN [table EXCEPT ![u] = engines[e].space] ELSE table
  BY DEF FinalSave
<1>3. r \in Request /\ r.pc = requests[q].pc /\ r.via = requests[q].via /\ r.user = requests[q].user
      /\ r.engine = requests[q].engine /\ r.saves \subseteq requests[q].saves
      /\ r.memory = requests[q].memory
  BY <1>1 DEF Request
<1>4. RequestOK(r) /\ \A x \in Users : LoadsFor(requests[q], x) => LoadsFor(r, x)
  BY <1>1, <1>3 DEF RequestOK, LoadsFor
<1>5. requests \in [Requests -> Request]
  BY DEF SlotsIInv, SlotShape
<1> HIDE DEF r
<1>6. requests' = [requests EXCEPT ![q] = r] /\ \A p \in Requests \ {q} : requests'[p] = requests[p]
      /\ requests'[q] = r
  BY <1>2, <1>5, OneProceeds
<1>7. table' \in [Users -> SUBSET Memories]
  BY <1>1, <1>2 DEF SlotsIInv, SlotShape
<1>8. SlotShape'
  <2>1. requests' \in [Requests -> Request']
    BY <1>2, <1>3, <1>5, <1>6 DEF Request, Engines
  <2>2. \A p \in Requests : RequestOK(requests[p])'
    BY <1>2, <1>4, <1>6 DEF SlotsIInv, SlotShape, RequestOK
  <2> QED BY <1>2, <1>7, <2>1, <2>2 DEF SlotsIInv, SlotShape, Engines
<1>9. MarkHasLoader'
  BY <1>2, <1>4, <1>5, HeldLocks, MarksKept DEF SlotsIInv
<1>10. \A x \in Engines : Alive(x)' => Alive(x)
  BY <1>2, <1>3, HeldLocks, NoneRevived DEF SlotsIInv
<1>11. OneEngine'
  BY <1>2, <1>10 DEF SlotsIInv, OneEngine, Engines
<1>12. Kept'
  <2> SUFFICES ASSUME NEW w \in acked, w.user \notin overlapped
               PROVE  /\ w.id \in table'[w.user]
                      /\ \A x \in Engines : Alive(x)' /\ engines[x].user = w.user
                                               => w.id \in engines[x].space
    BY <1>2 DEF Kept, Engines
  <2>1. /\ w.user \in Users /\ w.id \in table[w.user]
        /\ \A x \in Engines : Alive(x) /\ engines[x].user = w.user => w.id \in engines[x].space
    BY DEF SlotsIInv, SlotShape, Kept
  <2>2. w.id \in table'[w.user]
    BY <1>1, <1>2, <2>1 DEF SlotsIInv, SlotShape
  <2> QED BY <1>10, <2>1, <2>2
<1> QED BY <1>8, <1>9, <1>11, <1>12 DEF SlotsIInv

\* A new engine is the only live one of its user, or the user has had two.
LEMMA BuildInv == ASSUME SlotsIInv, NEW q \in Requests, Build(q) PROVE SlotsIInv'
<1> DEFINE e == Cardinality(Engines) + 1
           u == UserOf(q)
           r == [requests[q] EXCEPT !.pc = "install", !.engine = e]
<1>1. /\ requests[q] \in Request /\ RequestOK(requests[q]) /\ u \in Users /\ u = requests[q].user
      /\ requests \in [Requests -> Request] /\ table[u] \subseteq Memories
  BY HeldLocks DEF SlotsIInv, SlotShape, UserOf
<1>2. /\ Proceed(q, r) /\ requests[q].pc = "build"
      /\ engines' = [x \in 1..e |-> IF x = e THEN [user |-> u, space |-> table[u]] ELSE engines[x]]
      /\ overlapped' = IF \E x \in Engines : engines[x].user = u /\ Alive(x)
                       THEN overlapped \cup {u} ELSE overlapped
      /\ UNCHANGED <<slots, loading, table, acked>>
  BY DEF Build, BuildEngine, Where
<1>3. PICK n \in Nat : Engines = 1..n
  BY DEF SlotsIInv, SlotShape
<1>4. e = n + 1
  <2>1. Cardinality(1..n) = n
    BY FS_Interval
  <2> QED BY <1>3, <2>1
<1>5. Engines' = Engines \cup {e} /\ e \notin Engines /\ e # 0 /\ 0 \notin Engines /\ Engines' = 1..e
      /\ e \in Nat
  BY <1>2, <1>3, <1>4 DEF Engines
<1>6. /\ engines'[e] = [user |-> u, space |-> table[u]]
      /\ \A x \in Engines : engines'[x] = engines[x] /\ x # e
  BY <1>2, <1>3, <1>4, <1>5
<1>7. engines' \in [Engines' -> Engine]
  <2>1. \A x \in Engines' : engines'[x] \in Engine
    BY <1>1, <1>5, <1>6 DEF Engine, SlotsIInv, SlotShape
  <2> QED BY <1>2, <1>5, <2>1
<1>8. requests[q] \in Request' /\ \A p \in Requests : requests[p] \in Request'
  BY <1>1, <1>5 DEF Request
<1>9. r \in Request' /\ r.pc = "install" /\ r.engine = e /\ r.user = u /\ r.via = requests[q].via
      /\ r.saves = requests[q].saves
  BY <1>1, <1>5, <1>8 DEF Request
<1> HIDE DEF r, e
<1>10. requests' = [requests EXCEPT ![q] = r] /\ \A p \in Requests \ {q} : requests'[p] = requests[p]
       /\ requests'[q] = r
  BY <1>1, <1>2, OneProceeds
<1>11. LoadsFor(r, u) /\ \A x \in Users \ {u} : ~LoadsFor(requests[q], x)
  BY <1>1, <1>2, <1>9 DEF RequestOK, LoadsFor, LoadingPc
<1>12. SlotShape'
  <2>1. requests' \in [Requests -> Request']
    BY <1>1, <1>8, <1>9, <1>10
  <2>2. ASSUME NEW p \in Requests \ {q} PROVE RequestOK(requests[p])'
    <3>1. RequestOK(requests[p]) /\ requests[p] \in Request
      BY DEF SlotsIInv, SlotShape
    <3>2. requests[p].engine # 0 => engines'[requests[p].engine] = engines[requests[p].engine]
      BY <1>6, <3>1 DEF Request
    <3> QED BY <1>10, <3>1, <3>2 DEF RequestOK
  <2>3. RequestOK(requests[q])'
    BY <1>1, <1>2, <1>5, <1>6, <1>9, <1>10 DEF RequestOK
  <2>4. \A p \in Requests : RequestOK(requests[p])'
    BY <2>2, <2>3
  <2>5. /\ slots' \in [Users -> {0} \cup Engines']
        /\ \A x \in Users : slots'[x] # 0 => engines'[slots'[x]].user = x
    BY <1>2, <1>5, <1>6, HeldLocks
  <2>6. (\E k \in Nat : Engines = 1..k)'
    BY <1>5
  <2> QED BY <1>2, <1>7, <2>1, <2>4, <2>5, <2>6 DEF SlotsIInv, SlotShape
<1>13. MarkHasLoader'
  <2>1. \A x \in loading' : LoadsFor(r, x) \/ (x \in loading /\ ~LoadsFor(requests[q], x))
    BY <1>2, <1>11, HeldLocks
  <2> QED BY <1>1, <1>2, <2>1, MarksKept DEF SlotsIInv
<1>14. \A x \in Engines : Alive(x)' => Alive(x)
  BY <1>2, <1>6, <1>9, <1>10 DEF Alive
<1>15. ASSUME u \notin overlapped', NEW x \in Engines PROVE ~(Alive(x) /\ engines[x].user = u)
  BY <1>2, <1>15
<1>16. overlapped \subseteq overlapped'
  BY <1>2
<1>17. OneEngine'
  <2> SUFFICES ASSUME NEW x \in Engines', NEW y \in Engines', Alive(x)', Alive(y)',
                      engines'[x].user = engines'[y].user, engines'[x].user \notin overlapped'
               PROVE  x = y
    BY DEF OneEngine
  <2>1. CASE x \in Engines /\ y \in Engines
    BY <1>6, <1>14, <1>16, <2>1 DEF SlotsIInv, OneEngine
  <2>2. CASE x = e \/ y = e
    BY <1>5, <1>6, <1>14, <1>15, <2>2
  <2> QED BY <1>5, <2>1, <2>2
<1>18. Kept'
  <2> SUFFICES ASSUME NEW w \in acked, w.user \notin overlapped'
               PROVE  /\ w.id \in table[w.user]
                      /\ \A x \in Engines' : Alive(x)' /\ engines'[x].user = w.user
                                                => w.id \in engines'[x].space
    BY <1>2 DEF Kept
  <2>1. /\ w.id \in table[w.user]
        /\ \A x \in Engines : Alive(x) /\ engines[x].user = w.user => w.id \in engines[x].space
    BY <1>16 DEF SlotsIInv, Kept
  <2>2. \A x \in Engines : Alive(x)' /\ engines'[x].user = w.user => w.id \in engines'[x].space
    BY <1>6, <1>14, <2>1
  <2>3. engines'[e].user = w.user => w.id \in engines'[e].space
    BY <1>6, <2>1
  <2> QED BY <1>5, <2>1, <2>2, <2>3
<1> QED BY <1>12, <1>13, <1>17, <1>18 DEF SlotsIInv

\* A new memory has an id that no engine knows.
LEMMA RememberInv == ASSUME SlotsIInv, NEW q \in Requests, Remember(q) PROVE SlotsIInv'
<1> DEFINE m == Cardinality(Written) + 1
           g == requests[q].engine
           r == [requests[q] EXCEPT !.pc = "upsert", !.memory = m]
<1>1. /\ requests[q] \in Request /\ RequestOK(requests[q]) /\ requests \in [Requests -> Request]
      /\ engines \in [Engines -> Engine]
  BY HeldLocks DEF SlotsIInv, SlotShape
<1>2. /\ Proceed(q, r) /\ requests[q].pc = "serving" /\ m <= MaxMemories
      /\ engines' = [engines EXCEPT ![g].space = @ \cup {m}]
      /\ UNCHANGED <<slots, loading, table, acked, overlapped>>
  BY DEF Remember, Where
<1>3. m \in Memories
  <2>1. Written \subseteq Memories
    BY <1>1 DEF Written, Engine
  <2>2. IsFiniteSet(Memories)
    BY SlotsAssumption, FS_Interval DEF Memories
  <2>3. Cardinality(Written) \in Nat
    BY <2>1, <2>2, FS_Subset, FS_CardinalityType
  <2> QED BY <1>2, <2>3, SlotsAssumption DEF Memories
<1>4. g \in Engines /\ g # 0 /\ engines[g] \in Engine
  BY <1>1, <1>2, HeldLocks DEF RequestOK
<1> HIDE DEF m
<1>5. /\ Engines' = Engines /\ engines' \in [Engines -> Engine]
      /\ \A x \in Engines : engines'[x].user = engines[x].user /\ engines[x].space \subseteq engines'[x].space
      /\ m \in engines'[g].space
  <2>1. [engines[g] EXCEPT !.space = @ \cup {m}] \in Engine
    BY <1>3, <1>4 DEF Engine
  <2>2. engines' = [engines EXCEPT ![g] = [engines[g] EXCEPT !.space = @ \cup {m}]]
    BY <1>2
  <2>3. /\ [engines[g] EXCEPT !.space = @ \cup {m}].user = engines[g].user
        /\ [engines[g] EXCEPT !.space = @ \cup {m}].space = engines[g].space \cup {m}
    BY <1>4 DEF Engine
  <2> QED BY <1>1, <1>4, <2>1, <2>2, <2>3 DEF Engines
<1>6. r \in Request /\ r.pc = "upsert" /\ r.memory = m /\ r.engine = g /\ r.via = requests[q].via
      /\ r.saves = requests[q].saves /\ r.user = requests[q].user
  <2>1. m \in Nat
    BY <1>3, SlotsAssumption DEF Memories
  <2> QED BY <1>1, <2>1 DEF Request
<1> HIDE DEF r
<1>7. requests' = [requests EXCEPT ![q] = r] /\ \A p \in Requests \ {q} : requests'[p] = requests[p]
      /\ requests'[q] = r
  BY <1>1, <1>2, OneProceeds
<1>8. SlotShape'
  <2>1. requests' \in [Requests -> Request']
    BY <1>1, <1>5, <1>6, <1>7 DEF Request
  <2>2. ASSUME NEW p \in Requests \ {q} PROVE RequestOK(requests[p])'
    <3>1. RequestOK(requests[p]) /\ requests[p] \in Request
      BY DEF SlotsIInv, SlotShape
    <3>2. requests[p].engine # 0 => requests[p].engine \in Engines
      BY <3>1 DEF Request
    <3> QED BY <1>5, <1>7, <3>1, <3>2 DEF RequestOK
  <2>3. RequestOK(requests[q])'
    BY <1>1, <1>4, <1>5, <1>6, <1>7 DEF RequestOK
  <2>4. \A p \in Requests : RequestOK(requests[p])'
    BY <2>2, <2>3
  <2>5. \A x \in Users : slots[x] # 0 => engines'[slots[x]].user = x
    BY <1>5, HeldLocks
  <2>6. (\E k \in Nat : Engines = 1..k)'
    BY <1>5 DEF SlotsIInv, SlotShape
  <2> QED BY <1>2, <1>5, <2>1, <2>4, <2>5, <2>6 DEF SlotsIInv, SlotShape
<1>9. MarkHasLoader'
  <2>1. \A x \in Users : ~LoadsFor(requests[q], x)
    BY <1>2 DEF LoadsFor, LoadingPc
  <2> QED BY <1>1, <1>2, <2>1, HeldLocks, MarksKept DEF SlotsIInv
<1>10. \A x \in Engines : Alive(x)' => Alive(x)
  BY <1>2, <1>6, <1>7 DEF Alive
<1>11. OneEngine'
  BY <1>2, <1>5, <1>10 DEF SlotsIInv, OneEngine
<1>12. Kept'
  BY <1>2, <1>5, <1>10 DEF SlotsIInv, Kept
<1> QED BY <1>8, <1>9, <1>11, <1>12 DEF SlotsIInv

\* What is answered is in the table, and in the one live engine of its user.
LEMMA UpsertMemoryInv == ASSUME SlotsIInv, NEW q \in Requests, UpsertMemory(q) PROVE SlotsIInv'
<1> DEFINE g == requests[q].engine
           u == UserOf(q)
           new == [user |-> u, id |-> requests[q].memory]
<1>1. /\ requests[q] \in Request /\ RequestOK(requests[q]) /\ requests \in [Requests -> Request]
      /\ u \in Users /\ u = requests[q].user /\ engines \in [Engines -> Engine]
      /\ table \in [Users -> SUBSET Memories]
  BY HeldLocks DEF SlotsIInv, SlotShape, UserOf
<1>2. /\ Proceed(q, Free) /\ requests[q].pc = "upsert"
      /\ table' = [table EXCEPT ![u] = @ \cup {requests[q].memory}] /\ acked' = acked \cup {new}
      /\ UNCHANGED <<slots, loading, engines, overlapped>>
  BY DEF UpsertMemory, Done, Where
<1>3. /\ g \in Engines /\ Alive(g) /\ engines[g].user = u
      /\ requests[q].memory \in engines[g].space /\ requests[q].memory \in Memories
  <2>1. g \in Engines /\ Alive(g) /\ engines[g].user = u /\ requests[q].memory \in engines[g].space
    BY <1>1, <1>2, HeldLocks DEF RequestOK
  <2> QED BY <1>1, <2>1 DEF Engine
<1>4. requests' = [requests EXCEPT ![q] = Free] /\ \A p \in Requests \ {q} : requests'[p] = requests[p]
      /\ requests'[q] = Free
  BY <1>1, <1>2, OneProceeds
<1>5. /\ table' \in [Users -> SUBSET Memories] /\ \A x \in Users : table[x] \subseteq table'[x]
      /\ requests[q].memory \in table'[u]
  BY <1>1, <1>2, <1>3
<1>6. SlotShape'
  <2>1. requests' \in [Requests -> Request']
    BY <1>1, <1>2, <1>4, FreeRequest DEF Request, Engines
  <2>2. \A p \in Requests : RequestOK(requests[p])'
    BY <1>2, <1>4, FreeRequest DEF SlotsIInv, SlotShape, RequestOK
  <2>3. acked' \subseteq [user : Users, id : Memories]
    BY <1>1, <1>2, <1>3 DEF SlotsIInv, SlotShape
  <2> QED BY <1>2, <1>5, <2>1, <2>2, <2>3 DEF SlotsIInv, SlotShape, Engines
<1>7. MarkHasLoader'
  <2>1. \A x \in Users : ~LoadsFor(requests[q], x)
    BY <1>2 DEF LoadsFor, LoadingPc
  <2> QED BY <1>1, <1>2, <2>1, HeldLocks, MarksKept DEF SlotsIInv
<1>8. \A x \in Engines : Alive(x)' => Alive(x)
  BY <1>2, FreeRequest, HeldLocks, NoneRevived DEF SlotsIInv
<1>9. OneEngine'
  BY <1>2, <1>8 DEF SlotsIInv, OneEngine, Engines
<1>10. Kept'
  <2> SUFFICES ASSUME NEW w \in acked', w.user \notin overlapped
               PROVE  /\ w.id \in table'[w.user]
                      /\ \A x \in Engines : Alive(x)' /\ engines[x].user = w.user
                                               => w.id \in engines[x].space
    BY <1>2 DEF Kept, Engines
  <2>1. CASE w \in acked
    <3>1. w.user \in Users
      BY <2>1 DEF SlotsIInv, SlotShape
    <3> QED BY <1>5, <1>8, <2>1, <3>1 DEF SlotsIInv, Kept
  <2>2. CASE w = new
    <3>1. w.user = u /\ w.id = requests[q].memory
      BY <2>2
    <3>2. \A x \in Engines : Alive(x) /\ engines[x].user = u => x = g
      BY <1>3, <3>1 DEF SlotsIInv, OneEngine
    <3> QED BY <1>3, <1>5, <1>8, <3>1, <3>2
  <2> QED BY <1>2, <2>1, <2>2
<1> QED BY <1>6, <1>7, <1>9, <1>10 DEF SlotsIInv
-----------------------------------------------------------------------------
(* The theorems *)

LEMMA SlotsInitInv == SlotsInit => SlotsIInv
<1> SUFFICES ASSUME SlotsInit PROVE SlotsIInv
  OBVIOUS
<1>1. Engines = {} /\ Engines = 1..0
  BY DEF SlotsInit, Engines
<1>2. SlotShape
  BY <1>1, FreeRequest DEF SlotsInit, SlotShape
<1>3. MarkHasLoader /\ OneEngine /\ Kept
  BY <1>1 DEF SlotsInit, MarkHasLoader, OneEngine, Kept
<1> QED BY <1>2, <1>3 DEF SlotsIInv

LEMMA SlotsStepInv == SlotsIInv /\ [SlotsNext]_slotVars => SlotsIInv'
<1> SUFFICES ASSUME SlotsIInv, [SlotsNext]_slotVars PROVE SlotsIInv'
  OBVIOUS
<1>1. ASSUME NEW q \in Requests, RequestNext(q) PROVE SlotsIInv'
  BY <1>1, BeginInv, MarkInv, LookInv, EvictIdleInv, MovesOnInv, FinalSaveInv, BuildInv,
     RememberInv, UpsertMemoryInv DEF RequestNext
<1>2. CASE UNCHANGED slotVars
  BY <1>2 DEF slotVars, SlotsIInv, SlotShape, MarkHasLoader, Loading, UserOf, OneEngine, Kept, Alive,
              Engines, Request, RequestOK
<1> QED BY <1>1, <1>2 DEF SlotsNext

LEMMA SlotsAlways == SlotsSpec => []SlotsIInv
BY SlotsInitInv, SlotsStepInv, PTL DEF SlotsSpec

\* Slots, saves and answers only name engines and memories that are there, and the
\* engine in a slot is its user's.
THEOREM SlotsTypeCorrect == SlotsSpec => []SlotsTypeOK
<1>1. SlotsIInv => SlotsTypeOK
  BY DEF SlotsIInv, SlotShape, SlotsTypeOK, Request, Engine, Memories
<1> QED BY <1>1, SlotsAlways, PTL

\* No interleaving of loads, panics and evictions leaves a mark without a load
\* that takes it back.
THEOREM MarksHaveLoaders == SlotsSpec => []MarkHasLoader
<1>1. SlotsIInv => MarkHasLoader
  BY DEF SlotsIInv
<1> QED BY <1>1, SlotsAlways, PTL

\* Evictions, final saves and reloads lose no answered write of a user that never
\* had two engines alive.
THEOREM AnsweredWritesKept == SlotsSpec => []WritesKept
<1>1. SlotsIInv => WritesKept
  BY DEF SlotsIInv, Kept, WritesKept
<1> QED BY <1>1, SlotsAlways, PTL
=============================================================================
