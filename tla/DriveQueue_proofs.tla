------------------------- MODULE DriveQueue_proofs -------------------------
(***************************************************************************)
(* An acknowledged drive signal stays settled, for every number of callers,*)
(* crashes and faults of the database: proofs of DriveQueue.               *)
(***************************************************************************)
EXTENDS DriveQueue, FiniteSetTheorems, WellFoundedInduction, TLAPS

----------------------------------------------------------------------------
(* The largest of finitely many ids *)

LEMMA LargestExists ==
    ASSUME NEW n \in Nat, NEW ids \in SUBSET (1..n), ids # {}
    PROVE  \E x \in ids : \A y \in ids : x >= y
<1> DEFINE Gaps == {n - x : x \in ids}
<1>1. Gaps \subseteq Nat /\ Gaps # {}
  <2>1. \A x \in ids : n - x \in Nat
    OBVIOUS
  <2>2. PICK x \in ids : TRUE
    OBVIOUS
  <2>3. n - x \in Gaps
    OBVIOUS
  <2> QED BY <2>1, <2>3
<1>2. PICK g \in Gaps : \A h \in Gaps : <<h, g>> \notin OpToRel(<, Nat)
  <2> HIDE DEF Gaps
  <2> QED BY <1>1, NatLessThanWellFounded, WFMin
<1>3. \A h \in Gaps : ~(h < g)
  <2> SUFFICES ASSUME NEW h \in Gaps, h < g PROVE FALSE
    OBVIOUS
  <2>1. h \in Nat /\ g \in Nat
    BY <1>1
  <2>2. <<h, g>> \in OpToRel(<, Nat)
    BY <2>1 DEF OpToRel
  <2> QED BY <1>2, <2>2
<1>4. PICK x \in ids : g = n - x
  OBVIOUS
<1>5. ASSUME NEW y \in ids PROVE x >= y
  <2>1. n - y \in Gaps
    OBVIOUS
  <2>2. ~(n - y < n - x)
    <3> HIDE DEF Gaps
    <3> QED BY <1>3, <1>4, <2>1
  <2>3. x \in Int /\ y \in Int
    <3> HIDE DEF Gaps
    <3> QED OBVIOUS
  <2> QED BY <2>2, <2>3
<1> QED BY <1>5

\* NextAbove is an id no member of the set has, and none above it.
LEMMA NextAboveIs ==
    ASSUME NEW n \in Nat, NEW ids \in SUBSET (1..n)
    PROVE  NextAbove(ids) \in 1..(n + 1) /\ \A id \in ids : id < NextAbove(ids)
<1>1. CASE ids = {}
  BY <1>1 DEF NextAbove
<1>2. CASE ids # {}
  <2>1. PICK m \in ids : m = Max(ids) /\ \A y \in ids : m >= y
    BY <1>2, LargestExists DEF Max
  <2>2. NextAbove(ids) = m + 1
    BY <1>2, <2>1 DEF NextAbove
  <2>3. m + 1 \in 1..(n + 1)
    OBVIOUS
  <2>4. ASSUME NEW y \in ids PROVE y < m + 1
    BY <2>1
  <2> QED BY <2>2, <2>3, <2>4
<1> QED BY <1>1, <1>2
-----------------------------------------------------------------------------
(* Types *)

SignalIds == 1..MaxId
Tables    == UNION {[ids -> Signal] : ids \in SUBSET SignalIds}
SavePCs   == {"save", "archived", "written", "answer"}
GatePCs   == {"archived", "snapped", "written"}

Births  == [pc : {"birth"}, fp : Fingerprints]
Marks   == [pc : {"mark"}, via : {"http", "mcp", "explore"}, id : SignalIds,
            executed : BOOLEAN, good : BOOLEAN, seen : Nat]
Expires == [pc : {"expire"}, stale : SUBSET SignalIds]
PlainSaves == [pc : SavePCs, clean : BOOLEAN, ack : {FALSE}]
AckSaves   == [pc : SavePCs, clean : BOOLEAN, ack : {TRUE}, id : SignalIds, fp : Fingerprints,
               settled : BOOLEAN, learned : BOOLEAN, penalty : BOOLEAN]
Saves   == PlainSaves \cup AckSaves
Snapped == [pc : {"snapped"}, call : Saves, signals : Tables]
Calls   == {Idle} \cup Births \cup Marks \cup Expires \cup Saves \cup Snapped

\* The type of the state, with what each operation carries from step to step.
DriveTyped ==
    /\ queue \in Tables
    /\ disk \in [signals : Tables, archive : SUBSET [id : SignalIds, signal : Signal],
                 policy : Outcomes]
    /\ next_id \in 1..(MaxId + 1) /\ \A id \in DOMAIN queue : id < next_id
    /\ policy \in Outcomes
    /\ calls \in [Callers -> Calls]
    /\ gate \in Callers \cup {"free"}
    /\ \A c \in Callers : gate = c <=> calls[c].pc \in GatePCs
    /\ up \in BOOLEAN /\ rows_aged \in BOOLEAN /\ misread \in BOOLEAN
    /\ ledger \in [settled : SUBSET SignalIds, learned : SUBSET Fingerprints,
                   penalised : SUBSET SignalIds]
    /\ ~up => queue = Empty /\ gate = "free" /\ \A c \in Callers : calls[c] = Idle

LEMMA TableIs ==
    ASSUME NEW T \in Tables
    PROVE  /\ DOMAIN T \subseteq SignalIds /\ IsFiniteSet(DOMAIN T)
           /\ T = [id \in DOMAIN T |-> T[id]]
           /\ \A id \in DOMAIN T : T[id] \in Signal
<1>1. PICK ids \in SUBSET SignalIds : T \in [ids -> Signal]
  BY DEF Tables
<1>2. IsFiniteSet(SignalIds)
  BY DriveAssumption, FS_Interval DEF SignalIds
<1> QED BY <1>1, <1>2, FS_Subset

LEMMA TableFrom ==
    ASSUME NEW T, DOMAIN T \subseteq SignalIds, T = [id \in DOMAIN T |-> T[id]],
           \A id \in DOMAIN T : T[id] \in Signal
    PROVE  T \in Tables
<1>1. T \in [DOMAIN T -> Signal]
  OBVIOUS
<1> QED BY <1>1 DEF Tables

LEMMA RestrictIs ==
    ASSUME NEW T \in Tables, NEW ids \in SUBSET DOMAIN T
    PROVE  /\ Restrict(T, ids) \in Tables /\ DOMAIN Restrict(T, ids) = ids
           /\ \A id \in ids : Restrict(T, ids)[id] = T[id]
<1>1. /\ DOMAIN Restrict(T, ids) = ids
      /\ \A id \in ids : Restrict(T, ids)[id] = T[id]
      /\ Restrict(T, ids) = [id \in DOMAIN Restrict(T, ids) |-> Restrict(T, ids)[id]]
  BY DEF Restrict
<1>2. Restrict(T, ids) \in Tables
  <2> HIDE DEF Restrict
  <2> QED BY <1>1, TableIs, TableFrom
<1> QED BY <1>1, <1>2

LEMMA ExpireIs ==
    ASSUME NEW T \in Tables, NEW ids
    PROVE  /\ Expire(T, ids) \in Tables /\ DOMAIN Expire(T, ids) = DOMAIN T
           /\ \A id \in DOMAIN T :
                 /\ Settled(T[id]) => Expire(T, ids)[id] = T[id]
                 /\ Expire(T, ids)[id].fp = T[id].fp
                 /\ Expire(T, ids)[id].retries = T[id].retries
<1>1. /\ DOMAIN Expire(T, ids) = DOMAIN T
      /\ Expire(T, ids) = [id \in DOMAIN Expire(T, ids) |-> Expire(T, ids)[id]]
  BY DEF Expire
<1>2. ASSUME NEW id \in DOMAIN T
      PROVE  /\ Expire(T, ids)[id] \in Signal
             /\ Settled(T[id]) => Expire(T, ids)[id] = T[id]
             /\ Expire(T, ids)[id].fp = T[id].fp
             /\ Expire(T, ids)[id].retries = T[id].retries
  <2>1. T[id] \in Signal
    BY TableIs
  <2>2. Expire(T, ids)[id] = IF id \in ids /\ ~Settled(T[id])
                             THEN [T[id] EXCEPT !.status = "expired"] ELSE T[id]
    BY DEF Expire
  <2> QED BY <2>1, <2>2 DEF Signal, Statuses
<1>3. Expire(T, ids) \in Tables
  <2>1. DOMAIN Expire(T, ids) \subseteq SignalIds
    BY <1>1, TableIs
  <2>2. \A id \in DOMAIN Expire(T, ids) : Expire(T, ids)[id] \in Signal
    BY <1>1, <1>2
  <2> QED BY <1>1, <2>1, <2>2, TableFrom
<1> QED BY <1>1, <1>2, <1>3

LEMMA ConsumedIs ==
    ASSUME NEW signal \in Signal, NEW executed \in BOOLEAN
    PROVE  /\ Consumed(signal, executed) \in Signal
           /\ Consumed(signal, executed).fp = signal.fp
           /\ Consumed(signal, executed).retries >= signal.retries
           /\ ~executed /\ signal.retries + 1 > MAX_RETRIES
                => Consumed(signal, executed).status = "rejected"
<1> DEFINE retries == IF executed THEN signal.retries ELSE signal.retries + 1
           status  == CASE executed -> "executed"
                        [] ~executed /\ signal.retries + 1 <= MAX_RETRIES -> "pending"
                        [] OTHER -> "rejected"
<1>1. signal.retries \in Nat /\ MAX_RETRIES \in Nat
  BY DriveAssumption DEF Signal
<1>2. retries \in Nat /\ retries >= signal.retries
  BY <1>1
<1>3. status \in Statuses
  BY <1>1 DEF Statuses
<1>4. ~executed /\ signal.retries + 1 > MAX_RETRIES => status = "rejected"
  BY <1>1
<1>5. Consumed(signal, executed) = [signal EXCEPT !.retries = retries, !.status = status]
  BY DEF Consumed, Signal
<1> HIDE DEF retries, status
<1> QED BY <1>2, <1>3, <1>4, <1>5 DEF Signal

\* The queue's ids are below next_id, so the id that is given out is next_id.
LEMMA NewIdIs ==
    ASSUME DriveTyped
    PROVE  NewId = next_id
<1> DEFINE Candidates == next_id..(next_id + Cardinality(DOMAIN queue))
           Free(id) == id \notin DOMAIN queue /\ next_id..(id - 1) \subseteq DOMAIN queue
<1>1. next_id \in Nat /\ next_id \notin DOMAIN queue /\ Cardinality(DOMAIN queue) \in Nat
  BY TableIs, FS_CardinalityType DEF DriveTyped, SignalIds
<1>2. next_id \in Candidates /\ Free(next_id)
  BY <1>1
<1>3. ASSUME NEW id \in Candidates, Free(id) PROVE id = next_id
  BY <1>1, <1>3
<1>4. NewId = CHOOSE id \in Candidates : Free(id)
  BY DEF NewId
<1> HIDE DEF Candidates, Free
<1> QED BY <1>2, <1>3, <1>4

\* What a producer leaves: the signal it bears, and the others as they were.
LEMMA EnqueueIs ==
    ASSUME DriveTyped, NEW fp \in Fingerprints, Enqueue(fp)
    PROVE  /\ next_id \in SignalIds /\ next_id' = next_id + 1
           /\ queue' \in Tables /\ next_id \notin DOMAIN queue
           /\ DOMAIN queue' = DOMAIN queue \cup {next_id}
           /\ queue'[next_id] = [fp |-> fp, status |-> "pending", retries |-> 0]
           /\ \A id \in DOMAIN queue : queue'[id] = queue[id]
<1>1. next_id \in Nat \ {0} /\ MaxId \in Nat /\ next_id \notin DOMAIN queue
  BY DriveAssumption DEF DriveTyped
<1>2. /\ next_id <= MaxId /\ next_id' = next_id + 1
      /\ queue' = [id \in DOMAIN queue \cup {next_id} |->
                    IF id = next_id THEN [fp |-> fp, status |-> "pending", retries |-> 0]
                    ELSE queue[id]]
  BY NewIdIs DEF Enqueue
<1>3. next_id \in SignalIds
  BY <1>1, <1>2 DEF SignalIds
<1>4. [fp |-> fp, status |-> "pending", retries |-> 0] \in Signal
  BY DEF Signal, Statuses
<1>5. queue \in Tables
  BY DEF DriveTyped
<1>6. queue' \in Tables
  <2>1. DOMAIN queue' \subseteq SignalIds
    BY <1>2, <1>3, <1>5, TableIs
  <2>2. \A id \in DOMAIN queue' : queue'[id] \in Signal
    BY <1>2, <1>4, <1>5, TableIs
  <2> QED BY <1>2, <2>1, <2>2, TableFrom
<1> QED BY <1>1, <1>2, <1>3, <1>6
\* The record a call holds, by the step it is at.
LEMMA CallAt ==
    ASSUME DriveTyped, NEW c \in Callers
    PROVE  /\ calls[c] \in Calls
           /\ calls[c].pc = "idle"    => calls[c] = Idle
           /\ calls[c].pc = "birth"   => calls[c] \in Births
           /\ calls[c].pc = "mark"    => calls[c] \in Marks
           /\ calls[c].pc = "expire"  => calls[c] \in Expires
           /\ calls[c].pc \in SavePCs => calls[c] \in Saves
           /\ calls[c].pc = "snapped" => calls[c] \in Snapped
<1>1. calls[c] \in Calls
  BY DEF DriveTyped
<1>2. /\ Idle.pc = "idle"
      /\ \A call \in Births : call.pc = "birth"
      /\ \A call \in Marks : call.pc = "mark"
      /\ \A call \in Expires : call.pc = "expire"
      /\ \A call \in Snapped : call.pc = "snapped"
  BY DEF Idle, Births, Marks, Expires, Snapped
<1>3. \A call \in Saves : call.pc \in SavePCs
  BY DEF Saves, PlainSaves, AckSaves
<1>4. \A pc \in {"idle", "birth", "mark", "expire", "snapped"} : pc \notin SavePCs
  BY DEF SavePCs
<1> QED BY <1>1, <1>2, <1>3, <1>4 DEF Calls

\* A save keeps what it has to say while it moves on.
SameSay(call, other) ==
    /\ other.ack = call.ack
    /\ call.ack => /\ call \in AckSaves /\ other \in AckSaves
                   /\ other.id = call.id /\ other.fp = call.fp /\ other.settled = call.settled
                   /\ other.learned = call.learned /\ other.penalty = call.penalty

LEMMA SaveMoves ==
    ASSUME NEW call \in Saves, NEW pc \in SavePCs
    PROVE  /\ [call EXCEPT !.pc = pc] \in Saves
           /\ [call EXCEPT !.pc = pc].pc = pc /\ [call EXCEPT !.pc = pc].clean = call.clean
           /\ SameSay(call, [call EXCEPT !.pc = pc])
           /\ [call EXCEPT !.pc = pc, !.clean = FALSE] \in Saves
           /\ [call EXCEPT !.pc = pc, !.clean = FALSE].pc = pc
           /\ [call EXCEPT !.pc = pc, !.clean = FALSE].clean = FALSE
           /\ SameSay(call, [call EXCEPT !.pc = pc, !.clean = FALSE])
<1>1. CASE call \in PlainSaves
  BY <1>1 DEF Saves, PlainSaves, SameSay
<1>2. CASE call \in AckSaves
  BY <1>2 DEF Saves, AckSaves, SameSay
<1> QED BY <1>1, <1>2 DEF Saves

LEMMA ToSaveIs ==
    ASSUME DriveTyped, NEW c \in Callers, ToSave(c)
    PROVE  /\ calls' \in [Callers -> Calls]
           /\ calls'[c] \in Saves /\ calls'[c].pc = "save" /\ ~calls'[c].ack
           /\ \A d \in Callers \ {c} : calls'[d] = calls[d]
<1> DEFINE new == [pc |-> "save", clean |-> TRUE, ack |-> FALSE]
<1>1. new \in Saves /\ new.pc = "save" /\ ~new.ack
  BY DEF Saves, PlainSaves, SavePCs
<1>2. calls' = [calls EXCEPT ![c] = new] /\ calls \in [Callers -> Calls]
  BY DEF ToSave, DriveTyped
<1>3. new \in Calls
  BY <1>1 DEF Calls
<1> HIDE DEF new
<1> QED BY <1>1, <1>2, <1>3

LEMMA FinishIs ==
    ASSUME DriveTyped, NEW c \in Callers, Finish(c)
    PROVE  /\ calls' \in [Callers -> Calls] /\ calls'[c] = Idle
           /\ \A d \in Callers \ {c} : calls'[d] = calls[d]
BY DEF Finish, DriveTyped, Calls

LEMMA CallsBecome ==
    ASSUME DriveTyped, NEW c \in Callers, NEW new \in Calls, calls' = [calls EXCEPT ![c] = new]
    PROVE  /\ calls' \in [Callers -> Calls] /\ calls'[c] = new
           /\ \A d \in Callers \ {c} : calls'[d] = calls[d]
BY DEF DriveTyped

LEMMA ArchivedIs ==
    ASSUME DriveTyped, NEW old \in SUBSET DOMAIN queue, disk' = Archived(old)
    PROVE  /\ disk' \in [signals : Tables, archive : SUBSET [id : SignalIds, signal : Signal],
                         policy : Outcomes]
           /\ disk'.policy = disk.policy
           /\ DOMAIN disk'.signals = DOMAIN disk.signals \ old
           /\ \A id \in DOMAIN disk.signals \ old : disk'.signals[id] = disk.signals[id]
           /\ ArchivedIds' = ArchivedIds \cup old
<1> DEFINE entries == {[id |-> id, signal |-> queue[id]] : id \in old}
           rest == Restrict(disk.signals, DOMAIN disk.signals \ old)
<1>1. /\ disk.signals \in Tables /\ queue \in Tables
      /\ disk \in [signals : Tables, archive : SUBSET [id : SignalIds, signal : Signal],
                   policy : Outcomes]
  BY DEF DriveTyped
<1>2. entries \in SUBSET [id : SignalIds, signal : Signal]
  BY <1>1, TableIs
<1>3. /\ rest \in Tables /\ DOMAIN rest = DOMAIN disk.signals \ old
      /\ \A id \in DOMAIN disk.signals \ old : rest[id] = disk.signals[id]
  BY <1>1, RestrictIs
<1>4. disk' = [disk EXCEPT !.archive = @ \cup entries, !.signals = rest]
  BY DEF Archived
<1>5. {entry.id : entry \in entries} = old
  <2>1. \A id \in old : [id |-> id, signal |-> queue[id]].id = id
    OBVIOUS
  <2>2. \A entry \in entries : entry.id \in old
    BY <2>1
  <2>3. \A id \in old : \E entry \in entries : entry.id = id
    BY <2>1
  <2> QED BY <2>2, <2>3
<1> HIDE DEF entries, rest
<1>6. disk'.archive = disk.archive \cup entries /\ disk'.signals = rest
  BY <1>1, <1>4
<1>7. ArchivedIds' = ArchivedIds \cup old
  BY <1>5, <1>6 DEF ArchivedIds
<1> QED BY <1>1, <1>2, <1>3, <1>4, <1>6, <1>7
-----------------------------------------------------------------------------
(* What each step does *)

LEMMA LearnIs ==
    ASSUME DriveTyped, NEW fp \in Fingerprints, NEW good \in BOOLEAN, LearnOutcome(fp, good)
    PROVE  /\ policy' \in Outcomes
           /\ \A f \in Fingerprints : policy'[f].ok >= policy[f].ok
           /\ good => policy'[fp].ok >= 1
<1>1. policy \in Outcomes /\ \A f \in Fingerprints : policy[f] \in [ok : Nat, bad : Nat]
  BY DEF DriveTyped, Outcomes
<1>2. CASE good
  BY <1>1, <1>2 DEF LearnOutcome, Outcomes
<1>3. CASE ~good
  BY <1>1, <1>3 DEF LearnOutcome, Outcomes
<1> QED BY <1>2, <1>3

\* mark_consumed leaves every other signal alone, and the one it settles is
\* settled in the answer the call carries.
Marked(c, id) ==
    /\ id \in DOMAIN queue /\ queue' \in Tables /\ DOMAIN queue' = DOMAIN queue
    /\ \A other \in DOMAIN queue \ {id} : queue'[other] = queue[other]
    /\ queue'[id].fp = queue[id].fp /\ queue'[id].retries >= queue[id].retries
    /\ Settled(queue[id]) => queue'[id] = queue[id]
    /\ policy' \in Outcomes
    /\ \A f \in Fingerprints : policy'[f].ok >= policy[f].ok
    /\ calls'[c] \in AckSaves /\ calls'[c].pc = "save" /\ calls'[c].id = id
    /\ calls'[c].settled => Settled(queue'[id])
    /\ calls'[c].learned => policy'[calls'[c].fp].ok >= 1
    /\ calls'[c].penalty /\ calls[c].seen <= queue[id].retries
         => calls'[c].settled /\ queue'[id].status = "rejected"

LEMMA AckMarkIs ==
    ASSUME DriveTyped, NEW c \in Callers, AckMark(c)
    PROVE  /\ calls[c] \in Marks /\ calls' \in [Callers -> Calls]
           /\ \A d \in Callers \ {c} : calls'[d] = calls[d]
           /\ \/ calls'[c] = Idle /\ UNCHANGED <<queue, policy>>
              \/ Marked(c, calls[c].id)
<1> DEFINE call == calls[c]
           id   == call.id
           new  == [pc |-> "save", clean |-> TRUE, ack |-> TRUE, id |-> id, fp |-> queue[id].fp,
                    settled |-> Settled(queue'[id]),
                    learned |-> ~Settled(queue[id]) /\ call.good,
                    penalty |-> /\ call.via = "http" /\ ~call.executed
                                /\ ~Settled(queue[id])
                                /\ call.seen + 1 > MAX_RETRIES
                                /\ Evidence[queue[id].fp] # {}]
<1>1. call \in Marks /\ id \in SignalIds /\ call.executed \in BOOLEAN /\ call.good \in BOOLEAN
      /\ call.seen \in Nat
  BY CallAt DEF AckMark, At, Marks
<1>2. CASE Finish(c) /\ UNCHANGED <<queue, policy>>
  BY <1>1, <1>2, FinishIs
<1>3. CASE /\ id \in DOMAIN queue
           /\ \/ Settled(queue[id]) /\ UNCHANGED <<queue, policy>>
              \/ /\ ~Settled(queue[id])
                 /\ queue' = [queue EXCEPT ![id] = Consumed(@, call.executed)]
                 /\ LearnOutcome(queue[id].fp, call.good)
           /\ calls' = [calls EXCEPT ![c] = new]
  <2>1. queue \in Tables /\ queue[id] \in Signal /\ queue[id].fp \in Fingerprints
        /\ queue[id].retries \in Nat /\ MAX_RETRIES \in Nat /\ policy \in Outcomes
        /\ \A f \in Fingerprints : policy[f] \in [ok : Nat, bad : Nat]
    BY <1>3, TableIs, DriveAssumption DEF DriveTyped, Signal, Outcomes
  <2>2. /\ new \in AckSaves /\ new.pc = "save" /\ new.id = id /\ new.fp = queue[id].fp
        /\ new.settled = Settled(queue'[id])
        /\ new.learned = (~Settled(queue[id]) /\ call.good)
        /\ new.penalty => ~call.executed /\ ~Settled(queue[id]) /\ call.seen + 1 > MAX_RETRIES
    BY <1>1, <2>1 DEF AckSaves, SavePCs, Settled
  <2>3. /\ calls' \in [Callers -> Calls] /\ calls'[c] = new
        /\ \A d \in Callers \ {c} : calls'[d] = calls[d]
    <3>1. new \in Calls
      BY <2>2 DEF Calls, Saves
    <3> HIDE DEF new
    <3> QED BY <1>3, <3>1, CallsBecome
  <2> HIDE DEF new
  <2>4. CASE Settled(queue[id]) /\ UNCHANGED <<queue, policy>>
    <3>1. \A f \in Fingerprints : policy[f].ok >= policy[f].ok
      BY <2>1
    <3>2. ~new.penalty /\ ~new.learned /\ (new.settled => Settled(queue'[id]))
          /\ queue[id].retries >= queue[id].retries
      <4> HIDE DEF call, id
      <4>1. ~new.penalty
        BY <2>2, <2>4
      <4>2. ~new.learned
        BY <2>2, <2>4
      <4>3. new.settled => Settled(queue'[id])
        BY <2>2
      <4>4. queue[id].retries >= queue[id].retries
        BY <2>1
      <4> QED BY <4>1, <4>2, <4>3, <4>4
    <3>3. queue' = queue /\ policy' = policy
      BY <2>4
    <3>4. Marked(c, id)
      <4> HIDE DEF call, id
      <4> QED BY <1>3, <2>1, <2>2, <2>3, <3>1, <3>2, <3>3 DEF Marked
    <3> QED BY <1>1, <2>3, <3>4
  <2>5. CASE /\ ~Settled(queue[id])
             /\ queue' = [queue EXCEPT ![id] = Consumed(@, call.executed)]
             /\ LearnOutcome(queue[id].fp, call.good)
    <3> DEFINE after == Consumed(queue[id], call.executed)
    <3>1. /\ after \in Signal /\ after.fp = queue[id].fp /\ after.retries >= queue[id].retries
          /\ ~call.executed /\ queue[id].retries + 1 > MAX_RETRIES => after.status = "rejected"
      BY <1>1, <2>1, ConsumedIs
    <3> HIDE DEF after
    <3>2. /\ queue' = [queue EXCEPT ![id] = after]
          /\ queue = [x \in DOMAIN queue |-> queue[x]] /\ DOMAIN queue \subseteq SignalIds
          /\ \A x \in DOMAIN queue : queue[x] \in Signal
      BY <2>1, <2>5, TableIs DEF after
    <3>3. /\ DOMAIN queue' = DOMAIN queue /\ queue'[id] = after
          /\ \A other \in DOMAIN queue \ {id} : queue'[other] = queue[other]
          /\ queue' = [x \in DOMAIN queue' |-> queue'[x]]
      BY <1>3, <3>2
    <3>4. queue' \in Tables
      BY <3>1, <3>2, <3>3, TableFrom
    <3>5. /\ policy' \in Outcomes
          /\ \A f \in Fingerprints : policy'[f].ok >= policy[f].ok
          /\ call.good => policy'[queue[id].fp].ok >= 1
      BY <1>1, <2>1, <2>5, LearnIs
    <3>6. new.penalty /\ call.seen <= queue[id].retries => new.settled /\ after.status = "rejected"
      <4> SUFFICES ASSUME new.penalty, call.seen <= queue[id].retries
                   PROVE  new.settled /\ after.status = "rejected"
        OBVIOUS
      <4> HIDE DEF call, id
      <4>1. ~call.executed /\ call.seen + 1 > MAX_RETRIES
        BY <2>2
      <4>2. queue[id].retries + 1 > MAX_RETRIES
        BY <1>1, <2>1, <4>1
      <4>3. after.status = "rejected"
        BY <3>1, <4>1, <4>2
      <4>4. Settled(queue'[id])
        BY <3>3, <4>3 DEF Settled
      <4> QED BY <2>2, <4>3, <4>4
    <3>7. Marked(c, id)
      BY <1>1, <1>3, <2>1, <2>2, <2>3, <2>5, <3>1, <3>3, <3>4, <3>5, <3>6 DEF Marked
    <3> QED BY <1>1, <2>3, <3>7
  <2> QED BY <1>3, <2>4, <2>5
<1> QED BY <1>2, <1>3 DEF AckMark
\* The steps of a caller, in the classes the invariants tell apart.
EarlyPCs == {"idle", "birth", "mark", "expire"}

OnlyCall(c) ==
    /\ up /\ up' = up /\ calls' \in [Callers -> Calls]
    /\ \A d \in Callers \ {c} : calls'[d] = calls[d]

\* Signals past their time expire; nothing else happens to the queue.
Aged(T, U) ==
    /\ U \in Tables /\ DOMAIN U = DOMAIN T
    /\ \A id \in DOMAIN T : /\ Settled(T[id]) => U[id] = T[id]
                            /\ U[id].fp = T[id].fp /\ U[id].retries = T[id].retries

\* Before its save: reads, and what makes no difference to a stored signal.
Preparing(c) ==
    /\ OnlyCall(c) /\ calls[c].pc \in EarlyPCs
    /\ \/ calls'[c].pc \in EarlyPCs
       \/ calls'[c] \in Saves /\ calls'[c].pc = "save" /\ ~calls'[c].ack
    /\ calls'[c].pc = "birth" => queue' = queue /\ ~LiveFingerprint(calls'[c].fp)
    /\ calls'[c].pc = "mark" =>
          /\ calls'[c].id < next_id
          /\ calls'[c].id \in DOMAIN queue' => calls'[c].seen <= queue'[calls'[c].id].retries
    /\ Aged(queue, queue')
    /\ UNCHANGED <<next_id, policy, disk, gate, rows_aged, ledger, misread>>

Bearing(c, fp) ==
    /\ OnlyCall(c) /\ calls[c].pc \in EarlyPCs
    /\ calls'[c] \in Saves /\ calls'[c].pc = "save" /\ ~calls'[c].ack
    /\ Evidence[fp] = {} \/ (calls[c].pc = "birth" /\ calls[c].fp = fp)
    /\ fp \in Fingerprints /\ Enqueue(fp)
    /\ UNCHANGED <<policy, disk, gate, rows_aged, ledger, misread>>

Marking(c) ==
    /\ OnlyCall(c) /\ calls[c] \in Marks /\ Marked(c, calls[c].id)
    /\ UNCHANGED <<next_id, disk, gate, rows_aged, ledger, misread>>

\* A call of a save goes on to pc, with what it has to say.
Advanced(call, next, pc) ==
    /\ call \in Saves /\ next \in Saves /\ next.pc = pc /\ SameSay(call, next)

Archiving(c) ==
    /\ OnlyCall(c) /\ calls[c].pc = "save" /\ gate = "free" /\ gate' = c
    /\ Advanced(calls[c], calls'[c], "archived") /\ calls'[c].clean = calls[c].clean
    /\ \/ UNCHANGED <<queue, disk>>
       \/ \E old \in SUBSET DOMAIN queue :
             /\ old \subseteq SettledIn(queue)
             /\ queue' = Restrict(queue, DOMAIN queue \ old) /\ disk' = Archived(old)
    /\ UNCHANGED <<next_id, policy, rows_aged, ledger, misread>>

Snapping(c) ==
    /\ OnlyCall(c) /\ calls[c] \in Saves /\ calls[c].pc = "archived"
    /\ calls'[c] \in Snapped /\ calls'[c].call = calls[c] /\ calls'[c].signals = queue
    /\ UNCHANGED <<memoryVars, disk, gate, rows_aged, ledger, misread>>

Writing(c) ==
    /\ OnlyCall(c) /\ calls[c] \in Snapped /\ Advanced(calls[c].call, calls'[c], "written")
    /\ rows_aged' \in BOOLEAN
    /\ \/ disk' = [disk EXCEPT !.signals = calls[c].signals]
       \/ disk' = disk /\ ~calls'[c].clean
    /\ UNCHANGED <<memoryVars, gate, ledger, misread>>

SavingPolicy(c) ==
    /\ OnlyCall(c) /\ calls[c].pc = "written" /\ gate' = "free"
    /\ Advanced(calls[c], calls'[c], "answer")
    /\ \/ disk' = [disk EXCEPT !.policy = policy] /\ calls'[c].clean = calls[c].clean
       \/ disk' = disk /\ ~calls'[c].clean
    /\ UNCHANGED <<memoryVars, rows_aged, ledger, misread>>

Answering(c) ==
    /\ OnlyCall(c) /\ calls[c] \in Saves /\ calls[c].pc = "answer" /\ Answer(c) /\ calls'[c] = Idle

CallerStep(c) ==
    \/ Preparing(c) \/ \E fp \in Fingerprints : Bearing(c, fp)
    \/ Marking(c) \/ Archiving(c) \/ Snapping(c) \/ Writing(c) \/ SavingPolicy(c) \/ Answering(c)
    \/ ArchiveOldRows(c)

LEMMA AgedSelf ==
    ASSUME NEW T \in Tables
    PROVE  Aged(T, T)
BY DEF Aged

LEMMA AgedByExpire ==
    ASSUME NEW T \in Tables, NEW ids
    PROVE  Aged(T, Expire(T, ids))
BY ExpireIs DEF Aged

LEMMA PreparingSteps ==
    ASSUME DriveTyped, NEW c \in Callers,
           \/ \E fp \in Fingerprints : BirthCheck(c, fp)
           \/ \E via \in {"http", "mcp", "explore"}, id \in 1..MaxId, executed, good \in BOOLEAN :
                 \E lapsed \in SUBSET DOMAIN queue : AckRead(c, via, id, lapsed, executed, good)
           \/ \E lapsed, stale \in SUBSET DOMAIN queue : InboxRead(c, lapsed, stale)
           \/ InboxExpire(c) \/ TickSave(c)
    PROVE  Preparing(c)
<1>1. queue \in Tables /\ Aged(queue, queue)
  BY AgedSelf DEF DriveTyped
<1>2. ASSUME NEW fp \in Fingerprints, BirthCheck(c, fp) PROVE Preparing(c)
  <2> DEFINE new == [pc |-> "birth", fp |-> fp]
  <2>1. new \in Calls /\ new.pc = "birth" /\ new.fp = fp
    BY DEF Calls, Births
  <2> HIDE DEF new
  <2>2. calls' = [calls EXCEPT ![c] = new] /\ calls[c].pc = "idle" /\ up /\ ~LiveFingerprint(fp)
        /\ UNCHANGED <<queue, next_id, policy, disk, gate, up, rows_aged, ledger, misread>>
    BY <1>2 DEF BirthCheck, At, ShouldBirth, memoryVars, new
  <2>3. OnlyCall(c) /\ calls'[c] = new
    BY <2>1, <2>2, CallsBecome DEF OnlyCall
  <2> QED BY <1>1, <2>1, <2>2, <2>3 DEF Preparing, EarlyPCs
<1>3. ASSUME NEW via \in {"http", "mcp", "explore"}, NEW id \in 1..MaxId,
             NEW executed \in BOOLEAN, NEW good \in BOOLEAN,
             NEW lapsed \in SUBSET DOMAIN queue, AckRead(c, via, id, lapsed, executed, good)
      PROVE  Preparing(c)
  <2> DEFINE seen == IF id \in DOMAIN queue THEN queue'[id].retries ELSE 0
             new == [pc |-> "mark", via |-> via, id |-> id, executed |-> executed, good |-> good,
                     seen |-> seen]
  <2>1. Aged(queue, queue')
    BY <1>1, <1>3, AgedByExpire DEF AckRead
  <2>2. DOMAIN queue' = DOMAIN queue /\ queue' \in Tables
    BY <2>1 DEF Aged
  <2>3. seen \in Nat /\ (id \in DOMAIN queue' => seen <= queue'[id].retries)
    BY <2>2, TableIs DEF Signal
  <2>4. calls' = [calls EXCEPT ![c] = new] /\ calls[c].pc = "idle" /\ up /\ id < next_id
        /\ UNCHANGED <<next_id, policy, disk, gate, up, rows_aged, ledger, misread>>
    BY <1>3 DEF AckRead, At
  <2> HIDE DEF seen
  <2>5. new \in Calls /\ new.pc = "mark" /\ new.id = id /\ new.seen = seen
    BY <2>3 DEF Calls, Marks, SignalIds
  <2> HIDE DEF new
  <2>6. OnlyCall(c) /\ calls'[c] = new
    BY <2>4, <2>5, CallsBecome DEF OnlyCall
  <2> QED BY <2>1, <2>3, <2>4, <2>5, <2>6 DEF Preparing, EarlyPCs
<1>4. ASSUME NEW lapsed \in SUBSET DOMAIN queue, NEW stale \in SUBSET DOMAIN queue,
             InboxRead(c, lapsed, stale)
      PROVE  Preparing(c)
  <2> DEFINE new == IF stale = {} THEN Idle ELSE [pc |-> "expire", stale |-> stale]
  <2>1. Aged(queue, queue')
    BY <1>1, <1>4, AgedByExpire DEF InboxRead
  <2>2. calls' = [calls EXCEPT ![c] = new] /\ calls[c].pc = "idle" /\ up
        /\ UNCHANGED <<next_id, policy, disk, gate, up, rows_aged, ledger, misread>>
    BY <1>4 DEF InboxRead, At
  <2>3. stale \subseteq SignalIds
    BY <1>1, TableIs
  <2>4. new \in Calls /\ new.pc \in {"idle", "expire"}
    BY <2>3 DEF Calls, Expires, Idle
  <2> HIDE DEF new
  <2>5. OnlyCall(c) /\ calls'[c] = new
    BY <2>2, <2>4, CallsBecome DEF OnlyCall
  <2> QED BY <2>1, <2>2, <2>4, <2>5 DEF Preparing, EarlyPCs
<1>5. ASSUME InboxExpire(c) PROVE Preparing(c)
  <2>1. Aged(queue, queue')
    BY <1>1, <1>5, AgedByExpire DEF InboxExpire
  <2>2. calls[c].pc = "expire" /\ up /\ (ToSave(c) \/ Finish(c))
        /\ UNCHANGED <<next_id, policy, disk, gate, up, rows_aged, ledger, misread>>
    BY <1>5 DEF InboxExpire, At
  <2>3. OnlyCall(c) /\ (\/ calls'[c].pc = "idle"
                        \/ calls'[c] \in Saves /\ calls'[c].pc = "save" /\ ~calls'[c].ack)
    BY <2>2, ToSaveIs, FinishIs DEF OnlyCall, Idle
  <2> QED BY <2>1, <2>2, <2>3 DEF Preparing, EarlyPCs
<1>6. ASSUME TickSave(c) PROVE Preparing(c)
  <2>1. calls[c].pc = "idle" /\ up /\ ToSave(c)
        /\ UNCHANGED <<queue, next_id, policy, disk, gate, up, rows_aged, ledger, misread>>
    BY <1>6 DEF TickSave, At, memoryVars
  <2>2. OnlyCall(c) /\ calls'[c] \in Saves /\ calls'[c].pc = "save" /\ ~calls'[c].ack
    BY <2>1, ToSaveIs DEF OnlyCall
  <2> QED BY <1>1, <2>1, <2>2 DEF Preparing, EarlyPCs
<1> QED BY <1>2, <1>3, <1>4, <1>5, <1>6
LEMMA BearingSteps ==
    ASSUME DriveTyped, NEW c \in Callers,
           BirthEnqueue(c) \/ \E fp \in Fingerprints : EnqueueUnchecked(c, fp)
    PROVE  CallerStep(c)
<1>1. CASE BirthEnqueue(c)
  <2>1. /\ calls[c] \in Births /\ calls[c].pc = "birth" /\ calls[c].fp \in Fingerprints /\ up
        /\ UNCHANGED <<policy, disk, gate, up, rows_aged, ledger, misread>>
    BY <1>1, CallAt DEF BirthEnqueue, At, Births
  <2>2. CASE Enqueue(calls[c].fp) /\ ToSave(c)
    <3>1. OnlyCall(c) /\ calls'[c] \in Saves /\ calls'[c].pc = "save" /\ ~calls'[c].ack
      BY <2>1, <2>2, ToSaveIs DEF OnlyCall
    <3>2. Bearing(c, calls[c].fp)
      BY <2>1, <2>2, <3>1 DEF Bearing, EarlyPCs
    <3> QED BY <2>1, <3>2 DEF CallerStep
  <2>3. CASE Finish(c) /\ UNCHANGED <<queue, next_id>>
    <3>1. OnlyCall(c) /\ calls'[c].pc = "idle"
      BY <2>1, <2>3, FinishIs DEF OnlyCall, Idle
    <3>2. Aged(queue, queue')
      BY <2>3, AgedSelf DEF DriveTyped
    <3>3. Preparing(c)
      BY <2>1, <2>3, <3>1, <3>2 DEF Preparing, EarlyPCs
    <3> QED BY <3>3 DEF CallerStep
  <2> QED BY <1>1, <2>2, <2>3 DEF BirthEnqueue
<1>2. ASSUME NEW fp \in Fingerprints, EnqueueUnchecked(c, fp) PROVE CallerStep(c)
  <2>1. /\ calls[c].pc = "idle" /\ up /\ Evidence[fp] = {} /\ Enqueue(fp) /\ ToSave(c)
        /\ UNCHANGED <<policy, disk, gate, up, rows_aged, ledger, misread>>
    BY <1>2 DEF EnqueueUnchecked, At
  <2>2. OnlyCall(c) /\ calls'[c] \in Saves /\ calls'[c].pc = "save" /\ ~calls'[c].ack
    BY <2>1, ToSaveIs DEF OnlyCall
  <2>3. Bearing(c, fp)
    BY <2>1, <2>2 DEF Bearing, EarlyPCs
  <2> QED BY <2>3 DEF CallerStep
<1> QED BY <1>1, <1>2

LEMMA MarkingSteps ==
    ASSUME DriveTyped, NEW c \in Callers, AckMark(c)
    PROVE  CallerStep(c)
<1>1. /\ calls[c].pc = "mark" /\ up
      /\ UNCHANGED <<next_id, disk, gate, up, rows_aged, ledger, misread>>
  BY DEF AckMark, At
<1>2. /\ calls[c] \in Marks /\ OnlyCall(c)
      /\ \/ calls'[c] = Idle /\ UNCHANGED <<queue, policy>>
         \/ Marked(c, calls[c].id)
  BY <1>1, AckMarkIs DEF OnlyCall
<1>3. CASE calls'[c] = Idle /\ UNCHANGED <<queue, policy>>
  <2>1. Aged(queue, queue') /\ calls'[c].pc = "idle"
    BY <1>3, AgedSelf DEF DriveTyped, Idle
  <2>2. Preparing(c)
    BY <1>1, <1>2, <1>3, <2>1 DEF Preparing, EarlyPCs
  <2> QED BY <2>2 DEF CallerStep
<1>4. CASE Marked(c, calls[c].id)
  <2>1. Marking(c)
    BY <1>1, <1>2, <1>4 DEF Marking
  <2> QED BY <2>1 DEF CallerStep
<1> QED BY <1>2, <1>3, <1>4

\* A step of a save leaves the other calls alone and stays within the type.
LEMMA SaveGoes ==
    ASSUME DriveTyped, NEW c \in Callers, NEW call \in Saves, NEW pc \in SavePCs, up, up' = up
    PROVE  /\ calls' = [calls EXCEPT ![c] = [call EXCEPT !.pc = pc]]
                 => OnlyCall(c) /\ Advanced(call, calls'[c], pc) /\ calls'[c].clean = call.clean
           /\ calls' = [calls EXCEPT ![c] = [call EXCEPT !.pc = pc, !.clean = FALSE]]
                 => OnlyCall(c) /\ Advanced(call, calls'[c], pc) /\ ~calls'[c].clean
<1>1. ASSUME NEW new, new = [call EXCEPT !.pc = pc], calls' = [calls EXCEPT ![c] = new]
      PROVE  OnlyCall(c) /\ Advanced(call, calls'[c], pc) /\ calls'[c].clean = call.clean
  <2>1. new \in Saves /\ new.pc = pc /\ new.clean = call.clean /\ SameSay(call, new)
    BY <1>1, SaveMoves
  <2>2. OnlyCall(c) /\ calls'[c] = new
    BY <1>1, <2>1, CallsBecome DEF OnlyCall, Calls
  <2> QED BY <2>1, <2>2 DEF Advanced
<1>2. ASSUME NEW new, new = [call EXCEPT !.pc = pc, !.clean = FALSE],
             calls' = [calls EXCEPT ![c] = new]
      PROVE  OnlyCall(c) /\ Advanced(call, calls'[c], pc) /\ ~calls'[c].clean
  <2>1. new \in Saves /\ new.pc = pc /\ new.clean = FALSE /\ SameSay(call, new)
    BY <1>2, SaveMoves
  <2>2. OnlyCall(c) /\ calls'[c] = new
    BY <1>2, <2>1, CallsBecome DEF OnlyCall, Calls
  <2> QED BY <2>1, <2>2 DEF Advanced
<1> QED BY <1>1, <1>2

LEMMA SavingSteps ==
    ASSUME DriveTyped, NEW c \in Callers,
           \/ \E old \in SUBSET DOMAIN queue : SaveArchive(c, old)
           \/ SaveSnapshot(c) \/ SaveSignals(c) \/ SavePolicy(c) \/ Answer(c)
    PROVE  CallerStep(c)
<1>0. calls \in [Callers -> Calls] /\ calls = [d \in Callers |-> calls[d]]
  BY DEF DriveTyped
<1>1. ASSUME NEW old \in SUBSET DOMAIN queue, SaveArchive(c, old) PROVE Archiving(c)
  <2>1. /\ calls[c].pc = "save" /\ up /\ gate = "free" /\ old \subseteq SettledIn(queue) /\ gate' = c
        /\ calls' = [calls EXCEPT ![c].pc = "archived"]
        /\ \/ queue' = Restrict(queue, DOMAIN queue \ old) /\ disk' = Archived(old)
           \/ UNCHANGED <<queue, disk>>
        /\ UNCHANGED <<next_id, policy, up, rows_aged, ledger, misread>>
    BY <1>1 DEF SaveArchive, At, Goto
  <2>2. calls' = [calls EXCEPT ![c] = [calls[c] EXCEPT !.pc = "archived"]]
    BY <1>0, <2>1
  <2>3. calls[c] \in Saves
    BY <2>1, CallAt DEF SavePCs
  <2>4. OnlyCall(c) /\ Advanced(calls[c], calls'[c], "archived") /\ calls'[c].clean = calls[c].clean
    BY <2>1, <2>2, <2>3, SaveGoes DEF SavePCs
  <2> QED BY <2>1, <2>4 DEF Archiving
<1>2. ASSUME SaveSnapshot(c) PROVE Snapping(c)
  <2> DEFINE new == [pc |-> "snapped", call |-> calls[c], signals |-> queue]
  <2>1. /\ calls[c].pc = "archived" /\ up /\ calls' = [calls EXCEPT ![c] = new]
        /\ UNCHANGED <<memoryVars, disk, gate, up, rows_aged, ledger, misread>>
    BY <1>0, <1>2 DEF SaveSnapshot, At
  <2>2. calls[c] \in Saves
    BY <2>1, CallAt DEF SavePCs
  <2>3. new \in Snapped /\ new.call = calls[c] /\ new.signals = queue
    BY <2>2 DEF Snapped, DriveTyped
  <2> HIDE DEF new
  <2>4. OnlyCall(c) /\ calls'[c] = new
    BY <2>1, <2>3, CallsBecome DEF OnlyCall, Calls
  <2> QED BY <2>1, <2>2, <2>3, <2>4 DEF Snapping
<1>3. ASSUME SaveSignals(c) PROVE Writing(c)
  <2>1. /\ calls[c].pc = "snapped" /\ up /\ UNCHANGED <<memoryVars, gate, up, ledger, misread>>
    BY <1>3 DEF SaveSignals, At
  <2>2. calls[c] \in Snapped /\ calls[c].call \in Saves
    BY <2>1, CallAt DEF Snapped
  <2>3. rows_aged' \in BOOLEAN
    BY <1>3 DEF SaveSignals, DriveTyped
  <2>4. CASE /\ disk' = [disk EXCEPT !.signals = calls[c].signals]
             /\ calls' = [calls EXCEPT ![c] = [calls[c].call EXCEPT !.pc = "written"]]
    <3>1. OnlyCall(c) /\ Advanced(calls[c].call, calls'[c], "written")
      BY <2>1, <2>2, <2>4, SaveGoes DEF SavePCs
    <3> QED BY <2>1, <2>2, <2>3, <2>4, <3>1 DEF Writing
  <2>5. CASE /\ disk' = disk
             /\ calls' = [calls EXCEPT ![c] = [calls[c].call EXCEPT !.pc = "written", !.clean = FALSE]]
    <3>1. OnlyCall(c) /\ Advanced(calls[c].call, calls'[c], "written") /\ ~calls'[c].clean
      BY <2>1, <2>2, <2>5, SaveGoes DEF SavePCs
    <3> QED BY <2>1, <2>2, <2>3, <2>5, <3>1 DEF Writing
  <2> QED BY <1>3, <2>4, <2>5 DEF SaveSignals
<1>4. ASSUME SavePolicy(c) PROVE SavingPolicy(c)
  <2>1. /\ calls[c].pc = "written" /\ up /\ gate' = "free"
        /\ UNCHANGED <<memoryVars, up, rows_aged, ledger, misread>>
    BY <1>4 DEF SavePolicy, At
  <2>2. calls[c] \in Saves
    BY <2>1, CallAt DEF SavePCs
  <2>3. CASE disk' = [disk EXCEPT !.policy = policy] /\ Goto(c, "answer")
    <3>1. calls' = [calls EXCEPT ![c] = [calls[c] EXCEPT !.pc = "answer"]]
      BY <1>0, <2>3 DEF Goto
    <3>2. OnlyCall(c) /\ Advanced(calls[c], calls'[c], "answer") /\ calls'[c].clean = calls[c].clean
      BY <2>1, <2>2, <3>1, SaveGoes DEF SavePCs
    <3> QED BY <2>1, <2>3, <3>2 DEF SavingPolicy
  <2>4. CASE disk' = disk /\ calls' = [calls EXCEPT ![c].pc = "answer", ![c].clean = FALSE]
    <3>1. calls' = [calls EXCEPT ![c] = [calls[c] EXCEPT !.pc = "answer", !.clean = FALSE]]
      BY <1>0, <2>4
    <3>2. OnlyCall(c) /\ Advanced(calls[c], calls'[c], "answer") /\ ~calls'[c].clean
      BY <2>1, <2>2, <3>1, SaveGoes DEF SavePCs
    <3> QED BY <2>1, <2>4, <3>2 DEF SavingPolicy
  <2> QED BY <1>4, <2>3, <2>4 DEF SavePolicy
<1>5. ASSUME Answer(c) PROVE Answering(c)
  <2>1. calls[c].pc = "answer" /\ up /\ up' = up /\ Finish(c)
    BY <1>5 DEF Answer, At
  <2>2. calls[c] \in Saves /\ OnlyCall(c) /\ calls'[c] = Idle
    BY <2>1, CallAt, FinishIs DEF SavePCs, OnlyCall
  <2> QED BY <1>5, <2>1, <2>2 DEF Answering
<1> QED BY <1>1, <1>2, <1>3, <1>4, <1>5 DEF CallerStep

LEMMA DriveSteps ==
    ASSUME DriveTyped, [DriveNext]_vars
    PROVE  \/ \E c \in Callers : CallerStep(c)
           \/ Crash
           \/ \E seen \in SUBSET DOMAIN disk.signals, reserved, learned \in BOOLEAN :
                 \E lapsed \in SUBSET seen : Restart(seen, reserved, learned, lapsed)
           \/ UNCHANGED vars
<1>1. ASSUME NEW c \in Callers, CallerNext(c) PROVE CallerStep(c)
  BY <1>1, PreparingSteps, BearingSteps, MarkingSteps, SavingSteps DEF CallerNext, CallerStep
<1> QED BY <1>1 DEF DriveNext
LEMMA ArchiveTyped ==
    ASSUME DriveTyped
    PROVE  ArchivedIds \subseteq SignalIds
BY DEF DriveTyped, ArchivedIds

\* auto_save's archive of old rows: no row is lost.
LEMMA OldRowsIs ==
    ASSUME DriveTyped, NEW c \in Callers, ArchiveOldRows(c)
    PROVE  /\ disk' \in [signals : Tables, archive : SUBSET [id : SignalIds, signal : Signal],
                         policy : Outcomes]
           /\ disk'.policy = disk.policy
           /\ DOMAIN disk'.signals \subseteq DOMAIN disk.signals
           /\ \A id \in DOMAIN disk'.signals : disk'.signals[id] = disk.signals[id]
           /\ ArchivedIds' = ArchivedIds \cup (DOMAIN disk.signals \ DOMAIN disk'.signals)
           /\ up /\ UNCHANGED <<memoryVars, gate, calls, up, rows_aged, ledger, misread>>
<1>1. PICK old \in SUBSET DOMAIN disk.signals :
         disk' = [disk EXCEPT
            !.archive = @ \cup {[id |-> id, signal |-> disk.signals[id]] : id \in old},
            !.signals = Restrict(@, DOMAIN @ \ old)]
  BY DEF ArchiveOldRows
<1> DEFINE entries == {[id |-> id, signal |-> disk.signals[id]] : id \in old}
           rest == Restrict(disk.signals, DOMAIN disk.signals \ old)
<1>2. /\ disk.signals \in Tables
      /\ disk \in [signals : Tables, archive : SUBSET [id : SignalIds, signal : Signal],
                   policy : Outcomes]
  BY DEF DriveTyped
<1>3. entries \in SUBSET [id : SignalIds, signal : Signal]
  BY <1>2, TableIs
<1>4. /\ rest \in Tables /\ DOMAIN rest = DOMAIN disk.signals \ old
      /\ \A id \in DOMAIN disk.signals \ old : rest[id] = disk.signals[id]
  BY <1>2, RestrictIs
<1>5. {entry.id : entry \in entries} = old
  <2>1. \A id \in old : [id |-> id, signal |-> disk.signals[id]].id = id
    OBVIOUS
  <2>2. \A entry \in entries : entry.id \in old
    BY <2>1
  <2>3. \A id \in old : \E entry \in entries : entry.id = id
    BY <2>1
  <2> QED BY <2>2, <2>3
<1>6. disk' = [disk EXCEPT !.archive = @ \cup entries, !.signals = rest]
  BY <1>1
<1> HIDE DEF entries, rest
<1>7. disk'.archive = disk.archive \cup entries /\ disk'.signals = rest /\ disk'.policy = disk.policy
  BY <1>2, <1>6
<1>8. ArchivedIds' = ArchivedIds \cup old
  BY <1>5, <1>7 DEF ArchivedIds
<1>9. up /\ UNCHANGED <<memoryVars, gate, calls, up, rows_aged, ledger, misread>>
  BY DEF ArchiveOldRows, At
<1> QED BY <1>2, <1>3, <1>4, <1>6, <1>7, <1>8, <1>9

\* The ids that are stored were given out before id n.
AllBelow(n) == \A id \in DOMAIN disk.signals \cup ArchivedIds : id < n

\* A start-up that could read everything stored takes over what the tables hold,
\* and gives out ids above all of it.
LEMMA RestartIs ==
    ASSUME DriveTyped, NEW seen \in SUBSET DOMAIN disk.signals, NEW reserved \in BOOLEAN,
           NEW learned \in BOOLEAN, NEW lapsed \in SUBSET seen,
           Restart(seen, reserved, learned, lapsed)
    PROVE  /\ ~up /\ up' /\ rows_aged' \in BOOLEAN /\ misread' \in BOOLEAN
           /\ Aged(Restrict(disk.signals, seen), queue')
           /\ next_id' \in 1..(MaxId + 1) /\ \A id \in seen : id < next_id'
           /\ policy' \in Outcomes
           /\ ~misread' => /\ ~misread /\ seen = DOMAIN disk.signals
                           /\ Aged(disk.signals, queue') /\ policy' = disk.policy
                           /\ AllBelow(next_id')
           /\ UNCHANGED <<disk, gate, calls, ledger>>
<1>1. /\ disk.signals \in Tables /\ disk.policy \in Outcomes /\ ArchivedIds \subseteq SignalIds
      /\ misread \in BOOLEAN /\ rows_aged \in BOOLEAN /\ MaxId \in Nat
      /\ DOMAIN disk.signals \subseteq SignalIds
  BY ArchiveTyped, TableIs, DriveAssumption DEF DriveTyped
<1>2. /\ ~up /\ up' /\ misread' = (misread \/ Misread(seen, reserved, learned))
      /\ queue' = Expire(Restrict(disk.signals, seen), lapsed)
      /\ next_id' = NextAbove(IF reserved THEN DOMAIN disk.signals \cup ArchivedIds ELSE seen)
      /\ policy' = IF learned THEN disk.policy ELSE NoOutcomes
      /\ rows_aged' \in {rows_aged, TRUE}
      /\ UNCHANGED <<disk, gate, calls, ledger>>
  BY DEF Restart
<1>3. Restrict(disk.signals, seen) \in Tables /\ DOMAIN Restrict(disk.signals, seen) = seen
  BY <1>1, RestrictIs
<1>4. Aged(Restrict(disk.signals, seen), queue')
  BY <1>2, <1>3, AgedByExpire
<1> DEFINE ids == IF reserved THEN DOMAIN disk.signals \cup ArchivedIds ELSE seen
<1>5. ids \in SUBSET SignalIds /\ seen \subseteq ids
  BY <1>1
<1>6. next_id' \in 1..(MaxId + 1) /\ \A id \in ids : id < next_id'
  <2> HIDE DEF ids
  <2>1. NextAbove(ids) \in 1..(MaxId + 1) /\ \A id \in ids : id < NextAbove(ids)
    BY <1>1, <1>5, NextAboveIs DEF SignalIds
  <2>2. next_id' = NextAbove(ids)
    BY <1>2 DEF ids
  <2> QED BY <2>1, <2>2
<1>7. policy' \in Outcomes
  <2>1. NoOutcomes \in Outcomes
    BY DEF NoOutcomes, Outcomes
  <2> QED BY <1>1, <1>2, <2>1
<1>8. misread' \in BOOLEAN
  BY <1>1, <1>2 DEF Misread
<1>9. ASSUME ~misread'
      PROVE  /\ ~misread /\ seen = DOMAIN disk.signals
             /\ Aged(disk.signals, queue') /\ policy' = disk.policy
             /\ AllBelow(next_id')
  <2>1. ~misread /\ seen = DOMAIN disk.signals /\ reserved /\ learned
    BY <1>2, <1>9 DEF Misread
  <2>2. Restrict(disk.signals, seen) = disk.signals
    BY <1>1, <2>1, TableIs DEF Restrict
  <2>3. Aged(disk.signals, queue')
    BY <1>4, <2>2
  <2> QED BY <1>2, <1>6, <2>1, <2>3 DEF AllBelow
<1> QED BY <1>1, <1>2, <1>4, <1>5, <1>6, <1>7, <1>8, <1>9

-----------------------------------------------------------------------------
(* The type invariant *)

LEMMA DriveTypedInit == DriveInit => DriveTyped
<1> SUFFICES ASSUME DriveInit PROVE DriveTyped
  OBVIOUS
<1>1. Empty \in Tables /\ DOMAIN Empty = {}
  <2>1. DOMAIN Empty = {} /\ Empty = [id \in DOMAIN Empty |-> Empty[id]]
    BY DEF Empty
  <2> QED BY <2>1, TableFrom
<1>2. NoOutcomes \in Outcomes
  BY DEF NoOutcomes, Outcomes
<1>3. Idle \in Calls /\ Idle.pc \notin GatePCs
  BY DEF Calls, Idle, GatePCs
<1>4. "free" \notin Callers /\ MaxId \in Nat
  BY DriveAssumption
<1>5. calls = [c \in Callers |-> Idle] /\ up
  BY DEF DriveInit
<1>6. disk \in [signals : Tables, archive : SUBSET [id : SignalIds, signal : Signal],
                policy : Outcomes]
  BY <1>1, <1>2 DEF DriveInit
<1>7. \A c \in Callers : gate # c /\ calls[c].pc \notin GatePCs /\ calls[c] \in Calls
  BY <1>3, <1>4, <1>5 DEF DriveInit
<1>8. calls \in [Callers -> Calls]
  BY <1>3, <1>5
<1>9. queue \in Tables /\ DOMAIN queue = {} /\ policy \in Outcomes
  BY <1>1, <1>2 DEF DriveInit
<1>10. next_id \in 1..(MaxId + 1) /\ gate \in Callers \cup {"free"}
  BY <1>4 DEF DriveInit
<1>11. ledger \in [settled : SUBSET SignalIds, learned : SUBSET Fingerprints,
                  penalised : SUBSET SignalIds]
  BY DEF DriveInit
<1>12. rows_aged \in BOOLEAN /\ misread \in BOOLEAN
  BY DEF DriveInit
<1> QED BY <1>5, <1>6, <1>7, <1>8, <1>9, <1>10, <1>11, <1>12 DEF DriveTyped

LEMMA AdvancedPC ==
    ASSUME NEW call, NEW next, NEW pc, Advanced(call, next, pc)
    PROVE  next.pc = pc /\ next \in Calls
BY DEF Advanced, Calls

\* A step of a caller preserves the type.
LEMMA CallerTyped ==
    ASSUME DriveTyped, NEW c \in Callers, CallerStep(c)
    PROVE  DriveTyped'
<1> USE DEF GatePCs
<1>1. /\ queue \in Tables /\ policy \in Outcomes /\ next_id \in 1..(MaxId + 1)
      /\ disk \in [signals : Tables, archive : SUBSET [id : SignalIds, signal : Signal],
                   policy : Outcomes]
      /\ \A id \in DOMAIN queue : id < next_id
      /\ gate \in Callers \cup {"free"} /\ MaxId \in Nat /\ "free" \notin Callers
      /\ up \in BOOLEAN /\ rows_aged \in BOOLEAN /\ misread \in BOOLEAN
      /\ \A d \in Callers : gate = d <=> calls[d].pc \in GatePCs
  BY DriveAssumption DEF DriveTyped
<1>2. CASE Preparing(c)
  <2>1. calls[c].pc \notin GatePCs /\ calls'[c].pc \notin GatePCs
    BY <1>2 DEF Preparing, EarlyPCs
  <2>2. \A d \in Callers : gate' = d <=> calls'[d].pc \in GatePCs
    BY <1>1, <1>2, <2>1 DEF Preparing, OnlyCall
  <2> QED BY <1>1, <1>2, <2>2 DEF Preparing, OnlyCall, Aged, DriveTyped
<1>3. ASSUME NEW fp \in Fingerprints, Bearing(c, fp) PROVE DriveTyped'
  <2>1. calls[c].pc \notin GatePCs /\ calls'[c].pc \notin GatePCs
    BY <1>3 DEF Bearing, EarlyPCs
  <2>2. \A d \in Callers : gate' = d <=> calls'[d].pc \in GatePCs
    BY <1>1, <1>3, <2>1 DEF Bearing, OnlyCall
  <2>3. /\ next_id \in SignalIds /\ next_id' = next_id + 1 /\ queue' \in Tables
        /\ DOMAIN queue' = DOMAIN queue \cup {next_id}
    BY <1>3, EnqueueIs DEF Bearing
  <2>4. next_id' \in 1..(MaxId + 1) /\ \A id \in DOMAIN queue' : id < next_id'
    <3>1. \A id \in DOMAIN queue : id \in Int
      BY <1>1, TableIs DEF SignalIds
    <3> QED BY <1>1, <2>3, <3>1 DEF SignalIds
  <2> QED BY <1>1, <1>3, <2>2, <2>3, <2>4 DEF Bearing, OnlyCall, DriveTyped
<1>4. CASE Marking(c)
  <2>1. calls[c].pc \notin GatePCs /\ calls'[c].pc \notin GatePCs
    BY <1>4 DEF Marking, Marked, Marks
  <2>2. \A d \in Callers : gate' = d <=> calls'[d].pc \in GatePCs
    BY <1>1, <1>4, <2>1 DEF Marking, OnlyCall
  <2> QED BY <1>1, <1>4, <2>2 DEF Marking, OnlyCall, Marked, DriveTyped
<1>5. CASE Archiving(c)
  <2>1. calls'[c].pc = "archived" /\ gate = "free" /\ gate' = c
    BY <1>5 DEF Archiving, Advanced
  <2>2. \A d \in Callers : gate' = d <=> calls'[d].pc \in GatePCs
    BY <1>1, <1>5, <2>1 DEF Archiving, OnlyCall
  <2>3. /\ queue' \in Tables /\ DOMAIN queue' \subseteq DOMAIN queue
        /\ disk' \in [signals : Tables, archive : SUBSET [id : SignalIds, signal : Signal],
                      policy : Outcomes]
    <3>1. CASE UNCHANGED <<queue, disk>>
      BY <1>1, <3>1
    <3>2. ASSUME NEW old \in SUBSET DOMAIN queue,
                 queue' = Restrict(queue, DOMAIN queue \ old), disk' = Archived(old)
          PROVE  /\ queue' \in Tables /\ DOMAIN queue' \subseteq DOMAIN queue
                 /\ disk' \in [signals : Tables, policy : Outcomes,
                               archive : SUBSET [id : SignalIds, signal : Signal]]
      BY <1>1, <3>2, RestrictIs, ArchivedIs
    <3> QED BY <1>5, <3>1, <3>2 DEF Archiving
  <2> QED BY <1>1, <1>5, <2>1, <2>2, <2>3 DEF Archiving, OnlyCall, DriveTyped
<1>6. CASE Snapping(c)
  <2>1. calls[c].pc \in GatePCs /\ calls'[c].pc \in GatePCs
    BY <1>6 DEF Snapping, Snapped
  <2>2. \A d \in Callers : gate' = d <=> calls'[d].pc \in GatePCs
    BY <1>1, <1>6, <2>1 DEF Snapping, OnlyCall
  <2> QED BY <1>1, <1>6, <2>2 DEF Snapping, OnlyCall, DriveTyped, memoryVars
<1>7. CASE Writing(c)
  <2>1. calls[c].pc \in GatePCs /\ calls'[c].pc \in GatePCs /\ calls[c].signals \in Tables
    BY <1>7 DEF Writing, Advanced, Snapped
  <2>2. \A d \in Callers : gate' = d <=> calls'[d].pc \in GatePCs
    BY <1>1, <1>7, <2>1 DEF Writing, OnlyCall
  <2>3. disk' \in [signals : Tables, archive : SUBSET [id : SignalIds, signal : Signal],
                   policy : Outcomes]
    BY <1>1, <1>7, <2>1 DEF Writing
  <2> QED BY <1>1, <1>7, <2>2, <2>3 DEF Writing, OnlyCall, DriveTyped, memoryVars
<1>8. CASE SavingPolicy(c)
  <2>1. calls[c].pc \in GatePCs /\ calls'[c].pc \notin GatePCs /\ gate' = "free"
    BY <1>8 DEF SavingPolicy, Advanced
  <2>2. \A d \in Callers : gate' = d <=> calls'[d].pc \in GatePCs
    BY <1>1, <1>8, <2>1 DEF SavingPolicy, OnlyCall
  <2>3. disk' \in [signals : Tables, archive : SUBSET [id : SignalIds, signal : Signal],
                   policy : Outcomes]
    BY <1>1, <1>8 DEF SavingPolicy
  <2> QED BY <1>1, <1>8, <2>1, <2>2, <2>3 DEF SavingPolicy, OnlyCall, DriveTyped, memoryVars
<1>9. CASE Answering(c)
  <2>1. calls[c].pc \notin GatePCs /\ calls'[c].pc \notin GatePCs
    BY <1>9 DEF Answering, Idle
  <2>2. \A d \in Callers : gate' = d <=> calls'[d].pc \in GatePCs
    BY <1>1, <1>9, <2>1 DEF Answering, Answer, OnlyCall
  <2>3. ledger' \in [settled : SUBSET SignalIds, learned : SUBSET Fingerprints,
                     penalised : SUBSET SignalIds]
    <3>1. calls[c].ack => calls[c] \in AckSaves
      BY <1>9 DEF Answering, Saves, PlainSaves
    <3>2. calls[c].ack => /\ Only(calls[c].settled, calls[c].id) \subseteq SignalIds
                          /\ Only(calls[c].learned, calls[c].fp) \subseteq Fingerprints
                          /\ Only(calls[c].penalty, calls[c].id) \subseteq SignalIds
      BY <3>1 DEF AckSaves, Only
    <3> QED BY <1>9, <3>2 DEF Answering, Answer, DriveTyped
  <2> QED BY <1>1, <1>9, <2>2, <2>3 DEF Answering, Answer, OnlyCall, DriveTyped, memoryVars
<1>10. CASE ArchiveOldRows(c)
  BY <1>10, OldRowsIs DEF DriveTyped, memoryVars
<1> QED BY <1>2, <1>3, <1>4, <1>5, <1>6, <1>7, <1>8, <1>9, <1>10 DEF CallerStep
LEMMA DriveTypedStep ==
    ASSUME DriveTyped, [DriveNext]_vars
    PROVE  DriveTyped'
<1>1. CASE Crash
  <2>1. Empty \in Tables /\ DOMAIN Empty = {}
    <3>1. DOMAIN Empty = {} /\ Empty = [id \in DOMAIN Empty |-> Empty[id]]
      BY DEF Empty
    <3> QED BY <3>1, TableFrom
  <2>2. NoOutcomes \in Outcomes
    BY DEF NoOutcomes, Outcomes
  <2>3. Idle \in Calls /\ Idle.pc \notin GatePCs
    BY DEF Calls, Idle, GatePCs
  <2>4. "free" \notin Callers /\ MaxId \in Nat
    BY DriveAssumption
  <2>5. /\ calls' = [c \in Callers |-> Idle] /\ gate' = "free" /\ queue' = Empty /\ next_id' = 1
        /\ policy' = NoOutcomes /\ up' = FALSE /\ UNCHANGED <<disk, rows_aged, ledger, misread>>
    BY <1>1 DEF Crash
  <2>6. \A c \in Callers : gate' # c /\ calls'[c].pc \notin GatePCs /\ calls'[c] = Idle
    BY <2>3, <2>4, <2>5
  <2>7. calls' \in [Callers -> Calls]
    BY <2>3, <2>5
  <2>8. queue' \in Tables /\ DOMAIN queue' = {} /\ policy' \in Outcomes
    BY <2>1, <2>2, <2>5
  <2>9. next_id' \in 1..(MaxId + 1) /\ gate' \in Callers \cup {"free"}
    BY <2>4, <2>5
  <2>10. up' \in BOOLEAN /\ ~up'
    BY <2>5, Zenon
  <2> QED BY <2>5, <2>6, <2>7, <2>8, <2>9, <2>10 DEF DriveTyped
<1>2. ASSUME NEW seen \in SUBSET DOMAIN disk.signals, NEW reserved \in BOOLEAN,
             NEW learned \in BOOLEAN, NEW lapsed \in SUBSET seen,
             Restart(seen, reserved, learned, lapsed)
      PROVE  DriveTyped'
  <2>1. DOMAIN Restrict(disk.signals, seen) = seen
    BY RestrictIs DEF DriveTyped
  <2>2. /\ Aged(Restrict(disk.signals, seen), queue') /\ up' /\ rows_aged' \in BOOLEAN
        /\ misread' \in BOOLEAN /\ policy' \in Outcomes
        /\ next_id' \in 1..(MaxId + 1) /\ \A id \in seen : id < next_id'
        /\ UNCHANGED <<disk, gate, calls, ledger>>
    BY <1>2, RestartIs
  <2>3. queue' \in Tables /\ DOMAIN queue' = seen
    BY <2>1, <2>2 DEF Aged
  <2>4. up' \in BOOLEAN
    BY <1>2 DEF Restart
  <2> QED BY <2>2, <2>3, <2>4 DEF DriveTyped
<1>3. CASE UNCHANGED vars
  BY <1>3 DEF vars, memoryVars, DriveTyped
<1> QED BY <1>1, <1>2, <1>3, DriveSteps, CallerTyped

LEMMA DriveIsTyped == DriveSpec => []DriveTyped
BY DriveTypedInit, DriveTypedStep, PTL DEF DriveSpec

LEMMA TypedIsOK == DriveTyped => DriveTypeOK
<1> SUFFICES ASSUME DriveTyped PROVE DriveTypeOK
  OBVIOUS
<1>1. SignalTable(queue) /\ SignalTable(disk.signals)
  BY TableIs DEF DriveTyped, SignalTable, SignalIds
<1>2. \A entry \in disk.archive : entry.id \in 1..MaxId /\ entry.signal \in Signal
  BY DEF DriveTyped, SignalIds
<1> QED BY <1>1, <1>2 DEF DriveTyped, DriveTypeOK, GatePCs

\* Every state of the drive queue has its type: the gate is held by the caller
\* that archives, writes or is about to write, nobody else is in a save past the
\* gate, and the ids of the queue were all given out.
THEOREM DriveTypeCorrect == DriveSpec => []DriveTypeOK
BY DriveIsTyped, TypedIsOK, PTL
-----------------------------------------------------------------------------
(* No stored signal is lost, and no id is given out twice *)

\* What the queue holds, a save is about to write and the tables hold: every
\* stored id is still in the queue or was archived, and all of them were given
\* out by this counter.
IdsKept ==
    /\ (up /\ ~misread) => /\ DOMAIN disk.signals \subseteq DOMAIN queue \cup ArchivedIds
                           /\ \A id \in ArchivedIds : id < next_id
    /\ \A c \in Callers : calls[c].pc = "snapped" =>
          /\ DOMAIN calls[c].signals \subseteq DOMAIN queue \cup ArchivedIds
          /\ ~misread => DOMAIN disk.signals \subseteq DOMAIN calls[c].signals \cup ArchivedIds

\* A signal leaves table T only for the archive, comes to it under an id that
\* was not archived, and is never changed once it is settled.
Evolves(T, U, archived, archivedNow) ==
    /\ archived \subseteq archivedNow /\ DOMAIN T \subseteq DOMAIN U \cup archivedNow
    /\ \A id \in DOMAIN U :
          \/ id \in DOMAIN T /\ (Settled(T[id]) => U[id] = T[id])
          \/ id \notin DOMAIN T \cup archived

LEMMA AgedEvolves ==
    ASSUME NEW T, NEW U, NEW archived, Aged(T, U)
    PROVE  Evolves(T, U, archived, archived)
BY DEF Aged, Evolves

\* The tables through a caller's step: a write brings in the snapshot, any other
\* step leaves the rows or moves them to the archive.
DiskStep(c) ==
    \/ /\ Writing(c) /\ disk'.signals = calls[c].signals /\ ArchivedIds' = ArchivedIds
    \/ /\ Evolves(disk.signals, disk'.signals, ArchivedIds, ArchivedIds')
       /\ DOMAIN disk'.signals \subseteq DOMAIN disk.signals
       /\ \A id \in DOMAIN disk'.signals : disk'.signals[id] = disk.signals[id]

LEMMA DiskSteps ==
    ASSUME DriveTyped, NEW c \in Callers, CallerStep(c)
    PROVE  /\ DiskStep(c)
           /\ ArchivedIds \subseteq ArchivedIds'
           /\ ArchivedIds' \subseteq ArchivedIds \cup DOMAIN queue \cup DOMAIN disk.signals
<1>1. ASSUME disk'.signals = disk.signals, disk'.archive = disk.archive
      PROVE  /\ Evolves(disk.signals, disk'.signals, ArchivedIds, ArchivedIds')
             /\ DOMAIN disk'.signals \subseteq DOMAIN disk.signals
             /\ \A id \in DOMAIN disk'.signals : disk'.signals[id] = disk.signals[id]
             /\ ArchivedIds' = ArchivedIds
  BY <1>1 DEF Evolves, ArchivedIds
<1>2. disk \in [signals : Tables, archive : SUBSET [id : SignalIds, signal : Signal],
                policy : Outcomes]
  BY DEF DriveTyped
<1>3. CASE disk' = disk \/ disk' = [disk EXCEPT !.policy = policy]
  <2>1. disk'.signals = disk.signals /\ disk'.archive = disk.archive
    BY <1>2, <1>3
  <2> QED BY <1>1, <2>1 DEF DiskStep
<1>4. CASE Archiving(c)
  <2>1. ASSUME NEW old \in SUBSET DOMAIN queue, disk' = Archived(old)
        PROVE  /\ Evolves(disk.signals, disk'.signals, ArchivedIds, ArchivedIds')
               /\ DOMAIN disk'.signals \subseteq DOMAIN disk.signals
               /\ \A id \in DOMAIN disk'.signals : disk'.signals[id] = disk.signals[id]
               /\ ArchivedIds' = ArchivedIds \cup old
    BY <2>1, ArchivedIs DEF Evolves
  <2> QED BY <1>3, <1>4, <2>1 DEF Archiving, DiskStep
<1>5. CASE Writing(c)
  <2>1. CASE disk' = [disk EXCEPT !.signals = calls[c].signals]
    <3>1. disk'.signals = calls[c].signals /\ disk'.archive = disk.archive
      BY <1>2, <2>1
    <3> QED BY <1>5, <3>1 DEF DiskStep, ArchivedIds
  <2> QED BY <1>3, <1>5, <2>1 DEF Writing
<1>6. CASE ArchiveOldRows(c)
  BY <1>6, OldRowsIs DEF DiskStep, Evolves
<1> QED
  BY <1>3, <1>4, <1>5, <1>6
  DEF CallerStep, Preparing, Bearing, Marking, Snapping, SavingPolicy, Answering, Answer

\* The queue through a caller's step.
LEMMA QueueSteps ==
    ASSUME DriveTyped, NEW c \in Callers, CallerStep(c)
    PROVE  /\ up /\ up' = up /\ misread' = misread /\ next_id <= next_id'
           /\ DOMAIN queue \subseteq DOMAIN queue' \cup ArchivedIds'
           /\ (\A id \in ArchivedIds : id < next_id)
                 => Evolves(queue, queue', ArchivedIds, ArchivedIds')
<1>1. ArchivedIds \subseteq ArchivedIds' /\ ArchivedIds \subseteq SignalIds
  BY DiskSteps, ArchiveTyped
<1>2. next_id \in Nat /\ queue \in Tables
  BY DEF DriveTyped
<1>3. ASSUME Aged(queue, queue') PROVE Evolves(queue, queue', ArchivedIds, ArchivedIds')
  BY <1>1, <1>3 DEF Aged, Evolves
<1>4. Aged(queue, queue)
  BY <1>2, AgedSelf
<1>5. CASE Preparing(c)
  BY <1>2, <1>3, <1>5 DEF Preparing, OnlyCall, Evolves
<1>6. ASSUME NEW fp \in Fingerprints, Bearing(c, fp)
      PROVE  /\ up /\ up' = up /\ misread' = misread /\ next_id <= next_id'
             /\ DOMAIN queue \subseteq DOMAIN queue' \cup ArchivedIds'
             /\ (\A id \in ArchivedIds : id < next_id)
                   => Evolves(queue, queue', ArchivedIds, ArchivedIds')
  <2>1. /\ next_id \in SignalIds /\ next_id' = next_id + 1 /\ next_id \notin DOMAIN queue
        /\ DOMAIN queue' = DOMAIN queue \cup {next_id}
        /\ \A id \in DOMAIN queue : queue'[id] = queue[id]
    BY <1>6, EnqueueIs DEF Bearing
  <2>2. (\A id \in ArchivedIds : id < next_id)
            => Evolves(queue, queue', ArchivedIds, ArchivedIds')
    <3> SUFFICES ASSUME \A id \in ArchivedIds : id < next_id
                 PROVE  Evolves(queue, queue', ArchivedIds, ArchivedIds')
      OBVIOUS
    <3>1. next_id \notin ArchivedIds
      BY <1>2
    <3> QED BY <1>1, <2>1, <3>1 DEF Evolves
  <2> QED BY <1>2, <1>6, <2>1, <2>2 DEF Bearing, OnlyCall
<1>7. CASE Marking(c)
  BY <1>1, <1>2, <1>7 DEF Marking, Marked, OnlyCall, Evolves
<1>8. CASE Archiving(c)
  <2>1. up /\ up' = up /\ misread' = misread /\ next_id' = next_id
    BY <1>8 DEF Archiving, OnlyCall
  <2>3. ASSUME NEW old \in SUBSET DOMAIN queue,
               queue' = Restrict(queue, DOMAIN queue \ old), disk' = Archived(old)
        PROVE  Evolves(queue, queue', ArchivedIds, ArchivedIds')
    <3>1. /\ DOMAIN queue' = DOMAIN queue \ old
          /\ \A id \in DOMAIN queue \ old : queue'[id] = queue[id]
      BY <1>2, <2>3, RestrictIs
    <3>2. ArchivedIds' = ArchivedIds \cup old
      BY <2>3, ArchivedIs
    <3> QED BY <3>1, <3>2 DEF Evolves
  <2>4. Evolves(queue, queue', ArchivedIds, ArchivedIds')
    <3>1. UNCHANGED <<queue, disk>> => Evolves(queue, queue', ArchivedIds, ArchivedIds')
      BY <1>3, <1>4
    <3> QED BY <1>8, <2>3, <3>1 DEF Archiving
  <2>5. DOMAIN queue \subseteq DOMAIN queue' \cup ArchivedIds' /\ next_id <= next_id'
    BY <1>2, <2>1, <2>4 DEF Evolves
  <2> QED BY <2>1, <2>4, <2>5
<1>9. CASE Snapping(c) \/ Writing(c) \/ SavingPolicy(c) \/ Answering(c)
  BY <1>1, <1>2, <1>3, <1>4, <1>9
  DEF Snapping, Writing, SavingPolicy, Answering, Answer, OnlyCall, memoryVars, Evolves
<1>10. CASE ArchiveOldRows(c)
  BY <1>1, <1>2, <1>3, <1>4, <1>10, OldRowsIs DEF memoryVars, Evolves
<1> QED BY <1>5, <1>6, <1>7, <1>8, <1>9, <1>10 DEF CallerStep

\* A snapshot is the queue's, or one taken before.
LEMMA SnapshotSteps ==
    ASSUME DriveTyped, NEW c \in Callers, CallerStep(c),
           NEW d \in Callers, calls'[d].pc = "snapped"
    PROVE  \/ /\ d # c \/ ArchiveOldRows(c)
              /\ calls[d] = calls'[d] /\ calls[d].pc = "snapped"
              /\ ~Writing(c)
           \/ d = c /\ Snapping(c) /\ calls'[d].signals = queue /\ queue' = queue /\ disk' = disk
<1>1. ASSUME Writing(c), d # c PROVE FALSE
  <2>1. calls[c].pc = "snapped" /\ calls[d].pc = "snapped"
    BY <1>1 DEF Writing, Snapped, OnlyCall
  <2> QED BY <1>1, <2>1 DEF DriveTyped, GatePCs
<1>2. CASE ArchiveOldRows(c)
  <2>1. calls' = calls /\ UNCHANGED memoryVars /\ calls[c].pc = "idle"
    BY <1>2 DEF ArchiveOldRows, At
  <2>2. ~Writing(c)
    BY <2>1 DEF Writing, Snapped
  <2> QED BY <1>2, <2>1, <2>2
<1>3. CASE ~ArchiveOldRows(c)
  <2>1. OnlyCall(c)
    BY <1>3 DEF CallerStep, Preparing, Bearing, Marking, Archiving, Snapping, Writing,
                SavingPolicy, Answering
  <2>2. CASE d # c
    BY <1>1, <2>1, <2>2 DEF OnlyCall
  <2>3. CASE d = c
    <3>1. Snapping(c)
      BY <1>3, <2>3 DEF CallerStep, Preparing, EarlyPCs, Bearing, Marking, Marked, Archiving,
                        Writing, SavingPolicy, Answering, Advanced, Idle
    <3> QED BY <2>3, <3>1 DEF Snapping, memoryVars
  <2> QED BY <2>2, <2>3
<1> QED BY <1>2, <1>3
LEMMA IdsKeptInit == DriveInit => IdsKept
<1> SUFFICES ASSUME DriveInit PROVE IdsKept
  OBVIOUS
<1>1. DOMAIN disk.signals = {} /\ ArchivedIds = {}
  BY DEF DriveInit, Empty, ArchivedIds
<1>2. \A c \in Callers : calls[c].pc # "snapped"
  BY DEF DriveInit, Idle
<1> QED BY <1>1, <1>2 DEF IdsKept

LEMMA IdsKeptCaller ==
    ASSUME DriveTyped, IdsKept, NEW c \in Callers, CallerStep(c)
    PROVE  IdsKept'
<1>1. /\ up /\ up' = up /\ misread' = misread /\ next_id <= next_id' /\ next_id \in Nat
      /\ next_id' \in Nat
      /\ DOMAIN queue \subseteq DOMAIN queue' \cup ArchivedIds'
  BY QueueSteps, CallerTyped DEF DriveTyped
<1>2. /\ DiskStep(c) /\ ArchivedIds \subseteq ArchivedIds'
      /\ ArchivedIds' \subseteq ArchivedIds \cup DOMAIN queue \cup DOMAIN disk.signals
  BY DiskSteps
<1>3. ASSUME ~misread PROVE \A id \in ArchivedIds' : id < next_id'
  <2>1. \A id \in ArchivedIds' : id < next_id
    BY <1>1, <1>2, <1>3 DEF IdsKept, DriveTyped
  <2>2. ArchivedIds' \subseteq Nat
    BY CallerTyped DEF DriveTyped, ArchivedIds, SignalIds
  <2> QED BY <1>1, <2>1, <2>2
<1>4. ASSUME ~misread PROVE DOMAIN disk'.signals \subseteq DOMAIN queue' \cup ArchivedIds'
  <2>1. CASE Writing(c) /\ disk'.signals = calls[c].signals
    <3>1. calls[c].pc = "snapped"
      BY <2>1 DEF Writing, Snapped
    <3> QED BY <1>1, <1>2, <2>1, <3>1 DEF IdsKept
  <2>2. CASE DOMAIN disk'.signals \subseteq DOMAIN disk.signals
    BY <1>1, <1>2, <1>4, <2>2 DEF IdsKept
  <2> QED BY <1>2, <2>1, <2>2 DEF DiskStep
<1>5. ASSUME NEW d \in Callers, calls'[d].pc = "snapped"
      PROVE  /\ DOMAIN calls'[d].signals \subseteq DOMAIN queue' \cup ArchivedIds'
             /\ ~misread' => DOMAIN disk'.signals \subseteq DOMAIN calls'[d].signals \cup ArchivedIds'
  <2>1. CASE calls[d] = calls'[d] /\ calls[d].pc = "snapped" /\ ~Writing(c)
    <3>1. DOMAIN disk'.signals \subseteq DOMAIN disk.signals
      BY <1>2, <2>1 DEF DiskStep
    <3> QED BY <1>1, <1>2, <2>1, <3>1 DEF IdsKept
  <2>2. CASE calls'[d].signals = queue /\ queue' = queue /\ disk' = disk
    BY <1>1, <1>2, <2>2 DEF IdsKept
  <2> QED BY <1>5, <2>1, <2>2, SnapshotSteps
<1> QED BY <1>1, <1>3, <1>4, <1>5 DEF IdsKept

LEMMA IdsKeptStep ==
    ASSUME DriveTyped, IdsKept, [DriveNext]_vars
    PROVE  IdsKept'
<1>1. CASE Crash
  <2>1. up' = FALSE /\ \A c \in Callers : calls'[c] = Idle
    BY <1>1 DEF Crash
  <2> QED BY <2>1 DEF IdsKept, Idle
<1>2. ASSUME NEW seen \in SUBSET DOMAIN disk.signals, NEW reserved \in BOOLEAN,
             NEW learned \in BOOLEAN, NEW lapsed \in SUBSET seen,
             Restart(seen, reserved, learned, lapsed)
      PROVE  IdsKept'
  <2>0. ~misread' => Aged(disk.signals, queue') /\ AllBelow(next_id')
    BY <1>2, RestartIs
  <2>1. ~up /\ UNCHANGED <<disk, calls>>
    BY <1>2 DEF Restart
  <2>2. \A c \in Callers : calls[c] = Idle
    BY <2>1 DEF DriveTyped
  <2>3. ArchivedIds' = ArchivedIds
    BY <2>1 DEF ArchivedIds
  <2> QED BY <2>0, <2>1, <2>2, <2>3 DEF IdsKept, AllBelow, Aged, Idle
<1>3. CASE UNCHANGED vars
  BY <1>3 DEF vars, memoryVars, IdsKept, ArchivedIds
<1> QED BY <1>1, <1>2, <1>3, DriveSteps, IdsKeptCaller

LEMMA IdsAreKept == DriveSpec => [](DriveTyped /\ IdsKept)
<1>1. DriveInit => DriveTyped /\ IdsKept
  BY DriveTypedInit, IdsKeptInit
<1>2. DriveTyped /\ IdsKept /\ [DriveNext]_vars => (DriveTyped /\ IdsKept)'
  BY DriveTypedStep, IdsKeptStep
<1> QED BY <1>1, <1>2, PTL DEF DriveSpec

StoredStays == \A id \in DOMAIN disk.signals :
                  id \in DOMAIN disk'.signals \/ id \in ArchivedIds' \/ misread
BornFresh   == \A id \in DOMAIN queue' \ DOMAIN queue :
                  (up /\ ~misread) => id \notin DOMAIN disk.signals \cup ArchivedIds

LEMMA StepKeepsIds ==
    ASSUME DriveTyped, IdsKept, [DriveNext]_vars
    PROVE  StoredStays /\ BornFresh
<1>1. ASSUME NEW c \in Callers, CallerStep(c) PROVE StoredStays /\ BornFresh
  <2>1. StoredStays
    <3>1. CASE Writing(c) /\ disk'.signals = calls[c].signals /\ ArchivedIds' = ArchivedIds
      <4>1. calls[c].pc = "snapped"
        BY <3>1 DEF Writing, Snapped
      <4> QED BY <3>1, <4>1 DEF IdsKept, StoredStays
    <3>2. CASE Evolves(disk.signals, disk'.signals, ArchivedIds, ArchivedIds')
      BY <3>2 DEF Evolves, StoredStays
    <3> QED BY <1>1, <3>1, <3>2, DiskSteps DEF DiskStep
  <2>2. BornFresh
    BY <1>1, QueueSteps DEF IdsKept, Evolves, BornFresh
  <2> QED BY <2>1, <2>2
<1>2. CASE Crash
  <2>1. disk' = disk /\ queue' = Empty
    BY <1>2 DEF Crash
  <2> QED BY <2>1 DEF StoredStays, BornFresh, Empty
<1>3. ASSUME NEW seen \in SUBSET DOMAIN disk.signals, NEW reserved \in BOOLEAN,
             NEW learned \in BOOLEAN, NEW lapsed \in SUBSET seen,
             Restart(seen, reserved, learned, lapsed)
      PROVE  StoredStays /\ BornFresh
  <2>1. disk' = disk /\ ~up
    BY <1>3, RestartIs
  <2> QED BY <2>1 DEF StoredStays, BornFresh
<1>4. CASE UNCHANGED vars
  BY <1>4 DEF vars, memoryVars, StoredStays, BornFresh
<1> QED BY <1>1, <1>2, <1>3, <1>4, DriveSteps

\* No row of the stored signals is lost: whatever saves and archives run at the
\* same time and wherever the process crashes, a row leaves its table only for
\* the archive (unless a start-up could not read what was stored).
THEOREM StoredSignalsKept == DriveSpec => StoredIsKept
<1>1. DriveTyped /\ IdsKept /\ [DriveNext]_vars => StoredStays
  BY StepKeepsIds
<1>2. [StoredStays]_vars => [\A id \in DOMAIN disk.signals :
                                id \in DOMAIN disk'.signals \/ id \in ArchivedIds' \/ misread]_vars
  BY DEF StoredStays
<1> QED BY <1>1, <1>2, IdsAreKept, PTL DEF DriveSpec, StoredIsKept

\* No signal is born under an id that a stored or archived signal has, also after
\* any number of restarts.
THEOREM SignalIdsFresh == DriveSpec => IdsNeverReused
<1>1. DriveTyped /\ IdsKept /\ [DriveNext]_vars => BornFresh
  BY StepKeepsIds
<1>2. [BornFresh]_vars => [\A id \in DOMAIN queue' \ DOMAIN queue :
          (up /\ ~misread) => id \notin DOMAIN disk.signals \cup ArchivedIds]_vars
  BY DEF BornFresh
<1> QED BY <1>1, <1>2, IdsAreKept, PTL DEF DriveSpec, IdsNeverReused
-----------------------------------------------------------------------------
(* An acknowledgement that was saved is never undone *)

\* Table T holds id settled, and as a dead letter if it was answered as one, or
\* the archive has it.
Kept(T, archived, id, dead) ==
    /\ id \in DOMAIN T \cup archived
    /\ id \in DOMAIN T => Settled(T[id]) /\ (dead => T[id].status = "rejected")

\* What a call will answer, also while it holds a snapshot.
AckOf(c)    == IF calls[c].pc = "snapped" THEN calls[c].call ELSE calls[c]
Acking(c)   == calls[c].pc \in SavePCs \cup {"snapped"} /\ AckOf(c).ack
Settling(c) == Acking(c) /\ AckOf(c).settled

AckKept(T, c)            == Kept(T, ArchivedIds, AckOf(c).id, AckOf(c).penalty)
LedgerKept(T, told, archived) ==
    \A id \in told.settled : Kept(T, archived, id, id \in told.penalised)

\* The retry count an acknowledgement has seen is not above the signal's.
SeenBehind ==
    /\ \A c \in Callers : calls[c].pc = "mark" =>
          /\ calls[c].id < next_id
          /\ calls[c].id \in DOMAIN queue => calls[c].seen <= queue[calls[c].id].retries
    /\ \A c \in Callers : Acking(c) /\ AckOf(c).penalty => AckOf(c).settled
    /\ ledger.penalised \subseteq ledger.settled

\* The queue, every snapshot on its way to the disk and the disk hold settled
\* what was answered; they also hold what a call that has come past them settled.
SettledKept ==
    ~misread =>
      /\ up => /\ LedgerKept(queue, ledger, ArchivedIds)
               /\ \A c \in Callers : Settling(c) => AckKept(queue, c)
      /\ \A d \in Callers : calls[d].pc = "snapped" =>
            /\ LedgerKept(calls[d].signals, ledger, ArchivedIds)
            /\ \A c \in Callers : Settling(c) /\ (c = d \/ calls[c].pc = "answer")
                  => AckKept(calls[d].signals, c)
      /\ LedgerKept(disk.signals, ledger, ArchivedIds)
      /\ \A c \in Callers : Settling(c) /\ calls[c].pc \in {"written", "answer"} /\ calls[c].clean
            => AckKept(disk.signals, c)

LEMMA KeptEvolves ==
    ASSUME NEW T, NEW U, NEW archived, NEW archivedNow, Evolves(T, U, archived, archivedNow),
           NEW id, NEW dead, Kept(T, archived, id, dead)
    PROVE  Kept(U, archivedNow, id, dead)
BY DEF Evolves, Kept

LEMMA EvolvesSelf ==
    ASSUME NEW T, NEW archived, NEW archivedNow, archived \subseteq archivedNow
    PROVE  Evolves(T, T, archived, archivedNow)
BY DEF Evolves

\* What a call says while it saves stays what it was when it marked.
LEMMA AckSteps ==
    ASSUME DriveTyped, NEW c \in Callers, CallerStep(c), NEW d \in Callers, Acking(d)'
    PROVE  \/ d = c /\ Marking(c)
           \/ /\ Acking(d) /\ AckOf(d)'.id = AckOf(d).id
              /\ AckOf(d)'.settled = AckOf(d).settled /\ AckOf(d)'.penalty = AckOf(d).penalty
              /\ AckOf(d)'.fp = AckOf(d).fp /\ AckOf(d)'.learned = AckOf(d).learned
<1> DEFINE Same == /\ Acking(d) /\ AckOf(d)'.id = AckOf(d).id
                   /\ AckOf(d)'.settled = AckOf(d).settled /\ AckOf(d)'.penalty = AckOf(d).penalty
                   /\ AckOf(d)'.fp = AckOf(d).fp /\ AckOf(d)'.learned = AckOf(d).learned
<1>1. ASSUME calls'[d] = calls[d] PROVE Same
  BY <1>1 DEF Acking, AckOf
<1>2. CASE d # c \/ ArchiveOldRows(c)
  <2>1. calls'[d] = calls[d]
    BY <1>2 DEF CallerStep, Preparing, Bearing, Marking, Archiving, Snapping, Writing,
                SavingPolicy, Answering, OnlyCall, ArchiveOldRows
  <2> QED BY <1>1, <2>1
<1>3. CASE d = c /\ ~ArchiveOldRows(c) /\ ~Marking(c)
  <2>1. CASE Preparing(c) \/ (\E fp \in Fingerprints : Bearing(c, fp)) \/ Answering(c)
    <3>1. calls'[c].pc \in EarlyPCs \/ (calls'[c].pc = "save" /\ ~calls'[c].ack)
      BY <2>1 DEF Preparing, Bearing, Answering, Idle, EarlyPCs
    <3> QED BY <1>3, <3>1 DEF Acking, AckOf, EarlyPCs, SavePCs
  <2>2. CASE Archiving(c) \/ SavingPolicy(c)
    <3>1. calls[c].pc \in SavePCs /\ calls'[c].pc \in SavePCs /\ SameSay(calls[c], calls'[c])
      BY <2>2 DEF Archiving, SavingPolicy, Advanced, SavePCs
    <3>2. AckOf(c) = calls[c] /\ AckOf(c)' = calls'[c]
      BY <3>1 DEF AckOf, SavePCs
    <3> QED BY <1>3, <3>1, <3>2 DEF Acking, SameSay
  <2>3. CASE Snapping(c)
    <3>1. AckOf(c) = calls[c] /\ AckOf(c)' = calls[c] /\ calls[c].pc \in SavePCs
      BY <2>3 DEF Snapping, Snapped, AckOf, SavePCs
    <3> QED BY <1>3, <3>1 DEF Acking
  <2>4. CASE Writing(c)
    <3>1. /\ AckOf(c) = calls[c].call /\ AckOf(c)' = calls'[c] /\ SameSay(calls[c].call, calls'[c])
          /\ calls[c].pc = "snapped"
      BY <2>4 DEF Writing, Advanced, Snapped, AckOf
    <3> QED BY <1>3, <3>1 DEF Acking, SameSay
  <2> QED BY <1>3, <2>1, <2>2, <2>3, <2>4 DEF CallerStep
<1> QED BY <1>2, <1>3

\* Retry counts only grow, and no id below next_id comes to the queue.
LEMMA RetrySteps ==
    ASSUME DriveTyped, NEW c \in Callers, CallerStep(c), NEW id \in DOMAIN queue', id < next_id
    PROVE  id \in DOMAIN queue /\ queue'[id].retries >= queue[id].retries
<1>1. /\ queue \in Tables /\ next_id \in Nat
      /\ \A x \in DOMAIN queue : queue[x].retries \in Nat
  BY TableIs DEF DriveTyped, Signal
<1>2. CASE queue' = queue
  BY <1>1, <1>2
<1>3. CASE Preparing(c)
  BY <1>1, <1>3 DEF Preparing, Aged
<1>4. ASSUME NEW fp \in Fingerprints, Bearing(c, fp)
      PROVE  id \in DOMAIN queue /\ queue'[id].retries >= queue[id].retries
  <2>1. /\ DOMAIN queue' = DOMAIN queue \cup {next_id}
        /\ \A x \in DOMAIN queue : queue'[x] = queue[x]
    BY <1>4, EnqueueIs DEF Bearing
  <2> QED BY <1>1, <2>1
<1>5. CASE Marking(c)
  BY <1>1, <1>5 DEF Marking, Marked
<1>6. CASE Archiving(c)
  <2>1. ASSUME NEW old \in SUBSET DOMAIN queue, queue' = Restrict(queue, DOMAIN queue \ old)
        PROVE  id \in DOMAIN queue /\ queue'[id].retries >= queue[id].retries
    BY <1>1, <2>1, RestrictIs
  <2> QED BY <1>2, <1>6, <2>1 DEF Archiving
<1> QED
  BY <1>2, <1>3, <1>4, <1>5, <1>6
  DEF CallerStep, Snapping, Writing, SavingPolicy, Answering, Answer, ArchiveOldRows, memoryVars

\* What an answer adds to the ledger is what the call said.
LEMMA LedgerSteps ==
    ASSUME DriveTyped, NEW c \in Callers, CallerStep(c)
    PROVE  \/ ledger' = ledger
           \/ /\ Answering(c) /\ Acking(c) /\ AckOf(c) = calls[c]
              /\ calls[c].clean /\ calls[c].pc = "answer"
              /\ UNCHANGED <<queue, disk>>
              /\ ledger'.settled   = ledger.settled   \cup Only(calls[c].settled, calls[c].id)
              /\ ledger'.learned   = ledger.learned   \cup Only(calls[c].learned, calls[c].fp)
              /\ ledger'.penalised = ledger.penalised \cup Only(calls[c].penalty, calls[c].id)
<1>1. CASE Answering(c)
  <2>1. calls[c].pc = "answer" /\ AckOf(c) = calls[c] /\ "answer" \in SavePCs /\ Answer(c)
    BY <1>1 DEF Answering, AckOf, SavePCs
  <2> QED BY <1>1, <2>1 DEF Answer, Acking, memoryVars
<1> QED
  BY <1>1
  DEF CallerStep, Preparing, Bearing, Marking, Archiving, Snapping, Writing, SavingPolicy,
      ArchiveOldRows
LEMMA SeenBehindInit == DriveInit => SeenBehind
<1> SUFFICES ASSUME DriveInit PROVE SeenBehind
  OBVIOUS
<1>1. \A c \in Callers : calls[c].pc = "idle"
  BY DEF DriveInit, Idle
<1>2. \A c \in Callers : ~Acking(c) /\ calls[c].pc # "mark"
  BY <1>1 DEF Acking, SavePCs
<1>3. ledger.penalised = {}
  BY DEF DriveInit
<1> QED BY <1>2, <1>3 DEF SeenBehind

LEMMA SeenBehindCaller ==
    ASSUME DriveTyped, SeenBehind, NEW c \in Callers, CallerStep(c)
    PROVE  SeenBehind'
<1>1. next_id \in Nat /\ next_id' \in Nat /\ next_id <= next_id'
  BY QueueSteps, CallerTyped DEF DriveTyped
<1>2. ASSUME NEW d \in Callers, calls'[d].pc = "mark"
      PROVE  /\ calls'[d].id < next_id'
             /\ calls'[d].id \in DOMAIN queue' => calls'[d].seen <= queue'[calls'[d].id].retries
  <2>1. CASE calls'[d] = calls[d]
    <3>1. calls[d] \in Marks /\ calls[d].id \in Nat /\ calls[d].seen \in Nat
      BY <1>2, <2>1, CallAt DEF Marks, SignalIds
    <3>2. calls[d].id < next_id
      BY <1>2, <2>1 DEF SeenBehind
    <3>3. ASSUME calls[d].id \in DOMAIN queue'
          PROVE  calls[d].seen <= queue'[calls[d].id].retries
      <4>1. /\ calls[d].id \in DOMAIN queue
            /\ queue'[calls[d].id].retries >= queue[calls[d].id].retries
        BY <3>2, <3>3, RetrySteps
      <4>2. calls[d].seen <= queue[calls[d].id].retries
        BY <1>2, <2>1, <4>1 DEF SeenBehind
      <4>3. queue[calls[d].id] \in Signal
        BY <4>1, TableIs DEF DriveTyped
      <4>4. queue' \in Tables
        BY CallerTyped DEF DriveTyped
      <4>5. queue'[calls[d].id] \in Signal
        BY <3>3, <4>4, TableIs
      <4> QED BY <3>1, <4>1, <4>2, <4>3, <4>5 DEF Signal
    <3> QED BY <1>1, <2>1, <3>1, <3>2, <3>3
  <2>2. CASE d = c /\ Preparing(c)
    BY <1>2, <2>2 DEF Preparing
  <2>3. CASE ~(calls'[d] = calls[d]) /\ ~(d = c /\ Preparing(c))
    BY <1>2, <2>3
    DEF CallerStep, Preparing, Bearing, Marking, Marked, Archiving, Snapping, Snapped, Writing,
        SavingPolicy, Answering, Idle, Advanced, OnlyCall, ArchiveOldRows
  <2> QED BY <2>1, <2>2, <2>3
<1>3. ASSUME NEW d \in Callers, Acking(d)', AckOf(d)'.penalty PROVE AckOf(d)'.settled
  <2>1. CASE d = c /\ Marking(c)
    <3>1. /\ calls'[c].pc = "save" /\ calls[c] \in Marks /\ calls[c].pc = "mark"
          /\ Marked(c, calls[c].id)
      BY <2>1 DEF Marking, Marked, Marks
    <3>2. AckOf(c)' = calls'[c]
      BY <3>1 DEF AckOf
    <3>3. calls[c].id \in DOMAIN queue /\ calls[c].seen <= queue[calls[c].id].retries
      BY <3>1 DEF SeenBehind, Marked
    <3> QED BY <1>3, <2>1, <3>1, <3>2, <3>3 DEF Marked
  <2>2. CASE /\ Acking(d) /\ AckOf(d)'.settled = AckOf(d).settled
             /\ AckOf(d)'.penalty = AckOf(d).penalty
    BY <1>3, <2>2 DEF SeenBehind
  <2> QED BY <1>3, <2>1, <2>2, AckSteps
<1>4. ledger'.penalised \subseteq ledger'.settled
  BY LedgerSteps DEF SeenBehind, Only
<1> QED BY <1>2, <1>3, <1>4 DEF SeenBehind

LEMMA SeenBehindStep ==
    ASSUME DriveTyped, SeenBehind, [DriveNext]_vars
    PROVE  SeenBehind'
<1>1. ASSUME \A c \in Callers : calls'[c] = Idle, ledger' = ledger PROVE SeenBehind'
  BY <1>1 DEF SeenBehind, Acking, Idle, SavePCs
<1>2. CASE Crash
  BY <1>1, <1>2 DEF Crash
<1>3. ASSUME NEW seen \in SUBSET DOMAIN disk.signals, NEW reserved \in BOOLEAN,
             NEW learned \in BOOLEAN, NEW lapsed \in SUBSET seen,
             Restart(seen, reserved, learned, lapsed)
      PROVE  SeenBehind'
  BY <1>1, <1>3 DEF Restart, DriveTyped
<1>4. CASE UNCHANGED vars
  BY <1>4 DEF vars, memoryVars, SeenBehind, Acking, AckOf
<1> QED BY <1>2, <1>3, <1>4, DriveSteps, SeenBehindCaller
\* A table that kept what was answered, and what the call that answers now had
\* to say, keeps what has been answered after the step.
LEMMA LedgerGoes ==
    ASSUME DriveTyped, SeenBehind, NEW c \in Callers, CallerStep(c), NEW T, NEW U,
           LedgerKept(T, ledger, ArchivedIds), Evolves(T, U, ArchivedIds, ArchivedIds'),
           Answering(c) /\ Settling(c) /\ calls[c].clean /\ calls[c].pc = "answer" => AckKept(T, c)
    PROVE  LedgerKept(U, ledger', ArchivedIds')
<1> SUFFICES ASSUME NEW id \in ledger'.settled
             PROVE  Kept(U, ArchivedIds', id, id \in ledger'.penalised)
  BY DEF LedgerKept
<1>1. CASE ledger' = ledger
  BY <1>1, KeptEvolves DEF LedgerKept
<1>2. CASE /\ Answering(c) /\ Acking(c) /\ AckOf(c) = calls[c]
           /\ calls[c].clean /\ calls[c].pc = "answer"
           /\ ledger'.settled   = ledger.settled   \cup Only(calls[c].settled, calls[c].id)
           /\ ledger'.penalised = ledger.penalised \cup Only(calls[c].penalty, calls[c].id)
  <2>1. calls[c].settled => Kept(T, ArchivedIds, calls[c].id, calls[c].penalty)
    BY <1>2 DEF Settling, AckKept
  <2>2. calls[c].penalty => calls[c].settled
    BY <1>2 DEF SeenBehind
  <2>3. id \in ledger.settled \/ (id = calls[c].id /\ calls[c].settled)
    BY <1>2 DEF Only
  <2>4. id \in ledger'.penalised => id \in ledger.penalised \/ (id = calls[c].id /\ calls[c].penalty)
    BY <1>2 DEF Only
  <2>5. /\ id \in ledger.settled => Kept(T, ArchivedIds, id, id \in ledger.penalised)
        /\ id \in ledger.penalised => id \in ledger.settled
    BY DEF LedgerKept, SeenBehind
  <2>6. Kept(T, ArchivedIds, id, id \in ledger'.penalised)
    BY <2>1, <2>2, <2>3, <2>4, <2>5 DEF Kept
  <2> QED BY <2>6, KeptEvolves
<1> QED BY <1>1, <1>2, LedgerSteps

LEMMA AckGoes ==
    ASSUME NEW T, NEW U, Evolves(T, U, ArchivedIds, ArchivedIds'), NEW d \in Callers,
           AckKept(T, d), AckOf(d)'.id = AckOf(d).id, AckOf(d)'.penalty = AckOf(d).penalty
    PROVE  Kept(U, ArchivedIds', AckOf(d)'.id, AckOf(d)'.penalty)
BY KeptEvolves DEF AckKept

\* The signal a caller marks is settled in the queue when it says so.
LEMMA MarkKeeps ==
    ASSUME DriveTyped, SeenBehind, NEW c \in Callers, Marking(c), Settling(c)'
    PROVE  Kept(queue', ArchivedIds', AckOf(c)'.id, AckOf(c)'.penalty)
<1>1. /\ calls'[c].pc = "save" /\ calls[c] \in Marks /\ calls[c].pc = "mark"
      /\ Marked(c, calls[c].id)
  BY DEF Marking, Marked, Marks
<1>2. AckOf(c)' = calls'[c] /\ calls'[c].id = calls[c].id /\ calls'[c].settled
  BY <1>1 DEF AckOf, Settling, Marked
<1>3. calls[c].id \in DOMAIN queue /\ calls[c].seen <= queue[calls[c].id].retries
  BY <1>1 DEF SeenBehind, Marked
<1>4. /\ calls[c].id \in DOMAIN queue' /\ Settled(queue'[calls[c].id])
      /\ calls'[c].penalty => queue'[calls[c].id].status = "rejected"
  BY <1>1, <1>2, <1>3 DEF Marked
<1> QED BY <1>2, <1>4 DEF Kept

\* The four parts of SettledKept, each through a caller's step.
LEMMA QueueSettled ==
    ASSUME DriveTyped, IdsKept, SeenBehind, SettledKept, ~misread, NEW c \in Callers, CallerStep(c)
    PROVE  /\ LedgerKept(queue', ledger', ArchivedIds')
           /\ \A d \in Callers : Settling(d)'
                 => Kept(queue', ArchivedIds', AckOf(d)'.id, AckOf(d)'.penalty)
<1>1. up
  BY QueueSteps
<1>2. Evolves(queue, queue', ArchivedIds, ArchivedIds')
  BY <1>1, QueueSteps DEF IdsKept
<1>3. /\ LedgerKept(queue, ledger, ArchivedIds)
      /\ \A d \in Callers : Settling(d) => AckKept(queue, d)
  BY <1>1 DEF SettledKept
<1>4. LedgerKept(queue', ledger', ArchivedIds')
  BY <1>2, <1>3, LedgerGoes
<1>5. ASSUME NEW d \in Callers, Settling(d)'
      PROVE  Kept(queue', ArchivedIds', AckOf(d)'.id, AckOf(d)'.penalty)
  <2>1. CASE d = c /\ Marking(c)
    BY <1>5, <2>1, MarkKeeps
  <2>2. CASE /\ Acking(d) /\ AckOf(d)'.id = AckOf(d).id
             /\ AckOf(d)'.settled = AckOf(d).settled /\ AckOf(d)'.penalty = AckOf(d).penalty
    <3>1. Settling(d)
      BY <1>5, <2>2 DEF Settling
    <3> QED BY <1>2, <1>3, <2>2, <3>1, AckGoes
  <2>3. Acking(d)'
    BY <1>5 DEF Settling
  <2> QED BY <2>1, <2>2, <2>3, AckSteps
<1> QED BY <1>4, <1>5

\* A call that goes past its save held the gate until then.
LEMMA PastTheGate ==
    ASSUME DriveTyped, NEW c \in Callers, CallerStep(c), NEW d \in Callers,
           calls'[d].pc = "answer"
    PROVE  calls'[d] = calls[d] \/ (d = c /\ SavingPolicy(c) /\ calls[c].pc = "written")
BY DEF CallerStep, Preparing, EarlyPCs, Bearing, Marking, Marked, Archiving, Snapping, Snapped,
       Writing, SavingPolicy, Answering, Idle, Advanced, OnlyCall, ArchiveOldRows

LEMMA SnapshotsSettled ==
    ASSUME DriveTyped, IdsKept, SeenBehind, SettledKept, ~misread, NEW c \in Callers, CallerStep(c),
           NEW d \in Callers, calls'[d].pc = "snapped"
    PROVE  /\ LedgerKept(calls'[d].signals, ledger', ArchivedIds')
           /\ \A e \in Callers : Settling(e)' /\ (e = d \/ calls'[e].pc = "answer")
                 => Kept(calls'[d].signals, ArchivedIds', AckOf(e)'.id, AckOf(e)'.penalty)
<1>1. CASE d = c /\ Snapping(c) /\ calls'[d].signals = queue /\ queue' = queue /\ disk' = disk
  BY <1>1, QueueSettled
<1>2. CASE /\ (d # c \/ ArchiveOldRows(c))
           /\ calls[d] = calls'[d] /\ calls[d].pc = "snapped" /\ ~Writing(c)
  <2>1. Evolves(calls[d].signals, calls'[d].signals, ArchivedIds, ArchivedIds')
    BY <1>2, DiskSteps, EvolvesSelf
  <2>2. /\ LedgerKept(calls[d].signals, ledger, ArchivedIds)
        /\ \A e \in Callers : Settling(e) /\ (e = d \/ calls[e].pc = "answer")
              => AckKept(calls[d].signals, e)
    BY <1>2 DEF SettledKept
  <2>3. LedgerKept(calls'[d].signals, ledger', ArchivedIds')
    BY <2>1, <2>2, LedgerGoes
  <2>4. ASSUME NEW e \in Callers, Settling(e)', e = d \/ calls'[e].pc = "answer"
        PROVE  Kept(calls'[d].signals, ArchivedIds', AckOf(e)'.id, AckOf(e)'.penalty)
    <3>1. e = d \/ calls[e].pc = "answer"
      <4>1. ASSUME e = c, SavingPolicy(c), calls[c].pc = "written", e # d PROVE FALSE
        BY <1>2, <4>1 DEF DriveTyped, GatePCs
      <4> QED BY <2>4, <4>1, PastTheGate
    <3>2. ~(e = c /\ Marking(c))
      <4>1. SUFFICES ASSUME e = c, Marking(c) PROVE FALSE
        OBVIOUS
      <4>2. calls[c].pc = "mark"
        BY <4>1 DEF Marking, Marks
      <4> QED BY <1>2, <3>1, <4>1, <4>2
    <3>3. /\ Acking(e) /\ AckOf(e)'.id = AckOf(e).id
          /\ AckOf(e)'.settled = AckOf(e).settled /\ AckOf(e)'.penalty = AckOf(e).penalty
      BY <2>4, <3>2, AckSteps DEF Settling
    <3>4. Settling(e)
      BY <2>4, <3>3 DEF Settling
    <3>5. AckKept(calls[d].signals, e)
      BY <2>2, <3>1, <3>4
    <3> QED BY <2>1, <3>3, <3>5, AckGoes
  <2> QED BY <2>3, <2>4
<1> QED BY <1>1, <1>2, SnapshotSteps
LEMMA DiskSettled ==
    ASSUME DriveTyped, SeenBehind, SettledKept, ~misread, NEW c \in Callers, CallerStep(c)
    PROVE  /\ LedgerKept(disk'.signals, ledger', ArchivedIds')
           /\ \A d \in Callers :
                 Settling(d)' /\ calls'[d].pc \in {"written", "answer"} /\ calls'[d].clean
                    => Kept(disk'.signals, ArchivedIds', AckOf(d)'.id, AckOf(d)'.penalty)
<1>1. ArchivedIds \subseteq ArchivedIds'
  BY DiskSteps
<1>2. ASSUME NEW d \in Callers, Settling(d)', calls'[d].pc \in {"written", "answer"}
      PROVE  /\ Settling(d) /\ AckOf(d)'.id = AckOf(d).id /\ AckOf(d)'.penalty = AckOf(d).penalty
  <2>1. ~(d = c /\ Marking(c))
    BY <1>2 DEF Marking, Marked
  <2> QED BY <1>2, <2>1, AckSteps DEF Settling
<1>3. CASE Writing(c) /\ disk'.signals = calls[c].signals /\ ArchivedIds' = ArchivedIds
  <2>1. calls[c].pc = "snapped" /\ ~Answering(c)
    BY <1>3 DEF Writing, Snapped, Answering
  <2>2. Evolves(calls[c].signals, disk'.signals, ArchivedIds, ArchivedIds')
    BY <1>1, <1>3, EvolvesSelf
  <2>3. /\ LedgerKept(calls[c].signals, ledger, ArchivedIds)
        /\ \A d \in Callers : Settling(d) /\ (d = c \/ calls[d].pc = "answer")
              => AckKept(calls[c].signals, d)
    BY <2>1 DEF SettledKept
  <2>4. LedgerKept(disk'.signals, ledger', ArchivedIds')
    BY <2>1, <2>2, <2>3, LedgerGoes
  <2>5. ASSUME NEW d \in Callers, Settling(d)', calls'[d].pc \in {"written", "answer"}
        PROVE  Kept(disk'.signals, ArchivedIds', AckOf(d)'.id, AckOf(d)'.penalty)
    <3>1. d = c \/ calls[d].pc = "answer"
      <4>1. SUFFICES ASSUME d # c PROVE calls[d].pc = "answer"
        OBVIOUS
      <4>2. calls'[d] = calls[d]
        BY <1>3, <4>1 DEF Writing, OnlyCall
      <4> QED BY <2>1, <2>5, <4>1, <4>2 DEF DriveTyped, GatePCs
    <3> QED BY <1>2, <2>2, <2>3, <2>5, <3>1, AckGoes
  <2> QED BY <2>4, <2>5
<1>4. CASE Evolves(disk.signals, disk'.signals, ArchivedIds, ArchivedIds') /\ ~Writing(c)
  <2>1. /\ LedgerKept(disk.signals, ledger, ArchivedIds)
        /\ \A d \in Callers : Settling(d) /\ calls[d].pc \in {"written", "answer"} /\ calls[d].clean
              => AckKept(disk.signals, d)
    BY DEF SettledKept
  <2>2. LedgerKept(disk'.signals, ledger', ArchivedIds')
    BY <1>4, <2>1, LedgerGoes
  <2>3. ASSUME NEW d \in Callers, Settling(d)', calls'[d].pc \in {"written", "answer"},
               calls'[d].clean
        PROVE  Kept(disk'.signals, ArchivedIds', AckOf(d)'.id, AckOf(d)'.penalty)
    <3>1. calls[d].pc \in {"written", "answer"} /\ calls[d].clean
      BY <1>4, <2>3
      DEF CallerStep, Preparing, EarlyPCs, Bearing, Marking, Marked, Archiving, Snapping, Snapped,
          SavingPolicy, Answering, Idle, Advanced, OnlyCall, ArchiveOldRows
    <3> QED BY <1>2, <1>4, <2>1, <2>3, <3>1, AckGoes
  <2> QED BY <2>2, <2>3
<1>5. CASE Evolves(disk.signals, disk'.signals, ArchivedIds, ArchivedIds') /\ Writing(c)
           /\ disk' = disk /\ ~calls'[c].clean
  <2>1. /\ LedgerKept(disk.signals, ledger, ArchivedIds)
        /\ \A d \in Callers : Settling(d) /\ calls[d].pc \in {"written", "answer"} /\ calls[d].clean
              => AckKept(disk.signals, d)
    BY DEF SettledKept
  <2>2. ~Answering(c) /\ \A d \in Callers \ {c} : calls'[d] = calls[d]
    BY <1>5 DEF Writing, Snapped, Answering, OnlyCall
  <2>3. LedgerKept(disk'.signals, ledger', ArchivedIds')
    BY <1>5, <2>1, <2>2, LedgerGoes
  <2>4. ASSUME NEW d \in Callers, Settling(d)', calls'[d].pc \in {"written", "answer"},
               calls'[d].clean
        PROVE  Kept(disk'.signals, ArchivedIds', AckOf(d)'.id, AckOf(d)'.penalty)
    BY <1>2, <1>5, <2>1, <2>2, <2>4, AckGoes
  <2> QED BY <2>3, <2>4
<1>6. \/ Writing(c) /\ disk'.signals = calls[c].signals /\ ArchivedIds' = ArchivedIds
      \/ Evolves(disk.signals, disk'.signals, ArchivedIds, ArchivedIds') /\ ~Writing(c)
      \/ /\ Evolves(disk.signals, disk'.signals, ArchivedIds, ArchivedIds') /\ Writing(c)
         /\ disk' = disk /\ ~calls'[c].clean
  <2>1. CASE Writing(c) /\ disk' = [disk EXCEPT !.signals = calls[c].signals]
    <3>1. disk \in [signals : Tables, archive : SUBSET [id : SignalIds, signal : Signal],
                    policy : Outcomes]
      BY DEF DriveTyped
    <3>2. disk'.signals = calls[c].signals /\ disk'.archive = disk.archive
      BY <2>1, <3>1
    <3> QED BY <2>1, <3>2 DEF ArchivedIds
  <2>2. CASE Writing(c) /\ disk' = disk /\ ~calls'[c].clean
    BY <1>1, <2>2, EvolvesSelf
  <2>3. CASE ~Writing(c)
    BY <2>3, DiskSteps DEF DiskStep
  <2> QED BY <2>1, <2>2, <2>3 DEF Writing
<1> QED BY <1>3, <1>4, <1>5, <1>6

LEMMA SettledKeptInit == DriveInit => SettledKept
<1> SUFFICES ASSUME DriveInit PROVE SettledKept
  OBVIOUS
<1>1. \A c \in Callers : ~Settling(c) /\ calls[c].pc # "snapped"
  BY DEF DriveInit, Idle, Settling, Acking, SavePCs
<1>2. ledger.settled = {}
  BY DEF DriveInit
<1> QED BY <1>1, <1>2 DEF SettledKept, LedgerKept

LEMMA SettledKeptStep ==
    ASSUME DriveTyped, IdsKept, SeenBehind, SettledKept, [DriveNext]_vars
    PROVE  SettledKept'
<1>1. ASSUME NEW c \in Callers, CallerStep(c) PROVE SettledKept'
  <2> SUFFICES ASSUME ~misread' PROVE SettledKept'
    BY DEF SettledKept
  <2>1. ~misread
    BY <1>1, QueueSteps
  <2>2. /\ LedgerKept(queue', ledger', ArchivedIds')
        /\ \A d \in Callers : Settling(d)'
              => Kept(queue', ArchivedIds', AckOf(d)'.id, AckOf(d)'.penalty)
    BY <1>1, <2>1, QueueSettled
  <2>3. \A d \in Callers : calls'[d].pc = "snapped" =>
            /\ LedgerKept(calls'[d].signals, ledger', ArchivedIds')
            /\ \A e \in Callers : Settling(e)' /\ (e = d \/ calls'[e].pc = "answer")
                  => Kept(calls'[d].signals, ArchivedIds', AckOf(e)'.id, AckOf(e)'.penalty)
    BY <1>1, <2>1, SnapshotsSettled
  <2>4. /\ LedgerKept(disk'.signals, ledger', ArchivedIds')
        /\ \A d \in Callers :
              Settling(d)' /\ calls'[d].pc \in {"written", "answer"} /\ calls'[d].clean
                 => Kept(disk'.signals, ArchivedIds', AckOf(d)'.id, AckOf(d)'.penalty)
    BY <1>1, <2>1, DiskSettled
  <2> QED BY <2>2, <2>3, <2>4 DEF SettledKept, AckKept
<1>2. CASE Crash
  <2>1. \A c \in Callers : calls'[c].pc = "idle"
    BY <1>2 DEF Crash, Idle
  <2>2. \A c \in Callers : ~Settling(c)' /\ calls'[c].pc # "snapped"
    BY <2>1 DEF Settling, Acking, SavePCs
  <2>3. up' = FALSE /\ UNCHANGED <<disk, ledger, misread>>
    BY <1>2 DEF Crash
  <2>4. ArchivedIds' = ArchivedIds
    BY <2>3 DEF ArchivedIds
  <2> QED BY <2>2, <2>3, <2>4 DEF SettledKept
<1>3. ASSUME NEW seen \in SUBSET DOMAIN disk.signals, NEW reserved \in BOOLEAN,
             NEW learned \in BOOLEAN, NEW lapsed \in SUBSET seen,
             Restart(seen, reserved, learned, lapsed)
      PROVE  SettledKept'
  <2> SUFFICES ASSUME ~misread' PROVE SettledKept'
    BY DEF SettledKept
  <2>1. ~misread /\ ~up /\ Aged(disk.signals, queue') /\ UNCHANGED <<disk, calls, ledger>>
    BY <1>3, RestartIs
  <2>2. \A c \in Callers : ~Settling(c)' /\ calls'[c].pc # "snapped"
    BY <2>1 DEF DriveTyped, Settling, Acking, SavePCs, Idle
  <2>3. ArchivedIds' = ArchivedIds
    BY <2>1 DEF ArchivedIds
  <2>4. Evolves(disk.signals, queue', ArchivedIds, ArchivedIds')
    BY <2>1, <2>3, AgedEvolves
  <2>5. LedgerKept(disk.signals, ledger, ArchivedIds)
    BY <2>1 DEF SettledKept
  <2>6. LedgerKept(queue', ledger', ArchivedIds')
    BY <2>1, <2>4, <2>5, KeptEvolves DEF LedgerKept
  <2> QED BY <2>1, <2>2, <2>3, <2>5, <2>6 DEF SettledKept
<1>4. CASE UNCHANGED vars
  BY <1>4 DEF vars, memoryVars, SettledKept, Settling, Acking, AckOf, AckKept, ArchivedIds
<1> QED BY <1>1, <1>2, <1>3, <1>4, DriveSteps

LEMMA AnswersAreKept == DriveSpec => [](DriveTyped /\ IdsKept /\ SeenBehind /\ SettledKept)
<1>1. DriveInit => DriveTyped /\ IdsKept /\ SeenBehind /\ SettledKept
  BY DriveTypedInit, IdsKeptInit, SeenBehindInit, SettledKeptInit
<1>2. DriveTyped /\ IdsKept /\ SeenBehind /\ SettledKept /\ [DriveNext]_vars
        => (DriveTyped /\ IdsKept /\ SeenBehind /\ SettledKept)'
  BY DriveTypedStep, IdsKeptStep, SeenBehindStep, SettledKeptStep
<1> QED BY <1>1, <1>2, PTL DEF DriveSpec

LEMMA KeptNotLive ==
    ASSUME NEW T, NEW told, NEW archived, LedgerKept(T, told, archived)
    PROVE  told.settled \cap LiveIn(T) = {}
<1> SUFFICES ASSUME NEW id \in told.settled, id \in LiveIn(T) PROVE FALSE
  OBVIOUS
<1>1. id \in DOMAIN T /\ ~Settled(T[id])
  BY DEF LiveIn, SettledIn
<1> QED BY <1>1 DEF LedgerKept, Kept

\* What a caller was told settled, after a save that worked, stays settled: it is
\* live neither in the queue nor in its table, whatever other calls save at the
\* same time, however often the process crashes between two steps of a save and
\* whichever of its writes fail (save_drive_queue and its gate).
THEOREM AnswersStaySettled == DriveSpec => []AnsweredStaysSettled
<1>1. ASSUME DriveTyped, SettledKept PROVE AnsweredStaysSettled
  <2> SUFFICES ASSUME ~misread
               PROVE  /\ ledger.settled \cap LiveIn(queue) = {}
                      /\ ledger.settled \cap LiveIn(disk.signals) = {}
    BY DEF AnsweredStaysSettled
  <2>0. DriveTyped /\ SettledKept
    BY <1>1
  <2>1. ledger.settled \cap LiveIn(disk.signals) = {}
    BY <2>0, KeptNotLive DEF SettledKept
  <2>2. CASE up
    BY <2>0, <2>1, <2>2, KeptNotLive DEF SettledKept
  <2>3. CASE ~up
    BY <2>0, <2>1, <2>3 DEF DriveTyped, Empty, LiveIn
  <2> QED BY <2>2, <2>3
<1>2. DriveTyped /\ SettledKept => AnsweredStaysSettled
  BY <1>1
<1> QED BY <1>2, AnswersAreKept, PTL

\* The evidence of a signal loses importance only if the signal is a dead letter
\* in its table, though the handler decides by a retry count it read in an
\* earlier step.
THEOREM OnlyDeadLettersPenalised == DriveSpec => []PenaltyOnlyForDeadLetters
<1>1. ASSUME SeenBehind, SettledKept PROVE PenaltyOnlyForDeadLetters
  BY <1>1 DEF PenaltyOnlyForDeadLetters, SeenBehind, SettledKept, LedgerKept, Kept
<1>2. SeenBehind /\ SettledKept => PenaltyOnlyForDeadLetters
  BY <1>1
<1> QED BY <1>2, AnswersAreKept, PTL
-----------------------------------------------------------------------------
(* What succeeded once is not borne again *)

Succeeded(outcomes, fp) == outcomes[fp].ok >= 1

\* The policy, and the stored one, count the success of what was answered as
\* learned; they count that of a call which is still on its way to its answer.
LearnedKept ==
    ~misread =>
      /\ \A fp \in ledger.learned : Succeeded(disk.policy, fp) /\ (up => Succeeded(policy, fp))
      /\ \A c \in Callers : Acking(c) /\ AckOf(c).learned =>
            /\ up => Succeeded(policy, AckOf(c).fp)
            /\ calls[c].pc = "answer" /\ calls[c].clean => Succeeded(disk.policy, AckOf(c).fp)

\* No step of a caller forgets a success, in memory or on the disk.
LEMMA PolicySteps ==
    ASSUME DriveTyped, NEW c \in Callers, CallerStep(c)
    PROVE  /\ \A fp \in Fingerprints : Succeeded(policy, fp) => Succeeded(policy', fp)
           /\ disk'.policy = disk.policy
              \/ (SavingPolicy(c) /\ disk'.policy = policy /\ policy' = policy)
<1>1. /\ disk \in [signals : Tables, archive : SUBSET [id : SignalIds, signal : Signal],
                   policy : Outcomes]
      /\ \A fp \in Fingerprints : policy[fp] \in [ok : Nat, bad : Nat]
  BY DEF DriveTyped, Outcomes
<1>2. CASE Marking(c)
  <2>1. policy' \in Outcomes /\ \A fp \in Fingerprints : policy'[fp].ok >= policy[fp].ok
    BY <1>2 DEF Marking, Marked
  <2>2. \A fp \in Fingerprints : policy'[fp] \in [ok : Nat, bad : Nat]
    BY <2>1 DEF Outcomes
  <2>3. \A fp \in Fingerprints : Succeeded(policy, fp) => Succeeded(policy', fp)
    BY <1>1, <2>1, <2>2 DEF Succeeded
  <2> QED BY <1>2, <2>3 DEF Marking
<1>3. CASE SavingPolicy(c)
  BY <1>1, <1>3 DEF SavingPolicy, memoryVars
<1>4. CASE Archiving(c)
  BY <1>4, ArchivedIs DEF Archiving
<1>5. CASE Writing(c)
  <2>1. disk'.policy = disk.policy
    BY <1>1, <1>5 DEF Writing
  <2> QED BY <1>5, <2>1 DEF Writing, memoryVars
<1>6. CASE ArchiveOldRows(c)
  BY <1>6, OldRowsIs DEF memoryVars
<1> QED
  BY <1>2, <1>3, <1>4, <1>5, <1>6
  DEF CallerStep, Preparing, Bearing, Snapping, Answering, Answer, memoryVars

LEMMA AckTyped ==
    ASSUME DriveTyped, NEW c \in Callers, Acking(c)
    PROVE  AckOf(c).fp \in Fingerprints
<1>1. AckOf(c) \in Saves
  BY CallAt DEF Acking, AckOf, Snapped
<1> QED BY <1>1 DEF Acking, Saves, PlainSaves, AckSaves

LEMMA LearnedCaller ==
    ASSUME DriveTyped, LearnedKept, NEW c \in Callers, CallerStep(c), ~misread'
    PROVE  LearnedKept'
<1>1. up /\ up' = up /\ ~misread
  BY QueueSteps
<1>2. /\ \A fp \in Fingerprints : Succeeded(policy, fp) => Succeeded(policy', fp)
      /\ disk'.policy = disk.policy
         \/ (SavingPolicy(c) /\ disk'.policy = policy /\ policy' = policy)
  BY PolicySteps
<1>3. ledger.learned \subseteq Fingerprints
  BY DEF DriveTyped
<1>4. ASSUME NEW d \in Callers, Acking(d)', AckOf(d)'.learned
      PROVE  Succeeded(policy', AckOf(d)'.fp)
  <2>1. CASE d = c /\ Marking(c)
    <3>1. calls'[c].pc = "save" /\ Marked(c, calls[c].id)
      BY <2>1 DEF Marking, Marked
    <3>2. AckOf(c)' = calls'[c]
      BY <3>1 DEF AckOf
    <3> QED BY <1>4, <2>1, <3>1, <3>2 DEF Marked, Succeeded
  <2>2. CASE /\ Acking(d) /\ AckOf(d)'.fp = AckOf(d).fp /\ AckOf(d)'.learned = AckOf(d).learned
    <3>1. Succeeded(policy, AckOf(d).fp) /\ AckOf(d).fp \in Fingerprints
      BY <1>1, <1>4, <2>2, AckTyped DEF LearnedKept
    <3> QED BY <1>2, <2>2, <3>1
  <2> QED BY <1>4, <2>1, <2>2, AckSteps
<1>5. ASSUME NEW d \in Callers, Acking(d)', AckOf(d)'.learned,
             calls'[d].pc = "answer", calls'[d].clean
      PROVE  Succeeded(disk'.policy, AckOf(d)'.fp)
  <2>1. CASE disk'.policy = policy /\ policy' = policy
    BY <1>4, <1>5, <2>1
  <2>2. CASE disk'.policy = disk.policy /\ calls'[d] = calls[d]
    <3>1. Acking(d) /\ AckOf(d) = AckOf(d)'
      BY <1>5, <2>2 DEF Acking, AckOf
    <3> QED BY <1>1, <1>5, <2>2, <3>1 DEF LearnedKept
  <2>3. ASSUME d = c, SavingPolicy(c)
        PROVE  disk'.policy = policy /\ policy' = policy
    <3>1. disk' = [disk EXCEPT !.policy = policy] /\ UNCHANGED memoryVars
      BY <1>5, <2>3 DEF SavingPolicy
    <3> QED BY <3>1 DEF DriveTyped, memoryVars
  <2>4. calls'[d] = calls[d] \/ (d = c /\ SavingPolicy(c))
    BY <1>5, PastTheGate
  <2> QED BY <1>2, <2>1, <2>2, <2>3, <2>4
<1>6. ASSUME NEW fp \in ledger'.learned
      PROVE  Succeeded(disk'.policy, fp) /\ Succeeded(policy', fp)
  <2>1. CASE fp \in ledger.learned
    <3>1. Succeeded(disk.policy, fp) /\ Succeeded(policy, fp) /\ fp \in Fingerprints
      BY <1>1, <1>3, <2>1 DEF LearnedKept
    <3> QED BY <1>2, <3>1
  <2>2. CASE /\ fp = calls[c].fp /\ calls[c].learned /\ Acking(c) /\ AckOf(c) = calls[c]
             /\ calls[c].clean /\ calls[c].pc = "answer" /\ disk' = disk
    <3>1. Succeeded(disk.policy, fp) /\ Succeeded(policy, fp) /\ fp \in Fingerprints
      BY <1>1, <2>2, AckTyped DEF LearnedKept
    <3> QED BY <1>2, <2>2, <3>1
  <2> QED BY <1>6, <2>1, <2>2, LedgerSteps DEF Only
<1> QED BY <1>4, <1>5, <1>6 DEF LearnedKept

LEMMA LearnedInit == DriveInit => LearnedKept
<1> SUFFICES ASSUME DriveInit PROVE LearnedKept
  OBVIOUS
<1>1. \A c \in Callers : ~Acking(c)
  BY DEF DriveInit, Idle, Acking, SavePCs
<1>2. ledger.learned = {}
  BY DEF DriveInit
<1> QED BY <1>1, <1>2 DEF LearnedKept

LEMMA LearnedStep ==
    ASSUME DriveTyped, LearnedKept, [DriveNext]_vars
    PROVE  LearnedKept'
<1> SUFFICES ASSUME ~misread' PROVE LearnedKept'
  BY DEF LearnedKept
<1>1. ASSUME NEW c \in Callers, CallerStep(c) PROVE LearnedKept'
  BY <1>1, LearnedCaller
<1>2. CASE Crash
  <2>1. \A c \in Callers : calls'[c].pc = "idle"
    BY <1>2 DEF Crash, Idle
  <2>2. \A c \in Callers : ~Acking(c)'
    BY <2>1 DEF Acking, SavePCs
  <2>3. up' = FALSE /\ UNCHANGED <<disk, ledger, misread>>
    BY <1>2 DEF Crash
  <2> QED BY <2>2, <2>3 DEF LearnedKept
<1>3. ASSUME NEW seen \in SUBSET DOMAIN disk.signals, NEW reserved \in BOOLEAN,
             NEW learned \in BOOLEAN, NEW lapsed \in SUBSET seen,
             Restart(seen, reserved, learned, lapsed)
      PROVE  LearnedKept'
  <2>1. ~misread /\ ~up /\ policy' = disk.policy /\ UNCHANGED <<disk, calls, ledger>>
    BY <1>3, RestartIs
  <2>2. \A c \in Callers : ~Acking(c)'
    BY <2>1 DEF DriveTyped, Acking, SavePCs, Idle
  <2> QED BY <2>1, <2>2 DEF LearnedKept
<1>4. CASE UNCHANGED vars
  BY <1>4 DEF vars, memoryVars, LearnedKept, Acking, AckOf
<1> QED BY <1>1, <1>2, <1>3, <1>4, DriveSteps

\* Evidence whose signal succeeded, and whose success was answered after a save
\* that worked, is not borne again: no producer passes should_birth with it, also
\* after the signal left the queue for the archive and after any number of
\* restarts that could read what was stored.
THEOREM SuccessClosesValve == DriveSpec => []LearnedClosesValve
<1>1. DriveTyped /\ LearnedKept => LearnedClosesValve
  <2> SUFFICES ASSUME DriveTyped, LearnedKept, up, ~misread, NEW fp \in ledger.learned
               PROVE  Evidence[fp] = {} \/ ~ShouldBirth(fp)
    BY DEF LearnedClosesValve
  <2>1. policy[fp].ok >= 1
    BY DEF LearnedKept, Succeeded
  <2> QED BY <2>1 DEF ShouldBirth, ShouldEmit
<1>2. DriveInit => DriveTyped /\ LearnedKept
  BY DriveTypedInit, LearnedInit
<1>3. DriveTyped /\ LearnedKept /\ [DriveNext]_vars => (DriveTyped /\ LearnedKept)'
  BY DriveTypedStep, LearnedStep
<1> QED BY <1>1, <1>2, <1>3, PTL DEF DriveSpec
-----------------------------------------------------------------------------
(* Producers that race bear no more signals than there are producers *)

LiveOf(T, fp) == {id \in LiveIn(T) : T[id].fp = fp}
Bearers(fp)   == {c \in Callers : calls[c].pc = "birth" /\ calls[c].fp = fp}

\* A live signal or a producer on its way to it counts once; no snapshot and no
\* table ever held more live signals than that.
LiveBounded ==
    \A fp \in Fingerprints : Evidence[fp] # {} =>
        /\ Cardinality(LiveOf(queue, fp)) + Cardinality(Bearers(fp)) <= Cardinality(Callers)
        /\ \A c \in Callers : calls[c].pc = "snapped" =>
              Cardinality(LiveOf(calls[c].signals, fp)) <= Cardinality(Callers)
        /\ Cardinality(LiveOf(disk.signals, fp)) <= Cardinality(Callers)

\* No signal comes to life between table T and table U.
Fades(T, U) ==
    /\ DOMAIN U \subseteq DOMAIN T
    /\ \A id \in DOMAIN U : U[id].fp = T[id].fp /\ (Settled(T[id]) => U[id] = T[id])

LEMMA LiveFades ==
    ASSUME NEW T, NEW U, Fades(T, U), NEW fp
    PROVE  LiveOf(U, fp) \subseteq LiveOf(T, fp)
<1> SUFFICES ASSUME NEW id \in LiveOf(U, fp) PROVE id \in LiveOf(T, fp)
  OBVIOUS
<1>1. id \in DOMAIN U /\ ~Settled(U[id]) /\ U[id].fp = fp
  BY DEF LiveOf, LiveIn, SettledIn
<1>2. id \in DOMAIN T /\ ~Settled(T[id]) /\ T[id].fp = fp
  BY <1>1 DEF Fades
<1> QED BY <1>2 DEF LiveOf, LiveIn, SettledIn

LEMMA CountsFinite ==
    ASSUME NEW T \in Tables, NEW fp
    PROVE  IsFiniteSet(LiveOf(T, fp)) /\ Cardinality(LiveOf(T, fp)) \in Nat
<1>1. LiveOf(T, fp) \subseteq DOMAIN T /\ IsFiniteSet(DOMAIN T)
  BY TableIs DEF LiveOf, LiveIn
<1> QED BY <1>1, FS_Subset, FS_CardinalityType

LEMMA BearersFinite ==
    ASSUME NEW S \in SUBSET Callers
    PROVE  /\ IsFiniteSet(S) /\ Cardinality(S) \in Nat
           /\ Cardinality(S) <= Cardinality(Callers) /\ Cardinality(Callers) \in Nat
BY DriveAssumption, FS_Subset, FS_CardinalityType

\* The queue fades through a caller's step that bears no signal.
LEMMA QueueFades ==
    ASSUME DriveTyped, NEW c \in Callers, CallerStep(c)
    PROVE  Fades(queue, queue') \/ \E fp \in Fingerprints : Bearing(c, fp)
<1>1. CASE queue' = queue
  BY <1>1 DEF Fades
<1>2. CASE Preparing(c)
  BY <1>2 DEF Preparing, Aged, Fades
<1>3. CASE Marking(c)
  BY <1>3 DEF Marking, Marked, Fades
<1>4. CASE Archiving(c)
  <2>1. ASSUME NEW old \in SUBSET DOMAIN queue, queue' = Restrict(queue, DOMAIN queue \ old)
        PROVE  Fades(queue, queue')
    BY <2>1, RestrictIs DEF Fades, DriveTyped
  <2> QED BY <1>1, <1>4, <2>1 DEF Archiving
<1> QED
  BY <1>1, <1>2, <1>3, <1>4
  DEF CallerStep, Snapping, Writing, SavingPolicy, Answering, Answer, ArchiveOldRows, memoryVars

\* Only a producer that saw no live signal joins the bearers.
LEMMA BearersStep ==
    ASSUME DriveTyped, NEW c \in Callers, CallerStep(c), NEW fp \in Fingerprints
    PROVE  \/ Bearers(fp)' \subseteq Bearers(fp)
           \/ queue' = queue /\ LiveOf(queue, fp) = {}
<1>1. ASSUME ~(Bearers(fp)' \subseteq Bearers(fp))
      PROVE  queue' = queue /\ LiveOf(queue, fp) = {}
  <2>1. PICK d \in Callers : /\ calls'[d].pc = "birth" /\ calls'[d].fp = fp
                             /\ ~(calls[d].pc = "birth" /\ calls[d].fp = fp)
    BY <1>1 DEF Bearers
  <2>2. d = c /\ Preparing(c)
    BY <2>1
    DEF CallerStep, Preparing, Bearing, Marking, Marked, Archiving, Snapping, Snapped, Writing,
        SavingPolicy, Answering, Idle, Advanced, OnlyCall, ArchiveOldRows
  <2>3. queue' = queue /\ ~LiveFingerprint(fp)
    BY <2>1, <2>2 DEF Preparing
  <2> QED BY <2>3 DEF LiveFingerprint, LiveOf
<1> QED BY <1>1

\* The signal a producer bears takes the place of the producer.
LEMMA BearingCounts ==
    ASSUME DriveTyped, LiveBounded, NEW c \in Callers, NEW born \in Fingerprints, Bearing(c, born),
           NEW fp \in Fingerprints, Evidence[fp] # {}
    PROVE  Cardinality(LiveOf(queue', fp)) + Cardinality(Bearers(fp)') <= Cardinality(Callers)
<1>1. /\ queue' \in Tables /\ DOMAIN queue' = DOMAIN queue \cup {next_id}
      /\ queue'[next_id].fp = born
      /\ \A id \in DOMAIN queue : queue'[id] = queue[id]
  <2>1. Enqueue(born)
    BY DEF Bearing
  <2>2. /\ queue' \in Tables /\ DOMAIN queue' = DOMAIN queue \cup {next_id}
        /\ queue'[next_id] = [fp |-> born, status |-> "pending", retries |-> 0]
        /\ \A id \in DOMAIN queue : queue'[id] = queue[id]
    BY <2>1, EnqueueIs
  <2> QED BY <2>2
<1>2. /\ Cardinality(LiveOf(queue, fp)) + Cardinality(Bearers(fp)) <= Cardinality(Callers)
      /\ IsFiniteSet(LiveOf(queue, fp)) /\ IsFiniteSet(Bearers(fp))
      /\ Cardinality(LiveOf(queue, fp)) \in Nat /\ Cardinality(Bearers(fp)) \in Nat
      /\ Cardinality(Callers) \in Nat
  BY CountsFinite, BearersFinite DEF LiveBounded, Bearers, DriveTyped
<1>3. Bearers(fp)' \subseteq Bearers(fp) \ {c}
  BY DEF Bearers, Bearing, OnlyCall
<1>4. LiveOf(queue', fp) \subseteq LiveOf(queue, fp) \cup {next_id}
  <2> SUFFICES ASSUME NEW id \in LiveOf(queue', fp), id # next_id PROVE id \in LiveOf(queue, fp)
    OBVIOUS
  <2>1. id \in DOMAIN queue' /\ ~Settled(queue'[id]) /\ queue'[id].fp = fp
    BY DEF LiveOf, LiveIn, SettledIn
  <2>2. id \in DOMAIN queue /\ ~Settled(queue[id]) /\ queue[id].fp = fp
    BY <1>1, <2>1
  <2> QED BY <2>2 DEF LiveOf, LiveIn, SettledIn
<1>5. CASE born = fp
  <2>1. c \in Bearers(fp)
    BY <1>5 DEF Bearing, Bearers
  <2>2. Cardinality(Bearers(fp) \ {c}) = Cardinality(Bearers(fp)) - 1
        /\ IsFiniteSet(Bearers(fp) \ {c})
    BY <1>2, <2>1, FS_RemoveElement
  <2>3. Cardinality(Bearers(fp)') <= Cardinality(Bearers(fp)) - 1
        /\ Cardinality(Bearers(fp)') \in Nat
    BY <1>3, <2>2, FS_Subset, FS_CardinalityType
  <2>4. /\ IsFiniteSet(LiveOf(queue, fp) \cup {next_id})
        /\ Cardinality(LiveOf(queue, fp) \cup {next_id}) \in Nat
        /\ Cardinality(LiveOf(queue, fp) \cup {next_id}) <= Cardinality(LiveOf(queue, fp)) + 1
    <3>1. /\ IsFiniteSet(LiveOf(queue, fp) \cup {next_id})
          /\ Cardinality(LiveOf(queue, fp) \cup {next_id})
                = IF next_id \in LiveOf(queue, fp) THEN Cardinality(LiveOf(queue, fp))
                  ELSE Cardinality(LiveOf(queue, fp)) + 1
      BY <1>2, FS_AddElement
    <3> QED BY <1>2, <3>1
  <2>5. Cardinality(LiveOf(queue', fp)) <= Cardinality(LiveOf(queue, fp) \cup {next_id})
        /\ Cardinality(LiveOf(queue', fp)) \in Nat
    BY <1>4, <2>4, FS_Subset, FS_CardinalityType
  <2> QED BY <1>2, <2>3, <2>4, <2>5
<1>6. CASE born # fp
  <2>1. next_id \notin LiveOf(queue', fp)
    BY <1>1, <1>6 DEF LiveOf
  <2>2. LiveOf(queue', fp) \subseteq LiveOf(queue, fp) /\ Bearers(fp)' \subseteq Bearers(fp)
    BY <1>3, <1>4, <2>1
  <2>3. /\ Cardinality(LiveOf(queue', fp)) <= Cardinality(LiveOf(queue, fp))
        /\ Cardinality(Bearers(fp)') <= Cardinality(Bearers(fp))
        /\ Cardinality(LiveOf(queue', fp)) \in Nat /\ Cardinality(Bearers(fp)') \in Nat
    BY <1>2, <2>2, FS_Subset, FS_CardinalityType
  <2> QED BY <1>2, <2>3
<1> QED BY <1>5, <1>6
LEMMA LiveBoundedInit == DriveInit => LiveBounded
<1> SUFFICES ASSUME DriveInit, NEW fp \in Fingerprints
             PROVE  /\ LiveOf(queue, fp) = {} /\ LiveOf(disk.signals, fp) = {} /\ Bearers(fp) = {}
                    /\ \A c \in Callers : calls[c].pc # "snapped"
  <2>1. Cardinality({}) = 0 /\ Cardinality(Callers) \in Nat
    BY DriveAssumption, FS_EmptySet, FS_CardinalityType
  <2> QED BY <2>1 DEF LiveBounded
<1>1. \A c \in Callers : calls[c].pc = "idle"
  BY DEF DriveInit, Idle
<1>2. queue = Empty /\ disk.signals = Empty
  BY DEF DriveInit
<1>3. LiveOf(Empty, fp) = {}
  BY DEF LiveOf, LiveIn, Empty
<1> QED BY <1>1, <1>2, <1>3 DEF Bearers

LEMMA LiveBoundedCaller ==
    ASSUME DriveTyped, LiveBounded, NEW c \in Callers, CallerStep(c)
    PROVE  LiveBounded'
<1> SUFFICES ASSUME NEW fp \in Fingerprints, Evidence[fp] # {}
             PROVE  /\ Cardinality(LiveOf(queue', fp)) + Cardinality(Bearers(fp)')
                          <= Cardinality(Callers)
                    /\ \A d \in Callers : calls'[d].pc = "snapped" =>
                          Cardinality(LiveOf(calls'[d].signals, fp)) <= Cardinality(Callers)
                    /\ Cardinality(LiveOf(disk'.signals, fp)) <= Cardinality(Callers)
  BY DEF LiveBounded
<1>1. /\ Cardinality(LiveOf(queue, fp)) + Cardinality(Bearers(fp)) <= Cardinality(Callers)
      /\ \A d \in Callers : calls[d].pc = "snapped" =>
            Cardinality(LiveOf(calls[d].signals, fp)) <= Cardinality(Callers)
      /\ Cardinality(LiveOf(disk.signals, fp)) <= Cardinality(Callers)
  BY DEF LiveBounded
<1>2. /\ IsFiniteSet(LiveOf(queue, fp)) /\ Cardinality(LiveOf(queue, fp)) \in Nat
      /\ IsFiniteSet(Bearers(fp)) /\ Cardinality(Bearers(fp)) \in Nat
      /\ IsFiniteSet(Bearers(fp)') /\ Cardinality(Bearers(fp)') \in Nat
      /\ Cardinality(Bearers(fp)') <= Cardinality(Callers) /\ Cardinality(Callers) \in Nat
  <2>1. Bearers(fp) \in SUBSET Callers /\ Bearers(fp)' \in SUBSET Callers
    BY DEF Bearers
  <2> QED BY <2>1, CountsFinite, BearersFinite DEF DriveTyped
<1>3. Cardinality(LiveOf(queue', fp)) + Cardinality(Bearers(fp)') <= Cardinality(Callers)
  <2>1. ASSUME NEW born \in Fingerprints, Bearing(c, born)
        PROVE  Cardinality(LiveOf(queue', fp)) + Cardinality(Bearers(fp)') <= Cardinality(Callers)
    BY <2>1, BearingCounts
  <2>2. CASE queue' = queue /\ LiveOf(queue, fp) = {}
    <3>1. Cardinality(LiveOf(queue', fp)) = 0
      BY <2>2, FS_EmptySet
    <3> QED BY <1>2, <3>1
  <2>3. CASE Fades(queue, queue') /\ Bearers(fp)' \subseteq Bearers(fp)
    <3>1. LiveOf(queue', fp) \subseteq LiveOf(queue, fp)
      BY <2>3, LiveFades
    <3>2. /\ Cardinality(LiveOf(queue', fp)) <= Cardinality(LiveOf(queue, fp))
          /\ Cardinality(LiveOf(queue', fp)) \in Nat
          /\ Cardinality(Bearers(fp)') <= Cardinality(Bearers(fp))
      BY <1>2, <2>3, <3>1, FS_Subset, FS_CardinalityType
    <3> QED BY <1>1, <1>2, <3>2
  <2> QED BY <2>1, <2>2, <2>3, QueueFades, BearersStep
<1>4. ASSUME NEW d \in Callers, calls'[d].pc = "snapped"
      PROVE  Cardinality(LiveOf(calls'[d].signals, fp)) <= Cardinality(Callers)
  <2>1. CASE calls[d] = calls'[d] /\ calls[d].pc = "snapped"
    BY <1>1, <2>1
  <2>2. CASE calls'[d].signals = queue
    BY <1>1, <1>2, <2>2
  <2> QED BY <1>4, <2>1, <2>2, SnapshotSteps
<1>5. Cardinality(LiveOf(disk'.signals, fp)) <= Cardinality(Callers)
  <2>1. CASE Writing(c) /\ disk'.signals = calls[c].signals
    <3>1. calls[c].pc = "snapped"
      BY <2>1 DEF Writing, Snapped
    <3> QED BY <1>1, <2>1, <3>1
  <2>2. CASE /\ DOMAIN disk'.signals \subseteq DOMAIN disk.signals
             /\ \A id \in DOMAIN disk'.signals : disk'.signals[id] = disk.signals[id]
    <3>1. LiveOf(disk'.signals, fp) \subseteq LiveOf(disk.signals, fp)
      BY <2>2, LiveFades DEF Fades
    <3>2. IsFiniteSet(LiveOf(disk.signals, fp)) /\ Cardinality(LiveOf(disk.signals, fp)) \in Nat
      BY CountsFinite DEF DriveTyped
    <3>3. /\ Cardinality(LiveOf(disk'.signals, fp)) <= Cardinality(LiveOf(disk.signals, fp))
          /\ Cardinality(LiveOf(disk'.signals, fp)) \in Nat
      BY <3>1, <3>2, FS_Subset, FS_CardinalityType
    <3> QED BY <1>1, <1>2, <3>2, <3>3
  <2> QED BY <2>1, <2>2, DiskSteps DEF DiskStep
<1> QED BY <1>3, <1>4, <1>5

LEMMA LiveBoundedStep ==
    ASSUME DriveTyped, LiveBounded, [DriveNext]_vars
    PROVE  LiveBounded'
<1>1. ASSUME \A c \in Callers : calls'[c].pc = "idle", disk' = disk,
             NEW T \in Tables, Fades(T, queue'), T = disk.signals \/ DOMAIN T = {}
      PROVE  LiveBounded'
  <2> SUFFICES ASSUME NEW fp \in Fingerprints, Evidence[fp] # {}
               PROVE  Cardinality(LiveOf(queue', fp)) + Cardinality(Bearers(fp)')
                          <= Cardinality(Callers)
    BY <1>1 DEF LiveBounded
  <2>1. Bearers(fp)' = {} /\ Cardinality({}) = 0
    BY <1>1, FS_EmptySet DEF Bearers
  <2>2. /\ IsFiniteSet(LiveOf(T, fp)) /\ Cardinality(LiveOf(T, fp)) \in Nat
        /\ Cardinality(Callers) \in Nat
    BY CountsFinite, BearersFinite
  <2>3. Cardinality(LiveOf(T, fp)) <= Cardinality(Callers)
    <3>1. CASE T = disk.signals
      BY <3>1 DEF LiveBounded
    <3>2. CASE DOMAIN T = {}
      <4>1. LiveOf(T, fp) = {}
        BY <3>2 DEF LiveOf, LiveIn
      <4> QED BY <2>1, <2>2, <4>1
    <3> QED BY <1>1, <3>1, <3>2
  <2>4. LiveOf(queue', fp) \subseteq LiveOf(T, fp)
    BY <1>1, LiveFades
  <2>5. /\ Cardinality(LiveOf(queue', fp)) <= Cardinality(LiveOf(T, fp))
        /\ Cardinality(LiveOf(queue', fp)) \in Nat
    BY <2>2, <2>4, FS_Subset, FS_CardinalityType
  <2> QED BY <2>1, <2>2, <2>3, <2>5
<1>2. CASE Crash
  <2>1. (\A c \in Callers : calls'[c].pc = "idle") /\ disk' = disk /\ queue' = Empty
    BY <1>2 DEF Crash, Idle
  <2>2. Empty \in Tables /\ DOMAIN Empty = {}
    <3>1. DOMAIN Empty = {} /\ Empty = [id \in DOMAIN Empty |-> Empty[id]]
      BY DEF Empty
    <3> QED BY <3>1, TableFrom
  <2>3. Fades(Empty, queue')
    BY <2>1, <2>2 DEF Fades
  <2> QED BY <1>1, <2>1, <2>2, <2>3
<1>3. ASSUME NEW seen \in SUBSET DOMAIN disk.signals, NEW reserved \in BOOLEAN,
             NEW learned \in BOOLEAN, NEW lapsed \in SUBSET seen,
             Restart(seen, reserved, learned, lapsed)
      PROVE  LiveBounded'
  <2>1. ~up /\ disk' = disk /\ calls' = calls /\ Aged(Restrict(disk.signals, seen), queue')
    BY <1>3, RestartIs
  <2>2. \A c \in Callers : calls'[c].pc = "idle"
    BY <2>1 DEF DriveTyped, Idle
  <2>3. disk.signals \in Tables
    BY DEF DriveTyped
  <2>4. /\ DOMAIN Restrict(disk.signals, seen) = seen
        /\ \A id \in seen : Restrict(disk.signals, seen)[id] = disk.signals[id]
    BY <2>3, RestrictIs
  <2>5. Fades(disk.signals, queue')
    BY <2>1, <2>4 DEF Aged, Fades
  <2> QED BY <1>1, <2>1, <2>2, <2>3, <2>5
<1>4. CASE UNCHANGED vars
  BY <1>4 DEF vars, memoryVars, LiveBounded, Bearers
<1>5. ASSUME NEW c \in Callers, CallerStep(c) PROVE LiveBounded'
  BY <1>5, LiveBoundedCaller
<1> QED BY <1>2, <1>3, <1>4, <1>5, DriveSteps

\* A fingerprint with evidence is live at most once per producer, though each
\* producer tests the queue under one lock and enqueues under another: what waits
\* in the queue and the producers past the test never exceed the callers.
THEOREM RacingProducersBounded == DriveSpec => []DuplicatesBounded
<1>1. DriveInit => DriveTyped /\ LiveBounded
  BY DriveTypedInit, LiveBoundedInit
<1>2. DriveTyped /\ LiveBounded /\ [DriveNext]_vars => (DriveTyped /\ LiveBounded)'
  BY DriveTypedStep, LiveBoundedStep
<1>3. DriveTyped /\ LiveBounded => DuplicatesBounded
  BY DEF LiveBounded, DuplicatesBounded, LiveOf, Bearers
<1> QED BY <1>1, <1>2, <1>3, PTL DEF DriveSpec

=============================================================================
