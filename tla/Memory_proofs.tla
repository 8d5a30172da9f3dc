----------------------------- MODULE Memory_proofs -----------------------------
(***************************************************************************)
(* What the confirmation of dangerous operations and the writers of memory *)
(* rows keep, for every set of users, memories and requests.               *)
(*                                                                         *)
(* ConfirmedOperations: a confirmation acts once, in time, and on what the *)
(* dry run showed.  The two steps are far apart, so the invariant ties     *)
(* token, preview and every request in progress to each other.             *)
(*                                                                         *)
(* MemoryLifecycle: what no writer may undo, whatever row it has read.     *)
(* What a call will write decides what it can break, so the invariant      *)
(* speaks of the pair of rows every call in progress holds.                *)
(***************************************************************************)
EXTENDS MCMemory, FiniteSetTheorems, TLAPS

-----------------------------------------------------------------------------
(* Confirmed operations *)

PendingOp == [user : Owners, operation : Operations, target_ids : TargetLists, critical : BOOLEAN]
DryRunRequest == [pc : {"preview"}, user : Owners, operation : Operations, target_ids : TargetLists,
                  critical : BOOLEAN, next : Nat]
ActingRequest == [pc : {"check", "execute", "patch"}, user : Owners, operation : Operations,
                  target_ids : TargetLists, critical : BOOLEAN, next : Nat,
                  token : Nat, age : Nat]
Request == {NoRequest} \cup DryRunRequest \cup ActingRequest

\* A request that acts was previewed as it is, and is not critical once it acts.
AsPreviewed(r) ==
    r \in ActingRequest =>
        /\ r.token \in 1..Len(previews)
        /\ LET preview == previews[r.token] IN
           /\ r.user = preview.user /\ r.operation = preview.operation
           /\ r.target_ids = preview.target_ids /\ r.critical = preview.critical
        /\ r.age < OP_TOKEN_TTL_SECS
        /\ r.critical => r.pc = "check"
        /\ r.pc = "patch" => r.operation # "merge"

\* What a token in the map stands for, and that a token that was taken has left it.
TokensKnown ==
    /\ previews \in Seq(PendingOp)
    /\ \A t \in DOMAIN pending_ops :
          /\ t \in 1..Len(previews)
          /\ pending_ops[t] \in [for : PendingOp, age : 0..OP_TOKEN_TTL_SECS]
          /\ pending_ops[t].for = previews[t]
TakenOnce ==
    /\ executed \in Seq(Nat)
    /\ \A i \in DOMAIN executed : executed[i] \in 1..Len(previews) /\ executed[i] \notin DOMAIN pending_ops
    /\ \A i, j \in DOMAIN executed : executed[i] = executed[j] => i = j

Previewing == {s \in Sessions : Reads(s, "preview")}
RequestsKnown ==
    /\ sessions \in [Sessions -> Request]
    /\ \A s \in Sessions : AsPreviewed(sessions[s])
    /\ Len(previews) + Cardinality(Previewing) <= MaxTokens

SpaceShape == space \in [Owners -> [Memories -> Memory]] /\ edits \in 0..MaxEdits

OpsInv == TokensKnown /\ TakenOnce /\ RequestsKnown /\ SpaceShape

LEMMA RequestKinds ==
    /\ NoRequest.pc = "idle" /\ NoRequest \notin DryRunRequest /\ NoRequest \notin ActingRequest
    /\ \A r \in DryRunRequest : r.pc = "preview" /\ r \notin ActingRequest
    /\ \A r \in ActingRequest : r.pc \in {"check", "execute", "patch"}
<1>1. NoRequest.pc = "idle"
  BY DEF NoRequest
<1>2. \A r \in DryRunRequest : r.pc = "preview"
  BY DEF DryRunRequest
<1>3. \A r \in ActingRequest : r.pc \in {"check", "execute", "patch"}
  BY DEF ActingRequest
<1> QED BY <1>1, <1>2, <1>3

\* What a session does is known by its step.
LEMMA KindOfRequest ==
    ASSUME OpsInv, NEW s \in Sessions
    PROVE  /\ sessions[s] \in Request /\ AsPreviewed(sessions[s])
           /\ Reads(s, "preview") <=> sessions[s] \in DryRunRequest
           /\ sessions[s].pc \in {"check", "execute", "patch"} <=> sessions[s] \in ActingRequest
           /\ Reads(s, "idle") <=> sessions[s] = NoRequest
<1>1. sessions[s] \in Request /\ AsPreviewed(sessions[s])
  BY DEF OpsInv, RequestsKnown
<1> QED BY <1>1, RequestKinds DEF Request, Reads

LEMMA OthersGoOn ==
    ASSUME OpsInv, NEW s \in Sessions, NEW r \in Request, Moves(s, r)
    PROVE  sessions' \in [Sessions -> Request] /\ sessions'[s] = r
           /\ \A q \in Sessions \ {s} : sessions'[q] = sessions[q]
BY DEF OpsInv, RequestsKnown, Moves

\* How many dry runs are under way when one session goes on.
LEMMA DryRunsCount ==
    ASSUME OpsInv, NEW s \in Sessions, NEW r \in Request, Moves(s, r)
    PROVE  /\ Cardinality(Previewing) \in Nat /\ Cardinality(Previewing') \in Nat
           /\ r.pc # "preview" => Cardinality(Previewing') <= Cardinality(Previewing)
           /\ r.pc # "preview" /\ Reads(s, "preview") => Cardinality(Previewing') + 1 = Cardinality(Previewing)
           /\ r.pc = "preview" /\ Reads(s, "preview") => Cardinality(Previewing') = Cardinality(Previewing)
           /\ r.pc = "preview" => Cardinality(Previewing') <= Cardinality(Previewing) + 1
<1> DEFINE rest == Previewing \ {s}
<1>1. sessions'[s] = r /\ \A q \in Sessions \ {s} : sessions'[q] = sessions[q]
  BY OthersGoOn
<1>2. /\ Previewing = IF Reads(s, "preview") THEN rest \cup {s} ELSE rest
      /\ Previewing' = IF r.pc = "preview" THEN rest \cup {s} ELSE rest
  BY <1>1 DEF Previewing, Reads
<1>3. IsFiniteSet(Previewing) /\ IsFiniteSet(rest)
  <2>1. IsFiniteSet(Sessions) /\ Previewing \subseteq Sessions
    BY OperationsAssumption DEF Previewing
  <2>2. IsFiniteSet(Previewing)
    BY <2>1, FS_Subset
  <2> QED BY <2>2, FS_Subset
<1>4. s \notin rest
  OBVIOUS
<1> HIDE DEF rest
<1>5. Cardinality(rest) \in Nat /\ Cardinality(rest \cup {s}) = Cardinality(rest) + 1
  BY <1>3, <1>4, FS_AddElement, FS_CardinalityType
<1> QED BY <1>2, <1>5

\* A session goes on and the tokens stay as they are.
LEMMA RequestGoesOn ==
    ASSUME OpsInv, NEW s \in Sessions, NEW r \in Request, Moves(s, r),
           UNCHANGED <<pending_ops, previews, executed>>, SpaceShape', AsPreviewed(r),
           r.pc = "preview" => \/ Reads(s, "preview")
                               \/ Len(previews) + Cardinality(Previewing) < MaxTokens
    PROVE  OpsInv'
<1>1. TokensKnown' /\ TakenOnce'
  BY DEF OpsInv, TokensKnown, TakenOnce
<1>2. sessions' \in [Sessions -> Request] /\ sessions'[s] = r
      /\ \A q \in Sessions \ {s} : sessions'[q] = sessions[q]
  BY OthersGoOn
<1>3. \A q \in Sessions : AsPreviewed(sessions[q])'
  BY <1>2 DEF OpsInv, RequestsKnown, AsPreviewed
<1>4. Len(previews') + Cardinality(Previewing') <= MaxTokens
  <2>1. Len(previews) \in Nat /\ MaxTokens \in Nat /\ previews' = previews
        /\ Len(previews) + Cardinality(Previewing) <= MaxTokens
    BY OperationsAssumption DEF OpsInv, TokensKnown, RequestsKnown
  <2> QED BY <2>1, DryRunsCount
<1>5. RequestsKnown'
  BY <1>2, <1>3, <1>4 DEF RequestsKnown
<1> QED BY <1>1, <1>5 DEF OpsInv

-----------------------------------------------------------------------------
(* One lemma per step of a request *)

LEMMA SessionBefore ==
    ASSUME OpsInv, NEW s \in Sessions
    PROVE  /\ sessions[s] \in Request /\ AsPreviewed(sessions[s])
           /\ previews \in Seq(PendingOp) /\ Len(previews) \in Nat
           /\ SpaceShape /\ NoRequest \in Request /\ AsPreviewed(NoRequest) /\ NoRequest.pc = "idle"
BY KindOfRequest, RequestKinds DEF OpsInv, TokensKnown, Request, AsPreviewed

LEMMA RequestEnds ==
    ASSUME OpsInv, NEW s \in Sessions, Moves(s, NoRequest),
           UNCHANGED <<space, pending_ops, previews, executed, edits>>
    PROVE  OpsInv'
<1>1. SpaceShape'
  BY SessionBefore DEF SpaceShape
<1> QED BY <1>1, RequestGoesOn, SessionBefore

LEMMA DryRunInv ==
    ASSUME OpsInv, NEW s \in Sessions, NEW u \in Owners, NEW op \in Operations, NEW ids \in TargetLists,
           DryRun(s, u, op, ids)
    PROVE  OpsInv'
<1> DEFINE r == [pc |-> "preview", user |-> u, operation |-> op, target_ids |-> ids,
                 critical |-> FALSE, next |-> 1]
<1>1. r \in DryRunRequest /\ r.pc = "preview"
  BY DEF DryRunRequest
<1>2. /\ Moves(s, r) /\ UNCHANGED <<space, pending_ops, previews, executed, edits>>
      /\ Len(previews) + Cardinality(Previewing) < MaxTokens
  BY DEF DryRun, Previewing
<1> HIDE DEF r
<1>3. r \in Request /\ AsPreviewed(r)
  BY <1>1, RequestKinds DEF Request, AsPreviewed
<1>4. SpaceShape'
  BY <1>2, SessionBefore DEF SpaceShape
<1> QED BY <1>2, <1>3, <1>4, RequestGoesOn

LEMMA PreviewTargetInv ==
    ASSUME OpsInv, NEW s \in Sessions, PreviewTarget(s)
    PROVE  OpsInv'
<1> DEFINE protected == Protected(space[sessions[s].user][Target(s)])
           r == [Onward(s) EXCEPT !.critical = @ \/ protected]
<1>1. Reads(s, "preview") /\ sessions[s] \in DryRunRequest
  BY KindOfRequest DEF PreviewTarget
<1>2. Moves(s, r) /\ UNCHANGED <<space, pending_ops, previews, executed, edits>>
  BY DEF PreviewTarget
<1>3. r \in DryRunRequest /\ r.pc = "preview"
  <2> DEFINE o == Onward(s)
             critical == o.critical \/ protected
  <2>1. o \in DryRunRequest
    BY <1>1 DEF DryRunRequest, Onward
  <2>2. critical \in BOOLEAN /\ r = [o EXCEPT !.critical = critical]
    OBVIOUS
  <2> HIDE DEF o, critical, r
  <2> QED BY <2>1, <2>2 DEF DryRunRequest
<1> HIDE DEF r
<1>4. r \in Request /\ AsPreviewed(r)
  BY <1>3, RequestKinds DEF Request, AsPreviewed
<1>5. SpaceShape'
  BY <1>2, SessionBefore DEF SpaceShape
<1> QED BY <1>1, <1>2, <1>4, <1>5, RequestGoesOn

\* The new token is the next one, so that none of the old ones changes its meaning.
LEMMA InsertTokenInv ==
    ASSUME OpsInv, NEW s \in Sessions, InsertToken(s)
    PROVE  OpsInv'
<1> DEFINE token == Len(previews) + 1
           pending == [user |-> sessions[s].user, operation |-> sessions[s].operation,
                       target_ids |-> sessions[s].target_ids, critical |-> sessions[s].critical]
<1>1. Reads(s, "preview") /\ sessions[s] \in DryRunRequest
  BY KindOfRequest DEF InsertToken
<1>2. /\ Moves(s, NoRequest) /\ UNCHANGED <<space, executed, edits>>
      /\ previews' = Append(previews, pending)
  BY DEF InsertToken
<1>3. /\ DOMAIN pending_ops' \subseteq DOMAIN pending_ops \cup {token}
      /\ token \in DOMAIN pending_ops' /\ pending_ops'[token] = [for |-> pending, age |-> 0]
      /\ \A t \in DOMAIN pending_ops' \ {token} : pending_ops'[t] = pending_ops[t]
  BY DEF InsertToken, Unexpired
<1>4. pending \in PendingOp
  BY <1>1 DEF DryRunRequest, PendingOp
<1>5. TokensKnown /\ TakenOnce /\ RequestsKnown /\ SpaceShape
  BY DEF OpsInv
<1>6. /\ previews \in Seq(PendingOp) /\ Len(previews) \in Nat /\ previews' \in Seq(PendingOp)
      /\ Len(previews') = Len(previews) + 1 /\ previews'[token] = pending
      /\ \A t \in 1..Len(previews) : t \in 1..Len(previews') /\ previews'[t] = previews[t]
      /\ token \in 1..Len(previews') /\ token \notin 1..Len(previews)
  <2> HIDE DEF pending
  <2> QED BY <1>2, <1>4, <1>5 DEF TokensKnown
<1> HIDE DEF token, pending
<1>7. TokensKnown'
  <2>1. ASSUME NEW t \in DOMAIN pending_ops'
        PROVE  /\ t \in 1..Len(previews')
               /\ pending_ops'[t] \in [for : PendingOp, age : 0..OP_TOKEN_TTL_SECS]
               /\ pending_ops'[t].for = previews'[t]
    <3>1. CASE t = token
      <4>1. 0 \in 0..OP_TOKEN_TTL_SECS
        BY OperationsAssumption
      <4> QED BY <1>3, <1>4, <1>6, <3>1, <4>1
    <3>2. CASE t # token
      BY <1>3, <1>5, <1>6, <3>2 DEF TokensKnown
    <3> QED BY <3>1, <3>2
  <2> QED BY <1>6, <2>1 DEF TokensKnown
<1>8. TakenOnce'
  <2>1. \A i \in DOMAIN executed : /\ executed[i] \in 1..Len(previews')
                                   /\ executed[i] \notin DOMAIN pending_ops'
    BY <1>3, <1>5, <1>6 DEF TakenOnce
  <2> QED BY <1>2, <1>5, <2>1 DEF TakenOnce
<1>9. RequestsKnown'
  <2>1. sessions' \in [Sessions -> Request] /\ sessions'[s] = NoRequest
        /\ \A q \in Sessions \ {s} : sessions'[q] = sessions[q]
    BY <1>2, OthersGoOn, SessionBefore
  <2>2. ASSUME NEW q \in Sessions PROVE AsPreviewed(sessions[q])'
    <3>1. CASE q = s
      BY <2>1, <3>1, RequestKinds DEF AsPreviewed
    <3>2. CASE q # s
      <4>1. AsPreviewed(sessions[q]) /\ sessions'[q] = sessions[q]
        BY <1>5, <2>1, <3>2 DEF RequestsKnown
      <4> QED BY <1>6, <4>1 DEF AsPreviewed
    <3> QED BY <3>1, <3>2
  <2>3. Len(previews') + Cardinality(Previewing') <= MaxTokens
    <3>1. Cardinality(Previewing') + 1 = Cardinality(Previewing) /\ Cardinality(Previewing') \in Nat
      BY <1>1, <1>2, DryRunsCount, SessionBefore
    <3>2. Len(previews) + Cardinality(Previewing) <= MaxTokens /\ MaxTokens \in Nat
      BY <1>5, OperationsAssumption DEF RequestsKnown
    <3> QED BY <1>6, <3>1, <3>2
  <2> QED BY <2>1, <2>2, <2>3 DEF RequestsKnown
<1>10. SpaceShape'
  BY <1>2, <1>5 DEF SpaceShape
<1> QED BY <1>7, <1>8, <1>9, <1>10 DEF OpsInv

\* A token leaves the map.
LEMMA TokenLeaves ==
    ASSUME OpsInv, NEW token, pending_ops' = Without(token), UNCHANGED <<previews, executed>>
    PROVE  TokensKnown' /\ TakenOnce' /\ token \notin DOMAIN pending_ops'
BY DEF OpsInv, TokensKnown, TakenOnce, Without

LEMMA TokenExpiredInv ==
    ASSUME OpsInv, NEW s, NEW u, NEW token, TokenExpired(s, u, token)
    PROVE  OpsInv'
<1>1. pending_ops' = Without(token) /\ UNCHANGED <<space, sessions, previews, executed, edits>>
  BY DEF TokenExpired
<1>2. TokensKnown' /\ TakenOnce'
  BY <1>1, TokenLeaves
<1> QED BY <1>1, <1>2 DEF OpsInv, RequestsKnown, AsPreviewed, Previewing, Reads, SpaceShape

\* Whoever takes a token takes what was previewed, and nobody takes it again.
LEMMA TakePendingOpInv ==
    ASSUME OpsInv, NEW s \in Sessions, NEW u \in Owners, NEW token \in DOMAIN pending_ops,
           TakePendingOp(s, u, token, pending_ops[token].for.operation, pending_ops[token].for.target_ids)
    PROVE  OpsInv'
<1> DEFINE op == pending_ops[token].for
           r == [pc |-> "check", user |-> u, operation |-> op.operation, target_ids |-> op.target_ids,
                 critical |-> op.critical, next |-> 1, token |-> token, age |-> pending_ops[token].age]
<1>1. /\ pending_ops' = Without(token) /\ executed' = Append(executed, token) /\ Moves(s, r)
      /\ UNCHANGED <<space, previews, edits>> /\ Reads(s, "idle")
      /\ op.user = u /\ pending_ops[token].age < OP_TOKEN_TTL_SECS
  BY DEF TakePendingOp, Presents, Consumed
<1>2. TokensKnown /\ TakenOnce /\ RequestsKnown /\ SpaceShape
  BY DEF OpsInv
<1>3. /\ token \in 1..Len(previews) /\ op = previews[token] /\ op \in PendingOp
      /\ pending_ops[token].age \in Nat /\ Len(previews) \in Nat /\ token \in Nat
  BY <1>2, OperationsAssumption DEF TokensKnown
<1>4. r \in ActingRequest /\ r.pc = "check" /\ r.token = token /\ r.user = op.user
      /\ r.operation = op.operation /\ r.target_ids = op.target_ids /\ r.critical = op.critical
      /\ r.age < OP_TOKEN_TTL_SECS
  BY <1>1, <1>3 DEF ActingRequest, PendingOp
<1> HIDE DEF r, op
<1>5. r \in Request /\ AsPreviewed(r)
  BY <1>1, <1>3, <1>4 DEF Request, AsPreviewed
<1>6. TokensKnown'
  <2>1. DOMAIN pending_ops' \subseteq DOMAIN pending_ops
        /\ \A t \in DOMAIN pending_ops' : pending_ops'[t] = pending_ops[t]
    BY <1>1 DEF Without
  <2> QED BY <1>1, <1>2, <2>1 DEF TokensKnown
<1>7. TakenOnce'
  <2>1. /\ executed \in Seq(Nat) /\ Len(executed) \in Nat /\ executed' \in Seq(Nat)
        /\ DOMAIN executed' = 1..(Len(executed) + 1) /\ DOMAIN executed = 1..Len(executed)
        /\ executed'[Len(executed) + 1] = token
        /\ \A i \in 1..Len(executed) : executed'[i] = executed[i]
    BY <1>1, <1>2, <1>3 DEF TakenOnce
  <2>2. DOMAIN pending_ops' = DOMAIN pending_ops \ {token}
    BY <1>1 DEF Without
  <2>3. \A i \in 1..Len(executed) : executed[i] # token
    BY <1>2, <2>1 DEF TakenOnce
  <2>4. \A i \in DOMAIN executed' : i \in 1..Len(executed) \/ i = Len(executed) + 1
    BY <2>1
  <2>5. \A i \in DOMAIN executed' : /\ executed'[i] \in 1..Len(previews')
                                    /\ executed'[i] \notin DOMAIN pending_ops'
    BY <1>1, <1>2, <1>3, <2>1, <2>2, <2>4 DEF TakenOnce
  <2>6. \A i, j \in DOMAIN executed' : executed'[i] = executed'[j] => i = j
    BY <1>2, <2>1, <2>3, <2>4 DEF TakenOnce
  <2> QED BY <2>1, <2>5, <2>6 DEF TakenOnce
<1>8. RequestsKnown'
  <2>1. sessions' \in [Sessions -> Request] /\ sessions'[s] = r
        /\ \A q \in Sessions \ {s} : sessions'[q] = sessions[q]
    BY <1>1, <1>5, OthersGoOn
  <2>2. \A q \in Sessions : AsPreviewed(sessions[q])'
    BY <1>1, <1>2, <1>5, <2>1 DEF RequestsKnown, AsPreviewed
  <2>3. Len(previews') + Cardinality(Previewing') <= MaxTokens
    <3>1. /\ Cardinality(Previewing') <= Cardinality(Previewing)
          /\ Cardinality(Previewing) \in Nat /\ Cardinality(Previewing') \in Nat
      BY <1>1, <1>4, <1>5, DryRunsCount
    <3>2. Len(previews) + Cardinality(Previewing) <= MaxTokens /\ MaxTokens \in Nat
      BY <1>2, OperationsAssumption DEF RequestsKnown
    <3> QED BY <1>1, <1>3, <3>1, <3>2
  <2> QED BY <2>1, <2>2, <2>3 DEF RequestsKnown
<1>9. SpaceShape'
  BY <1>1, <1>2 DEF SpaceShape
<1> QED BY <1>6, <1>7, <1>8, <1>9 DEF OpsInv

\* A request that acts goes on with what it is about.
LEMMA ActingGoesOn ==
    ASSUME OpsInv, NEW s \in Sessions, sessions[s] \in ActingRequest, NEW r \in ActingRequest,
           Moves(s, r), UNCHANGED <<pending_ops, previews, executed>>, SpaceShape',
           r.user = sessions[s].user, r.operation = sessions[s].operation,
           r.target_ids = sessions[s].target_ids, r.critical = sessions[s].critical,
           r.token = sessions[s].token, r.age = sessions[s].age,
           r.critical => r.pc = "check", r.pc = "patch" => r.operation # "merge"
    PROVE  OpsInv'
<1>1. r \in Request /\ r.pc # "preview"
  BY RequestKinds DEF Request
<1>2. AsPreviewed(r)
  BY KindOfRequest DEF AsPreviewed
<1> QED BY <1>1, <1>2, RequestGoesOn

LEMMA CheckTargetInv ==
    ASSUME OpsInv, NEW s \in Sessions, CheckTarget(s)
    PROVE  OpsInv'
<1> DEFINE r == Onward(s)
<1>1. sessions[s] \in ActingRequest /\ sessions[s].pc = "check"
  BY KindOfRequest DEF CheckTarget, Reads
<1>2. Moves(s, r) /\ UNCHANGED <<space, pending_ops, previews, executed, edits>>
  BY DEF CheckTarget
<1>3. /\ r \in ActingRequest /\ r.pc = "check" /\ r.user = sessions[s].user
      /\ r.operation = sessions[s].operation /\ r.target_ids = sessions[s].target_ids
      /\ r.critical = sessions[s].critical /\ r.token = sessions[s].token /\ r.age = sessions[s].age
  BY <1>1 DEF ActingRequest, Onward
<1> HIDE DEF r
<1>4. SpaceShape'
  BY <1>2, SessionBefore DEF SpaceShape
<1> QED BY <1>1, <1>2, <1>3, <1>4, ActingGoesOn

LEMMA CheckDoneInv ==
    ASSUME OpsInv, NEW s \in Sessions, CheckDone(s)
    PROVE  OpsInv'
<1> DEFINE r == [sessions[s] EXCEPT !.pc = "execute", !.next = 1]
<1>1. sessions[s] \in ActingRequest /\ ~sessions[s].critical
  BY KindOfRequest DEF CheckDone, Reads
<1>2. Moves(s, r) /\ UNCHANGED <<space, pending_ops, previews, executed, edits>>
  BY DEF CheckDone
<1>3. /\ r \in ActingRequest /\ r.pc = "execute" /\ r.user = sessions[s].user
      /\ r.operation = sessions[s].operation /\ r.target_ids = sessions[s].target_ids
      /\ r.critical = sessions[s].critical /\ r.token = sessions[s].token /\ r.age = sessions[s].age
  BY <1>1 DEF ActingRequest
<1> HIDE DEF r
<1>4. SpaceShape'
  BY <1>2, SessionBefore DEF SpaceShape
<1> QED BY <1>1, <1>2, <1>3, <1>4, ActingGoesOn

LEMMA ReadTargetInv ==
    ASSUME OpsInv, NEW s \in Sessions, ReadTarget(s)
    PROVE  OpsInv'
<1> DEFINE memory == space[sessions[s].user][Target(s)]
           r == IF Skips(sessions[s].operation, memory)
                THEN Onward(s) ELSE [sessions[s] EXCEPT !.pc = "patch"]
<1>1. sessions[s] \in ActingRequest /\ ~sessions[s].critical /\ sessions[s].pc = "execute"
  BY KindOfRequest DEF ReadTarget, Reads, AsPreviewed
<1>2. Moves(s, r) /\ UNCHANGED <<space, pending_ops, previews, executed, edits>>
  BY DEF ReadTarget
<1>3. /\ r \in ActingRequest /\ r.pc \in {"execute", "patch"} /\ r.user = sessions[s].user
      /\ r.operation = sessions[s].operation /\ r.target_ids = sessions[s].target_ids
      /\ r.critical = sessions[s].critical /\ r.token = sessions[s].token /\ r.age = sessions[s].age
  <2>1. CASE Skips(sessions[s].operation, memory)
    BY <1>1, <2>1 DEF ActingRequest, Onward
  <2>2. CASE ~Skips(sessions[s].operation, memory)
    <3>1. r = [sessions[s] EXCEPT !.pc = "patch"]
      BY <2>2
    <3> QED BY <1>1, <3>1 DEF ActingRequest
  <2> QED BY <2>1, <2>2
<1>4. r.pc = "patch" => sessions[s].operation # "merge"
  <2>1. CASE Skips(sessions[s].operation, memory)
    BY <1>1, <2>1 DEF ActingRequest, Onward
  <2>2. CASE ~Skips(sessions[s].operation, memory)
    BY <2>2 DEF Skips
  <2> QED BY <2>1, <2>2
<1> HIDE DEF r
<1>5. SpaceShape'
  BY <1>2, SessionBefore DEF SpaceShape
<1> QED BY <1>1, <1>2, <1>3, <1>4, <1>5, ActingGoesOn

LEMMA PatchTargetInv ==
    ASSUME OpsInv, NEW s \in Sessions, PatchTarget(s)
    PROVE  OpsInv'
<1> DEFINE r == [Onward(s) EXCEPT !.pc = "execute"]
           u == sessions[s].user
           id == Target(s)
           memory == Patched(sessions[s].operation, space[u][id])
<1>1. /\ sessions[s] \in ActingRequest /\ sessions[s].pc = "patch"
      /\ ~sessions[s].critical /\ sessions[s].operation # "merge"
  BY KindOfRequest DEF PatchTarget, Reads, AsPreviewed
<1>2. /\ Moves(s, r) /\ UNCHANGED <<pending_ops, previews, executed, edits>>
      /\ space' = [space EXCEPT ![u][id] = memory]
  BY DEF PatchTarget
<1>3. /\ r \in ActingRequest /\ r.pc = "execute" /\ r.user = sessions[s].user
      /\ r.operation = sessions[s].operation /\ r.target_ids = sessions[s].target_ids
      /\ r.critical = sessions[s].critical /\ r.token = sessions[s].token /\ r.age = sessions[s].age
  <2> DEFINE o == Onward(s)
  <2>1. /\ o \in ActingRequest /\ o.user = sessions[s].user
        /\ o.operation = sessions[s].operation /\ o.target_ids = sessions[s].target_ids
        /\ o.critical = sessions[s].critical /\ o.token = sessions[s].token /\ o.age = sessions[s].age
    BY <1>1 DEF ActingRequest, Onward
  <2>2. r = [o EXCEPT !.pc = "execute"]
    OBVIOUS
  <2> HIDE DEF o, r
  <2> QED BY <2>1, <2>2 DEF ActingRequest
<1>4. space \in [Owners -> [Memories -> Memory]] /\ edits \in 0..MaxEdits
  BY SessionBefore DEF SpaceShape
<1>5. id \in Memories => memory \in Memory
  <2>1. u \in Owners /\ sessions[s].operation \in {"delete", "quarantine", "restore"}
    BY <1>1 DEF ActingRequest, Operations
  <2>2. ASSUME id \in Memories PROVE memory \in Memory
    <3>1. space[u][id] \in Memory
      BY <1>4, <2>1, <2>2
    <3> QED BY <2>1, <3>1 DEF Patched, Memory
  <2> QED BY <2>2
<1> HIDE DEF r, u, id, memory
<1>6. space' \in [Owners -> [Memories -> Memory]]
  BY <1>2, <1>4, <1>5
<1>7. SpaceShape'
  BY <1>2, <1>4, <1>6 DEF SpaceShape
<1> QED BY <1>1, <1>2, <1>3, <1>7, ActingGoesOn

\* The owner and the clock leave tokens and requests what they are about.
LEMMA ProtectInv ==
    ASSUME OpsInv, NEW u \in Owners, NEW id \in Memories,
           NEW protection \in {"none", "identity", "enforced"}, Protect(u, id, protection)
    PROVE  OpsInv'
<1>1. /\ edits < MaxEdits /\ edits' = edits + 1 /\ UNCHANGED <<pending_ops, sessions, previews, executed>>
      /\ space' = [space EXCEPT ![u][id].protection = protection]
  BY DEF Protect
<1>2. space \in [Owners -> [Memories -> Memory]] /\ edits \in 0..MaxEdits /\ MaxEdits \in Nat
  BY OperationsAssumption DEF OpsInv, SpaceShape
<1>3. SpaceShape'
  <2>1. [space[u][id] EXCEPT !.protection = protection] \in Memory
    BY <1>2 DEF Memory
  <2>2. space' = [space EXCEPT ![u][id] = [space[u][id] EXCEPT !.protection = protection]]
    BY <1>1
  <2>3. space' \in [Owners -> [Memories -> Memory]]
    BY <1>2, <2>1, <2>2
  <2>4. edits' \in 0..MaxEdits
    BY <1>1, <1>2
  <2> QED BY <2>3, <2>4 DEF SpaceShape
<1>4. TokensKnown' /\ TakenOnce' /\ RequestsKnown'
  BY <1>1 DEF OpsInv, TokensKnown, TakenOnce, RequestsKnown, AsPreviewed, Previewing, Reads
<1> QED BY <1>3, <1>4 DEF OpsInv

LEMMA TickInv ==
    ASSUME OpsInv, Tick
    PROVE  OpsInv'
<1>1. /\ UNCHANGED <<space, sessions, previews, executed, edits>>
      /\ DOMAIN pending_ops' = DOMAIN pending_ops
      /\ \A t \in DOMAIN pending_ops : pending_ops'[t] =
            [pending_ops[t] EXCEPT !.age = IF @ < OP_TOKEN_TTL_SECS THEN @ + 1 ELSE @]
  BY DEF Tick
<1>2. TokensKnown'
  <2>1. ASSUME NEW t \in DOMAIN pending_ops
        PROVE  /\ pending_ops'[t] \in [for : PendingOp, age : 0..OP_TOKEN_TTL_SECS]
               /\ pending_ops'[t].for = pending_ops[t].for
    <3> DEFINE age == IF pending_ops[t].age < OP_TOKEN_TTL_SECS
                      THEN pending_ops[t].age + 1 ELSE pending_ops[t].age
    <3>1. pending_ops[t] \in [for : PendingOp, age : 0..OP_TOKEN_TTL_SECS]
      BY DEF OpsInv, TokensKnown
    <3>2. age \in 0..OP_TOKEN_TTL_SECS
      <4>1. pending_ops[t].age \in 0..OP_TOKEN_TTL_SECS /\ OP_TOKEN_TTL_SECS \in Nat
        BY <3>1, OperationsAssumption
      <4> QED BY <4>1
    <3>3. pending_ops'[t] = [pending_ops[t] EXCEPT !.age = age]
      BY <1>1
    <3> HIDE DEF age
    <3> QED BY <3>1, <3>2, <3>3
  <2> QED BY <1>1, <2>1 DEF OpsInv, TokensKnown
<1>3. TakenOnce' /\ RequestsKnown' /\ SpaceShape'
  BY <1>1 DEF OpsInv, TakenOnce, RequestsKnown, AsPreviewed, Previewing, Reads, SpaceShape
<1> QED BY <1>2, <1>3 DEF OpsInv

\* Nobody can tell a token that was forgotten from one that was taken.
LEMMA ProcessRestartsInv ==
    ASSUME OpsInv, ProcessRestarts
    PROVE  OpsInv'
<1>1. /\ edits < MaxEdits /\ edits' = edits + 1 /\ UNCHANGED <<space, previews, executed>>
      /\ DOMAIN pending_ops' = {} /\ sessions' = [s \in Sessions |-> NoRequest]
  BY DEF ProcessRestarts
<1>2. TokensKnown' /\ TakenOnce'
  BY <1>1 DEF OpsInv, TokensKnown, TakenOnce
<1>3. RequestsKnown'
  <2>1. Previewing' = {}
    BY <1>1, RequestKinds DEF Previewing, Reads
  <2>2. Cardinality(Previewing') = 0
    BY <2>1, FS_EmptySet
  <2>3. Len(previews') <= MaxTokens
    <3>1. /\ Len(previews) + Cardinality(Previewing) <= MaxTokens /\ Cardinality(Previewing) \in Nat
          /\ Len(previews) \in Nat /\ MaxTokens \in Nat
      <4>1. IsFiniteSet(Previewing)
        BY OperationsAssumption, FS_Subset DEF Previewing
      <4> QED BY <4>1, FS_CardinalityType, OperationsAssumption DEF OpsInv, RequestsKnown, TokensKnown
    <3> QED BY <1>1, <3>1
  <2>4. Len(previews') \in Nat
    BY <1>1 DEF OpsInv, TokensKnown
  <2>5. \A s \in Sessions : AsPreviewed(sessions[s])'
    BY <1>1, RequestKinds DEF AsPreviewed
  <2>6. sessions' \in [Sessions -> Request]
    BY <1>1 DEF Request
  <2>7. Len(previews') + Cardinality(Previewing') <= MaxTokens
    BY <2>2, <2>3, <2>4
  <2> QED BY <2>5, <2>6, <2>7 DEF RequestsKnown
<1>4. SpaceShape'
  <2>1. edits' \in 0..MaxEdits
    BY <1>1, OperationsAssumption DEF OpsInv, SpaceShape
  <2> QED BY <1>1, <2>1 DEF OpsInv, SpaceShape
<1> QED BY <1>2, <1>3, <1>4 DEF OpsInv

LEMMA OpsInitInv == OperationsInit => OpsInv
<1> SUFFICES ASSUME OperationsInit PROVE OpsInv
  OBVIOUS
<1>1. /\ DOMAIN pending_ops = {} /\ sessions = [s \in Sessions |-> NoRequest]
      /\ previews = <<>> /\ executed = <<>> /\ edits = 0
  BY DEF OperationsInit
<1>2. TokensKnown /\ TakenOnce
  BY <1>1 DEF TokensKnown, TakenOnce
<1>3. RequestsKnown
  <2>1. Previewing = {}
    BY <1>1, RequestKinds DEF Previewing, Reads
  <2>2. Cardinality(Previewing) = 0 /\ Len(previews) = 0 /\ MaxTokens \in Nat
    BY <1>1, <2>1, FS_EmptySet, OperationsAssumption
  <2>3. \A s \in Sessions : AsPreviewed(sessions[s])
    BY <1>1, RequestKinds DEF AsPreviewed
  <2>4. sessions \in [Sessions -> Request]
    BY <1>1 DEF Request
  <2>5. Len(previews) + Cardinality(Previewing) <= MaxTokens
    BY <2>2
  <2> QED BY <2>3, <2>4, <2>5 DEF RequestsKnown
<1>4. SpaceShape
  <2>1. PICK kind \in [Memories -> {"none", "identity"}] :
            space = [u \in Owners |-> [id \in Memories |->
                       [protection |-> kind[id], quarantined |-> FALSE, forgotten |-> FALSE]]]
    BY DEF OperationsInit
  <2>2. \A id \in Memories :
            [protection |-> kind[id], quarantined |-> FALSE, forgotten |-> FALSE] \in Memory
    BY DEF Memory
  <2>3. edits \in 0..MaxEdits
    BY <1>1, OperationsAssumption
  <2>4. space \in [Owners -> [Memories -> Memory]]
    BY <2>1, <2>2
  <2> QED BY <2>3, <2>4 DEF SpaceShape
<1> QED BY <1>2, <1>3, <1>4 DEF OpsInv

LEMMA OpsStepInv == OpsInv /\ [OperationsNext]_operationVars => OpsInv'
<1> SUFFICES ASSUME OpsInv, [OperationsNext]_operationVars PROVE OpsInv'
  OBVIOUS
<1>1. ASSUME NEW s \in Sessions, SessionNext(s) PROVE OpsInv'
  <2>1. ASSUME NEW u \in Owners, NEW op \in Operations, NEW ids \in TargetLists, DryRun(s, u, op, ids)
        PROVE  OpsInv'
    BY <2>1, DryRunInv
  <2>2. ASSUME NEW u \in Owners, NEW token \in DOMAIN pending_ops,
               \/ OperationsConfirm(s, u, token)
               \/ \E ids \in TargetLists :
                     BulkQuarantine(s, u, token, ids) \/ BulkRestore(s, u, token, ids)
        PROVE  OpsInv'
    <3>1. TakePendingOp(s, u, token, pending_ops[token].for.operation, pending_ops[token].for.target_ids)
      BY <2>2 DEF OperationsConfirm, BulkQuarantine, BulkRestore, BulkRoute
    <3> QED BY <3>1, TakePendingOpInv
  <2>3. ASSUME NEW u \in Owners, NEW token \in DOMAIN pending_ops, TokenExpired(s, u, token)
        PROVE  OpsInv'
    BY <2>3, TokenExpiredInv
  <2>4. CASE PreviewTarget(s)
    BY <2>4, PreviewTargetInv
  <2>5. CASE InsertToken(s)
    BY <2>5, InsertTokenInv
  <2>6. CASE RefuseProtected(s) \/ AnswerConfirm(s)
    <3>1. Moves(s, NoRequest) /\ UNCHANGED <<space, pending_ops, previews, executed, edits>>
      BY <2>6 DEF RefuseProtected, AnswerConfirm
    <3> QED BY <3>1, RequestEnds
  <2>7. CASE CheckTarget(s)
    BY <2>7, CheckTargetInv
  <2>8. CASE CheckDone(s)
    BY <2>8, CheckDoneInv
  <2>9. CASE ReadTarget(s)
    BY <2>9, ReadTargetInv
  <2>10. CASE PatchTarget(s)
    BY <2>10, PatchTargetInv
  <2> QED BY <1>1, <2>1, <2>2, <2>3, <2>4, <2>5, <2>6, <2>7, <2>8, <2>9, <2>10 DEF SessionNext
<1>2. ASSUME NEW u \in Owners, NEW id \in Memories,
             NEW protection \in {"none", "identity", "enforced"}, Protect(u, id, protection)
      PROVE  OpsInv'
  BY <1>2, ProtectInv
<1>3. CASE Tick
  BY <1>3, TickInv
<1>4. CASE ProcessRestarts
  BY <1>4, ProcessRestartsInv
<1>5. CASE UNCHANGED operationVars
  BY <1>5 DEF operationVars, OpsInv, TokensKnown, TakenOnce, RequestsKnown, AsPreviewed, Previewing,
              Reads, SpaceShape
<1> QED BY <1>1, <1>2, <1>3, <1>4, <1>5 DEF OperationsNext

LEMMA OpsInvHolds == OperationsSpec => []OpsInv
BY OpsInitInv, OpsStepInv, PTL DEF OperationsSpec

\* Of any number of confirmations and bulk calls that race for the tokens of any
\* number of users, restarts and clock ticks in between, each token acts once, for
\* its user, in time and on the targets its dry run showed, and a critical
\* operation never gets past the check (take_pending_op, operations_confirm).
THEOREM ConfirmationsHold == OperationsSpec => []ConfirmedAsPreviewed
<1>1. OpsInv => ConfirmedAsPreviewed
  <2> SUFFICES ASSUME OpsInv PROVE ConfirmedAsPreviewed
    OBVIOUS
  <2>1. ASSUME NEW s \in Acting
        PROVE  LET request == sessions[s]  preview == previews[request.token] IN
               /\ request.user = preview.user /\ request.operation = preview.operation
               /\ request.target_ids = preview.target_ids
               /\ request.age < OP_TOKEN_TTL_SECS
               /\ preview.critical => request.pc = "check"
    BY KindOfRequest DEF Acting, AsPreviewed
  <2> QED BY <2>1 DEF OpsInv, TakenOnce, ConfirmedAsPreviewed
<1> QED BY <1>1, OpsInvHolds, PTL

\* Tokens are handed out in order, no older than the clock lets them get, and the
\* bounds of the instance hold, dry runs under way counted.
THEOREM OperationsTypeCorrect == OperationsSpec => []OperationsTypeOK
<1>1. OpsInv => OperationsTypeOK
  <2> SUFFICES ASSUME OpsInv PROVE OperationsTypeOK
    OBVIOUS
  <2>1. Len(previews) <= MaxTokens
    <3>1. Cardinality(Previewing) \in Nat
      <4>1. IsFiniteSet(Previewing)
        BY OperationsAssumption, FS_Subset DEF Previewing
      <4> QED BY <4>1, FS_CardinalityType
    <3>2. Len(previews) \in Nat /\ MaxTokens \in Nat /\ Len(previews) + Cardinality(Previewing) <= MaxTokens
      BY OperationsAssumption DEF OpsInv, TokensKnown, RequestsKnown
    <3> QED BY <3>1, <3>2
  <2>2. ASSUME NEW s \in Sessions
        PROVE  sessions[s].pc \in {"idle", "preview", "check", "execute", "patch"}
    BY KindOfRequest, RequestKinds DEF Request
  <2>3. \A t \in DOMAIN pending_ops : t \in 1..Len(previews) /\ pending_ops[t].age \in 0..OP_TOKEN_TTL_SECS
    BY DEF OpsInv, TokensKnown
  <2> QED BY <2>1, <2>2, <2>3 DEF OpsInv, SpaceShape, OperationsTypeOK
<1> QED BY <1>1, OpsInvHolds, PTL

-----------------------------------------------------------------------------
(* Memory rows *)

\* A row as the operations need it: its fields, whatever its labels are called.
IsRow(row) ==
    /\ DOMAIN row = {"labels", "valid_to", "importance", "mass", "enforced", "access"}
    /\ row.valid_to \in BOOLEAN /\ row.enforced \in BOOLEAN /\ row.importance \in Int

\* What every write keeps, and what a write of the consolidation keeps besides.
KeepsNote(row, new) == IsRow(new) /\ ("note" \in row.labels => "note" \in new.labels)
Background(row, new) ==
    /\ KeepsNote(row, new)
    /\ row.valid_to => new.valid_to
    /\ row.enforced /\ ~row.valid_to => ~new.valid_to
    /\ new.importance < row.importance => new.importance >= IMPORTANCE_FLOOR \/ new.valid_to

\* The two rows a call in progress holds: the one it read and the one it will write.
Pair(call) ==
    /\ call.tool # "none" => call.id \in Ids
    /\ call.base # <<>> =>
        /\ IsRow(call.base) /\ KeepsNote(call.base, call.desired)
        /\ call.base.valid_to /\ ~call.desired.valid_to => call.tool = "restore"

CycleFields == {"pc", "auto", "seen", "todo", "recurrent", "pairs", "merged", "list", "keep", "remove",
                "evicted"}
CycleShape ==
    /\ DOMAIN cycle = CycleFields
    /\ cycle.pc \in {"adjust", "recompute"} => \A id \in Ids : IsRow(cycle.seen[id])
    /\ cycle.pc = "adjust" => cycle.keep \in Ids

RowsShape == DOMAIN rows = Ids /\ \A id \in Ids : IsRow(rows[id])
CallsShape ==
    /\ DOMAIN calls = Users
    /\ \A u \in Users : DOMAIN calls[u] = {"tool", "id", "base", "desired"} /\ Pair(calls[u])

RowsInv == RowsShape /\ CycleShape /\ CallsShape

LEMMA Bounds ==
    /\ \A a, b \in Int : Least(a, b) \in Int /\ Greatest(a, b) \in Int
                         /\ Least(a, b) <= a /\ Least(a, b) <= b
                         /\ Greatest(a, b) >= a /\ Greatest(a, b) >= b
                         /\ (Least(a, b) = a \/ Least(a, b) = b)
    /\ \A n, low, high \in Int : Clamp(n, low, high) \in Int /\ Clamp(n, low, high) >= low
    /\ \A n \in Int : (n * 15) \div 100 \in Int
    /\ IMPORTANCE_FLOOR = 30 /\ FORGET_IMPORTANCE = 1 /\ MASS_MIN = 10
BY DEF Least, Greatest, Clamp, IMPORTANCE_FLOOR, FORGET_IMPORTANCE, MASS_MIN

\* The operations of domain/ops.rs.
LEMMA Unchanged == ASSUME NEW row, IsRow(row) PROVE Background(row, row)
BY DEF Background, KeepsNote, IsRow

LEMMA TombstoneKeeps ==
    ASSUME NEW row, IsRow(row), NEW importance \in Int, NEW below
    PROVE  Background(row, Tombstone(row, importance, below))
<1> DEFINE new == [row EXCEPT !.valid_to = TRUE, !.importance = importance]
<1>1. \/ Tombstone(row, importance, below) = row
      \/ Tombstone(row, importance, below) = new /\ ~row.enforced
  BY DEF Tombstone
<1>2. ~row.enforced => Background(row, new)
  BY DEF Background, KeepsNote, IsRow
<1> QED BY <1>1, <1>2, Unchanged

LEMMA CasKeeps ==
    ASSUME NEW row, IsRow(row), NEW expect, NEW new \in Int, new >= IMPORTANCE_FLOOR
    PROVE  Background(row, CasImportance(row, expect, new))
BY DEF Background, KeepsNote, IsRow, CasImportance

LEMMA AddImportanceKeeps ==
    ASSUME NEW row, IsRow(row), NEW delta \in Nat
    PROVE  Background(row, AddImportance(row, delta, 350))
<1> DEFINE new == Least(row.importance + delta, 350)
<1>1. new \in Int /\ (new < row.importance => new = 350) /\ IMPORTANCE_FLOOR = 30
  BY DEF Least, IMPORTANCE_FLOOR, IsRow
<1>2. AddImportance(row, delta, 350) = [row EXCEPT !.importance = new]
  BY DEF AddImportance
<1> HIDE DEF new
<1> QED BY <1>1, <1>2 DEF Background, KeepsNote, IsRow

LEMMA QuarantineKeeps ==
    ASSUME NEW row, IsRow(row)
    PROVE  Background(row, Quarantine(row, IMPORTANCE_FLOOR, MASS_MIN))
<1> DEFINE importance == Least(row.importance, IMPORTANCE_FLOOR)
           mass == Least(row.mass, Greatest(MASS_MIN, MASS_MIN))
           new == [row EXCEPT !.labels = @ \cup {"quarantine"}, !.importance = importance, !.mass = mass]
<1>1. importance \in Int /\ (importance < row.importance => importance >= IMPORTANCE_FLOOR)
  BY DEF Least, IMPORTANCE_FLOOR, IsRow
<1>2. Quarantine(row, IMPORTANCE_FLOOR, MASS_MIN) \in {row, new}
  BY DEF Quarantine
<1> HIDE DEF importance, mass
<1>3. Background(row, new)
  BY <1>1 DEF Background, KeepsNote, IsRow
<1> QED BY <1>2, <1>3, Unchanged

LEMMA SupersedeKeeps ==
    ASSUME NEW row, IsRow(row), NEW floor \in Int
    PROVE  Background(row, Supersede(row, floor, MASS_MIN))
<1> DEFINE importance == Greatest((row.importance * 15) \div 100, floor)
           mass == Least(row.mass, Greatest(MASS_MIN, MASS_MIN))
           new == [row EXCEPT !.labels = @ \cup {"superseded"}, !.valid_to = TRUE,
                              !.importance = importance, !.mass = mass]
<1>1. importance \in Int
  BY Bounds DEF IsRow
<1>2. \/ Supersede(row, floor, MASS_MIN) = row
      \/ Supersede(row, floor, MASS_MIN) = new /\ ~row.enforced
  BY DEF Supersede
<1> HIDE DEF importance, mass
<1>3. ~row.enforced => Background(row, new)
  BY <1>1 DEF Background, KeepsNote, IsRow
<1> QED BY <1>2, <1>3, Unchanged

LEMMA FieldsKeep ==
    ASSUME NEW row, IsRow(row)
    PROVE  /\ \A labels : Background(row, AddLabels(row, labels))
           /\ \A delta : Background(row, AdjustMass(row, delta))
           /\ Background(row, ResetAccessCount(row))
<1>1. ASSUME NEW labels PROVE Background(row, AddLabels(row, labels))
  BY DEF Background, KeepsNote, IsRow, AddLabels
<1>2. ASSUME NEW delta PROVE Background(row, AdjustMass(row, delta))
  BY DEF Background, KeepsNote, IsRow, AdjustMass
<1>3. Background(row, ResetAccessCount(row))
  BY DEF Background, KeepsNote, IsRow, ResetAccessCount
<1> QED BY <1>1, <1>2, <1>3

\* The three-way merge writes what the writer changed and nothing else.
LEMMA PatchKeeps ==
    ASSUME NEW cur, IsRow(cur), NEW base, IsRow(base), NEW desired, KeepsNote(base, desired)
    PROVE  /\ KeepsNote(cur, Patch(cur, base, desired))
           /\ Patch(cur, base, desired).valid_to
                 = IF desired.valid_to # base.valid_to THEN desired.valid_to ELSE cur.valid_to
           /\ Patch(cur, base, desired).importance \in {desired.importance, cur.importance}
           /\ Patch(cur, base, desired).importance # cur.importance
                 => desired.importance # base.importance
<1> DEFINE labels == MergeSet(cur.labels, base.labels, desired.labels)
           valid_to == MergeField(cur.valid_to, base.valid_to, desired.valid_to)
           importance == MergeField(cur.importance, base.importance, desired.importance)
           enforced == MergeField(cur.enforced, base.enforced, desired.enforced)
           access == MergeField(cur.access, base.access, desired.access)
<1>1. Patch(cur, base, desired) = [cur EXCEPT !.labels = labels, !.valid_to = valid_to,
                                     !.importance = importance, !.enforced = enforced, !.access = access]
  BY DEF Patch
<1>2. "note" \in cur.labels => "note" \in labels
  BY DEF MergeSet, KeepsNote
<1>3. /\ valid_to \in BOOLEAN /\ enforced \in BOOLEAN /\ importance \in Int
      /\ valid_to = IF desired.valid_to # base.valid_to THEN desired.valid_to ELSE cur.valid_to
      /\ importance \in {desired.importance, cur.importance}
      /\ importance # cur.importance => desired.importance # base.importance
  BY DEF MergeField, KeepsNote, IsRow
<1> HIDE DEF labels, valid_to, importance, enforced, access
<1> QED BY <1>1, <1>2, <1>3 DEF KeepsNote, IsRow

-----------------------------------------------------------------------------
(* The steps of the consolidation *)

\* A step writes at most one row, in the way of the background writers, and leaves
\* the calls alone.
Writes(id, new) == rows' = [rows EXCEPT ![id] = new] /\ (id \in Ids => Background(rows[id], new))
InBackground ==
    /\ calls' = calls /\ DOMAIN rows' = Ids
    /\ \A id \in Ids : Background(rows[id], rows'[id])

LEMMA OneRow ==
    ASSUME RowsInv, calls' = calls, NEW id, NEW new, Writes(id, new)
    PROVE  InBackground
<1>1. \A other \in Ids : Background(rows[other], rows[other])
  BY Unchanged DEF RowsInv, RowsShape
<1> QED BY <1>1 DEF RowsInv, RowsShape, Writes, InBackground

LEMMA NoRow ==
    ASSUME RowsInv, UNCHANGED <<rows, calls>>
    PROVE  InBackground
BY Unchanged DEF RowsInv, RowsShape, InBackground

\* Where a cycle goes on without a snapshot that is read again.
LEMMA CycleGoesOn ==
    ASSUME RowsInv, InBackground,
           DOMAIN cycle' = CycleFields,
           cycle'.pc \in {"adjust", "recompute"} => \A id \in Ids : IsRow(cycle'.seen[id]),
           cycle'.pc = "adjust" => cycle'.keep \in Ids
    PROVE  RowsInv'
<1>1. RowsShape'
  BY DEF InBackground, Background, KeepsNote, RowsShape
<1>2. CycleShape'
  BY DEF CycleShape
<1>3. CallsShape'
  BY DEF RowsInv, InBackground, CallsShape
<1> QED BY <1>1, <1>2, <1>3 DEF RowsInv

LEMMA CycleKnown ==
    /\ DOMAIN NoCycle = CycleFields /\ NoCycle.pc = "idle"
    /\ RowsInv => DOMAIN cycle = CycleFields
BY DEF NoCycle, CycleFields, RowsInv, CycleShape

LEMMA GovernKeeps ==
    ASSUME RowsInv, Govern PROVE InBackground /\ RowsInv'
<1>1. PICK id \in cycle.todo :
          /\ \E row \in Governed(id, cycle.seen[id], rows[id]) : Update(id, row)
          /\ cycle' = [cycle EXCEPT !.todo = @ \ {id}]
  BY DEF Govern
<1>2. PICK row \in Governed(id, cycle.seen[id], rows[id]) : Update(id, row)
  BY <1>1
<1>3. UNCHANGED calls /\ cycle.pc = "govern"
  BY DEF Govern, At, UsersIdle
<1>4. ASSUME id \in Ids PROVE Background(rows[id], row)
  <2>1. IsRow(rows[id]) /\ FORGET_IMPORTANCE \in Int
    BY <1>4 DEF RowsInv, RowsShape, FORGET_IMPORTANCE
  <2>2. ASSUME NEW to \in DecayTo PROVE Greatest(to, IMPORTANCE_FLOOR) \in Int
                                       /\ Greatest(to, IMPORTANCE_FLOOR) >= IMPORTANCE_FLOOR
    <3>1. to \in Int
      BY MemoryAssumption
    <3> QED BY <3>1 DEF Greatest, IMPORTANCE_FLOOR
  <2>3. \/ \E below : row = Tombstone(rows[id], FORGET_IMPORTANCE, below)
        \/ \E to \in DecayTo : \E expect :
              row = CasImportance(rows[id], expect, Greatest(to, IMPORTANCE_FLOOR))
    BY <1>2 DEF Governed
  <2> QED BY <2>1, <2>2, <2>3, TombstoneKeeps, CasKeeps
<1>5. InBackground
  BY <1>2, <1>3, <1>4, OneRow DEF Update, Writes
<1>6. DOMAIN cycle' = CycleFields /\ cycle'.pc = "govern"
  BY <1>1, <1>3, CycleKnown DEF CycleFields
<1> QED BY <1>5, <1>6, CycleGoesOn

LEMMA BoostKeeps ==
    ASSUME RowsInv, Boost PROVE InBackground /\ RowsInv'
<1>1. PICK id \in cycle.todo :
          /\ Update(id, AddImportance(rows[id], IF rows[id].access >= 3 THEN 10 ELSE 30, 350))
          /\ cycle' = [cycle EXCEPT !.todo = @ \ {id}]
  BY DEF Boost
<1>2. UNCHANGED calls /\ cycle.pc = "boost"
  BY DEF Boost, At, UsersIdle
<1> DEFINE delta == IF rows[id].access >= 3 THEN 10 ELSE 30
<1>3. delta \in Nat
  OBVIOUS
<1>4. Update(id, AddImportance(rows[id], delta, 350))
  BY <1>1
<1> HIDE DEF delta
<1>5. id \in Ids => Background(rows[id], AddImportance(rows[id], delta, 350))
  BY <1>3, AddImportanceKeeps DEF RowsInv, RowsShape
<1>6. InBackground
  BY <1>2, <1>4, <1>5, OneRow DEF Update, Writes
<1>7. DOMAIN cycle' = CycleFields /\ cycle'.pc = "boost"
  BY <1>1, <1>2, CycleKnown DEF CycleFields
<1> QED BY <1>6, <1>7, CycleGoesOn

\* The aggregation patches a row from the snapshot, and only its importance.
LEMMA AggregateKeeps ==
    ASSUME RowsInv, Aggregate PROVE InBackground /\ RowsInv'
<1>1. PICK by \in Adjustments :
          LET base    == cycle.seen[cycle.keep]
              desired == [base EXCEPT !.importance = Clamp(@ + by, IMPORTANCE_FLOOR, 500)]
          IN  Update(cycle.keep, Patch(rows[cycle.keep], base, desired))
  BY DEF Aggregate
<1> DEFINE id == cycle.keep
           base == cycle.seen[id]
           importance == Clamp(base.importance + by, IMPORTANCE_FLOOR, 500)
           desired == [base EXCEPT !.importance = importance]
           new == Patch(rows[id], base, desired)
<1>2. UNCHANGED calls /\ id \in Ids /\ IsRow(base) /\ IsRow(rows[id])
      /\ cycle' = [cycle EXCEPT !.pc = "aggregate", !.keep = 0, !.seen = <<>>]
  BY DEF Aggregate, At, UsersIdle, RowsInv, CycleShape, RowsShape
<1>3. rows' = [rows EXCEPT ![id] = new]
  BY <1>1 DEF Update
<1>4. importance \in Int /\ importance >= IMPORTANCE_FLOOR
  <2>1. by \in Int /\ base.importance \in Int /\ IMPORTANCE_FLOOR \in Int
    BY <1>2, MemoryAssumption, Bounds DEF IsRow
  <2>2. base.importance + by \in Int
    BY <2>1
  <2> HIDE DEF base
  <2> QED BY <2>1, <2>2 DEF Clamp, Greatest, Least, IMPORTANCE_FLOOR
<1> HIDE DEF base, importance
<1>5. /\ KeepsNote(base, desired) /\ desired.valid_to = base.valid_to
      /\ desired.importance >= IMPORTANCE_FLOOR
  BY <1>2, <1>4 DEF KeepsNote, IsRow
<1> HIDE DEF id, desired
<1>6. Background(rows[id], new)
  <2>1. /\ KeepsNote(rows[id], new)
        /\ new.valid_to = IF desired.valid_to # base.valid_to THEN desired.valid_to ELSE rows[id].valid_to
        /\ new.importance \in {desired.importance, rows[id].importance}
    BY <1>2, <1>5, PatchKeeps
  <2> HIDE DEF new
  <2>2. rows[id].importance \in Int
    BY <1>2 DEF IsRow
  <2> QED BY <1>5, <2>1, <2>2 DEF Background
<1> HIDE DEF new
<1>7. InBackground
  BY <1>2, <1>3, <1>6, OneRow DEF Writes
<1>8. DOMAIN cycle' = CycleFields /\ cycle'.pc = "aggregate"
  BY <1>2, CycleKnown DEF CycleFields
<1> QED BY <1>7, <1>8, CycleGoesOn

LEMMA QuarantineSickKeeps ==
    ASSUME RowsInv, QuarantineSick PROVE InBackground /\ RowsInv'
<1>1. PICK id \in cycle.todo :
          /\ Update(id, Quarantine(rows[id], IMPORTANCE_FLOOR, MASS_MIN))
          /\ cycle' = [cycle EXCEPT !.todo = @ \ {id},
                          !.evicted = @ \/ Quarantine(rows[id], IMPORTANCE_FLOOR, MASS_MIN) # rows[id]]
  BY DEF QuarantineSick
<1>2. UNCHANGED calls /\ cycle.pc = "doctor"
  BY DEF QuarantineSick, At, UsersIdle
<1>3. id \in Ids => Background(rows[id], Quarantine(rows[id], IMPORTANCE_FLOOR, MASS_MIN))
  BY QuarantineKeeps DEF RowsInv, RowsShape
<1>4. InBackground
  BY <1>1, <1>2, <1>3, OneRow DEF Update, Writes
<1>5. DOMAIN cycle' = CycleFields /\ cycle'.pc = "doctor"
  BY <1>1, <1>2, CycleKnown DEF CycleFields
<1> QED BY <1>4, <1>5, CycleGoesOn

LEMMA AbsorbKeeps ==
    ASSUME RowsInv, Absorb PROVE InBackground /\ RowsInv'
<1>1. PICK pair, keep, remove :
          /\ Update(remove, Supersede(rows[remove], IMPORTANCE_FLOOR, MASS_MIN))
          /\ \/ cycle' = [cycle EXCEPT !.pairs = cycle.pairs \ {pair}]
             \/ cycle' = [cycle EXCEPT !.pc = "gain", !.keep = keep, !.pairs = cycle.pairs \ {pair},
                                       !.merged = @ \cup {remove}]
  BY DEF Absorb
<1>2. UNCHANGED calls /\ cycle.pc = "absorb"
  BY DEF Absorb, At, UsersIdle
<1>3. remove \in Ids => Background(rows[remove], Supersede(rows[remove], IMPORTANCE_FLOOR, MASS_MIN))
  BY SupersedeKeeps, Bounds DEF RowsInv, RowsShape
<1>4. InBackground
  BY <1>1, <1>2, <1>3, OneRow DEF Update, Writes
<1>5. DOMAIN cycle' = CycleFields /\ cycle'.pc \in {"absorb", "gain"}
  BY <1>1, <1>2, CycleKnown DEF CycleFields
<1> QED BY <1>4, <1>5, CycleGoesOn

LEMMA RecomputeKeeps ==
    ASSUME RowsInv, Recompute PROVE InBackground /\ RowsInv'
<1>1. PICK id \in cycle.todo, by \in Adjustments \cup {0} :
          LET seen == cycle.seen[id]
              new  == Clamp(seen.importance + by, IMPORTANCE_FLOOR, 300)
          IN  /\ Update(id, IF seen.enforced \/ seen.valid_to THEN rows[id]
                            ELSE CasImportance(rows[id], seen.importance, new))
              /\ cycle' = [cycle EXCEPT !.todo = @ \ {id}]
  BY DEF Recompute
<1> DEFINE seen == cycle.seen[id]
           importance == Clamp(seen.importance + by, IMPORTANCE_FLOOR, 300)
           new == IF seen.enforced \/ seen.valid_to THEN rows[id]
                  ELSE CasImportance(rows[id], seen.importance, importance)
<1>2. UNCHANGED calls /\ cycle.pc = "recompute" /\ cycle' = [cycle EXCEPT !.todo = @ \ {id}]
      /\ rows' = [rows EXCEPT ![id] = new]
  BY <1>1 DEF Recompute, At, UsersIdle, Update
<1>3. \A i \in Ids : IsRow(cycle.seen[i])
  BY <1>2 DEF RowsInv, CycleShape
<1>4. ASSUME id \in Ids PROVE Background(rows[id], new)
  <2>1. IsRow(seen) /\ IsRow(rows[id])
    BY <1>3, <1>4 DEF RowsInv, RowsShape
  <2>2. importance \in Int /\ importance >= IMPORTANCE_FLOOR
    <3>1. by \in Int /\ seen.importance \in Int /\ IMPORTANCE_FLOOR \in Int
      BY <2>1, MemoryAssumption, Bounds DEF IsRow
    <3>2. seen.importance + by \in Int
      BY <3>1
    <3> HIDE DEF seen
    <3> QED BY <3>1, <3>2 DEF Clamp, Greatest, Least, IMPORTANCE_FLOOR
  <2> HIDE DEF seen, importance
  <2>3. Background(rows[id], rows[id])
        /\ Background(rows[id], CasImportance(rows[id], seen.importance, importance))
    BY <2>1, <2>2, Unchanged, CasKeeps
  <2> QED BY <2>3
<1> HIDE DEF new
<1>5. InBackground
  BY <1>2, <1>4, OneRow DEF Writes
<1>6. DOMAIN cycle' = CycleFields /\ cycle'.pc = "recompute" /\ cycle'.seen = cycle.seen
  BY <1>2, CycleKnown DEF CycleFields
<1> QED BY <1>3, <1>5, <1>6, CycleGoesOn

\* Gain, ResetAccess, MergeLabels and MergeSupersede.
LEMMA OtherWritesKeep ==
    ASSUME RowsInv, Gain \/ ResetAccess \/ MergeLabels \/ MergeSupersede
    PROVE  InBackground /\ RowsInv'
<1>1. ASSUME NEW id \in Ids
      PROVE  /\ \A labels : Background(rows[id], AddLabels(rows[id], labels))
             /\ Background(rows[id], AdjustMass(rows[id], 50))
             /\ Background(rows[id], ResetAccessCount(rows[id]))
             /\ Background(rows[id], Supersede(rows[id], FORGET_IMPORTANCE, MASS_MIN))
  <2>1. IsRow(rows[id]) /\ FORGET_IMPORTANCE \in Int
    BY Bounds DEF RowsInv, RowsShape
  <2> QED BY <2>1, FieldsKeep, SupersedeKeeps
<1>2. calls' = calls
  BY DEF Gain, ResetAccess, MergeLabels, MergeSupersede, UsersIdle
<1>3. CASE Gain
  <2>1. InBackground
    BY <1>1, <1>2, <1>3, OneRow DEF Gain, Update, Writes
  <2>2. DOMAIN cycle' = CycleFields /\ cycle'.pc = "absorb"
    BY <1>3, CycleKnown DEF Gain, CycleFields
  <2> QED BY <2>1, <2>2, CycleGoesOn
<1>4. CASE ResetAccess
  <2>1. PICK id \in cycle.todo : /\ Update(id, ResetAccessCount(rows[id]))
                                 /\ cycle' = [cycle EXCEPT !.todo = @ \ {id}]
    BY <1>4 DEF ResetAccess
  <2>2. InBackground
    BY <1>1, <1>2, <2>1, OneRow DEF Update, Writes
  <2>3. DOMAIN cycle' = CycleFields /\ cycle'.pc = "reset"
    BY <1>4, <2>1, CycleKnown DEF ResetAccess, At, CycleFields
  <2> QED BY <2>2, <2>3, CycleGoesOn
<1>5. CASE MergeLabels
  <2>1. PICK i \in cycle.todo, j \in cycle.todo :
          LET keep   == IF Timestamp[i] >= Timestamp[j] THEN i ELSE j
              remove == IF keep = i THEN j ELSE i
          IN  /\ Update(keep, AddLabels(rows[keep], cycle.seen[i].labels \cup cycle.seen[j].labels))
              /\ cycle' = [cycle EXCEPT
                              !.pc = "supersede", !.keep = keep, !.remove = remove,
                              !.todo = {k \in @ \ {remove} : cycle.list[k] > cycle.list[i]}]
    BY <1>5 DEF MergeLabels
  <2> DEFINE keep == IF Timestamp[i] >= Timestamp[j] THEN i ELSE j
             labels == cycle.seen[i].labels \cup cycle.seen[j].labels
  <2>4. rows' = [rows EXCEPT ![keep] = AddLabels(rows[keep], labels)]
    BY <2>1 DEF Update
  <2> HIDE DEF labels, keep
  <2>2. InBackground
    BY <1>1, <1>2, <2>4, OneRow DEF Writes
  <2>3. DOMAIN cycle' = CycleFields /\ cycle'.pc = "supersede"
    BY <2>1, CycleKnown DEF CycleFields
  <2> QED BY <2>2, <2>3, CycleGoesOn
<1>6. CASE MergeSupersede
  <2> DEFINE remove == cycle.remove
  <2>1. /\ rows' = [rows EXCEPT ![remove] = Supersede(rows[remove], FORGET_IMPORTANCE, MASS_MIN)]
        /\ cycle' = [cycle EXCEPT !.pc = "label", !.keep = 0, !.remove = 0]
    BY <1>6 DEF MergeSupersede, Update
  <2> HIDE DEF remove
  <2>2. InBackground
    BY <1>1, <1>2, <2>1, OneRow DEF Writes
  <2>3. DOMAIN cycle' = CycleFields /\ cycle'.pc = "label"
    BY <2>1, CycleKnown DEF CycleFields
  <2> QED BY <2>2, <2>3, CycleGoesOn
<1> QED BY <1>3, <1>4, <1>5, <1>6

\* The steps between two phases write no row.
LEMMA PhaseEnds ==
    ASSUME RowsInv,
           \/ StartAuto \/ GovernDone \/ BoostDone \/ SkipDream \/ StartDream \/ StartManual
           \/ DoctorDone \/ DreamDone \/ RecomputeDone \/ ResetDone \/ MergeDone
    PROVE  InBackground /\ RowsInv'
<1>1. UNCHANGED <<rows, calls>>
  BY DEF StartAuto, GovernDone, BoostDone, SkipDream, StartDream, StartManual, DoctorDone, DreamDone,
         RecomputeDone, ResetDone, MergeDone, UsersIdle
<1>2. InBackground
  BY <1>1, NoRow
<1>3. \A id \in Ids : IsRow(rows[id])
  BY DEF RowsInv, RowsShape
<1>4. DOMAIN cycle = CycleFields /\ DOMAIN NoCycle = CycleFields /\ NoCycle.pc = "idle"
  BY CycleKnown
<1>5. /\ DOMAIN cycle' = CycleFields
      /\ cycle'.pc \in {"adjust", "recompute"} => cycle'.seen = rows
      /\ cycle'.pc = "adjust" => cycle'.keep \in Ids
  <2>1. CASE StartAuto
    BY <1>4, <2>1 DEF StartAuto, CycleFields
  <2>2. CASE GovernDone
    BY <1>4, <2>2 DEF GovernDone, CycleFields
  <2>3. CASE BoostDone
    BY <1>4, <2>3 DEF BoostDone, CycleFields
  <2>4. CASE SkipDream \/ RecomputeDone \/ MergeDone
    BY <1>4, <2>4 DEF SkipDream, RecomputeDone, MergeDone
  <2>5. CASE StartDream \/ StartManual
    BY <1>4, <2>5 DEF StartDream, StartManual, Doctor, CycleFields
  <2>6. CASE DoctorDone
    BY <1>4, <2>6 DEF DoctorDone, CycleFields
  <2>7. CASE DreamDone
    BY <1>4, <2>7 DEF DreamDone, CycleFields
  <2>8. CASE ResetDone
    BY <1>4, <2>8 DEF ResetDone, CycleFields
  <2> QED BY <2>1, <2>2, <2>3, <2>4, <2>5, <2>6, <2>7, <2>8
<1> QED BY <1>2, <1>3, <1>5, CycleGoesOn

LEMMA ConsolidationKeeps ==
    ASSUME RowsInv, ConsolidationNext
    PROVE  InBackground /\ RowsInv'
<1>1. CASE Govern
  BY <1>1, GovernKeeps
<1>2. CASE Boost
  BY <1>2, BoostKeeps
<1>3. CASE Aggregate
  BY <1>3, AggregateKeeps
<1>4. CASE QuarantineSick
  BY <1>4, QuarantineSickKeeps
<1>5. CASE Absorb
  BY <1>5, AbsorbKeeps
<1>6. CASE Recompute
  BY <1>6, RecomputeKeeps
<1>7. CASE Gain \/ ResetAccess \/ MergeLabels \/ MergeSupersede
  BY <1>7, OtherWritesKeep
<1>8. CASE \/ StartAuto \/ GovernDone \/ BoostDone \/ SkipDream \/ StartDream \/ StartManual
           \/ DoctorDone \/ DreamDone \/ RecomputeDone \/ ResetDone \/ MergeDone
  BY <1>8, PhaseEnds
<1> QED BY <1>1, <1>2, <1>3, <1>4, <1>5, <1>6, <1>7, <1>8 DEF ConsolidationNext

-----------------------------------------------------------------------------
(* The steps of the tools *)

\* A tool writes at most one row, and makes one valid again only to restore it.
Restores(id) == \E u \in Users : calls[u].tool = "restore" /\ calls[u].id = id
InForeground ==
    /\ cycle' = cycle /\ DOMAIN rows' = Ids
    /\ \A id \in Ids : /\ KeepsNote(rows[id], rows'[id])
                       /\ rows[id].valid_to /\ ~rows'[id].valid_to => Restores(id)

LEMMA ToolWrites ==
    ASSUME RowsInv, cycle' = cycle, NEW id, NEW new, rows' = [rows EXCEPT ![id] = new],
           id \in Ids => /\ KeepsNote(rows[id], new)
                         /\ rows[id].valid_to /\ ~new.valid_to => Restores(id)
    PROVE  InForeground
<1>1. \A other \in Ids : KeepsNote(rows[other], rows[other])
  BY DEF RowsInv, RowsShape, KeepsNote
<1> QED BY <1>1 DEF RowsInv, RowsShape, InForeground

LEMMA ToolReads ==
    ASSUME RowsInv, UNCHANGED <<rows, cycle>>
    PROVE  InForeground
<1>1. \A other \in Ids : KeepsNote(rows[other], rows[other])
  BY DEF RowsInv, RowsShape, KeepsNote
<1> QED BY <1>1 DEF RowsInv, RowsShape, InForeground

LEMMA CallGoesOn ==
    ASSUME RowsInv, InForeground, NEW u \in Users, NEW call, calls' = [calls EXCEPT ![u] = call],
           DOMAIN call = {"tool", "id", "base", "desired"}, Pair(call)
    PROVE  RowsInv'
<1>1. RowsShape'
  BY DEF InForeground, KeepsNote, RowsShape
<1>2. CycleShape'
  BY DEF RowsInv, InForeground, CycleShape
<1>3. CallsShape'
  BY DEF RowsInv, CallsShape
<1> QED BY <1>1, <1>2, <1>3 DEF RowsInv

LEMMA CallsStay ==
    ASSUME RowsInv, InForeground, calls' = calls
    PROVE  RowsInv'
<1>1. RowsShape'
  BY DEF InForeground, KeepsNote, RowsShape
<1>2. CycleShape'
  BY DEF RowsInv, InForeground, CycleShape
<1>3. CallsShape'
  BY DEF RowsInv, CallsShape
<1> QED BY <1>1, <1>2, <1>3 DEF RowsInv

\* What memory_forget, memory_restore and a write over a row make of what they read.
LEMMA ReadForKeeps ==
    ASSUME RowsInv, NEW u \in Users, NEW tool, NEW id \in Ids, NEW desired,
           ReadFor(u, tool, id, desired), KeepsNote(rows[id], desired),
           rows[id].valid_to /\ ~desired.valid_to => tool = "restore"
    PROVE  InForeground /\ RowsInv'
<1> DEFINE call == [tool |-> tool, id |-> id, base |-> rows[id], desired |-> desired]
<1>1. UNCHANGED <<rows, cycle>> /\ calls' = [calls EXCEPT ![u] = call]
  BY DEF ReadFor, Call
<1>2. InForeground
  BY <1>1, ToolReads
<1>3. IsRow(rows[id])
  BY DEF RowsInv, RowsShape
<1>4. DOMAIN call = {"tool", "id", "base", "desired"} /\ Pair(call)
  BY <1>3 DEF Pair
<1> HIDE DEF call
<1> QED BY <1>1, <1>2, <1>4, CallGoesOn

LEMMA PayloadReadKeeps ==
    ASSUME RowsInv, NEW u \in Users, NEW id \in Ids,
           ForgetRead(u, id) \/ RestoreRead(u, id) \/ WriteOverRead(u, id)
    PROVE  InForeground /\ RowsInv'
<1>1. IsRow(rows[id])
  BY DEF RowsInv, RowsShape
<1>2. CASE ForgetRead(u, id)
  <2> DEFINE desired == [rows[id] EXCEPT !.valid_to = TRUE, !.importance = FORGET_IMPORTANCE]
  <2>1. ReadFor(u, "forget", id, desired)
    BY <1>2 DEF ForgetRead
  <2>2. KeepsNote(rows[id], desired) /\ desired.valid_to
    BY <1>1 DEF KeepsNote, IsRow, FORGET_IMPORTANCE
  <2> HIDE DEF desired
  <2> QED BY <2>1, <2>2, ReadForKeeps
<1>3. CASE RestoreRead(u, id)
  <2> DEFINE importance == Least(Greatest(rows[id].importance, 50) + 50, 300)
             desired == [rows[id] EXCEPT !.valid_to = FALSE, !.importance = importance]
  <2>1. ReadFor(u, "restore", id, desired)
    BY <1>3 DEF RestoreRead
  <2>2. importance \in Int
    BY <1>1 DEF Least, Greatest, IsRow
  <2> HIDE DEF importance
  <2>3. KeepsNote(rows[id], desired)
    BY <1>1, <2>2 DEF KeepsNote, IsRow
  <2> HIDE DEF desired
  <2> QED BY <2>1, <2>3, ReadForKeeps
<1>4. CASE WriteOverRead(u, id)
  <2> DEFINE importance == Greatest((rows[id].importance * 15) \div 100, IMPORTANCE_FLOOR)
             desired == [rows[id] EXCEPT !.labels = @ \cup {"superseded"}, !.valid_to = TRUE,
                                         !.importance = importance]
  <2>1. ReadFor(u, "write", id, desired)
    BY <1>4 DEF WriteOverRead
  <2>2. importance \in Int
    <3>1. rows[id].importance \in Int
      BY <1>1 DEF IsRow
    <3>2. (rows[id].importance * 15) \div 100 \in Int
      BY <3>1
    <3> QED BY <3>2 DEF Greatest, IMPORTANCE_FLOOR
  <2> HIDE DEF importance
  <2>3. KeepsNote(rows[id], desired) /\ desired.valid_to
    BY <1>1, <2>2 DEF KeepsNote, IsRow
  <2> HIDE DEF desired
  <2> QED BY <2>1, <2>3, ReadForKeeps
<1> QED BY <1>2, <1>3, <1>4

\* memory_feedback adds or takes back marks of its own, never a user's label.
LEMMA FeedbackKeeps ==
    ASSUME RowsInv, NEW u \in Users, NEW id \in Ids, FeedbackRead(u, id)
    PROVE  InForeground /\ RowsInv'
<1>1. PICK marks \in {[mass |-> -15, importance |-> -90, gained |-> {"outdated"}, lost |-> {}],
                      [mass |-> 35, importance |-> 80, gained |-> {},
                       lost |-> {"outdated", "superseded"}]} :
        LET row     == AdjustMass(rows[id], marks.mass)
            desired == [row EXCEPT
                           !.labels     = (@ \cup marks.gained) \ marks.lost,
                           !.importance = Clamp(@ + marks.importance, IMPORTANCE_FLOOR, 500)]
        IN  /\ Call(u, "feedback")
            /\ Update(id, row)
            /\ calls' = [calls EXCEPT ![u] =
                            [tool |-> "feedback", id |-> id, base |-> row, desired |-> desired]]
  BY DEF FeedbackRead
<1> DEFINE row == AdjustMass(rows[id], marks.mass)
           labels == (row.labels \cup marks.gained) \ marks.lost
           importance == Clamp(row.importance + marks.importance, IMPORTANCE_FLOOR, 500)
           desired == [row EXCEPT !.labels = labels, !.importance = importance]
           call == [tool |-> "feedback", id |-> id, base |-> row, desired |-> desired]
<1>2. cycle' = cycle /\ rows' = [rows EXCEPT ![id] = row] /\ calls' = [calls EXCEPT ![u] = call]
  BY <1>1 DEF Call, Update
<1>3. Background(rows[id], row)
  BY FieldsKeep DEF RowsInv, RowsShape
<1>4. marks.importance \in Int /\ "note" \notin marks.lost
  BY <1>1
<1> HIDE DEF row
<1>5. IsRow(row) /\ ("note" \in row.labels => "note" \in labels) /\ importance \in Int
  <2>1. IsRow(row)
    BY <1>3 DEF Background, KeepsNote
  <2>2. importance \in Int
    BY <1>4, <2>1 DEF IsRow, Clamp, Greatest, Least, IMPORTANCE_FLOOR
  <2> QED BY <1>4, <2>1, <2>2
<1> HIDE DEF labels, importance
<1>6. KeepsNote(row, desired) /\ desired.valid_to = row.valid_to
  BY <1>5 DEF KeepsNote, IsRow
<1> HIDE DEF desired
<1>7. DOMAIN call = {"tool", "id", "base", "desired"} /\ Pair(call)
  BY <1>5, <1>6 DEF Pair
<1> HIDE DEF call
<1>8. InForeground
  BY <1>2, <1>3, ToolWrites DEF Background
<1> QED BY <1>2, <1>7, <1>8, CallGoesOn

\* A confirmed quarantine, or its restore, reads the row in a task of its own.
LEMMA ConfirmKeeps ==
    ASSUME RowsInv, NEW u \in Users, NEW id \in Ids, Confirm(u, id)
    PROVE  InForeground /\ RowsInv'
<1>1. PICK op \in {"quarantine", "unquarantine"} :
          calls' = [calls EXCEPT ![u] = [NoCallYet EXCEPT !.tool = op, !.id = id]]
  BY DEF Confirm
<1>2. UNCHANGED <<rows, cycle>>
  BY DEF Confirm, Call
<1> DEFINE call == [NoCallYet EXCEPT !.tool = op, !.id = id]
<1>3. DOMAIN call = {"tool", "id", "base", "desired"} /\ Pair(call)
  BY DEF Pair, NoCallYet
<1> HIDE DEF call
<1>4. InForeground
  BY <1>2, ToolReads
<1> QED BY <1>1, <1>3, <1>4, CallGoesOn DEF call

LEMMA ConfirmedReadKeeps ==
    ASSUME RowsInv, NEW u \in Users, ConfirmedRead(u)
    PROVE  InForeground /\ RowsInv'
<1> DEFINE op == calls[u].tool
           row == rows[calls[u].id]
           desired == Confirmed(op, row)
           call == [calls[u] EXCEPT !.base = row, !.desired = desired]
<1>1. /\ op \in {"quarantine", "unquarantine"} /\ UNCHANGED <<rows, cycle>>
      /\ calls' = [calls EXCEPT ![u] = NoCallYet] \/ calls' = [calls EXCEPT ![u] = call]
  <2>1. [calls EXCEPT ![u].base = row, ![u].desired = desired] = [calls EXCEPT ![u] = call]
    BY DEF RowsInv, CallsShape
  <2> QED BY <2>1 DEF ConfirmedRead
<1>2. /\ DOMAIN calls[u] = {"tool", "id", "base", "desired"} /\ calls[u].id \in Ids
      /\ IsRow(row)
  BY <1>1 DEF RowsInv, RowsShape, CallsShape, Pair
<1> HIDE DEF row
<1>3. KeepsNote(row, desired) /\ desired.valid_to = row.valid_to
  <2>1. CASE op = "quarantine"
    <3>1. Least(row.importance, 10) \in Int
      BY <1>2 DEF Least, IsRow
    <3> QED BY <1>2, <2>1, <3>1 DEF Confirmed, KeepsNote, IsRow
  <2>2. CASE op # "quarantine"
    BY <1>2, <2>2 DEF Confirmed, KeepsNote, IsRow
  <2> QED BY <2>1, <2>2
<1> HIDE DEF desired
<1>4. DOMAIN call = {"tool", "id", "base", "desired"} /\ Pair(call)
  BY <1>2, <1>3 DEF Pair
<1>5. DOMAIN NoCallYet = {"tool", "id", "base", "desired"} /\ Pair(NoCallYet)
  BY DEF NoCallYet, Pair
<1> HIDE DEF call
<1>6. InForeground
  BY <1>1, ToolReads
<1> QED BY <1>1, <1>4, <1>5, <1>6, CallGoesOn

\* The difference between the two rows is merged into the row as it is by then.
LEMMA PatchBackKeeps ==
    ASSUME RowsInv, NEW u \in Users, PatchBack(u)
    PROVE  InForeground /\ RowsInv'
<1> DEFINE id == calls[u].id
           base == calls[u].base
           desired == calls[u].desired
           new == Patch(rows[id], base, desired)
<1>1. /\ cycle' = cycle /\ rows' = [rows EXCEPT ![id] = new]
      /\ calls' = [calls EXCEPT ![u] = NoCallYet]
  BY DEF PatchBack, Update
<1>2. /\ IsRow(base) /\ KeepsNote(base, desired)
      /\ base.valid_to /\ ~desired.valid_to => calls[u].tool = "restore"
  BY DEF PatchBack, RowsInv, CallsShape, Pair
<1> HIDE DEF base, desired
<1>3. ASSUME id \in Ids
      PROVE  KeepsNote(rows[id], new) /\ (rows[id].valid_to /\ ~new.valid_to => Restores(id))
  <2>1. IsRow(rows[id])
    BY <1>3 DEF RowsInv, RowsShape
  <2>2. /\ KeepsNote(rows[id], new)
        /\ new.valid_to = IF desired.valid_to # base.valid_to THEN desired.valid_to ELSE rows[id].valid_to
    BY <1>2, <2>1, PatchKeeps
  <2> HIDE DEF new
  <2>3. ASSUME rows[id].valid_to, ~new.valid_to PROVE base.valid_to /\ ~desired.valid_to
    BY <1>2, <2>2, <2>3 DEF IsRow, KeepsNote
  <2>4. rows[id].valid_to /\ ~new.valid_to => calls[u].tool = "restore" /\ calls[u].id = id
    BY <1>2, <2>3
  <2> QED BY <2>2, <2>4 DEF Restores
<1> HIDE DEF new
<1>4. InForeground
  BY <1>1, <1>3, ToolWrites
<1>5. DOMAIN NoCallYet = {"tool", "id", "base", "desired"} /\ Pair(NoCallYet)
  BY DEF NoCallYet, Pair
<1> QED BY <1>1, <1>4, <1>5, CallGoesOn

\* The tools that change one field under the lock.
LEMMA FieldToolsKeep ==
    ASSUME RowsInv, NEW u \in Users, NEW id \in Ids,
           AddUserLabel(u, id) \/ Enforce(u, id) \/ FlushAccess(u, id)
    PROVE  InForeground /\ RowsInv'
<1>1. UNCHANGED <<cycle, calls>> /\ IsRow(rows[id])
  BY DEF AddUserLabel, Enforce, FlushAccess, Call, RowsInv, RowsShape
<1>2. PICK new : /\ rows' = [rows EXCEPT ![id] = new]
                 /\ \/ \E labels : new = AddLabels(rows[id], labels)
                    \/ \E on \in BOOLEAN : new = [rows[id] EXCEPT !.enforced = on]
                    \/ new = [rows[id] EXCEPT !.access = 3]
  BY DEF AddUserLabel, Enforce, FlushAccess, Update
<1>3. KeepsNote(rows[id], new) /\ new.valid_to = rows[id].valid_to
  <2>1. CASE \E labels : new = AddLabels(rows[id], labels)
    BY <1>1, <2>1 DEF AddLabels, KeepsNote, IsRow
  <2>2. CASE \E on \in BOOLEAN : new = [rows[id] EXCEPT !.enforced = on]
    BY <1>1, <2>2 DEF KeepsNote, IsRow
  <2>3. CASE new = [rows[id] EXCEPT !.access = 3]
    BY <1>1, <2>3 DEF KeepsNote, IsRow
  <2> QED BY <1>2, <2>1, <2>2, <2>3
<1>4. InForeground
  BY <1>1, <1>2, <1>3, ToolWrites
<1> QED BY <1>1, <1>4, CallsStay

LEMMA UserKeeps ==
    ASSUME RowsInv, UserNext
    PROVE  InForeground /\ RowsInv'
<1>1. PICK u \in Users :
        \/ PatchBack(u) \/ ConfirmedRead(u)
        \/ \E id \in Ids :
              \/ ForgetRead(u, id) \/ RestoreRead(u, id) \/ WriteOverRead(u, id)
              \/ FeedbackRead(u, id) \/ Confirm(u, id)
              \/ AddUserLabel(u, id) \/ Enforce(u, id) \/ FlushAccess(u, id)
  BY DEF UserNext
<1>2. CASE PatchBack(u)
  BY <1>2, PatchBackKeeps
<1>3. CASE ConfirmedRead(u)
  BY <1>3, ConfirmedReadKeeps
<1>4. ASSUME NEW id \in Ids, ForgetRead(u, id) \/ RestoreRead(u, id) \/ WriteOverRead(u, id)
      PROVE  InForeground /\ RowsInv'
  BY <1>4, PayloadReadKeeps
<1>5. ASSUME NEW id \in Ids, FeedbackRead(u, id) PROVE InForeground /\ RowsInv'
  BY <1>5, FeedbackKeeps
<1>6. ASSUME NEW id \in Ids, Confirm(u, id) PROVE InForeground /\ RowsInv'
  BY <1>6, ConfirmKeeps
<1>7. ASSUME NEW id \in Ids, AddUserLabel(u, id) \/ Enforce(u, id) \/ FlushAccess(u, id)
      PROVE  InForeground /\ RowsInv'
  BY <1>7, FieldToolsKeep
<1> QED BY <1>1, <1>2, <1>3, <1>4, <1>5, <1>6, <1>7

-----------------------------------------------------------------------------
(* The properties *)

LEMMA RowsInitInv == MemoryInit => RowsInv
<1> SUFFICES ASSUME MemoryInit PROVE RowsInv
  OBVIOUS
<1>1. rows \in [Ids -> Row] /\ cycle = NoCycle /\ calls = [u \in Users |-> NoCallYet]
  BY MemoryAssumption DEF MemoryInit
<1>2. RowsShape
  BY <1>1 DEF RowsShape, IsRow, Row
<1>3. CycleShape
  BY <1>1, CycleKnown DEF CycleShape
<1>4. CallsShape
  BY <1>1 DEF CallsShape, NoCallYet, Pair
<1> QED BY <1>2, <1>3, <1>4 DEF RowsInv

\* Every step is one of the two kinds, or none.
LEMMA RowsStep ==
    ASSUME RowsInv, [MemoryNext]_memoryVars
    PROVE  RowsInv' /\ (InBackground \/ InForeground)
<1>1. CASE ConsolidationNext
  BY <1>1, ConsolidationKeeps
<1>2. CASE UserNext
  BY <1>2, UserKeeps
<1>3. CASE UNCHANGED memoryVars
  <2>1. UNCHANGED <<rows, cycle, calls>>
    BY <1>3 DEF memoryVars
  <2>2. InForeground
    BY <2>1, ToolReads
  <2> QED BY <2>1, <2>2, CallsStay
<1> QED BY <1>1, <1>2, <1>3 DEF MemoryNext

LEMMA RowsInvHolds == MemorySpec => []RowsInv
<1>1. RowsInv /\ [MemoryNext]_memoryVars => RowsInv'
  BY RowsStep
<1> QED BY <1>1, RowsInitInv, PTL DEF MemorySpec

\* A user's label outlives every snapshot, of any number of tools and cycles
\* (Space::patch_payload, domain/ops.rs).
THEOREM LabelsOutliveSnapshots == MemorySpec => UserLabelsSurvive
<1>1. RowsInv /\ [MemoryNext]_memoryVars
        => [\A id \in Ids : "note" \in rows[id].labels => "note" \in rows'[id].labels]_memoryVars
  BY RowsStep DEF InBackground, InForeground, Background, KeepsNote
<1> QED BY <1>1, RowsInvHolds, PTL DEF MemorySpec, UserLabelsSurvive

\* A row that has ended is made valid again by a memory_restore of that very row,
\* whatever the other writers had read before it ended.
THEOREM EndedStaysEnded == MemorySpec => OnlyRestoreRevives
<1>1. RowsInv /\ [MemoryNext]_memoryVars
        => [\A id \in Ids : rows[id].valid_to /\ ~rows'[id].valid_to
              => \E u \in Users : calls[u].tool = "restore" /\ calls[u].id = id]_memoryVars
  BY RowsStep DEF InBackground, InForeground, Background, Restores
<1> QED BY <1>1, RowsInvHolds, PTL DEF MemorySpec, OnlyRestoreRevives

\* A row that is enforced when an operation of the consolidation reaches it is not
\* ended by it, however old the snapshot is that chose the row.
THEOREM EnforcedStaysValid == MemorySpec => EnforcedKeepsValidity
<1>1. RowsInv /\ [MemoryNext]_memoryVars
        => [\A id \in Ids : rows[id].enforced /\ ~rows[id].valid_to /\ rows'[id].valid_to
              => cycle' = cycle]_memoryVars
  BY RowsStep DEF InBackground, InForeground, Background
<1> QED BY <1>1, RowsInvHolds, PTL DEF MemorySpec, EnforcedKeepsValidity

\* The consolidation lowers no living row below the live floor (governor.rs), for
\* any decay and any adjustment the feedback asks for.
THEOREM FloorHolds == MemorySpec => LiveFloor
<1>1. RowsInv /\ [MemoryNext]_memoryVars
        => [\A id \in Ids : cycle' # cycle /\ rows'[id].importance < rows[id].importance
              => rows'[id].importance >= IMPORTANCE_FLOOR \/ rows'[id].valid_to]_memoryVars
  BY RowsStep DEF InBackground, InForeground, Background
<1> QED BY <1>1, RowsInvHolds, PTL DEF MemorySpec, LiveFloor

-----------------------------------------------------------------------------
(* Types *)

\* The type invariant says what the rows, the snapshots and the calls hold; to carry
\* it over the steps, it is needed of the other fields of the cycle as well.
Cycle == [pc : CyclePCs, auto : BOOLEAN, seen : [Ids -> Row] \cup {<<>>}, todo : SUBSET Ids,
          recurrent : SUBSET Ids, pairs : SUBSET Duplicates, merged : SUBSET Ids,
          list : Lists \cup {<<>>}, keep : Ids \cup {0}, remove : Ids \cup {0}, evicted : BOOLEAN]
SnapshotPCs == {"govern", "adjust", "doctor", "absorb", "gain", "recompute", "label", "supersede"}
CycleTyped ==
    /\ cycle \in Cycle
    /\ cycle.pc \in SnapshotPCs => cycle.seen \in [Ids -> Row]
    /\ cycle.pc \in {"adjust", "gain", "supersede"} => cycle.keep \in Ids
    /\ cycle.pc = "supersede" => cycle.remove \in Ids
RowsTyped == rows \in [Ids -> Row]
Typed(call) == call.base # <<>> => call.base \in Row /\ call.desired \in Row
CallsTyped == \A u \in Users : Typed(calls[u])

TypeInv == RowsInv /\ RowsTyped /\ CycleTyped /\ CallsTyped

LEMMA RowFields ==
    ASSUME NEW row \in Row
    PROVE  /\ row.labels \subseteq Labels /\ row.valid_to \in BOOLEAN /\ row.enforced \in BOOLEAN
           /\ row.importance \in 0..500 /\ row.mass \in MASS_MIN..MASS_MAX /\ row.access \in {0, 3}
BY DEF Row

LEMMA FloorRange == IMPORTANCE_FLOOR \in 0..500 /\ FORGET_IMPORTANCE \in 0..500
BY DEF IMPORTANCE_FLOOR, FORGET_IMPORTANCE

LEMMA ClampRange ==
    ASSUME NEW n \in Int
    PROVE  /\ Clamp(n, IMPORTANCE_FLOOR, 500) \in 0..500
           /\ Clamp(n, IMPORTANCE_FLOOR, 300) \in 0..500
           /\ Clamp(n, MASS_MIN, MASS_MAX) \in MASS_MIN..MASS_MAX
BY DEF Clamp, Least, Greatest, IMPORTANCE_FLOOR, MASS_MIN, MASS_MAX

LEMMA BoundRange ==
    ASSUME NEW a \in 0..500, NEW b \in 0..500
    PROVE  /\ Least(a, b) \in 0..500 /\ Greatest(a, b) \in 0..500
           /\ Least(Greatest(a, 50) + 50, 300) \in 0..500
BY DEF Least, Greatest

\* What is left of an importance at the factor 0.15.
LEMMA FadedRange ==
    ASSUME NEW a \in 0..500, NEW b \in 0..500
    PROVE  Greatest((a * 15) \div 100, b) \in 0..500
<1>1. (a * 15) \div 100 \in 0..500
  OBVIOUS
<1> QED BY <1>1, BoundRange

LEMMA BoostedRange ==
    ASSUME NEW a \in 0..500, NEW delta \in Nat
    PROVE  Least(a + delta, 350) \in 0..500
BY DEF Least

LEMMA MassRange ==
    ASSUME NEW m \in MASS_MIN..MASS_MAX
    PROVE  Least(m, Greatest(MASS_MIN, MASS_MIN)) \in MASS_MIN..MASS_MAX
BY DEF Least, Greatest, MASS_MIN, MASS_MAX

\* An importance with a change of feedback added is clamped to the range.
LEMMA Adjusted ==
    ASSUME NEW row \in Row, NEW by \in Adjustments \cup {0}
    PROVE  /\ Clamp(row.importance + by, IMPORTANCE_FLOOR, 500) \in 0..500
           /\ Clamp(row.importance + by, IMPORTANCE_FLOOR, 300) \in 0..500
<1>1. row.importance \in 0..500 /\ by \in -500..500
  BY RowFields, MemoryAssumption
<1>2. \A a \in 0..500, b \in -500..500 : a + b \in Int
  OBVIOUS
<1>3. PICK n \in Int : n = row.importance + by
  BY <1>1, <1>2
<1>4. Clamp(n, IMPORTANCE_FLOOR, 500) \in 0..500 /\ Clamp(n, IMPORTANCE_FLOOR, 300) \in 0..500
  BY ClampRange
<1> QED BY <1>3, <1>4

\* The operations of domain/ops.rs keep a row a row.
LEMMA FieldsTyped ==
    ASSUME NEW row \in Row
    PROVE  /\ \A labels \in SUBSET Labels : AddLabels(row, labels) \in Row
           /\ \A delta \in Int : AdjustMass(row, delta) \in Row
           /\ \A delta \in Nat : AddImportance(row, delta, 350) \in Row
           /\ \A below : Tombstone(row, FORGET_IMPORTANCE, below) \in Row
           /\ \A expect : \A new \in 0..500 : CasImportance(row, expect, new) \in Row
           /\ ResetAccessCount(row) \in Row
<1>1. ASSUME NEW labels \in SUBSET Labels PROVE AddLabels(row, labels) \in Row
  BY DEF AddLabels, Row
<1>2. ASSUME NEW delta \in Int PROVE AdjustMass(row, delta) \in Row
  <2> DEFINE mass == Clamp(row.mass + delta, MASS_MIN, MASS_MAX)
  <2>1. row.mass \in Int
    <3>1. row.mass \in MASS_MIN..MASS_MAX
      BY RowFields
    <3>2. \A m \in MASS_MIN..MASS_MAX : m \in Int
      OBVIOUS
    <3> QED BY <3>1, <3>2
  <2>2. row.mass + delta \in Int
    BY <2>1
  <2>3. mass \in MASS_MIN..MASS_MAX
    BY <2>2, ClampRange
  <2>4. AdjustMass(row, delta) = [row EXCEPT !.mass = mass]
    BY DEF AdjustMass
  <2> HIDE DEF mass
  <2> QED BY <2>3, <2>4 DEF Row
<1>3. ASSUME NEW delta \in Nat PROVE AddImportance(row, delta, 350) \in Row
  <2> DEFINE importance == Least(row.importance + delta, 350)
  <2>1. row.importance \in 0..500
    BY RowFields
  <2>2. importance \in 0..500
    BY <2>1, BoostedRange
  <2>3. AddImportance(row, delta, 350) = [row EXCEPT !.importance = importance]
    BY DEF AddImportance
  <2> HIDE DEF importance
  <2> QED BY <2>2, <2>3 DEF Row
<1>4. ASSUME NEW below PROVE Tombstone(row, FORGET_IMPORTANCE, below) \in Row
  <2>1. FORGET_IMPORTANCE \in 0..500
    BY FloorRange
  <2>2. [row EXCEPT !.valid_to = TRUE, !.importance = FORGET_IMPORTANCE] \in Row
    BY <2>1 DEF Row
  <2> QED BY <2>2 DEF Tombstone
<1>5. ASSUME NEW expect, NEW new \in 0..500 PROVE CasImportance(row, expect, new) \in Row
  BY DEF CasImportance, Row
<1>6. ResetAccessCount(row) \in Row
  BY DEF ResetAccessCount, Row
<1> QED BY <1>1, <1>2, <1>3, <1>4, <1>5, <1>6

LEMMA MarksTyped ==
    ASSUME NEW row \in Row
    PROVE  /\ Quarantine(row, IMPORTANCE_FLOOR, MASS_MIN) \in Row
           /\ \A floor \in 0..500 : Supersede(row, floor, MASS_MIN) \in Row
<1> DEFINE mass == Least(row.mass, Greatest(MASS_MIN, MASS_MIN))
<1>1. row.importance \in 0..500 /\ row.mass \in MASS_MIN..MASS_MAX
  BY RowFields
<1>2. mass \in MASS_MIN..MASS_MAX
  BY <1>1, MassRange
<1>3. Quarantine(row, IMPORTANCE_FLOOR, MASS_MIN) \in Row
  <2> DEFINE importance == Least(row.importance, IMPORTANCE_FLOOR)
             new == [row EXCEPT !.labels = @ \cup {"quarantine"}, !.importance = importance, !.mass = mass]
  <2>1. importance \in 0..500
    BY <1>1, FloorRange, BoundRange
  <2>2. Quarantine(row, IMPORTANCE_FLOOR, MASS_MIN) \in {row, new}
    BY DEF Quarantine
  <2> HIDE DEF importance, mass
  <2>3. new \in Row
    BY <1>2, <2>1 DEF Row, Labels
  <2> QED BY <2>2, <2>3
<1>4. ASSUME NEW floor \in 0..500 PROVE Supersede(row, floor, MASS_MIN) \in Row
  <2> DEFINE importance == Greatest((row.importance * 15) \div 100, floor)
             new == [row EXCEPT !.labels = @ \cup {"superseded"}, !.valid_to = TRUE,
                                !.importance = importance, !.mass = mass]
  <2>1. importance \in 0..500
    BY <1>1, FadedRange
  <2>2. Supersede(row, floor, MASS_MIN) \in {row, new}
    BY DEF Supersede
  <2> HIDE DEF importance, mass
  <2>3. new \in Row
    BY <1>2, <2>1 DEF Row, Labels
  <2> QED BY <2>2, <2>3
<1> QED BY <1>3, <1>4

LEMMA PatchTyped ==
    ASSUME NEW cur \in Row, NEW base \in Row, NEW desired \in Row
    PROVE  Patch(cur, base, desired) \in Row
<1> DEFINE labels == MergeSet(cur.labels, base.labels, desired.labels)
           valid_to == MergeField(cur.valid_to, base.valid_to, desired.valid_to)
           importance == MergeField(cur.importance, base.importance, desired.importance)
           enforced == MergeField(cur.enforced, base.enforced, desired.enforced)
           access == MergeField(cur.access, base.access, desired.access)
           half == [cur EXCEPT !.labels = labels, !.valid_to = valid_to, !.importance = importance]
<1>1. labels \in SUBSET Labels
  BY RowFields DEF MergeSet
<1>2. /\ valid_to \in BOOLEAN /\ importance \in 0..500 /\ enforced \in BOOLEAN /\ access \in {0, 3}
  BY RowFields DEF MergeField
<1>3. Patch(cur, base, desired) = [half EXCEPT !.enforced = enforced, !.access = access]
  BY DEF Patch
<1> HIDE DEF labels, valid_to, importance, enforced, access
<1>4. half \in Row
  BY <1>1, <1>2 DEF Row
<1> HIDE DEF half
<1>5. \A on \in BOOLEAN : [half EXCEPT !.enforced = on] \in Row
  BY <1>4 DEF Row
<1>6. \A row \in Row, n \in {0, 3} : [row EXCEPT !.access = n] \in Row
  BY DEF Row
<1>7. Patch(cur, base, desired) = [[half EXCEPT !.enforced = enforced] EXCEPT !.access = access]
  BY <1>3
<1>8. [half EXCEPT !.enforced = enforced] \in Row
  BY <1>2, <1>5
<1>9. access \in {0, 3}
  BY <1>2
<1>10. [[half EXCEPT !.enforced = enforced] EXCEPT !.access = access] \in Row
  BY <1>8, <1>9, <1>6
<1> QED BY <1>10, <1>7

LEMMA WriteTyped ==
    ASSUME RowsTyped, NEW id, NEW new, Update(id, new), id \in Ids => new \in Row
    PROVE  RowsTyped'
BY DEF RowsTyped, Update

\* The steps of the consolidation.
LEMMA CycleBasics ==
    ASSUME TypeInv
    PROVE  /\ cycle \in Cycle /\ NoCycle \in Cycle /\ rows \in [Ids -> Row]
           /\ cycle.todo \subseteq Ids /\ cycle.recurrent \subseteq Ids
           /\ \A pair \in cycle.pairs : pair \subseteq Ids
<1>1. cycle \in Cycle /\ rows \in [Ids -> Row]
  BY DEF TypeInv, CycleTyped, RowsTyped
<1>2. NoCycle \in Cycle
  BY DEF NoCycle, Cycle, CyclePCs
<1>3. cycle.todo \subseteq Ids /\ cycle.recurrent \subseteq Ids /\ cycle.pairs \subseteq Duplicates
  BY <1>1 DEF Cycle
<1> QED BY <1>1, <1>2, <1>3, MemoryAssumption

LEMMA SnapshotPhases ==
    ASSUME TypeInv, cycle.pc \in SnapshotPCs
    PROVE  cycle.seen \in [Ids -> Row]
BY DEF TypeInv, CycleTyped

\* A phase that goes through the rows it has left stays as it is otherwise.
LEMMA RowDone ==
    ASSUME TypeInv, NEW id, NEW evicted \in BOOLEAN,
           cycle.pc \notin {"adjust", "gain", "supersede"},
           cycle' = [cycle EXCEPT !.todo = @ \ {id}, !.evicted = evicted]
    PROVE  CycleTyped'
<1>1. cycle \in Cycle /\ cycle.todo \subseteq Ids /\ (cycle.pc \in SnapshotPCs => cycle.seen \in [Ids -> Row])
  BY CycleBasics, SnapshotPhases
<1>2. cycle' \in Cycle /\ cycle'.pc = cycle.pc /\ cycle'.seen = cycle.seen
  BY <1>1 DEF Cycle
<1> QED BY <1>1, <1>2 DEF CycleTyped

LEMMA GovernTyped ==
    ASSUME TypeInv, Govern PROVE RowsTyped' /\ CycleTyped'
<1>1. PICK id \in cycle.todo :
          /\ \E row \in Governed(id, cycle.seen[id], rows[id]) : Update(id, row)
          /\ cycle' = [cycle EXCEPT !.todo = @ \ {id}]
  BY DEF Govern
<1>2. PICK row \in Governed(id, cycle.seen[id], rows[id]) : Update(id, row)
  BY <1>1
<1>3. id \in Ids /\ rows[id] \in Row
  BY CycleBasics
<1>4. row \in Row
  <2>1. ASSUME NEW to \in DecayTo PROVE Greatest(to, IMPORTANCE_FLOOR) \in 0..500
    <3>1. to \in 0..500 /\ IMPORTANCE_FLOOR \in 0..500
      BY MemoryAssumption, FloorRange
    <3> QED BY <3>1, BoundRange
  <2>2. \/ \E below : row = Tombstone(rows[id], FORGET_IMPORTANCE, below)
        \/ \E to \in DecayTo : \E expect :
              row = CasImportance(rows[id], expect, Greatest(to, IMPORTANCE_FLOOR))
    BY <1>2 DEF Governed
  <2>3. ASSUME NEW below PROVE Tombstone(rows[id], FORGET_IMPORTANCE, below) \in Row
    BY <1>3, FieldsTyped
  <2>4. ASSUME NEW to \in DecayTo, NEW expect
        PROVE  CasImportance(rows[id], expect, Greatest(to, IMPORTANCE_FLOOR)) \in Row
    BY <1>3, <2>1, FieldsTyped
  <2> QED BY <2>2, <2>3, <2>4
<1>5. RowsTyped'
  BY <1>2, <1>4, WriteTyped DEF TypeInv
<1>6. cycle.evicted \in BOOLEAN /\ cycle' = [cycle EXCEPT !.todo = @ \ {id}, !.evicted = cycle.evicted]
  BY <1>1, CycleBasics DEF Cycle
<1>7. cycle.pc = "govern"
  BY DEF Govern, At
<1> QED BY <1>5, <1>6, <1>7, RowDone

LEMMA BoostTyped ==
    ASSUME TypeInv, Boost \/ ResetAccess PROVE RowsTyped' /\ CycleTyped'
<1>1. PICK id \in cycle.todo :
          /\ \/ Update(id, AddImportance(rows[id], IF rows[id].access >= 3 THEN 10 ELSE 30, 350))
             \/ Update(id, ResetAccessCount(rows[id]))
          /\ cycle' = [cycle EXCEPT !.todo = @ \ {id}]
  BY DEF Boost, ResetAccess
<1>2. id \in Ids /\ rows[id] \in Row
  BY CycleBasics
<1> DEFINE delta == IF rows[id].access >= 3 THEN 10 ELSE 30
<1>3. delta \in Nat
  OBVIOUS
<1>4. PICK new : Update(id, new) /\ new \in {AddImportance(rows[id], delta, 350), ResetAccessCount(rows[id])}
  BY <1>1
<1> HIDE DEF delta
<1>5. new \in Row
  <2>1. AddImportance(rows[id], delta, 350) \in Row /\ ResetAccessCount(rows[id]) \in Row
    BY <1>2, <1>3, FieldsTyped
  <2> QED BY <1>4, <2>1
<1>6. RowsTyped'
  BY <1>4, <1>5, WriteTyped DEF TypeInv
<1>7. cycle.evicted \in BOOLEAN /\ cycle' = [cycle EXCEPT !.todo = @ \ {id}, !.evicted = cycle.evicted]
  BY <1>1, CycleBasics DEF Cycle
<1>8. cycle.pc \in {"boost", "reset"}
  BY DEF Boost, ResetAccess, At
<1> QED BY <1>6, <1>7, <1>8, RowDone

LEMMA AggregateTyped ==
    ASSUME TypeInv, Aggregate PROVE RowsTyped' /\ CycleTyped'
<1>1. PICK by \in Adjustments :
          LET base    == cycle.seen[cycle.keep]
              desired == [base EXCEPT !.importance = Clamp(@ + by, IMPORTANCE_FLOOR, 500)]
          IN  Update(cycle.keep, Patch(rows[cycle.keep], base, desired))
  BY DEF Aggregate
<1> DEFINE id == cycle.keep
           base == cycle.seen[id]
           importance == Clamp(base.importance + by, IMPORTANCE_FLOOR, 500)
           desired == [base EXCEPT !.importance = importance]
           new == Patch(rows[id], base, desired)
<1>2. /\ cycle.pc = "adjust"
      /\ cycle' = [cycle EXCEPT !.pc = "aggregate", !.keep = 0, !.seen = <<>>]
  BY DEF Aggregate, At
<1>3. id \in Ids /\ cycle.seen \in [Ids -> Row] /\ rows \in [Ids -> Row]
  BY <1>2, CycleBasics, SnapshotPhases DEF TypeInv, CycleTyped, SnapshotPCs
<1>4. base \in Row /\ rows[id] \in Row /\ Update(id, new)
  BY <1>1, <1>3
<1> HIDE DEF base
<1>5. importance \in 0..500
  BY <1>4, Adjusted
<1> HIDE DEF importance
<1>6. desired \in Row
  BY <1>4, <1>5 DEF Row
<1> HIDE DEF desired
<1>7. new \in Row
  BY <1>4, <1>6, PatchTyped
<1> HIDE DEF new
<1>8. RowsTyped'
  BY <1>4, <1>7, WriteTyped DEF TypeInv
<1>9. CycleTyped'
  BY <1>2, CycleBasics DEF CycleTyped, Cycle, CyclePCs, SnapshotPCs
<1> QED BY <1>8, <1>9

LEMMA QuarantineSickTyped ==
    ASSUME TypeInv, QuarantineSick PROVE RowsTyped' /\ CycleTyped'
<1>1. PICK id \in cycle.todo :
          /\ Update(id, Quarantine(rows[id], IMPORTANCE_FLOOR, MASS_MIN))
          /\ cycle' = [cycle EXCEPT !.todo = @ \ {id},
                          !.evicted = @ \/ Quarantine(rows[id], IMPORTANCE_FLOOR, MASS_MIN) # rows[id]]
  BY DEF QuarantineSick
<1>2. cycle.pc = "doctor" /\ rows[id] \in Row
  BY CycleBasics DEF QuarantineSick, At
<1>3. RowsTyped'
  BY <1>1, <1>2, MarksTyped, WriteTyped DEF TypeInv
<1> DEFINE evicted == cycle.evicted \/ Quarantine(rows[id], IMPORTANCE_FLOOR, MASS_MIN) # rows[id]
<1>4. evicted \in BOOLEAN /\ cycle' = [cycle EXCEPT !.todo = @ \ {id}, !.evicted = evicted]
  BY <1>1
<1> HIDE DEF evicted
<1> QED BY <1>2, <1>3, <1>4, RowDone

LEMMA AbsorbTyped ==
    ASSUME TypeInv, Absorb PROVE RowsTyped' /\ CycleTyped'
<1>1. PICK pair \in cycle.pairs : \E keep \in pair, remove \in pair :
          /\ Update(remove, Supersede(rows[remove], IMPORTANCE_FLOOR, MASS_MIN))
          /\ \/ cycle' = [cycle EXCEPT !.pairs = cycle.pairs \ {pair}]
             \/ cycle' = [cycle EXCEPT !.pc = "gain", !.keep = keep, !.pairs = cycle.pairs \ {pair},
                                       !.merged = @ \cup {remove}]
  BY DEF Absorb
<1>2. PICK keep \in pair, remove \in pair :
          /\ Update(remove, Supersede(rows[remove], IMPORTANCE_FLOOR, MASS_MIN))
          /\ \/ cycle' = [cycle EXCEPT !.pairs = cycle.pairs \ {pair}]
             \/ cycle' = [cycle EXCEPT !.pc = "gain", !.keep = keep, !.pairs = cycle.pairs \ {pair},
                                       !.merged = @ \cup {remove}]
  BY <1>1
<1>3. keep \in Ids /\ remove \in Ids /\ rows[remove] \in Row
  BY CycleBasics
<1>4. RowsTyped'
  <2>1. Supersede(rows[remove], IMPORTANCE_FLOOR, MASS_MIN) \in Row
    BY <1>3, MarksTyped, FloorRange
  <2> QED BY <1>2, <2>1, WriteTyped DEF TypeInv
<1>5. cycle.pc = "absorb" /\ cycle.seen \in [Ids -> Row]
  BY SnapshotPhases DEF Absorb, At, SnapshotPCs
<1>6. CASE cycle' = [cycle EXCEPT !.pairs = cycle.pairs \ {pair}]
  BY <1>4, <1>5, <1>6, CycleBasics DEF CycleTyped, Cycle, SnapshotPCs
<1>7. CASE cycle' = [cycle EXCEPT !.pc = "gain", !.keep = keep, !.pairs = cycle.pairs \ {pair},
                                  !.merged = @ \cup {remove}]
  BY <1>3, <1>4, <1>5, <1>7, CycleBasics DEF CycleTyped, Cycle, CyclePCs, SnapshotPCs
<1> QED BY <1>2, <1>6, <1>7

LEMMA GainTyped ==
    ASSUME TypeInv, Gain PROVE RowsTyped' /\ CycleTyped'
<1>1. /\ cycle.pc = "gain" /\ Update(cycle.keep, AdjustMass(rows[cycle.keep], 50))
      /\ cycle' = [cycle EXCEPT !.pc = "absorb", !.keep = 0]
  BY DEF Gain, At
<1>2. cycle.keep \in Ids /\ cycle.seen \in [Ids -> Row] /\ rows[cycle.keep] \in Row
  BY <1>1, CycleBasics, SnapshotPhases DEF TypeInv, CycleTyped, SnapshotPCs
<1>3. RowsTyped'
  <2>1. AdjustMass(rows[cycle.keep], 50) \in Row
    <3>1. PICK row \in Row : row = rows[cycle.keep]
      BY <1>2
    <3>2. \A delta \in Int : AdjustMass(row, delta) \in Row
      BY FieldsTyped
    <3> QED BY <3>1, <3>2
  <2> QED BY <1>1, <2>1, WriteTyped DEF TypeInv
<1>4. CycleTyped'
  BY <1>1, <1>2, CycleBasics DEF CycleTyped, Cycle, CyclePCs
<1> QED BY <1>3, <1>4

LEMMA RecomputeTyped ==
    ASSUME TypeInv, Recompute PROVE RowsTyped' /\ CycleTyped'
<1>1. PICK id \in cycle.todo, by \in Adjustments \cup {0} :
          LET seen == cycle.seen[id]
              new  == Clamp(seen.importance + by, IMPORTANCE_FLOOR, 300)
          IN  /\ Update(id, IF seen.enforced \/ seen.valid_to THEN rows[id]
                            ELSE CasImportance(rows[id], seen.importance, new))
              /\ cycle' = [cycle EXCEPT !.todo = @ \ {id}]
  BY DEF Recompute
<1> DEFINE seen == cycle.seen[id]
           importance == Clamp(seen.importance + by, IMPORTANCE_FLOOR, 300)
           new == IF seen.enforced \/ seen.valid_to THEN rows[id]
                  ELSE CasImportance(rows[id], seen.importance, importance)
<1>2. cycle.pc = "recompute" /\ cycle' = [cycle EXCEPT !.todo = @ \ {id}] /\ Update(id, new)
  BY <1>1 DEF Recompute, At
<1>3. id \in Ids /\ rows[id] \in Row /\ cycle.seen \in [Ids -> Row]
  BY <1>2, CycleBasics, SnapshotPhases DEF SnapshotPCs
<1>4. new \in Row
  <2>1. seen \in Row
    BY <1>3
  <2> HIDE DEF seen
  <2>4. importance \in 0..500
    BY <2>1, Adjusted
  <2> HIDE DEF importance
  <2> QED BY <1>3, <2>4, FieldsTyped
<1> HIDE DEF new
<1>5. RowsTyped'
  BY <1>2, <1>4, WriteTyped DEF TypeInv
<1>6. cycle.evicted \in BOOLEAN /\ cycle' = [cycle EXCEPT !.todo = @ \ {id}, !.evicted = cycle.evicted]
  BY <1>2, CycleBasics DEF Cycle
<1> QED BY <1>2, <1>5, <1>6, RowDone

\* The governor's merge: the labels of both rows as the search saw them.
LEMMA MergeTyped ==
    ASSUME TypeInv, MergeLabels \/ MergeSupersede PROVE RowsTyped' /\ CycleTyped'
<1>1. CASE MergeLabels
  <2>1. PICK i \in cycle.todo, j \in cycle.todo :
          LET keep   == IF Timestamp[i] >= Timestamp[j] THEN i ELSE j
              remove == IF keep = i THEN j ELSE i
          IN  /\ Update(keep, AddLabels(rows[keep], cycle.seen[i].labels \cup cycle.seen[j].labels))
              /\ cycle' = [cycle EXCEPT
                              !.pc = "supersede", !.keep = keep, !.remove = remove,
                              !.todo = {k \in @ \ {remove} : cycle.list[k] > cycle.list[i]}]
    BY <1>1 DEF MergeLabels
  <2> DEFINE keep == IF Timestamp[i] >= Timestamp[j] THEN i ELSE j
             remove == IF keep = i THEN j ELSE i
             labels == cycle.seen[i].labels \cup cycle.seen[j].labels
             todo == {k \in cycle.todo \ {remove} : cycle.list[k] > cycle.list[i]}
  <2>2. /\ Update(keep, AddLabels(rows[keep], labels))
        /\ cycle' = [cycle EXCEPT !.pc = "supersede", !.keep = keep, !.remove = remove, !.todo = todo]
    BY <2>1
  <2>3. cycle.pc = "label" /\ i \in Ids /\ j \in Ids /\ cycle.seen \in [Ids -> Row]
    BY <1>1, CycleBasics, SnapshotPhases DEF MergeLabels, At, SnapshotPCs
  <2>4. /\ keep \in Ids /\ remove \in Ids /\ rows[keep] \in Row /\ labels \in SUBSET Labels
        /\ todo \in SUBSET Ids
    BY <2>3, CycleBasics, RowFields
  <2> HIDE DEF keep, remove, labels, todo
  <2>5. RowsTyped'
    BY <2>2, <2>4, FieldsTyped, WriteTyped DEF TypeInv
  <2>6. CycleTyped'
    BY <2>2, <2>3, <2>4, CycleBasics DEF CycleTyped, Cycle, CyclePCs
  <2> QED BY <2>5, <2>6
<1>2. CASE MergeSupersede
  <2>1. /\ cycle.pc = "supersede"
        /\ Update(cycle.remove, Supersede(rows[cycle.remove], FORGET_IMPORTANCE, MASS_MIN))
        /\ cycle' = [cycle EXCEPT !.pc = "label", !.keep = 0, !.remove = 0]
    BY <1>2 DEF MergeSupersede, At
  <2>2. cycle.remove \in Ids /\ rows[cycle.remove] \in Row /\ cycle.seen \in [Ids -> Row]
    BY <2>1, CycleBasics, SnapshotPhases DEF TypeInv, CycleTyped, SnapshotPCs
  <2>3. RowsTyped'
    <3>1. Supersede(rows[cycle.remove], FORGET_IMPORTANCE, MASS_MIN) \in Row
      BY <2>2, MarksTyped, FloorRange
    <3> QED BY <2>1, <3>1, WriteTyped DEF TypeInv
  <2>4. CycleTyped'
    BY <2>1, <2>2, CycleBasics DEF CycleTyped, Cycle, CyclePCs
  <2> QED BY <2>3, <2>4
<1> QED BY <1>1, <1>2

LEMMA PhaseEndsTyped ==
    ASSUME TypeInv,
           \/ StartAuto \/ GovernDone \/ BoostDone \/ SkipDream \/ StartDream \/ StartManual
           \/ DoctorDone \/ DreamDone \/ RecomputeDone \/ ResetDone \/ MergeDone
    PROVE  RowsTyped' /\ CycleTyped'
<1>1. rows' = rows
  BY DEF StartAuto, GovernDone, BoostDone, SkipDream, StartDream, StartManual, DoctorDone, DreamDone,
         RecomputeDone, ResetDone, MergeDone, UsersIdle
<1>2. RowsTyped'
  BY <1>1 DEF TypeInv, RowsTyped
<1>3. /\ cycle \in Cycle /\ NoCycle \in Cycle /\ rows \in [Ids -> Row]
      /\ cycle.todo \in SUBSET Ids /\ cycle.recurrent \in SUBSET Ids
  BY CycleBasics
<1>4. CASE StartAuto
  <2> DEFINE todo == {id \in Ids : Governable(id, rows[id])}
             recurrent == RecurrentIn(rows)
  <2>1. cycle' = [NoCycle EXCEPT !.pc = "govern", !.auto = TRUE, !.seen = rows, !.todo = todo,
                                 !.recurrent = recurrent]
    BY <1>4 DEF StartAuto
  <2>2. todo \in SUBSET Ids /\ recurrent \in SUBSET Ids
    BY DEF RecurrentIn
  <2> HIDE DEF todo, recurrent
  <2> QED BY <1>2, <1>3, <2>1, <2>2 DEF CycleTyped, Cycle, CyclePCs
<1>5. CASE GovernDone
  <2>1. cycle' = [cycle EXCEPT !.pc = "boost", !.seen = <<>>, !.todo = cycle.recurrent]
    BY <1>5 DEF GovernDone
  <2> QED BY <1>2, <1>3, <2>1 DEF CycleTyped, Cycle, CyclePCs, SnapshotPCs
<1>6. CASE BoostDone
  <2>1. CASE cycle' = [cycle EXCEPT !.pc = "aggregate"]
    BY <1>2, <1>3, <2>1 DEF CycleTyped, Cycle, CyclePCs, SnapshotPCs
  <2>2. ASSUME NEW id \in Ids, cycle' = [cycle EXCEPT !.pc = "adjust", !.keep = id, !.seen = rows]
        PROVE  CycleTyped'
    BY <1>3, <2>2 DEF CycleTyped, Cycle, CyclePCs
  <2> QED BY <1>2, <1>6, <2>1, <2>2 DEF BoostDone
<1>7. CASE SkipDream \/ RecomputeDone \/ MergeDone
  <2>1. cycle' = NoCycle
    BY <1>7 DEF SkipDream, RecomputeDone, MergeDone
  <2>2. NoCycle.pc = "idle"
    BY DEF NoCycle
  <2> QED BY <1>2, <1>3, <2>1, <2>2 DEF CycleTyped, SnapshotPCs
<1>8. CASE StartDream \/ StartManual
  <2> DEFINE todo == {id \in Ids : Sick(id, rows[id])}
  <2>1. PICK c \in Cycle : cycle' = [c EXCEPT !.pc = "doctor", !.seen = rows, !.todo = todo]
    BY <1>3, <1>8 DEF StartDream, StartManual, Doctor
  <2>2. todo \in SUBSET Ids
    OBVIOUS
  <2> HIDE DEF todo
  <2> QED BY <1>2, <1>3, <2>1, <2>2 DEF CycleTyped, Cycle, CyclePCs
<1>9. CASE DoctorDone
  <2> DEFINE seen == IF cycle.evicted THEN rows ELSE cycle.seen
             pairs == MergeablePairs(seen)
  <2>1. cycle.pc = "doctor" /\ cycle' = [cycle EXCEPT !.pc = "absorb", !.seen = seen, !.pairs = pairs]
    BY <1>9 DEF DoctorDone, At
  <2>2. seen \in [Ids -> Row] /\ pairs \in SUBSET Duplicates
    BY <1>3, <2>1, SnapshotPhases DEF SnapshotPCs, MergeablePairs
  <2> HIDE DEF seen, pairs
  <2> QED BY <1>2, <1>3, <2>1, <2>2 DEF CycleTyped, Cycle, CyclePCs
<1>10. CASE DreamDone
  <2>1. \/ cycle' = [NoCycle EXCEPT !.pc = "reset", !.auto = TRUE, !.todo = cycle.recurrent]
        \/ cycle' = [NoCycle EXCEPT !.pc = "recompute", !.seen = rows, !.todo = Ids]
    BY <1>10 DEF DreamDone
  <2>2. CASE cycle' = [NoCycle EXCEPT !.pc = "reset", !.auto = TRUE, !.todo = cycle.recurrent]
    BY <1>2, <1>3, <2>2 DEF CycleTyped, Cycle, CyclePCs, SnapshotPCs
  <2>3. CASE cycle' = [NoCycle EXCEPT !.pc = "recompute", !.seen = rows, !.todo = Ids]
    BY <1>2, <1>3, <2>3 DEF CycleTyped, Cycle, CyclePCs
  <2> QED BY <2>1, <2>2, <2>3
<1>11. CASE ResetDone
  <2>1. PICK list \in Lists :
          cycle' = [NoCycle EXCEPT !.pc = "label", !.auto = TRUE, !.seen = rows, !.todo = Ids, !.list = list]
    BY <1>11 DEF ResetDone
  <2> QED BY <1>2, <1>3, <2>1 DEF CycleTyped, Cycle, CyclePCs
<1> QED BY <1>4, <1>5, <1>6, <1>7, <1>8, <1>9, <1>10, <1>11

LEMMA ConsolidationTyped ==
    ASSUME TypeInv, ConsolidationNext
    PROVE  RowsTyped' /\ CycleTyped' /\ CallsTyped'
<1>1. RowsTyped' /\ CycleTyped'
  BY GovernTyped, BoostTyped, AggregateTyped, QuarantineSickTyped, AbsorbTyped, GainTyped,
     RecomputeTyped, MergeTyped, PhaseEndsTyped DEF ConsolidationNext
<1>2. calls' = calls
  BY ConsolidationKeeps DEF TypeInv, InBackground
<1> QED BY <1>1, <1>2 DEF TypeInv, CallsTyped, Typed

\* The steps of the tools.
LEMMA CallTyped ==
    ASSUME TypeInv, NEW u \in Users, NEW call, calls' = [calls EXCEPT ![u] = call], Typed(call)
    PROVE  CallsTyped'
BY DEF TypeInv, RowsInv, CallsShape, CallsTyped

LEMMA NoCallTyped == Typed(NoCallYet)
BY DEF Typed, NoCallYet

LEMMA ReadForTyped ==
    ASSUME TypeInv, NEW u \in Users, NEW tool, NEW id \in Ids, NEW desired \in Row,
           ReadFor(u, tool, id, desired)
    PROVE  rows' = rows /\ CallsTyped'
<1> DEFINE call == [tool |-> tool, id |-> id, base |-> rows[id], desired |-> desired]
<1>1. rows' = rows /\ calls' = [calls EXCEPT ![u] = call]
  BY DEF ReadFor
<1>2. Typed(call)
  BY CycleBasics DEF Typed
<1> HIDE DEF call
<1> QED BY <1>1, <1>2, CallTyped

LEMMA PayloadReadTyped ==
    ASSUME TypeInv, NEW u \in Users, NEW id \in Ids,
           ForgetRead(u, id) \/ RestoreRead(u, id) \/ WriteOverRead(u, id)
    PROVE  rows' = rows /\ CallsTyped'
<1>1. rows[id] \in Row /\ rows[id].importance \in 0..500
  BY CycleBasics, RowFields
<1>2. CASE ForgetRead(u, id)
  <2> DEFINE desired == [rows[id] EXCEPT !.valid_to = TRUE, !.importance = FORGET_IMPORTANCE]
  <2>1. ReadFor(u, "forget", id, desired)
    BY <1>2 DEF ForgetRead
  <2>2. desired \in Row
    BY <1>1, FloorRange DEF Row
  <2> HIDE DEF desired
  <2> QED BY <2>1, <2>2, ReadForTyped
<1>3. CASE RestoreRead(u, id)
  <2> DEFINE importance == Least(Greatest(rows[id].importance, 50) + 50, 300)
             desired == [rows[id] EXCEPT !.valid_to = FALSE, !.importance = importance]
  <2>1. ReadFor(u, "restore", id, desired)
    BY <1>3 DEF RestoreRead
  <2>2. importance \in 0..500
    BY <1>1, BoundRange
  <2> HIDE DEF importance
  <2>3. desired \in Row
    BY <1>1, <2>2 DEF Row
  <2> HIDE DEF desired
  <2> QED BY <2>1, <2>3, ReadForTyped
<1>4. CASE WriteOverRead(u, id)
  <2> DEFINE importance == Greatest((rows[id].importance * 15) \div 100, IMPORTANCE_FLOOR)
             desired == [rows[id] EXCEPT !.labels = @ \cup {"superseded"}, !.valid_to = TRUE,
                                         !.importance = importance]
  <2>1. ReadFor(u, "write", id, desired)
    BY <1>4 DEF WriteOverRead
  <2>2. importance \in 0..500
    BY <1>1, FloorRange, FadedRange
  <2> HIDE DEF importance
  <2>3. desired \in Row
    BY <1>1, <2>2 DEF Row, Labels
  <2> HIDE DEF desired
  <2> QED BY <2>1, <2>3, ReadForTyped
<1> QED BY <1>2, <1>3, <1>4

LEMMA FeedbackTyped ==
    ASSUME TypeInv, NEW u \in Users, NEW id \in Ids, FeedbackRead(u, id)
    PROVE  RowsTyped' /\ CallsTyped'
<1>1. PICK marks \in {[mass |-> -15, importance |-> -90, gained |-> {"outdated"}, lost |-> {}],
                      [mass |-> 35, importance |-> 80, gained |-> {},
                       lost |-> {"outdated", "superseded"}]} :
        LET row     == AdjustMass(rows[id], marks.mass)
            desired == [row EXCEPT
                           !.labels     = (@ \cup marks.gained) \ marks.lost,
                           !.importance = Clamp(@ + marks.importance, IMPORTANCE_FLOOR, 500)]
        IN  /\ Call(u, "feedback")
            /\ Update(id, row)
            /\ calls' = [calls EXCEPT ![u] =
                            [tool |-> "feedback", id |-> id, base |-> row, desired |-> desired]]
  BY DEF FeedbackRead
<1> DEFINE row == AdjustMass(rows[id], marks.mass)
           labels == (row.labels \cup marks.gained) \ marks.lost
           importance == Clamp(row.importance + marks.importance, IMPORTANCE_FLOOR, 500)
           desired == [row EXCEPT !.labels = labels, !.importance = importance]
           call == [tool |-> "feedback", id |-> id, base |-> row, desired |-> desired]
<1>2. Update(id, row) /\ calls' = [calls EXCEPT ![u] = call]
  BY <1>1
<1>3. marks.mass \in Int /\ marks.importance \in Int /\ marks.gained \subseteq Labels
  BY <1>1 DEF Labels
<1>4. row \in Row
  BY <1>3, CycleBasics, FieldsTyped
<1> HIDE DEF row
<1>5. labels \in SUBSET Labels
  BY <1>3, <1>4, RowFields
<1>6. importance \in 0..500
  <2>1. row.importance \in 0..500
    BY <1>4, RowFields
  <2>2. PICK n \in Int : n = row.importance + marks.importance
    BY <1>3, <2>1
  <2>3. Clamp(n, IMPORTANCE_FLOOR, 500) \in 0..500
    BY ClampRange
  <2> QED BY <2>2, <2>3
<1> HIDE DEF labels, importance
<1>7. desired \in Row
  BY <1>4, <1>5, <1>6 DEF Row
<1> HIDE DEF desired
<1>8. Typed(call)
  BY <1>4, <1>7 DEF Typed
<1> HIDE DEF call
<1> QED BY <1>2, <1>4, <1>8, CallTyped, WriteTyped DEF TypeInv

LEMMA ConfirmedTyped ==
    ASSUME TypeInv, NEW u \in Users, ConfirmedRead(u) \/ \E id \in Ids : Confirm(u, id)
    PROVE  rows' = rows /\ CallsTyped'
<1>1. CASE \E id \in Ids : Confirm(u, id)
  <2>1. PICK id \in Ids : Confirm(u, id)
    BY <1>1
  <2>2. PICK op : calls' = [calls EXCEPT ![u] = [NoCallYet EXCEPT !.tool = op, !.id = id]]
    BY <2>1 DEF Confirm
  <2> DEFINE call == [NoCallYet EXCEPT !.tool = op, !.id = id]
  <2>3. Typed(call)
    BY DEF Typed, NoCallYet
  <2>4. rows' = rows
    BY <2>1 DEF Confirm
  <2> HIDE DEF call
  <2> QED BY <2>2, <2>3, <2>4, CallTyped DEF call
<1>2. CASE ConfirmedRead(u)
  <2> DEFINE op == calls[u].tool
             row == rows[calls[u].id]
             desired == Confirmed(op, row)
             call == [calls[u] EXCEPT !.base = row, !.desired = desired]
  <2>1. /\ op \in {"quarantine", "unquarantine"} /\ rows' = rows
        /\ calls' = [calls EXCEPT ![u] = NoCallYet] \/ calls' = [calls EXCEPT ![u] = call]
    <3>1. [calls EXCEPT ![u].base = row, ![u].desired = desired] = [calls EXCEPT ![u] = call]
      BY DEF TypeInv, RowsInv, CallsShape
    <3> QED BY <1>2, <3>1 DEF ConfirmedRead
  <2>2. /\ DOMAIN calls[u] = {"tool", "id", "base", "desired"} /\ calls[u].id \in Ids
        /\ row \in Row
    BY <2>1, CycleBasics DEF TypeInv, RowsInv, CallsShape, Pair
  <2> HIDE DEF row
  <2>3. row.importance \in 0..500
    BY <2>2, RowFields
  <2>4. desired \in Row
    <3>1. CASE op = "quarantine"
      <4>1. Least(row.importance, 10) \in 0..500
        BY <2>3 DEF Least
      <4> QED BY <2>2, <3>1, <4>1 DEF Confirmed, Row, Labels
    <3>2. CASE op # "quarantine"
      <4> DEFINE importance == IF row.importance < 30 THEN 50 ELSE row.importance
                 labels == row.labels \ {"quarantine"}
      <4>1. importance \in 0..500 /\ labels \in SUBSET Labels
        BY <2>2, <2>3, RowFields
      <4>2. desired = [row EXCEPT !.labels = labels, !.importance = importance]
        BY <3>2 DEF Confirmed
      <4> HIDE DEF importance, labels, desired
      <4> QED BY <2>2, <4>1, <4>2 DEF Row
    <3> QED BY <3>1, <3>2
  <2> HIDE DEF desired
  <2>5. Typed(call)
    BY <2>2, <2>4 DEF Typed
  <2> HIDE DEF call
  <2> QED BY <2>1, <2>5, NoCallTyped, CallTyped
<1> QED BY <1>1, <1>2

LEMMA PatchBackTyped ==
    ASSUME TypeInv, NEW u \in Users, PatchBack(u)
    PROVE  RowsTyped' /\ CallsTyped'
<1> DEFINE id == calls[u].id
           base == calls[u].base
           desired == calls[u].desired
           new == Patch(rows[id], base, desired)
<1>1. base # <<>> /\ Update(id, new) /\ calls' = [calls EXCEPT ![u] = NoCallYet]
  BY DEF PatchBack
<1>2. base \in Row /\ desired \in Row
  BY <1>1 DEF TypeInv, CallsTyped, Typed
<1> HIDE DEF base, desired
<1>3. id \in Ids => new \in Row
  BY <1>2, CycleBasics, PatchTyped
<1> HIDE DEF id, new
<1> QED BY <1>1, <1>3, CallTyped, NoCallTyped, WriteTyped DEF TypeInv

LEMMA FieldToolsTyped ==
    ASSUME TypeInv, NEW u \in Users, NEW id \in Ids,
           AddUserLabel(u, id) \/ Enforce(u, id) \/ FlushAccess(u, id)
    PROVE  RowsTyped' /\ calls' = calls
<1>1. calls' = calls /\ rows[id] \in Row
  BY CycleBasics DEF AddUserLabel, Enforce, FlushAccess
<1>2. PICK new : /\ Update(id, new)
                 /\ \/ \E label \in {"note", "junk"} : new = AddLabels(rows[id], {label})
                    \/ \E on \in BOOLEAN : new = [rows[id] EXCEPT !.enforced = on]
                    \/ new = [rows[id] EXCEPT !.access = 3]
  BY DEF AddUserLabel, Enforce, FlushAccess
<1>3. CASE \E label \in {"note", "junk"} : new = AddLabels(rows[id], {label})
  <2>1. PICK labels \in SUBSET Labels : new = AddLabels(rows[id], labels)
    BY <1>3 DEF Labels
  <2>2. new \in Row
    BY <1>1, <2>1, FieldsTyped
  <2> QED BY <1>1, <1>2, <2>2, WriteTyped DEF TypeInv
<1>4. CASE (\E on \in BOOLEAN : new = [rows[id] EXCEPT !.enforced = on]) \/ new = [rows[id] EXCEPT !.access = 3]
  <2>1. new \in Row
    BY <1>1, <1>4 DEF Row
  <2> QED BY <1>1, <1>2, <2>1, WriteTyped DEF TypeInv
<1> QED BY <1>2, <1>3, <1>4

LEMMA UserTyped ==
    ASSUME TypeInv, UserNext
    PROVE  RowsTyped' /\ CycleTyped' /\ CallsTyped'
<1>1. cycle' = cycle
  BY UserKeeps DEF TypeInv, InForeground
<1>2. CycleTyped'
  BY <1>1 DEF TypeInv, CycleTyped
<1>3. RowsTyped /\ CallsTyped
  BY DEF TypeInv
<1>4. rows' = rows => RowsTyped'
  BY <1>3 DEF RowsTyped
<1>5. calls' = calls => CallsTyped'
  BY <1>3 DEF CallsTyped, Typed
<1>6. PICK u \in Users :
        \/ PatchBack(u) \/ ConfirmedRead(u)
        \/ \E id \in Ids :
              \/ ForgetRead(u, id) \/ RestoreRead(u, id) \/ WriteOverRead(u, id)
              \/ FeedbackRead(u, id) \/ Confirm(u, id)
              \/ AddUserLabel(u, id) \/ Enforce(u, id) \/ FlushAccess(u, id)
  BY DEF UserNext
<1>7. CASE PatchBack(u)
  BY <1>2, <1>7, PatchBackTyped
<1>8. CASE ConfirmedRead(u) \/ \E id \in Ids : Confirm(u, id)
  BY <1>2, <1>4, <1>8, ConfirmedTyped
<1>9. ASSUME NEW id \in Ids, ForgetRead(u, id) \/ RestoreRead(u, id) \/ WriteOverRead(u, id)
      PROVE  RowsTyped' /\ CallsTyped'
  BY <1>4, <1>9, PayloadReadTyped
<1>10. ASSUME NEW id \in Ids, FeedbackRead(u, id) PROVE RowsTyped' /\ CallsTyped'
  BY <1>10, FeedbackTyped
<1>11. ASSUME NEW id \in Ids, AddUserLabel(u, id) \/ Enforce(u, id) \/ FlushAccess(u, id)
       PROVE  RowsTyped' /\ CallsTyped'
  BY <1>5, <1>11, FieldToolsTyped
<1> QED BY <1>2, <1>6, <1>7, <1>8, <1>9, <1>10, <1>11

LEMMA TypeInitInv == MemoryInit => TypeInv
<1> SUFFICES ASSUME MemoryInit PROVE TypeInv
  OBVIOUS
<1>1. rows \in [Ids -> Row] /\ cycle = NoCycle /\ calls = [u \in Users |-> NoCallYet]
  BY MemoryAssumption DEF MemoryInit
<1>2. cycle \in Cycle /\ cycle.pc = "idle"
  BY <1>1 DEF NoCycle, Cycle, CyclePCs
<1>3. CycleTyped
  BY <1>2 DEF CycleTyped, SnapshotPCs
<1>4. CallsTyped
  BY <1>1, NoCallTyped DEF CallsTyped
<1> QED BY <1>1, <1>3, <1>4, RowsInitInv DEF TypeInv, RowsTyped

LEMMA TypeStepInv == TypeInv /\ [MemoryNext]_memoryVars => TypeInv'
<1> SUFFICES ASSUME TypeInv, [MemoryNext]_memoryVars PROVE TypeInv'
  OBVIOUS
<1>1. RowsInv'
  BY RowsStep DEF TypeInv
<1>2. CASE ConsolidationNext
  BY <1>1, <1>2, ConsolidationTyped DEF TypeInv
<1>3. CASE UserNext
  BY <1>1, <1>3, UserTyped DEF TypeInv
<1>4. CASE UNCHANGED memoryVars
  BY <1>1, <1>4 DEF memoryVars, TypeInv, RowsTyped, CycleTyped, CallsTyped, Typed
<1> QED BY <1>2, <1>3, <1>4 DEF MemoryNext

LEMMA TypeInvHolds == MemorySpec => []TypeInv
BY TypeInitInv, TypeStepInv, PTL DEF MemorySpec

\* Every importance, mass and label set that any interleaving of a consolidation
\* cycle and tools writes is in the range the payload allows, also when it was
\* computed from a snapshot and merged into a row that has changed (domain/ops.rs).
THEOREM MemoryTypeCorrect == MemorySpec => []MemoryTypeOK
<1>1. TypeInv => MemoryTypeOK
  <2> SUFFICES ASSUME TypeInv PROVE MemoryTypeOK
    OBVIOUS
  <2>1. cycle.pc \in CyclePCs /\ cycle.todo \subseteq Ids /\ cycle.pairs \subseteq Duplicates
    BY DEF TypeInv, CycleTyped, Cycle
  <2> QED BY <2>1 DEF TypeInv, RowsTyped, CycleTyped, SnapshotPCs, CallsTyped, Typed, MemoryTypeOK
<1> QED BY <1>1, TypeInvHolds, PTL

-----------------------------------------------------------------------------
(* The two modules beside each other, as TLC explores them *)

LEMMA PartsAreTheirs == MCSpec => MemorySpec /\ OperationsSpec
<1>1. MCInit => MemoryInit /\ OperationsInit
  BY DEF MCInit
<1>2. [MCNext]_mcVars => [MemoryNext]_memoryVars
  BY DEF MCNext, mcVars, memoryVars, operationVars
<1>3. [MCNext]_mcVars => [OperationsNext]_operationVars
  BY DEF MCNext, mcVars, memoryVars, operationVars
<1> QED BY <1>1, <1>2, <1>3, PTL DEF MCSpec, MemorySpec, OperationsSpec

\* Rows, snapshots, calls, tokens and requests are well typed at once, for any rows,
\* users, owners and bounds: no write of a tool or of the consolidation, however
\* stale what it was computed from, leaves the range of its field (domain/ops.rs).
THEOREM BothTypesCorrect == MCSpec => []MCTypeOK
<1>1. MemoryTypeOK /\ OperationsTypeOK => MCTypeOK
  BY DEF MCTypeOK
<1> QED BY <1>1, PartsAreTheirs, MemoryTypeCorrect, OperationsTypeCorrect, PTL
=============================================================================
