------------------------------ MODULE Host_proofs ------------------------------
(***************************************************************************)
(* What EpicodeGuard keeps for every set of addresses, every way to spell  *)
(* them and every threshold and timeout: its type, and the two invariants  *)
(* about bans.  One inductive invariant carries all three: it says of the  *)
(* daemon's copy, while the daemon has the lock, what the invariants say   *)
(* of the file, and counts a recorded end against the end of the element.  *)
(*                                                                         *)
(* And what holds of the janitor, the engines, the accounts, the codes and *)
(* the guard side by side, as MCHost explores them: what each keeps alone. *)
(***************************************************************************)
EXTENDS MCHost, JanitorSaves_proofs, EngineSlots_proofs, Accounts_proofs

DaemonAt == {"down", "waiting", "reapply", "check", "repair", "record", "ban", "save"}
Commands == [pc : {"kernel", "file"}, ip : Ips, kind : {"ban", "unban"}, at : Nat]

\* Types of every variable; no reading of the clock lies in the future.
Types ==
    /\ file \in GuardState /\ mem \in GuardState /\ kernel \in [Addresses -> Nat]
    /\ lost \subseteq Ips /\ cut \subseteq Ips /\ todo \subseteq Ips
    /\ unbanned \subseteq Addresses /\ aliased \subseteq Addresses
    /\ table_ok \in BOOLEAN /\ daemon \in DaemonAt
    /\ clock \in Nat /\ at \in Nat /\ at <= clock
    /\ command.pc \in {"idle", "kernel", "file"}
    /\ command.pc # "idle" => command \in Commands /\ command.at <= clock
    /\ state_lock \in {"daemon", "command", "free"}
    /\ lines \in [Addresses -> Nat] /\ since \in [Addresses -> Nat] /\ lag \in [Ips -> Nat]
LockRules ==
    /\ state_lock = "command" <=> command.pc # "idle"
    /\ state_lock = "daemon" <=> daemon \notin {"down", "waiting"}
    /\ todo # {} => daemon \in {"reapply", "repair", "ban"}
    /\ daemon \in {"reapply", "repair"} => \A ip \in todo : mem.ips[ip].until > at
Offsets == \A a \in Addresses : file.offset[a] <= lines[a] /\ mem.offset[a] <= lines[a]

\* The element of the address lasts as long as the entry says, less its lag.
Covered(until, ip) ==
    until > clock + lag[ip] => until <= kernel[ip.address] + lag[ip] \/ ip \in lost \cup cut
Enforcement ==
    /\ \A ip \in Ips : /\ Covered(file.ips[ip].until, ip)
                       /\ state_lock = "daemon" => Covered(mem.ips[ip].until, ip)
    /\ command.pc = "file" /\ command.kind = "ban" /\ command.at + BAN_TIMEOUT > clock =>
          command.at + BAN_TIMEOUT <= kernel[command.ip.address] \/ command.ip \in lost

\* An unbanned address has no more score than new lines, and no ban anywhere.
CalmIp(state, ip) == state.ips[ip].until = 0 /\ state.ips[ip].score <= since[ip.address]
Unbanning ==
    /\ \A a \in unbanned \ aliased : since[a] < BAN_THRESHOLD =>
          /\ kernel[a] <= clock
          /\ \A ip \in SpellingsOf(a) :
                CalmIp(file, ip) /\ (state_lock = "daemon" => CalmIp(mem, ip) /\ ip \notin todo)
    /\ command.pc = "file" /\ command.kind = "ban" => command.ip.address \notin unbanned
    /\ command.pc = "file" /\ command.kind = "unban" => kernel[command.ip.address] <= clock

GuardIInv == Types /\ LockRules /\ Offsets /\ Enforcement /\ Unbanning
-----------------------------------------------------------------------------
(* Entries, and calls of nft_ban *)

LEMMA EntryParts ==
    ASSUME NEW x \in Entry
    PROVE  /\ x.score \in Nat /\ x.until \in Nat /\ NoEntry \in Entry
           /\ NoEntry.score = 0 /\ NoEntry.until = 0
           /\ [x EXCEPT !.until = 0] \in Entry
           /\ \A n \in Nat : /\ [x EXCEPT !.until = n] \in Entry
                             /\ [x EXCEPT !.until = n].until = n
                             /\ [x EXCEPT !.until = n].score = x.score
BY DEF Entry, NoEntry

\* Writing one entry leaves the others and the offsets.
LEMMA OneEntry ==
    ASSUME NEW state \in GuardState, NEW ip \in Ips, NEW entry \in Entry
    PROVE  /\ WithEntry(state, ip, entry) \in GuardState
           /\ WithEntry(state, ip, entry).offset = state.offset
           /\ \A o \in Ips : WithEntry(state, ip, entry).ips[o] =
                                IF o = ip THEN entry ELSE state.ips[o]
<1>1. state.ips \in [Ips -> Entry] /\ state.offset \in [Addresses -> Nat]
  BY DEF GuardState
<1>2. WithEntry(state, ip, entry) = [ips |-> [state.ips EXCEPT ![ip] = entry], offset |-> state.offset]
  BY DEF WithEntry, GuardState
<1>3. [state.ips EXCEPT ![ip] = entry] \in [Ips -> Entry]
  BY <1>1
<1> QED BY <1>1, <1>2, <1>3 DEF GuardState

LEMMA StateParts ==
    ASSUME NEW state \in GuardState
    PROVE  /\ \A ip \in Ips : /\ state.ips[ip] \in Entry /\ state.ips[ip].until \in Nat
                              /\ state.ips[ip].score \in Nat
           /\ \A a \in Addresses : state.offset[a] \in Nat
BY DEF GuardState, Entry

LEMMA IpParts == \A ip \in Ips : ip.address \in Addresses /\ ip \in SpellingsOf(ip.address)
BY DEF Ips, SpellingsOf

\* A call of nft_ban at worst leaves everything as it was, and otherwise gives one
\* address a new end; what outlasts that end is cut.
LEMMA BanCall ==
    ASSUME Types, NEW ip \in Ips, NEW timeout \in Nat, NEW answer \in NftAnswers,
           NftBan(ip, timeout, answer)
    PROVE  /\ kernel' \in [Addresses -> Nat] /\ lost' \subseteq Ips /\ cut' \subseteq Ips
           /\ lag' \in [Ips -> Nat]
           /\ \A a \in Addresses : a # ip.address => kernel'[a] = kernel[a]
           /\ answer = "refused" => UNCHANGED <<kernel, lost, cut, lag>>
           /\ answer # "refused" =>
                 /\ kernel'[ip.address] = clock + timeout
                 /\ lost' = lost \ SpellingsOf(ip.address)
           /\ \A o \in Ips :
                 \/ UNCHANGED <<kernel[o.address], lag[o]>>
                    /\ (o \in lost' <=> o \in lost) /\ (o \in cut' <=> o \in cut)
                    /\ (o.address = ip.address => answer = "refused")
                 \/ /\ kernel'[o.address] = clock + timeout /\ lag'[o] = 0
                    /\ o.address = ip.address /\ answer # "refused"
                    /\ Outlasts(o, clock + timeout) => o \in cut'
<1>1. ip.address \in Addresses
  BY IpParts
<1>2. CASE answer = "refused" /\ UNCHANGED <<kernel, lost, cut, lag>>
  BY <1>2 DEF Types
<1>3. CASE answer # "refused" /\ Enforced(ip.address, clock + timeout)
  <2>0. clock + timeout \in Nat
    BY DEF Types
  <2>1. kernel' = [kernel EXCEPT ![ip.address] = clock + timeout]
    BY <1>3 DEF Enforced
  <2>2. /\ kernel' \in [Addresses -> Nat] /\ kernel'[ip.address] = clock + timeout
        /\ \A a \in Addresses : a # ip.address => kernel'[a] = kernel[a]
    BY <1>1, <2>0, <2>1 DEF Types
  <2>3. lag' = [o \in Ips |-> IF o.address = ip.address THEN 0 ELSE lag[o]]
    BY <1>3 DEF Enforced
  <2>4. /\ lag' \in [Ips -> Nat]
        /\ \A o \in Ips : /\ o.address = ip.address => lag'[o] = 0
                          /\ o.address # ip.address => lag'[o] = lag[o]
    BY <2>3 DEF Types
  <2>5. lost' = lost \ SpellingsOf(ip.address)
        /\ cut' = {o \in cut : o.address # ip.address} \cup
                  {o \in SpellingsOf(ip.address) : Outlasts(o, clock + timeout)}
    BY <1>3 DEF Enforced
  <2>6. lost' \subseteq Ips /\ cut' \subseteq Ips
    BY <2>5 DEF Types, SpellingsOf
  <2>7. ASSUME NEW o \in Ips, o.address = ip.address
        PROVE  Outlasts(o, clock + timeout) => o \in cut'
    BY <2>5, <2>7 DEF SpellingsOf
  <2>8. ASSUME NEW o \in Ips, o.address # ip.address
        PROVE  (o \in lost' <=> o \in lost) /\ (o \in cut' <=> o \in cut)
    BY <2>5, <2>8 DEF SpellingsOf
  <2> QED BY <1>3, <2>2, <2>4, <2>5, <2>6, <2>7, <2>8, IpParts
<1> QED BY <1>2, <1>3 DEF NftBan, NftAnswers

\* What was covered before a call is covered after it, unless its address got a
\* shorter timeout and nobody noted it.
LEMMA BanCallCovers ==
    ASSUME Types, NEW ip \in Ips, NEW timeout \in Nat, NEW answer \in NftAnswers,
           NftBan(ip, timeout, answer), UNCHANGED clock,
           NEW o \in Ips, NEW until \in Nat,
           \/ Covered(until, o) /\ (until > clock + timeout => Outlasts(o, clock + timeout))
           \/ o = ip /\ answer # "refused" /\ until <= clock + timeout
    PROVE  until > clock' + lag'[o] => until <= kernel'[o.address] + lag'[o] \/ o \in lost' \cup cut'
<1>1. o.address \in Addresses /\ clock \in Nat /\ lag[o] \in Nat /\ kernel[o.address] \in Nat
  BY IpParts DEF Types
<1>2. CASE UNCHANGED <<kernel[o.address], lag[o]>>
           /\ (o \in lost' <=> o \in lost) /\ (o \in cut' <=> o \in cut)
           /\ (o.address = ip.address => answer = "refused")
  BY <1>1, <1>2 DEF Covered
<1>3. CASE /\ kernel'[o.address] = clock + timeout /\ lag'[o] = 0
           /\ o.address = ip.address /\ answer # "refused"
           /\ Outlasts(o, clock + timeout) => o \in cut'
  BY <1>1, <1>3
<1> QED BY <1>2, <1>3, BanCall
-----------------------------------------------------------------------------
(* The daemon keeps the invariant *)

LEMMA GuardInitInv == GuardInit => GuardIInv
<1> SUFFICES ASSUME GuardInit PROVE GuardIInv
  OBVIOUS
<1>1. /\ NewState \in GuardState
      /\ \A ip \in Ips : NewState.ips[ip].until = 0
      /\ \A a \in Addresses : NewState.offset[a] = 0
  BY DEF NewState, GuardState, NoEntry, Entry
<1>2. command.pc = "idle"
  BY DEF GuardInit, NoCommand
<1>3. /\ kernel \in [Addresses -> Nat] /\ lines \in [Addresses -> Nat]
      /\ since \in [Addresses -> Nat] /\ lag \in [Ips -> Nat]
      /\ \A a \in Addresses : lines[a] = 0
  BY DEF GuardInit
<1>4. file = NewState /\ mem = NewState /\ clock = 0 /\ at = 0
  BY DEF GuardInit
<1>5. /\ lost = {} /\ cut = {} /\ todo = {} /\ unbanned = {} /\ aliased = {}
      /\ table_ok \in BOOLEAN /\ daemon = "down" /\ state_lock = "free"
  BY DEF GuardInit
<1>6. Types
  BY <1>1, <1>2, <1>3, <1>4, <1>5 DEF Types, DaemonAt
<1>7. LockRules /\ Offsets
  <2>1. LockRules
    BY <1>2 DEF GuardInit, LockRules
  <2>2. Offsets
    BY <1>1, <1>3, <1>4 DEF Offsets
  <2> QED BY <2>1, <2>2
<1>8. Enforcement /\ Unbanning
  BY <1>1 DEF GuardInit, Enforcement, Covered, Unbanning, NoCommand
<1> QED BY <1>6, <1>8, <1>7 DEF GuardIInv

LEMMA LoadInv == ASSUME GuardIInv, LoadState \/ StartDaemon PROVE GuardIInv'
<1> USE DEF GuardIInv, LoadState, StartDaemon, history
<1>1. Active(file, clock) \subseteq Ips
      /\ \A ip \in Active(file, clock) : file.ips[ip].until > clock
  BY DEF Active
<1>2. Types'
  <2>1. CASE LoadState
    BY <2>1 DEF Types, DaemonAt
  <2>2. CASE StartDaemon
    <3>1. todo' \subseteq Ips /\ table_ok' = TRUE
      BY <1>1, <2>2
    <3>2. mem' \in GuardState /\ at' = clock /\ clock' = clock
      BY <2>2 DEF Types
    <3> QED BY <2>2, <3>1, <3>2 DEF Types, DaemonAt
  <2> QED BY <2>1, <2>2
<1>3. LockRules'
  BY <1>1 DEF LockRules
<1>4. Offsets' /\ Enforcement'
  BY DEF Offsets, Enforcement, Covered, LockRules
<1>5. \A a \in unbanned : \A ip \in SpellingsOf(a) : CalmIp(file, ip) => ip \notin todo'
  BY <1>1 DEF CalmIp, LockRules, Types
<1>6. Unbanning'
  BY <1>5 DEF Unbanning, CalmIp, LockRules
<1> QED BY <1>2, <1>4, <1>6, <1>3

LEMMA CheckInv == ASSUME GuardIInv, SkipCheck \/ ListMissing \/ EndRepair PROVE GuardIInv'
<1> USE DEF GuardIInv, SkipCheck, ListMissing, EndRepair, history
<1>0. todo' \subseteq Ips /\ \A ip \in todo' : mem.ips[ip].until > at
  BY DEF Active, LockRules, Types
<1>1. Types' /\ LockRules'
  BY <1>0 DEF Types, LockRules, DaemonAt
<1>2. Offsets' /\ Enforcement'
  BY DEF Offsets, Enforcement, Covered, LockRules
<1>3. \A a \in unbanned : \A ip \in SpellingsOf(a) : CalmIp(mem, ip) => ip \notin todo'
  BY <1>0 DEF CalmIp, Types
<1>4. Unbanning'
  BY <1>3 DEF Unbanning, CalmIp, LockRules
<1> QED BY <1>1, <1>2, <1>4

LEMMA EndLoopInv == ASSUME GuardIInv, EndReapply \/ EndBans PROVE GuardIInv'
<1> USE DEF GuardIInv, EndReapply, EndBans, history
<1>1. PICK last \in Int : mem' = Cleaned(last)
  <2>1. at \in Int /\ at - 1 \in Int
    BY DEF Types
  <2> QED BY <2>1
<1>2. mem = [ips |-> mem.ips, offset |-> mem.offset] /\ mem.ips \in [Ips -> Entry]
      /\ mem.offset \in [Addresses -> Nat]
  BY DEF Types, GuardState
<1>3. mem' = [ips |-> [ip \in Ips |-> IF mem.ips[ip].until \in 1..last THEN NoEntry
                                      ELSE mem.ips[ip]],
              offset |-> mem.offset]
  BY <1>1, <1>2 DEF Cleaned
<1>4. /\ mem' \in GuardState /\ mem'.offset = mem.offset
      /\ \A ip \in Ips : \/ mem'.ips[ip] = mem.ips[ip]
                         \/ mem'.ips[ip].until = 0 /\ mem'.ips[ip].score = 0
  BY <1>2, <1>3, EntryParts DEF GuardState
<1>5. Types' /\ LockRules'
  BY <1>4 DEF Types, LockRules, DaemonAt
<1>6. Offsets'
  BY <1>4 DEF Offsets
<1>7. Enforcement'
  BY <1>4 DEF Enforcement, Covered, LockRules, Types
<1>8. \A ip \in Ips : CalmIp(mem, ip) => CalmIp(mem, ip)'
  BY <1>4, IpParts DEF CalmIp, Types
<1>9. Unbanning'
  BY <1>8 DEF Unbanning, CalmIp, LockRules, SpellingsOf
<1> QED BY <1>5, <1>6, <1>7, <1>9

LEMMA RecordInv ==
    ASSUME GuardIInv, NEW decayed \in SUBSET Ips, RecordAndDecay(decayed)
    PROVE  GuardIInv'
<1> USE DEF GuardIInv
<1> DEFINE new(ip) == [mem.ips[ip] EXCEPT !.score =
                          IF ip \in decayed /\ @ > 0 THEN @ - 1 ELSE @ + Read(ip)]
           read(a) == lines[a] - mem.offset[a]
<1>1. /\ mem' = [ips |-> [ip \in Ips |-> new(ip)], offset |-> lines]
      /\ since' = [a \in Addresses |-> since[a] + lines[a] - mem.offset[a]]
      /\ todo' = {ip \in Ips : mem'.ips[ip].until = 0 /\ mem'.ips[ip].score >= BAN_THRESHOLD}
      /\ daemon = "record" /\ daemon' = "ban"
      /\ UNCHANGED <<file, kernel, table_ok, at, command, state_lock, lines, clock,
                     lost, cut, lag, unbanned, aliased>>
  BY DEF RecordAndDecay, Scored
<1>2. ASSUME NEW a \in Addresses
      PROVE  /\ read(a) \in Nat /\ since[a] \in Nat
             /\ since'[a] = since[a] + read(a) /\ since'[a] \in Nat
  BY <1>1, <1>2 DEF Types, GuardState, Offsets
<1>3. ASSUME NEW ip \in Ips
      PROVE  /\ new(ip) \in Entry /\ new(ip).until = mem.ips[ip].until
             /\ new(ip).score <= mem.ips[ip].score + read(ip.address)
             /\ mem'.ips[ip] = new(ip)
  <2>1. /\ mem.ips[ip] = [score |-> mem.ips[ip].score, until |-> mem.ips[ip].until]
        /\ mem.ips[ip].score \in Nat /\ mem.ips[ip].until \in Nat
    BY DEF Types, GuardState, Entry
  <2>2. Read(ip) \in Nat /\ Read(ip) <= read(ip.address) /\ read(ip.address) \in Nat
    BY <1>2, IpParts DEF Read
  <2> DEFINE score == IF ip \in decayed /\ mem.ips[ip].score > 0 THEN mem.ips[ip].score - 1
                      ELSE mem.ips[ip].score + Read(ip)
  <2>3. new(ip) = [score |-> score, until |-> mem.ips[ip].until]
    BY <2>1
  <2>4. score \in Nat /\ score <= mem.ips[ip].score + read(ip.address)
    BY <2>1, <2>2
  <2>5. mem'.ips[ip] = new(ip)
    BY <1>1
  <2> HIDE DEF score, new
  <2> QED BY <2>1, <2>3, <2>4, <2>5 DEF Entry
<1>4. mem' \in GuardState /\ mem'.offset = lines /\ since' \in [Addresses -> Nat] /\ todo' \subseteq Ips
  <2>1. [ip \in Ips |-> new(ip)] \in [Ips -> Entry] /\ lines \in [Addresses -> Nat]
    BY <1>3 DEF Types
  <2>2. since' \in [Addresses -> Nat]
    BY <1>1, <1>2
  <2> QED BY <1>1, <2>1, <2>2 DEF GuardState
<1> HIDE DEF new, read
<1>5. Types' /\ LockRules'
  BY <1>1, <1>4 DEF Types, LockRules, DaemonAt
<1>6. Offsets'
  BY <1>1, <1>4 DEF Types, Offsets
<1>7. Enforcement'
  BY <1>1, <1>3 DEF Enforcement, Covered, LockRules
<1>8. Unbanning'
  <2>1. command.pc = "idle" /\ state_lock = "daemon"
    BY <1>1 DEF LockRules
  <2>2. ASSUME NEW a \in unbanned \ aliased, since'[a] < BAN_THRESHOLD
        PROVE  /\ kernel[a] <= clock
               /\ \A ip \in SpellingsOf(a) : CalmIp(file, ip)' /\ CalmIp(mem, ip)' /\ ip \notin todo'
    <3>1. a \in Addresses /\ BAN_THRESHOLD \in Nat
      BY GuardAssumption DEF Types
    <3>2. since[a] < BAN_THRESHOLD /\ since[a] <= since'[a]
      BY <1>2, <2>2, <3>1
    <3>3. kernel[a] <= clock /\ \A ip \in SpellingsOf(a) : CalmIp(file, ip) /\ CalmIp(mem, ip)
      BY <2>1, <3>2 DEF Unbanning
    <3>4. ASSUME NEW ip \in SpellingsOf(a)
          PROVE  CalmIp(file, ip)' /\ CalmIp(mem, ip)' /\ ip \notin todo'
      <4>1. ip \in Ips /\ ip.address = a
        BY DEF SpellingsOf
      <4>2. /\ file.ips[ip].score \in Nat /\ mem.ips[ip].score \in Nat
            /\ file' = file /\ mem'.ips[ip].score \in Nat
        BY <1>1, <1>3, <4>1, StateParts DEF Types, Entry
      <4>3. mem'.ips[ip].until = 0 /\ mem'.ips[ip].score <= since'[a]
        BY <1>2, <1>3, <3>1, <3>3, <4>1, <4>2 DEF CalmIp
      <4>4. file.ips[ip].until = 0 /\ file.ips[ip].score <= since'[a]
        BY <1>2, <3>1, <3>2, <3>3, <4>1, <4>2 DEF CalmIp
      <4>5. ip \notin todo'
        BY <1>1, <1>2, <2>2, <3>1, <4>2, <4>3
      <4> QED BY <4>1, <4>2, <4>3, <4>4, <4>5 DEF CalmIp
    <3> QED BY <3>3, <3>4
  <2> QED BY <1>1, <2>1, <2>2 DEF Unbanning
<1> QED BY <1>5, <1>6, <1>7, <1>8

\* One call of nft_ban in a loop of the daemon, after which the copy has for the
\* entry what it had, or no ban, or one that ends with the element.
LEMMA LoopInv ==
    ASSUME GuardIInv, NEW ip \in Ips, NEW timeout \in Nat, NEW answer \in NftAnswers,
           NftBan(ip, timeout, answer), NEW entry \in Entry,
           daemon \in {"reapply", "repair", "ban"}, ip \in todo, todo' = todo \ {ip},
           mem' = WithEntry(mem, ip, entry) /\ entry.score = mem.ips[ip].score,
           \/ entry.until = mem.ips[ip].until \/ entry.until = 0
           \/ answer # "refused" /\ entry.until <= clock + timeout,
           UNCHANGED <<file, table_ok, daemon, at, command, state_lock, lines, clock,
                       unbanned, aliased, since>>
    PROVE  GuardIInv'
<1> USE DEF GuardIInv
<1>1. /\ mem' \in GuardState /\ mem'.offset = mem.offset
      /\ \A o \in Ips : mem'.ips[o] = IF o = ip THEN entry ELSE mem.ips[o]
  BY OneEntry DEF Types
<1>2. state_lock = "daemon" /\ command.pc = "idle"
  BY DEF LockRules
<1>3. Types' /\ LockRules'
  BY <1>1, BanCall DEF Types, LockRules
<1>4. Offsets'
  BY <1>1 DEF Offsets
<1>5. Enforcement'
  <2>1. ASSUME NEW o \in Ips
        PROVE  Covered(file.ips[o].until, o)' /\ Covered(mem.ips[o].until, o)'
    <3>1. /\ file.ips[o].until \in Nat /\ mem.ips[o].until \in Nat /\ entry.until \in Nat
          /\ Covered(file.ips[o].until, o) /\ Covered(mem.ips[o].until, o)
          /\ clock \in Nat /\ lag'[o] \in Nat
      BY <1>2, StateParts, BanCall, EntryParts DEF Types, Enforcement
    <3>2. Covered(file.ips[o].until, o)'
      BY <1>2, <3>1, BanCallCovers DEF Outlasts, Covered
    <3>3. CASE mem'.ips[o].until = mem.ips[o].until
      BY <1>2, <3>1, <3>2, <3>3, BanCallCovers DEF Outlasts, Covered
    <3>4. CASE mem'.ips[o].until = 0
      <4>1. clock' = clock /\ ~(0 > clock + lag'[o])
        BY <3>1
      <4> QED BY <3>2, <3>4, <4>1 DEF Covered
    <3>5. CASE o = ip /\ answer # "refused" /\ entry.until <= clock + timeout
      <4>1. mem'.ips[o].until = entry.until
        BY <1>1, <3>5
      <4>2. entry.until > clock' + lag'[o] =>
               entry.until <= kernel'[o.address] + lag'[o] \/ o \in lost' \cup cut'
        BY <3>1, <3>5, BanCallCovers
      <4> QED BY <3>2, <4>1, <4>2 DEF Covered
    <3> QED BY <1>1, <3>2, <3>3, <3>4, <3>5
  <2> QED BY <1>2, <2>1 DEF Enforcement
<1>6. Unbanning'
  <2>1. ASSUME NEW a \in unbanned \ aliased, since[a] < BAN_THRESHOLD
        PROVE  /\ kernel'[a] <= clock
               /\ \A o \in SpellingsOf(a) : CalmIp(file, o) /\ CalmIp(mem, o)' /\ o \notin todo'
    <3>1. /\ kernel[a] <= clock /\ a \in Addresses
          /\ \A o \in SpellingsOf(a) : CalmIp(file, o) /\ CalmIp(mem, o) /\ o \notin todo
      BY <1>2, <2>1 DEF Unbanning, Types
    <3>2. ip.address # a
      BY <3>1, IpParts
    <3>3. kernel'[a] = kernel[a]
      BY <3>1, <3>2, BanCall
    <3>4. \A o \in SpellingsOf(a) : o \in Ips /\ mem'.ips[o] = mem.ips[o]
      BY <1>1, <3>2 DEF SpellingsOf
    <3> QED BY <3>1, <3>3, <3>4 DEF CalmIp
  <2> QED BY <1>2, <2>1 DEF Unbanning, CalmIp
<1> QED BY <1>3, <1>4, <1>5, <1>6

LEMMA LoopsInv ==
    ASSUME GuardIInv, NEW ip \in Ips, NEW answer \in NftAnswers,
           \/ ReapplyOne(ip, answer) \/ RepairOne(ip, answer)
           \/ \E severity \in Severities : BanOne(ip, severity, answer)
    PROVE  GuardIInv'
<1>1. mem \in GuardState /\ at \in Nat /\ clock \in Nat /\ at <= clock /\ Types
      /\ mem.ips[ip] \in Entry /\ mem.ips[ip].until \in Nat
  BY StateParts DEF GuardIInv, Types
<1>2. WithEntry(mem, ip, mem.ips[ip]) = mem
  BY <1>1 DEF WithEntry, GuardState
<1>3. ASSUME ReapplyOne(ip, answer) PROVE GuardIInv'
  <2> DEFINE timeout == mem.ips[ip].until - at
             entry == IF answer = "confirmed" THEN mem.ips[ip] ELSE [mem.ips[ip] EXCEPT !.until = 0]
  <2>1. timeout \in Nat
    BY <1>1, <1>3 DEF ReapplyOne, GuardIInv, LockRules
  <2>2. entry \in Entry /\ entry.score = mem.ips[ip].score
        /\ (entry.until = mem.ips[ip].until \/ entry.until = 0)
    BY <1>1, EntryParts
  <2>3. mem' = WithEntry(mem, ip, entry)
    BY <1>2, <1>3 DEF ReapplyOne
  <2>4. /\ NftBan(ip, timeout, answer) /\ daemon = "reapply" /\ ip \in todo /\ todo' = todo \ {ip}
        /\ UNCHANGED <<file, table_ok, daemon, at, command, state_lock, lines, clock,
                       unbanned, aliased, since>>
    BY <1>3 DEF ReapplyOne
  <2> HIDE DEF timeout, entry
  <2> QED BY <2>1, <2>2, <2>3, <2>4, LoopInv
<1>4. ASSUME RepairOne(ip, answer) PROVE GuardIInv'
  <2> DEFINE timeout == mem.ips[ip].until - at
  <2>1. timeout \in Nat
    BY <1>1, <1>4 DEF RepairOne, GuardIInv, LockRules
  <2>2. /\ NftBan(ip, timeout, answer) /\ daemon = "repair" /\ ip \in todo /\ todo' = todo \ {ip}
        /\ mem' = mem
        /\ UNCHANGED <<file, table_ok, daemon, at, command, state_lock, lines, clock,
                       unbanned, aliased, since>>
    BY <1>4 DEF RepairOne
  <2> HIDE DEF timeout
  <2> QED BY <1>1, <1>2, <2>1, <2>2, LoopInv
<1>5. ASSUME NEW severity \in Severities, BanOne(ip, severity, answer) PROVE GuardIInv'
  <2> DEFINE timeout == BAN_TIMEOUT * severity
             entry == IF answer = "confirmed" THEN [mem.ips[ip] EXCEPT !.until = at + timeout]
                      ELSE mem.ips[ip]
  <2>1. timeout \in Nat
    BY GuardAssumption
  <2>2. at + timeout \in Nat /\ at + timeout <= clock + timeout
    BY <1>1, <2>1
  <2>3. /\ entry \in Entry /\ entry.score = mem.ips[ip].score
        /\ \/ entry.until = mem.ips[ip].until
           \/ answer # "refused" /\ entry.until <= clock + timeout
    BY <1>1, <2>2, EntryParts
  <2>4. mem' = WithEntry(mem, ip, entry)
    BY <1>2, <1>5 DEF BanOne
  <2>5. /\ NftBan(ip, timeout, answer) /\ daemon = "ban" /\ ip \in todo /\ todo' = todo \ {ip}
        /\ UNCHANGED <<file, table_ok, daemon, at, command, state_lock, lines, clock,
                       unbanned, aliased, since>>
    BY <1>5 DEF BanOne
  <2> HIDE DEF timeout, entry
  <2> QED BY <2>1, <2>3, <2>4, <2>5, LoopInv
<1> QED BY <1>3, <1>4, <1>5

LEMMA SaveInv == ASSUME GuardIInv, SaveState \/ DaemonDies PROVE GuardIInv'
<1> USE DEF GuardIInv, history
<1>1. NewState \in GuardState /\ \A a \in Addresses : NewState.offset[a] = 0
  BY DEF NewState, GuardState, NoEntry, Entry
<1>2. CASE SaveState
  <2>1. Types' /\ LockRules' /\ Offsets'
    BY <1>2 DEF SaveState, Types, LockRules, Offsets, DaemonAt
  <2>2. Enforcement' /\ Unbanning'
    BY <1>2 DEF SaveState, Enforcement, Covered, LockRules, Unbanning, CalmIp
  <2> QED BY <2>1, <2>2
<1>3. CASE DaemonDies
  <2>1. file' = file \/ (state_lock = "daemon" /\ file' = mem)
    BY <1>3 DEF DaemonDies, LockRules
  <2>2. state_lock' # "daemon" /\ (state_lock' = "command" <=> state_lock = "command")
    BY <1>3 DEF DaemonDies
  <2>3. Types'
    BY <1>1, <1>3, <2>1 DEF DaemonDies, Types, DaemonAt
  <2>4. LockRules' /\ Offsets'
    BY <1>1, <1>3, <2>1, <2>2 DEF DaemonDies, LockRules, Offsets, Types
  <2>5. Enforcement'
    BY <1>3, <2>1, <2>2 DEF DaemonDies, Enforcement, Covered
  <2>6. Unbanning'
    BY <1>3, <2>1, <2>2 DEF DaemonDies, Unbanning, CalmIp
  <2> QED BY <2>3, <2>4, <2>5, <2>6
<1> QED BY <1>2, <1>3
-----------------------------------------------------------------------------
(* The commands keep it *)

LEMMA BeginCommandInv ==
    ASSUME GuardIInv, NEW kind \in {"ban", "unban"}, NEW ip \in Ips, StartCommand(kind, ip)
    PROVE  GuardIInv'
<1> USE DEF GuardIInv, StartCommand, history
<1>0. /\ command' = [pc |-> "kernel", ip |-> ip, kind |-> kind, at |-> clock]
      /\ clock \in Nat /\ table_ok' \in BOOLEAN
  BY DEF Types
<1>1. command'.pc = "kernel" /\ command' \in Commands /\ command'.at = clock
  BY <1>0 DEF Commands
<1>2. Types'
  BY <1>0, <1>1 DEF Types
<1>3. LockRules'
  BY <1>1 DEF LockRules
<1>4. Offsets' /\ Enforcement' /\ Unbanning'
  BY <1>1 DEF Offsets, Enforcement, Covered, Unbanning, CalmIp
<1> QED BY <1>2, <1>3, <1>4

LEMMA BanCommandInv ==
    ASSUME GuardIInv, NEW answer \in NftAnswers, BanInKernel(answer)
    PROVE  GuardIInv'
<1> USE DEF GuardIInv
<1> DEFINE ip == command.ip
<1>1. /\ command \in Commands /\ ip \in Ips /\ ip.address \in Addresses
      /\ state_lock = "command" /\ command.kind = "ban" /\ clock \in Nat /\ BAN_TIMEOUT \in Nat
  BY IpParts, GuardAssumption DEF BanInKernel, Types, LockRules, Commands
<1>2. NftBan(ip, BAN_TIMEOUT, answer)
  BY DEF BanInKernel
<1>3. /\ unbanned' = IF answer = "refused" THEN unbanned ELSE unbanned \ {ip.address}
      /\ UNCHANGED <<file, mem, table_ok, daemon, at, todo, lines, clock, aliased, since>>
  BY DEF BanInKernel
<1>4. \/ /\ answer = "confirmed" /\ state_lock' = "command"
         /\ command' = [command EXCEPT !.pc = "file", !.at = clock]
      \/ answer # "confirmed" /\ command' = NoCommand /\ state_lock' = "free"
  BY <1>1 DEF BanInKernel, EndCommand
<1>5. \/ /\ answer = "confirmed" /\ state_lock' = "command" /\ command'.pc = "file"
         /\ command' \in Commands /\ command'.at = clock /\ command'.ip = ip
         /\ command'.kind = "ban"
      \/ answer # "confirmed" /\ command'.pc = "idle" /\ state_lock' = "free"
  <2>2. CASE answer = "confirmed"
    <3>1. command' = [command EXCEPT !.pc = "file", !.at = clock] /\ state_lock' = "command"
      BY <1>4, <2>2
    <3>2. /\ command'.pc = "file" /\ command' \in Commands /\ command'.at = clock
          /\ command'.ip = command.ip /\ command'.kind = command.kind
      BY <1>1, <3>1 DEF Commands
    <3> QED BY <1>1, <2>2, <3>1, <3>2
  <2>3. CASE answer # "confirmed"
    <3>1. command' = [pc |-> "idle"] /\ state_lock' = "free"
      BY <1>4, <2>3 DEF NoCommand
    <3> QED BY <2>3, <3>1
  <2> QED BY <2>2, <2>3
<1>6. Types'
  <2>1. /\ kernel' \in [Addresses -> Nat] /\ lost' \subseteq Ips /\ cut' \subseteq Ips
        /\ lag' \in [Ips -> Nat]
    BY <1>1, <1>2, BanCall
  <2>2. /\ command'.pc \in {"idle", "kernel", "file"} /\ state_lock' \in {"daemon", "command", "free"}
        /\ command'.pc # "idle" => command' \in Commands /\ command'.at <= clock
    BY <1>1, <1>5
  <2> QED BY <1>3, <2>1, <2>2 DEF Types
<1>7. LockRules'
  BY <1>1, <1>3, <1>5 DEF LockRules
<1>8. Offsets'
  BY <1>3 DEF Offsets
<1>9. Enforcement'
  <2>1. \A o \in Ips : Covered(file.ips[o].until, o)'
    <3>1. ASSUME NEW o \in Ips PROVE Covered(file.ips[o].until, o)'
      <4>1. file.ips[o].until \in Nat /\ Covered(file.ips[o].until, o)
        BY StateParts DEF Types, Enforcement
      <4> QED BY <1>1, <1>2, <1>3, <4>1, BanCallCovers DEF Outlasts, Covered
    <3> QED BY <3>1
  <2>2. command'.pc = "file" => command'.at + BAN_TIMEOUT <= kernel'[command'.ip.address]
    BY <1>1, <1>2, <1>5, BanCall
  <2> QED BY <1>5, <2>1, <2>2 DEF Enforcement
<1>10. Unbanning'
  <2>1. ASSUME NEW a \in unbanned' \ aliased, since[a] < BAN_THRESHOLD
        PROVE  kernel'[a] <= clock /\ \A o \in SpellingsOf(a) : CalmIp(file, o)
    <3>1. a \in unbanned \ aliased /\ a \in Addresses
          /\ kernel[a] <= clock /\ \A o \in SpellingsOf(a) : CalmIp(file, o)
      BY <1>3, <2>1 DEF Unbanning, Types
    <3>2. a # ip.address \/ answer = "refused"
      BY <1>3, <2>1
    <3>3. kernel'[a] = kernel[a]
      BY <1>1, <1>2, <3>1, <3>2, BanCall
    <3> QED BY <3>1, <3>3
  <2>2. command'.pc = "file" => command'.ip.address \notin unbanned' /\ command'.kind = "ban"
    BY <1>3, <1>5
  <2> QED BY <1>3, <1>5, <2>1, <2>2 DEF Unbanning, CalmIp
<1> QED BY <1>6, <1>7, <1>8, <1>9, <1>10

LEMMA UnbanCommandInv ==
    ASSUME GuardIInv, UnbanRefused \/ \E confirmed \in BOOLEAN : UnbanInKernel(confirmed)
    PROVE  GuardIInv'
<1> USE DEF GuardIInv, history
<1>1. CASE UnbanRefused
  <2>1. Types' /\ LockRules'
    BY <1>1 DEF UnbanRefused, EndCommand, NoCommand, Types, LockRules
  <2>2. Offsets' /\ Enforcement' /\ Unbanning'
    BY <1>1 DEF UnbanRefused, EndCommand, NoCommand, Offsets, Enforcement, Covered, Unbanning, CalmIp
  <2> QED BY <2>1, <2>2
<1>2. ASSUME NEW confirmed \in BOOLEAN, UnbanInKernel(confirmed) PROVE GuardIInv'
  <2> DEFINE address == command.ip.address
  <2>1. /\ command \in Commands /\ command.ip \in Ips /\ address \in Addresses
        /\ state_lock = "command" /\ command.kind = "unban" /\ clock \in Nat
        /\ kernel \in [Addresses -> Nat]
    BY <1>2, IpParts DEF UnbanInKernel, Types, LockRules, Commands
  <2>2. /\ kernel' = [kernel EXCEPT ![address] = 0]
        /\ lost' = lost \cup SpellingsOf(address)
        /\ UNCHANGED <<file, mem, table_ok, daemon, at, todo, lines, clock, cut, lag,
                       unbanned, aliased, since>>
    BY <1>2 DEF UnbanInKernel
  <2>3. /\ kernel' \in [Addresses -> Nat] /\ kernel'[address] = 0
        /\ \A a \in Addresses : a # address => kernel'[a] = kernel[a]
    BY <2>1, <2>2
  <2>4. \/ command' = [command EXCEPT !.pc = "file"] /\ state_lock' = "command"
        \/ command' = NoCommand /\ state_lock' = "free"
    BY <1>2, <2>1 DEF UnbanInKernel, EndCommand
  <2>5. command'.pc # "idle" => /\ command' \in Commands /\ command'.at = command.at
                                /\ command'.ip = command.ip /\ command'.kind = "unban"
                                /\ state_lock' = "command"
    BY <2>1, <2>4 DEF NoCommand, Commands
  <2>6. lost' \subseteq Ips
    BY <2>2 DEF Types, SpellingsOf
  <2>7. Types'
    <3>1. /\ command'.pc \in {"idle", "kernel", "file"} /\ state_lock' \in {"daemon", "command", "free"}
          /\ command'.pc # "idle" => command' \in Commands /\ command'.at <= clock
      BY <1>2, <2>1, <2>4, <2>5 DEF NoCommand, Types, UnbanInKernel, Commands
    <3> QED BY <2>2, <2>3, <2>6, <3>1 DEF Types
  <2>8. LockRules' /\ Offsets'
    BY <2>1, <2>2, <2>4, <2>5 DEF LockRules, Offsets, NoCommand, Commands
  <2>9. Enforcement'
    <3>1. ASSUME NEW o \in Ips PROVE Covered(file.ips[o].until, o)'
      <4>1. Covered(file.ips[o].until, o) /\ o.address \in Addresses
        BY IpParts DEF Enforcement
      <4>2. CASE o.address = address
        BY <2>2, <4>2 DEF Covered, SpellingsOf
      <4>3. CASE o.address # address
        BY <2>2, <2>3, <4>1, <4>3 DEF Covered
      <4> QED BY <4>2, <4>3
    <3> QED BY <2>4, <2>5, <3>1 DEF Enforcement, NoCommand
  <2>10. Unbanning'
    <3>1. \A a \in unbanned : kernel[a] <= clock => kernel'[a] <= clock
      BY <2>1, <2>2, <2>3 DEF Types
    <3> QED BY <2>1, <2>2, <2>3, <2>4, <2>5, <3>1 DEF Unbanning, CalmIp, NoCommand
  <2> QED BY <2>7, <2>8, <2>9, <2>10
<1> QED BY <1>1, <1>2

\* What a command writes: its entry, and the histories that go with it.
LEMMA WritesInv ==
    ASSUME GuardIInv, command.pc = "file", CommandWrites,
           command' = NoCommand, state_lock' = "free",
           UNCHANGED <<mem, kernel, table_ok, daemon, at, todo, lines, clock>>,
           \/ UNCHANGED <<unbanned, aliased, since>>
           \/ /\ command.kind = "unban" /\ unbanned' = unbanned \cup {command.ip.address}
              /\ aliased' = IF \E other \in SpellingsOf(command.ip.address) :
                                  file'.ips[other] # NoEntry
                            THEN aliased \cup {command.ip.address}
                            ELSE aliased \ {command.ip.address}
              /\ since' = [since EXCEPT ![command.ip.address] = 0]
    PROVE  GuardIInv'
<1> USE DEF GuardIInv
<1> DEFINE ip == command.ip
<1>1. /\ command \in Commands /\ command.at \in Nat /\ command.at <= clock /\ ip \in Ips
      /\ ip.address \in Addresses /\ command.kind \in {"ban", "unban"}
      /\ clock \in Nat /\ BAN_TIMEOUT \in Nat /\ BAN_THRESHOLD \in Nat \ {0}
      /\ state_lock = "command" /\ todo = {} /\ daemon \in {"down", "waiting"}
  BY IpParts, GuardAssumption DEF Types, LockRules, Commands
<1> DEFINE entry == IF command.kind = "ban"
                    THEN [score |-> BAN_THRESHOLD, until |-> clock + BAN_TIMEOUT] ELSE NoEntry
<1>2. entry \in Entry
  BY <1>1 DEF Entry, NoEntry
<1>3. file' = WithEntry(file, ip, entry)
  BY DEF CommandWrites
<1>4. /\ file' \in GuardState /\ file'.offset = file.offset
      /\ \A o \in Ips : file'.ips[o] = IF o = ip THEN entry ELSE file.ips[o]
  BY <1>1, <1>2, <1>3, OneEntry DEF Types
<1>5. /\ lost' \subseteq Ips /\ cut' \subseteq Ips /\ lag' \in [Ips -> Nat]
      /\ \A o \in Ips \ {ip} : lag'[o] = lag[o] /\ (o \in lost' <=> o \in lost)
                               /\ (o \in cut' <=> o \in cut)
      /\ command.kind = "ban" => lag'[ip] = clock - command.at /\ lost' = lost
  <2>1. clock - command.at \in Nat
    BY <1>1
  <2> QED BY <1>1, <2>1 DEF CommandWrites, Types
<1>6. /\ unbanned' \subseteq Addresses /\ aliased' \subseteq Addresses /\ since' \in [Addresses -> Nat]
  BY <1>1 DEF Types
<1>7. Types'
  BY <1>4, <1>5, <1>6 DEF Types, NoCommand
<1>8. LockRules' /\ Offsets'
  BY <1>1, <1>4 DEF LockRules, Offsets, NoCommand
<1>9. Enforcement'
  <2>1. ASSUME NEW o \in Ips PROVE Covered(file.ips[o].until, o)'
    <3>1. CASE o # ip
      BY <1>4, <1>5, <3>1 DEF Enforcement, Covered
    <3>2. CASE o = ip /\ command.kind = "unban"
      <4>1. file'.ips[o].until = 0 /\ lag'[o] \in Nat
        BY <1>4, <1>5, <3>2 DEF NoEntry
      <4> QED BY <1>1, <4>1 DEF Covered
    <3>3. CASE o = ip /\ command.kind = "ban"
      <4>1. file'.ips[o].until = clock + BAN_TIMEOUT /\ lag'[o] = clock - command.at /\ lost' = lost
        BY <1>4, <1>5, <3>3
      <4>2. command.at + BAN_TIMEOUT > clock =>
               command.at + BAN_TIMEOUT <= kernel[o.address] \/ o \in lost
        BY <3>3 DEF Enforcement
      <4>3. kernel[o.address] \in Nat
        BY <1>1, <3>3 DEF Types
      <4> QED BY <1>1, <4>1, <4>2, <4>3 DEF Covered
    <3> QED BY <1>1, <3>1, <3>2, <3>3
  <2> QED BY <2>1 DEF Enforcement, NoCommand
<1>10. Unbanning'
  <2>1. ASSUME NEW a \in unbanned' \ aliased', since'[a] < BAN_THRESHOLD
        PROVE  kernel[a] <= clock /\ \A o \in SpellingsOf(a) : CalmIp(file, o)'
    <3>1. CASE a = ip.address /\ unbanned' = unbanned \cup {ip.address} /\ command.kind = "unban"
               /\ since' = [since EXCEPT ![ip.address] = 0]
               /\ \A o \in SpellingsOf(a) : file'.ips[o] = NoEntry
      <4>1. kernel[a] <= clock /\ since'[a] = 0
        BY <1>1, <3>1 DEF Unbanning, Types
      <4>2. ASSUME NEW o \in SpellingsOf(a) PROVE CalmIp(file, o)'
        <5>1. o.address = a /\ file'.ips[o] = NoEntry
          BY <3>1 DEF SpellingsOf
        <5> QED BY <4>1, <5>1 DEF CalmIp, NoEntry
      <4> QED BY <4>1, <4>2
    <3>2. CASE a \in unbanned \ aliased /\ since'[a] = since[a]
      <4>1. kernel[a] <= clock /\ \A o \in SpellingsOf(a) : CalmIp(file, o)
        BY <2>1, <3>2 DEF Unbanning
      <4>2. ASSUME NEW o \in SpellingsOf(a) PROVE CalmIp(file, o)'
        <5>1. o \in Ips /\ o.address = a /\ since[a] \in Nat
          BY <2>1, <3>2 DEF SpellingsOf, Types
        <5>2. CASE file'.ips[o] = file.ips[o]
          BY <3>2, <4>1, <5>1, <5>2 DEF CalmIp
        <5>3. CASE o = ip /\ command.kind = "unban"
          <6>1. file'.ips[o] = NoEntry
            BY <1>4, <5>1, <5>3
          <6> QED BY <3>2, <5>1, <6>1 DEF CalmIp, NoEntry
        <5>4. CASE o = ip /\ command.kind = "ban"
          BY <3>2, <5>1, <5>4 DEF Unbanning
        <5> QED BY <1>1, <1>4, <5>1, <5>2, <5>3, <5>4
      <4> QED BY <4>1, <4>2
    <3> QED BY <1>1, <2>1, <3>1, <3>2 DEF Types
  <2> QED BY <1>1, <2>1 DEF Unbanning, NoCommand
<1> QED BY <1>7, <1>8, <1>9, <1>10

LEMMA EndCommandInv == ASSUME GuardIInv, CommandSaves \/ CommandFails PROVE GuardIInv'
<1>1. CASE CommandSaves
  <2>1. command.kind = "ban" \/ command.kind = "unban"
    BY <1>1 DEF CommandSaves, GuardIInv, Types, Commands
  <2> QED BY <1>1, <2>1, WritesInv DEF CommandSaves, EndCommand
<1>2. CASE CommandFails /\ CommandWrites
  BY <1>2, WritesInv DEF CommandFails, EndCommand
<1>3. CASE CommandFails /\ UNCHANGED <<file, lost, cut, lag>>
  <2>1. Types' /\ LockRules'
    BY <1>3 DEF CommandFails, EndCommand, NoCommand, GuardIInv, Types, LockRules
  <2>2. Offsets' /\ Enforcement' /\ Unbanning'
    BY <1>3 DEF CommandFails, EndCommand, NoCommand, GuardIInv, Offsets, Enforcement, Covered,
                Unbanning, CalmIp
  <2> QED BY <2>1, <2>2 DEF GuardIInv
<1> QED BY <1>1, <1>2, <1>3 DEF CommandFails
-----------------------------------------------------------------------------
(* The host keeps it *)

LEMMA HostInv == ASSUME GuardIInv, HostNext PROVE GuardIInv'
<1> USE DEF GuardIInv, history
<1>1. ASSUME NEW address \in Addresses, Attack(address) PROVE GuardIInv'
  <2>1. lines' \in [Addresses -> Nat] /\ \A a \in Addresses : lines[a] <= lines'[a]
    BY <1>1 DEF Attack, Types
  <2>2. Types' /\ LockRules'
    BY <1>1, <2>1 DEF Attack, Types, LockRules
  <2>3. Offsets'
    BY <1>1, <2>1, StateParts DEF Attack, Types, Offsets
  <2>4. Enforcement' /\ Unbanning'
    BY <1>1 DEF Attack, Enforcement, Covered, Unbanning, CalmIp
  <2> QED BY <2>2, <2>3, <2>4
<1>2. ASSUME NEW keeps \in BOOLEAN, FirewallReload(keeps) PROVE GuardIInv'
  <2>1. /\ kernel' = [a \in Addresses |-> 0]
        /\ lost' = lost \cup {ip \in Ips : InKernel(ip.address)}
        /\ UNCHANGED <<file, mem, daemon, at, todo, command, state_lock, lines, clock,
                       cut, lag, unbanned, aliased, since>>
    BY <1>2 DEF FirewallReload
  <2>2. Types' /\ LockRules' /\ Offsets'
    BY <1>2, <2>1 DEF FirewallReload, Types, LockRules, Offsets
  <2>3. ASSUME NEW ip \in Ips, NEW until \in Nat, Covered(until, ip)
        PROVE  until > clock + lag[ip] => ip \in lost' \cup cut
    <3>1. kernel[ip.address] \in Nat /\ clock \in Nat /\ lag[ip] \in Nat
      BY IpParts DEF Types
    <3> QED BY <2>1, <2>3, <3>1 DEF Covered, InKernel
  <2>4. ASSUME NEW ip \in Ips
        PROVE  /\ Covered(file.ips[ip].until, ip)'
               /\ state_lock = "daemon" => Covered(mem.ips[ip].until, ip)'
    <3>1. file.ips[ip].until \in Nat /\ mem.ips[ip].until \in Nat
      BY StateParts DEF Types
    <3> QED BY <2>1, <2>3, <3>1 DEF Enforcement, Covered
  <2>5. command.pc = "file" /\ command.kind = "ban" /\ command.at + BAN_TIMEOUT > clock =>
           command.ip \in lost'
    <3> SUFFICES ASSUME command.pc = "file", command.kind = "ban", command.at + BAN_TIMEOUT > clock
                 PROVE  command.ip \in lost'
      OBVIOUS
    <3>1. command.ip \in Ips /\ command.ip.address \in Addresses /\ clock \in Nat
          /\ command.at \in Nat /\ BAN_TIMEOUT \in Nat /\ kernel[command.ip.address] \in Nat
      BY IpParts, GuardAssumption DEF Types, Commands
    <3>2. command.at + BAN_TIMEOUT <= kernel[command.ip.address] \/ command.ip \in lost
      BY DEF Enforcement
    <3> QED BY <2>1, <3>1, <3>2 DEF InKernel
  <2>6. Enforcement'
    BY <2>1, <2>4, <2>5 DEF Enforcement
  <2>7. Unbanning'
    <3>1. \A a \in Addresses : kernel'[a] <= clock
      BY <2>1 DEF Types
    <3>2. command.pc = "file" => command.ip.address \in Addresses
      BY IpParts DEF Types, Commands
    <3> QED BY <2>1, <3>1, <3>2 DEF Unbanning, CalmIp, Types
  <2> QED BY <2>2, <2>6, <2>7
<1>3. CASE Tick
  <2>1. clock' = clock + 1 /\ clock \in Nat
    BY <1>3 DEF Tick, Types
  <2>2. Types'
    BY <1>3, <2>1 DEF Tick, Types, Commands
  <2>3. LockRules' /\ Offsets'
    BY <1>3 DEF Tick, LockRules, Offsets
  <2>4. ASSUME NEW ip \in Ips, NEW until \in Nat, Covered(until, ip)
        PROVE  until > clock' + lag[ip] =>
                  until <= kernel[ip.address] + lag[ip] \/ ip \in lost \cup cut
    <3>1. lag[ip] \in Nat
      BY DEF Types
    <3> QED BY <2>1, <2>4, <3>1 DEF Covered
  <2>5. Enforcement'
    <3>1. ASSUME NEW ip \in Ips
          PROVE  /\ Covered(file.ips[ip].until, ip)'
                 /\ state_lock = "daemon" => Covered(mem.ips[ip].until, ip)'
      <4>1. file.ips[ip].until \in Nat /\ mem.ips[ip].until \in Nat
        BY StateParts DEF Types
      <4> QED BY <1>3, <2>4, <4>1 DEF Enforcement, Covered, Tick
    <3>2. command.pc = "file" /\ command.kind = "ban" /\ command.at + BAN_TIMEOUT > clock' =>
             command.at + BAN_TIMEOUT <= kernel[command.ip.address] \/ command.ip \in lost
      <4>1. command.pc = "file" => command.at \in Nat /\ BAN_TIMEOUT \in Nat
        BY GuardAssumption DEF Types, Commands
      <4> QED BY <2>1, <4>1 DEF Enforcement
    <3> QED BY <1>3, <3>1, <3>2 DEF Enforcement, Tick
  <2>6. Unbanning'
    <3>1. \A a \in Addresses : kernel[a] <= clock => kernel[a] <= clock'
      BY <2>1 DEF Types
    <3>2. command.pc = "file" => command.ip.address \in Addresses
      BY IpParts DEF Types, Commands
    <3> QED BY <1>3, <3>1, <3>2 DEF Unbanning, CalmIp, Tick, Types
  <2> QED BY <2>2, <2>3, <2>5, <2>6
<1> QED BY <1>1, <1>2, <1>3 DEF HostNext

LEMMA GuardStepInv == GuardIInv /\ [GuardNext]_guardVars => GuardIInv'
<1> SUFFICES ASSUME GuardIInv, [GuardNext]_guardVars PROVE GuardIInv'
  OBVIOUS
<1>1. CASE DaemonNext
  BY <1>1, LoadInv, CheckInv, EndLoopInv, RecordInv, LoopsInv, SaveInv DEF DaemonNext
<1>2. CASE CommandNext
  BY <1>2, BeginCommandInv, BanCommandInv, UnbanCommandInv, EndCommandInv DEF CommandNext
<1>3. CASE HostNext
  BY <1>3, HostInv
<1>4. CASE UNCHANGED guardVars
  BY <1>4 DEF guardVars, GuardIInv, Types, LockRules, Offsets, Enforcement, Covered, Unbanning, CalmIp
<1> QED BY <1>1, <1>2, <1>3, <1>4 DEF GuardNext

LEMMA GuardAlways == GuardSpec => []GuardIInv
BY GuardInitInv, GuardStepInv, PTL DEF GuardSpec
-----------------------------------------------------------------------------
\* The file, the daemon's copy and the kernel stay well-formed, the lock is held
\* by the one that is under way, and no line is read before it is written.
THEOREM GuardTypeCorrect == GuardSpec => []GuardTypeOK
<1>1. GuardIInv => GuardTypeOK
  BY DEF GuardIInv, Types, LockRules, Offsets, GuardTypeOK
<1> QED BY <1>1, GuardAlways, PTL

\* Whatever fails, dies or is reloaded, and however the clock moves between two
\* readings of it: a ban is in the kernel until the end that the file records, less
\* the time its command took, unless the firewall lost it, its unban was not saved
\* or its address was given a shorter timeout afterwards.
THEOREM RecordedBansAreEnforced == GuardSpec => []RecordedBanEnforced
<1>1. GuardIInv => RecordedBanEnforced
  <2> SUFFICES ASSUME GuardIInv, NEW ip \in Active(file, clock), ip \notin lost \cup cut,
                      ~(file.ips[ip].until <= clock + lag[ip])
               PROVE  InKernel(ip.address)
    BY DEF RecordedBanEnforced
  <2>1. /\ ip \in Ips /\ file.ips[ip].until \in Nat /\ clock \in Nat /\ lag[ip] \in Nat
        /\ kernel[ip.address] \in Nat
    BY IpParts, StateParts DEF Active, GuardIInv, Types
  <2>2. file.ips[ip].until <= kernel[ip.address] + lag[ip]
    BY <2>1 DEF GuardIInv, Enforcement, Covered
  <2> QED BY <2>1, <2>2 DEF InKernel
<1> QED BY <1>1, GuardAlways, PTL

\* No cycle, restart, repair or stale copy brings back a ban that an answered unban
\* removed, until there are enough new points for a ban of their own: for every
\* address that had no entry in another spelling.
THEOREM UnbansStick == GuardSpec => []UnbanSticks
<1>1. GuardIInv => UnbanSticks
  <2> SUFFICES ASSUME GuardIInv, NEW a \in unbanned \ aliased, since[a] < BAN_THRESHOLD
               PROVE  ~InKernel(a) /\ SpellingsOf(a) \cap Active(file, clock) = {}
    BY DEF UnbanSticks
  <2>1. kernel[a] \in Nat /\ clock \in Nat
    BY DEF GuardIInv, Types
  <2>2. kernel[a] <= clock /\ \A ip \in SpellingsOf(a) : file.ips[ip].until = 0
    BY DEF GuardIInv, Unbanning, CalmIp
  <2> QED BY <2>1, <2>2 DEF InKernel, Active
<1> QED BY <1>1, GuardAlways, PTL
-----------------------------------------------------------------------------
(* The parts of the host beside each other, as TLC explores them *)

Parts == DOMAIN Budget \cup {"engines", "accounts", "codes", "more codes", "guard", "faulty guard"}

\* A step of one part is a step of its module and leaves the variables of the
\* others alone.
LEMMA PartSteps ==
    ASSUME [MCNext]_mcVars
    PROVE  /\ [JanitorNext]_janitorVars /\ [SlotsNext]_slotVars /\ [AccountsNext]_accountVars
           /\ [InviteNext]_inviteVars /\ [GuardNext]_guardVars
           /\ part' = part
<1>1. CASE JanitorPart /\ UNCHANGED part
  BY <1>1 DEF JanitorPart
<1>2. CASE EnginesPart /\ UNCHANGED part
  BY <1>2 DEF EnginesPart
<1>3. CASE AccountsPart /\ UNCHANGED part
  BY <1>3 DEF AccountsPart
<1>4. CASE CodesPart /\ UNCHANGED part
  BY <1>4 DEF CodesPart
<1>5. CASE GuardPart /\ UNCHANGED part
  BY <1>5 DEF GuardPart
<1>6. CASE UNCHANGED mcVars
  BY <1>6 DEF mcVars
<1> QED BY <1>1, <1>2, <1>3, <1>4, <1>5, <1>6 DEF MCNext

LEMMA PartsAreTheirs ==
    MCSpec => /\ JanitorSpec /\ SlotsSpec /\ AccountsSpec /\ InviteSpec /\ GuardSpec
              /\ [](part \in Parts)
<1>1. MCInit => /\ JanitorInit /\ SlotsInit /\ AccountsInit /\ InviteInit /\ GuardInit
                /\ part \in Parts
  BY DEF MCInit, Parts
<1>2. [MCNext]_mcVars => [JanitorNext]_janitorVars
  BY PartSteps
<1>3. [MCNext]_mcVars => [SlotsNext]_slotVars
  BY PartSteps
<1>4. [MCNext]_mcVars => [AccountsNext]_accountVars
  BY PartSteps
<1>5. [MCNext]_mcVars => [InviteNext]_inviteVars
  BY PartSteps
<1>6. [MCNext]_mcVars => [GuardNext]_guardVars
  BY PartSteps
<1>7. part \in Parts /\ [MCNext]_mcVars => (part \in Parts)'
  BY PartSteps DEF Parts
<1> QED BY <1>1, <1>2, <1>3, <1>4, <1>5, <1>6, <1>7, PTL
        DEF MCSpec, JanitorSpec, SlotsSpec, AccountsSpec, InviteSpec, GuardSpec

\* Janitor, engines, accounts, codes and guard are well typed, whichever of them is
\* under way, for any threads, users, clients, visitors and addresses.
THEOREM HostTypeCorrect == MCSpec => []HostTypeOK
<1>1. /\ JanitorTypeOK /\ SlotsTypeOK /\ AccountsTypeOK /\ InviteTypeOK /\ GuardTypeOK
      /\ part \in Parts
      => HostTypeOK
  BY DEF HostTypeOK, Parts
<1> QED BY <1>1, PartsAreTheirs, JanitorTypeCorrect, SlotsTypeCorrect, AccountsTyped,
           InviteTypeCorrect, GuardTypeCorrect, PTL
=============================================================================
