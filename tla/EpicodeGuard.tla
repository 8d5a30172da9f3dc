------------------------------ MODULE EpicodeGuard ------------------------------
(***************************************************************************)
(* The bans of the guard daemon: its state file, the sets of the kernel's  *)
(* firewall, the daemon's cycle and the ban and unban commands.            *)
(*                                                                         *)
(* The daemon and the commands take turns under a file lock.  Each changes *)
(* the kernel first and writes the file after it, so that a crash or a     *)
(* failing write leaves the two different.  The kernel loses its elements  *)
(* when the firewall is reloaded; the daemon compares file and kernel every *)
(* few cycles and puts back what is missing.                               *)
(*                                                                         *)
(* The two differ in two more ways.  The file is keyed by the string that  *)
(* was given, the kernel by the address it denotes: an IPv6 address can be *)
(* spelled in several ways.  And each keeps an end of its own for a ban,   *)
(* taken from readings of the clock at different moments.                  *)
(***************************************************************************)
EXTENDS Integers, FiniteSets

CONSTANTS
    Addresses,      \* addresses that are not whitelisted
    Spellings,      \* ways to write an address
    Canonical,      \* the one that the logs, the kernel and the code print
    BAN_THRESHOLD,  \* 10 in the code
    BAN_TIMEOUT,    \* BAN_TIMEOUT_SECS, a day
    Severities,     \* multiples of it: 1, 2 and 7
    MaxTime,        \* bound: the clock
    MaxHits,        \* bound: points in the logs per address
    MaxReloads,     \* bound: reloads of the firewall
    MaxGuardFaults, \* bound: nft calls and file writes that fail, and crashes
    MaxCommands     \* bound: ban and unban commands

ASSUME GuardAssumption ==
    /\ IsFiniteSet(Addresses) /\ IsFiniteSet(Spellings) /\ Canonical \in Spellings
    /\ {BAN_THRESHOLD, BAN_TIMEOUT} \cup Severities \subseteq Nat \ {0}
    /\ {MaxTime, MaxHits, MaxReloads, MaxGuardFaults, MaxCommands} \subseteq Nat

VARIABLES
    file,      \* state.json: entries by string, and how far the logs were read
    mem,       \* the daemon's copy, from load to save
    kernel,    \* address -> when its element in ban4 or ban6 times out, or 0
    table_ok,  \* the nft table, its sets and its drop rules are in place
    daemon,    \* where the daemon is
    at,        \* its reading of the clock in this cycle
    todo,      \* entries whose address it has still to ban
    command,   \* [pc, ip, kind, at] of the ban or unban command under way
    state_lock,\* "daemon", "command" or "free"
    lines,     \* address -> points in the logs so far
    clock,     \* the time
    lost,      \* entries whose element the firewall lost or an unban removed
    cut,       \* entries whose address got a shorter timeout afterwards
    lag,       \* entry -> time from a ban command's nft call to its record
    unbanned,  \* addresses whose unban was answered with success
    aliased,   \* those of them with an entry in another spelling at that time
    since,     \* address -> points counted since then
    tally      \* [reloads, faults, commands] so far (for the bounds only)

guardVars == <<file, mem, kernel, table_ok, daemon, at, todo, command, state_lock, lines,
               clock, lost, cut, lag, unbanned, aliased, since, tally>>
history == <<lost, cut, lag, unbanned, aliased, since>>

\* What a command or a log names an address by.
Ips == [address : Addresses, spelling : Spellings]
SpellingsOf(address) == {ip \in Ips : ip.address = address}
Entry == [score : Nat, until : Nat]
NoEntry == [score |-> 0, until |-> 0]
GuardState == [ips : [Ips -> Entry], offset : [Addresses -> Nat]]
NewState == [ips |-> [ip \in Ips |-> NoEntry], offset |-> [a \in Addresses |-> 0]]
WithEntry(state, ip, entry) == [state EXCEPT !.ips[ip] = entry]
Active(state, time) == {ip \in Ips : state.ips[ip].until > time}
InKernel(address) == kernel[address] > clock
NoCommand == [pc |-> "idle"]

GuardFault == tally.faults < MaxGuardFaults /\ tally' = [tally EXCEPT !.faults = @ + 1]
FaultIf(failing) == IF failing THEN GuardFault ELSE UNCHANGED tally

\* The kernel has the address until `end` from now on, whatever it had before.
\* The histories follow: entries of the address that outlast it are cut.
Outlasts(ip, end) ==
    file.ips[ip].until > end \/ (state_lock = "daemon" /\ mem.ips[ip].until > end)
Enforced(address, end) ==
    /\ kernel' = [kernel EXCEPT ![address] = end]
    /\ lost' = lost \ SpellingsOf(address)
    /\ cut' = {ip \in cut : ip.address # address} \cup
              {ip \in SpellingsOf(address) : Outlasts(ip, end)}
    /\ lag' = [ip \in Ips |-> IF ip.address = address THEN 0 ELSE lag[ip]]
\* nft_ban: refused without a verified table, or on an error; otherwise the element
\* of the address is added, or replaced if there is one, and looked up again.
NftBan(ip, timeout, answer) ==
    \/ /\ answer = "refused" /\ FaultIf(table_ok)
       /\ UNCHANGED <<kernel, lost, cut, lag>>
    \/ /\ answer \in {"confirmed", "unconfirmed"} /\ table_ok
       /\ Enforced(ip.address, clock + timeout) /\ FaultIf(answer = "unconfirmed")
NftAnswers == {"confirmed", "unconfirmed", "refused"}
-----------------------------------------------------------------------------
(* The daemon *)

\* Mutant of LoadState: the daemon goes on with the copy of its last cycle.
LoadOnce ==
    /\ daemon = "waiting" /\ state_lock = "free"
    /\ state_lock' = "daemon" /\ daemon' = "check" /\ UNCHANGED mem /\ at' = clock
    /\ UNCHANGED <<file, kernel, table_ok, todo, command, lines, clock, history, tally>>

\* load_required reads the file again in every cycle: commands may have written it.
LoadState ==
    /\ daemon = "waiting" /\ state_lock = "free"
    /\ state_lock' = "daemon" /\ daemon' = "check" /\ mem' = file /\ at' = clock
    /\ UNCHANGED <<file, kernel, table_ok, todo, command, lines, clock, history, tally>>

\* The daemon does not start without nft_init; then every active ban is due again.
StartDaemon ==
    /\ daemon = "down" /\ state_lock = "free"
    /\ state_lock' = "daemon" /\ daemon' = "reapply" /\ mem' = file /\ at' = clock
    /\ table_ok' = TRUE /\ todo' = Active(file, clock)
    /\ UNCHANGED <<file, kernel, command, lines, clock, history, tally>>
\* What is not confirmed is a ban no more and keeps its score for a retry.
ReapplyOne(ip, answer) ==
    /\ daemon = "reapply" /\ ip \in todo /\ todo' = todo \ {ip}
    /\ NftBan(ip, mem.ips[ip].until - at, answer)
    /\ mem' = IF answer = "confirmed" THEN mem
              ELSE WithEntry(mem, ip, [mem.ips[ip] EXCEPT !.until = 0])
    /\ UNCHANGED <<file, table_ok, daemon, at, command, state_lock, lines, clock,
                   unbanned, aliased, since>>
\* Entries whose ban was over at `last` are removed.
Cleaned(last) ==
    [mem EXCEPT !.ips = [ip \in Ips |-> IF mem.ips[ip].until \in 1..last THEN NoEntry
                                        ELSE mem.ips[ip]]]
EndReapply ==
    /\ daemon = "reapply" /\ todo = {} /\ daemon' = "save" /\ mem' = Cleaned(at)
    /\ UNCHANGED <<file, kernel, table_ok, at, todo, command, state_lock, lines, clock,
                   history, tally>>

\* Every FIREWALL_CHECK_INTERVAL_CYCLES, if nft_init succeeds and the sets can be
\* listed: repair_missing_bans compares the addresses in them with the bans of the
\* file.  One that cannot be repaired stays for the next time.
SkipCheck ==
    /\ daemon = "check" /\ daemon' = "record"
    /\ UNCHANGED <<file, mem, kernel, table_ok, at, todo, command, state_lock, lines, clock,
                   history, tally>>
ListMissing ==
    /\ daemon = "check" /\ daemon' = "repair" /\ table_ok' = TRUE
    /\ todo' = {ip \in Active(mem, at) : ~InKernel(ip.address)}
    /\ UNCHANGED <<file, mem, kernel, at, command, state_lock, lines, clock, history, tally>>
RepairOne(ip, answer) ==
    /\ daemon = "repair" /\ ip \in todo /\ todo' = todo \ {ip}
    /\ NftBan(ip, mem.ips[ip].until - at, answer)
    /\ UNCHANGED <<file, mem, table_ok, daemon, at, command, state_lock, lines, clock,
                   unbanned, aliased, since>>
EndRepair ==
    /\ daemon = "repair" /\ todo = {} /\ daemon' = "record"
    /\ UNCHANGED <<file, mem, kernel, table_ok, at, todo, command, state_lock, lines, clock,
                   history, tally>>

\* New lines are scored under the address as the logs print it, entries without a
\* recent line decay, and who has no ban and the score for one is due.
Read(ip) == IF ip.spelling = Canonical THEN lines[ip.address] - mem.offset[ip.address] ELSE 0
Scored(decayed) ==
    [ip \in Ips |-> [mem.ips[ip] EXCEPT !.score =
        IF ip \in decayed /\ @ > 0 THEN @ - 1 ELSE @ + Read(ip)]]
RecordAndDecay(decayed) ==
    /\ daemon = "record" /\ daemon' = "ban"
    /\ \A ip \in decayed : Read(ip) = 0 /\ mem.ips[ip].until = 0
    /\ mem' = [ips |-> Scored(decayed), offset |-> lines]
    /\ todo' = {ip \in Ips : mem'.ips[ip].until = 0 /\ mem'.ips[ip].score >= BAN_THRESHOLD}
    /\ since' = [a \in Addresses |-> since[a] + lines[a] - mem.offset[a]]
    /\ UNCHANGED <<file, kernel, table_ok, at, command, state_lock, lines, clock,
                   lost, cut, lag, unbanned, aliased, tally>>

\* Mutant of BanOne: a ban is recorded whether or not nftables confirmed it.
BanOneUnconfirmed(ip, severity, answer) ==
    /\ daemon = "ban" /\ ip \in todo /\ todo' = todo \ {ip}
    /\ NftBan(ip, BAN_TIMEOUT * severity, answer)
    /\ mem' = WithEntry(mem, ip, [mem.ips[ip] EXCEPT !.until = at + BAN_TIMEOUT * severity])
    /\ UNCHANGED <<file, table_ok, daemon, at, command, state_lock, lines, clock,
                   unbanned, aliased, since>>

\* process_bans: a ban is recorded once the kernel has confirmed it.
BanOne(ip, severity, answer) ==
    /\ daemon = "ban" /\ ip \in todo /\ todo' = todo \ {ip}
    /\ NftBan(ip, BAN_TIMEOUT * severity, answer)
    /\ mem' = IF answer = "confirmed"
              THEN WithEntry(mem, ip, [mem.ips[ip] EXCEPT !.until = at + BAN_TIMEOUT * severity])
              ELSE mem
    /\ UNCHANGED <<file, table_ok, daemon, at, command, state_lock, lines, clock,
                   unbanned, aliased, since>>
EndBans ==
    /\ daemon = "ban" /\ todo = {} /\ daemon' = "save" /\ mem' = Cleaned(at - 1)
    /\ UNCHANGED <<file, kernel, table_ok, at, todo, command, state_lock, lines, clock,
                   history, tally>>

SaveState ==
    /\ daemon = "save" /\ daemon' = "waiting"
    /\ file' = mem /\ state_lock' = "free"
    /\ UNCHANGED <<mem, kernel, table_ok, at, todo, command, lines, clock, history, tally>>

\* A crash, or a save that fails, before or after its rename, which ends the
\* daemon: the lock goes with it.
DaemonDies ==
    /\ daemon # "down" /\ GuardFault /\ daemon' = "down"
    /\ file' = file \/ (daemon = "save" /\ file' = mem)
    /\ mem' = NewState /\ todo' = {} /\ at' = 0
    /\ state_lock' = IF state_lock = "daemon" THEN "free" ELSE state_lock
    /\ UNCHANGED <<kernel, table_ok, command, lines, clock, history>>
-----------------------------------------------------------------------------
(* cmd_ban and cmd_unban *)

\* cmd_ban sets the table up when it has to, and can.
StartCommand(kind, ip) ==
    /\ command.pc = "idle" /\ state_lock = "free" /\ tally.commands < MaxCommands
    /\ tally' = [tally EXCEPT !.commands = @ + 1]
    /\ state_lock' = "command"
    /\ command' = [pc |-> "kernel", ip |-> ip, kind |-> kind, at |-> clock]
    /\ table_ok' = table_ok \/ (kind = "ban" /\ table_ok' = TRUE)
    /\ UNCHANGED <<file, mem, kernel, daemon, at, todo, lines, clock, history>>
EndCommand == command' = NoCommand /\ state_lock' = "free"

BanInKernel(answer) ==
    /\ command.pc = "kernel" /\ command.kind = "ban"
    /\ NftBan(command.ip, BAN_TIMEOUT, answer)
    /\ IF answer = "confirmed"
       THEN command' = [command EXCEPT !.pc = "file", !.at = clock] /\ UNCHANGED state_lock
       ELSE EndCommand
    /\ unbanned' = IF answer = "refused" THEN unbanned ELSE unbanned \ {command.ip.address}
    /\ UNCHANGED <<file, mem, table_ok, daemon, at, todo, lines, clock, aliased, since>>
\* nft_unban deletes the element of the address, on a verified table, and looks
\* whether it is gone.
UnbanInKernel(confirmed) ==
    /\ command.pc = "kernel" /\ command.kind = "unban"
    /\ table_ok /\ InKernel(command.ip.address)
    /\ kernel' = [kernel EXCEPT ![command.ip.address] = 0]
    /\ lost' = lost \cup SpellingsOf(command.ip.address)
    /\ IF confirmed THEN command' = [command EXCEPT !.pc = "file"] /\ UNCHANGED state_lock
       ELSE EndCommand
    /\ FaultIf(~confirmed)
    /\ UNCHANGED <<file, mem, table_ok, daemon, at, todo, lines, clock, cut, lag,
                   unbanned, aliased, since>>
UnbanRefused ==
    /\ command.pc = "kernel" /\ command.kind = "unban" /\ EndCommand
    /\ FaultIf(table_ok /\ InKernel(command.ip.address))
    /\ UNCHANGED <<file, mem, kernel, table_ok, daemon, at, todo, lines, clock, history>>

\* The entry of the string that was given; cmd_ban reads the clock again for its end.
CommandWrites ==
    LET ip == command.ip IN
    IF command.kind = "ban"
    THEN /\ file' = WithEntry(file, ip, [score |-> BAN_THRESHOLD, until |-> clock + BAN_TIMEOUT])
         /\ cut' = cut \ {ip} /\ lag' = [lag EXCEPT ![ip] = clock - command.at]
         /\ UNCHANGED lost
    ELSE /\ file' = WithEntry(file, ip, NoEntry)
         /\ lost' = lost \ {ip} /\ UNCHANGED <<cut, lag>>
CommandSaves ==
    LET ip == command.ip IN
    /\ command.pc = "file" /\ EndCommand /\ CommandWrites
    /\ IF command.kind = "ban" THEN UNCHANGED <<unbanned, aliased, since>>
       ELSE /\ unbanned' = unbanned \cup {ip.address}
            /\ aliased' = IF \E other \in SpellingsOf(ip.address) : file'.ips[other] # NoEntry
                          THEN aliased \cup {ip.address} ELSE aliased \ {ip.address}
            /\ since' = [since EXCEPT ![ip.address] = 0]
    /\ UNCHANGED <<mem, kernel, table_ok, daemon, at, todo, lines, clock, tally>>
\* The write fails, or what follows its rename does.
CommandFails ==
    /\ command.pc = "file" /\ EndCommand /\ GuardFault
    /\ CommandWrites \/ UNCHANGED <<file, lost, cut, lag>>
    /\ UNCHANGED <<mem, kernel, table_ok, daemon, at, todo, lines, clock,
                   unbanned, aliased, since>>
-----------------------------------------------------------------------------
(* The host *)

Attack(address) ==
    /\ lines[address] < MaxHits /\ lines' = [lines EXCEPT ![address] = @ + 1]
    /\ UNCHANGED <<file, mem, kernel, table_ok, daemon, at, todo, command, state_lock, clock,
                   history, tally>>
FirewallReload(table) ==
    /\ tally.reloads < MaxReloads /\ tally' = [tally EXCEPT !.reloads = @ + 1]
    /\ table_ok' = (table /\ table_ok)
    /\ kernel' = [a \in Addresses |-> 0]
    /\ lost' = lost \cup {ip \in Ips : InKernel(ip.address)}
    /\ UNCHANGED <<file, mem, daemon, at, todo, command, state_lock, lines, clock,
                   cut, lag, unbanned, aliased, since>>
Tick ==
    /\ clock < MaxTime /\ clock' = clock + 1
    /\ UNCHANGED <<file, mem, kernel, table_ok, daemon, at, todo, command, state_lock, lines,
                   history, tally>>
-----------------------------------------------------------------------------
GuardInit ==
    /\ file = NewState /\ mem = NewState /\ kernel = [a \in Addresses |-> 0]
    /\ table_ok = FALSE /\ daemon = "down" /\ at = 0 /\ todo = {}
    /\ command = NoCommand /\ state_lock = "free"
    /\ lines = [a \in Addresses |-> 0] /\ clock = 0
    /\ lost = {} /\ cut = {} /\ lag = [ip \in Ips |-> 0]
    /\ unbanned = {} /\ aliased = {} /\ since = [a \in Addresses |-> 0]
    /\ tally = [reloads |-> 0, faults |-> 0, commands |-> 0]

DaemonNext ==
    \/ StartDaemon \/ EndReapply \/ LoadState \/ SkipCheck \/ ListMissing \/ EndRepair
    \/ EndBans \/ SaveState \/ DaemonDies
    \/ \E decayed \in SUBSET Ips : RecordAndDecay(decayed)
    \/ \E ip \in Ips, answer \in NftAnswers :
          \/ ReapplyOne(ip, answer) \/ RepairOne(ip, answer)
          \/ \E severity \in Severities : BanOne(ip, severity, answer)
CommandNext ==
    \/ \E kind \in {"ban", "unban"}, ip \in Ips : StartCommand(kind, ip)
    \/ \E answer \in NftAnswers : BanInKernel(answer)
    \/ \E confirmed \in BOOLEAN : UnbanInKernel(confirmed)
    \/ UnbanRefused \/ CommandSaves \/ CommandFails
HostNext ==
    \/ \E address \in Addresses : Attack(address)
    \/ \E table \in BOOLEAN : FirewallReload(table)
    \/ Tick
GuardNext == DaemonNext \/ CommandNext \/ HostNext

GuardSpec == GuardInit /\ [][GuardNext]_guardVars
-----------------------------------------------------------------------------
(* Properties *)

GuardTypeOK ==
    /\ file \in GuardState /\ mem \in GuardState /\ kernel \in [Addresses -> Nat]
    /\ lost \cup cut \cup todo \subseteq Ips /\ unbanned \cup aliased \subseteq Addresses
    /\ lag \in [Ips -> Nat] /\ at <= clock
    /\ state_lock = "command" <=> command.pc # "idle"
    /\ state_lock = "daemon" <=> daemon \notin {"down", "waiting"}
    /\ \A a \in Addresses : file.offset[a] <= lines[a]

\* An address whose unban was answered with success stays unbanned, in the kernel
\* and in the file, until the daemon has counted as many new points of it as a ban
\* takes: no cycle, restart or repair brings the old ban back.  Let out are the
\* addresses that had an entry in another spelling, which the unban leaves.
UnbanSticks ==
    \A address \in unbanned \ aliased : since[address] < BAN_THRESHOLD =>
        ~InKernel(address) /\ SpellingsOf(address) \cap Active(file, clock) = {}

\* A ban that the file records as active is enforced by the kernel until the end
\* that is recorded, but for the time between the two readings of the clock of the
\* command that recorded it.  Let out are entries whose element the firewall lost
\* or an unban removed, and those whose address was given a shorter timeout
\* afterwards ("nftables did not confirm enforcement").
RecordedBanEnforced ==
    \A ip \in Active(file, clock) \ (lost \cup cut) :
        InKernel(ip.address) \/ file.ips[ip].until <= clock + lag[ip]
=============================================================================
