# A formal model of the Epicode backend

Epicode is a memory service for AI agents. Besides storing and searching memories it hands out
work: an *action frontier* of tasks that agents claim, report on and lose when they fall silent, a
*drive queue* of signals in which the system says what it wants, and a background *consolidation*
that ages, quarantines and merges memories while users edit them. All of it is kept in memory and
saved from many threads, one engine per user, and a daemon guards the host. These parts carry the
state machines of the program and most of its concurrency. This directory holds TLA+ modules that
model them, TLC configurations that check the modules on small instances, and proofs that TLAPS
checks for every instance.

Paths below are relative to `backend/src/` unless they say otherwise (`guard/src/main.rs` is the
daemon's). `PROJECT.json` maps every
definition to the lines it models.

## 1. The system

| Part | State | Operations | Hard part |
|---|---|---|---|
| **Action frontier** `engine/agent_action.rs` | a table id -> action, the next id, a table of goals, each table under its own mutex | enqueue, claim, assign, heartbeat, renew, steer, pause, stop, complete, requeue, retry, escalate, cascade, prune; create, prove, close a goal | ownership, leases, dependencies and failure budgets must agree after any order of calls; goals and actions are locked one after the other |
| **Dispatch and accounting** `engine/dispatch.rs`, the action tools of `engine/mcp.rs`, the lease sweep of `engine/scheduler.rs` | worker registry; what each running call has read | propose, claim, heartbeat, complete, control, goal tools, worker tools, dispatch, sweep | every call takes several locks in turn; the sweep and the requests act on what they read before unlocking |
| **Memory rows** `domain/ops.rs`, `domain/space.rs` | a row per memory behind one RwLock: labels, validity, importance, mass, enforced, access count | typed field operations under the lock, three-way merge of a payload computed outside it | lost updates, guards evaluated on a stale copy |
| **Consolidation** `engine/governor.rs`, `engine/dream.rs`, `engine/auto_pipeline.rs`, `auto_dream` and `api_dream` of `engine/scheduler.rs` | snapshot, rows left to do, merges left to do | TTL, decay, boost, feedback, quarantine, merge of similar rows, merge of equal rows, recompute | a long sequence of locked steps driven by snapshots, against users' edits |
| **Confirmed operations** `bin/cloud/memory.rs` | one map of pending tokens for all users | dry run, confirm, bulk quarantine, bulk restore | several requests race for a token that ages; the targets are read one by one, checked before a task acts on them |
| **Drive queue** `engine/drive.rs`, `save_drive_queue` and `restore_drive_queue` of `engine/scheduler.rs`, `drive_ack` of `bin/cloud/memory.rs` | signals and their status, retry counts, the policy learned from outcomes; the tables of signals and of archived signals | check and birth, unchecked birth, acknowledge, poll, expire, archive, save, restore | saves from many threads, three writes to one save, crash, retries |
| **Knowledge graph and rows on disk** `engine/knowledge.rs`, `engine/janitor.rs`, `engine/storage.rs`, `engine/index_manager.rs` | relations, their pending delta, revision and dirty marks; the set of dirty rows | add, remove, reinforce, decay; delta save, full save; direct writes of a row, auto-save | a delta drained before it is saved; a revision that moves during the save; a copy written late |
| **Engines of the users** `engine/user_manager.rs`, `bin/cloud/helpers.rs` | slots, loading marks, engines | load, get, evict, final save | check and act under two locks; a save after the engine left its slot |
| **Accounts** `engine/user_manager.rs` | the map of accounts, `users_meta.json` and its temporary file | register, create and revoke sub-accounts, new key, delete | the file is written outside the lock, with one temporary file for all |
| **Invitation codes** `engine/user_manager.rs`, `register_user` of `bin/cloud/health.rs` | the current code, the pending and the used ones, `invite_state.json` | use, refund, generate, show | three locks taken in different orders; a save that copies the three one by one and writes in place |
| **Guard daemon** `guard/src/main.rs` | `state.json`, the daemon's copy, the kernel's sets | scan, decay, ban, repair, reapply; ban and unban commands | two processes and a firewall that others reload; the file is keyed by strings, the kernel by addresses; each keeps its own end of a ban |
| **Scheduler** `engine/scheduler.rs` | single-flight gates, tick counters | routine, cognitive and save cycles | overlap of cycles, skipped work |
| **Gateway, search, indexes** `engine/gateway.rs`, `search_engine.rs`, `hnsw.rs` | label index, vector index, dirty set | create, search, reconcile near-duplicates | numerical; the reconciliation is a user-side write over an existing row |
| **Space geometry and pulses** `domain/tetra.rs`, `vertex.rs`, `pulse.rs` | vertices, placements | place, merge vertices, propagate | floating point |
| **Authentication, MCP transport, library, LLM cognition, skills, cloud runtime, frontend, SDKs** | - | - | I/O, parsing, prompts; no protocol of their own that the parts above do not show |

How they meet: MCP requests and HTTP handlers call the frontier and the space directly, from many
threads; the scheduler of each user runs the lease sweep, the planner and the consolidation from its
cycles, each behind a single-flight gate; auto-save persists dirty rows and graph deltas. Nothing is
locked across two calls, so whatever one part decides from a read may be out of date when it acts.
That is the theme of the hazards in `PROJECT.json`.

What correctness means for each part:

* frontier: one owner per claimed action, none in the pool; claimed work rests on finished work; no
  cycle of dependencies; one action's life follows a simple life cycle whatever the others do;
* dispatch: nothing is escalated, blocked or taken away without a reason; finished goals have no live
  work; an exhausted action is always in somebody's hands; silent owners and failed dependencies
  do not leave work waiting for ever;
* memory rows: a user's edit survives any background writer; only a restore revives a row;
* consolidation: enforced rows are not ended, live rows keep a floor of importance, and of several
  copies one stays;
* confirmed operations: a token acts once, in time, for its user, and does what was previewed;
* drive queue: what was acknowledged and saved stays settled, what was learned stays learned, a stored
  signal leaves its table only for the archive, ids are not given out twice, duplicates are bounded;
* persistence: a graph that is not dirty is the graph on disk, and a row that differs from its stored
  copy is on somebody's list;
* engines: one engine per slot, a loading mark has a loader, an answered write survives eviction;
* accounts: memory and file agree on what was answered, and families stay whole;
* invitation codes: a code admits one account and is lost to nobody;
* guard: a recorded ban is enforced until its end, and an unban lasts until a new ban is earned.

## 2. Modules

| Module | What it is |
|---|---|
| `ActionFrontier` | the frontier: one action per method, under the most general client |
| `ActionLifecycle` | what the frontier promises about one action: the abstract specification |
| `ActionDispatch` | the tools and the sweep over the frontier and the registry, one step per critical section; extends `ActionFrontier` |
| `ActionFrontier_proofs`, `ActionDispatch_proofs` | theorems of these modules, checked by TLAPS; the second extends the first |
| `MemoryOps` | the field operations on a row and the three-way merge, as operators |
| `MemoryLifecycle` | consolidation and users' tools over the rows; extends `MemoryOps` |
| `ConfirmedOperations` | dry runs, tokens, confirmations and bulk routes, one step per target and lock |
| `DriveQueue` | the drive queue, its save and its restart, one step per lock or transaction |
| `JanitorSaves` | the graph and the rows of one engine, and how they reach the database |
| `EngineSlots` | the engines of the users of a process: load, slot, eviction |
| `Accounts` | the accounts of a process and the file they are kept in |
| `InviteCodes` | the invitation codes, the registrations that use them and their file |
| `EpicodeGuard` | the guard daemon, its commands, the kernel's sets with their timeouts, and `state.json` |
| `DriveQueue_proofs`, `JanitorSaves_proofs`, `EngineSlots_proofs` | theorems of these modules |
| `Accounts_proofs` | theorems of `Accounts` and of `InviteCodes` |
| `Memory_proofs` | theorems of `MemoryLifecycle` and of `ConfirmedOperations`, alone and side by side (`MCMemory`) |
| `Host_proofs` | theorems of `EpicodeGuard`, and of the five modules of `MCHost` side by side |
| `MC...` | instances for TLC; `MCHost` holds `JanitorSaves`, `EngineSlots`, `Accounts`, `InviteCodes` and `EpicodeGuard` side by side, `MCMemory` the rows and the confirmed operations |

### The frontier

`actions` is the table: an id not in the map has state `absent`. A record keeps the owner
(`claimed_by`, `assignee`), the lease and the backoff, the two failure counters, the escalated and
paused flags, the number of undelivered steer notes, the dependencies and the goal. Names, labels, priorities, evidence and
text are left out: no guard of a transition but the evidence gates reads them, and a gate that may
refuse is a call that does not happen. Deadlines are the ticks left, and `Tick` takes one off each,
so the clock is finite. A method whose guard fails returns an error and changes nothing: its action
is not enabled. `prove_goal` and `maybe_close_goal` hold the goal lock and the action lock in turn,
so they are two actions each.

The closure over dependencies (`Upstream`, `Doomed`) is the least set closed under the step the code
takes, written with quantifiers: `validate_deps` walks the graph upstream and
`cascade_dep_failures` iterates to a fixed point.

### The calls

`calls[p]` is what process `p` holds between two locks: where it is (`pc`), the action, goal, worker
and failure kind it works on, and the actions left to sweep. `CompleteCheck`, `CompleteCommit`, `CloseCheck`, `Close`,
`Account`, `AccountRequeue`, ... follow `tool_action_complete` and `account_failure_kind` from lock
to lock; `SweepStart`, `SweepNext`, `SweepSettle` follow `sweep_expired_leases`. The sweep is one
process: `cycle_gate` admits one routine cycle at a time. `MaxBusy` is the number of calls that may
be in flight: 1 is one call after the other.

### The rows

A row keeps labels, validity, importance (hundredths), mass (hundredths), `enforced` and the access
count. `Patch` is the merge of `Space::patch_payload`; the fields left out merge as those kept.
`cycle` is the consolidation in progress: the phase, the snapshot it works from, the rows and merges
left. A user's tool reads a row, and its `PatchBack` writes the difference later. Ages, similarity
and the class of a row are constants of the instance; the value a decay comes to and the change a
feedback makes are chosen from small sets. Energy and the time since the last dream may stop a cycle
before the dream, whatever the rows are: `SkipDream`.

`find_merge_candidates` lists the rows of a hash map, so in any order (`Lists`), and pairs each with the first later match. Which
pairs it finds depends on its snapshot alone; the model therefore finds each one when its turn to be merged has come (`FirstMatch`
among the rows `cycle.todo` that are neither passed nor removed), from the snapshot taken when the search began. The pairs and
their order are those of the code's two loops, and no recursive definition stands between a step and its proof.

### Confirmed operations

A memory is what the operations test and write: its protection (none, the label `identity`, `enforced`) and whether it is quarantined
or forgotten. `sessions[s]` is a request: a dry run reads its targets one by one (`PreviewTarget`) and stores a token
(`InsertToken`, after the sweep of old ones); `OperationsConfirm`, `BulkQuarantine` and `BulkRestore` take a token
(`TakePendingOp`), check the targets one by one and then read and patch them in turn. A refusal that changes nothing is a step not
taken; one that removes the token is `TokenExpired` or `RefuseProtected`. `previews` and `executed` record what was answered
and taken; no action but `InsertToken`, which numbers the tokens, reads them.

### The drive queue

`queue` is the table of signals in memory, `disk` what the two tables and the policy hold, `calls[c]`
where a caller is. `BirthCheck` and `BirthEnqueue` are `should_birth` and `try_enqueue`, two locks;
`AckRead` is what `drive_ack` reads before it acknowledges, `AckMark` the acknowledgement. A save is four
steps under `gate`: `SaveArchive`, `SaveSnapshot`, `SaveSignals`, `SavePolicy`; `Answer` tells the
caller when all are over and lowers the evidence of a dead letter. `ledger` remembers what callers
were told; no action reads it. `Crash` forgets the memory, and `Restart` reads the ids, the signals
and the policy, each of which may fail; the code logs such a failure and goes on, so the
properties hold until a start-up has misread (`misread`). Signals are identified by a fingerprint and
their evidence; drives, strengths and texts are left out, except that a text may contain the word
`Executed`, `Rejected` or `Expired` (`Mentions`). That is what `archive_old_drive_signals` looks for, and
since a status is stored in small letters (`drive.rs:546`) no row is moved for its status, a settled one
as little as a live one.

### The saves of an engine

A relation is a level of strength, 0 when it is absent; concepts are a version number. A change holds the
relations' lock until it has queued its row of the delta (`QueueChange`) and raised the revision
(`CountChange`), except reinforcement, which lets the lock go first. A save takes the revision
(`BeginPersist`), drains the delta, writes it or, when it is too large or was not complete, the whole
graph (`SaveDelta`, `SaveFull`), and clears the mark if the revision has not moved (`MarkDelta`, `MarkFull`). Rows
are version numbers, written directly or by `AutoSave`. Every transaction may fail. `holes` names hazards
that have happened: *overlapping saves*, *lost delta*, *stale reinforcement*, *unmarked upsert*. They are
weaknesses of the code met while modelling; a property that lets one out says so.

### Engines, accounts, codes, guard

`EngineSlots` follows `AuthedEngine`, `get_engine`, `get_engine_inner` and `evict_idle_with` from lock to lock.
The table of a user is the set of memory ids in it; the final save of an engine removes from it what the
engine does not know, since `save_tetrahedrons_tx` archives such rows.

`Accounts` keeps of an account its parent, its list of sub-accounts and its key. A change (`ChangeUsers`)
takes effect in memory and holds a copy of the map; then `OpenTmp`, `WriteTmp` and `RenameTmp` write that copy.
The temporary file is one for all: a writer whose file was renamed under it writes on into
`users_meta.json`, two writers may leave a mix that does not parse, and a writer may find nothing to
rename. A failed write ends in `RollBack` or, for the operations that take nothing back, `LeaveUnsaved`.
`answered` is what the last change that was answered said of an account.

`InviteCodes` counts how often a code is pending and used. `visits[c]` is a request: one that uses a code
(`TakeCode` and `TakeUsed` for a pending one, `MatchCurrent` and `Rotate` for the current one), registers with it
(`MakeAccount`) and gives it back when that fails (`RefundUsed`, `GiveBack`); one that generates or shows a code. Each
change ends in `save_invite_state`: three reads, then a write in place (`OpenInvites`, `WriteInvites`) that may fail, be cut off
by a crash or mix with another. `Holds` and `Wants` are the lock a request keeps while it waits for the next one. `LoadCodes`
reads the file twice. `strays` names what has happened to it: *overlap*, *failed save*, and *loss* for a restart after one of them.

`EpicodeGuard` has the daemon's cycle (load, check of the firewall, repair, scan and decay, bans, save), each
`nft_ban` a step of its own, the ban and unban commands under the lock of the state file, and a host whose logs grow,
whose firewall is reloaded and whose clock ticks. Scores are counts of points in the logs. The file and the kernel differ in two
ways that the model keeps:

* *Names.* `file.ips` has an entry for each string (`Ips`: an address and how it is spelled), `kernel` one for each address.
  The logs print one spelling (`Canonical`); the commands take any. `SpellingsOf` is the comparison by the parsed
  address that `nft_ban`, `nft_unban` and `missing_bans` make, and the removal of an entry goes by the string.
* *Ends.* An entry has `until`, which the code compares with its own reading of the clock (`at`, one per cycle), and an
  element of the kernel has the time at which it goes by itself. `NftBan` adds the element or replaces it with its new timeout, longer or
  shorter; it may be refused, and it may succeed and not be confirmed.

`SaveState` that fails, before its rename or after it, ends the daemon (`DaemonDies`); a command's (`CommandFails`) answers an error.
`lost`, `cut` and `lag` record what became of an entry's element since it was put in: removed by a reload or an unban,
given a shorter timeout, put in some time before the entry was written. `unbanned`, `aliased` and `since` record what
an unban answered. No action reads these.

## 3. What the runs check

| Run | Instance | Properties |
|---|---|---|
| `frontier` | one action under every method, and three actions under the methods about dependencies; two workers | `TypeOK`, `OwnershipConsistent`, `ClaimedDepsDone`, `NoDependencyCycle`, `ImplementsLifecycle` |
| `dispatch_serial` | two actions, a goal, calls one after the other | five statements taken from the code's comments: `BlockedForAReason`, `NoLiveWorkInFinishedGoal`, `NoEscalationWithoutFailure`, `PoolCanRun`, `SweepRespectsLease` |
| `dispatch_interleaved` | one action, two requests and the sweep interleaved | `ExhaustedIsAccounted`, `BudgetOverdraftBounded`, `ImplementsFrontier` |
| `dispatch_liveness` | two dependent actions, a request and the sweep interleaved, under fairness | `CapExcessBounded`, `SilentClaimsMoveOn`, `DoomedAreBlocked` |
| `memory_lifecycle` | two duplicate rows, one consolidation, two tool calls, interleaved; beside it two requests of two users with two dry runs over three target lists | `MCTypeOK`, `UserLabelsSurvive`, `OnlyRestoreRevives`, `EnforcedKeepsValidity`, `LiveFloor`; `ConfirmedAsPreviewed` |
| `drive_queue` | two callers, two signals with and without evidence; three profiles: callers racing, a crash, reads and writes that fail | `DriveTypeOK`, `AnsweredStaysSettled`, `LearnedClosesValve`, `DuplicatesBounded`, `PenaltyOnlyForDeadLetters`, `StoredIsKept`, `IdsNeverReused` |
| `host` | the five modules of `MCHost`, one at a time | `HostTypeOK`; `CleanIsSaved`, `RowsTracked`; `MarkHasLoader`, `WritesKept`; `AnsweredIsStored`, `FamiliesWhole`; `EachCodeOnce`, `OnlyRefundsBlock`; `UnbanSticks`, `RecordedBanEnforced` |
| `hasty_cascade` | calls interleaved | violates `BlockedForAReason` |
| `finished_goal` | calls interleaved | violates `NoLiveWorkInFinishedGoal` |
| `stale_sweep` | calls interleaved | violates `SweepRespectsLease` |
| `merge_ends_both` | two duplicate rows, one consolidation, no user | violates `OneCopyStays` |
| `second_engine` | two requests for one user | violates `SlotNeverReplaced` |

`ImplementsLifecycle` and `ImplementsFrontier` are refinements. The first maps the table to a phase
and a holder per action and says that every method is a step of `ActionLifecycle` for each action.
The second says that the tools touch the frontier only through its methods, so what is proved of
`ActionFrontier` holds under every interleaving of calls.

`dispatch_serial` and the three violating runs on `MCActionDispatch` belong together: called one after the other the
tools keep the five promises; interleaved they break each. `dispatch_serial` alone says nothing about overlapping calls:
only the clock ticks within a call.

* **`hasty_cascade`**: `complete_as` leaves a failed action terminal; before the caller requeues it,
  the cascade of another call takes it for a failed dependency and blocks its dependents. The
  requeue does not reopen them.
* **`finished_goal`**: a proposal checks that the goal is open, the goal is achieved and its work
  cancelled, and then the proposal enqueues.
* **`stale_sweep`**: the sweep lists an expired claim, its owner renews the lease and is told so,
  and the sweep requeues the action all the same.

The other two statements are broken by the same gap between the sweep's list and what it does with it, which TLC
finds in a second when they are checked with calls interleaved:

* the sweep lists an expired claim whose requeue budget is used up, the action is stopped or finished, and the sweep
  escalates it all the same: `escalate` looks at no state (`NoEscalationWithoutFailure`);
* the sweep lists an expired claim, the claim is paused, and the sweep requeues it, still paused: who claims
  it next holds a claim that is paused from the start (`PoolCanRun`). The other half of `PoolCanRun` breaks when an upstream
  action is pruned while its failed dependent awaits its requeue.

The requeue budget, too, is exceeded when calls interleave, by no more than the one requeue for each request in flight that
`BudgetOverdraftBounded` allows.

* **`merge_ends_both`** needs no second actor. The dream keeps the *heavier* of two duplicates and
  supersedes the other; later in the same cycle the governor keeps the *newer* one, without looking
  whether it is still live, and supersedes the copy the dream kept. Both end superseded, and the
  label `superseded` has been copied to the kept row as one of the merged labels.

* **`second_engine`**: `AuthedEngine` reads that a user has no slot, another load finishes and gives its
  mark back, and the request takes the mark without looking at the slot again: it builds a second
  engine and puts it in the place of the first, which is neither saved nor shut down.

What the passing runs of the persistence show with their let-outs: the graph's marks are right as long as
saves do not overlap and no save fails twice in a row; a row is never forgotten but by the writers that store it themselves and do not mark it dirty
(`decay_evidence`, the bulk and the confirmed quarantines and restores at `bin/cloud/memory.rs:1988`, `2138`, `3951` and `3970`, the self-exploration at `engine/scheduler.rs:2412`); answered
writes survive eviction unless a user had two engines at once; an account file is right for every
change that had no other beside it, and torn only by changes that had; an invitation code is in circulation, in one
hand or used for one account, but for a restart after saves that overlapped or failed; a recorded ban is enforced to its end unless its
element was lost or its address given a shorter ban since, and an unban lasts unless the address had an entry in another spelling. The let-outs are the named cases above, each commented at its definition with the code it comes from.

Recorded, without a run of their own: `refund_invite_code` and `use_invite_code` take the locks of the used
and the pending codes in opposite order, so that a refund and a registration can wait for each other for good: `InviteCodes`
reaches that state, and `OnlyRefundsBlock` says that nothing else blocks;
an IPv6 address that is banned in one spelling and unbanned in another leaves the kernel and keeps its entry in the file
(`cmd_ban` and `cmd_unban` take the string as it is, `guard/src/main.rs:1702` and `1738`): the command answers `Unbanned` (1744), and the
next start of the daemon, or its next repair, bans the address again (`EpicodeGuard` reaches it, `UnbanSticks` lets it out as `aliased`);
`delete_user` removes a main account and leaves its sub-accounts with a parent that is not there, the permanent orphans that
`create_subaccount` and `revoke_subaccount` take care not to leave (`FamiliesWhole` lets it out as *family deleted*);
a ban command over a longer ban shortens the ban in the kernel before the file knows, and if its save fails
only the repair of a later cycle puts the rest of the longer one back; the handler of `drive_inbox` says that polled signals
are marked as delivered (`bin/cloud/memory.rs:1801`), and nothing marks them; `memory_restore` clears `valid_to` but leaves the label
`superseded`, so the row still counts as superseded; `api_forget_memory` tests `enforced` before it
writes, and a confirmed operation tests the protection of all its targets before it writes the first, so a target protected in between is
changed all the same; a memory that is forgotten already can be deleted again, and every confirmed deletion lowers the count
of memories, which `bin/cloud/memory.rs:4003` says is for memories that *were actually deleted*; `gc_pending_ops`, which its comment
says every confirmation calls, is called by dry runs only; the confirmed quarantine and the LLM's `mark_junk` lower a live row to 0.1, below the floor of
0.3 that `engine/governor.rs` names for quarantine; `cognitive.rs` speaks of mass 0.05 where the
operations clamp it at 0.1; `docs/2026-10-01-system-deduction-v2-micro.md:88` says merged rows are purged where the
code supersedes them.

### Bounds

* `MaxActions`, `MaxGoals`: ids handed out. Three actions give chains, diamonds and cycles of every
  shape; two give an upstream and a dependent; one is enough for what concerns a single action.
* `Lease`, `BackoffBase`, `BackoffMax`, `Blacklist`: ticks; one tick separates *before* from *after*.
* `MaxRequeues`, `MaxTransientRetries`: 0 or 1, so that the last allowed attempt and the one refused are
  both reached; in `dispatch_interleaved` the budget is 2, so that three calls can decide on one requeue and the overdraft
  reaches its bound. `CountMax` is the width of the counters: in the dispatch runs it is above what the budgets
  allow, in `frontier` the saturation itself is reached.
* `MaxOpen`: the cap; it is 1 for two actions in `dispatch_liveness`, where `CapExcessBounded` needs it to bind.
* `MaxSteer`: undelivered notes; steering changes nothing else, so `frontier` has one and the others none.
* `Handlers`, `MaxBusy`: two requests and the sweep; every race above needs two or three parties.
* `PruneIds`: the ids old enough for retention.
* `MaxCycles`, `MaxCalls`: one consolidation and two tool calls: a call that reads before a step and
  writes after it, with a second user in between.
* `DecayTo`, `Adjustments`: one value each, below the floor and across it.
* `InitRows`: a heavy old row, read often or not, beside a light new one that is important or nearly
  forgotten. Both pass every age, one is of the episodic and one of the session class, so that decay,
  boost, zombie and TTL all occur. In `merge_ends_both` both are permanent, so only merging acts. With two rows of
  different age the order of the governor's list makes no difference; the theorems are for any rows, orders and ages.

* `Callers`, `MaxId`, `MAX_QUEUE_SIGNALS`, `MAX_RETRIES`: two callers, two signals, one retry. `MaxAcks`, `MaxCrashes`,
  `MaxFaults` are set per profile in `MCDriveQueue`; the profile with faults has one call at a time and one signal, since a fault
  combines with a crash rather than with a race.
* `Sessions`, `Owners`: two requests race for a token, and a token may be presented by another user. `MCTargetLists`: two lists that differ
  in order, one within the other; `OP_TOKEN_TTL_SECS` is one tick, `MaxTokens` two dry runs, `MaxEdits` one change of protection or one restart.
* `Threads`, `Edges`, `Rows`: two of each; `MAX_DELTA` is 1, so that a delta of two is too large. The four profiles of
  `MCHost` spend changes of the graph, faults and changes of rows; two faults in one save need two changes.
* `Requests`, `Users`: two; `MAX_USERS` is 2, so that full slots evict; three engines give a load, an eviction
  and a reload beside another user.
* `Clients`, `Ids`: two accounts make a family; three changes are one that is answered and two that cross. The properties
  also hold for three clients and three accounts.
* `Visitors`, `MaxCodes`: two requests; two codes, one current and one new, with a crash and a failure, and three codes, so that
  both requests make one or a rotated code is used in turn, without.
* `Addresses`, `Spellings`: one address, since the daemon treats each on its own, in two spellings, each of which may have an entry.
  `BAN_TIMEOUT` is 1 and the severities 1 and 2, `MaxTime` 2: a ban that outlasts another, a ban that ends, and a clock that ticks between any two steps.
  `BAN_THRESHOLD` and `MaxHits` are 2: points that earn a ban, or one read before an unban and one after it. Two commands are a ban and an unban, or two bans
  of one address; with a failing call, write or crash there is one, beside the daemon's own bans. A reload may come in both.

Symmetry is used for workers, requests, users with tools, callers, sessions and their owners in runs without liveness. Deadlock is checked in the
frontier and dispatch runs; the others stop when the cycles, calls, changes and faults of the instance are spent.

### Fairness

`FairDispatchSpec` assumes that a call which has begun goes on (threads run, and no lock is held
across calls), that the clock ticks, and that the scheduler keeps calling the sweep: `run_commit_cycle` does so on
every routine cycle. No fairness is put on workers, so that silence is possible, nor on starting
calls, nor on the drafts of a proposal.

## 4. What is proved

`ActionFrontier_proofs` proves, for any numbers of actions, goals and workers, any lease, backoff,
cap and counter width:

* `TypeCorrect`: `Spec => []TypeOK`. One step per method; the lemmas say what each record operator
  (`AsClaimed`, `AsRequeued`, ...) returns, `UpdateType` and `TableType` carry a change of one record
  or of the table over to the invariant. `BackoffCapped` and `BumpedInRange` hold the arithmetic:
  the doubled backoff stays under its cap, a counter saturates. The last conjunct of `TypeOK` (ids not handed
  out are absent) is what makes `Enqueue` inductive.
* `OwnershipSafe`: `Spec => []OwnershipConsistent`, inductive together with `TypeOK`. The property of one
  record is named `OwnedRight` in the proof, so that each operator is treated once.
* `ClaimedWorkIsReady`: `Spec => []ClaimedDepsDone`. It is inductive together with `TypeOK`: every
  method that moves an action out of `done`, drops it, or gives a claimed action new dependencies must be
  excluded by its guard. The delicate step is `Prune`, which keeps what a live action refers to.
* `DependenciesAcyclic`: `Spec => []NoDependencyCycle`. A proposal closes no cycle only because nothing can depend on an
  id that was not handed out: `DepsHandedOut` is the strengthening. The lemmas on `Upstream` say that it holds what it starts from, is
  closed, and is the least such set; an edit of one action then leaves every cycle without it as it was.
* `FrontierImplementsLifecycle`: the refinement, each method a step of the life cycle for every action at once.
* `FreshActionsWithinCap`: the live actions that were never put back stay within `max_open`.

The assumptions are those of the module: the bounds are naturals, a lease lasts at least a tick, and
`None` is neither a worker nor a number.

`ActionDispatch_proofs`, for any number of requests in flight (`MaxBusy`), any handlers, admins, tools and budgets. The steps of
a call are put into a few classes first (`DispatchSteps`): one that calls a quiet method, the commit of `action_complete`,
the decision of the accounting, and its application.

* `DispatchTypeCorrect`: a call has the action, the worker and the goal that its next step reads.
* `DispatchImplementsFrontier`: every step is a method of the frontier or leaves it alone. With it the theorems above hold
  of the tools and the sweep under every interleaving, and `CapExcessSafe` (`CapExcessBounded`) follows from `FreshActionsWithinCap`.
* `ExhaustedNeverForgotten` (`ExhaustedIsAccounted`): inductive with the types. Whatever other calls do to the action between
  the transition and its accounting, the call that holds it is there as long as the action needs it.
* `OverdraftBounded` (`BudgetOverdraftBounded`). The bound on what is spent is not inductive: a decision taken within the
  budget is applied later, whatever was spent meanwhile. `BudgetWithDeciders` counts the decisions not yet applied with it; there is one process
  more than there are handlers, the sweep, and one decision can find at most one held by every other process.
* `SerialBlockedForAReason`, `SerialGoalsFinish`, `SerialEscalatesFailures`, `SerialPoolCanRun` and `SerialSweepRespectsLease`: the five statements of
  `dispatch_serial`, each under the hypothesis `MaxBusy = 1`, that is, calls one after the other, with the clock ticking between any two steps. Without it
  three of them are refuted by `hasty_cascade`, `finished_goal` and `stale_sweep`. `SerialCallsFit` proves the invariant they share, `SerialInv`: at
  most one process is in a call, and of that call `StillTrue` says that what it read under a lock it released is still so (the goal it
  proposes for is open, the goal it closes has nothing live, the claims on the sweep's list have expired, the action it accounts for
  may go back as it is), `Reasons` that no blocked action depends on this call for its reason (a dependency being
  accounted for may come back, so it does not count), `Served` that only the goal it is about to cancel has work left, and `Records` that what is escalated or
  paused is where it can be and live work has its dependencies in the table. `Records` and `Reasons` need each other: an escalated action that goes back to the pool would
  take its dependents' reason away. The steps rest on what holds under every interleaving (`Sound`): the
  dependencies of a claimed action are done, so a cascade dooms open actions only (`DoomedIsOpen`), and a new action is nobody's dependency yet.

`DriveQueue_proofs`, for any callers, fingerprints, ids, retries and bounds of crashes and faults:

* `DriveTypeCorrect` (`DriveTypeOK`), from `DriveTyped`, which adds the type of what each caller holds and which places are under the gate.
* `StoredSignalsKept` (`StoredIsKept`) and `SignalIdsFresh` (`IdsNeverReused`). `IdsKept`: what is stored is still in the queue or
  archived, also in a snapshot on its way to the disk, and every archived id was given out by this counter.
* `AnswersStaySettled` (`AnsweredStaysSettled`) and `OnlyDeadLettersPenalised` (`PenaltyOnlyForDeadLetters`). `SettledKept` says of the queue, of
  every snapshot and of the disk that they hold settled what was answered, and what a call that has come past them settled; `SeenBehind`, that the retry count
  an acknowledgement has read is not above the signal's, so that the handler's decision agrees with the queue's.
* `SuccessClosesValve` (`LearnedClosesValve`), from `LearnedKept`: policy and stored policy count every answered success, and the
  policy that of a call on its way to its answer.
* `RacingProducersBounded` (`DuplicatesBounded`), from `LiveBounded`: no snapshot and no table holds more live signals of one fingerprint than there
  are callers, so that a restart, which also frees all callers, keeps the bound.

`JanitorSaves_proofs`, for any threads, relations, rows and bounds:

* `JanitorTypeCorrect` and `NoRowForgotten` (`RowsTracked`). The invariant `JanitorIInv` adds `Ways`: which places in
  the code belong to which operation, so that a thread that has copied a row is known to be one that will mark it.
* `CleanGraphIsSaved` (`CleanIsSaved`). `SavesIInv`: as long as none of the three hazards has happened there is one save at a time
  (`OneSave`), the change of every relation is queued, drained or stored unless a save of the whole graph is ahead (`OnItsWay`,
  `WholeSaveAhead`), each save holds what its place says (`SaveOK`), and a graph that differs is dirty or being changed.

`EngineSlots_proofs`, for any requests, users and bounds:

* `SlotsTypeCorrect`, `MarksHaveLoaders` (`MarkHasLoader`) and `AnsweredWritesKept` (`WritesKept`). `SlotsIInv` adds
  `OneEngine` (a user that never had two engines at once has at most one alive, and a loader that builds finds none) and `Kept`
  (the engine alive knows every answered write, also one that is being saved).

`Accounts_proofs`, for any clients, accounts and bounds:

* `AccountsTyped` (`AccountsTypeOK`), `FamiliesStayWhole` (`FamiliesWhole`) and `AnsweredAreStored` (`AnsweredIsStored`). `AInv` says
  of every copy there is, in memory, in the hands of a client, in the temporary file and in `users_meta.json`, what the two properties
  say of memory and file: its families are whole (`Families`), and it agrees with what was answered (`Copies`), which speaks of no account
  whose change is still under way (`Undecided`). A change that was not crossed is alone, memory is its copy and the file is as it was when
  it began (`Alone`): that is why its answer, or its rollback, is true of both.
* `EachCodeAdmitsOnce` (`EachCodeOnce`) and `InviteTypeCorrect`, for any visitors and codes. `InviteInv`: as long as nothing was
  lost each code is in one place, a code that was taken is among the used ones, and a process that is down has everything in its file (`Conserved`); as long as
  nothing overlapped and nothing failed, one change or save is under way, what it has copied is what the lists are, and so is the
  file between them (`OneByOne`): a crash then loses only what a request had in hand, and that is counted as a loss.
* `BlockedBehindRefunds` (`OnlyRefundsBlock`), `OnlyARefundDeadlocks` and `ListLocksExclusive`. The locks are locks: no two requests are past the
  acquisition of the same one (`LocksExclusive`, inductive with the shape of the visits). Among requests that all wait for each other, however many,
  one is a refund that holds the used codes (`Knot`): every other holder waits for the used codes, which come last in the order
  of the locks. The run checks the same of two requests; both follow from the places where the code keeps one lock while it takes the next.

`Host_proofs`, for any addresses, spellings, lengths of bans and threshold, and any constants of the modules beside:

* `GuardTypeCorrect` (`GuardTypeOK`), `RecordedBansAreEnforced` (`RecordedBanEnforced`) and `UnbansStick` (`UnbanSticks`). `GuardIInv` says who
  holds the lock of the state file (`LockRules`), that no entry, in the file or in the daemon's copy, has read past the end of the logs
  (`Offsets`), that the element of every entry that is neither lost nor cut lasts as long as the entry less its lag, in the file, in
  the copy of a daemon that holds the lock, or about to be written by a command (`Enforcement`), and that an unbanned address with no other
  entry and fewer new points than the threshold is not in the kernel and has no active ban and no more score than those points, under any
  spelling, in file and copy (`Unbanning`): that is why it cannot be banned again. `BanCall` and `BanCallCovers` say once what a
  call of `nft_ban` does to the entries of its address and leaves of the others.
* `HostTypeCorrect` (`HostTypeOK`). A step of `MCHost` is a step of one of the five modules that leaves the variables of the others alone
  (`PartSteps`), so its specification implies each of theirs (`PartsAreTheirs`), and every theorem about one of them holds of the
  specification that TLC explores; the type invariant puts five of them together.

`Memory_proofs`, for any rows, users, cycles and calls, any sessions, owners, targets and lists of them:

* `LabelsOutliveSnapshots` (`UserLabelsSurvive`), `EndedStaysEnded` (`OnlyRestoreRevives`), `EnforcedStaysValid` (`EnforcedKeepsValidity`) and
  `FloorHolds` (`LiveFloor`). Each is an action property, one step per phase of the cycle and per tool. `RowsInv` is what they need to know of the
  state: the snapshot of a cycle and the copies of a call are rows, and what a call will write differs from what it read only as its tool
  changes it (`CallsShape`), so that the three-way merge of `Patch` carries no more than that difference over to a row changed meanwhile.
* `ConfirmationsHold` (`ConfirmedAsPreviewed`) and `OperationsTypeCorrect`. `OpsInv`: a token in the table is one of the previews, with the operation
  previewed, and not yet taken (`TokensKnown`); the tokens taken are different ones, below the next to be given out (`TakenOnce`); a request that acts does what
  the preview of its token says, and one that got past the check is not critical (`RequestsKnown`).
* `MemoryTypeCorrect`, and `BothTypesCorrect` (`MCTypeOK`) for the two modules side by side. `TypeInv` adds to `RowsInv` the type of every field of
  the cycle and which of them each phase may rely on (`CycleTyped`), and that what a call read and what it will write are rows of the full type
  (`CallsTyped`). The lemmas `FieldsTyped`, `MarksTyped` and `PatchTyped` say that each operation of `domain/ops.rs`, and the three-way merge of any three rows, gives a row
  with its importance, mass and labels in range; the arithmetic (clamps, the factor 0.15, the cap of the boost) is in lemmas of its own.

Every assumption these theorems rest on is a named `ASSUME` of the module it is about: bounds are naturals, the sets of processes whose
cardinality a property counts are finite, and values that stand for *nothing* are not among the others.

Model-checked only:

* liveness under fairness, and what depends on ENABLED: that claims which fall silent move on and doomed actions are
  blocked (`SilentClaimsMoveOn`, `DoomedAreBlocked`);
* the runs that expect a violation.

## 5. What is not modelled

Restart of the frontier: `restore` and the snapshots that are saved (`Save` in `ActionDispatch` is the step, without
the stored copy). The planner pass and `drive_to_actions` (they reach the frontier through the same
methods). Outcome memories, evidence gates, drafts, capabilities of workers. The LLM-driven consolidation,
healing, scavenging, eviction and digestion: they write rows with the same operations. Content,
embeddings and every index. The weights of the drive engine and the ids it has ingested. The
counts of memories and their limits (loading an engine overwrites a count by the number of rows, so the code keeps no
bound on them), roles and permissions. The guard's log parsing, whitelist, honeypot and telemetry. The parts in the last rows
of the table of section 1, for the reasons in `PROJECT.json`.

## 6. Plan

Done: the modules of section 2 and the proofs of section 4.

Next, in this order:

1. `drive_to_actions`: the composition of `DriveQueue` and `ActionDispatch`, with the double spending of a signal.
2. Restart of the frontier and the planner pass in `ActionDispatch`.
3. Proofs: the restart of the frontier with its snapshots; the double spending of item 1.
