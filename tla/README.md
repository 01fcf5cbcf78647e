# AIPass: TLA+ models, checks and proofs

AIPass is a local-first manager of AI credentials. An agent process per device
holds an end-to-end encrypted vault, synchronizes it with the user's other
devices through a folder, WebDAV or CloudKit, serves a local proxy with the
credentials in it, and writes them into other tools' configuration. This
directory models the parts of the agent whose correctness depends on the order
in which things happen: what a crash, a disk error, a lost answer or a
concurrent request can do to the vault, to its copies, to the routing of
requests, to the logins of other tools and to conversations that outlive a
request.

## Inventory

| Component | State | Operations | What is hard |
|---|---|---|---|
| Vault (`aipass-vault`, `aipass-storage`, `aipass-crypto`) | manifest (key and password wrappers), encrypted record, grant, device and audit files, the journal `pending-sync.aipsnapshot` | create, open, recover, edit, tombstone, apply a snapshot, rotate the epoch key, change password, revoke a device, expire audit events | a whole-vault change is many file writes; a failed rollback; keys in memory against keys on disk |
| Agent session (`session.rs`, `session/locking.rs`) | locked or unlocked with a `Vault`; one mutex | unlock, lock, recover, `with_vault`, `with_vault_mut`, create, reset | requests that find a journal; a second `Vault` opened on the same directory |
| Snapshot synchronization (`vault_sync.rs`, `vault_sync/storage.rs`) | per target: checkpoint, cache, outbox, compaction journal, conflict list | run (queue, flush, list, merge, publish, save), resolve, bootstrap, stage on lock | runs interleave with edits and locks; separate files that must agree; lagging listings; lost answers |
| Sync watcher (`sync_watch.rs`) | per thread: debounce instants, retry and next-run deadlines, a stop flag | notice events, stamps and wake-ups, start a run, restart with new settings | timers postponing each other; a replaced thread that is not joined |
| CloudKit migration and retention (`cloudkit_retention.rs`, `storage/cache_retention.rs`) | remote history, cache, account binding | migrate, prune the remote history, prune the cache | deleting what an offline device still needs |
| Proxy selection and health (`aipass-proxy`: `selection.rs`, `routing.rs`, `concurrency.rs`) | circuit and rate-limit deadlines, recovery probe, affinity, permits per provider | choose, try, succeed, fail, rate-limit, tick | one probe per recovering target; cancelled requests; stale health after a new configuration |
| Proxy forwarding (`forward.rs`, `sse.rs`, `runtime.rs`) | in-flight requests, configuration generation | forward, fail over, stream, replace configuration | replay of a request that may have been executed; streams that outlive their target |
| Websocket bridge (`websocket/bridge.rs`) | lanes, a queue, running responses, the last response of each lane | accept, dispatch, forward, answer, fork, close | history only one account can read; limits; failures that must free their lane |
| Websocket capability (`websocket/capability.rs`, `proxy_service.rs`) | evidence against a provider's support, the stored preference, pending saves | observe, confirm, refute, save, reload, restore after a restart | stale evidence; a write that reports an error and was committed |
| Claude bridge (`claude_bridge.rs`, `claude_bridge/`) | a table of processes of the official tool, parked tool calls, encrypted checkpoints | open a turn, return results, evict, reap, revoke, save and restore a checkpoint | processes that outlive a turn; deadlines of a helper; transcripts two processes share |
| Tool transactions and switching (`aipass-config-writers`, `tool_switch*`) | encrypted transaction files, other tools' credentials, the vault's references to them | prepare, apply, commit, restore, recover, roll back | external writers; crashes between files; grants that rotate |
| Subscriptions and OAuth | tokens in the vault | renew, import | single-flight renewal, write-back to a locked vault |
| IPC, CLI, native host, MCP proxy, updates, power, user interfaces, provider tables, format conversion | little or none of their own | | not ordering problems |

Interaction: every request and every background job reaches the vault through
the session mutex (`AgentState::session`). A sync run takes the mutex twice, to
queue local changes and to merge; between them, while it sends, lists and
downloads, the session is free. `sync_lock` keeps two runs, or a run and a
conflict resolution, apart. Locking the session stages pending changes for the
target first, under the mutex, while a run may be sending. `PROJECT.json` lists
each component with its status and each hazard at its line.

What makes each part correct: the vault is readable only as one whole version,
and an accepted password keeps opening it; no edit is lost without the user
having chosen so; no device goes back to an older value; devices that stay
online agree; an interrupted step can be retried. In the proxy: one probe per
recovering target, exact occupancy within the limit, no binding to a banned
target, no replay of an executed request, and targets that recover; provider
state goes back to the account that issued it only, each lane is answered in
order and in the end, and a provider loses its WebSocket preference only on
evidence that still stands. Around them: the watcher delivers every change in
bounded time; a tool's last valid grant survives every switch, crash and
recovery, the files and the vault's references change together, and the user's
own edits stay; an answer of the Claude bridge belongs to the conversation it is
sent to.

## Plan

1. `VaultJournal`, implementing `AtomicVault`, with proofs. Done.
2. `VaultSync` over an atomic vault, with the retention of history in CloudKit
   and in the cache, with proofs. Done.
3. `ProxyRouting`: selection, health, permits, affinity, fail-over and
   configuration replacement for one route, with proofs. Done.
4. `ToolSwitch`, implementing `AtomicSwitch`: transaction files, external writers,
   crash recovery, and the switch protocol above them. Done.
5. `SyncWatch`: debounce, timers, back-off, restarts. Done.
6. `WsBridge` and `WsCapability`: the converted WebSocket session and the
   evidence about a provider's support. Done.
7. `ClaudeBridge`: processes, parked calls, checkpoints. Done.
8. To come, models: `VaultLifecycle` (create, bootstrap, reset; it needs the
   identity of a vault in `VaultJournal`'s header), single-flight OAuth renewal of
   the other vendors, the native WebSocket relay and its pool.
9. Proofs of all eight components. Done.

`VaultSync` treats the replacement of a vault by a snapshot as one step; the
refinement `VaultJournal => AtomicVault` is what justifies it. `SyncWatch`
treats a run as a start and an end; what is in between is `VaultSync`.

## VaultJournal

Models `crates/aipass-vault/src/sync_snapshot.rs` and the callers of
`apply_sync_snapshot`: one device's directory and the agent session on it.

State. `manifest`, `files` and `pending` are the disk: the manifest reduced to
its epoch key and password, every encrypted file as the key it is under and its
plaintext, and the journal. `session` is the `Vault` of the unlocked session,
reduced to the header it was derived from. `stage`, `phase`, `fresh`, `self`,
`original` and `newPassword` are the local variables of the one operation that
holds the mutex. `settled` and `attempted` are history.

Actions. `finish_pending_sync` is split at every disk operation: `WriteRecord`,
`RemoveRecord`, `RewrapAudit`, `WriteManifest`, `reload_from_disk`,
`RemoveJournal`; `FinishFails` may end it anywhere and `Crash` may strike
anywhere. Writes of one file are atomic, as `atomic_write_bytes` renames a
synced temporary file; a write reported as failed may have happened.
`apply_sync_snapshot` starts with any authentic peer version; `Rotate` stands
for password change, rotation and device revocation; `recover_vault`,
`RecoverRotates` and `RecoverFails` for recovery; `Edit` and `ExpireAudit` for
single-file changes. Records within `WriteRecord` are written in any order.

The data is abstract: a plaintext is a value, an envelope opens under its own
key only, and a snapshot that fails to authenticate is not offered (the code
rejects it before it touches anything).

`RecoverWhileUnlocked` says whether `recover_vault` may be called on an unlocked
session. The handler does not forbid it. The run and the proofs assume it does
not happen; with `TRUE` the model shows what follows (Observations).

### Run

`journal` (2 records, 1 audit event, 3 keys, 2 passwords, 1 value; 509 000
states) checks `JournalInv`, `WholeWhenReady`, `ReplayNeverRefused`,
`OldOrNewPasswordOpens`; `IsAtomic`, the refinement of `AtomicVault` with
`content <- Logical` (what the vault holds once the journal is replayed) and
`doubt <- pending # NoSnapshot`; and `JournalDrains`. Three keys are needed for
a journal that is neither under the session's key nor under the manifest's, and
for an audit event under neither, without which nothing could refuse a replay;
two records for a half-applied set. One value is enough: what tells two versions
apart is the key and which records are present. There is no bound on the number
of operations: the state is finite. There is no symmetry, because of liveness.

Fairness (`LiveSpec`): the holder of the mutex keeps running (weak fairness of
`FinishStep`), and the watcher keeps calling `run_configured`, whose first act
is `recover_local_pending`. The watcher only runs while a target or a CloudKit
migration is configured; on a local-only device a leftover journal waits for the
next unlock, and `JournalDrains` does not apply. It is conditional on errors and
crashes stopping.

### Proofs

`VaultJournalProofs` proves, for every value of the constants with
`RecoverWhileUnlocked = FALSE`:

- `JournalInvariant`: `Spec => []JournalInv`;
- `VaultIsWhole`, `ReplayIsTotal`, `NobodyShutOut`: `WholeWhenReady`,
  `ReplayNeverRefused` and `OldOrNewPasswordOpens` always hold;
- `JournalRefinesAtomicVault`: `Spec => IsAtomic`.

None of the three properties is inductive. `JournalInv` adds what they rest on:
the journal is authentic, and the audit events it leaves in place open under the
journal's key or that of anyone who may replay it (`JournalOK`); without a
journal the disk is whole and equal to the settled content (`DiskOK`); an
operation knows its vault and its rollback copy is the settled content
(`OperOK`); past the record phase disk and journal agree (`PhaseOK`); the
headers in play are the settled one and the one attempted (`HeadersOK`). The
proof of its preservation has one step per action and below it one per conjunct.
The refinement maps `FinishStep` to stuttering except `RemoveJournal`, which
settles; `Journal` to `Apply`; a rollback's journal write to `Revert`. The
assumptions are `ConstantsDiffer` only. `JournalDrains` is liveness and only
model-checked.

## VaultSync

Models `vault_sync.rs` and `vault_sync/storage.rs` for devices sharing one
target.

State. `snaps` numbers the snapshots ever exported, each with its parents and
content; `remote` is the target. Per device: `vault` (content, or `None`),
`open`, `disk` (checkpoint, cache, outbox, compaction journal, conflict list)
and `run` (where the sync run is and the locals it carries). A content maps each
record and the key header to the number of the edit that wrote it, so a revision
hash is the content itself. `prior` and `dropped` are history: what each edit
was made on top of, and what the user gave up in a conflict.

Actions. `BeginRun` (queue, under the mutex), `FlushRead` and `FlushSend`,
`List`, `SynchronizeLocked`, `SynchronizeUnlocked`, `MergeHead` per incoming
head, `Publish`, `Save`, then the last flush. `HeadMissing`, `RunFails` and
`Crash` end a run. `Edit`, `lock_session`, `Unlock` and `resolve` are the user.
With `CloudKit`, `Prune` works out what is old, sparing `Protected`, each
`Delete` removes one snapshot, and `PruneCache` drops from the local cache what
is not `Retained`; `SnapshotGone` is a download of something a peer has pruned
since the listing. `queue_local_changes` may stop after any of its four writes.
`FlushSend` may store the snapshot and lose the answer; `List` may miss one
snapshot.

Abstractions. Replacing the vault is atomic (`VaultJournal`). The clean-up that
finishes or undoes a compaction is one step: its deletions are idempotent, and
the journal that drives them goes last. Snapshots are authentic; quarantine and
legacy objects are left out. One target, so the conflict list is that target's.
A `CHOOSE` in a definition only names the member of a one-element set. `Turn` is
a partial-order reduction: while one device is between listing and the end of
its merge, the others wait (with CloudKit only while it merges, since a peer may
prune what it has listed). Inside the mutex a device touches its own files only
and reads `remote` no more, so any such interleaving is equivalent to one where
the others move before or after.

### Runs

| Run | Bounds | Checks |
|---|---|---|
| `sync` | 2 devices, one of which has yet to restore the vault; 2 records and the header, 2 edits, 4 snapshots, 1 fault; 604 000 states | `NoSilentLoss` |
| `sync_lock` | the same, and both sessions lock and unlock; 1 record and the header, 2 edits, 3 snapshots, 1 fault; 1 070 000 states | `NoSilentLoss`, `NeverUndone` |
| `sync_retention` | CloudKit; both devices have the vault, lock and unlock; 1 record and the header, 2 edits, 4 snapshots, no fault; 1 340 000 states | `TypeOK`, `NoSilentLoss`, `NewestStays` |
| `sync_converge` | first upload onwards, 2 edits, 6 snapshots, fair; 103 000 states | `Convergence` |

Two edits are enough for a merge, a conflict on one record, an edit on top of an
edit and an edit racing a rotation; three snapshots for a common base and two
branches, four for their join; one fault for each single failure point. The
bounds on snapshots and edits stop the model, not the program, so deadlock is
not checked. `NeverUndone` holds in `sync` and `sync_retention` and `TypeOK` in
`sync` as well; each is listed where its threat is, `TypeOK` (what is unsent is
in the cache) where the cache is pruned. In `sync_retention` whatever is not
protected may go, which covers the limits on age, number and size; four
snapshots give a head, a parent and two that are old. Device 1 alone locking and
one fault (7.2 million states), and three edits without locking (1.9 million),
hold as well but take too long to keep. `NoSilentLoss` counts an edit as kept
when it is in a vault or in a snapshot that no other has replaced. `Convergence`
speaks of behaviours that stay below the snapshot bound: two devices that join
each other's branches in lockstep can publish without end, and nothing in the
code rules that out.

Fairness (`FairSpec`): the watch loop polls the target at least once a minute
and runs again after an error, so an online device keeps taking sync steps. It
is strong fairness because `Turn` disables a device while another is in its
turn.

### Proofs

`VaultSyncProofs` proves, for any devices, records, edits, snapshots and faults, with
CloudKit or without:

- `VaultInvHolds`: `Spec => []VaultInv`;
- `VaultSyncTypeOK`, `SyncNoSilentLoss`, `SyncNeverUndone`, `SyncNewestStays`:
  `TypeOK` and `NoSilentLoss` always hold, and the action properties `NeverUndone`
  and `NewestStays`.

`Convergence` is liveness and only model-checked.

The argument rests on two orders. Edits are ordered by what each was made on top of
(`Below`): value `y` stands for `x` (`Under`) when it is `x`, an edit on top of it, or
when `x` was given up; a content `Follows` another if each of its fields does. Snapshots
are ordered by their parents (`Line`). `VaultInv` says that the second order implies the
first, and where each device stands in both.

- `SnapsSound`: a snapshot follows each of its parents, so all its ancestors
  (`ReachFollows`). A merge needs it for its base: when both sides follow the base and
  each field is taken from the side that changed it, the result follows both.
- `DevicesSound`: a vault follows every head of its checkpoint and every snapshot it
  has yet to send, and so while a run merges (`Based`). This is what makes a
  fast-forward safe: a vault that has the checkpoint's revision holds nothing that the
  new head does not follow. `Listed` says that what a run found at the target is still
  there or something built on it is, and of what it deletes something else.
- `FieldsSound`: an edit is of one field, so a content that follows one field of
  another has not just met the same number elsewhere.
- `EditsSound`: an edit that is `Live`, neither overwritten nor given up, is in a vault
  or in a snapshot sent or to be sent.

Only `TypeOK` is a part of `VaultInv` outright. From `EditsSound` to `NoSilentLoss` one goes
up from that snapshot to a head (`HeadFollows`): the head follows it, and a live edit
that is followed is still there (`LiveFollows`). A step that takes a vault on makes it
follow the old one (`StepKeeps`), and as `Below` has no cycles, that is `NeverUndone`.
`NewestStays` is `Listed`. `VaultInv` also holds in TLC within the bounds of
`sync_lock` and `sync_retention`.

`Below` and the search for ancestors are recursive functions. Their equations
(`BelowFcn`, `ReachFcn`) and what follows by induction, that they are transitive and
that ancestors are found within `MaxSnaps` rounds, are proved by least counterexample:
`Least` is that a set of naturals has a least element, from the library's
well-foundedness of `<`. The assumptions are `Bounds`, which asks for one snapshot at
least, and `NoneIsNothing`, that `None` is none of the values it stands beside.

## ProxyRouting

Models one route of the local proxy: `forward.rs` (the attempt loop),
`forward/response.rs` and `sse.rs` (a response and its tracked stream),
`selection.rs`, `routing.rs`, `concurrency.rs` and `update_config` of
`runtime.rs`. Requests run concurrently; what they share (health, occupancy,
configuration, bindings) is each under its own short lock.

State. `health` is `TargetHealth` with deadlines made relative: a ban counts
down, the age of the last failure counts up to `Window`. `busy` and `limit` are
per provider, `aff` is the session affinity. `req` is where each request is and
the locals it carries: its history's owner, the targets left, attempts, round,
whether a generation may have been submitted, and the target under way. Two
flags stand for the code's comparison of instants: `stale`, the target failed
since `attempt_started`, and `before`, it failed since the request passed the
recovery gate. `foreign` is history.

| Phase | The request ... | Left by |
|---|---|---|
| `choose` | is at the head of a round | `Choose`, `HoldExpires`, `Dropped` |
| `try` | goes through the round's list | `TryNext`, `RoundEnds`, `HoldExpires`, `Dropped` |
| `admit` | has passed the gate | `Admit` |
| `sent` | waits for the upstream | `Fails`, `Rejected`, `Throttled`, `Completes`, `Commits`, `Dropped` |
| `cut` | was sent after the configuration changed; its answer is not awaited | `Dropped` |
| `limited` | is between the two locks of `mark_rate_limited` | `Unbinds` |
| `stream` | has committed a stream | `StreamSucceeds`, `StreamFails`, `StreamStopped`, `Drained` |
| `drain` | is settled, its body still being read | `Drained` |
| `orphan` | lost its client; the tracking task has not noticed | `OrphanEnds` |

`ReplaceAccount`, `SetLimit`, `Expire` and `Tick` are the user and time. A
request slot that is idle again stands for the next request, so there is no
bound on their number.

Abstractions. HTTP and SSE attempts only; the WebSocket transport, images,
Copilot model resolution and quota exhaustion are left out. Among equally stable
targets any order is allowed, which covers priority, weight and quota. `Choose`
is one step although the code takes several short locks: what it decides about
health is decided again at the gate (`TryNext`), and the window between the two
is modelled. The response-id key of the affinity is merged with the session's.
After a configuration change a request finishes only the poll in progress, which
is why `ReplaceAccount` changes flags and `Admit` goes to `cut`.

### Runs

| Run | Bounds | Checks |
|---|---|---|
| `proxy_failover` | 2 targets of a provider whose accounts are replaced, 2 requests of a session, 2 attempts per round, threshold 1, hold; 2 180 000 states | `RoutingInv`, `NeverReplayed` |
| `proxy_fair` | 1 target, 2 requests, 2 rounds, bans of 1 and 2 ticks, 429s, limits none and 1, no hold, fair; 231 000 states | `ProbeExclusive`, `SlotsExact`, `BoundIsUsable`, `LimitHolds`, `EveryRequestEnds`, `Recovers` |

Two requests are what every property here is about: one that changes the shared
state while the other is between two of its steps. Two targets are needed for
failing over, one is enough for health and occupancy. A window and bans of one
or two ticks distinguish inside, at the end and after. `MaxReopen` is the
reopening at which the ban has stopped growing (`BanStopsGrowing`).

Fairness (`FairSpec`): tokio polls every ready task, so the proxy's own steps
are weakly fair; timers fire (`Tick`); clients read what they get (`Drained`)
and keep sending (`Arrive`), without which nobody would ever probe a target.
That an upstream answers is an assumption about it: the code puts no limit on
the time of a generation. `EveryRequestEnds` is checked without hold, which may
by design last as long as its budget. `Recovers` is conditional on failures,
refusals and abandoned attempts coming to an end (`Disturbed`).

### Proofs

`ProxyRoutingProofs` proves, for all finite sets of targets and requests, any
providers and sessions and any retry policy:

- `RoutingInvariant`: `Spec => []RoutingInv`;
- `ProbeIsExclusive`, `SlotsAreExact`, `BoundTargetsUsable`: its three main parts;
- `LimitAlwaysHolds`, `NothingReplayed`: the action properties `LimitHolds` and
  `NeverReplayed`.

`RoutingInv` adds to the three parts what they rest on: a target that is or was
banned is recovering (`BannedRecovers`; otherwise a ban that runs out would let
everyone through), and an attempt under way has a target, is within the round's
attempts, and is not a second one after an ambiguous first (`AttemptsSound`).
The proof goes through four kinds of step: one that moves a request without
touching shared state (`QuietStep`), one that gives permits back (`LeaveStep`),
an outcome that keeps them (`OutcomeStep`), and any step that neither takes nor
gives one (`SharedStep`); each action is an instance, except the gate
(`TryNextInv`) and the admission (`AdmitInv`), the only steps that take a
permit. That no other step takes a slot or sends (`Follows`) gives the two
action properties. The assumption is `RoutingConstants`. `EveryRequestEnds` and
`Recovers` are liveness and only model-checked.

## ToolSwitch

Models `tool_switch.rs`, `tool_switch/` and `transaction.rs` of
`aipass-config-writers` for one tool, Claude Code, between managed accounts, a
gateway (an API key or the local proxy) and a login the vault does not know.

State. `store` is what is at each resource: per home the grant and the profile
that names its account, the tool's configuration, AIPass's binding. `refs` is
the vault's reference of each account to the home of its grant, `txs` the
encrypted transaction files, `latest` the generation of each grant the vendor
still accepts: a rotation makes the previous one worthless. `stage` to `keeps`
are the locals of the holder of `SWITCH_LOCK`. `forfeited` (grants the user gave
up, or that a verification rotated in memory) and `disturbed` are history.

Actions. `BeginSwitch`, `Renew`, `Prepare` (archive the outgoing account, bring
in the incoming one), `BeginProxy`, `BeginRollback` and `PrepareRollback` lead
to `Save`; then `Check`, `Recheck` and `Put` per resource, `SetReference` per
account, `Commit`. The error paths are `PutFails`, `SetReferenceFails`,
`CommitFails` and `AttemptFails`, which lead to `CheckImages`, `RecheckImage`,
`Unput`, `ResetReference` and `Forget`. `Unlock`, `Recover`, `Lock` and `Crash`
are the session; `CliRotates`, `CliLogin`, `UserEdits` and `ProxyRenews` are the
tool, the user and the proxy, and obey no lock but the account lock of
`ProxyRenews`.

Assumptions. A tool in gateway mode does not use its login; the tool is
restarted after a switch (`docs/native-tool-switching.md`, lines 21-22); a
failed save of a transaction leaves the previous file. `Racing` allows a write
by the tool between a resource's last check and its write,
`RollbackWhilePending` a rollback of the first switch before recovery; both are
`FALSE` in the run (Observations).

`AtomicSwitch` is what a switch promises: the choice and the home of every
account change in one step. `Chosen` and `Home` read the binding and the
references as they are once a pending transaction is undone.

`tool_switch` (2 managed accounts and an original login, 1 rotation of each
grant, 1 edit, 2 transactions, with symmetry; 408 000 states) checks
`NoGrantLost`, `AccountsAtHome`, `RecoveryNeverRefused`, `UserEditsKept` and
`IsAtomicSwitch`. Two accounts are needed to move one out and the other in; two
transactions for one to start from what another left; one rotation makes any
copy taken before it worthless. Deadlock is checked: the tool can always be
locked or unlocked.

### Proofs

`ToolSwitchProofs` proves, for every set of managed accounts and any number of
rotations, edits and transactions:

- `SwitchInvariant`: `Spec => []SwitchInv`;
- `RecoveryWorks`: `RecoveryNeverRefused` always holds;
- `SwitchesAreAtomic`: `Spec => IsAtomicSwitch`;
- `EditsAreKept`: `Spec => UserEditsKept`.

All four assume `RollbackWhilePending = FALSE`, the last one `Racing = FALSE` as
well; with either `TRUE` the properties fail (Observations). `SwitchInv` adds to
the type invariant what the transaction files say (`FilesSound`: a transaction
keeps what the user wrote, and its binding is its own), what is on disk as long
as one is pending (`PendingSound`: at most one is, the binding is one of its
images, and so is every resource nobody else wrote), where the accounts are
(`ChoiceSound`: each at its own home but the selected one, once a pending
transaction has been undone), and what the holder of the lock has written so far
(`WorkSound`, `ReadSound`). `RecoveryNeverRefused` is a part of `PendingSound`,
but is preserved only because `FilesSound` and `WorkSound` tie the store to the
images. Under the refinement every step is a stutter except `Commit`, which
switches or restores. `UserEditsKept` rests on `ReadSound`: what is overwritten
was read in the step before. The assumptions are `SwitchConstants` and
`NothingIsSomething` (the constants differ from the values they stand beside).

The second half of the module is about the logins, with both `Racing` and
`RollbackWhilePending` `FALSE`:

- `GrantInvariant`: `Spec => [](SwitchInv /\ GrantInv)`;
- `NoGrantIsLost`: `NoGrantLost` always holds;
- `AccountsAreFound`: `AccountsAtHome` always holds.

`NoGrantLost` says that a copy exists somewhere; it is inductive only when it is
known where. `GrantDisk`: a managed account's valid grant is at the active home or
at the account's own home, and at the one its reference leads to once a pending
transaction is undone, but for an account that a tool renewed behind a gateway,
which then shows as a conflict (`Mismatch`); an unknown login stays at the active
home, in the pending transaction or in a committed one (`OriginalSound`).
`Archives`, `Leaves` and `Arrives` name what a transaction does to one account:
the outgoing account's home is written before the active home is (`Rank`), and
an undo restores the active home before it takes the archive away; images are
never newer than the copy on disk (`OpenSound`). `ForwardSound` and `BackwardSound` say
how far the holder of the lock has come with each resource, `Ready` where the
accounts are when a switch is prepared, `StampSound` what the check of an unknown
login before a rollback has left of it. `Racing` is where the argument
ends: a rotation after the last check makes the copy in the archive worthless.

## SyncWatch

Models `sync_watch.rs`: threads of `watch_loop` that turn file events, the stamp
of the local files, wake-ups and timers into runs. A tick is one timeout of the
thread's channel. `LocalWrite` and `RemoteChange` make a change, with or without
an event; `Turn` is one round of the loop (`record_event`, `Due`, `Looked`,
`Stops`); `Start`, `Succeed` and `Fail` are a run, under the sync lock, after
which `next_delay` sets the next one; `UserRuns` is a run asked for by the user;
`Restart` starts a new thread and tells the old one to stop without joining it.
Instants are the ticks since or until them, and constants keep their order, not
their size. `age` counts the ticks a change waits while no run is under way and
no back-off lasts.

`sync_watch` (2 threads, 2 changes, 2 restarts, 1 failure counted, window 1, cap
2, a look every 2 ticks, polling every 5; 329 000 states) checks `Prompt`,
`StopsInTime` and, under fairness, `Delivered`. Two changes are enough for one
to postpone the other, two restarts for a thread that replaces another one and
is replaced in turn, and a cap of twice the window for the cap to matter.

Fairness (`FairSpec`): threads keep turning, time passes, the user's runs end.
`Start` and `Succeed` are strongly fair: the lock is free again and again, and
the target is assumed reachable again and again; one that is not delivers
nothing.

### Proofs

`SyncWatchProofs` proves, for every finite or infinite set of threads and every
window, cap, interval, look and back-off with the order `WatchConstants` states:

- `WatchInvariant`: `Spec => []WatchInv`;
- `ChangesArePrompt`, `StoppedThreadsEnd`: `Prompt` and `StopsInTime`.

`WatchInv` adds to `Prompt` the reason for it. Of a local change that has waited
`n` ticks the current thread is `Alert`: it is bound to start a run, or has armed
its debounce no later than `CheckEvery` ticks after the change, or will find the
stamp changed at its next look; of a remote one, what it has waited and what is
left until the next run are at most the interval (`AgeSound`). That only the
current thread counts, that it is alive and not told to stop (`CurrentSound`),
and that the lock is held by the thread that runs (`LockSound`) make this
inductive: a thread that is replaced hands nothing over, its successor starts
with a run. Besides `WatchConstants` the proofs use `BackoffGrows`, that a power
of two is a positive number, which the provers cannot derive.

## WsBridge

Models `websocket/bridge.rs`: one Responses WebSocket session served over HTTP.
`queue`, `lanes`, `active` and `cache` are the `Session`; `run` is the future of
each request prepared; `outbox` the results in the channel; `accepted`,
`answered`, `known` and `view` are the client's side. A history is its size and
the targets whose provider state it holds.

`Receive` is `enqueue` with its refusals, `Dispatch` is `next` and `prepare`
(find the parent, extend its history, work out its origin and the target it is
bound to), `WarmUp`, `Forward`, `Complete` and `Fail` are `run_response`,
`Deliver` is the loop's answer with `remember` or `failed`, `ConfigChanged` and
`Close` end the connection.

The client is external. It pipelines, forks other lanes, repeats its whole input
or names a previous response, but keeps to one conversation in a lane: it starts
one afresh, or repeats the input of the last response it knows, only when
nothing it sent on that lane is still unanswered.

`ws_bridge` (3 lanes, one of them unnamed, 2 targets, 3 requests, at most 1
named lane, 2 active, 1 queued, 4 items cached; 590 000 states) checks
`OriginOnly`, `LaneOrder`, `ParentKept` and, under fairness, `Answered`. Three
requests are a parent, a fork and a continuation of either; the limits are small
enough for each to be reached. Deadlock is not checked: a client that has sent
all its requests is done. `TypeOK`, which holds on the same instance, has the
limit on what is cached, `WithinLimits` those on lanes, on running and on queued
requests.

Fairness: the session's loop goes on (`Deliver`, `Dispatch`), and every future
ends, as forwarding has time limits.

### Proofs

`WsBridgeProofs` proves, for every set of lanes and targets, every limit and any
number of requests:

- `BridgeInvariant`: `Spec => []BridgeInv`, and `TypesHold`;
- `StateStaysHome`, `AnsweredInOrder`, `ParentsKept`: `OriginOnly`, `LaneOrder`
  and the action property `ParentKept`;
- `LimitsHold`: `WithinLimits`.

`OriginOnly` needs to know where provider state can come from. What a response
leaves in the cache and what a request carries is `Tied`: state lies only at the
target the history is bound to, which is the one it came from (`CacheTied`,
`RunTied`). Repeated input is tied to nothing by itself; it is `Anchored` to the
response kept in its lane, because that lane does not move on before the request
is prepared, which in turn rests on the client's view (`ViewSound`, `Unknown`).
`LaneOrder` needs that the queue is in the order of arrival and behind what runs
(`Ordered`), that a result in the channel still occupies its lane (`Channel`),
and that what is accepted and not answered is what waits or runs (`Accounted`).
The assumptions are `BridgeConstants` and `NoneIsNoRecord`. `Answered` is
liveness and only model-checked.

## WsCapability

Models `websocket/capability.rs`, `upstream.rs` and the saving of their evidence
by `proxy_service.rs`, for one provider. `vault` is the provider's record with
its WebSocket preference, `runtime` the proxy's snapshot, `health` the evidence:
two rejected handshakes make a candidate, an HTTP response to the same request
confirms it, a completed WebSocket response refutes it. `pending` and `refresh`
are what is still to be saved and to be reloaded, `holder` where the holder of
the proxy lock is, `probe` the user's request to turn WebSockets on again.

An attempt is `Begin`, `Connect` or `RejectTwice` or `Unreachable`,
`WsCompletes` or `HttpCompletes` or `GiveUp`, `SessionEnds`. `Reload`, `Stop`,
`Start` and `Restore` are the listener; `PersistRetry`, `Collect`, `Write` and
`PersistReload` the thread that saves; `Save`, `Synced` and the four `Probe`
actions the user and the other devices. `Write` may fail before or after it
commits. Settings are a version number, evidence is named by the attempt that
found it, and instants are the number of successes so far.

`ws_capability` (2 attempts, 2 edits, 1 restart, 2 faults; 373 000 states) checks `Justified`
and, under fairness, `Follows` and `EvidenceSettles`. Two attempts are one that
rejects and one that refutes or is late; two faults a write and the reload after
it. Deadlock is not checked: the attempts are bounded.

Fairness: the thread that saves comes round every second, and the holder of the
proxy lock goes on.

### Proofs

`WsCapabilityProofs` proves, for any number of attempts, edits, restarts and
faults and with `StoppedProbes = FALSE` (with `TRUE` it is an Observation):

- `CapabilityInvariant`: `Spec => []CapabilityInv`;
- `EvidenceStands`: `Spec => Justified`.

`Justified` is about one step, the write that turns WebSockets off; whether its
evidence still stands was decided by steps of other threads long before.
`CapabilityInv` follows it from the request to the write. Evidence `Stands` while
no success of its settings contradicts it and none that could is still under way
under an earlier epoch; the ledger holds only such evidence (`LedgerSound`), and
so does what is still to be saved when the listener stops (`PendingSound`). A
change of epoch moves settings and requests together (`ClockSound`,
`EpochSound`); the holder of the proxy lock writes evidence about the settings in
the vault (`HolderSound`); and the answer of a probe speaks for the epoch it was
sent in or finds the record changed (`ProbeSound`). The assumptions are
`CapabilityConstants` and `NoneIsNoSnapshot`. `Follows` and `EvidenceSettles` are
liveness and only model-checked.

## ClaudeBridge

Models `claude_bridge.rs` and `claude_bridge/`: turns of a conversation answered
by processes of the official command-line tool, for one target, account and
context.

State. `turn` is each request with its `SegmentStream`; `run` the table of runs;
`proc` the process of each run and its MCP helper; `reader` what the thread of
`read_events` holds outside the mutex; `file` the transcripts of the tool's
sessions; `archive` the encrypted checkpoints. `answer` numbers the answers
generated, with the conversation each is to.

Actions. `Asks` is the client's next request: a new conversation, a message
after an answer, or tool results. `Continue` and `ReturnResults` take up an idle
or a parked run, `Spawn` starts one, from a checkpoint or afresh, with the
evictions it needs, `Refuse` is every early return. `ReadEvent`, `Send`,
`ReadResult`, `SaveCheckpoint` and `ReaderEnds` are the reader thread;
`Receive`, `Broken` and `Leave` the stream; `Claim`, `Poll`, `HelperGivesUp` and
`Settle` the helper; `Reap` and `Revoke` remove runs. `TakeInput`, `Generate`
and `Exit` are the tool, external: it records each message with its predecessor,
and a resumed session is the chain of the message written last.

Abstractions. Eviction takes any idle run, not the oldest; idle and park ages
may have passed at any time; all calls are identical, the worst case of matching
them; a checkpoint may be gone whenever it is looked for (expiry, the limit of
eight). The lines of an answer before its last are left out. An exit in the
middle of an answer is `Revoke`'s kill. `Eager` allows a client to go on before
it has read the end of an answer; it is `FALSE` in the run (Observations). With
`TRUE`, `Continuity`, `ArchiveTrue` and `Served` hold on the same instance (590 000
states), but the proofs of the first two do not cover it.

`claude_bridge` (3 turns, 2 runs, channels of 1, answers of at most 1 call, 2
answers; 427 000 states) checks `Continuity`, `ArchiveTrue`, `Served` and
`ActiveKept`. Three turns are a message and two that branch from it or follow
it; two runs let two processes share a session; the table is full with the
third. One run, three turns and three answers (1.1 million states), and two
calls in an answer, hold as well. `TypeOK`, which holds on the same instance and is
proved, says what kind of value each variable holds and has the limits on processes
and on what waits in a channel. Safety only: the tool may never answer. Deadlock is
not checked: the bound on turns stops the model, not the program.

### Proofs

`ClaudeBridgeProofs` proves, for any number of turns, processes, calls and
answers, whether clients are eager or not:

- `TableHolds`: `Spec => []TableInv`, and from it `TypesHold` with the two limits;
- `ServedHolds`: `Spec => []Served`;

and, where clients read an answer to its end before they go on (`~Eager`; Observations
has what happens otherwise):

- `StreamsHold`: `Spec => []StreamInv`, and from it `ActiveStays`: `Spec => ActiveKept`;
- `TalkHolds`: `Spec => []TalkInv`, and from it `OwnAnswers`: `Spec => []Continuity`, and
  `CheckpointsTrue`: `Spec => []ArchiveTrue`.

`Served` is about a process that has nothing to do, and its proof has to know why
every other process has something. `IdleSound` says it: a process is idle, with
nothing to read, only if it has just ended an answer; that end is in its output
until the reader has seen it, and when the reader has, the run is nobody's.
To give a run to the next turn is then safe only if it was read to that end, and its
process is not at the next one already, which is what `RestSound` (a run that waits
for a message has nothing in its output but a `result`) and `FinalSound` (nor has one
whose last answer is about to be read) are for; for a parked run the helper may have
gone on by itself, and `IdleSound` keeps the end of what it then wrote unread.
That an end is seen once, by the turn it belongs to, is `Once`, with
`SenderSound` and `ReaderSound`: a run, and its reader with the mutex released, only
send to an open turn that knows them by its key and has no last event yet, or else
to one that failed and took the run with it.

`ActiveKept` is threatened by a stream that was told the end of its answer but
has not taken it: its run is already the next turn's to take, and the drop of
the stream would end it. `StreamInv` adds that the next turn cannot take it yet.
A request goes on from an answer whose end was received (`AskedSound`), so a run
with that conversation, or with those calls waiting, ended that very answer, and
`Once` says that nobody else has its end: a stream that still drains another
(`DrainSound`) would have to be that finished turn. For a parked run the calls say
which answer it ended, and `CallsSound` that they were recorded before. An eager
client breaks `AskedSound`, and with it the property.

`Continuity` is about an event in a channel, and what was answered was decided long
before, by a process that may have been another turn's, or been told of an error by
its helper that no client knows of. `TalkInv` follows a conversation from one to the
other. What a client asks and what a process was told are the `Same` up to such errors,
and only a run that has two answers in a row, which no client asks for, may differ.

- `ClientSound`, `SavedSound`: the messages of a turn end with its own, and what it is
  resumed from is what came before. `SentSound`, `SaveSound`: so with what the reader
  holds after it has released the mutex, an event or a checkpoint to be saved.
- `FileSound`, `ArchiveSound`: a transcript that ends with an answer holds what that
  answer was to, whichever process wrote it last; a checkpoint holds what it is found by.
- `RunTalk`, of each run: at rest, its history is that of the answer it ended, and the
  calls of that answer are those it waits for (`Posted`); a message in the pipe is the last
  of the request (`InputTalk`). The next end of an answer in the output is to the run's
  history (`Ahead`); of several in the output each is to the one before and what the helper
  gave, with an error in it (`Linked`), and so is what the process says now (`Tied`). The
  lines come as calls, end, result (`LinesTalk`).
- Of calls: the helper works through those of the last answer in their order, and an error
  marks all its results (`HelperTalk`); no call of an answer that has not been read to its
  end has a result (`CallsTalk`). `Align` is why a result reaches the call it is for, though
  a call is claimed by its name and arguments alone and all of them are alike: until an
  error occurs, the calls not claimed yet, recorded or still in the output, are those the
  helper has yet to ask for, in the same order.

Which turn may take a run up is what `StreamInv` knows (`AskedSound`), and which turn is
sent an answer what `TableInv` does (`Once`), so that these three are proved one upon the
other: the thirteen parts of the first, the three of the second and the eight of the
third. The lemmas named after the actions (`AsksTable`, `AsksStream`, `AsksTalk`, ...) show
that each action keeps them, from what it changes (`...Facts`). Assumed of the constants
are `BridgeConstants` and `NoneIsNothing`, that `None` is none of the values it stands
beside.

## Observations

Behaviours of the models that a reader may not expect. The first group are
formulas kept in the modules that do not hold of the code, with the values of
the constants that show it; the second has no formula of its own.

- `SessionKeyCurrent` (`VaultJournal`, `RecoverWhileUnlocked = TRUE`): a failed apply
  leaves a journal; `recover_vault` (`session.rs`, line 396) opens a second `Vault`,
  replays it, and its own rotation fails. The old session stays, with the old key
  and nothing gating it; the comment at `aipass-vault/src/lib.rs`, line 787, warns of
  "writing records other devices can no longer read".
- `QueueNeverBails` (`VaultSync`, both devices `Restored`, 1 fault): a publication
  staged before a failed checkpoint write. Every later run on the unlocked device
  fails before it flushes (`storage.rs`, line 175), until a run while locked sends the
  outbox; `docs/vault-sync.md`, lines 35 and 41, promises a retry.
- `CheckpointReachable` (`VaultSync`, both `Restored`, `Lockers = {d1}`, 1 record,
  3 edits, 5 snapshots, no fault): compaction (`storage.rs`, line 65) deletes a version
  the conflict list names, and resolving it makes every run fail;
  `docs/vault-sync.md`, line 47, says that conflict versions are kept.
- `BindingsCurrent` (`ProxyRouting`, `Replaceable = {t1}`): a response that completes
  while its target's account is replaced finds no health entry, takes that for
  success (`routing.rs`, line 178) and binds the session to the new account;
  `model_routes.rs`, line 40: "Opaque history can continue only on its recorded
  account."
- `UpdatesApplicable` (`ToolSwitch`, the run's constants): when the first switch was
  made to the account already active, its rollback's reference updates move that
  account home and then expect it at the active home (`restore.rs`, lines 212-221);
  the rollback always fails and leaves a transaction to recover. `restore.rs`,
  line 122: "The first switch must also be reversible".
- `NoGrantLost` with `Racing = TRUE`: a tool that rotates its grant between the last
  check and the write (`transaction.rs`, lines 131-134) loses it.
- `RecoveryNeverRefused` with `RollbackWhilePending = TRUE` and three transactions:
  a rollback before recovery leaves what recovery does not know
  (`docs/native-tool-switching.md`, lines 11-12).
- `Justified` with `StoppedProbes = TRUE`: the proxy is stopped with unsaved evidence
  while the user's probe succeeds, and the evidence is saved after it.
- `ActiveKept` with `Eager = TRUE`: the stream of an earlier turn, dropped late,
  removes by its key the run that answers a newer one (`stream.rs`, line 37).

And:

- a compaction interrupted half-way cannot be recovered once a locked run or a
  resolution has moved the checkpoint on;
- locking during a send makes two successive versions of one device siblings,
  and the user is offered them as a conflict;
- accepting a version in a conflict discards local edits that no snapshot has
  (`docs/vault-sync.md`, line 39, speaks of history);
- a failure that was in flight when its target was banned and arrives after the
  ban has run out starts one of twice the length, though nobody has probed
  (`routing.rs`, line 85, speaks of the same ban only);
- a failure of a target drops the recorded origin of its sessions, so their
  provider-bound history is refused from then on
  (`docs/local-proxy-correctness-review-2026-10-16.md`, line 15, says it is kept);
- the check of an original login before a rollback may rotate its grant in a
  temporary home and keep the result only in memory (`forfeited`);
- a foreign write during a switch leaves a transaction that can never be
  recovered and blocks further switches (documented);
- a client that starts another conversation on a lane while a request on it is
  unanswered, and repeats input with provider state after it, has that state sent
  to the target of the lane's last response: the lane is all the bridge knows of
  where repeated input came from; a portable warm-up forgets the lane's origin, and a full
  repeat after it is refused;
- after evidence is acknowledged, `confirmed` stays set without a candidate, so a
  late rejection becomes an event without an HTTP response of its own;
- `open_report` looks neither at `PARK_TTL` nor at whether the helper gave up: late
  results may be accepted, and the answer is then one to a tool error; an identical
  call retried after that may get the old call's result.

## What is not modelled

Left for later, with the reason each is not in a module yet:

- creation, bootstrap and reset of a vault: a bootstrap that is interrupted leaves a
  journal without a manifest, and `Vault::create` then writes the manifest of another
  vault beside it, which replay refuses; this needs the identity of a vault in
  `VaultJournal`'s header;
- migration of a target to CloudKit, quarantine and legacy objects;
- renewal of the other vendors' tokens, import and policies of subscriptions; the
  log-in dialogue, automatic import, renewal snapshots, and the receipts of
  `backup.rs` and `proxy_recovery.rs`;
- the native WebSocket relay, its pool and keep-alive; quota exhaustion;
- account selection (`history_owner`), feedback of rate limits, cache marks and
  native tools of the Claude bridge; validation of history on result turns.

Not for a model of this kind: cryptography, file and wire formats, HTTP, IPC
framing, translation between vendor formats, provider tables, user interfaces.
They are data transformation or presentation without an order of steps to get
wrong, and are most of the repository's lines.

Proved, for the values of the constants named in their sections, is every
invariant, action property and refinement that a run checks. Model-checked only is
liveness, under the fairness stated: `JournalDrains`, `Convergence`,
`EveryRequestEnds`, `Recovers`, `Delivered`, `Answered`, `Follows` and
`EvidenceSettles`.

## Running

    tlc -config MCVaultJournal.cfg MCVaultJournal
    tlc -config MCVaultSync.cfg MCVaultSync
    tlc -config MCVaultSyncLock.cfg MCVaultSync
    tlc -config MCVaultSyncRetention.cfg MCVaultSync
    tlc -config MCVaultSyncConverge.cfg MCVaultSync
    tlc -config MCProxyRouting.cfg MCProxyRouting
    tlc -config MCProxyFair.cfg MCProxyRouting
    tlc -config MCToolSwitch.cfg MCToolSwitch
    tlc -config MCSyncWatch.cfg MCSyncWatch
    tlc -config MCWsBridge.cfg MCWsBridge
    tlc -config MCWsCapability.cfg MCWsCapability
    tlc -config MCClaudeBridge.cfg MCClaudeBridge
    tlapm VaultJournalProofs.tla
    tlapm VaultSyncProofs.tla
    tlapm ProxyRoutingProofs.tla
    tlapm ToolSwitchProofs.tla
    tlapm SyncWatchProofs.tla
    tlapm WsBridgeProofs.tla
    tlapm WsCapabilityProofs.tla
    tlapm ClaudeBridgeProofs.tla
