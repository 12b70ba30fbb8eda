# A TLA+ model of the Amnezia shared panel

The panel hands out AmneziaWG and Xray VPN keys. A control API keeps accounts,
keys and policy in Postgres; a worker takes jobs from an outbox table and drives
an HTTP agent on each VPN node; a two-way sync keeps the accounts and a
Cloudflare Access policy in step; the worker also fetches routing rules, polls
the nodes and looks after old rows. This directory holds TLA+ modules for the
parts where several of these act at once or may stop half-way, TLC
configurations that check them on small instances, and proofs that TLAPS checks
for every value of the constants.

## 1. Inventory

| Part | State it keeps | Operations | Hard behaviour | Module |
|---|---|---|---|---|
| Keys (`apps/control-api/src/postgresRepository.ts`) | `vpn_keys` | create, delete, rotate, disable, enable, purge | requests land between two steps of the worker; the row says what is wanted before the node does it | `KeyLifecycle` |
| Outbox and runner (`apps/worker/src/runner.ts`, `processor.ts`, `postgresRepository.ts`) | `job_outbox` | claim, complete, retry with backoff, fail | leases of dead workers, handlers repeated from their start, two jobs of one key | `KeyLifecycle`, and the handler of each job where its state is |
| Limits (control API) | limits on `users`, `user_quotas`, `portal_policy`, `nodes.max_peers` | create a key, approve, set | several creations at once at SERIALIZABLE, settings changed beside them | `KeyQuota` |
| Quota requests, removal of a node (control API) | `quota_requests`, the policy's lists | request, review, edit, remove a node | statements of two transactions in any order | `NodeRemoval` |
| Accounts (control API, worker, `packages/db`) | `users` | sign-in, roles, offboard, reinstate, delete, sweep | the last administrator; a row read before it is locked | `Accounts` |
| Access sync (`apps/worker/src/accessReconcile.ts`) | baseline in `portal_policy`; the policy at Cloudflare | arm, run | read, decide and write against a document other people edit; torn write | `AccessSync` |
| Peers on a node (`services/node-agent`, `apps/worker/src/nodeAgent.ts`) | configuration, `clientsTable`, interface | list, create, update, delete, disable expired, import a backup | two files and a sync, lost replies, addresses freed and given again, backups that bring deleted peers back | `NodePeers`, `PeerFiles` |
| Xray clients (`services/node-agent/src/services/xray`) | one JSON file, the container | create, update, delete, sweep, import | two mutexes over one file and one temporary file; restarts that fail | `XrayPeers` |
| Agent update and capacity (`agentUpdate.service.ts`, `infra/node/scripts`) | spool files, `.env`, the agent | request, run, roll back, report | two scripts that each rewrite one `.env`; deaths; a poll that answers late | `NodeChanges` |
| Routing rules (`apps/worker/src/rules.ts`, control API) | `route_rule_versions` | fetch, activate, follow, import | a pin set while a fetch is under way | `RulePinning` |
| Traffic (`telemetry.ts`, `maintenance.ts`) | `peer_current`, `peer_samples`, `traffic_rollups` | poll, reconcile, roll up, delete | three writers of one worker; counters that restart; a pass that stops | `Traffic` |
| Web, CLI, deployment, checks, CIDR sets | none shared between actors | | | not modelled, see 7 |

They interact by shared rows (API and worker, under row locks), by the outbox
(API to worker), by HTTP with a 15 s timeout (worker to agent), by HTTPS (worker
to Cloudflare), and by files (agent to host scripts). `PROJECT.json` lists every
component with what is and is not modelled, and every hazard at its line.

What makes each part correct:

- **Keys**: no peer stays on a node without a row that can still be asked to go;
  an accepted delete is never forgotten; when nothing is under way the row and
  the peer agree; provisioning and revoking end.
- **Limits**: a new key leaves its account and its node within their limits; the
  numbers of an account's keys differ.
- **Requests and removal**: a request for one server is not answered as one for
  all; nothing refers to what is gone.
- **Accounts**: an active administrator remains; an account is erased only when it
  was due and has no live key.
- **Access sync**: no change is left behind by a run that had already read the
  accounts; only those shut out at Cloudflare are disabled; leavers leave.
- **Peers**: no two share an address; a blocked one can come back; a deleted one
  is gone; an expired one gets blocked; labels and peers are written in an order
  that a death cannot spoil.
- **Xray**: an answer stays true until the next call; expired clients are cut off.
- **Changes of a node**: a success reported is true; an outcome belongs to the
  request it closes.
- **Rules**: the pinned version is the published one; a served profile stays
  served; an unpinned one follows the feed.
- **Traffic**: nothing is counted twice; what is settled is complete.

## 2. Modules

Each component has a module `M`, its instance for TLC `MCM` with `M.cfg` (or
`M_safety.cfg` and `M_liveness.cfg`), and where it is proved about, `MProofs`;
`NodeProofs` has what is proved about both `NodePeers` and `NodeRemoval`, and
`TelemetryProofs` what is proved about both `NodeChanges` and `Traffic`, which is
why the definitions of `NodeRemoval` and `Traffic` that every module has
(`RemovalInit`, `TrafficInit`, ...) have names of their own.
`PeerFiles` is the abstract specification that `NodePeers` implements, and
`KeyPromise` the one that `KeyLifecycle` implements.

Two components share a row rather than a module: each module models the whole
handler of its own state and takes what the other does to that state as actions
of its own (`KeyLifecycle` has the offboarding that `Accounts` details and the
node's files that `NodePeers` details; `KeyQuota` has the key states that
`KeyLifecycle` moves). Variables marked *history* in a module are not in the
program: they remember what a property has to except or to compare with.

### Transactions

Postgres appears at three levels of detail, as the code depends on it:

- `KeyLifecycle`, `AccessSync` and `NodeChanges`: a transaction is one action.
  Theirs lock the row they are about before they read it, are serializable, or
  are a single statement, with two exceptions that are two actions each: the
  purge of a key reads its row unlocked and deletes by id (`PurgeFind`,
  `PurgeKey`), and the worker's re-arming reads which keys are stuck and inserts
  their jobs after (`RearmFind`, `Rearm`).
- `Accounts`, `RulePinning`, `NodeRemoval`, and the worker's writes in `Traffic`:
  READ COMMITTED, each statement an action. A statement sees what is committed
  when it begins, waits for the rows it writes or locks, and then tests those
  rows once more; two statements of one transaction may disagree. Of those that
  wait for each other the database undoes one, in whatever order the code locks:
  any open transaction may be rolled back, and no property speaks of deadlocks.
- `KeyQuota`: creations run at SERIALIZABLE. They read the snapshot of their
  first statement, fail when a row they lock was written since, and fail when
  they and another creation each read around the other's key (`Serializable`).
  The database may also fail one without need (`Retry`), as it is allowed to.

### KeyLifecycle

`state`, `pubKey` are columns of `vpn_keys` (`"absent"` before the insert,
`"purged"` after the delete), `account` is `users.status`, `outbox` the rows of
`job_outbox` still to be worked on, `failedJobs` the count of failed rows per key
and type (what `rearmStuckRevokes` counts), `peers` what the agent's files hold
under the key's label, `worker` the handler's program counter and local
variables, `sweep` the accounts the retention sweep has found eligible.

- *Order.* `claimJob` orders by `available_at`; a job carries its place in that
  order (`due`). A row in backoff takes its place at the end when its delay is
  over, which is the order `available_at` gives when delays are longer than the
  handling of a job.
- *Handlers' calls to the node* are steps of their own, so any transaction may
  come between two of them.
- *Lost replies.* While `nodeUp` is FALSE a call ends in an error, and what it
  asked for may have been done or not. With `AgentDies` the agent may also have
  died between its two file writes (`"stale"`: in the table only).
- *Late calls.* The worker gives a call up after 15 s; the agent does not know
  and goes on. With `CallsLinger` a call given up on waits in `late` until
  `LateLands`. The agent takes changes in order, except that a create first reads
  all peers and queues after that (`InTurn`), and `listClients` never waits. One
  late call at a time is followed.
- *Crash* leaves the held row in `processing` until `LeaseExpires`.
- *Requests after offboarding.* Only creation re-reads the locked account.
- *Purges.* A row that was read as revoked goes whatever it is when it is deleted;
  `purge` remembers a key that had come back (`"overrun"`).

### KeyPromise

What a key is when no outbox, worker or call is looked at: its `phase` (absent,
live, gone, purged), whether it was asked to go (`wanted`), the public key its
owner is shown (`known`), its one `peer`, and the `account`. It is made for an
account in force, is connected to one peer at a time and only while it lives, shows
the key of a peer that is there, ends only when it was asked to and has no peer,
and is forgotten with its account only when all the account's keys have ended. An
administrator's purge looks at it first and forgets it later: one that came back
in between is overrun, and nothing is promised of its peer.
`KeyLifecycle` maps to it by `PhaseOf` (the row's state), `asked` (history),
`pubKey`, `PeerOf` (the peer under the label) and `account`. `Revive` is there only
with `AgentDies`: a toggle's success for an entry that outlived its peer brings a
revoked row back to a live state.

### KeyQuota

`key` has of each row what counting needs: whether it counts, its owner, node
and number. `quota`, `policy`, `node` are the limits; `tx` has, for a creation,
its snapshot, the rows written since (`touched`), the creations committed since
(`missed`), the nodes it counted on and its choice. `Limit` and `Used` are the
effective limit and what counts against it in each mode. Approvals, limits,
policy, capacity, failing, revoking, reissuing and erasing keys are the other
actions, and `CompleteToggle`: a late disable or enable that is written over a
state that did not count.

### NodeRemoval

The statements of a removal (`jobs`, `keys`, `asks`, `read`, `lists`, `erase`,
`null`) in the code's order, with requests and their supersession, reviews,
creations, changes of a key (a deletion, a rotation, a toggle), the worker's
re-arming and edits of the policy between any two of them. The removal lists the
node's keys, drops their jobs in one statement and the keys in another; what is
queued in between stays (`late`, and `unseen` once the key is gone; both *history*
of what the statement on the jobs cannot have seen). A row's foreign keys to the node are `ON DELETE SET NULL`,
so the last statement also widens what still points to it.

### Accounts

Sessions carry `op`, `step` and the rows still to lock or to change. Sign-in,
creation, reinstatement and deletion of one row are single statements (`Alone`);
offboarding and demotion lock the active administrators in order before they
write; both purges and the worker's removal read first and change each row later.
An account has a live key (one that may have a peer on a node) or none. `slipped`,
*history*, has the rows of a pass that were reinstated or offboarded anew since it
read them.

### AccessSync

`user` is `users.status`, `wanted` the configured domain list, `baseline` the
addresses and domains of the last recorded write, `policy` the document at
Cloudflare, `job` the single `access.sync` row, `run` what a run has read so
far. A run is claim, fetch, decide (cap included), disable, re-read, push,
record, finish; every other action may come between two of them, and a push may
land without the worker hearing of it. The document is written as a whole, so a
dashboard edit after the fetch is lost. Rules that are neither addresses nor
domains pass through and are left out. The sync is taken to be configured;
unconfigured runs change nothing.

### NodePeers and PeerFiles

`table` and `config` are the two files, `live` the interface, `call` the mutation
in progress with what it has still to write, `stage` what the panel was told.
Each write is a step; a command may fail or the agent die before any of them. A
container restart loads `config`. `allocatePeerIp` takes the least free host of
the configuration, where a blocked peer shows `0.0.0.0/32`. An import
(`ImportBackup`) takes its turn in the same queue and writes the payload's
configuration, then its table, then syncs; the payload is any pair of files
(`Backups`), and the peers it holds are `"restored"` until they are deleted.
`PeerFiles` keeps per peer its label and `none`, `on` or `off`, and is the order a
reader may rely on: label first, unlabel last, one exposed peer per name. Of what
a backup brought (`restored`) it promises nothing, of the rest that a backup
takes it away at most.

### XrayPeers

One file written as a whole by every call, under one mutex for creations and
another for the rest, none for an import; a call reads, writes, restarts the
container and answers. A write is three steps of one command: `Open` empties the
temporary file, `Fill` puts the content into it, `Move` renames it over
`server.json`. All calls use the same temporary file (`draft`): who opens it again
takes what another filled, two that fill it at once may leave it `Torn`, one whose
file was renamed by another goes on writing into `server.json` or fails
(`MoveInVain`). A cut or torn file is no JSON: whoever reads it to change it fails,
and the container starts with no client of it. A backup is any configuration. `running` is what the container read when it last started;
`answered` what the last answer said of a client.

### NodeChanges

For each kind of change (`update`, `capacity`) the spool's `request`, `pending`
and `result` files and a host `script`; one `.env` and one `agent` between them.
`jobs` and `worker` are the outbox's side, `row` what the panel shows, `poll` an
answer telemetry has read and not recorded yet. Each script reads the whole `.env`
and replaces it in a later step (`Apply`, `WriteEnv`; `Undo`, `Restore`), so one can
take back the other's line. `set-capacity` puts the row to "requested" when it is
asked for (`AskFor`), before any job has run (`early`). "requested" and "running"
are one state, `"waiting"`.

### RulePinning

A session is the list of statements it has still to execute (`todo`), the rows
the current one matched, and what it wrote. The unique index on the pin refuses a
second one and waits for a session that may commit one. The fetcher looks at the
pins, downloads, and publishes in a transaction of its own.

### Traffic

`peer` is the counter on the node, `current` the last one stored, `samples` and
`rollups` the tables. Polls, `node.reconcile` and maintenance passes run in one
process but interleave at every `await`; each may stop anywhere.

## 3. Runs

| Run | Instance | Checks |
|---|---|---|
| `KeyLifecycle_safety` | 1 key, 2 public keys, 2 attempts, 3 requests, 1 crash, late calls | `TypeOK`, `DeleteNeverLost`, `QuietKeyMatchesNode` |
| `KeyLifecycle_liveness` | 2 requests, an agent that dies between its writes, no late calls | `NoStrandedPeer`, `ProvisioningEnds`, `RevokingEnds`, `ImplementsKeyPromise` |
| `AccessSync_safety` | 3 addresses, 1 domain, cap 1, 2 attempts, 2 panel changes, 1 edit, 1 crash | `TypeOK`, `ChangeGetsARun`, `OnlyWithdrawnAreDisabled` |
| `AccessSync_liveness` | the same without edits | `LeaverLeavesPolicy` |
| `NodePeers` | 3 peers, room for 2, 2 names, 2 free hosts, 2 backups, 1 day, 1 failure | `TypeOK`, `AddressesSharedOnlyIfLent`, `AddressIsRemembered`, `DeletedIsCutOff`, `ExpiredGetsBlocked`, `ImplementsPeerFiles` |
| `RulePinning` | 3 versions (2 valid), 2 administrators, 1 fetcher, 2 actions, 1 change of the feed | `TypeOK`, `PinnedIsActiveUnlessRaced`, `StaysServed`, `UnpinnedFollowsFeed` |
| `NodeChanges` | 2 values, 2 jobs, 1 attempt, 2 requests, 1 death | `TypeOK`, `SuccessIsTrueUnlessTorn`, `OutcomeIsTheRequests` |
| `Accounts` | 3 addresses (1 bootstrap), 2 requests and 1 worker at a time, 3 changes | `TypeOK`, `LastAdminStays`, `ErasedWereDue` |
| `XrayPeers` | 2 clients, room for 1, 2 backups of which 1 is imported, 1 day, 1 call besides the creations, 1 failure | `TypeOK`, `AnswersHold`, `ExpiredIsCutOff` |
| `KeyQuota` | 2 each of accounts, nodes, keys and sessions, limits 1 and 2, 1 change | `TypeOK`, `NumbersDiffer`, `RoomHolds` |
| `NodeRemoval` | 2 nodes, 1 account, 2 keys, 2 requests, 2 sessions, 3 transactions | `RemovalTypeOK`, `TargetKept`, `NothingDangles` |
| `Traffic` | 1 key, buckets of 2 ticks, samples kept 2, buckets 4, 5 ticks, 2 units of traffic, 1 reset, 1 reconcile | `CountedOnce`, `SettledAreComplete` |

`CHECK_DEADLOCK FALSE` everywhere: with bounded requests the system may be at
rest, which is not an error.

**Bounds.** *KeyLifecycle*: handlers share nothing between keys but the order of
jobs, which the jobs of one key already exercise; two public keys are the old and
the new one of a rotation. Two attempts give a retry and a last failure; three
requests allow toggle, delete and a second delete or an offboard; `MaxDue` is
large enough for every job those can queue. *AccessSync*: a pinned administrator,
another one and one more person; two changes allow offboard and reinstate; a cap
of one reaches the refusal. *NodePeers*: a third peer gets an address or a name
that went through two others; the backups hold one peer past its date and one
without a label on the same address, or a blocked one without an address. *RulePinning*: two pins, or a pin and a release,
over a fetch of a version that is neither. *NodeChanges*: two jobs are two of one
kind (one overtaking the other) or one of each (both scripts over one `.env`).
*Accounts*: two requests and a pass, with three rows to lock in different orders.
*XrayPeers*: a creation beside another call, the sweep or an import, so that
three calls may be about the temporary file; a second creation gets past the
check for room before an import, or a torn file, has filled it, and is then under
way beside a change of the first client. *KeyQuota*: with a limit
of one, two creations are already one too many; one attempt, since a second is
the first with a newer snapshot. *NodeRemoval*: three transactions are a removal
and two that interleave with it, two at a time. *Traffic*: five ticks take a
sample out of the raw window and a bucket out of the kept ones; two units let a
sum and a double count differ.

**Symmetry** is used where no property is temporal beyond single steps and all
members of a set are alike.

**Fairness**, and why the code gives it:

- `KeyLifecycle`: weak fairness of the worker's steps (the runner's loop never
  returns; each step is a call with a timeout), of the timers, and of the
  maintenance timer. Nobody is obliged to send a request, and the node is not
  assumed to answer: `RevokingEnds` speaks of nodes that come back for good.
- `AccessSync`: the worker's steps, and the hourly timer that arms the row.
- `NodePeers`: every command ends (weak), and the sweep of expired peers gets its
  turn (strong: the mutation queue is first come, first served).
- `RulePinning`: the database carries each session on; the fetcher's timer fires.
- `XrayPeers`: calls are carried on, and the sweep comes round.

## 4. Proofs

TLAPS checks these for all values of the constants, from the modules' named
assumptions only. Each safety theorem follows from an inductive invariant,
because the property alone is not inductive.

| Module | Theorems | Invariant, and what it adds |
|---|---|---|
| `KeyLifecycleProofs` | `TypeCorrect`, `NothingStranded`, `DeletesAreKept`, `QuietKeysMatch`, `PromiseKept`, `NothingIsLeft` | `PeerInv`: a worker about to create, keep or record a peer works on a row that is live (only the end of a revoke takes a row out of the live states, and the worker does one job at a time); one at the end of a revoke has dropped, or has still to drop, every peer under the label. `NothingStranded` needs `~CallsLinger`, and leaves out a key its purge overran: see 5. `DeleteInv` for `DeletesAreKept`: held rows are the worker's job; the peer a revoked row still names is gone and no create brings it back, so a toggle that was under way before the revoke fails and never writes its state over "revoked". It needs `~AgentDies`: an entry left in the table alone answers the toggle. `QuietInv` for `QuietKeysMatch`, from the same assumption: a job of provisioning works on a row that wants the key or is being revoked; a label has at most one peer, and the one just created works; a toggle about to be recorded is what the node does, and a toggle or delete still to land belongs to a job on record; a key at rest with none on record is as its row says. `PromiseInv` for `PromiseKept`: `PeerInv`, and that whatever is being revoked was asked to go, a label has at most one peer, and a key about to be recorded as provisioned works on the node; with `DeleteInv` where the agent does not die. It needs `~CallsLinger` |
| `NodeProofs`, of `NodePeers` | `TypeCorrect`, `AddressesStayApart`, `BlockedCanReturn`, `DeletionHolds`, `Refinement`, `ExposedAreNamed` | `NodeInv`: labels of exposed peers that no backup brought, `FreshIsNew`, and `Plan`, which says for each operation what the files hold given what it has still to write; an import writes of the others at most their absence (`ImportPlan`). `LentInv` for `AddressesStayApart`: an edit keeps each peer's own address, blocked or not, in every write, and a creation takes one that only blocked peers own |
| `NodeProofs`, of `NodeRemoval` | `RemovalTypeCorrect`, `TargetIsKept`, `NothingIsDangling` | `RemovalInv`: what each open transaction has read, locked and written agrees with the rows. Requests it holds are pending; once a removal has cancelled requests, a pending one for its node is in its hands or came after; the keys it erases are its node's, and each of them is one it listed, whose jobs go, or has its job queued after, which `late` has; lists it writes are the ones it read without the node, or fit as an edit left them |
| `RulePinningProofs` | `TypeCorrect`, `PinIsUnique`, `PinIsPublished`, `ServedStays` | `PinInv`: at most one session holds uncommitted pins, and sees one; `RaceInv`: for each suffix of each transaction what its writes and the rows are; `ServeInv` for `ServedStays`: a session at the end of its course publishes its target, or takes the published state from no row but the one it puts aside; what it writes stays its own until it ends, and no statement unlearns a version |
| `AccountsProofs` | `TypeCorrect`, `AnAdministratorStays`, `ErasuresAreDue` | `Guards`: rows locked by a guarded request are active administrators, and one that may write has one besides its target. `Due` for `ErasuresAreDue`: a row that a pass has found and not yet changed is disabled, as old and without a live key as when it was found unless it has slipped, and one it has locked nobody else changes |
| `AccessSyncProofs` | `TypeCorrect`, `NoChangeLeftBehind`, `OnlyWithdrawnDisabled` | `SyncInv`: a run in progress holds the row; a change it has not read is marked; whoever the baseline has is admitted at Cloudflare or was shut out; the same for what a run has fetched, decided and written |
| `TelemetryProofs`, of `NodeChanges` | `TypeCorrect`, `SuccessIsTrue`, `OutcomesAreTheRequests` | `ChangeInv`: the pending marker is the latest request; what a script saved, and the file it is about to put in place, has the line the agent runs with unless torn (a line another script wrote since it read is lost, and `torn`); answers come back in the order of their requests |
| `TelemetryProofs`, of `Traffic` | `TrafficIsCountedOnce`, `SettledBucketsAreComplete` | `TrafficInv`: what is recorded of a key, plus what the counters a poll or reconcile holds would add, plus what the peer has moved since, is no more than has passed (`FitsOf`); the samples there are add to a bucket no more than was recorded of it, and all of it while none of the bucket's own was deleted and each has the one it counts from (`Share`, `Whole`); what a pass has found, and what it has put in place, is that sum for every bucket that had ended (`AllOfRecorded`). Sums over times are compared by the principle of the least number, from well-foundedness |
| `XrayPeersProofs` | `TypeCorrect`, `AnswersStayTrue` | `AnswersInv`: a creation is about one client not yet answered for, a change silences its clients until it answers, and what a call will write, what is in the temporary file and what stands between filling and moving it agree with the answers of the others; where two calls mixed up the file, the clients they could spoil are `lost` |
| `KeyQuotaProofs` | `TypeCorrect`, `NumbersAreUnique`, `RoomIsKept` | `QuotaInv`: a creation that missed none of its account knows all the account's numbers; `RoomInv`: what counts now was counted in its snapshot or made by one it missed, and the rows of nodes and limits it relies on are locked or unchanged, unless something it cannot see made a key count (`overtaken`) |

Both refinements are proved, every step a step of the abstract specification or
none, and checked by TLC: `ImplementsPeerFiles` (`Refinement`) and
`ImplementsKeyPromise` (`PromiseKept`).

`NodeRemoval` takes from its constants that there are finitely many nodes and ids
(`FiniteAssumption`) and that the policy's lists fit at first
(`InitialAssumption`): every write of them passes `checkRecommendedPrefix`, and a
new policy has empty ones.

`Traffic` takes from its constants that maintenance gets through so often that a
bucket which began before the samples kept had ended when the last pass began
(`PeriodAssumption`; 5 names the settings it excludes).

Only model-checked: liveness (`ProvisioningEnds`, `RevokingEnds`,
`LeaverLeavesPolicy`, `ExpiredGetsBlocked`, `UnpinnedFollowsFeed`,
`ExpiredIsCutOff`), since fairness and `ENABLED` are out of the prover's reach.

## 5. Where the properties make exceptions

Each exception is a behaviour of the code that would violate the property.
Most are named by a history variable, so that the property still shows
everything else.

| Property | Exception | Behaviour |
|---|---|---|
| `NoStrandedPeer` | `~CallsLinger` | the worker gives a create up after 15 s, the revoke finds no peer and completes, then the create lands; `node.reconcile` counts it as an orphan only (`processor.ts:244`, `:386`) |
| `NoStrandedPeer` | `"overrun"` | a purge reads the row as revoked and deletes it by id (`postgresRepository.ts:2846-2863` of the API): a toggle that completes in between, over an entry that outlived a death of the agent, has brought it back |
| `RevokingEnds` | `Overwritten`, `RearmCap` | the sweep looks for `revoking` alone (`postgresRepository.ts:863` of the worker) and for so many failures at most: a toggle that completes after the revoke failed writes "active" or "disabled" over it (`:942-955`), and the delete is on record as a failed job only (which is all `DeleteNeverLost` says of it) |
| `AddressesSharedOnlyIfLent` | `lent` | a blocked peer's address is handed to a new one, and enabling it puts both on one address (`amneziaWgServiceBase.ts:378`) |
| `AddressesSharedOnlyIfLent`, `AddressIsRemembered`, `TypeOK`, `ImplementsPeerFiles` | `Restored` | `importBackup` writes the payload's configuration, then its table, and looks at neither (`amneziaWgServiceBase.ts:207-219`) |
| `DeletedIsCutOff` | the import of a backup that holds the peer | the panel is not asked whether it still wants it |
| `OnlyWithdrawnAreDisabled` | `dropped` | a write that landed unrecorded makes the next run take a reinstated account for one shut out by the operator |
| `PinnedIsActiveUnlessRaced` | `raced` | a pin committed between the fetcher's look at the pins and its commit (`rules.ts:610`) |
| `StaysServed` | a quarantined import | it looks for the version it replaces before another session publishes it |
| `SuccessIsTrueUnlessTorn` | `torn` | a script's death between `.env` and the recreated agent, or the other script's restore of a whole `.env`, or a write of the whole file that was read before the other's line was in it (`agent-update.sh:265-279`, `set-capacity.sh:89-91`, no lock in common) |
| `OutcomeIsTheRequests` | `overtaken`, `early` | the poll read its answer before a newer request was recorded; `set-capacity` shows "requested" before any job has run (`postgresRepository.ts:3718-3730` of the API), while the spool still holds the outcome of the request before, which then ends the new wait |
| `LastAdminStays` | `CommitAll`; no row left to lock | a pass over many accounts checks nobody's role; a demotion that waited until no administrator is left to lock goes on |
| `ErasedWereDue` | `slipped` | a pass looks again at a row's keys and not at its status (`packages/db/src/index.ts:303`): an account reinstated, or offboarded anew, after the pass read it is erased |
| `AnswersHold` | `lost` | a creation that writes back what it read before a deletion was written; an import; two calls with one temporary file, torn or renamed by the other (`shellWrite.ts:19-32`) |
| `ExpiredIsCutOff` | `behind` | a restart that failed, or that a call never came to after its write, is not repeated until the next write |
| `RoomHolds` | `overtaken` | a changed policy; a failed key issued again without counting (`postgresRepository.ts:1036` of the worker); a late toggle over a failed, revoking or revoked row, none of which `quotaStates` counts (`:942-955` of the worker, `:139` of the API) |
| `TargetKept` | `slipped` | a request that commits between two statements of its node's removal becomes one for all servers (`postgresRepository.ts:1172-1175`, `schema.ts:373-376`); `createQuotaRequest` reads the node without locking it |
| `NothingDangles` | `unseen`, `crossed` | a key created after the removal listed the node's keys, or a deletion, rotation, toggle or re-arming of a listed one between the two `DELETE`s (`postgresRepository.ts:1160-1168` of the API, against its comment at 1156-1159), leaves a job without a row; two writers of the policy's lists |
| `SettledAreComplete` | `severed` | `maintenance.ts:63-65` counts a bucket's first sample against the last one before the window, which `deleteSamplesBefore` deletes by age alone: after a long silence it may be gone |
| `CountedOnce` | `crossed` | `node.reconcile` writes back counters that a poll has moved on from |

Met while modelling, and not part of a property: a rotation out of attempts puts
an old key in `failed`; after a death of the agent a disable or enable that
completes late can revive a revoked key; a failed
sync of the interface is not repeated when the file already says what is wanted
(`amneziaWgServiceBase.ts:729`); an `access.sync` row is set failed although it was
armed again during the run (`postgresRepository.ts:1016` of the worker); an
address pushed but not recorded and then offboarded stays in the policy
(`LeaverLeavesPolicy` speaks of recorded ones); the numbers of keys differ because
of SERIALIZABLE, not of the row lock the comment at `postgresRepository.ts:1495`
credits; a maintenance interval of 604800 s, the most `packages/contracts` allows,
is as long as raw samples are kept, which `Traffic` excludes.

## 6. Assumptions worth knowing

- One worker process, as the deployment starts it.
- At most one late call to the agent at a time (`KeyLifecycle`).
- Who is an administrator is fixed in `AccessSync` (`Admins`): a promotion between
  a run's reading and its disabling is not there (`Accounts` has it).
- A command of the agent that is given up on is taken to be over: one whose input
  was cut off, or that ends after its time limit, is not modelled.
- An import's keys of the server (preshared key, public key, Xray's own files)
  are left out; what of it decides about peers is there.
- Hours and days go through the same roll-up; `Traffic` has one of them.
- Postgres at the isolation level the code asks for; unique indexes and foreign
  keys as declared in `packages/db/src/schema.ts`.

## 7. Not modelled

The modules cover the code whose order of steps matters. By lines most of the
repository is something else, and what is left out keeps the covered share low:

- *Web front end, command line, deployment and backup scripts*: forms, pages,
  translations, prompts and host provisioning. They keep no state between
  concurrent actors; what they change, they change through the API's operations
  that the modules have.
- *Control API HTTP layer and sign-in*: routing, validation of bodies, tokens and
  headers; a request is one call of a repository operation.
- *Rendering* of configurations, names and device slots: values computed from one row.
- *Service checks, node health and metrics, address lookup*: one row written whole
  by the one process that polls.
- *Release discovery, panel self-update*: the first reads a list and decides; the
  second is the spool protocol of `NodeChanges` with a single kind of request.
- *CIDR set arithmetic, periods*: pure functions of one input, reached by unit tests.
- *Traffic statistics of Xray, reboot, export*: reads and one-shot commands.
- *Deletion of completed jobs and of metrics by age*: single statements.
