---------------------------- MODULE KeyLifecycle ----------------------------
(***************************************************************************)
(* A VPN key from its creation to its purge.  The control API changes the  *)
(* row of the key and queues a job in one transaction; the one worker      *)
(* claims jobs in the order they fall due, talks to the node's agent step  *)
(* by step and writes the result back in another transaction.  Every API   *)
(* action may land between two steps of the worker, a call to the node may *)
(* lose its reply, and the worker may die anywhere.                        *)
(*                                                                         *)
(* A key stands for its row in vpn_keys and for its label on the node:     *)
(* the label is a keyed hash of the row's id, unique per node.             *)
(***************************************************************************)
EXTENDS Naturals

CONSTANTS
    Keys, Users, Owner,     \* key rows, accounts, and whose each key is
    PeerIds,                \* public keys the node can generate for one label
    None,                   \* no public key / no job / no key
    MaxAttempts,            \* maxAttempts of the runner (10)
    RearmCap,               \* failed revoke jobs after which the sweep stops (5)
    AgentDies,              \* may the agent die between two of its file writes?
    CallsLinger,            \* may the agent carry out a call the worker gave up on?
    MaxRequests,            \* bound: jobs the API queues besides the first provision
    MaxCrashes,             \* bound: deaths of the worker
    MaxDue                  \* bound: positions in the order jobs fall due

ASSUME OwnerAssumption == Owner \in [Keys -> Users]
ASSUME NoneAssumption == None \notin PeerIds \cup Keys
ASSUME BoundsAssumption ==
    /\ MaxAttempts \in Nat \ {0}
    /\ {RearmCap, MaxRequests, MaxCrashes, MaxDue} \subseteq Nat
    /\ {AgentDies, CallsLinger} \subseteq BOOLEAN

VARIABLES
    state,          \* vpn_keys.state; "absent" before the row, "purged" after it
    pubKey,         \* vpn_keys.public_key
    account,        \* users.status; "deleted" once the row is gone
    sweep,          \* accounts the retention sweep found eligible, not yet deleted
    purge,          \* per key, has a purge "read" it as revoked, or "overrun" it since?
    rearm,          \* keys the re-arm found without a revoke job, not yet queued
    outbox,         \* the live rows of job_outbox
    failedJobs,     \* per key and type, the number of its failed rows
    peers,          \* the node: each label's peers, as its agent's files hold them
    late,           \* the call given up on that the agent has still to carry out
    nodeUp,         \* does the node answer within the client's timeout?
    worker,         \* the job the worker is on and how far it is
    requests, crashes,  \* bounds
    asked           \* history: a delete of this key was accepted

panel == <<state, pubKey, account, sweep, purge, asked>>
node == <<peers, late>>
vars == <<panel, rearm, outbox, failedJobs, node, nodeUp, worker, requests, crashes>>

-----------------------------------------------------------------------------
(* States and records *)

LiveKeyStates == {"provisioning", "active", "disabled", "revoking", "failed"}
KeyStates == LiveKeyStates \cup {"revoked"}
RevocableKeyStates == LiveKeyStates
RotatableStates == {"active", "failed"}

JobTypes == {"provision", "rotate", "revoke", "disable", "enable"}

\* "ready" and "backoff" are status pending before and after available_at,
\* "held" is processing by the live worker, "orphaned" processing by a dead
\* one, "expired" the same once its lease has run out.
Job == [type : JobTypes, key : Keys, attempts : 0 .. MaxAttempts,
        status : {"ready", "backoff", "held", "orphaned", "expired"},
        due : 1 .. MaxDue]

\* "stale" is an entry of clientsTable whose peer is not in the WireGuard
\* config, "off" a peer whose AllowedIPs were replaced by 0.0.0.0/32.
PeerStatus == {"none", "stale", "on", "off"}

WorkerSteps == {"idle", "load", "orphan", "unorphan", "create", "finish", "cleanup",
                "find", "replace", "list", "drop", "status", "settle", "throw"}

Worker == [pc : WorkerSteps, type : JobTypes \cup {None}, key : Keys \cup {None},
           attempts : 0 .. MaxAttempts, pub : PeerIds \cup {None}, todo : SUBSET PeerIds]

\* A call that changes the node; createClient has no public key to name yet.
Call == [op : {"create", "delete", "disable", "enable"}, key : Keys,
         pub : PeerIds \cup {None}]

IdleWorker ==
    [pc |-> "idle", type |-> None, key |-> None, attempts |-> 0, pub |-> None, todo |-> {}]

RowExists(k) == state[k] \in KeyStates
KeysOf(u) == {k \in Keys : Owner[k] = u}
Configured(k) == {p \in PeerIds : peers[k][p] \in {"on", "off"}}

LiveJob(k, types) == \E j \in outbox : j.key = k /\ j.type \in types

-----------------------------------------------------------------------------
(* The outbox: rows fall due in the order of their numbers, without gaps *)

\* What is left of the outbox when the rows in R leave their places.
Without(R) ==
    LET left == outbox \ R
        closesGap(j) == \E r \in R : r.due < j.due /\ \A i \in left : i.due # r.due
    IN  {[j EXCEPT !.due = IF closesGap(j) THEN @ - 1 ELSE @] : j \in left}

\* d is the next number after those of the jobs in S.
NextDue(d, S) ==
    /\ \A j \in S : j.due < d
    /\ d = 1 \/ \E j \in S : j.due + 1 = d

Enqueue(type, K) ==
    \E d \in 1 .. MaxDue :
        /\ NextDue(d, outbox)
        /\ outbox' = outbox \cup
              {[type |-> type, key |-> k, attempts |-> 0, status |-> "ready", due |-> d] : k \in K}

\* The rows in R fall due again after all others.
MoveToEnd(R, status) ==
    \E d \in 1 .. MaxDue :
        /\ NextDue(d, Without(R))
        /\ outbox' = Without(R) \cup {[j EXCEPT !.status = status, !.due = d] : j \in R}

HeldJobs == {j \in outbox : j.status = "held"}

\* The claimed row becomes completed or failed: it will not be claimed again.
CloseJob == outbox' = Without(HeldJobs)

Request == requests < MaxRequests /\ requests' = requests + 1

-----------------------------------------------------------------------------
(* The control API: each action is one transaction under the row's lock,   *)
(* but for a purge, which takes none: the two of it are its statements.    *)
(* A request authorised before its account was disabled may still arrive   *)
(* after, so only creation, which re-reads the locked account, depends on  *)
(* account.                                                                *)

CreateKey(k) ==
    /\ state[k] = "absent"
    /\ account[Owner[k]] = "active"
    /\ state' = [state EXCEPT ![k] = "provisioning"]
    /\ Enqueue("provision", {k})
    /\ UNCHANGED <<pubKey, account, sweep, purge, asked, rearm, failedJobs, node, nodeUp,
                   worker, requests, crashes>>

\* Owner's and administrator's delete: asking again while revoking is the retry.
RevokeKey(k) ==
    /\ Request
    /\ state[k] \in RevocableKeyStates
    /\ state' = [state EXCEPT ![k] = "revoking"]
    /\ asked' = [asked EXCEPT ![k] = TRUE]
    /\ Enqueue("revoke", {k})
    /\ UNCHANGED <<pubKey, account, sweep, purge, rearm, failedJobs, node, nodeUp, worker,
                   crashes>>

\* Asked for by the owner, or by a rename that changes the exported name.
RotateKey(k) ==
    /\ Request
    /\ state[k] \in RotatableStates
    /\ state' = [state EXCEPT ![k] = "provisioning"]
    /\ Enqueue("rotate", {k})
    /\ UNCHANGED <<pubKey, account, sweep, purge, asked, rearm, failedJobs, node, nodeUp,
                   worker, crashes>>

\* The row takes the target state at once; the node follows with the job.
ToggleKey(k, type) ==
    /\ Request
    /\ \/ type = "disable" /\ state[k] = "active" /\ state' = [state EXCEPT ![k] = "disabled"]
       \/ type = "enable" /\ state[k] = "disabled" /\ state' = [state EXCEPT ![k] = "active"]
    /\ Enqueue(type, {k})
    /\ UNCHANGED <<pubKey, account, sweep, purge, asked, rearm, failedJobs, node, nodeUp,
                   worker, crashes>>

\* A purge reads the row without locking it and goes on only if it is revoked.
PurgeFind(k) ==
    /\ state[k] = "revoked" /\ purge[k] = "none"
    /\ purge' = [purge EXCEPT ![k] = "read"]
    /\ UNCHANGED <<state, pubKey, account, sweep, asked, rearm, outbox, failedJobs, node,
                   nodeUp, worker, requests, crashes>>

\* Then it takes every outbox row that names the key, the one in progress too,
\* and the row by its id, whatever state it is in by now.  A job queued between
\* the two statements stays.
PurgeKey(k) ==
    /\ purge[k] = "read" /\ RowExists(k)
    /\ purge' = [purge EXCEPT ![k] = IF state[k] = "revoked" THEN "read" ELSE "overrun"]
    /\ state' = [state EXCEPT ![k] = "purged"]
    /\ pubKey' = [pubKey EXCEPT ![k] = None]
    /\ \E queued \in SUBSET {j \in outbox : j.key = k /\ j.status = "ready" /\ j.attempts = 0} :
          outbox' = Without({j \in outbox : j.key = k} \ queued)
    /\ failedJobs' = [failedJobs EXCEPT ![k] = [t \in JobTypes |-> 0]]
    /\ UNCHANGED <<account, sweep, asked, rearm, node, nodeUp, worker, requests, crashes>>

\* The account is disabled and every key of it in one of the states is revoked.
Offboard(u, states) ==
    LET K == {k \in KeysOf(u) : state[k] \in states}
    IN  /\ Request
        /\ account' = [account EXCEPT ![u] = "disabled"]
        /\ state' = [k \in Keys |-> IF k \in K THEN "revoking" ELSE state[k]]
        /\ asked' = [k \in Keys |-> asked[k] \/ k \in K]
        /\ Enqueue("revoke", K)
        /\ UNCHANGED <<pubKey, sweep, purge, rearm, failedJobs, node, nodeUp, worker, crashes>>

AdminOffboard(u) == account[u] # "deleted" /\ Offboard(u, RevocableKeyStates)

\* The Access sync found the address gone from the policy.
AccessRemoved(u) == account[u] = "active" /\ Offboard(u, RevocableKeyStates \ {"revoking"})

Reinstate(u) ==
    /\ account[u] = "disabled"
    /\ account' = [account EXCEPT ![u] = "active"]
    /\ UNCHANGED <<state, pubKey, sweep, purge, asked, rearm, outbox, failedJobs, node, nodeUp,
                   worker, requests, crashes>>

\* Mutant: only keys that serve keep an account.
HasServingKeys(u) == \E k \in KeysOf(u) : state[k] \in {"active", "provisioning"}

HasLiveKeys(u) == \E k \in KeysOf(u) : state[k] \in LiveKeyStates

\* The revoked rows go with the account; jobs that name them stay behind.
EraseAccount(u) ==
    /\ account' = [account EXCEPT ![u] = "deleted"]
    /\ state' = [k \in Keys |->
                    IF Owner[k] = u /\ state[k] = "revoked" THEN "purged" ELSE state[k]]
    /\ pubKey' = [k \in Keys |->
                    IF Owner[k] = u /\ state[k] = "revoked" THEN None ELSE pubKey[k]]

DeleteUser(u) ==
    /\ account[u] = "disabled"
    /\ ~HasLiveKeys(u)
    /\ EraseAccount(u)
    /\ UNCHANGED <<sweep, purge, asked, rearm, outbox, failedJobs, node, nodeUp, worker,
                   requests, crashes>>

\* The retention sweep reads who is eligible, then deletes without looking again.
SweepFind(u) ==
    /\ account[u] = "disabled" /\ u \notin sweep
    /\ ~HasLiveKeys(u)
    /\ sweep' = sweep \cup {u}
    /\ UNCHANGED <<state, pubKey, account, purge, asked, rearm, outbox, failedJobs, node,
                   nodeUp, worker, requests, crashes>>

\* A live row that raced in keeps the account: the foreign key undoes the delete.
SweepDelete(u) ==
    /\ u \in sweep
    /\ sweep' = sweep \ {u}
    /\ \/ ~HasLiveKeys(u) /\ EraseAccount(u)
       \/ HasLiveKeys(u) /\ UNCHANGED <<account, state, pubKey>>
    /\ UNCHANGED <<purge, asked, rearm, outbox, failedJobs, node, nodeUp, worker, requests,
                   crashes>>

\* Mutant: a failed revoke counts as one still under way.
RearmFindNeverFailed ==
    LET K == {k \in Keys : /\ state[k] = "revoking"
                           /\ ~LiveJob(k, {"revoke"})
                           /\ failedJobs[k]["revoke"] = 0}
    IN  /\ nodeUp
        /\ rearm = {} /\ K # {}
        /\ rearm' = K
        /\ UNCHANGED <<panel, outbox, failedJobs, node, nodeUp, worker, requests, crashes>>

\* While the node is seen by telemetry, the sweep looks for revokes that ran out
\* of attempts and whose key has no other under way, up to the cap.
RearmFind ==
    LET K == {k \in Keys : /\ state[k] = "revoking"
                           /\ ~LiveJob(k, {"revoke"})
                           /\ failedJobs[k]["revoke"] < RearmCap}
    IN  /\ nodeUp
        /\ rearm = {} /\ K # {}
        /\ rearm' = K
        /\ UNCHANGED <<panel, outbox, failedJobs, node, nodeUp, worker, requests, crashes>>

\* It queues them afresh without looking again: no lock keeps the keys as they were.
Rearm ==
    /\ rearm # {}
    /\ rearm' = {}
    /\ Enqueue("revoke", rearm)
    /\ UNCHANGED <<panel, failedJobs, node, nodeUp, worker, requests, crashes>>

-----------------------------------------------------------------------------
(* The runner: claim, retry with backoff, give up *)

\* Mutant: a job whose worker died is never taken up again.
ClaimableReadyOnly(j) == j.status = "ready"

Claimable(j) == j.status \in {"ready", "expired"}

Claim ==
    /\ worker.pc = "idle"
    /\ \E j \in outbox :
        /\ Claimable(j)
        /\ \A i \in outbox : Claimable(i) => j.due <= i.due
        /\ LET n == IF j.attempts < MaxAttempts THEN j.attempts + 1 ELSE MaxAttempts
           IN  /\ outbox' = (outbox \ {j}) \cup {[j EXCEPT !.status = "held", !.attempts = n]}
               /\ worker' = [IdleWorker EXCEPT !.pc = "load", !.type = j.type,
                                               !.key = j.key, !.attempts = n]
    /\ UNCHANGED <<panel, rearm, failedJobs, node, nodeUp, requests, crashes>>

BackoffElapses(j) ==
    /\ j.status = "backoff"
    /\ MoveToEnd({j}, "ready")
    /\ UNCHANGED <<panel, rearm, failedJobs, node, nodeUp, worker, requests, crashes>>

LeaseExpires(j) ==
    /\ j.status = "orphaned"
    /\ outbox' = (outbox \ {j}) \cup {[j EXCEPT !.status = "expired"]}
    /\ UNCHANGED <<panel, rearm, failedJobs, node, nodeUp, worker, requests, crashes>>

\* The process dies; a row it held stays processing until the lease runs out.
Crash ==
    /\ worker.pc # "idle"
    /\ crashes < MaxCrashes
    /\ crashes' = crashes + 1
    /\ worker' = IdleWorker
    /\ outbox' = (outbox \ HeldJobs) \cup {[j EXCEPT !.status = "orphaned"] : j \in HeldJobs}
    /\ UNCHANGED <<panel, rearm, failedJobs, node, nodeUp, requests>>

RetryJob ==
    /\ worker.pc = "throw"
    /\ worker.attempts < MaxAttempts
    /\ worker' = IdleWorker
    /\ MoveToEnd(HeldJobs, "backoff")
    /\ UNCHANGED <<panel, rearm, failedJobs, node, nodeUp, requests, crashes>>

\* A job whose row was purged meanwhile names no key any more.
FailJob ==
    LET k == worker.key
    IN  /\ worker.pc = "throw"
        /\ worker.attempts >= MaxAttempts
        /\ worker' = IdleWorker
        /\ CloseJob
        /\ IF HeldJobs = {}
           THEN UNCHANGED <<state, failedJobs>>
           ELSE /\ failedJobs' = [failedJobs EXCEPT ![k][worker.type] = @ + 1]
                /\ state' = [state EXCEPT ![k] = IF @ = "provisioning" THEN "failed" ELSE @]
        /\ UNCHANGED <<pubKey, account, sweep, purge, asked, rearm, node, nodeUp, requests,
                       crashes>>

-----------------------------------------------------------------------------
(* The job handlers.  A call either is answered, or it is not in time: the *)
(* agent may then have done all of it, nothing of it, have died between    *)
(* its writes of clientsTable and of the config, or do it later: it goes   *)
(* on after the worker has given up.  Of calls it has still to carry out,  *)
(* one is followed.                                                        *)

At(step) == worker.pc = step
Go(step) == worker' = [worker EXCEPT !.pc = step]
GoWith(step, todo) == worker' = [worker EXCEPT !.pc = step, !.todo = todo]

\* createClient and completeProvision stand inside a try only when provisioning.
OnError == IF worker.type = "provision" THEN "cleanup" ELSE "throw"

SetPeer(p, status) == peers' = [peers EXCEPT ![worker.key][p] = status]

\* A fresh key pair; the label's stale table entries are dropped.
WithNewPeer(k, p, status) ==
    [peers EXCEPT ![k] = [q \in PeerIds |-> CASE q = p -> status
                                              [] q # p /\ @[q] = "stale" -> "none"
                                              [] OTHER -> @[q]]]

\* The public keys a create may generate, none when the label has a configured
\* peer (a conflict).  A key in use or in the worker's hands is not generated.
Creatable(k) ==
    {p \in PeerIds : /\ Configured(k) = {}
                     /\ peers[k][p] = "none"
                     /\ p # pubKey[k]
                     /\ ~(worker.key = k /\ worker.pub = p)}

\* An entry of the table is enough for the agent to answer a toggle with 200.
WithStatus(k, p, op) ==
    [peers EXCEPT ![k][p] = IF p \in Configured(k) THEN IF op = "enable" THEN "on" ELSE "off"
                            ELSE @]

\* What the agent makes of c: a create writes the table before the config, a
\* delete the config before the table.
MayPerform(c) ==
    \/ UNCHANGED peers
    \/ /\ c.op = "create"
       /\ \E p \in Creatable(c.key), status \in {"on", "stale"} :
             /\ status = "stale" => AgentDies
             /\ peers' = WithNewPeer(c.key, p, status)
    \/ /\ c.op = "delete"
       /\ \E status \in {"none", "stale"} :
             /\ status = "stale" => AgentDies /\ c.pub \in Configured(c.key)
             /\ peers' = [peers EXCEPT ![c.key][c.pub] = status]
    \/ c.op \in {"disable", "enable"} /\ peers' = WithStatus(c.key, c.pub, c.op)

\* The agent takes the changes of an interface one after the other, but a create
\* reads every peer before it queues, and another change may get ahead of it.
InTurn(op) == \A c \in late : c.key = worker.key => c.op = "create" /\ op # "create"

Unanswered(op, p) ==
    LET c == [op |-> op, key |-> worker.key, pub |-> p]
    IN  /\ ~nodeUp \/ CallsLinger
        /\ \/ InTurn(op) /\ MayPerform(c) /\ UNCHANGED late
           \/ CallsLinger /\ late = {} /\ late' = {c} /\ UNCHANGED peers
           \/ UNCHANGED node

Answers(op) == nodeUp /\ InTurn(op) /\ UNCHANGED late

\* Nothing but the worker and what the action names moves.
RestOf(unchanged) ==
    UNCHANGED <<account, sweep, purge, asked, rearm, failedJobs, nodeUp, requests, crashes>>
    /\ UNCHANGED unchanged

CompleteJob == worker' = IdleWorker /\ CloseJob

\* Mutant: a revoke, too, is dropped when the row is not in the state it expects.
FirstStepGuarded(type, k) ==
    CASE type = "revoke" /\ state[k] = "revoking" -> "list"
      [] type = "provision" /\ state[k] = "provisioning" -> "orphan"
      [] type = "rotate" /\ state[k] = "provisioning" ->
             IF pubKey[k] = None THEN "find" ELSE "replace"
      [] type \in {"disable", "enable"} -> IF pubKey[k] = None THEN "throw" ELSE "status"
      [] OTHER -> "idle"

\* Mutant: a rotation takes the public key for granted.
FirstStepNoLookup(type, k) ==
    CASE type \in {"provision", "rotate"} /\ state[k] # "provisioning" -> "idle"
      [] type = "provision" /\ state[k] = "provisioning" -> "orphan"
      [] type = "rotate" /\ state[k] = "provisioning" -> "replace"
      [] type = "revoke" -> "list"
      [] type \in {"disable", "enable"} -> IF pubKey[k] = None THEN "throw" ELSE "status"

\* Where a job starts on an existing row; "idle" when there is nothing to do.
\* Only the provisioning jobs look at the state.
FirstStep(type, k) ==
    CASE type \in {"provision", "rotate"} /\ state[k] # "provisioning" -> "idle"
      [] type = "provision" /\ state[k] = "provisioning" -> "orphan"
      [] type = "rotate" /\ state[k] = "provisioning" ->
             IF pubKey[k] = None THEN "find" ELSE "replace"
      [] type = "revoke" -> "list"
      [] type \in {"disable", "enable"} -> IF pubKey[k] = None THEN "throw" ELSE "status"

LoadKey ==
    LET k == worker.key
        step == IF RowExists(k) THEN FirstStep(worker.type, k) ELSE "idle"
    IN  /\ At("load")
        /\ \/ step = "idle" /\ CompleteJob
           \/ /\ step # "idle"
              /\ worker' = [worker EXCEPT !.pc = step, !.pub = pubKey[k],
                                          !.todo = IF step = "replace" THEN {pubKey[k]} ELSE {}]
              /\ UNCHANGED outbox
        /\ RestOf(<<state, pubKey, node>>)

\* listClients when looking for a peer under the label: before provisioning,
\* in the catch of provisioning, and for a rotate of a key without public key.
FindPeer ==
    LET found == CASE worker.pc = "find" -> "replace" [] OTHER -> "unorphan"
        absent == CASE worker.pc = "cleanup" -> "throw" [] OTHER -> "create"
    IN  /\ worker.pc \in {"orphan", "cleanup", "find"}
        /\ \/ ~nodeUp /\ Go("throw")
           \/ nodeUp /\ Configured(worker.key) = {} /\ Go(absent)
           \/ nodeUp /\ \E p \in Configured(worker.key) : GoWith(found, {p})
        /\ RestOf(<<state, pubKey, node, outbox>>)

\* next is the step after an answer of success; 404 answers a peer in neither file.
DeletePeer(p, next) ==
    \/ Unanswered("delete", p) /\ Go("throw")
    \/ Answers("delete") /\ peers[worker.key][p] = "none" /\ UNCHANGED peers /\ Go("throw")
    \/ Answers("delete") /\ peers[worker.key][p] # "none" /\ SetPeer(p, "none")
                         /\ GoWith(next, worker.todo \ {p})

\* An orphan removed is still an error: the attempt is repeated from the start.
DeleteOrphan ==
    /\ At("unorphan")
    /\ \E p \in worker.todo : DeletePeer(p, "throw")
    /\ RestOf(<<state, pubKey, outbox>>)

ReplacePeer ==
    /\ At("replace")
    /\ \E p \in worker.todo : DeletePeer(p, "create")
    /\ RestOf(<<state, pubKey, outbox>>)

\* A configured peer under the label, a full node or no free address is a conflict.
CreatePeer ==
    LET k == worker.key
    IN  /\ At("create")
        /\ \/ Go(OnError) /\ UNCHANGED node
           \/ Unanswered("create", None) /\ Go(OnError)
           \/ /\ Answers("create")
              /\ \E p \in Creatable(k) :
                    /\ peers' = WithNewPeer(k, p, "on")
                    /\ worker' = [worker EXCEPT !.pc = "finish", !.pub = p]
        /\ RestOf(<<state, pubKey, outbox>>)

\* Mutant: a rotation keeps the public key the row already had.
CompleteProvisionOldKey ==
    LET k == worker.key
    IN  /\ At("finish")
        /\ \/ /\ state[k] = "provisioning"
              /\ state' = [state EXCEPT ![k] = "active"]
              /\ pubKey' = [pubKey EXCEPT ![k] = IF @ = None THEN worker.pub ELSE @]
              /\ CompleteJob
           \/ /\ state[k] # "provisioning"
              /\ Go(OnError)
              /\ UNCHANGED <<state, pubKey, outbox>>
        /\ RestOf(node)

\* Guarded by the state it expects; a key revoked meanwhile makes it throw.
CompleteProvision ==
    LET k == worker.key
    IN  /\ At("finish")
        /\ \/ /\ state[k] = "provisioning"
              /\ state' = [state EXCEPT ![k] = "active"]
              /\ pubKey' = [pubKey EXCEPT ![k] = worker.pub]
              /\ CompleteJob
           \/ /\ state[k] # "provisioning"
              /\ Go(OnError)
              /\ UNCHANGED <<state, pubKey, outbox>>
        /\ RestOf(node)

\* Mutant: only the peer with the row's public key is looked for.
ListForRevokeByKey ==
    /\ At("list")
    /\ \/ ~nodeUp /\ Go("throw")
       \/ nodeUp /\ GoWith("drop", Configured(worker.key) \cap {worker.pub})
    /\ RestOf(<<state, pubKey, node, outbox>>)

\* The client is found by public key or by label: both name the same entry.
ListForRevoke ==
    /\ At("list")
    /\ \/ ~nodeUp /\ Go("throw")
       \/ nodeUp /\ GoWith("drop", Configured(worker.key))
    /\ RestOf(<<state, pubKey, node, outbox>>)

DropPeer ==
    /\ At("drop")
    /\ \E p \in worker.todo : DeletePeer(p, "drop")
    /\ RestOf(<<state, pubKey, outbox>>)

\* completeLifecycle does not look at the state it overwrites.
CompleteLifecycle(target) ==
    /\ state' = [state EXCEPT ![worker.key] = IF RowExists(worker.key) THEN target ELSE @]
    /\ CompleteJob
    /\ RestOf(<<pubKey, node>>)

CompleteRevoke == At("drop") /\ worker.todo = {} /\ CompleteLifecycle("revoked")

Toggle == IF worker.type = "enable" THEN "enable" ELSE "disable"

SetClientStatus ==
    LET k == worker.key
        p == worker.pub
    IN  /\ At("status")
        /\ \/ Unanswered(Toggle, p) /\ Go("throw")
           \/ Answers(Toggle) /\ peers[k][p] = "none" /\ UNCHANGED peers /\ Go("throw")
           \/ Answers(Toggle) /\ peers[k][p] # "none" /\ peers' = WithStatus(k, p, Toggle)
                              /\ Go("settle")
        /\ RestOf(<<state, pubKey, outbox>>)

CompleteToggle ==
    At("settle") /\ CompleteLifecycle(IF worker.type = "enable" THEN "active" ELSE "disabled")

-----------------------------------------------------------------------------
(* The node: unreachable or slow for a while, then answering again; a call *)
(* it was too slow for may still land after the worker has moved on.       *)

NodeFlips ==
    /\ nodeUp' = ~nodeUp
    /\ UNCHANGED <<panel, rearm, outbox, failedJobs, node, worker, requests, crashes>>

\* The agent reaches the call in its queue, or was restarted without it.
LateLands ==
    /\ \E c \in late : MayPerform(c)
    /\ late' = {}
    /\ UNCHANGED <<panel, rearm, outbox, failedJobs, nodeUp, worker, requests, crashes>>

-----------------------------------------------------------------------------
Init ==
    /\ state = [k \in Keys |-> "absent"]
    /\ pubKey = [k \in Keys |-> None]
    /\ account = [u \in Users |-> "active"]
    /\ sweep = {}
    /\ purge = [k \in Keys |-> "none"]
    /\ rearm = {}
    /\ outbox = {}
    /\ failedJobs = [k \in Keys |-> [t \in JobTypes |-> 0]]
    /\ peers = [k \in Keys |-> [p \in PeerIds |-> "none"]]
    /\ late = {}
    /\ nodeUp \in BOOLEAN
    /\ worker = IdleWorker
    /\ requests = 0 /\ crashes = 0
    /\ asked = [k \in Keys |-> FALSE]

KeyRequest(k) ==
    \/ CreateKey(k)
    \/ RevokeKey(k)
    \/ RotateKey(k)
    \/ \E type \in {"disable", "enable"} : ToggleKey(k, type)
    \/ PurgeFind(k) \/ PurgeKey(k)

AccountRequest(u) ==
    \/ AdminOffboard(u)
    \/ AccessRemoved(u)
    \/ Reinstate(u)
    \/ DeleteUser(u)
    \/ SweepFind(u)
    \/ SweepDelete(u)

WorkerStep ==
    \/ Claim \/ RetryJob \/ FailJob
    \/ LoadKey \/ FindPeer \/ DeleteOrphan \/ ReplacePeer \/ CreatePeer \/ CompleteProvision
    \/ ListForRevoke \/ DropPeer \/ CompleteRevoke
    \/ SetClientStatus \/ CompleteToggle

Timer == \E j \in outbox : BackoffElapses(j) \/ LeaseExpires(j)

Next ==
    \/ \E k \in Keys : KeyRequest(k)
    \/ \E u \in Users : AccountRequest(u)
    \/ RearmFind \/ Rearm
    \/ WorkerStep
    \/ Timer
    \/ Crash
    \/ NodeFlips
    \/ LateLands

Spec == Init /\ [][Next]_vars

\* The runner's loop never stops taking steps, clocks advance, and the
\* maintenance timer keeps sweeping.  Nobody is obliged to send a request.
Fairness == WF_vars(WorkerStep) /\ WF_vars(Timer) /\ WF_vars(RearmFind) /\ WF_vars(Rearm)

FairSpec == Spec /\ Fairness

-----------------------------------------------------------------------------
(* Properties *)

TypeOK ==
    /\ state \in [Keys -> KeyStates \cup {"absent", "purged"}]
    /\ pubKey \in [Keys -> PeerIds \cup {None}]
    /\ account \in [Users -> {"active", "disabled", "deleted"}]
    /\ sweep \subseteq Users
    /\ purge \in [Keys -> {"none", "read", "overrun"}]
    /\ rearm \subseteq Keys
    /\ outbox \subseteq Job
    /\ failedJobs \in [Keys -> [JobTypes -> Nat]]
    /\ peers \in [Keys -> [PeerIds -> PeerStatus]]
    /\ late \subseteq Call
    /\ nodeUp \in BOOLEAN
    /\ worker \in Worker
    /\ requests \in Nat /\ crashes \in Nat
    /\ asked \in [Keys -> BOOLEAN]

\* A peer the node carries belongs to a row that could still be asked to go:
\* no revoked, purged or erased key leaves a working peer behind.  Calls given
\* up on break it: a create that lands after the revoke found no peer to delete.
\* So does a purge that deletes, unlocked, a row a late toggle has brought back
\* since it was read as revoked.
NoStrandedPeer ==
    \A k \in Keys :
        Configured(k) # {} => state[k] \in LiveKeyStates \/ purge[k] = "overrun"

\* Once a delete was accepted, of the key or of its account with whatever the key
\* was doing at that moment, the key is gone, or a revoke job will still run, or
\* a failed one is left for the sweep and the operator to see.
DeleteNeverLost ==
    \A k \in Keys :
        asked[k] \/ (account[Owner[k]] # "active" /\ state[k] \in LiveKeyStates)
            => \/ state[k] \in {"revoked", "purged"}
               \/ LiveJob(k, {"revoke"})
               \/ failedJobs[k]["revoke"] > 0

\* With no job under way and none that failed, what the row says of the key is
\* what the node does: an active key's one peer works, a disabled key's does not.
QuietKeyMatchesNode ==
    \A k \in Keys :
        /\ ~LiveJob(k, JobTypes)
        /\ \A t \in JobTypes : failedJobs[k][t] = 0
        => \/ state[k] \notin {"active", "disabled"}
           \/ /\ Configured(k) = {pubKey[k]}
              /\ peers[k][pubKey[k]] = IF state[k] = "active" THEN "on" ELSE "off"

\* A key does not stay in provisioning: some attempt succeeds or the last fails.
ProvisioningEnds ==
    \A k \in Keys : state[k] = "provisioning" ~> state[k] # "provisioning"

\* A toggle that had backed off has been written over "revoking" when no revoke
\* is left to run: the sweep, which looks for "revoking", will not find the key.
Overwritten(k) ==
    /\ state[k] \in LiveKeyStates \ {"revoking"}
    /\ ~LiveJob(k, {"revoke"}) /\ k \notin rearm
    /\ failedJobs[k]["revoke"] > 0

\* A node that comes back and stays is rid of every key asked to go, unless the
\* sweep had already spent its cap of failed jobs on the key, or the key is
\* overwritten: then its delete is lost though the node answers.
RevokingEnds ==
    \A k \in Keys :
        <>[]nodeUp => (state[k] = "revoking" ~>
                          \/ state[k] \in {"revoked", "purged"}
                          \/ failedJobs[k]["revoke"] >= RearmCap
                          \/ Overwritten(k))

-----------------------------------------------------------------------------
(* What is left of it when outbox, worker and calls are out of sight *)

PhaseOf == [k \in Keys |-> CASE state[k] \in LiveKeyStates -> "live"
                              [] state[k] = "revoked" -> "gone"
                              [] OTHER -> state[k]]

PeerOf == [k \in Keys |-> IF Configured(k) = {} THEN None ELSE CHOOSE p \in Configured(k) : TRUE]

Promise == INSTANCE KeyPromise WITH phase <- PhaseOf, wanted <- asked, known <- pubKey,
                                    peer <- PeerOf, MayRevive <- AgentDies

\* Whatever the outbox, the worker and the node go through, their owner and the
\* administrators see keys that live, have one peer at a time and end as the
\* promise says.  A death of the agent can bring back a row that was revoked.
ImplementsKeyPromise == Promise!Spec
=============================================================================
