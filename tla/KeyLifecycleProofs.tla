------------------------- MODULE KeyLifecycleProofs -------------------------
(***************************************************************************)
(* Type correctness of KeyLifecycle; that no key that is revoked, purged   *)
(* or erased leaves a working peer on its node unless the agent carries    *)
(* out a call the worker gave up on; that no accepted delete is lost, and  *)
(* that a key at rest is on the node what its row says, unless the agent   *)
(* dies between its two file writes: for any number of keys, accounts,     *)
(* requests, crashes and retries.                                          *)
(***************************************************************************)
EXTENDS KeyLifecycle, TLAPS

USE DEF node

\* A worker that is not idle is on a job that names a key.
WorkerHasJob == worker.pc # "idle" => worker.key \in Keys /\ worker.type \in JobTypes

TypeInv == TypeOK /\ WorkerHasJob

-----------------------------------------------------------------------------
(* The outbox stays a set of jobs *)

\* Closing the gaps that removed rows leave keeps every row's number positive.
LEMMA WithoutType ==
    ASSUME TypeOK, NEW R \in SUBSET outbox
    PROVE  Without(R) \subseteq Job
<1> SUFFICES ASSUME NEW j \in outbox \ R,
                    NEW c \in BOOLEAN,
                    c => \E r \in R : r.due < j.due
             PROVE  [j EXCEPT !.due = IF c THEN @ - 1 ELSE @] \in Job
    BY DEF Without
<1>1. j \in Job /\ R \subseteq Job
    BY DEF TypeOK
<1>2. c => j.due - 1 \in 1 .. MaxDue
    BY <1>1, BoundsAssumption DEF Job
<1> QED
    BY <1>1, <1>2 DEF Job

LEMMA EnqueueType ==
    ASSUME TypeOK, NEW type \in JobTypes, NEW K \in SUBSET Keys, Enqueue(type, K)
    PROVE  outbox' \subseteq Job
<1>1. PICK d \in 1 .. MaxDue :
        outbox' = outbox \cup
            {[type |-> type, key |-> k, attempts |-> 0, status |-> "ready", due |-> d] : k \in K}
    BY DEF Enqueue
<1> QED
    BY <1>1, BoundsAssumption DEF TypeOK, Job

LEMMA MoveToEndType ==
    ASSUME TypeOK, NEW R \in SUBSET outbox, NEW status,
           status \in {"ready", "backoff", "held", "orphaned", "expired"},
           MoveToEnd(R, status)
    PROVE  outbox' \subseteq Job
<1>1. PICK d \in 1 .. MaxDue :
        outbox' = Without(R) \cup {[j EXCEPT !.status = status, !.due = d] : j \in R}
    BY DEF MoveToEnd
<1>2. Without(R) \subseteq Job
    BY WithoutType
<1>3. R \subseteq Job
    BY DEF TypeOK
<1> QED
    BY <1>1, <1>2, <1>3 DEF Job

LEMMA CloseJobType ==
    ASSUME TypeOK, CloseJob
    PROVE  outbox' \subseteq Job
BY WithoutType DEF CloseJob, HeldJobs

-----------------------------------------------------------------------------
(* Type correctness, one lemma per group of actions *)

LEMMA TypeInit ==
    ASSUME Init
    PROVE  TypeInv
BY NoneAssumption, BoundsAssumption
DEF Init, TypeInv, TypeOK, WorkerHasJob, IdleWorker, Worker, WorkerSteps, KeyStates, LiveKeyStates, PeerStatus

\* Whatever one entry of one label becomes, the node's files stay well formed.
LEMMA PeerEditType ==
    ASSUME TypeInv, NEW k \in Keys, NEW p, NEW s, p \in PeerIds => s \in PeerStatus
    PROVE  [peers EXCEPT ![k][p] = s] \in [Keys -> [PeerIds -> PeerStatus]]
<1> DEFINE f == [peers[k] EXCEPT ![p] = s]
<1>1. peers \in [Keys -> [PeerIds -> PeerStatus]] /\ peers[k] \in [PeerIds -> PeerStatus]
    BY DEF TypeInv, TypeOK
<1>2. f \in [PeerIds -> PeerStatus]
    BY <1>1
<1>3. [peers EXCEPT ![k] = f] \in [Keys -> [PeerIds -> PeerStatus]]
    BY <1>1, <1>2
<1> QED
    BY <1>3

LEMMA NewPeerType ==
    ASSUME TypeInv, NEW k \in Keys, NEW p \in PeerIds, NEW s \in PeerStatus
    PROVE  WithNewPeer(k, p, s) \in [Keys -> [PeerIds -> PeerStatus]]
BY DEF WithNewPeer, TypeInv, TypeOK, PeerStatus

LEMMA WithStatusType ==
    ASSUME TypeInv, NEW k \in Keys, NEW p, NEW op
    PROVE  WithStatus(k, p, op) \in [Keys -> [PeerIds -> PeerStatus]]
<1> DEFINE s == IF p \in Configured(k) THEN IF op = "enable" THEN "on" ELSE "off"
                ELSE peers[k][p]
<1>1. p \in PeerIds => s \in PeerStatus
    BY DEF TypeInv, TypeOK, PeerStatus
<1>2. [peers EXCEPT ![k][p] = s] \in [Keys -> [PeerIds -> PeerStatus]]
    BY <1>1, PeerEditType
<1> QED
    BY <1>2 DEF WithStatus

LEMMA PerformType ==
    ASSUME TypeInv, NEW c \in Call, MayPerform(c)
    PROVE  peers' \in [Keys -> [PeerIds -> PeerStatus]]
<1>0. c.key \in Keys /\ c.op \in {"create", "delete", "disable", "enable"}
    BY DEF Call
<1>1. CASE UNCHANGED peers
    BY <1>1 DEF TypeInv, TypeOK
<1>2. ASSUME NEW p \in Creatable(c.key), NEW s \in {"on", "stale"},
             peers' = WithNewPeer(c.key, p, s)
      PROVE  peers' \in [Keys -> [PeerIds -> PeerStatus]]
    BY <1>0, <1>2, NewPeerType DEF Creatable, PeerStatus
<1>3. ASSUME NEW s \in {"none", "stale"}, peers' = [peers EXCEPT ![c.key][c.pub] = s]
      PROVE  peers' \in [Keys -> [PeerIds -> PeerStatus]]
    <2>1. [peers EXCEPT ![c.key][c.pub] = s] \in [Keys -> [PeerIds -> PeerStatus]]
        BY <1>0, PeerEditType DEF PeerStatus
    <2> QED
        BY <1>3, <2>1
<1>4. CASE peers' = WithStatus(c.key, c.pub, c.op)
    BY <1>0, <1>4, WithStatusType
<1> QED
    BY <1>0, <1>1, <1>2, <1>3, <1>4 DEF MayPerform

LEMMA UnansweredType ==
    ASSUME TypeInv, worker.pc # "idle", NEW op \in {"create", "delete", "disable", "enable"},
           NEW p \in PeerIds \cup {None}, Unanswered(op, p)
    PROVE  peers' \in [Keys -> [PeerIds -> PeerStatus]] /\ late' \subseteq Call
<1> DEFINE c == [op |-> op, key |-> worker.key, pub |-> p]
<1>1. c \in Call
    BY DEF Call, TypeInv, WorkerHasJob
<1>2. \/ MayPerform(c) /\ UNCHANGED late
      \/ late' = {c} /\ UNCHANGED peers
      \/ UNCHANGED <<peers, late>>
    BY DEF Unanswered
<1>3. /\ peers \in [Keys -> [PeerIds -> PeerStatus]] /\ late \subseteq Call
      /\ MayPerform(c) => peers' \in [Keys -> [PeerIds -> PeerStatus]]
    BY <1>1, PerformType DEF TypeInv, TypeOK
<1> HIDE DEF c
<1> QED
    BY <1>1, <1>2, <1>3

LEMMA TypeKeyRequest ==
    ASSUME TypeInv, NEW k \in Keys, KeyRequest(k)
    PROVE  TypeInv'
<1> USE DEF TypeInv, TypeOK, WorkerHasJob, KeyStates, LiveKeyStates
<1>1. CASE CreateKey(k)
    <2>1. outbox' \subseteq Job
        BY <1>1, EnqueueType DEF CreateKey, JobTypes
    <2> QED
        BY <1>1, <2>1 DEF CreateKey
<1>2. CASE RevokeKey(k)
    <2>1. outbox' \subseteq Job
        BY <1>2, EnqueueType DEF RevokeKey, JobTypes
    <2> QED
        BY <1>2, <2>1 DEF RevokeKey, Request
<1>3. CASE RotateKey(k)
    <2>1. outbox' \subseteq Job
        BY <1>3, EnqueueType DEF RotateKey, JobTypes
    <2> QED
        BY <1>3, <2>1 DEF RotateKey, Request
<1>4. ASSUME NEW type \in {"disable", "enable"}, ToggleKey(k, type)
      PROVE  TypeInv'
    <2>1. type \in JobTypes
        BY <1>4 DEF JobTypes
    <2>2. /\ Enqueue(type, {k})
          /\ state' \in {[state EXCEPT ![k] = "disabled"], [state EXCEPT ![k] = "active"]}
          /\ requests' = requests + 1
          /\ UNCHANGED <<pubKey, account, sweep, purge, asked, rearm, failedJobs, node, nodeUp,
                         worker, crashes>>
        BY <1>4 DEF ToggleKey, Request
    <2>3. outbox' \subseteq Job
        BY <2>1, <2>2, EnqueueType
    <2>4. state' \in [Keys -> KeyStates \cup {"absent", "purged"}]
        BY <2>2
    <2> QED
        BY <2>2, <2>3, <2>4
<1>5. CASE PurgeKey(k)
    <2>1. \E R \in SUBSET outbox : outbox' = Without(R)
        BY <1>5 DEF PurgeKey
    <2>2. outbox' \subseteq Job
        BY <2>1, WithoutType
    <2>3. purge' \in [Keys -> {"none", "read", "overrun"}]
        BY <1>5 DEF PurgeKey
    <2> QED
        BY <1>5, <2>2, <2>3 DEF PurgeKey
<1>6. CASE PurgeFind(k)
    BY <1>6 DEF PurgeFind
<1> QED
    BY <1>1, <1>2, <1>3, <1>4, <1>5, <1>6 DEF KeyRequest

LEMMA TypeAccountRequest ==
    ASSUME TypeInv, NEW u \in Users, AccountRequest(u)
    PROVE  TypeInv'
<1> USE DEF TypeInv, TypeOK, WorkerHasJob, KeyStates, LiveKeyStates
<1>1. ASSUME NEW states, Offboard(u, states)
      PROVE  TypeInv'
    <2>1. outbox' \subseteq Job
        BY <1>1, EnqueueType DEF Offboard, JobTypes, KeysOf
    <2> QED
        BY <1>1, <2>1 DEF Offboard, Request
<1>2. CASE Reinstate(u)
    BY <1>2 DEF Reinstate
<1>3. CASE DeleteUser(u)
    BY <1>3 DEF DeleteUser, EraseAccount
<1>4. CASE SweepFind(u)
    BY <1>4 DEF SweepFind
<1>5. CASE SweepDelete(u)
    BY <1>5 DEF SweepDelete, EraseAccount
<1> QED
    BY <1>1, <1>2, <1>3, <1>4, <1>5 DEF AccountRequest, AdminOffboard, AccessRemoved

LEMMA TypeRunner ==
    ASSUME TypeInv,
           Claim \/ RetryJob \/ FailJob \/ Timer \/ Crash \/ RearmFind \/ Rearm \/ NodeFlips
           \/ LateLands
    PROVE  TypeInv'
<1> USE DEF TypeInv, TypeOK, WorkerHasJob
<1>0. IdleWorker \in Worker /\ IdleWorker.pc = "idle"
    BY BoundsAssumption DEF IdleWorker, Worker, WorkerSteps
<1>1. CASE Claim
    <2>1. PICK j \in outbox, n \in 0 .. MaxAttempts :
            /\ outbox' = (outbox \ {j}) \cup {[j EXCEPT !.status = "held", !.attempts = n]}
            /\ worker' = [IdleWorker EXCEPT !.pc = "load", !.type = j.type,
                                            !.key = j.key, !.attempts = n]
        <3>1. ASSUME NEW j \in outbox
              PROVE  (IF j.attempts < MaxAttempts THEN j.attempts + 1 ELSE MaxAttempts)
                        \in 0 .. MaxAttempts
            BY BoundsAssumption DEF Job
        <3> QED
            BY <1>1, <3>1 DEF Claim
    <2>2. j \in Job
        OBVIOUS
    <2>3. worker' \in Worker /\ worker'.key \in Keys /\ worker'.type \in JobTypes
        BY <2>1, <2>2 DEF IdleWorker, Worker, WorkerSteps, Job
    <2>4. outbox' \subseteq Job
        BY <2>1, <2>2 DEF Job
    <2> QED
        BY <1>1, <2>3, <2>4 DEF Claim, panel
<1>2. CASE RetryJob
    <2>1. outbox' \subseteq Job
        BY <1>2, MoveToEndType DEF RetryJob, HeldJobs
    <2> QED
        BY <1>0, <1>2, <2>1 DEF RetryJob, panel
<1>3. CASE FailJob
    <2>1. outbox' \subseteq Job
        BY <1>3, CloseJobType DEF FailJob
    <2>2. worker.key \in Keys /\ worker.type \in JobTypes
        BY <1>3 DEF FailJob
    <2>3. failedJobs' \in [Keys -> [JobTypes -> Nat]]
        <3> DEFINE n == failedJobs[worker.key][worker.type] + 1
                   f == [failedJobs[worker.key] EXCEPT ![worker.type] = n]
        <3>1. f \in [JobTypes -> Nat]
            BY <2>2
        <3>2. [failedJobs EXCEPT ![worker.key] = f] \in [Keys -> [JobTypes -> Nat]]
            BY <2>2, <3>1
        <3> QED
            BY <1>3, <3>2 DEF FailJob
    <2>4. state' \in [Keys -> KeyStates \cup {"absent", "purged"}]
        <3>1. state' = state \/ state' =
                [state EXCEPT ![worker.key] = IF @ = "provisioning" THEN "failed" ELSE @]
            BY <1>3 DEF FailJob
        <3> QED
            BY <2>2, <3>1 DEF KeyStates, LiveKeyStates
    <2> QED
        BY <1>0, <1>3, <2>1, <2>3, <2>4 DEF FailJob
<1>4. CASE Timer
    <2>1. PICK j \in outbox : BackoffElapses(j) \/ LeaseExpires(j)
        BY <1>4 DEF Timer
    <2>2. outbox' \subseteq Job
        <3>1. CASE BackoffElapses(j)
            BY <3>1, MoveToEndType DEF BackoffElapses
        <3>2. CASE LeaseExpires(j)
            BY <3>2 DEF LeaseExpires, Job
        <3> QED
            BY <2>1, <3>1, <3>2
    <2> QED
        BY <2>1, <2>2 DEF BackoffElapses, LeaseExpires, panel
<1>5. CASE Crash
    <2>1. outbox' \subseteq Job
        <3>1. ASSUME NEW j \in HeldJobs
              PROVE  [j EXCEPT !.status = "orphaned"] \in Job
            BY DEF HeldJobs, Job
        <3> QED
            BY <1>5, <3>1 DEF Crash
    <2> QED
        BY <1>0, <1>5, <2>1 DEF Crash, panel
<1>6. CASE RearmFind \/ Rearm
    <2>1. outbox' \subseteq Job
        <3>1. rearm \in SUBSET Keys /\ "revoke" \in JobTypes
            BY DEF JobTypes
        <3> QED
            BY <1>6, <3>1, EnqueueType DEF RearmFind, Rearm
    <2> QED
        BY <1>6, <2>1 DEF RearmFind, Rearm, panel
<1>7. CASE NodeFlips
    BY <1>7 DEF NodeFlips, panel
<1>8. CASE LateLands
    <2>1. peers' \in [Keys -> [PeerIds -> PeerStatus]]
        BY <1>8, PerformType DEF LateLands
    <2> QED
        BY <1>8, <2>1 DEF LateLands, panel
<1> QED
    BY <1>1, <1>2, <1>3, <1>4, <1>5, <1>6, <1>7, <1>8

-----------------------------------------------------------------------------
(* The worker's record between its steps *)

LEMMA GoType ==
    ASSUME TypeInv, NEW step \in WorkerSteps, Go(step)
    PROVE  /\ worker' \in Worker
           /\ worker'.pc = step /\ worker'.key = worker.key /\ worker'.type = worker.type
           /\ worker'.pub = worker.pub /\ worker'.todo = worker.todo
BY DEF Go, TypeInv, TypeOK, Worker

LEMMA GoWithType ==
    ASSUME TypeInv, NEW step \in WorkerSteps, NEW todo \in SUBSET PeerIds, GoWith(step, todo)
    PROVE  /\ worker' \in Worker
           /\ worker'.pc = step /\ worker'.key = worker.key /\ worker'.type = worker.type
           /\ worker'.pub = worker.pub /\ worker'.todo = todo
BY DEF GoWith, TypeInv, TypeOK, Worker

\* A delete leaves a well-formed node and worker behind.
LEMMA DeletePeerType ==
    ASSUME TypeInv, worker.pc # "idle", NEW p \in PeerIds, NEW next \in WorkerSteps,
           DeletePeer(p, next)
    PROVE  /\ peers' \in [Keys -> [PeerIds -> PeerStatus]] /\ late' \subseteq Call
           /\ worker' \in Worker /\ worker'.key = worker.key /\ worker'.type = worker.type
<1>0. worker.key \in Keys /\ "throw" \in WorkerSteps /\ worker.todo \in SUBSET PeerIds
    BY DEF TypeInv, TypeOK, WorkerHasJob, WorkerSteps, Worker
<1>1. peers' \in [Keys -> [PeerIds -> PeerStatus]] /\ late' \subseteq Call
    <2>1. CASE Unanswered("delete", p)
        BY <2>1, UnansweredType
    <2>2. CASE Answers("delete") /\ UNCHANGED peers
        BY <2>2 DEF Answers, TypeInv, TypeOK
    <2>3. CASE Answers("delete") /\ SetPeer(p, "none")
        <3>1. [peers EXCEPT ![worker.key][p] = "none"] \in [Keys -> [PeerIds -> PeerStatus]]
            BY <1>0, PeerEditType DEF PeerStatus
        <3> QED
            BY <2>3, <3>1 DEF Answers, SetPeer, TypeInv, TypeOK
    <2> QED
        BY <2>1, <2>2, <2>3 DEF DeletePeer
<1>2. Go("throw") \/ GoWith(next, worker.todo \ {p})
    BY DEF DeletePeer
<1> QED
    BY <1>0, <1>1, <1>2, GoType, GoWithType

LEMMA TypeHandlers ==
    ASSUME TypeInv,
           \/ LoadKey \/ FindPeer \/ DeleteOrphan \/ ReplacePeer \/ CreatePeer
           \/ CompleteProvision \/ ListForRevoke \/ DropPeer \/ CompleteRevoke
           \/ SetClientStatus \/ CompleteToggle
    PROVE  TypeInv'
<1>0. /\ IdleWorker \in Worker /\ IdleWorker.pc = "idle"
      /\ worker.pc # "idle"
      /\ worker.key \in Keys /\ worker.type \in JobTypes
      /\ worker.todo \in SUBSET PeerIds /\ worker.pub \in PeerIds \cup {None}
      /\ {"throw", "cleanup", "create", "replace", "unorphan", "drop", "finish", "settle"}
            \subseteq WorkerSteps
    <2>1. worker.pc # "idle"
        BY DEF LoadKey, FindPeer, DeleteOrphan, ReplacePeer, CreatePeer, CompleteProvision,
           ListForRevoke, DropPeer, CompleteRevoke, SetClientStatus, CompleteToggle, At
    <2>2. IdleWorker \in Worker /\ IdleWorker.pc = "idle"
        BY BoundsAssumption DEF IdleWorker, Worker, WorkerSteps
    <2>3. worker.todo \in SUBSET PeerIds /\ worker.pub \in PeerIds \cup {None}
        BY DEF Worker, TypeInv, TypeOK
    <2> QED
        BY <2>1, <2>2, <2>3 DEF WorkerSteps, TypeInv, WorkerHasJob
<1>1. CASE LoadKey
    <2>1. CASE CompleteJob /\ RestOf(<<state, pubKey, node>>)
        <3>1. outbox' \subseteq Job
            BY <2>1, CloseJobType DEF CompleteJob, TypeInv
        <3> QED
            BY <1>0, <2>1, <3>1 DEF CompleteJob, RestOf, TypeInv, TypeOK, WorkerHasJob
    <2>2. ASSUME NEW step, step = FirstStep(worker.type, worker.key), step # "idle",
                 worker' = [worker EXCEPT !.pc = step, !.pub = pubKey[worker.key],
                        !.todo = IF step = "replace" THEN {pubKey[worker.key]} ELSE {}],
                 RestOf(<<state, pubKey, node>>), UNCHANGED outbox
          PROVE  TypeInv'
        <3>1. step \in WorkerSteps /\ (step = "replace" => pubKey[worker.key] # None)
            BY <1>0, <2>2 DEF FirstStep, WorkerSteps, JobTypes
        <3>2. pubKey[worker.key] \in PeerIds \cup {None}
            BY <1>0 DEF TypeInv, TypeOK
        <3>3. worker' \in Worker /\ worker'.key = worker.key /\ worker'.type = worker.type
            BY <2>2, <3>1, <3>2 DEF Worker, TypeInv, TypeOK
        <3> QED
            BY <1>0, <2>2, <3>3 DEF RestOf, TypeInv, TypeOK, WorkerHasJob
    <2> QED
        BY <1>1, <2>1, <2>2 DEF LoadKey
<1>2. CASE FindPeer
    <2>1. Configured(worker.key) \subseteq PeerIds
        BY DEF Configured
    <2>2. \/ \E step \in {"throw", "create"} : Go(step)
          \/ \E step \in {"replace", "unorphan"}, p \in PeerIds : GoWith(step, {p})
        BY <1>2, <2>1 DEF FindPeer
    <2>3. worker' \in Worker /\ worker'.key = worker.key /\ worker'.type = worker.type
        BY <1>0, <2>2, GoType, GoWithType
    <2> QED
        BY <1>0, <1>2, <2>3 DEF FindPeer, RestOf, TypeInv, TypeOK, WorkerHasJob
<1>3. ASSUME NEW next \in {"throw", "create", "drop"}, NEW p \in worker.todo,
             DeletePeer(p, next), RestOf(<<state, pubKey, outbox>>)
      PROVE  TypeInv'
    <2>1. /\ peers' \in [Keys -> [PeerIds -> PeerStatus]] /\ late' \subseteq Call
          /\ worker' \in Worker /\ worker'.key = worker.key /\ worker'.type = worker.type
        BY <1>0, <1>3, DeletePeerType
    <2> QED
        BY <1>0, <1>3, <2>1 DEF RestOf, TypeInv, TypeOK, WorkerHasJob
<1>4. CASE CreatePeer
    <2>1. OnError \in WorkerSteps
        BY <1>0 DEF OnError
    <2>2. peers' \in [Keys -> [PeerIds -> PeerStatus]] /\ late' \subseteq Call
        <3>1. \/ UNCHANGED node
              \/ Unanswered("create", None)
              \/ /\ UNCHANGED late
                 /\ \E p \in PeerIds : peers' = WithNewPeer(worker.key, p, "on")
            BY <1>4 DEF CreatePeer, Creatable, Answers
        <3>2. ASSUME NEW p \in PeerIds
              PROVE  WithNewPeer(worker.key, p, "on") \in [Keys -> [PeerIds -> PeerStatus]]
            BY <1>0, NewPeerType DEF PeerStatus
        <3> QED
            BY <1>0, <3>1, <3>2, UnansweredType DEF TypeInv, TypeOK
    <2>3. \/ Go(OnError)
          \/ \E p \in PeerIds : worker' = [worker EXCEPT !.pc = "finish", !.pub = p]
        BY <1>4 DEF CreatePeer, Creatable
    <2>4. worker' \in Worker /\ worker'.key = worker.key /\ worker'.type = worker.type
        BY <1>0, <2>1, <2>3, GoType DEF Worker, TypeInv, TypeOK
    <2> QED
        BY <1>0, <1>4, <2>2, <2>4 DEF CreatePeer, RestOf, TypeInv, TypeOK, WorkerHasJob
<1>5. CASE CompleteProvision
    <2>1. OnError \in WorkerSteps
        BY <1>0 DEF OnError
    <2>2. CASE CompleteJob /\ state[worker.key] = "provisioning"
        <3>1. outbox' \subseteq Job
            BY <2>2, CloseJobType DEF CompleteJob, TypeInv
        <3> QED
            BY <1>0, <1>5, <2>2, <3>1 DEF CompleteProvision, CompleteJob, RestOf, TypeInv,
               TypeOK, WorkerHasJob, KeyStates, LiveKeyStates
    <2>3. CASE Go(OnError) /\ UNCHANGED <<state, pubKey, outbox>>
        <3>1. worker' \in Worker /\ worker'.key = worker.key /\ worker'.type = worker.type
            BY <2>1, <2>3, GoType
        <3> QED
            BY <1>0, <1>5, <2>3, <3>1 DEF CompleteProvision, RestOf, TypeInv, TypeOK,
               WorkerHasJob
    <2> QED
        BY <1>5, <2>2, <2>3 DEF CompleteProvision
<1>6. CASE ListForRevoke
    <2>1. Configured(worker.key) \in SUBSET PeerIds
        BY DEF Configured
    <2>2. worker' \in Worker /\ worker'.key = worker.key /\ worker'.type = worker.type
        BY <1>0, <1>6, <2>1, GoType, GoWithType DEF ListForRevoke
    <2> QED
        BY <1>0, <1>6, <2>2 DEF ListForRevoke, RestOf, TypeInv, TypeOK, WorkerHasJob
<1>7. ASSUME NEW target \in {"revoked", "active", "disabled"}, CompleteLifecycle(target)
      PROVE  TypeInv'
    <2>1. outbox' \subseteq Job
        BY <1>7, CloseJobType DEF CompleteLifecycle, CompleteJob, TypeInv
    <2>2. state' \in [Keys -> KeyStates \cup {"absent", "purged"}]
        BY <1>0, <1>7 DEF CompleteLifecycle, TypeInv, TypeOK, KeyStates, LiveKeyStates
    <2> QED
        BY <1>0, <1>7, <2>1, <2>2 DEF CompleteLifecycle, CompleteJob, RestOf, TypeInv, TypeOK,
           WorkerHasJob
<1>8. CASE SetClientStatus
    <2>1. peers' \in [Keys -> [PeerIds -> PeerStatus]] /\ late' \subseteq Call
        <3>1. \/ Unanswered(Toggle, worker.pub)
              \/ UNCHANGED node
              \/ /\ UNCHANGED late
                 /\ peers' = WithStatus(worker.key, worker.pub, Toggle)
            BY <1>8 DEF SetClientStatus, Answers
        <3>2. Toggle \in {"disable", "enable"}
            BY DEF Toggle
        <3> QED
            BY <1>0, <3>1, <3>2, UnansweredType, WithStatusType DEF TypeInv, TypeOK
    <2>2. worker' \in Worker /\ worker'.key = worker.key /\ worker'.type = worker.type
        BY <1>0, <1>8, GoType DEF SetClientStatus
    <2> QED
        BY <1>0, <1>8, <2>1, <2>2 DEF SetClientStatus, RestOf, TypeInv, TypeOK, WorkerHasJob
<1> QED
    BY <1>1, <1>2, <1>3, <1>4, <1>5, <1>6, <1>7, <1>8
    DEF DeleteOrphan, ReplacePeer, DropPeer, CompleteRevoke, CompleteToggle

LEMMA TypeNext ==
    ASSUME TypeInv, [Next]_vars
    PROVE  TypeInv'
<1>1. CASE UNCHANGED vars
    BY <1>1 DEF vars, panel, TypeInv, TypeOK, WorkerHasJob
<1> QED
    BY <1>1, TypeKeyRequest, TypeAccountRequest, TypeRunner, TypeHandlers
    DEF Next, WorkerStep

\* Whatever the API, the worker, the node and the clock do, in whatever order,
\* every row, job and peer keeps a value the schema and the agent allow.
THEOREM TypeCorrect == Spec => []TypeOK
<1>1. Init => TypeInv
    BY TypeInit
<1>2. TypeInv /\ [Next]_vars => TypeInv'
    BY TypeNext
<1>3. TypeInv => TypeOK
    BY DEF TypeInv
<1> QED
    BY <1>1, <1>2, <1>3, PTL DEF Spec

-----------------------------------------------------------------------------
(* No stranded peer, when no call lingers.  Only createClient adds a peer   *)
(* and only a completed revoke takes a row out of the live states, both     *)
(* steps of the one worker: the first on a row still live, the second when  *)
(* no peer is left.                                                         *)

\* Of a key that lives the node may carry a peer, and of one a purge has overrun.
MayHavePeer(k) == state[k] \in LiveKeyStates \/ purge[k] = "overrun"

\* From loadKeyContext to createClient a provisioning row can at worst be asked to
\* go, or be overrun.
ProvisionsLiveRow ==
    worker.pc \in {"orphan", "find", "replace", "create"} => MayHavePeer(worker.key)

\* A revoke still has to delete every peer the node carries under the label.
DropsEveryPeer ==
    worker.pc = "drop" => Configured(worker.key) \subseteq worker.todo

PeerInv == TypeInv /\ late = {} /\ ProvisionsLiveRow /\ DropsEveryPeer /\ NoStrandedPeer

LEMMA NoLateCallStep ==
    ASSUME ~CallsLinger, late = {}, [Next]_vars
    PROVE  late' = {}
<1>1. ASSUME NEW op, NEW p, Unanswered(op, p)
      PROVE  late' = {}
    BY <1>1 DEF Unanswered
<1>2. ASSUME NEW p, NEW next, DeletePeer(p, next)
      PROVE  late' = {}
    BY <1>1, <1>2 DEF DeletePeer, Answers
<1>3. CASE DeleteOrphan \/ ReplacePeer \/ DropPeer
    BY <1>2, <1>3 DEF DeleteOrphan, ReplacePeer, DropPeer
<1>4. CASE CreatePeer \/ SetClientStatus
    BY <1>1, <1>4 DEF CreatePeer, SetClientStatus, Answers
<1>5. CASE \/ LoadKey \/ FindPeer \/ CompleteProvision \/ ListForRevoke
           \/ CompleteRevoke \/ CompleteToggle
    BY <1>5 DEF LoadKey, FindPeer, CompleteProvision, ListForRevoke, CompleteRevoke,
       CompleteToggle, CompleteLifecycle, RestOf
<1>6. ASSUME NEW i \in Keys, KeyRequest(i)
      PROVE  late' = {}
    BY <1>6 DEF KeyRequest, CreateKey, RevokeKey, RotateKey, ToggleKey, PurgeFind, PurgeKey
<1>7. ASSUME NEW u \in Users, AccountRequest(u)
      PROVE  late' = {}
    BY <1>7 DEF AccountRequest, AdminOffboard, AccessRemoved, Offboard, Reinstate, DeleteUser,
       SweepFind, SweepDelete
<1>8. CASE \/ UNCHANGED vars \/ RearmFind \/ Rearm \/ Timer \/ Crash \/ NodeFlips \/ LateLands
           \/ Claim \/ RetryJob \/ FailJob
    BY <1>8 DEF vars, RearmFind, Rearm, Timer, BackoffElapses, LeaseExpires, Crash, NodeFlips, LateLands,
       Claim, RetryJob, FailJob
<1> QED
    BY <1>3, <1>4, <1>5, <1>6, <1>7, <1>8 DEF Next, WorkerStep

LEMMA LiveRowStays ==
    ASSUME TypeInv, [Next]_vars, ~CompleteRevoke, NEW k \in Keys, MayHavePeer(k)
    PROVE  MayHavePeer(k)'
<1> USE DEF TypeInv, TypeOK, WorkerHasJob, LiveKeyStates, MayHavePeer
<1>1. ASSUME NEW i \in Keys, KeyRequest(i)
      PROVE  MayHavePeer(k)'
    BY <1>1 DEF KeyRequest, CreateKey, RevokeKey, RotateKey, ToggleKey, PurgeFind, PurgeKey
<1>2. ASSUME NEW u \in Users, AccountRequest(u)
      PROVE  MayHavePeer(k)'
    BY <1>2 DEF AccountRequest, AdminOffboard, AccessRemoved, Offboard, Reinstate, DeleteUser,
       SweepFind, SweepDelete, EraseAccount
<1>3. CASE FailJob \/ CompleteProvision
    BY <1>3 DEF FailJob, CompleteProvision, RestOf
<1>4. CASE CompleteToggle
    BY <1>4 DEF CompleteToggle, CompleteLifecycle, RestOf
<1>5. ASSUME UNCHANGED <<state, purge>>
      PROVE  MayHavePeer(k)'
    BY <1>5
<1>6. CASE \/ UNCHANGED vars \/ RearmFind \/ Rearm \/ Timer \/ Crash \/ NodeFlips \/ LateLands
           \/ Claim \/ RetryJob
    BY <1>5, <1>6 DEF vars, panel, RearmFind, Rearm, Timer, BackoffElapses, LeaseExpires, Crash, NodeFlips,
       LateLands, Claim, RetryJob
<1>7. CASE \/ LoadKey \/ FindPeer \/ DeleteOrphan \/ ReplacePeer \/ CreatePeer
           \/ ListForRevoke \/ DropPeer \/ SetClientStatus
    BY <1>5, <1>7 DEF LoadKey, FindPeer, DeleteOrphan, ReplacePeer, CreatePeer, ListForRevoke,
       DropPeer, SetClientStatus, RestOf
<1> QED
    BY <1>1, <1>2, <1>3, <1>4, <1>6, <1>7 DEF Next, WorkerStep

LEMMA DeleteAddsNoPeer ==
    ASSUME TypeInv, NEW p, NEW next, DeletePeer(p, next), NEW k \in Keys, NEW q \in PeerIds
    PROVE  peers'[k][q] \in {"on", "off"} => peers[k][q] \in {"on", "off"}
<1>1. CASE UNCHANGED peers
    BY <1>1
<1>2. ASSUME NEW s \in {"none", "stale"}, peers' = [peers EXCEPT ![worker.key][p] = s]
      PROVE  peers'[k][q] \in {"on", "off"} => peers[k][q] \in {"on", "off"}
    <2>1. peers'[k] = IF k = worker.key THEN [peers[k] EXCEPT ![p] = s] ELSE peers[k]
        BY <1>2 DEF TypeInv, TypeOK
    <2>2. peers[k] \in [PeerIds -> PeerStatus]
        BY DEF TypeInv, TypeOK
    <2> QED
        BY <2>1, <2>2
<1> QED
    BY <1>1, <1>2 DEF DeletePeer, Unanswered, MayPerform, SetPeer

LEMMA OnlyCreateAddsPeer ==
    ASSUME TypeInv, late = {}, [Next]_vars, ~CreatePeer, NEW k \in Keys
    PROVE  Configured(k)' \subseteq Configured(k)
<1> SUFFICES ASSUME NEW q \in PeerIds, peers'[k][q] \in {"on", "off"}
             PROVE  peers[k][q] \in {"on", "off"}
    BY DEF Configured
<1>1. ASSUME NEW i \in Keys, KeyRequest(i)
      PROVE  UNCHANGED peers
    BY <1>1 DEF KeyRequest, CreateKey, RevokeKey, RotateKey, ToggleKey, PurgeFind, PurgeKey
<1>2. ASSUME NEW u \in Users, AccountRequest(u)
      PROVE  UNCHANGED peers
    BY <1>2 DEF AccountRequest, AdminOffboard, AccessRemoved, Offboard, Reinstate, DeleteUser,
       SweepFind, SweepDelete
<1>3. ASSUME \/ UNCHANGED vars \/ RearmFind \/ Rearm \/ Timer \/ Crash \/ NodeFlips
             \/ Claim \/ RetryJob \/ FailJob
      PROVE  UNCHANGED peers
    BY <1>3 DEF vars, RearmFind, Rearm, Timer, BackoffElapses, LeaseExpires, Crash, NodeFlips, Claim,
       RetryJob, FailJob
<1>4. ASSUME \/ LoadKey \/ FindPeer \/ CompleteProvision \/ ListForRevoke
             \/ CompleteRevoke \/ CompleteToggle
      PROVE  UNCHANGED peers
    BY <1>4 DEF LoadKey, FindPeer, CompleteProvision, ListForRevoke, CompleteRevoke,
       CompleteToggle, CompleteLifecycle, RestOf
<1>5. CASE DeleteOrphan \/ ReplacePeer \/ DropPeer
    BY <1>5, DeleteAddsNoPeer DEF DeleteOrphan, ReplacePeer, DropPeer
<1>6. CASE SetClientStatus
    <2>1. CASE UNCHANGED peers
        BY <2>1
    <2>2. ASSUME NEW s,
                 peers' = [peers EXCEPT ![worker.key][worker.pub] = s],
                 worker.pub \notin Configured(worker.key) => s = peers[worker.key][worker.pub]
          PROVE  peers[k][q] \in {"on", "off"}
        BY <2>2 DEF Configured, TypeInv, TypeOK
    <2>3. Toggle \in {"disable", "enable"}
        BY DEF Toggle
    <2> QED
        BY <1>6, <2>1, <2>2, <2>3 DEF SetClientStatus, Unanswered, MayPerform, WithStatus
<1>7. ~LateLands
    BY DEF LateLands
<1> QED
    BY <1>1, <1>2, <1>3, <1>4, <1>5, <1>6, <1>7 DEF Next, WorkerStep

\* Where the steps lead that finish a job, hand one out or create a peer.
LEMMA NextSteps ==
    ASSUME TypeInv
    PROVE  /\ Claim => worker'.pc = "load"
           /\ RetryJob \/ FailJob \/ Crash => worker'.pc = "idle"
           /\ CompleteRevoke \/ CompleteToggle => worker'.pc = "idle"
           /\ CompleteProvision => worker'.pc \in {"idle", "cleanup", "throw"}
           /\ CreatePeer => worker'.pc \in {"finish", "cleanup", "throw"}
<1>1. IdleWorker.pc = "idle"
    BY DEF IdleWorker
<1>2. ASSUME NEW step, Go(step)
      PROVE  worker'.pc = step
    BY <1>2 DEF Go, TypeInv, TypeOK, Worker
<1>3. OnError \in {"cleanup", "throw"}
    BY DEF OnError
<1>4. Claim => worker'.pc = "load"
    <2> SUFFICES ASSUME Claim
                 PROVE  worker'.pc = "load"
        OBVIOUS
    <2>1. \E j \in outbox : \E n :
            worker' = [IdleWorker EXCEPT !.pc = "load", !.type = j.type, !.key = j.key,
                                         !.attempts = n]
        BY DEF Claim
    <2> QED
        BY <2>1 DEF IdleWorker
<1>5. CreatePeer => worker'.pc \in {"finish", "cleanup", "throw"}
    BY <1>2, <1>3 DEF CreatePeer, TypeInv, TypeOK, Worker
<1>6. CompleteProvision => worker'.pc \in {"idle", "cleanup", "throw"}
    BY <1>1, <1>2, <1>3 DEF CompleteProvision, CompleteJob
<1> QED
    BY <1>1, <1>4, <1>5, <1>6
    DEF RetryJob, FailJob, Crash, CompleteRevoke, CompleteToggle, CompleteLifecycle, CompleteJob

LEMMA LoadStep ==
    ASSUME TypeInv, LoadKey
    PROVE  \/ worker'.pc = "idle"
           \/ /\ worker'.pc = FirstStep(worker.type, worker.key)
              /\ worker'.pc # "idle"
              /\ worker'.key = worker.key
<1>1. CASE CompleteJob
    BY <1>1 DEF CompleteJob, IdleWorker
<1>2. ASSUME NEW step, step = FirstStep(worker.type, worker.key), step # "idle",
             worker' = [worker EXCEPT !.pc = step, !.pub = pubKey[worker.key],
                            !.todo = IF step = "replace" THEN {pubKey[worker.key]} ELSE {}]
      PROVE  /\ worker'.pc = FirstStep(worker.type, worker.key)
             /\ worker'.pc # "idle"
             /\ worker'.key = worker.key
    BY <1>2 DEF TypeInv, TypeOK, Worker
<1> QED
    BY <1>1, <1>2 DEF LoadKey

LEMMA PeerInit ==
    ASSUME Init
    PROVE  PeerInv
BY TypeInit DEF PeerInv, ProvisionsLiveRow, DropsEveryPeer, NoStrandedPeer, Configured, Init,
   IdleWorker

LEMMA ProvisionsLiveRowStep ==
    ASSUME PeerInv, [Next]_vars
    PROVE  ProvisionsLiveRow'
<1> DEFINE Steps == {"orphan", "find", "replace", "create"}
<1> SUFFICES ASSUME worker'.pc \in Steps
             PROVE  MayHavePeer(worker.key)'
    BY DEF ProvisionsLiveRow
<1> USE DEF PeerInv, TypeInv
<1>1. CASE LoadKey
    <2>1. /\ worker'.pc = FirstStep(worker.type, worker.key) /\ worker'.key = worker.key
          /\ worker.type \in JobTypes /\ UNCHANGED <<state, purge>>
        BY <1>1, LoadStep DEF LoadKey, At, RestOf, WorkerHasJob
    <2>2. state[worker.key] = "provisioning"
        BY <2>1 DEF FirstStep, JobTypes
    <2> QED
        BY <2>1, <2>2 DEF LiveKeyStates, MayHavePeer
<1>2. CASE worker.pc \in Steps /\ worker'.key = worker.key
    <2>1. ~CompleteRevoke
        BY <1>2 DEF CompleteRevoke, At
    <2> QED
        BY <1>2, <2>1, LiveRowStays DEF ProvisionsLiveRow, WorkerHasJob, MayHavePeer
<1>3. CASE FindPeer
    <2>1. worker.pc \in {"orphan", "find"}
        BY <1>3 DEF FindPeer, Go, GoWith, TypeOK, Worker
    <2>2. worker'.key = worker.key
        BY <1>3 DEF FindPeer, Go, GoWith, TypeOK, Worker
    <2> QED
        BY <1>2, <2>1, <2>2
<1>4. CASE ReplacePeer
    <2>1. worker.pc = "replace" /\ worker'.key = worker.key
        BY <1>4 DEF ReplacePeer, At, DeletePeer, Go, GoWith, TypeOK, Worker
    <2> QED
        BY <1>2, <2>1
<1>5. ~(Claim \/ RetryJob \/ FailJob \/ Crash)
    BY NextSteps
<1>6. ~(CompleteRevoke \/ CompleteToggle \/ CompleteProvision \/ CreatePeer)
    BY NextSteps
<1>7. ~(DeleteOrphan \/ ListForRevoke \/ DropPeer \/ SetClientStatus)
    BY DEF DeleteOrphan, ListForRevoke, DropPeer, SetClientStatus, DeletePeer, Go, GoWith, TypeOK,
       Worker
<1>8. ASSUME UNCHANGED worker
      PROVE  MayHavePeer(worker.key)'
    BY <1>2, <1>8
<1>9. CASE UNCHANGED vars \/ RearmFind \/ Rearm \/ Timer \/ NodeFlips \/ LateLands
    BY <1>8, <1>9 DEF vars, RearmFind, Rearm, Timer, BackoffElapses, LeaseExpires, NodeFlips, LateLands
<1>10. ASSUME NEW i \in Keys, KeyRequest(i)
       PROVE  UNCHANGED worker
    BY <1>10 DEF KeyRequest, CreateKey, RevokeKey, RotateKey, ToggleKey, PurgeFind, PurgeKey
<1>11. ASSUME NEW u \in Users, AccountRequest(u)
       PROVE  UNCHANGED worker
    BY <1>11 DEF AccountRequest, AdminOffboard, AccessRemoved, Offboard, Reinstate, DeleteUser,
       SweepFind, SweepDelete
<1> QED
    BY <1>1, <1>3, <1>4, <1>5, <1>6, <1>7, <1>8, <1>9, <1>10, <1>11 DEF Next, WorkerStep

LEMMA DropsEveryPeerStep ==
    ASSUME PeerInv, [Next]_vars
    PROVE  DropsEveryPeer'
<1> SUFFICES ASSUME worker'.pc = "drop"
             PROVE  Configured(worker.key)' \subseteq worker'.todo /\ worker'.key = worker.key
    BY DEF DropsEveryPeer, Configured
<1> USE DEF PeerInv, TypeInv
<1>1. CASE ListForRevoke
    <2>1. worker'.todo = Configured(worker.key) /\ worker'.key = worker.key /\ UNCHANGED peers
        BY <1>1 DEF ListForRevoke, Go, GoWith, RestOf, TypeOK, Worker
    <2> QED
        BY <2>1 DEF Configured
<1>2. CASE DropPeer
    <2>1. PICK p \in worker.todo : DeletePeer(p, "drop")
        BY <1>2 DEF DropPeer
    <2>2. GoWith("drop", worker.todo \ {p}) /\ SetPeer(p, "none")
        BY <2>1 DEF DeletePeer, Go, TypeOK, Worker
    <2>3. worker'.todo = worker.todo \ {p} /\ worker'.key = worker.key
        BY <2>2 DEF GoWith, TypeOK, Worker
    <2>4. worker.key \in Keys /\ Configured(worker.key) \subseteq worker.todo
          /\ worker.todo \in SUBSET PeerIds
        BY <1>2 DEF DropPeer, At, WorkerHasJob, DropsEveryPeer, TypeOK, Worker
    <2>5. peers'[worker.key] = [peers[worker.key] EXCEPT ![p] = "none"]
        BY <2>2, <2>4 DEF SetPeer, TypeOK
    <2>6. peers[worker.key] \in [PeerIds -> PeerStatus]
        BY <2>4 DEF TypeOK
    <2>7. Configured(worker.key)' \subseteq Configured(worker.key) \ {p}
        BY <2>3, <2>4, <2>5, <2>6 DEF Configured
    <2> QED
        BY <2>3, <2>4, <2>7
<1>3. ASSUME UNCHANGED worker, ~CreatePeer
      PROVE  Configured(worker.key)' \subseteq worker'.todo /\ worker'.key = worker.key
    <2>1. worker.key \in Keys /\ Configured(worker.key) \subseteq worker.todo
        BY <1>3 DEF WorkerHasJob, DropsEveryPeer
    <2> QED
        BY <1>3, <2>1, OnlyCreateAddsPeer DEF Configured
<1>4. ~(Claim \/ RetryJob \/ FailJob \/ Crash)
    BY NextSteps
<1>5. ~(CompleteRevoke \/ CompleteToggle \/ CompleteProvision \/ CreatePeer)
    BY NextSteps
<1>6. ~(LoadKey \/ FindPeer \/ DeleteOrphan \/ ReplacePeer \/ SetClientStatus)
    <2>1. ~LoadKey
        <3>1. LoadKey => worker.type \in JobTypes
            BY DEF LoadKey, At, WorkerHasJob
        <3> QED
            BY <3>1, LoadStep DEF FirstStep, JobTypes
    <2>2. ~(FindPeer \/ DeleteOrphan \/ ReplacePeer \/ SetClientStatus)
        BY DEF FindPeer, DeleteOrphan, ReplacePeer, SetClientStatus, DeletePeer, Go, GoWith, TypeOK,
           Worker
    <2> QED
        BY <2>1, <2>2
<1>7. CASE UNCHANGED vars \/ RearmFind \/ Rearm \/ Timer \/ NodeFlips \/ LateLands
    BY <1>3, <1>5, <1>7 DEF vars, RearmFind, Rearm, Timer, BackoffElapses, LeaseExpires, NodeFlips, LateLands
<1>8. ASSUME NEW i \in Keys, KeyRequest(i)
      PROVE  UNCHANGED worker
    BY <1>8 DEF KeyRequest, CreateKey, RevokeKey, RotateKey, ToggleKey, PurgeFind, PurgeKey
<1>9. ASSUME NEW u \in Users, AccountRequest(u)
      PROVE  UNCHANGED worker
    BY <1>9 DEF AccountRequest, AdminOffboard, AccessRemoved, Offboard, Reinstate, DeleteUser,
       SweepFind, SweepDelete
<1> QED
    BY <1>1, <1>2, <1>3, <1>4, <1>5, <1>6, <1>7, <1>8, <1>9 DEF Next, WorkerStep

LEMMA NoStrandedPeerStep ==
    ASSUME PeerInv, [Next]_vars
    PROVE  NoStrandedPeer'
<1> SUFFICES ASSUME NEW k \in Keys, Configured(k)' # {}
             PROVE  MayHavePeer(k)'
    BY DEF NoStrandedPeer, MayHavePeer
<1> USE DEF PeerInv, TypeInv
<1>1. CASE CreatePeer
    <2>1. worker.key \in Keys /\ MayHavePeer(worker.key) /\ UNCHANGED <<state, purge>>
        BY <1>1 DEF CreatePeer, At, RestOf, ProvisionsLiveRow, WorkerHasJob
    <2>2. \/ UNCHANGED peers
          \/ \E p, status : peers' = WithNewPeer(worker.key, p, status)
        BY <1>1 DEF CreatePeer, Unanswered, MayPerform
    <2>3. k # worker.key => peers'[k] = peers[k]
        BY <2>1, <2>2 DEF WithNewPeer, TypeOK
    <2> QED
        BY <2>1, <2>3 DEF Configured, NoStrandedPeer, MayHavePeer
<1>2. CASE CompleteRevoke
    <2>1. /\ UNCHANGED <<peers, purge>>
          /\ worker.key \in Keys /\ Configured(worker.key) = {}
          /\ k # worker.key => state'[k] = state[k]
        BY <1>2 DEF CompleteRevoke, CompleteLifecycle, At, RestOf, WorkerHasJob, DropsEveryPeer,
           TypeOK
    <2> QED
        BY <2>1 DEF Configured, NoStrandedPeer, MayHavePeer
<1>3. CASE ~CreatePeer /\ ~CompleteRevoke
    BY <1>3, OnlyCreateAddsPeer, LiveRowStays DEF NoStrandedPeer, MayHavePeer
<1> QED
    BY <1>1, <1>2, <1>3

\* Where the agent carries out a call in time or never: however requests,
\* crashes, lost replies, retries and purges interleave with the handlers, a
\* peer the node carries belongs to a row that can still be asked to go, or to one
\* that lived again when a purge that had read it as revoked deleted it.
THEOREM NothingStranded ==
    ASSUME ~CallsLinger
    PROVE  Spec => []NoStrandedPeer
<1>1. Init => PeerInv
    BY PeerInit
<1>2. PeerInv /\ [Next]_vars => PeerInv'
    BY TypeNext, NoLateCallStep, ProvisionsLiveRowStep, DropsEveryPeerStep, NoStrandedPeerStep
    DEF PeerInv
<1>3. PeerInv => NoStrandedPeer
    BY DEF PeerInv
<1> QED
    BY <1>1, <1>2, <1>3, PTL DEF Spec

-----------------------------------------------------------------------------
(* No delete is lost, when the agent does not die between its two writes.   *)
(* A row leaves "revoked" only by a toggle that was under way before the    *)
(* revoke; the toggle comes back to a label without the row's peer, fails,  *)
(* and never writes its state.                                              *)

\* A delete that was accepted shows in the row, and a disabled account has
\* asked for every key of it that is still live.
DeletesAsked ==
    \A k \in Keys :
        /\ asked[k] => state[k] # "absent"
        /\ state[k] = "revoking" => asked[k]
        /\ account[Owner[k]] # "active" /\ state[k] \in LiveKeyStates => asked[k]

\* The row the worker holds is the job it is on.
JobOfWorker ==
    \A j \in HeldJobs :
        worker.pc # "idle" /\ j.key = worker.key /\ j.type = worker.type

StepOfType ==
    /\ worker.pc \in {"list", "drop"} => worker.type = "revoke"
    /\ worker.pc \in {"status", "settle"} => worker.type \in {"disable", "enable"}
    /\ worker.pc \in {"orphan", "unorphan", "create", "finish", "cleanup", "find", "replace"} =>
          worker.type \in {"provision", "rotate"}

NothingStale == \A k \in Keys, p \in PeerIds : peers[k][p] # "stale"

\* The peer a revoked row still names is gone, and no create brings it back.
RevokedHasNoPeer ==
    \A k \in Keys : state[k] = "revoked" /\ pubKey[k] # None => peers[k][pubKey[k]] = "none"

DropsOwnPeer ==
    LET k == worker.key
    IN  worker.pc = "drop" /\ pubKey[k] # None /\ peers[k][pubKey[k]] # "none"
            => pubKey[k] \in worker.todo

TogglesOwnPeer ==
    worker.pc = "status" =>
        /\ worker.pub \in PeerIds
        /\ worker.pub = pubKey[worker.key] \/ state[worker.key] = "purged"

SettlesLiveRow == worker.pc = "settle" => state[worker.key] # "revoked"

DeleteInv ==
    /\ TypeInv /\ DeletesAsked /\ JobOfWorker /\ StepOfType
    /\ NothingStale /\ RevokedHasNoPeer /\ DropsOwnPeer /\ TogglesOwnPeer /\ SettlesLiveRow
    /\ DeleteNeverLost

LEMMA DeleteInit ==
    ASSUME Init
    PROVE  DeleteInv
<1>1. IdleWorker.pc = "idle"
    BY DEF IdleWorker
<1> QED
    BY <1>1, TypeInit, OwnerAssumption
    DEF Init, DeleteInv, DeletesAsked, JobOfWorker, HeldJobs, StepOfType, NothingStale,
        RevokedHasNoPeer, DropsOwnPeer, TogglesOwnPeer, SettlesLiveRow, DeleteNeverLost,
        LiveKeyStates

\* What a call makes of one entry: it leaves no stale one, it does not bring back
\* the peer the row names, and a new peer is the label's only one.
EntryFollows(k, q) ==
    /\ peers'[k][q] # "stale"
    /\ peers[k][q] = "none" /\ q = pubKey[k] => peers'[k][q] = "none"
    /\ q \in Configured(k)' \ Configured(k) => Configured(k)' = {q}

LEMMA EditFollows ==
    ASSUME DeleteInv, NEW i \in Keys, NEW p, NEW s, s # "stale",
           s # "none" /\ p \in PeerIds => peers[i][p] # "none",
           peers' = [peers EXCEPT ![i][p] = s],
           NEW k \in Keys, NEW q \in PeerIds
    PROVE  EntryFollows(k, q)
<1>1. peers'[k] = IF k = i THEN [peers[k] EXCEPT ![p] = s] ELSE peers[k]
    BY DEF DeleteInv, TypeInv, TypeOK
<1>2. /\ peers[k] \in [PeerIds -> PeerStatus] /\ peers[k][q] # "stale"
      /\ p \in PeerIds => peers[i][p] # "stale"
    BY DEF DeleteInv, TypeInv, TypeOK, NothingStale
<1>3. q \in Configured(k)' => q \in Configured(k)
    <2>1. CASE k = i /\ q = p
        BY <1>1, <1>2, <2>1 DEF Configured, PeerStatus
    <2>2. CASE ~(k = i /\ q = p)
        BY <1>1, <1>2, <2>2 DEF Configured
    <2> QED
        BY <2>1, <2>2
<1> QED
    BY <1>1, <1>2, <1>3 DEF EntryFollows

LEMMA CreateFollows ==
    ASSUME DeleteInv, NEW i \in Keys, NEW p \in Creatable(i),
           peers' = WithNewPeer(i, p, "on"),
           NEW k \in Keys, NEW q \in PeerIds
    PROVE  EntryFollows(k, q)
<1>1. peers[k] \in [PeerIds -> PeerStatus] /\ peers[k][q] # "stale" /\ p # pubKey[i]
    BY DEF DeleteInv, TypeInv, TypeOK, NothingStale, Creatable
<1>2. k # i => peers'[k] = peers[k]
    BY DEF WithNewPeer, DeleteInv, TypeInv, TypeOK
<1>3. k = i => \A r \in PeerIds : peers'[k][r] = IF r = p THEN "on" ELSE peers[k][r]
    <2> SUFFICES ASSUME NEW r \in PeerIds, k = i
                 PROVE  peers'[k][r] = IF r = p THEN "on" ELSE peers[k][r]
        OBVIOUS
    <2>1. peers[k][r] # "stale"
        BY DEF DeleteInv, NothingStale
    <2> QED
        BY <2>1 DEF WithNewPeer, DeleteInv, TypeInv, TypeOK
<1>4. q \in Configured(k)' \ Configured(k) => Configured(k)' = {q}
    BY <1>2, <1>3 DEF Configured, Creatable
<1> QED
    BY <1>1, <1>2, <1>3, <1>4 DEF EntryFollows

LEMMA StatusFollows ==
    ASSUME DeleteInv, NEW i \in Keys, NEW p, NEW op, peers' = WithStatus(i, p, op),
           NEW k \in Keys, NEW q \in PeerIds
    PROVE  EntryFollows(k, q)
<1> DEFINE s == IF p \in Configured(i) THEN IF op = "enable" THEN "on" ELSE "off"
                ELSE peers[i][p]
<1>1. peers' = [peers EXCEPT ![i][p] = s]
    BY DEF WithStatus
<1>2. CASE p \in PeerIds
    <2>1. s # "stale" /\ (s # "none" => peers[i][p] # "none")
        BY <1>2 DEF Configured, DeleteInv, NothingStale
    <2> HIDE DEF s
    <2> QED
        BY <1>1, <2>1, EditFollows
<1>3. CASE p \notin PeerIds
    <2>1. peers'[k][q] = peers[k][q]
        BY <1>1, <1>3 DEF DeleteInv, TypeInv, TypeOK
    <2> QED
        BY <2>1 DEF EntryFollows, DeleteInv, NothingStale, Configured
<1> QED
    BY <1>2, <1>3

LEMMA UnchangedFollows ==
    ASSUME DeleteInv, UNCHANGED peers, NEW k \in Keys, NEW q \in PeerIds
    PROVE  EntryFollows(k, q)
BY DEF EntryFollows, DeleteInv, NothingStale, Configured

LEMMA PerformFollows ==
    ASSUME DeleteInv, ~AgentDies, NEW c, c.key \in Keys, MayPerform(c),
           NEW k \in Keys, NEW q \in PeerIds
    PROVE  EntryFollows(k, q)
<1>1. \/ UNCHANGED peers
      \/ \E p \in Creatable(c.key) : peers' = WithNewPeer(c.key, p, "on")
      \/ peers' = [peers EXCEPT ![c.key][c.pub] = "none"]
      \/ peers' = WithStatus(c.key, c.pub, c.op)
    BY DEF MayPerform
<1> QED
    BY <1>1, UnchangedFollows, CreateFollows, EditFollows, StatusFollows

LEMMA UnansweredFollows ==
    ASSUME DeleteInv, ~AgentDies, worker.pc # "idle", NEW op, NEW p, Unanswered(op, p),
           NEW k \in Keys, NEW q \in PeerIds
    PROVE  EntryFollows(k, q)
<1> DEFINE c == [op |-> op, key |-> worker.key, pub |-> p]
<1>1. c.key \in Keys
    BY DEF DeleteInv, TypeInv, WorkerHasJob
<1>2. MayPerform(c) \/ UNCHANGED peers
    BY DEF Unanswered
<1> HIDE DEF c
<1> QED
    BY <1>1, <1>2, PerformFollows, UnchangedFollows

LEMMA DeleteFollows ==
    ASSUME DeleteInv, ~AgentDies, worker.pc # "idle", NEW p, NEW next, DeletePeer(p, next),
           NEW k \in Keys, NEW q \in PeerIds
    PROVE  EntryFollows(k, q)
<1>1. worker.key \in Keys
    BY DEF DeleteInv, TypeInv, WorkerHasJob
<1>2. CASE Unanswered("delete", p)
    BY <1>2, UnansweredFollows
<1>3. CASE UNCHANGED peers
    BY <1>3, UnchangedFollows
<1>4. CASE SetPeer(p, "none")
    BY <1>1, <1>4, EditFollows DEF SetPeer
<1> QED
    BY <1>2, <1>3, <1>4 DEF DeletePeer

LEMMA PeersFollow ==
    ASSUME DeleteInv, ~AgentDies, [Next]_vars, NEW k \in Keys, NEW q \in PeerIds
    PROVE  EntryFollows(k, q)
<1>1. ASSUME NEW i \in Keys, KeyRequest(i)
      PROVE  UNCHANGED peers
    BY <1>1 DEF KeyRequest, CreateKey, RevokeKey, RotateKey, ToggleKey, PurgeFind, PurgeKey
<1>2. ASSUME NEW u \in Users, AccountRequest(u)
      PROVE  UNCHANGED peers
    BY <1>2 DEF AccountRequest, AdminOffboard, AccessRemoved, Offboard, Reinstate, DeleteUser,
       SweepFind, SweepDelete
<1>3. ASSUME \/ UNCHANGED vars \/ RearmFind \/ Rearm \/ Timer \/ Crash \/ NodeFlips
             \/ Claim \/ RetryJob \/ FailJob
      PROVE  UNCHANGED peers
    BY <1>3 DEF vars, RearmFind, Rearm, Timer, BackoffElapses, LeaseExpires, Crash, NodeFlips, Claim,
       RetryJob, FailJob
<1>4. ASSUME \/ LoadKey \/ FindPeer \/ CompleteProvision \/ ListForRevoke
             \/ CompleteRevoke \/ CompleteToggle
      PROVE  UNCHANGED peers
    BY <1>4 DEF LoadKey, FindPeer, CompleteProvision, ListForRevoke, CompleteRevoke,
       CompleteToggle, CompleteLifecycle, RestOf
<1>5. CASE DeleteOrphan \/ ReplacePeer \/ DropPeer
    BY <1>5, DeleteFollows DEF DeleteOrphan, ReplacePeer, DropPeer, At
<1>6. CASE SetClientStatus
    <2>1. worker.pc # "idle" /\ worker.key \in Keys
        BY <1>6 DEF SetClientStatus, At, DeleteInv, TypeInv, WorkerHasJob
    <2>2. \/ Unanswered(Toggle, worker.pub)
          \/ UNCHANGED peers
          \/ peers' = WithStatus(worker.key, worker.pub, Toggle)
        BY <1>6 DEF SetClientStatus
    <2> QED
        BY <2>1, <2>2, UnansweredFollows, UnchangedFollows, StatusFollows
<1>7. CASE CreatePeer
    <2>1. worker.pc # "idle" /\ worker.key \in Keys
        BY <1>7 DEF CreatePeer, At, DeleteInv, TypeInv, WorkerHasJob
    <2>2. \/ Unanswered("create", None)
          \/ UNCHANGED peers
          \/ \E p \in Creatable(worker.key) : peers' = WithNewPeer(worker.key, p, "on")
        BY <1>7 DEF CreatePeer
    <2> QED
        BY <2>1, <2>2, UnansweredFollows, UnchangedFollows, CreateFollows
<1>8. CASE LateLands
    <2>1. PICK c \in late : MayPerform(c)
        BY <1>8 DEF LateLands
    <2>2. c.key \in Keys
        BY DEF DeleteInv, TypeInv, TypeOK, Call
    <2> QED
        BY <2>1, <2>2, PerformFollows
<1> QED
    BY <1>1, <1>2, <1>3, <1>4, <1>5, <1>6, <1>7, <1>8, UnchangedFollows DEF Next, WorkerStep

\* How a row may move in one step.
RowFollows(k) ==
    /\ state[k] = "purged" => state'[k] = "purged"
    /\ state[k] # "absent" => state'[k] # "absent"
    /\ state[k] = "revoked" => state'[k] \in {"revoked", "purged"}
    /\ state'[k] = "revoked" /\ state[k] # "revoked" =>
          /\ worker.pc = "drop" /\ worker.todo = {} /\ k = worker.key
          /\ UNCHANGED <<pubKey, peers>>
    /\ state'[k] \in LiveKeyStates /\ state[k] \notin LiveKeyStates =>
          state[k] = "absent" /\ account'[Owner[k]] = "active"
    /\ state'[k] = "revoking" /\ state[k] # "revoking" => asked'[k]

LEMMA RowStep ==
    ASSUME DeleteInv, [Next]_vars, NEW k \in Keys
    PROVE  RowFollows(k)
<1> USE DEF DeleteInv, TypeInv, TypeOK, WorkerHasJob, LiveKeyStates, KeyStates, RowFollows
<1>1. ASSUME NEW i \in Keys, KeyRequest(i)
      PROVE  RowFollows(k)
    <2>1. CASE CreateKey(i)
        BY <2>1 DEF CreateKey
    <2>2. CASE RevokeKey(i)
        BY <2>2 DEF RevokeKey, RevocableKeyStates
    <2>3. CASE RotateKey(i)
        BY <2>3 DEF RotateKey, RotatableStates
    <2>4. ASSUME NEW type \in {"disable", "enable"}, ToggleKey(i, type)
          PROVE  RowFollows(k)
        BY <2>4 DEF ToggleKey
    <2>5. CASE PurgeFind(i) \/ PurgeKey(i)
        BY <2>5 DEF PurgeFind, PurgeKey
    <2> QED
        BY <1>1, <2>1, <2>2, <2>3, <2>4, <2>5 DEF KeyRequest
<1>2. ASSUME NEW u \in Users, AccountRequest(u)
      PROVE  RowFollows(k)
    <2>1. ASSUME NEW states \in SUBSET LiveKeyStates, Offboard(u, states)
          PROVE  RowFollows(k)
        BY <2>1 DEF Offboard
    <2>2. CASE EraseAccount(u)
        BY <2>2 DEF EraseAccount
    <2>3. CASE UNCHANGED state
        BY <2>3
    <2> QED
        BY <1>2, <2>1, <2>2, <2>3
        DEF AccountRequest, AdminOffboard, AccessRemoved, Reinstate, DeleteUser, SweepFind,
            SweepDelete, RevocableKeyStates
<1>3. CASE FailJob \/ CompleteProvision
    BY <1>3 DEF FailJob, CompleteProvision
<1>4. CASE CompleteToggle
    <2>1. state[worker.key] # "revoked"
        BY <1>4 DEF CompleteToggle, At, SettlesLiveRow
    <2> QED
        BY <1>4, <2>1 DEF CompleteToggle, CompleteLifecycle, RowExists
<1>5. CASE CompleteRevoke
    BY <1>5 DEF CompleteRevoke, CompleteLifecycle, RowExists, At, RestOf
<1>6. CASE UNCHANGED state
    BY <1>6
<1>7. CASE \/ UNCHANGED vars \/ RearmFind \/ Rearm \/ Timer \/ Crash \/ NodeFlips \/ LateLands
           \/ Claim \/ RetryJob
    BY <1>6, <1>7 DEF vars, panel, RearmFind, Rearm, Timer, BackoffElapses, LeaseExpires, Crash, NodeFlips,
       LateLands, Claim, RetryJob
<1>8. CASE \/ LoadKey \/ FindPeer \/ DeleteOrphan \/ ReplacePeer \/ CreatePeer
           \/ ListForRevoke \/ DropPeer \/ SetClientStatus
    BY <1>6, <1>8 DEF LoadKey, FindPeer, DeleteOrphan, ReplacePeer, CreatePeer, ListForRevoke,
       DropPeer, SetClientStatus, RestOf
<1> QED
    BY <1>1, <1>2, <1>3, <1>4, <1>5, <1>7, <1>8 DEF Next, WorkerStep

\* A row changes its public key when it is erased or when a provision completes.
LEMMA PubKeyStep ==
    ASSUME TypeInv, [Next]_vars, NEW k \in Keys
    PROVE  \/ pubKey'[k] = pubKey[k]
           \/ pubKey'[k] = None /\ state'[k] = "purged"
           \/ CompleteProvision /\ k = worker.key /\ state'[k] = "active"
<1> USE DEF TypeInv, TypeOK, WorkerHasJob
<1>1. ASSUME NEW i \in Keys, KeyRequest(i)
      PROVE  pubKey'[k] = pubKey[k] \/ (pubKey'[k] = None /\ state'[k] = "purged")
    BY <1>1 DEF KeyRequest, CreateKey, RevokeKey, RotateKey, ToggleKey, PurgeFind, PurgeKey
<1>2. ASSUME NEW u \in Users, AccountRequest(u)
      PROVE  pubKey'[k] = pubKey[k] \/ (pubKey'[k] = None /\ state'[k] = "purged")
    BY <1>2 DEF AccountRequest, AdminOffboard, AccessRemoved, Offboard, Reinstate, DeleteUser,
       SweepFind, SweepDelete, EraseAccount
<1>3. CASE CompleteProvision
    BY <1>3 DEF CompleteProvision
<1>4. CASE \/ UNCHANGED vars \/ RearmFind \/ Rearm \/ Timer \/ Crash \/ NodeFlips \/ LateLands
           \/ Claim \/ RetryJob \/ FailJob
    BY <1>4 DEF vars, panel, RearmFind, Rearm, Timer, BackoffElapses, LeaseExpires, Crash, NodeFlips,
       LateLands, Claim, RetryJob, FailJob
<1>5. CASE \/ LoadKey \/ FindPeer \/ DeleteOrphan \/ ReplacePeer \/ CreatePeer
           \/ ListForRevoke \/ DropPeer \/ SetClientStatus \/ CompleteRevoke \/ CompleteToggle
    BY <1>5 DEF LoadKey, FindPeer, DeleteOrphan, ReplacePeer, CreatePeer, ListForRevoke,
       DropPeer, SetClientStatus, CompleteRevoke, CompleteToggle, CompleteLifecycle, RestOf
<1> QED
    BY <1>1, <1>2, <1>3, <1>4, <1>5 DEF Next, WorkerStep

\* What an accepted delete leaves in the same transaction.
LEMMA AskedStep ==
    ASSUME TypeInv, [Next]_vars, NEW k \in Keys
    PROVE  \/ asked'[k] = asked[k]
           \/ asked'[k] /\ state'[k] = "revoking" /\ LiveJob(k, {"revoke"})'
<1> USE DEF TypeInv, TypeOK
<1>0. ASSUME NEW K, Enqueue("revoke", K), k \in K
      PROVE  LiveJob(k, {"revoke"})'
    <2>1. PICK d \in 1 .. MaxDue :
            outbox' = outbox \cup {[type |-> "revoke", key |-> i, attempts |-> 0,
                                    status |-> "ready", due |-> d] : i \in K}
        BY <1>0 DEF Enqueue
    <2> DEFINE j == [type |-> "revoke", key |-> k, attempts |-> 0, status |-> "ready", due |-> d]
    <2>2. j \in outbox' /\ j.key = k /\ j.type = "revoke"
        BY <1>0, <2>1
    <2> QED
        BY <2>2 DEF LiveJob
<1>1. ASSUME NEW i \in Keys, RevokeKey(i)
      PROVE  \/ asked'[k] = asked[k]
             \/ asked'[k] /\ state'[k] = "revoking" /\ LiveJob(k, {"revoke"})'
    BY <1>0, <1>1 DEF RevokeKey
<1>2. ASSUME NEW u \in Users, NEW states, Offboard(u, states)
      PROVE  \/ asked'[k] = asked[k]
             \/ asked'[k] /\ state'[k] = "revoking" /\ LiveJob(k, {"revoke"})'
    <2> DEFINE K == {i \in KeysOf(u) : state[i] \in states}
    <2>1. /\ Enqueue("revoke", K)
          /\ state'[k] = IF k \in K THEN "revoking" ELSE state[k]
          /\ asked'[k] = (asked[k] \/ k \in K)
        BY <1>2 DEF Offboard
    <2> HIDE DEF K
    <2>2. CASE k \in K
        BY <1>0, <2>1, <2>2
    <2>3. CASE k \notin K
        BY <2>1, <2>3
    <2> QED
        BY <2>2, <2>3
<1>3. ASSUME NEW i \in Keys, KeyRequest(i), ~RevokeKey(i)
      PROVE  UNCHANGED asked
    BY <1>3 DEF KeyRequest, CreateKey, RotateKey, ToggleKey, PurgeFind, PurgeKey
<1>4. CASE \E u \in Users : Reinstate(u) \/ DeleteUser(u) \/ SweepFind(u) \/ SweepDelete(u)
    BY <1>4 DEF Reinstate, DeleteUser, SweepFind, SweepDelete
<1>5. CASE \/ UNCHANGED vars \/ RearmFind \/ Rearm \/ Timer \/ Crash \/ NodeFlips \/ LateLands
           \/ Claim \/ RetryJob \/ FailJob
    BY <1>5 DEF vars, panel, RearmFind, Rearm, Timer, BackoffElapses, LeaseExpires, Crash, NodeFlips,
       LateLands, Claim, RetryJob, FailJob
<1>6. CASE \/ LoadKey \/ FindPeer \/ DeleteOrphan \/ ReplacePeer \/ CreatePeer \/ CompleteProvision
           \/ ListForRevoke \/ DropPeer \/ SetClientStatus \/ CompleteRevoke \/ CompleteToggle
    BY <1>6 DEF LoadKey, FindPeer, DeleteOrphan, ReplacePeer, CreatePeer, CompleteProvision,
       ListForRevoke, DropPeer, SetClientStatus, CompleteRevoke, CompleteToggle,
       CompleteLifecycle, RestOf
<1> QED
    BY <1>1, <1>2, <1>3, <1>4, <1>5, <1>6
    DEF Next, WorkerStep, AccountRequest, AdminOffboard, AccessRemoved

LEMMA DeletesAskedStep ==
    ASSUME DeleteInv, [Next]_vars
    PROVE  DeletesAsked'
<1> SUFFICES ASSUME NEW k \in Keys
             PROVE  /\ asked'[k] => state'[k] # "absent"
                    /\ state'[k] = "revoking" => asked'[k]
                    /\ account'[Owner[k]] # "active" /\ state'[k] \in LiveKeyStates => asked'[k]
    BY DEF DeletesAsked
<1> USE DEF DeleteInv
<1>0. /\ asked[k] => state[k] # "absent"
      /\ state[k] = "revoking" => asked[k]
      /\ account[Owner[k]] # "active" /\ state[k] \in LiveKeyStates => asked[k]
    BY DEF DeletesAsked
<1>1. (asked[k] => asked'[k]) /\ (asked'[k] => state'[k] # "absent")
    BY <1>0, AskedStep, RowStep DEF RowFollows
<1>2. state'[k] = "revoking" => asked'[k]
    BY <1>0, <1>1, RowStep DEF RowFollows
<1>3. ASSUME account'[Owner[k]] # "active", state'[k] \in LiveKeyStates
      PROVE  asked'[k]
    <2>0. Owner[k] \in Users
        BY OwnerAssumption
    <2>1. state[k] \in LiveKeyStates
        BY <1>3, RowStep DEF RowFollows
    <2>2. CASE account'[Owner[k]] = account[Owner[k]]
        BY <1>0, <1>1, <1>3, <2>1, <2>2
    <2>3. ASSUME NEW u \in Users, AdminOffboard(u) \/ AccessRemoved(u),
                 account[Owner[k]] = "active"
          PROVE  asked'[k]
        <3>1. CASE state[k] = "revoking"
            BY <1>0, <1>1, <3>1
        <3>2. CASE Owner[k] = u /\ state[k] # "revoking"
            <4>1. state[k] \in RevocableKeyStates \ {"revoking"}
                BY <2>1, <3>2 DEF RevocableKeyStates
            <4> QED
                BY <2>3, <3>2, <4>1 DEF AdminOffboard, AccessRemoved, Offboard, KeysOf
        <3>3. CASE Owner[k] # u
            BY <1>3, <2>0, <2>3, <3>3 DEF AdminOffboard, AccessRemoved, Offboard, TypeInv, TypeOK
        <3> QED
            BY <3>1, <3>2, <3>3
    <2>4. ASSUME NEW u \in Users, EraseAccount(u), ~HasLiveKeys(u)
          PROVE  asked'[k]
        <3>1. state[k] \in LiveKeyStates
            BY <2>1
        <3>2. Owner[k] # u
            BY <2>4, <3>1 DEF HasLiveKeys, KeysOf
        <3>3. account'[Owner[k]] = account[Owner[k]]
            BY <2>0, <2>4, <3>2 DEF EraseAccount, TypeInv, TypeOK
        <3> QED
            BY <2>2, <2>4, <3>3
    <2>5. ASSUME NEW u \in Users, Reinstate(u)
          PROVE  account'[Owner[k]] = account[Owner[k]]
        BY <1>3, <2>0, <2>5 DEF Reinstate, TypeInv, TypeOK
    <2>6. ASSUME NEW i \in Keys, KeyRequest(i)
          PROVE  UNCHANGED account
        BY <2>6 DEF KeyRequest, CreateKey, RevokeKey, RotateKey, ToggleKey, PurgeFind, PurgeKey
    <2>7. ASSUME NEW u \in Users, SweepFind(u)
          PROVE  UNCHANGED account
        BY <2>7 DEF SweepFind
    <2>8. ASSUME \/ UNCHANGED vars \/ RearmFind \/ Rearm \/ Timer \/ Crash \/ NodeFlips \/ LateLands
                 \/ Claim \/ RetryJob \/ FailJob
          PROVE  UNCHANGED account
        BY <2>8 DEF vars, panel, RearmFind, Rearm, Timer, BackoffElapses, LeaseExpires, Crash, NodeFlips,
           LateLands, Claim, RetryJob, FailJob
    <2>9. ASSUME \/ LoadKey \/ FindPeer \/ DeleteOrphan \/ ReplacePeer \/ CreatePeer
                 \/ CompleteProvision \/ ListForRevoke \/ DropPeer \/ SetClientStatus
                 \/ CompleteRevoke \/ CompleteToggle
          PROVE  UNCHANGED account
        BY <2>9 DEF LoadKey, FindPeer, DeleteOrphan, ReplacePeer, CreatePeer, CompleteProvision,
           ListForRevoke, DropPeer, SetClientStatus, CompleteRevoke, CompleteToggle,
           CompleteLifecycle, RestOf
    <2>10. ASSUME NEW u \in Users, AdminOffboard(u) \/ AccessRemoved(u),
                  account[Owner[k]] # "active"
           PROVE  asked'[k]
        BY <1>0, <1>1, <2>1, <2>10
    <2> QED
        BY <2>2, <2>3, <2>4, <2>5, <2>6, <2>7, <2>8, <2>9, <2>10
        DEF Next, WorkerStep, AccountRequest, DeleteUser, SweepDelete
<1> QED
    BY <1>1, <1>2, <1>3

\* A step of a handler ends the job or goes on with it.
GoesOn == UNCHANGED outbox /\ worker'.key = worker.key /\ worker'.type = worker.type

LEMMA DeleteWorker ==
    ASSUME TypeInv, NEW p, NEW next, DeletePeer(p, next)
    PROVE  /\ worker'.key = worker.key /\ worker'.type = worker.type
           /\ \/ worker'.pc = "throw"
              \/ worker'.pc = next /\ SetPeer(p, "none") /\ worker'.todo = worker.todo \ {p}
<1>1. Go("throw") \/ (SetPeer(p, "none") /\ GoWith(next, worker.todo \ {p}))
    BY DEF DeletePeer
<1> QED
    BY <1>1 DEF Go, GoWith, TypeInv, TypeOK, Worker

\* Where each handler leads; the job is closed only with the worker idle again.
LEMMA HandlerStep ==
    ASSUME TypeInv
    PROVE  /\ LoadKey => \/ CompleteJob
                         \/ /\ GoesOn /\ worker'.pc = FirstStep(worker.type, worker.key)
                            /\ worker'.pc # "idle" /\ worker'.pub = pubKey[worker.key]
           /\ FindPeer => /\ GoesOn
                          /\ worker'.pc \in {"throw", "replace", "unorphan", "create"}
                          /\ worker.pc \in {"orphan", "cleanup", "find"}
           /\ DeleteOrphan => GoesOn /\ worker'.pc = "throw"
           /\ ReplacePeer => GoesOn /\ worker'.pc \in {"throw", "create"}
           /\ CreatePeer => GoesOn /\ worker'.pc \in {"finish", "cleanup", "throw"}
           /\ ListForRevoke => GoesOn /\ worker'.pc \in {"throw", "drop"}
           /\ DropPeer => GoesOn /\ worker'.pc \in {"throw", "drop"}
           /\ SetClientStatus => GoesOn /\ worker'.pc \in {"throw", "settle"}
           /\ CompleteProvision => \/ CompleteJob
                                   \/ GoesOn /\ worker'.pc = OnError
<1> USE DEF TypeInv
<1>1. ASSUME NEW step, Go(step), UNCHANGED outbox
      PROVE  GoesOn /\ worker'.pc = step
    BY <1>1 DEF Go, GoesOn, TypeOK, Worker
<1>2. ASSUME NEW step, NEW todo, GoWith(step, todo), UNCHANGED outbox
      PROVE  GoesOn /\ worker'.pc = step
    BY <1>2 DEF GoWith, GoesOn, TypeOK, Worker
<1>3. ASSUME LoadKey
      PROVE  \/ CompleteJob
             \/ /\ GoesOn /\ worker'.pc = FirstStep(worker.type, worker.key)
                /\ worker'.pc # "idle" /\ worker'.pub = pubKey[worker.key]
    <2>1. ASSUME NEW step, step = FirstStep(worker.type, worker.key), step # "idle",
                 worker' = [worker EXCEPT !.pc = step, !.pub = pubKey[worker.key],
                            !.todo = IF step = "replace" THEN {pubKey[worker.key]} ELSE {}],
                 UNCHANGED outbox
          PROVE  /\ GoesOn /\ worker'.pc = FirstStep(worker.type, worker.key)
                 /\ worker'.pc # "idle" /\ worker'.pub = pubKey[worker.key]
        BY <2>1 DEF GoesOn, TypeOK, Worker
    <2> QED
        BY <1>3, <2>1 DEF LoadKey
<1>4. ASSUME FindPeer
      PROVE  /\ GoesOn /\ worker'.pc \in {"throw", "replace", "unorphan", "create"}
             /\ worker.pc \in {"orphan", "cleanup", "find"}
    <2>1. \/ \E step \in {"throw", "create"} : Go(step)
          \/ \E step \in {"replace", "unorphan"}, p \in Configured(worker.key) : GoWith(step, {p})
        BY <1>4 DEF FindPeer
    <2>2. UNCHANGED outbox /\ worker.pc \in {"orphan", "cleanup", "find"}
        BY <1>4 DEF FindPeer, RestOf
    <2> QED
        BY <1>1, <1>2, <2>1, <2>2
<1>5. ASSUME DeleteOrphan
      PROVE  GoesOn /\ worker'.pc = "throw"
    BY <1>5, DeleteWorker DEF DeleteOrphan, RestOf, GoesOn
<1>6. ASSUME ReplacePeer
      PROVE  GoesOn /\ worker'.pc \in {"throw", "create"}
    BY <1>6, DeleteWorker DEF ReplacePeer, RestOf, GoesOn
<1>7. ASSUME CreatePeer
      PROVE  GoesOn /\ worker'.pc \in {"finish", "cleanup", "throw"}
    <2>1. OnError \in {"cleanup", "throw"} /\ UNCHANGED outbox
        BY <1>7 DEF OnError, CreatePeer, RestOf
    <2>2. Go(OnError) \/ \E p : worker' = [worker EXCEPT !.pc = "finish", !.pub = p]
        BY <1>7 DEF CreatePeer
    <2>3. ASSUME NEW p, worker' = [worker EXCEPT !.pc = "finish", !.pub = p]
          PROVE  GoesOn /\ worker'.pc = "finish"
        BY <2>1, <2>3 DEF GoesOn, TypeOK, Worker
    <2> QED
        BY <1>1, <2>1, <2>2, <2>3
<1>8. ASSUME ListForRevoke
      PROVE  GoesOn /\ worker'.pc \in {"throw", "drop"}
    BY <1>1, <1>2, <1>8 DEF ListForRevoke, RestOf
<1>9. ASSUME DropPeer
      PROVE  GoesOn /\ worker'.pc \in {"throw", "drop"}
    BY <1>9, DeleteWorker DEF DropPeer, RestOf, GoesOn
<1>10. ASSUME SetClientStatus
       PROVE  GoesOn /\ worker'.pc \in {"throw", "settle"}
    <2>1. UNCHANGED outbox /\ (Go("throw") \/ Go("settle"))
        BY <1>10 DEF SetClientStatus, RestOf
    <2> QED
        BY <1>1, <2>1
<1>11. ASSUME CompleteProvision
       PROVE  CompleteJob \/ (GoesOn /\ worker'.pc = OnError)
    <2>1. CompleteJob \/ (Go(OnError) /\ UNCHANGED outbox)
        BY <1>11 DEF CompleteProvision
    <2> QED
        BY <1>1, <2>1
<1> QED
    BY <1>3, <1>4, <1>5, <1>6, <1>7, <1>8, <1>9, <1>10, <1>11

\* Only the runner and the handlers move the worker.
LEMMA WorkerRests ==
    ASSUME [Next]_vars
    PROVE  UNCHANGED worker \/ WorkerStep \/ Crash
<1>1. ASSUME NEW i \in Keys, KeyRequest(i)
      PROVE  UNCHANGED worker
    BY <1>1 DEF KeyRequest, CreateKey, RevokeKey, RotateKey, ToggleKey, PurgeFind, PurgeKey
<1>2. ASSUME NEW u \in Users, AccountRequest(u)
      PROVE  UNCHANGED worker
    BY <1>2 DEF AccountRequest, AdminOffboard, AccessRemoved, Offboard, Reinstate, DeleteUser,
       SweepFind, SweepDelete
<1>3. CASE UNCHANGED vars \/ RearmFind \/ Rearm \/ Timer \/ NodeFlips \/ LateLands
    BY <1>3 DEF vars, RearmFind, Rearm, Timer, BackoffElapses, LeaseExpires, NodeFlips, LateLands
<1> QED
    BY <1>1, <1>2, <1>3 DEF Next

LEMMA StepOfTypeStep ==
    ASSUME TypeInv, StepOfType, [Next]_vars
    PROVE  StepOfType'
<1> USE DEF StepOfType
<1>0. OnError \in {"cleanup", "throw"} /\ (CompleteJob => worker'.pc = "idle") /\ TypeInv
    BY DEF OnError, CompleteJob, IdleWorker
<1>1. CASE UNCHANGED worker
    BY <1>1
<1>2. CASE worker'.pc \in {"idle", "load", "throw"}
    BY <1>2
<1>3. CASE LoadKey
    <2>1. worker.type \in JobTypes
        BY <1>3 DEF LoadKey, At, TypeInv, WorkerHasJob
    <2>2. CASE GoesOn /\ worker'.pc = FirstStep(worker.type, worker.key) /\ worker'.pc # "idle"
        BY <2>1, <2>2 DEF GoesOn, FirstStep, JobTypes
    <2> QED
        BY <1>0, <1>2, <1>3, <2>2, HandlerStep
<1>4. CASE FindPeer \/ DeleteOrphan \/ ReplacePeer \/ CreatePeer
    <2>1. worker.pc \in {"orphan", "cleanup", "find", "unorphan", "replace", "create"}
        BY <1>4 DEF FindPeer, DeleteOrphan, ReplacePeer, CreatePeer, At
    <2>2. worker.type \in {"provision", "rotate"} /\ worker'.type = worker.type
          /\ worker'.pc \in {"throw", "replace", "unorphan", "create", "finish", "cleanup"}
        BY <1>0, <1>4, <2>1, HandlerStep DEF GoesOn
    <2> QED
        BY <2>2
<1>5. CASE CompleteProvision
    <2>1. worker.type \in {"provision", "rotate"}
        BY <1>5 DEF CompleteProvision, At
    <2>2. worker'.pc = "idle" \/ (worker'.type = worker.type /\ worker'.pc \in {"cleanup", "throw"})
        BY <1>0, <1>5, HandlerStep DEF GoesOn
    <2> QED
        BY <2>1, <2>2
<1>6. CASE ListForRevoke \/ DropPeer
    <2>1. worker.pc \in {"list", "drop"}
        BY <1>6 DEF ListForRevoke, DropPeer, At
    <2>2. worker'.type = worker.type /\ worker'.pc \in {"throw", "drop"}
        BY <1>0, <1>6, HandlerStep DEF GoesOn
    <2> QED
        BY <2>1, <2>2
<1>7. CASE SetClientStatus
    <2>1. worker.pc = "status"
        BY <1>7 DEF SetClientStatus, At
    <2>2. worker'.type = worker.type /\ worker'.pc \in {"throw", "settle"}
        BY <1>0, <1>7, HandlerStep DEF GoesOn
    <2> QED
        BY <2>1, <2>2
<1> QED
    BY <1>0, <1>1, <1>2, <1>3, <1>4, <1>5, <1>6, <1>7, WorkerRests, NextSteps DEF WorkerStep

LEMMA RevokedHasNoPeerStep ==
    ASSUME DeleteInv, ~AgentDies, [Next]_vars
    PROVE  RevokedHasNoPeer'
<1> SUFFICES ASSUME NEW k \in Keys, state'[k] = "revoked", pubKey'[k] # None
             PROVE  peers'[k][pubKey'[k]] = "none"
    BY DEF RevokedHasNoPeer
<1>1. pubKey'[k] = pubKey[k] /\ pubKey[k] \in PeerIds
    BY PubKeyStep DEF DeleteInv, TypeInv, TypeOK
<1>2. peers[k][pubKey[k]] = "none"
    <2>1. CASE state[k] = "revoked"
        BY <1>1, <2>1 DEF DeleteInv, RevokedHasNoPeer
    <2>2. CASE state[k] # "revoked"
        <3>1. worker.pc = "drop" /\ worker.todo = {} /\ k = worker.key
            BY <2>2, RowStep DEF RowFollows
        <3> QED
            BY <1>1, <3>1 DEF DeleteInv, DropsOwnPeer
    <2> QED
        BY <2>1, <2>2
<1> QED
    BY <1>1, <1>2, PeersFollow DEF EntryFollows

LEMMA DropsOwnPeerStep ==
    ASSUME DeleteInv, ~AgentDies, [Next]_vars
    PROVE  DropsOwnPeer'
<1> DEFINE k == worker'.key
<1> SUFFICES ASSUME worker'.pc = "drop", pubKey'[k] # None, peers'[k][pubKey'[k]] # "none"
             PROVE  pubKey'[k] \in worker'.todo
    BY DEF DropsOwnPeer
<1>0. TypeInv /\ TypeInv' /\ (CompleteJob => worker'.pc = "idle") /\ OnError \in {"cleanup", "throw"}
    BY TypeNext DEF DeleteInv, CompleteJob, IdleWorker, OnError
<1>1. CASE UNCHANGED worker
    <2>1. k = worker.key /\ k \in Keys /\ worker.pc = "drop"
        BY <1>0, <1>1 DEF TypeInv, WorkerHasJob
    <2>2. pubKey'[k] = pubKey[k] /\ pubKey[k] \in PeerIds
        BY <1>0, <2>1, PubKeyStep DEF TypeInv, TypeOK, CompleteProvision, At
    <2>3. peers[k][pubKey[k]] # "none"
        BY <2>1, <2>2, PeersFollow DEF EntryFollows
    <2> QED
        BY <1>1, <2>1, <2>2, <2>3 DEF DeleteInv, DropsOwnPeer
<1>2. CASE ListForRevoke
    <2>1. k = worker.key /\ k \in Keys /\ UNCHANGED <<peers, pubKey>>
          /\ worker'.todo = Configured(worker.key)
        BY <1>0, <1>2 DEF ListForRevoke, RestOf, At, Go, GoWith, TypeInv, TypeOK, Worker, WorkerHasJob
    <2>2. pubKey[k] \in PeerIds /\ peers[k] \in [PeerIds -> PeerStatus]
        BY <1>0, <2>1 DEF TypeInv, TypeOK
    <2>3. peers[k][pubKey[k]] \in {"on", "off"}
        BY <2>1, <2>2 DEF DeleteInv, NothingStale, PeerStatus
    <2> QED
        BY <2>1, <2>2, <2>3 DEF Configured
<1>3. CASE DropPeer
    <2>1. PICK p \in worker.todo : DeletePeer(p, "drop")
        BY <1>3 DEF DropPeer
    <2>2. /\ k = worker.key /\ k \in Keys /\ UNCHANGED pubKey /\ worker.pc = "drop"
          /\ SetPeer(p, "none") /\ worker'.todo = worker.todo \ {p}
        BY <1>0, <1>3, <2>1, DeleteWorker DEF DropPeer, RestOf, At, TypeInv, WorkerHasJob
    <2>3. pubKey[k] \in PeerIds /\ peers[k] \in [PeerIds -> PeerStatus]
        BY <1>0, <2>2 DEF TypeInv, TypeOK
    <2>4. peers'[k] = [peers[k] EXCEPT ![p] = "none"]
        BY <1>0, <2>2 DEF SetPeer, TypeInv, TypeOK
    <2>5. pubKey[k] # p /\ peers[k][pubKey[k]] # "none"
        BY <2>2, <2>3, <2>4
    <2> QED
        BY <2>2, <2>5 DEF DeleteInv, DropsOwnPeer
<1>4. ~LoadKey
    <2>1. LoadKey => worker.type \in JobTypes
        BY <1>0 DEF LoadKey, At, TypeInv, WorkerHasJob
    <2> QED
        BY <1>0, <2>1, LoadStep DEF FirstStep, JobTypes
<1> QED
    BY <1>0, <1>1, <1>2, <1>3, <1>4, WorkerRests, NextSteps, HandlerStep DEF WorkerStep

LEMMA TogglesOwnPeerStep ==
    ASSUME DeleteInv, [Next]_vars
    PROVE  TogglesOwnPeer'
<1> DEFINE k == worker'.key
<1> SUFFICES ASSUME worker'.pc = "status"
             PROVE  /\ worker'.pub \in PeerIds
                    /\ worker'.pub = pubKey'[k] \/ state'[k] = "purged"
    BY DEF TogglesOwnPeer
<1>0. TypeInv /\ (CompleteJob => worker'.pc = "idle") /\ OnError \in {"cleanup", "throw"}
    BY DEF DeleteInv, CompleteJob, IdleWorker, OnError
<1>1. CASE UNCHANGED worker
    <2>1. k = worker.key /\ k \in Keys /\ worker.pc = "status"
        BY <1>0, <1>1 DEF TypeInv, WorkerHasJob
    <2>2. pubKey'[k] = pubKey[k] \/ state'[k] = "purged"
        BY <1>0, <2>1, PubKeyStep DEF CompleteProvision, At
    <2>3. worker.pub \in PeerIds /\ (worker.pub = pubKey[k] \/ state[k] = "purged")
        BY <2>1 DEF DeleteInv, TogglesOwnPeer
    <2>4. state[k] = "purged" => state'[k] = "purged"
        BY <2>1, RowStep DEF RowFollows
    <2> QED
        BY <1>1, <2>2, <2>3, <2>4
<1>2. CASE LoadKey
    <2>1. worker.type \in JobTypes /\ worker.key \in Keys /\ UNCHANGED pubKey
        BY <1>0, <1>2 DEF LoadKey, At, RestOf, TypeInv, WorkerHasJob
    <2>2. /\ worker'.key = worker.key /\ worker'.pub = pubKey[worker.key]
          /\ FirstStep(worker.type, worker.key) = "status"
        BY <1>0, <1>2, HandlerStep DEF GoesOn
    <2>3. pubKey[worker.key] # None
        BY <2>1, <2>2 DEF FirstStep, JobTypes
    <2> QED
        BY <1>0, <2>1, <2>2, <2>3 DEF TypeInv, TypeOK
<1> QED
    BY <1>0, <1>1, <1>2, WorkerRests, NextSteps, HandlerStep DEF WorkerStep

LEMMA SettlesLiveRowStep ==
    ASSUME DeleteInv, [Next]_vars
    PROVE  SettlesLiveRow'
<1> SUFFICES ASSUME worker'.pc = "settle"
             PROVE  state'[worker'.key] # "revoked"
    BY DEF SettlesLiveRow
<1>0. TypeInv /\ (CompleteJob => worker'.pc = "idle") /\ OnError \in {"cleanup", "throw"}
    BY DEF DeleteInv, CompleteJob, IdleWorker, OnError
<1>1. CASE UNCHANGED worker
    <2>1. worker.pc = "settle" /\ worker.key \in Keys /\ state[worker.key] # "revoked"
        BY <1>0, <1>1 DEF TypeInv, WorkerHasJob, DeleteInv, SettlesLiveRow
    <2> QED
        BY <1>1, <2>1, RowStep DEF RowFollows
<1>2. CASE SetClientStatus
    <2>1. /\ worker.pc = "status" /\ worker.key \in Keys /\ UNCHANGED state
          /\ worker'.key = worker.key
        BY <1>0, <1>2, HandlerStep DEF SetClientStatus, At, RestOf, GoesOn, TypeInv, WorkerHasJob
    <2>2. peers[worker.key][worker.pub] # "none"
        BY <1>0, <1>2 DEF SetClientStatus, Go, TypeInv, TypeOK, Worker
    <2>3. worker.pub \in PeerIds /\ (worker.pub = pubKey[worker.key] \/ state[worker.key] = "purged")
        BY <2>1 DEF DeleteInv, TogglesOwnPeer
    <2>4. worker.pub # None
        BY <2>3, NoneAssumption
    <2> QED
        BY <2>1, <2>2, <2>3, <2>4 DEF DeleteInv, RevokedHasNoPeer
<1>3. ~LoadKey
    <2>1. LoadKey => worker.type \in JobTypes
        BY <1>0 DEF LoadKey, At, TypeInv, WorkerHasJob
    <2> QED
        BY <1>0, <2>1, LoadStep DEF FirstStep, JobTypes
<1> QED
    BY <1>0, <1>1, <1>2, <1>3, WorkerRests, NextSteps, HandlerStep DEF WorkerStep

Same(i, j) == i.key = j.key /\ i.type = j.type /\ i.status = j.status

\* Rows move up, but what they ask for stays.
LEMMA WithoutRows ==
    ASSUME TypeInv, NEW R
    PROVE  /\ \A j \in outbox \ R : \E i \in Without(R) : Same(i, j)
           /\ \A i \in Without(R) : \E j \in outbox \ R : Same(i, j)
<1>1. ASSUME NEW j \in outbox, NEW c
      PROVE  Same([j EXCEPT !.due = IF c THEN @ - 1 ELSE @], j)
    BY DEF Same, TypeInv, TypeOK, Job
<1> QED
    BY <1>1 DEF Without

LEMMA EnqueuedRows ==
    ASSUME NEW type, NEW K, Enqueue(type, K)
    PROVE  outbox \subseteq outbox' /\ \A j \in outbox' \ outbox : j.status = "ready"
BY DEF Enqueue

LEMMA MovedRows ==
    ASSUME TypeInv, NEW R \in SUBSET outbox, NEW status, MoveToEnd(R, status)
    PROVE  /\ \A j \in outbox : \E i \in outbox' : i.key = j.key /\ i.type = j.type
           /\ \A i \in outbox' : i.status = status \/ \E j \in outbox \ R : Same(i, j)
<1>1. PICK d \in 1 .. MaxDue :
        outbox' = Without(R) \cup {[j EXCEPT !.status = status, !.due = d] : j \in R}
    BY DEF MoveToEnd
<1> DEFINE moved(j) == [j EXCEPT !.status = status, !.due = d]
<1>2. \A j \in R : moved(j).key = j.key /\ moved(j).type = j.type /\ moved(j).status = status
    BY DEF TypeInv, TypeOK, Job
<1>3. \A j \in R : moved(j) \in outbox'
    BY <1>1
<1>4. \A i \in outbox' : i \in Without(R) \/ \E j \in R : i = moved(j)
    BY <1>1
<1>5. Without(R) \subseteq outbox'
    BY <1>1
<1> HIDE DEF moved
<1> QED
    BY <1>2, <1>3, <1>4, <1>5, WithoutRows DEF Same

\* The rows the API, the clock and the node touch were not held, nor are they then.
LEMMA OthersHoldNothing ==
    ASSUME TypeInv, [Next]_vars, ~WorkerStep, ~Crash, NEW i \in HeldJobs'
    PROVE  \E j \in HeldJobs : i.key = j.key /\ i.type = j.type
<1>0. i \in outbox' /\ i.status = "held"
    BY DEF HeldJobs
<1>1. ASSUME NEW type, NEW K, Enqueue(type, K)
      PROVE  i \in HeldJobs
    BY <1>0, <1>1, EnqueuedRows DEF HeldJobs
<1>2. ASSUME NEW R, outbox' = Without(R)
      PROVE  \E j \in HeldJobs : i.key = j.key /\ i.type = j.type
    BY <1>0, <1>2, WithoutRows DEF HeldJobs, Same
<1>3. ASSUME UNCHANGED outbox
      PROVE  i \in HeldJobs
    BY <1>0, <1>3 DEF HeldJobs
<1>4. ASSUME NEW k \in Keys, KeyRequest(k)
      PROVE  \/ UNCHANGED outbox
             \/ \E type, K : Enqueue(type, K)
             \/ \E R : outbox' = Without(R)
    BY <1>4 DEF KeyRequest, CreateKey, RevokeKey, RotateKey, ToggleKey, PurgeFind, PurgeKey
<1>5. ASSUME NEW u \in Users, AccountRequest(u)
      PROVE  UNCHANGED outbox \/ \E type, K : Enqueue(type, K)
    BY <1>5 DEF AccountRequest, AdminOffboard, AccessRemoved, Offboard, Reinstate, DeleteUser,
       SweepFind, SweepDelete
<1>6. CASE RearmFind \/ Rearm
    BY <1>1, <1>3, <1>6 DEF RearmFind, Rearm
<1>7. CASE Timer
    <2>1. PICK j \in outbox : BackoffElapses(j) \/ LeaseExpires(j)
        BY <1>7 DEF Timer
    <2>2. CASE BackoffElapses(j)
        BY <1>0, <2>2, MovedRows DEF BackoffElapses, HeldJobs, Same
    <2>3. CASE LeaseExpires(j)
        <3>1. [j EXCEPT !.status = "expired"].status = "expired"
            BY DEF TypeInv, TypeOK, Job
        <3> QED
            BY <1>0, <2>3, <3>1 DEF LeaseExpires, HeldJobs
    <2> QED
        BY <2>1, <2>2, <2>3
<1>8. CASE UNCHANGED vars \/ NodeFlips \/ LateLands
    BY <1>3, <1>8 DEF vars, NodeFlips, LateLands
<1> QED
    BY <1>1, <1>2, <1>3, <1>4, <1>5, <1>6, <1>7, <1>8 DEF Next

LEMMA JobOfWorkerStep ==
    ASSUME DeleteInv, [Next]_vars
    PROVE  JobOfWorker'
<1> SUFFICES ASSUME NEW i \in HeldJobs'
             PROVE  worker'.pc # "idle" /\ i.key = worker'.key /\ i.type = worker'.type
    BY DEF JobOfWorker
<1>0. TypeInv /\ i \in outbox' /\ i.status = "held"
    BY DEF DeleteInv, HeldJobs
<1>1. ~(CloseJob /\ TypeInv)
    BY <1>0, WithoutRows DEF CloseJob, HeldJobs, Same
<1>2. ~(CompleteJob \/ FailJob \/ CompleteRevoke \/ CompleteToggle)
    BY <1>0, <1>1 DEF CompleteJob, FailJob, CompleteRevoke, CompleteToggle, CompleteLifecycle
<1>3. CASE ~WorkerStep /\ ~Crash
    <2>1. UNCHANGED worker
        BY <1>3, WorkerRests
    <2> QED
        BY <1>0, <1>3, <2>1, OthersHoldNothing DEF DeleteInv, JobOfWorker
<1>4. CASE GoesOn /\ worker'.pc # "idle"
    BY <1>0, <1>4 DEF GoesOn, DeleteInv, JobOfWorker, HeldJobs
<1>5. CASE Claim
    <2>0. PICK j \in outbox : \E n :
            /\ outbox' = (outbox \ {j}) \cup {[j EXCEPT !.status = "held", !.attempts = n]}
            /\ worker' = [IdleWorker EXCEPT !.pc = "load", !.type = j.type,
                                            !.key = j.key, !.attempts = n]
        BY <1>5 DEF Claim
    <2>1. PICK n :
            /\ outbox' = (outbox \ {j}) \cup {[j EXCEPT !.status = "held", !.attempts = n]}
            /\ worker' = [IdleWorker EXCEPT !.pc = "load", !.type = j.type,
                                            !.key = j.key, !.attempts = n]
        BY <2>0
    <2>2. worker.pc = "idle"
        BY <1>5 DEF Claim
    <2>3. i = [j EXCEPT !.status = "held", !.attempts = n]
        BY <1>0, <2>1, <2>2 DEF DeleteInv, JobOfWorker, HeldJobs
    <2>4. i.key = j.key /\ i.type = j.type
        BY <1>0, <2>3 DEF TypeInv, TypeOK, Job
    <2> QED
        BY <2>1, <2>4 DEF IdleWorker
<1>6. ~RetryJob
    <2>1. RetryJob => MoveToEnd(HeldJobs, "backoff") /\ HeldJobs \in SUBSET outbox
        BY DEF RetryJob, HeldJobs
    <2> QED
        BY <1>0, <2>1, MovedRows DEF HeldJobs, Same
<1>7. ~Crash
    <2>1. \A j \in HeldJobs : [j EXCEPT !.status = "orphaned"].status = "orphaned"
        BY <1>0 DEF TypeInv, TypeOK, Job, HeldJobs
    <2>2. Crash => i \in outbox \ HeldJobs \/ \E j \in HeldJobs : i = [j EXCEPT !.status = "orphaned"]
        BY <1>0 DEF Crash
    <2> QED
        BY <1>0, <2>1, <2>2 DEF HeldJobs
<1>8. OnError # "idle"
    BY DEF OnError
<1> QED
    BY <1>0, <1>2, <1>3, <1>4, <1>5, <1>6, <1>7, <1>8, HandlerStep DEF WorkerStep

\* A job that is queued or has failed is on record.
OnRecord(k, t) == LiveJob(k, {t}) \/ failedJobs[k][t] > 0

LEMMA FailureStays ==
    ASSUME TypeInv, [Next]_vars, NEW k \in Keys, NEW t \in JobTypes,
           failedJobs[k][t] > 0, state'[k] # "purged"
    PROVE  failedJobs'[k][t] > 0
<1>0. failedJobs \in [Keys -> [JobTypes -> Nat]]
      /\ failedJobs[k] \in [JobTypes -> Nat]
    BY DEF TypeInv, TypeOK
<1>1. ASSUME NEW i \in Keys, KeyRequest(i)
      PROVE  failedJobs'[k][t] > 0
    <2>1. CASE PurgeKey(i)
        <3>1. i # k
            BY <2>1 DEF PurgeKey, TypeInv, TypeOK
        <3> QED
            BY <1>0, <2>1, <3>1 DEF PurgeKey
    <2> QED
        BY <1>1, <2>1 DEF KeyRequest, CreateKey, RevokeKey, RotateKey, ToggleKey, PurgeFind
<1>2. ASSUME NEW u \in Users, AccountRequest(u)
      PROVE  UNCHANGED failedJobs
    BY <1>2 DEF AccountRequest, AdminOffboard, AccessRemoved, Offboard, Reinstate, DeleteUser,
       SweepFind, SweepDelete
<1>3. CASE FailJob
    <2>1. CASE UNCHANGED failedJobs
        BY <2>1
    <2>2. CASE failedJobs' = [failedJobs EXCEPT ![worker.key][worker.type] = @ + 1]
        <3>1. worker.key \in Keys /\ worker.type \in JobTypes
            BY <1>3 DEF FailJob, TypeInv, WorkerHasJob
        <3>2. failedJobs'[k] = IF k = worker.key
                               THEN [failedJobs[k] EXCEPT ![worker.type] = @ + 1]
                               ELSE failedJobs[k]
            BY <1>0, <2>2, <3>1
        <3> QED
            BY <1>0, <3>1, <3>2
    <2> QED
        BY <1>3, <2>1, <2>2 DEF FailJob
<1>4. CASE \/ UNCHANGED vars \/ RearmFind \/ Rearm \/ Timer \/ Crash \/ NodeFlips \/ LateLands
           \/ Claim \/ RetryJob
    BY <1>4 DEF vars, RearmFind, Rearm, Timer, BackoffElapses, LeaseExpires, Crash, NodeFlips,
       LateLands, Claim, RetryJob
<1>5. CASE \/ LoadKey \/ FindPeer \/ DeleteOrphan \/ ReplacePeer \/ CreatePeer \/ CompleteProvision
           \/ ListForRevoke \/ DropPeer \/ SetClientStatus \/ CompleteRevoke \/ CompleteToggle
    BY <1>5 DEF LoadKey, FindPeer, DeleteOrphan, ReplacePeer, CreatePeer, CompleteProvision,
       ListForRevoke, DropPeer, SetClientStatus, CompleteRevoke, CompleteToggle,
       CompleteLifecycle, RestOf
<1> QED
    BY <1>1, <1>2, <1>3, <1>4, <1>5 DEF Next, WorkerStep

\* The worker settles a job of the row, having done what it asks for.
Settles(k, t) == worker.key = k /\ worker.type = t /\ (CompleteRevoke \/ CompleteToggle)

\* A revoke or a toggle stays on record until it is done or the row is gone.
LEMMA RecordStays ==
    ASSUME DeleteInv, [Next]_vars, NEW k \in Keys, NEW t \in {"revoke", "disable", "enable"},
           OnRecord(k, t), state[k] # "absent", state'[k] # "purged"
    PROVE  OnRecord(k, t)' \/ Settles(k, t)
<1>0. TypeInv /\ state[k] # "purged" /\ t \in JobTypes
    BY RowStep DEF RowFollows, DeleteInv, JobTypes
<1> SUFFICES ASSUME LiveJob(k, {t})
             PROVE  OnRecord(k, t)' \/ Settles(k, t)
    BY <1>0, FailureStays DEF OnRecord
<1>1. PICK j \in outbox : j.key = k /\ j.type = t
    BY DEF LiveJob
<1>2. SUFFICES ASSUME \A i \in outbox' : ~(i.key = k /\ i.type = t)
               PROVE  failedJobs'[k][t] > 0 \/ Settles(k, t)
    BY DEF OnRecord, LiveJob
<1>3. ~UNCHANGED outbox
    BY <1>1, <1>2
<1>4. ASSUME NEW type, NEW K, Enqueue(type, K)
      PROVE  FALSE
    BY <1>1, <1>2, <1>4, EnqueuedRows
<1>5. ASSUME NEW R \in SUBSET outbox, NEW status, MoveToEnd(R, status)
      PROVE  FALSE
    BY <1>0, <1>1, <1>2, <1>5, MovedRows
<1>6. ASSUME NEW R, outbox' = Without(R)
      PROVE  j \in R
    BY <1>0, <1>1, <1>2, <1>6, WithoutRows DEF Same
<1>7. ASSUME NEW i \in outbox, NEW new,
             outbox' = (outbox \ {i}) \cup {new}, new.key = i.key, new.type = i.type
      PROVE  FALSE
    BY <1>1, <1>2, <1>7
<1>8. ASSUME NEW i \in Keys, KeyRequest(i)
      PROVE  FALSE
    <2>1. CASE PurgeKey(i)
        <3>1. i = k
            BY <1>1, <1>6, <2>1 DEF PurgeKey
        <3> QED
            BY <2>1, <3>1 DEF PurgeKey, DeleteInv, TypeInv, TypeOK
    <2> QED
        BY <1>3, <1>4, <1>8, <2>1
        DEF KeyRequest, CreateKey, RevokeKey, RotateKey, ToggleKey, PurgeFind
<1>9. ASSUME NEW u \in Users, AccountRequest(u)
      PROVE  FALSE
    BY <1>3, <1>4, <1>9 DEF AccountRequest, AdminOffboard, AccessRemoved, Offboard, Reinstate,
       DeleteUser, SweepFind, SweepDelete
<1>10. ~(UNCHANGED vars \/ NodeFlips \/ LateLands \/ RearmFind \/ Rearm)
    BY <1>3, <1>4 DEF vars, NodeFlips, LateLands, RearmFind, Rearm
<1>11. ~(Claim \/ Timer)
    <2>1. ~Claim
        <3> SUFFICES ASSUME Claim PROVE FALSE
            OBVIOUS
        <3>0. PICK i \in outbox : \E n :
                outbox' = (outbox \ {i}) \cup {[i EXCEPT !.status = "held", !.attempts = n]}
            BY DEF Claim
        <3>1. PICK n :
                outbox' = (outbox \ {i}) \cup {[i EXCEPT !.status = "held", !.attempts = n]}
            BY <3>0
        <3>2. /\ [i EXCEPT !.status = "held", !.attempts = n].key = i.key
              /\ [i EXCEPT !.status = "held", !.attempts = n].type = i.type
            BY <1>0 DEF TypeInv, TypeOK, Job
        <3> QED
            BY <1>7, <3>1, <3>2
    <2>2. ~Timer
        <3> SUFFICES ASSUME NEW i \in outbox, BackoffElapses(i) \/ LeaseExpires(i)
                     PROVE  FALSE
            BY DEF Timer
        <3>1. /\ [i EXCEPT !.status = "expired"].key = i.key
              /\ [i EXCEPT !.status = "expired"].type = i.type
            BY <1>0 DEF TypeInv, TypeOK, Job
        <3> QED
            BY <1>5, <1>7, <3>1 DEF BackoffElapses, LeaseExpires
    <2> QED
        BY <2>1, <2>2
<1>12. ~Crash
    <2> SUFFICES ASSUME Crash PROVE FALSE
        OBVIOUS
    <2> DEFINE new == [j EXCEPT !.status = "orphaned"]
    <2>1. new.key = k /\ new.type = t
        BY <1>0, <1>1 DEF TypeInv, TypeOK, Job
    <2>2. j \in HeldJobs => new \in outbox'
        BY DEF Crash
    <2>3. j \notin HeldJobs => j \in outbox'
        BY DEF Crash
    <2> HIDE DEF new
    <2> QED
        BY <1>1, <1>2, <2>1, <2>2, <2>3
<1>13. ~RetryJob
    BY <1>5 DEF RetryJob, HeldJobs
<1>14. CloseJob => worker.pc # "idle" /\ worker.key = k /\ worker.type = t /\ j \in HeldJobs
    BY <1>1, <1>6 DEF CloseJob, DeleteInv, JobOfWorker
<1>15. CASE FailJob
    <2>1. worker.key = k /\ worker.type = t /\ j \in HeldJobs
        BY <1>14, <1>15 DEF FailJob
    <2>2. failedJobs' = [failedJobs EXCEPT ![k][t] = @ + 1]
        BY <1>15, <2>1 DEF FailJob
    <2>3. failedJobs[k] \in [JobTypes -> Nat]
        BY <1>0 DEF TypeInv, TypeOK
    <2>4. failedJobs'[k] = [failedJobs[k] EXCEPT ![t] = @ + 1]
        BY <1>0, <2>2 DEF TypeInv, TypeOK
    <2>5. failedJobs'[k][t] = failedJobs[k][t] + 1 /\ failedJobs[k][t] \in Nat
        BY <1>0, <2>3, <2>4
    <2> QED
        BY <2>5
<1>16. ~LoadKey
    <2> SUFFICES ASSUME LoadKey PROVE FALSE
        OBVIOUS
    <2>1. CompleteJob
        BY <1>0, <1>3, HandlerStep DEF GoesOn
    <2>2. worker.key = k /\ worker.type = t
        BY <1>14, <2>1 DEF CompleteJob
    <2>3. RowExists(k)
        BY <1>0 DEF RowExists, KeyStates, TypeInv, TypeOK
    <2>4. FirstStep(worker.type, worker.key) # "idle"
        BY <2>2 DEF FirstStep
    <2> QED
        BY <1>3, <2>2, <2>3, <2>4 DEF LoadKey
<1>17. ~(FindPeer \/ DeleteOrphan \/ ReplacePeer \/ CreatePeer \/ ListForRevoke \/ DropPeer
         \/ SetClientStatus)
    BY <1>0, <1>3, HandlerStep DEF GoesOn
<1>18. ~CompleteProvision
    <2>1. CompleteProvision => worker.type # t /\ CloseJob
        BY <1>0, <1>3, HandlerStep
        DEF CompleteProvision, At, GoesOn, CompleteJob, DeleteInv, StepOfType
    <2> QED
        BY <1>14, <2>1
<1>19. CompleteRevoke \/ CompleteToggle => Settles(k, t)
    BY <1>14 DEF CompleteRevoke, CompleteToggle, CompleteLifecycle, CompleteJob, Settles
<1> QED
    BY <1>8, <1>9, <1>10, <1>11, <1>12, <1>13, <1>15, <1>16, <1>17, <1>18, <1>19
    DEF Next, WorkerStep

LEMMA DeleteNeverLostStep ==
    ASSUME DeleteInv, [Next]_vars
    PROVE  DeleteNeverLost'
<1> SUFFICES ASSUME NEW k \in Keys,
                    asked'[k] \/ (account'[Owner[k]] # "active" /\ state'[k] \in LiveKeyStates),
                    state'[k] \notin {"revoked", "purged"}
             PROVE  OnRecord(k, "revoke")'
    BY DEF DeleteNeverLost, OnRecord
<1>1. asked'[k]
    BY DeletesAskedStep DEF DeletesAsked
<1>2. TypeInv
    BY DEF DeleteInv
<1>3. CASE LiveJob(k, {"revoke"})'
    BY <1>3 DEF OnRecord
<1>4. CASE asked[k]
    <2>1. state[k] \notin {"revoked", "purged", "absent"}
        BY <1>4, RowStep DEF RowFollows, DeleteInv, DeletesAsked
    <2>2. OnRecord(k, "revoke")
        BY <1>4, <2>1 DEF DeleteInv, DeleteNeverLost, OnRecord
    <2>3. ~Settles(k, "revoke")
        BY <1>2, <2>1
        DEF Settles, CompleteRevoke, CompleteToggle, CompleteLifecycle, RowExists, KeyStates,
            At, DeleteInv, StepOfType, TypeInv, TypeOK
    <2> QED
        BY <2>1, <2>2, <2>3, RecordStays
<1> QED
    BY <1>1, <1>2, <1>3, <1>4, AskedStep

LEMMA DeleteStep ==
    ASSUME DeleteInv, ~AgentDies, [Next]_vars
    PROVE  DeleteInv'
<1>1. TypeInv'
    BY TypeNext DEF DeleteInv
<1>2. NothingStale'
    <2> SUFFICES ASSUME NEW k \in Keys, NEW p \in PeerIds
                 PROVE  peers'[k][p] # "stale"
        BY DEF NothingStale
    <2> QED
        BY PeersFollow DEF EntryFollows
<1> QED
    BY <1>1, <1>2, DeletesAskedStep, JobOfWorkerStep, StepOfTypeStep, RevokedHasNoPeerStep,
       DropsOwnPeerStep, TogglesOwnPeerStep, SettlesLiveRowStep, DeleteNeverLostStep
    DEF DeleteInv

\* Where the agent does not die between its two writes: a delete that was
\* accepted, of a key or of its account, ends with the row gone, or a revoke is
\* queued, or a failed one is on record, whatever calls linger and land late.
THEOREM DeletesAreKept ==
    ASSUME ~AgentDies
    PROVE  Spec => []DeleteNeverLost
<1>1. Init => DeleteInv
    BY DeleteInit
<1>2. DeleteInv /\ [Next]_vars => DeleteInv'
    BY DeleteStep
<1>3. DeleteInv => DeleteNeverLost
    BY DEF DeleteInv
<1> QED
    BY <1>1, <1>2, <1>3, PTL DEF Spec

-----------------------------------------------------------------------------
(* A key at rest is on the node what its row says, when the agent does not  *)
(* die between its two writes.  Every call that could change the label's    *)
(* peers, under way or lingering, belongs to a row on record: a revoke or a *)
(* toggle that is queued or failed, or a row that is still provisioning.    *)

\* A job names a row that was created, and so will those the re-arm queues.
JobsOfRows ==
    /\ \A j \in outbox : state[j.key] # "absent"
    /\ \A k \in rearm : state[k] # "absent"

\* A label has one configured peer at most.
OnePeer == \A k \in Keys : \A p, q \in Configured(k) : p = q

\* The job the worker is on stays its own until the row is purged.
WorkerHoldsRow ==
    worker.pc # "idle" =>
        /\ state[worker.key] # "absent"
        /\ HeldJobs # {} \/ state[worker.key] = "purged"

\* The steps of a provision or a rotation; the row still wants the key, or it is
\* being revoked, or a purge took it.
Wanted == {"provisioning", "revoking", "purged"}

Provisions ==
    worker.pc \in {"orphan", "unorphan", "create", "finish", "cleanup", "find", "replace"}

ProvisionsWanted == Provisions => state[worker.key] \in Wanted

\* The peer just created works, and no call that lingers can touch it.
FinishesWorking ==
    worker.pc = "finish" =>
        /\ worker.pub \in PeerIds /\ peers[worker.key][worker.pub] = "on"
        /\ \A c \in late : c.key # worker.key

\* A toggle about to be written back is on the node already, for good.
SettlesWritten ==
    worker.pc = "settle" =>
        /\ worker.pub \in PeerIds
        /\ peers[worker.key][worker.pub] = (IF worker.type = "enable" THEN "on" ELSE "off")
        /\ worker.pub = pubKey[worker.key] \/ state[worker.key] = "purged"
        /\ \A c \in late : c.key = worker.key => c.op = "create"

\* The states in which a key is at rest on its node.
Quiet == {"active", "disabled"}

\* A delete or a toggle that lingers belongs to a job that is still on record.
LateGuarded ==
    \A c \in late :
        /\ state[c.key] # "absent"
        /\ c.op = "delete" => state[c.key] \notin Quiet \/ OnRecord(c.key, "revoke")
        /\ c.op \in {"disable", "enable"} => state[c.key] = "purged" \/ OnRecord(c.key, c.op)

NothingOnRecord(k) == \A t \in {"revoke", "disable", "enable"} : ~OnRecord(k, t)

\* What provisioning jobs are on record does not matter: they look at the state.
QuietMatches ==
    \A k \in Keys :
        state[k] \in Quiet /\ NothingOnRecord(k) =>
            /\ Configured(k) = {pubKey[k]}
            /\ peers[k][pubKey[k]] = IF state[k] = "active" THEN "on" ELSE "off"

QuietInv ==
    /\ DeleteInv /\ JobsOfRows /\ OnePeer /\ WorkerHoldsRow /\ ProvisionsWanted
    /\ FinishesWorking /\ SettlesWritten /\ LateGuarded /\ QuietMatches

LEMMA QuietInit ==
    ASSUME Init
    PROVE  QuietInv
<1>1. IdleWorker.pc = "idle"
    BY DEF IdleWorker
<1> QED
    BY <1>1, DeleteInit
    DEF Init, QuietInv, JobsOfRows, OnePeer, WorkerHoldsRow, ProvisionsWanted, Provisions,
        FinishesWorking, SettlesWritten, LateGuarded, QuietMatches, Quiet, Configured

LEMMA PerformElsewhere ==
    ASSUME TypeInv, NEW c, c.key \in Keys, MayPerform(c), NEW k \in Keys, k # c.key
    PROVE  peers'[k] = peers[k]
BY DEF MayPerform, WithNewPeer, WithStatus, TypeInv, TypeOK

\* The peers of a label change by a call of the worker that is on its key, or
\* by one the worker gave up on.
LEMMA PeersMove ==
    ASSUME TypeInv, [Next]_vars, NEW k \in Keys, peers'[k] # peers[k]
    PROVE  \/ /\ WorkerStep /\ worker.key = k
              /\ worker.pc \in {"unorphan", "replace", "drop", "status", "create"}
           \/ LateLands /\ \E c \in late : c.key = k /\ MayPerform(c)
<1>1. ASSUME NEW i \in Keys, KeyRequest(i)
      PROVE  UNCHANGED peers
    BY <1>1 DEF KeyRequest, CreateKey, RevokeKey, RotateKey, ToggleKey, PurgeFind, PurgeKey
<1>2. ASSUME NEW u \in Users, AccountRequest(u)
      PROVE  UNCHANGED peers
    BY <1>2 DEF AccountRequest, AdminOffboard, AccessRemoved, Offboard, Reinstate, DeleteUser,
       SweepFind, SweepDelete
<1>3. ASSUME \/ UNCHANGED vars \/ RearmFind \/ Rearm \/ Timer \/ Crash \/ NodeFlips
             \/ Claim \/ RetryJob \/ FailJob
      PROVE  UNCHANGED peers
    BY <1>3 DEF vars, RearmFind, Rearm, Timer, BackoffElapses, LeaseExpires, Crash, NodeFlips, Claim,
       RetryJob, FailJob
<1>4. ASSUME \/ LoadKey \/ FindPeer \/ CompleteProvision \/ ListForRevoke
             \/ CompleteRevoke \/ CompleteToggle
      PROVE  UNCHANGED peers
    BY <1>4 DEF LoadKey, FindPeer, CompleteProvision, ListForRevoke, CompleteRevoke,
       CompleteToggle, CompleteLifecycle, RestOf
<1>5. ASSUME worker.pc # "idle", NEW op, NEW p, Unanswered(op, p), worker.key # k
      PROVE  peers'[k] = peers[k]
    <2> DEFINE c == [op |-> op, key |-> worker.key, pub |-> p]
    <2>1. c.key \in Keys /\ c.key # k
        BY <1>5 DEF TypeInv, WorkerHasJob
    <2>2. MayPerform(c) \/ UNCHANGED peers
        BY <1>5 DEF Unanswered
    <2> HIDE DEF c
    <2> QED
        BY <2>1, <2>2, PerformElsewhere
<1>6. ASSUME worker.pc # "idle", NEW p, NEW next, DeletePeer(p, next), worker.key # k
      PROVE  peers'[k] = peers[k]
    BY <1>5, <1>6 DEF DeletePeer, SetPeer, TypeInv, TypeOK
<1>7. CASE DeleteOrphan \/ ReplacePeer \/ DropPeer
    BY <1>6, <1>7 DEF DeleteOrphan, ReplacePeer, DropPeer, At, WorkerStep
<1>8. CASE SetClientStatus
    BY <1>5, <1>8 DEF SetClientStatus, WithStatus, At, WorkerStep, TypeInv, TypeOK
<1>9. CASE CreatePeer
    BY <1>5, <1>9 DEF CreatePeer, WithNewPeer, At, WorkerStep, TypeInv, TypeOK
<1>10. CASE LateLands
    <2>1. PICK c \in late : MayPerform(c)
        BY <1>10 DEF LateLands
    <2>2. c.key \in Keys
        BY DEF TypeInv, TypeOK, Call
    <2> QED
        BY <1>10, <2>1, <2>2, PerformElsewhere
<1> QED
    BY <1>1, <1>2, <1>3, <1>4, <1>7, <1>8, <1>9, <1>10 DEF Next, WorkerStep

\* A call that lingers is the worker's last one; the worker moves on.
LEMMA LateMove ==
    ASSUME TypeInv, [Next]_vars, NEW c \in late', c \notin late
    PROVE  /\ worker.pc # "idle" /\ c.key = worker.key /\ UNCHANGED <<state, outbox>>
           /\ \/ c.op = "delete" /\ worker.pc \in {"unorphan", "replace", "drop"}
              \/ c.op = "create" /\ worker.pc = "create"
              \/ c.op = Toggle /\ worker.pc = "status"
           /\ worker'.pc \in {"throw", "cleanup"}
<1>1. ASSUME NEW i \in Keys, KeyRequest(i)
      PROVE  UNCHANGED late
    BY <1>1 DEF KeyRequest, CreateKey, RevokeKey, RotateKey, ToggleKey, PurgeFind, PurgeKey
<1>2. ASSUME NEW u \in Users, AccountRequest(u)
      PROVE  UNCHANGED late
    BY <1>2 DEF AccountRequest, AdminOffboard, AccessRemoved, Offboard, Reinstate, DeleteUser,
       SweepFind, SweepDelete
<1>3. ASSUME \/ UNCHANGED vars \/ RearmFind \/ Rearm \/ Timer \/ Crash \/ NodeFlips
             \/ Claim \/ RetryJob \/ FailJob \/ LateLands
      PROVE  late' \subseteq late
    BY <1>3 DEF vars, RearmFind, Rearm, Timer, BackoffElapses, LeaseExpires, Crash, NodeFlips, Claim,
       RetryJob, FailJob, LateLands
<1>4. ASSUME \/ LoadKey \/ FindPeer \/ CompleteProvision \/ ListForRevoke
             \/ CompleteRevoke \/ CompleteToggle
      PROVE  UNCHANGED late
    BY <1>4 DEF LoadKey, FindPeer, CompleteProvision, ListForRevoke, CompleteRevoke,
       CompleteToggle, CompleteLifecycle, RestOf
<1>5. ASSUME NEW op, NEW p, Unanswered(op, p)
      PROVE  c.op = op /\ c.key = worker.key
    BY <1>5 DEF Unanswered
<1>6. ASSUME NEW p, NEW next, DeletePeer(p, next)
      PROVE  c.op = "delete" /\ c.key = worker.key /\ Go("throw")
    BY <1>5, <1>6 DEF DeletePeer, Answers
<1>7. ASSUME NEW step, Go(step)
      PROVE  worker'.pc = step
    BY <1>7 DEF Go, TypeInv, TypeOK, Worker
<1>8. CASE DeleteOrphan \/ ReplacePeer \/ DropPeer
    <2>1. UNCHANGED <<state, outbox>> /\ worker.pc \in {"unorphan", "replace", "drop"}
        BY <1>8 DEF DeleteOrphan, ReplacePeer, DropPeer, At, RestOf
    <2>2. \E p, next : DeletePeer(p, next)
        BY <1>8 DEF DeleteOrphan, ReplacePeer, DropPeer
    <2> QED
        BY <1>6, <1>7, <2>1, <2>2
<1>9. CASE SetClientStatus
    <2>1. UNCHANGED <<state, outbox>> /\ worker.pc = "status"
        BY <1>9 DEF SetClientStatus, At, RestOf
    <2>2. Unanswered(Toggle, worker.pub) /\ Go("throw")
        BY <1>9 DEF SetClientStatus, Answers
    <2> QED
        BY <1>5, <1>7, <2>1, <2>2
<1>10. CASE CreatePeer
    <2>1. UNCHANGED <<state, outbox>> /\ worker.pc = "create" /\ OnError \in {"throw", "cleanup"}
        BY <1>10 DEF CreatePeer, At, RestOf, OnError
    <2>2. Unanswered("create", None) /\ Go(OnError)
        BY <1>10 DEF CreatePeer, Answers
    <2> QED
        BY <1>5, <1>7, <2>1, <2>2
<1> QED
    BY <1>1, <1>2, <1>3, <1>4, <1>8, <1>9, <1>10 DEF Next, WorkerStep
\* A row comes to rest as active or disabled by a toggle that queues its job, or
\* when the worker settles the job it is on.
LEMMA QuietRowStep ==
    ASSUME DeleteInv, [Next]_vars, NEW k \in Keys, state'[k] \in Quiet, state'[k] # state[k]
    PROVE  \/ state[k] \in Quiet /\ \E t \in {"disable", "enable"} : LiveJob(k, {t})'
           \/ /\ CompleteProvision /\ k = worker.key /\ UNCHANGED peers
              /\ state'[k] = "active" /\ pubKey'[k] = worker.pub
           \/ CompleteToggle /\ k = worker.key
<1> USE DEF DeleteInv, TypeInv, TypeOK, Quiet
<1>1. ASSUME NEW type \in {"disable", "enable"}, NEW i \in Keys, ToggleKey(i, type)
      PROVE  state[k] \in Quiet /\ LiveJob(k, {type})'
    <2>1. i = k /\ state[k] \in Quiet
        BY <1>1 DEF ToggleKey
    <2>2. PICK d \in 1 .. MaxDue :
            outbox' = outbox \cup {[type |-> type, key |-> x, attempts |-> 0,
                                    status |-> "ready", due |-> d] : x \in {i}}
        BY <1>1 DEF ToggleKey, Enqueue
    <2> DEFINE j == [type |-> type, key |-> k, attempts |-> 0, status |-> "ready", due |-> d]
    <2>3. j \in outbox' /\ j.key = k /\ j.type = type
        BY <2>1, <2>2
    <2> QED
        BY <2>1, <2>3 DEF LiveJob
<1>2. ASSUME NEW i \in Keys, KeyRequest(i)
      PROVE  \E type \in {"disable", "enable"} : ToggleKey(i, type)
    BY <1>2 DEF KeyRequest, CreateKey, RevokeKey, RotateKey, PurgeFind, PurgeKey
<1>3. ASSUME NEW u \in Users, AccountRequest(u)
      PROVE  FALSE
    BY <1>3 DEF AccountRequest, AdminOffboard, AccessRemoved, Offboard, Reinstate, DeleteUser,
       SweepFind, SweepDelete, EraseAccount
<1>4. ASSUME CompleteProvision
      PROVE  /\ k = worker.key /\ UNCHANGED peers
             /\ state'[k] = "active" /\ pubKey'[k] = worker.pub
    BY <1>4 DEF CompleteProvision, RestOf
<1>5. CompleteToggle => k = worker.key
    BY DEF CompleteToggle, CompleteLifecycle
<1>6. ~(CompleteRevoke \/ FailJob)
    BY DEF CompleteRevoke, CompleteLifecycle, FailJob
<1>7. ~(UNCHANGED vars \/ RearmFind \/ Rearm \/ Timer \/ Crash \/ NodeFlips \/ LateLands \/ Claim \/ RetryJob)
    BY DEF vars, panel, RearmFind, Rearm, Timer, BackoffElapses, LeaseExpires, Crash, NodeFlips,
       LateLands, Claim, RetryJob
<1>8. ~(LoadKey \/ FindPeer \/ DeleteOrphan \/ ReplacePeer \/ CreatePeer
        \/ ListForRevoke \/ DropPeer \/ SetClientStatus)
    BY DEF LoadKey, FindPeer, DeleteOrphan, ReplacePeer, CreatePeer, ListForRevoke, DropPeer,
       SetClientStatus, RestOf
<1> QED
    BY <1>1, <1>2, <1>3, <1>4, <1>5, <1>6, <1>7, <1>8 DEF Next, WorkerStep

\* Only the worker ends a provisioning, and a revoking row waits for it too, but for
\* a purge that overruns it.
LEMMA WantedStays ==
    ASSUME TypeInv, [Next]_vars, ~WorkerStep, NEW k \in Keys,
           state[k] \in Wanted
    PROVE  state'[k] \in Wanted
<1> USE DEF TypeInv, TypeOK, Wanted, KeyStates, LiveKeyStates, RevocableKeyStates
<1>1. ASSUME NEW i \in Keys, KeyRequest(i)
      PROVE  state'[k] \in Wanted
    BY <1>1 DEF KeyRequest, CreateKey, RevokeKey, RotateKey, RotatableStates, ToggleKey, PurgeFind, PurgeKey
<1>2. ASSUME NEW u \in Users, AccountRequest(u)
      PROVE  state'[k] \in Wanted
    BY <1>2 DEF AccountRequest, AdminOffboard, AccessRemoved, Offboard, Reinstate, DeleteUser,
       SweepFind, SweepDelete, EraseAccount
<1>3. CASE UNCHANGED vars \/ RearmFind \/ Rearm \/ Timer \/ Crash \/ NodeFlips \/ LateLands
    BY <1>3 DEF vars, panel, RearmFind, Rearm, Timer, BackoffElapses, LeaseExpires, Crash, NodeFlips,
       LateLands
<1> QED
    BY <1>1, <1>2, <1>3 DEF Next

\* A job was there before, or is queued for a row that is there; a revoke, for
\* one that is being revoked or that the re-arm found.
LEMMA JobsComeFrom ==
    ASSUME TypeInv, [Next]_vars, NEW j \in outbox'
    PROVE  \/ \E i \in outbox : i.key = j.key /\ i.type = j.type
           \/ /\ state'[j.key] # "absent"
              /\ j.type = "revoke" => state'[j.key] = "revoking"
           \/ j.key \in rearm
<1> DEFINE Known == \/ \E i \in outbox : i.key = j.key /\ i.type = j.type
                    \/ /\ state'[j.key] # "absent"
                       /\ j.type = "revoke" => state'[j.key] = "revoking"
                    \/ j.key \in rearm
<1> SUFFICES Known
    OBVIOUS
<1>0. TypeInv'
    BY TypeNext
<1>1. ASSUME NEW i \in outbox, i.key = j.key, i.type = j.type
      PROVE  Known
    BY <1>1
<1>2. ASSUME NEW type, NEW K, Enqueue(type, K), \A k \in K : state'[k] # "absent",
             type = "revoke" => \A k \in K : state'[k] = "revoking"
      PROVE  Known
    <2>1. j \in outbox \/ (j.key \in K /\ j.type = type)
        BY <1>2 DEF Enqueue
    <2> QED
        BY <1>2, <2>1
<1> HIDE DEF Known
<1>3. ASSUME NEW R, outbox' = Without(R)
      PROVE  Known
    BY <1>0, <1>1, <1>3, WithoutRows DEF Same
<1>4. ASSUME NEW R \in SUBSET outbox, NEW status, MoveToEnd(R, status)
      PROVE  Known
    <2>1. PICK d \in 1 .. MaxDue :
            outbox' = Without(R) \cup {[i EXCEPT !.status = status, !.due = d] : i \in R}
        BY <1>4 DEF MoveToEnd
    <2>2. \A i \in R : LET moved == [i EXCEPT !.status = status, !.due = d]
                        IN  moved.key = i.key /\ moved.type = i.type
        BY <1>0 DEF TypeInv, TypeOK, Job
    <2>3. j \in Without(R) \/ \E i \in R : j.key = i.key /\ j.type = i.type
        BY <2>1, <2>2
    <2> QED
        BY <1>0, <1>1, <2>3, WithoutRows DEF Same
<1>5. ASSUME NEW k \in Keys, KeyRequest(k)
      PROVE  Known
    <2>1. CASE PurgeKey(k)
        <3>1. \E R : outbox' = Without(R)
            BY <2>1 DEF PurgeKey
        <3> QED
            BY <1>3, <3>1
    <2>2. CASE ~PurgeKey(k) /\ ~PurgeFind(k)
        <3>1. /\ state'[k] # "absent"
              /\ \E type : Enqueue(type, {k}) /\ (type = "revoke" => state'[k] = "revoking")
            BY <1>0, <1>5, <2>2
            DEF KeyRequest, CreateKey, RevokeKey, RotateKey, ToggleKey, TypeInv, TypeOK
        <3> QED
            BY <1>2, <3>1
    <2>3. CASE PurgeFind(k)
        BY <1>1, <2>3 DEF PurgeFind
    <2> QED
        BY <2>1, <2>2, <2>3
<1>6. ASSUME NEW u \in Users, NEW states, Offboard(u, states)
      PROVE  Known
    <2> DEFINE K == {k \in KeysOf(u) : state[k] \in states}
    <2>1. Enqueue("revoke", K) /\ \A k \in K : state'[k] = "revoking"
        BY <1>6 DEF Offboard, KeysOf
    <2> HIDE DEF K
    <2> QED
        BY <1>2, <2>1
<1>7. ASSUME NEW u \in Users, AccountRequest(u)
      PROVE  Known
    BY <1>1, <1>6, <1>7 DEF AccountRequest, AdminOffboard, AccessRemoved, Reinstate, DeleteUser,
       SweepFind, SweepDelete
<1>8. CASE RearmFind \/ Rearm
    <2>1. j \in outbox \/ j.key \in rearm
        BY <1>8 DEF RearmFind, Rearm, Enqueue
    <2> QED
        BY <1>1, <2>1 DEF Known
<1>9. CASE Timer
    <2>1. PICK i \in outbox : BackoffElapses(i) \/ LeaseExpires(i)
        BY <1>9 DEF Timer
    <2>2. [i EXCEPT !.status = "expired"].key = i.key /\ [i EXCEPT !.status = "expired"].type = i.type
        BY <1>0 DEF TypeInv, TypeOK, Job
    <2> QED
        BY <1>1, <1>4, <2>1, <2>2 DEF BackoffElapses, LeaseExpires
<1>10. CASE Claim
    <2>0. PICK i \in outbox : \E n :
            outbox' = (outbox \ {i}) \cup {[i EXCEPT !.status = "held", !.attempts = n]}
        BY <1>10 DEF Claim
    <2>1. PICK n :
            outbox' = (outbox \ {i}) \cup {[i EXCEPT !.status = "held", !.attempts = n]}
        BY <2>0
    <2> DEFINE held == [i EXCEPT !.status = "held", !.attempts = n]
    <2>2. held.key = i.key /\ held.type = i.type
        BY <1>0 DEF TypeInv, TypeOK, Job
    <2> QED
        BY <1>1, <2>1, <2>2
<1>11. CASE Crash
    <2>1. j \in outbox \/ \E i \in HeldJobs : j = [i EXCEPT !.status = "orphaned"]
        BY <1>11 DEF Crash
    <2> DEFINE orphaned(i) == [i EXCEPT !.status = "orphaned"]
    <2>2. \A i \in HeldJobs : i \in outbox /\ orphaned(i).key = i.key /\ orphaned(i).type = i.type
        BY <1>0 DEF TypeInv, TypeOK, Job, HeldJobs
    <2> QED
        BY <1>1, <2>1, <2>2
<1>12. CASE RetryJob
    BY <1>4, <1>12 DEF RetryJob, HeldJobs
<1>13. CASE CloseJob \/ UNCHANGED outbox
    BY <1>1, <1>3, <1>13 DEF CloseJob
<1>14. CASE \/ UNCHANGED vars \/ NodeFlips \/ LateLands \/ FailJob \/ CompleteRevoke
            \/ CompleteToggle \/ LoadKey \/ CompleteProvision
    BY <1>13, <1>14 DEF vars, NodeFlips, LateLands, FailJob, CompleteRevoke, CompleteToggle,
       CompleteLifecycle, CompleteJob, LoadKey, CompleteProvision
<1>15. CASE FindPeer \/ DeleteOrphan \/ ReplacePeer \/ CreatePeer \/ ListForRevoke \/ DropPeer
            \/ SetClientStatus
    BY <1>13, <1>15 DEF FindPeer, DeleteOrphan, ReplacePeer, CreatePeer, ListForRevoke, DropPeer,
       SetClientStatus, RestOf
<1> QED
    BY <1>5, <1>7, <1>8, <1>9, <1>10, <1>11, <1>12, <1>14, <1>15 DEF Next, WorkerStep

LEMMA RearmFrom ==
    ASSUME TypeInv, [Next]_vars, NEW k \in rearm', k \notin rearm
    PROVE  k \in Keys /\ state[k] = "revoking" /\ UNCHANGED state
<1>1. RearmFind
    BY DEF Next, vars, panel, KeyRequest, CreateKey, RevokeKey, RotateKey, ToggleKey, PurgeFind,
       PurgeKey, AccountRequest, AdminOffboard, AccessRemoved, Offboard, Reinstate, DeleteUser,
       SweepFind, SweepDelete, Rearm, Timer, BackoffElapses, LeaseExpires, Crash, NodeFlips,
       LateLands, WorkerStep, Claim, RetryJob, FailJob, LoadKey, FindPeer, DeleteOrphan,
       ReplacePeer, CreatePeer, CompleteProvision, ListForRevoke, DropPeer, SetClientStatus,
       CompleteRevoke, CompleteToggle, CompleteLifecycle, RestOf
<1> QED
    BY <1>1 DEF RearmFind, panel

LEMMA JobsOfRowsStep ==
    ASSUME QuietInv, [Next]_vars
    PROVE  JobsOfRows'
<1>0. DeleteInv /\ TypeInv
    BY DEF QuietInv, DeleteInv
<1>1. ASSUME NEW k \in Keys, state[k] # "absent"
      PROVE  state'[k] # "absent"
    BY <1>0, <1>1, RowStep DEF RowFollows
<1>2. \A i \in outbox : i.key \in Keys /\ state[i.key] # "absent"
    BY <1>0 DEF QuietInv, JobsOfRows, TypeInv, TypeOK, Job
<1>3. \A k \in rearm : k \in Keys /\ state[k] # "absent"
    BY <1>0 DEF QuietInv, JobsOfRows, TypeInv, TypeOK
<1>4. \A j \in outbox' : state'[j.key] # "absent"
    <2> SUFFICES ASSUME NEW j \in outbox'
                 PROVE  state'[j.key] # "absent"
        OBVIOUS
    <2> QED
        BY <1>0, <1>1, <1>2, <1>3, JobsComeFrom
<1>5. \A k \in rearm' : state'[k] # "absent"
    BY <1>0, <1>1, <1>3, RearmFrom
<1> QED
    BY <1>4, <1>5 DEF JobsOfRows

LEMMA OnePeerStep ==
    ASSUME QuietInv, ~AgentDies, [Next]_vars
    PROVE  OnePeer'
<1> SUFFICES ASSUME NEW k \in Keys, NEW p \in Configured(k)', NEW q \in Configured(k)'
             PROVE  p = q
    BY DEF OnePeer
<1>1. p \in PeerIds /\ q \in PeerIds /\ DeleteInv
    BY DEF Configured, QuietInv
<1>2. EntryFollows(k, p) /\ EntryFollows(k, q)
    BY <1>1, PeersFollow
<1>3. CASE p \in Configured(k) /\ q \in Configured(k)
    BY <1>3 DEF QuietInv, OnePeer
<1> QED
    BY <1>2, <1>3 DEF EntryFollows

\* Nobody but the worker lets go of the row it holds, unless the key is purged.
LEMMA HeldStays ==
    ASSUME DeleteInv, [Next]_vars, ~WorkerStep, ~Crash, HeldJobs # {}
    PROVE  HeldJobs' # {} \/ state'[worker.key] = "purged"
<1>0. PICK j \in HeldJobs : j \in outbox /\ j.status = "held" /\ j.key = worker.key
    BY DEF HeldJobs, DeleteInv, JobOfWorker
<1>1. TypeInv
    BY DEF DeleteInv
<1>2. ASSUME outbox \subseteq outbox'
      PROVE  HeldJobs' # {}
    BY <1>0, <1>2 DEF HeldJobs
<1>3. ASSUME NEW R, Without(R) \subseteq outbox', j \notin R
      PROVE  HeldJobs' # {}
    <2>1. PICK i \in Without(R) : Same(i, j)
        BY <1>0, <1>1, <1>3, WithoutRows
    <2> QED
        BY <1>0, <1>3, <2>1 DEF HeldJobs, Same
<1>4. ASSUME NEW k \in Keys, KeyRequest(k)
      PROVE  HeldJobs' # {} \/ state'[worker.key] = "purged"
    <2>1. CASE PurgeKey(k)
        <3>1. CASE k = j.key
            BY <1>0, <1>1, <2>1, <3>1 DEF PurgeKey, TypeInv, TypeOK
        <3>2. CASE k # j.key
            BY <1>3, <2>1, <3>2 DEF PurgeKey
        <3> QED
            BY <3>1, <3>2
    <2>2. CASE ~PurgeKey(k)
        BY <1>2, <1>4, <2>2, EnqueuedRows
        DEF KeyRequest, CreateKey, RevokeKey, RotateKey, ToggleKey, PurgeFind
    <2> QED
        BY <2>1, <2>2
<1>5. ASSUME NEW u \in Users, AccountRequest(u)
      PROVE  HeldJobs' # {}
    BY <1>2, <1>5, EnqueuedRows DEF AccountRequest, AdminOffboard, AccessRemoved, Offboard,
       Reinstate, DeleteUser, SweepFind, SweepDelete
<1>6. CASE Timer
    <2>1. PICK i \in outbox : BackoffElapses(i) \/ LeaseExpires(i)
        BY <1>6 DEF Timer
    <2>2. i # j
        BY <1>0, <2>1 DEF BackoffElapses, LeaseExpires
    <2>3. CASE BackoffElapses(i)
        BY <1>3, <2>2, <2>3 DEF BackoffElapses, MoveToEnd
    <2>4. CASE LeaseExpires(i)
        BY <1>0, <2>2, <2>4 DEF LeaseExpires, HeldJobs
    <2> QED
        BY <2>1, <2>3, <2>4
<1>7. CASE UNCHANGED vars \/ RearmFind \/ Rearm \/ NodeFlips \/ LateLands
    BY <1>2, <1>7, EnqueuedRows DEF vars, RearmFind, Rearm, NodeFlips, LateLands
<1> QED
    BY <1>4, <1>5, <1>6, <1>7 DEF Next

LEMMA WorkerHoldsRowStep ==
    ASSUME QuietInv, [Next]_vars
    PROVE  WorkerHoldsRow'
<1> SUFFICES ASSUME worker'.pc # "idle"
             PROVE  /\ state'[worker'.key] # "absent"
                    /\ HeldJobs' # {} \/ state'[worker'.key] = "purged"
    BY DEF WorkerHoldsRow
<1>0. DeleteInv /\ TypeInv
    BY DEF QuietInv, DeleteInv
<1>1. ASSUME worker.pc # "idle", worker'.key = worker.key
      PROVE  /\ worker.key \in Keys /\ state'[worker'.key] # "absent"
             /\ HeldJobs # {} \/ state'[worker'.key] = "purged"
    <2>1. worker.key \in Keys /\ RowFollows(worker.key)
        BY <1>0, <1>1, RowStep DEF TypeInv, WorkerHasJob
    <2> QED
        BY <1>1, <2>1 DEF RowFollows, QuietInv, WorkerHoldsRow
<1>2. CASE UNCHANGED worker /\ ~WorkerStep /\ ~Crash
    BY <1>0, <1>1, <1>2, HeldStays
<1>3. CASE worker.pc # "idle" /\ GoesOn
    <2>1. HeldJobs' = HeldJobs
        BY <1>3 DEF GoesOn, HeldJobs
    <2> QED
        BY <1>1, <1>3, <2>1 DEF GoesOn
<1>4. CASE Claim
    <2>0. PICK j \in outbox : \E n :
            /\ outbox' = (outbox \ {j}) \cup {[j EXCEPT !.status = "held", !.attempts = n]}
            /\ worker' = [IdleWorker EXCEPT !.pc = "load", !.type = j.type,
                                            !.key = j.key, !.attempts = n]
        BY <1>4 DEF Claim
    <2>1. PICK n :
            /\ outbox' = (outbox \ {j}) \cup {[j EXCEPT !.status = "held", !.attempts = n]}
            /\ worker' = [IdleWorker EXCEPT !.pc = "load", !.type = j.type,
                                            !.key = j.key, !.attempts = n]
        BY <2>0
    <2>2. [j EXCEPT !.status = "held", !.attempts = n].status = "held"
        BY <1>0 DEF TypeInv, TypeOK, Job
    <2>3. HeldJobs' # {}
        BY <2>1, <2>2 DEF HeldJobs
    <2>4. worker'.key = j.key /\ state[j.key] # "absent" /\ UNCHANGED state
        BY <1>4, <2>1 DEF IdleWorker, Claim, panel, QuietInv, JobsOfRows
    <2> QED
        BY <2>3, <2>4
<1>5. ~(Crash \/ RetryJob \/ FailJob \/ CompleteRevoke \/ CompleteToggle \/ CompleteJob)
    BY DEF Crash, RetryJob, FailJob, CompleteRevoke, CompleteToggle, CompleteLifecycle,
       CompleteJob, IdleWorker
<1>6. ASSUME \/ LoadKey \/ FindPeer \/ DeleteOrphan \/ ReplacePeer \/ CreatePeer
             \/ CompleteProvision \/ ListForRevoke \/ DropPeer \/ SetClientStatus
      PROVE  worker.pc # "idle"
    BY <1>6 DEF LoadKey, FindPeer, DeleteOrphan, ReplacePeer, CreatePeer, CompleteProvision,
       ListForRevoke, DropPeer, SetClientStatus, At
<1>7. CASE \/ LoadKey \/ FindPeer \/ DeleteOrphan \/ ReplacePeer \/ CreatePeer
           \/ CompleteProvision \/ ListForRevoke \/ DropPeer \/ SetClientStatus
    BY <1>0, <1>3, <1>5, <1>6, <1>7, HandlerStep
<1> QED
    BY <1>2, <1>4, <1>5, <1>7, WorkerRests DEF WorkerStep

LEMMA ProvisionsWantedStep ==
    ASSUME QuietInv, [Next]_vars
    PROVE  ProvisionsWanted'
<1> SUFFICES ASSUME Provisions'
             PROVE  state'[worker'.key] \in Wanted
    BY DEF ProvisionsWanted
<1>0. DeleteInv /\ TypeInv /\ worker'.pc \notin {"idle", "load", "throw", "drop", "settle"}
    BY DEF QuietInv, DeleteInv, Provisions
<1>1. CASE UNCHANGED worker /\ ~WorkerStep /\ ~Crash
    <2>1. worker.key \in Keys /\ state[worker.key] \in Wanted
        BY <1>0, <1>1 DEF Provisions, QuietInv, ProvisionsWanted, TypeInv, WorkerHasJob
    <2> QED
        BY <1>0, <1>1, <2>1, WantedStays
<1>2. CASE LoadKey
    <2>1. worker.type \in JobTypes /\ worker.key \in Keys /\ UNCHANGED state
        BY <1>0, <1>2 DEF LoadKey, At, RestOf, TypeInv, WorkerHasJob
    <2>2. worker'.key = worker.key /\ worker'.pc = FirstStep(worker.type, worker.key)
        BY <1>0, <1>2, HandlerStep DEF GoesOn, CompleteJob, IdleWorker
    <2>3. state[worker.key] = "provisioning"
        BY <2>1, <2>2 DEF FirstStep, JobTypes, Provisions
    <2> QED
        BY <2>1, <2>2, <2>3 DEF Wanted
<1>3. CASE FindPeer \/ DeleteOrphan \/ ReplacePeer \/ CreatePeer
    <2>1. Provisions /\ UNCHANGED state
        BY <1>3 DEF FindPeer, DeleteOrphan, ReplacePeer, CreatePeer, At, RestOf, Provisions
    <2>2. worker'.key = worker.key
        BY <1>0, <1>3, HandlerStep DEF GoesOn
    <2> QED
        BY <2>1, <2>2 DEF QuietInv, ProvisionsWanted
<1>4. CASE CompleteProvision
    <2>1. Provisions /\ worker'.key = worker.key /\ ~CompleteJob
        BY <1>0, <1>4, HandlerStep
        DEF CompleteProvision, At, Provisions, GoesOn, CompleteJob, IdleWorker
    <2>2. UNCHANGED state
        BY <1>4, <2>1 DEF CompleteProvision
    <2> QED
        BY <2>1, <2>2 DEF QuietInv, ProvisionsWanted
<1>5. ~(Crash \/ RetryJob \/ FailJob \/ CompleteRevoke \/ CompleteToggle \/ Claim)
    BY <1>0, NextSteps DEF Crash, RetryJob, FailJob, CompleteRevoke, CompleteToggle,
       CompleteLifecycle, CompleteJob, IdleWorker
<1>6. ~(ListForRevoke \/ DropPeer \/ SetClientStatus)
    BY <1>0, HandlerStep
<1> QED
    BY <1>1, <1>2, <1>3, <1>4, <1>5, <1>6, WorkerRests DEF WorkerStep

LEMMA FinishesWorkingStep ==
    ASSUME TypeInv, FinishesWorking, [Next]_vars
    PROVE  FinishesWorking'
<1> SUFFICES ASSUME worker'.pc = "finish"
             PROVE  /\ worker'.pub \in PeerIds /\ peers'[worker'.key][worker'.pub] = "on"
                    /\ \A c \in late' : c.key # worker'.key
    BY DEF FinishesWorking
<1>1. CASE UNCHANGED worker /\ ~WorkerStep
    <2>1. /\ worker.pc = "finish" /\ worker.key \in Keys
          /\ worker.pub \in PeerIds /\ peers[worker.key][worker.pub] = "on"
          /\ \A c \in late : c.key # worker.key
        BY <1>1 DEF FinishesWorking, TypeInv, WorkerHasJob
    <2>2. peers'[worker.key] = peers[worker.key]
        BY <1>1, <2>1, PeersMove
    <2>3. late' \subseteq late
        BY <2>1, LateMove
    <2> QED
        BY <1>1, <2>1, <2>2, <2>3
<1>2. CASE CreatePeer
    <2>0. worker.pc = "create" /\ worker.key \in Keys
        BY <1>2 DEF CreatePeer, At, TypeInv, WorkerHasJob
    <2>1. ~Go(OnError)
        BY DEF Go, OnError, TypeInv, TypeOK, Worker
    <2>2. Answers("create") /\ \E p \in Creatable(worker.key) :
              /\ peers' = WithNewPeer(worker.key, p, "on")
              /\ worker' = [worker EXCEPT !.pc = "finish", !.pub = p]
        BY <1>2, <2>1 DEF CreatePeer
    <2>3. PICK p \in Creatable(worker.key) :
              /\ peers' = WithNewPeer(worker.key, p, "on")
              /\ worker' = [worker EXCEPT !.pc = "finish", !.pub = p]
        BY <2>2
    <2>4. p \in PeerIds /\ worker'.key = worker.key /\ worker'.pub = p
        BY <2>3 DEF Creatable, TypeInv, TypeOK, Worker
    <2>5. peers'[worker.key][p] = "on"
        BY <2>0, <2>3, <2>4 DEF WithNewPeer, TypeInv, TypeOK
    <2>6. \A c \in late' : c.key # worker.key
        BY <2>2 DEF Answers, InTurn
    <2> QED
        BY <2>4, <2>5, <2>6
<1>3. ~LoadKey
    <2>1. LoadKey => worker.type \in JobTypes
        BY DEF LoadKey, At, TypeInv, WorkerHasJob
    <2> QED
        BY <2>1, LoadStep DEF FirstStep, JobTypes
<1> QED
    BY <1>1, <1>2, <1>3, WorkerRests, NextSteps, HandlerStep DEF WorkerStep

LEMMA SettlesWrittenStep ==
    ASSUME QuietInv, [Next]_vars
    PROVE  SettlesWritten'
<1> DEFINE written == IF worker.type = "enable" THEN "on" ELSE "off"
<1> SUFFICES ASSUME worker'.pc = "settle"
             PROVE  /\ worker'.pub \in PeerIds
                    /\ peers'[worker'.key][worker'.pub] =
                          (IF worker'.type = "enable" THEN "on" ELSE "off")
                    /\ worker'.pub = pubKey'[worker'.key] \/ state'[worker'.key] = "purged"
                    /\ \A c \in late' : c.key = worker'.key => c.op = "create"
    BY DEF SettlesWritten
<1>0. DeleteInv /\ TypeInv
    BY DEF QuietInv, DeleteInv
<1>1. CASE UNCHANGED worker /\ ~WorkerStep
    <2>1. /\ worker.pc = "settle" /\ worker.key \in Keys
          /\ worker.pub \in PeerIds /\ peers[worker.key][worker.pub] = written
          /\ worker.pub = pubKey[worker.key] \/ state[worker.key] = "purged"
          /\ \A c \in late : c.key = worker.key => c.op = "create"
        BY <1>0, <1>1 DEF QuietInv, SettlesWritten, TypeInv, WorkerHasJob
    <2>2. Configured(worker.key) # {}
        BY <2>1 DEF Configured
    <2>3. peers'[worker.key] = peers[worker.key]
        BY <1>0, <1>1, <2>1, <2>2, PeersMove DEF MayPerform, Creatable
    <2>4. late' \subseteq late
        BY <1>0, <2>1, LateMove
    <2>5. pubKey'[worker.key] = pubKey[worker.key] \/ state'[worker.key] = "purged"
        BY <1>0, <2>1, PubKeyStep DEF CompleteProvision, At
    <2>6. state[worker.key] = "purged" => state'[worker.key] = "purged"
        BY <1>0, <2>1, RowStep DEF RowFollows
    <2> QED
        BY <1>1, <2>1, <2>3, <2>4, <2>5, <2>6
<1>2. CASE SetClientStatus
    <2> DEFINE p == worker.pub
    <2>0. /\ worker.pc = "status" /\ worker.key \in Keys /\ UNCHANGED <<state, pubKey>>
          /\ worker.type \in {"disable", "enable"}
        BY <1>0, <1>2 DEF SetClientStatus, At, RestOf, DeleteInv, StepOfType, TypeInv, WorkerHasJob
    <2>1. ~Go("throw")
        BY <1>0 DEF Go, TypeInv, TypeOK, Worker
    <2>2. /\ Answers(Toggle) /\ peers[worker.key][p] # "none" /\ Go("settle")
          /\ peers' = WithStatus(worker.key, p, Toggle)
        BY <1>2, <2>1 DEF SetClientStatus
    <2>3. /\ worker'.key = worker.key /\ worker'.pub = p /\ worker'.type = worker.type
        BY <1>0, <2>2 DEF Go, TypeInv, TypeOK, Worker
    <2>4. p \in PeerIds /\ (p = pubKey[worker.key] \/ state[worker.key] = "purged")
        BY <1>0, <2>0 DEF DeleteInv, TogglesOwnPeer
    <2>5. p \in Configured(worker.key)
        BY <1>0, <2>0, <2>2, <2>4 DEF Configured, DeleteInv, NothingStale, TypeInv, TypeOK, PeerStatus
    <2>6. peers'[worker.key][p] = written
        BY <1>0, <2>0, <2>2, <2>4, <2>5 DEF WithStatus, Toggle, TypeInv, TypeOK
    <2>7. \A c \in late' : c.key = worker.key => c.op = "create"
        BY <2>2 DEF Answers, InTurn
    <2> QED
        BY <2>0, <2>3, <2>4, <2>6, <2>7
<1>3. ~LoadKey
    <2>1. LoadKey => worker.type \in JobTypes
        BY <1>0 DEF LoadKey, At, TypeInv, WorkerHasJob
    <2> QED
        BY <1>0, <2>1, LoadStep DEF FirstStep, JobTypes
<1>4. OnError # "settle"
    BY DEF OnError
<1> QED
    BY <1>0, <1>1, <1>2, <1>3, <1>4, WorkerRests, NextSteps, HandlerStep DEF WorkerStep

\* The job the worker is on is on record, while its row stands.
LEMMA WorkerOnRecord ==
    ASSUME QuietInv, worker.pc # "idle", state[worker.key] # "purged"
    PROVE  LiveJob(worker.key, {worker.type})
BY DEF QuietInv, WorkerHoldsRow, DeleteInv, JobOfWorker, HeldJobs, LiveJob

LEMMA LateGuardedStep ==
    ASSUME QuietInv, [Next]_vars
    PROVE  LateGuarded'
<1> SUFFICES ASSUME NEW c \in late'
             PROVE  /\ state'[c.key] # "absent"
                    /\ c.op = "delete" =>
                          state'[c.key] \notin Quiet \/ OnRecord(c.key, "revoke")'
                    /\ c.op \in {"disable", "enable"} =>
                          state'[c.key] = "purged" \/ OnRecord(c.key, c.op)'
    BY DEF LateGuarded
<1>0. DeleteInv /\ TypeInv /\ TypeInv'
    BY TypeNext DEF QuietInv, DeleteInv
<1>1. c.key \in Keys
    BY <1>0 DEF TypeInv, TypeOK, Call
<1>2. RowFollows(c.key)
    BY <1>0, <1>1, RowStep
<1>3. CASE c \in late
    <2>1. /\ state[c.key] # "absent"
          /\ c.op = "delete" => state[c.key] \notin Quiet \/ OnRecord(c.key, "revoke")
          /\ c.op \in {"disable", "enable"} => state[c.key] = "purged" \/ OnRecord(c.key, c.op)
        BY <1>3 DEF QuietInv, LateGuarded
    <2>2. state'[c.key] # "absent" /\ (state[c.key] = "purged" => state'[c.key] = "purged")
        BY <1>2, <2>1 DEF RowFollows
    <2>3. ASSUME c.op = "delete", state'[c.key] \in Quiet
          PROVE  OnRecord(c.key, "revoke")'
        <3>1. ~(CompleteProvision /\ c.key = worker.key)
            BY <1>3 DEF CompleteProvision, At, QuietInv, FinishesWorking
        <3>2. ~(CompleteToggle /\ c.key = worker.key)
            BY <1>3, <2>3 DEF CompleteToggle, At, QuietInv, SettlesWritten
        <3>3. state[c.key] \in Quiet
            BY <1>0, <1>1, <2>3, <3>1, <3>2, QuietRowStep
        <3>4. ~Settles(c.key, "revoke")
            <4>1. Settles(c.key, "revoke") => CompleteRevoke
                BY <3>2 DEF Settles
            <4> QED
                BY <1>0, <1>1, <2>3, <4>1 DEF Settles, CompleteRevoke, CompleteLifecycle, Quiet,
                    RowExists, KeyStates, LiveKeyStates, TypeInv, TypeOK
        <3>5. state'[c.key] # "purged"
            BY <2>3 DEF Quiet
        <3> QED
            BY <1>0, <1>1, <2>1, <2>3, <3>3, <3>4, <3>5, RecordStays
    <2>4. ASSUME c.op \in {"disable", "enable"}, state'[c.key] # "purged"
          PROVE  OnRecord(c.key, c.op)'
        <3>1. ~Settles(c.key, c.op)
            BY <1>0, <1>3, <2>4
            DEF Settles, CompleteToggle, CompleteRevoke, At, QuietInv, SettlesWritten, DeleteInv,
                StepOfType
        <3> QED
            BY <1>0, <1>1, <2>1, <2>2, <2>4, <3>1, RecordStays
    <2> QED
        BY <2>2, <2>3, <2>4
<1>4. CASE c \notin late
    <2>1. /\ worker.pc # "idle" /\ c.key = worker.key /\ UNCHANGED <<state, outbox>>
          /\ \/ c.op = "delete" /\ worker.pc \in {"unorphan", "replace", "drop"}
             \/ c.op = "create" /\ worker.pc = "create"
             \/ c.op = Toggle /\ worker.pc = "status"
        BY <1>0, <1>4, LateMove
    <2>2. state[c.key] # "absent"
        BY <2>1 DEF QuietInv, WorkerHoldsRow
    <2>3. state[c.key] # "purged" =>
              \A t : t = worker.type => LiveJob(c.key, {t})'
        BY <2>1, WorkerOnRecord DEF LiveJob
    <2>4. CASE worker.pc \in {"unorphan", "replace", "create"}
        BY <2>1, <2>2, <2>4 DEF QuietInv, ProvisionsWanted, Provisions, Wanted, Quiet
    <2>5. CASE worker.pc = "drop"
        BY <1>0, <2>1, <2>2, <2>3, <2>5 DEF DeleteInv, StepOfType, OnRecord, Quiet
    <2>6. CASE worker.pc = "status"
        <3>1. c.op = worker.type /\ c.op \in {"disable", "enable"}
            BY <1>0, <2>1, <2>6 DEF DeleteInv, StepOfType, Toggle
        <3> QED
            BY <2>1, <2>2, <2>3, <3>1 DEF OnRecord
    <2> QED
        BY <2>1, <2>4, <2>5, <2>6
<1> QED
    BY <1>3, <1>4

LEMMA QuietMatchesStep ==
    ASSUME QuietInv, ~AgentDies, [Next]_vars
    PROVE  QuietMatches'
<1> SUFFICES ASSUME NEW k \in Keys, state'[k] \in Quiet, NothingOnRecord(k)'
             PROVE  /\ Configured(k)' = {pubKey'[k]}
                    /\ peers'[k][pubKey'[k]] = IF state'[k] = "active" THEN "on" ELSE "off"
    BY DEF QuietMatches
<1>0. DeleteInv /\ TypeInv /\ OnePeer'
    BY OnePeerStep DEF QuietInv, DeleteInv
<1>1. RowFollows(k) /\ state[k] # "purged" /\ state'[k] # "purged"
    BY <1>0, RowStep DEF RowFollows, Quiet
\* A peer that is the row's and works as the row says is the only one.
<1>2. ASSUME pubKey'[k] \in PeerIds,
             peers'[k][pubKey'[k]] = IF state'[k] = "active" THEN "on" ELSE "off"
      PROVE  Configured(k)' = {pubKey'[k]}
    BY <1>0, <1>2 DEF OnePeer, Configured
<1>3. CASE CompleteToggle /\ k = worker.key
    <2>1. /\ worker.pub \in PeerIds /\ worker.pub = pubKey[k]
          /\ peers[k][worker.pub] = IF worker.type = "enable" THEN "on" ELSE "off"
        BY <1>1, <1>3 DEF CompleteToggle, At, QuietInv, SettlesWritten
    <2>2. state'[k] = IF worker.type = "enable" THEN "active" ELSE "disabled"
        BY <1>0, <1>1, <1>3
        DEF CompleteToggle, CompleteLifecycle, RowExists, Quiet, TypeInv, TypeOK
    <2>3. UNCHANGED <<peers, pubKey>>
        BY <1>3 DEF CompleteToggle, CompleteLifecycle, RestOf
    <2> QED
        BY <1>2, <2>1, <2>2, <2>3
<1>4. CASE CompleteProvision /\ state'[k] # state[k] /\ k = worker.key
    <2>0. /\ UNCHANGED peers /\ state' = [state EXCEPT ![k] = "active"]
          /\ pubKey' = [pubKey EXCEPT ![k] = worker.pub]
        BY <1>4 DEF CompleteProvision, RestOf
    <2>1. UNCHANGED peers /\ state'[k] = "active" /\ pubKey'[k] = worker.pub
        BY <1>0, <2>0 DEF TypeInv, TypeOK
    <2>2. worker.pub \in PeerIds /\ peers[k][worker.pub] = "on"
        BY <1>4 DEF CompleteProvision, At, QuietInv, FinishesWorking
    <2> QED
        BY <1>2, <2>1, <2>2
<1>5. CASE state'[k] = state[k] /\ ~(CompleteToggle /\ k = worker.key)
    <2>1. ~CompleteRevoke \/ k # worker.key
        BY <1>0, <1>1 DEF CompleteRevoke, CompleteLifecycle, RowExists, Quiet, KeyStates,
           LiveKeyStates, TypeInv, TypeOK
    <2>2. NothingOnRecord(k)
        <3> SUFFICES ASSUME NEW t \in {"revoke", "disable", "enable"}, OnRecord(k, t)
                     PROVE  FALSE
            BY DEF NothingOnRecord
        <3>1. OnRecord(k, t)' \/ Settles(k, t)
            BY <1>0, <1>1, <1>5, RecordStays DEF Quiet
        <3> QED
            BY <1>5, <2>1, <3>1 DEF NothingOnRecord, Settles
    <2>3. /\ Configured(k) = {pubKey[k]}
          /\ peers[k][pubKey[k]] = IF state[k] = "active" THEN "on" ELSE "off"
        BY <1>5, <2>2 DEF QuietInv, QuietMatches
    <2>4. pubKey'[k] = pubKey[k]
        <3>1. CompleteProvision /\ k = worker.key => state[k] \in Wanted
            BY DEF CompleteProvision, At, QuietInv, ProvisionsWanted, Provisions
        <3> QED
            BY <1>0, <1>1, <1>5, <3>1, PubKeyStep DEF Quiet, Wanted
    <2>5. peers'[k] = peers[k]
        <3> SUFFICES ASSUME peers'[k] # peers[k]
                     PROVE  FALSE
            OBVIOUS
        <3>1. CASE /\ worker.key = k
                   /\ worker.pc \in {"unorphan", "replace", "drop", "status", "create"}
            <4>1. worker.pc \in {"drop", "status"}
                BY <1>5, <3>1 DEF QuietInv, ProvisionsWanted, Provisions, Wanted, Quiet
            <4>2. worker.type \in {"revoke", "disable", "enable"} /\ LiveJob(k, {worker.type})
                BY <1>0, <1>1, <3>1, <4>1, WorkerOnRecord DEF DeleteInv, StepOfType
            <4> QED
                BY <2>2, <4>2 DEF NothingOnRecord, OnRecord
        <3>2. ASSUME NEW c \in late, c.key = k, MayPerform(c)
              PROVE  FALSE
            <4>1. c.op \in {"delete", "disable", "enable"}
                BY <1>0, <2>3, <3>2 DEF MayPerform, Creatable
            <4>2. OnRecord(k, "revoke") \/ OnRecord(k, c.op)
                BY <1>1, <1>5, <3>2, <4>1 DEF QuietInv, LateGuarded
            <4>3. c.op = "delete" => OnRecord(k, "revoke")
                BY <1>5, <3>2 DEF QuietInv, LateGuarded
            <4> QED
                BY <2>2, <4>1, <4>2, <4>3 DEF NothingOnRecord
        <3> QED
            BY <1>0, <3>1, <3>2, PeersMove
    <2> QED
        BY <1>5, <2>3, <2>4, <2>5 DEF Configured
<1>6. CASE state[k] \in Quiet /\ \E t \in {"disable", "enable"} : LiveJob(k, {t})'
    BY <1>6 DEF NothingOnRecord, OnRecord
<1> QED
    BY <1>0, <1>3, <1>4, <1>5, <1>6, QuietRowStep

\* Where the agent does not die between its two writes: with no job of a key under
\* way and none that failed, an active key's one peer works and a disabled key's
\* does not, whatever calls linger and land late.
THEOREM QuietKeysMatch ==
    ASSUME ~AgentDies
    PROVE  Spec => []QuietKeyMatchesNode
<1>1. Init => QuietInv
    BY QuietInit
<1>2. QuietInv /\ [Next]_vars => QuietInv'
    BY DeleteStep, JobsOfRowsStep, OnePeerStep, WorkerHoldsRowStep, ProvisionsWantedStep,
       FinishesWorkingStep, SettlesWrittenStep, LateGuardedStep, QuietMatchesStep
    DEF QuietInv, DeleteInv
<1>3. QuietInv => QuietKeyMatchesNode
    <2> SUFFICES ASSUME QuietInv, NEW k \in Keys, ~LiveJob(k, JobTypes),
                        \A t \in JobTypes : failedJobs[k][t] = 0, state[k] \in Quiet
                 PROVE  /\ Configured(k) = {pubKey[k]}
                        /\ peers[k][pubKey[k]] = IF state[k] = "active" THEN "on" ELSE "off"
        BY DEF QuietKeyMatchesNode, Quiet
    <2>1. {"revoke", "disable", "enable"} \subseteq JobTypes
        BY DEF JobTypes
    <2>2. NothingOnRecord(k)
        BY <2>1 DEF NothingOnRecord, OnRecord, LiveJob
    <2> QED
        BY <2>2 DEF QuietInv, QuietMatches
<1> QED
    BY <1>1, <1>2, <1>3, PTL DEF Spec

-----------------------------------------------------------------------------
(* The promise, when no call lingers.  Only the calls of the one worker     *)
(* change what the node carries, and none of them touches the row; so each  *)
(* step is one of the promise, or nothing it can see.                       *)

\* A revoke is asked for before it is queued.
RevokesAsked ==
    /\ \A j \in outbox : j.type = "revoke" => asked[j.key]
    /\ worker.pc # "idle" /\ worker.type = "revoke" => asked[worker.key]
    /\ \A k \in Keys : state[k] = "revoking" => asked[k]
    /\ \A k \in rearm : asked[k]

\* Where the agent does not die, what DeleteInv says of a revoked row holds too.
PromiseInv ==
    /\ PeerInv /\ StepOfType /\ RevokesAsked /\ OnePeer /\ FinishesWorking
    /\ AgentDies \/ DeleteInv

\* A row that becomes "revoking" was asked to go in the same step.
LEMMA RevokingIsAsked ==
    ASSUME TypeInv, [Next]_vars, NEW k \in Keys, state'[k] = "revoking"
    PROVE  state[k] = "revoking" \/ asked'[k]
<1> USE DEF TypeInv, TypeOK, WorkerHasJob
<1>1. ASSUME NEW i \in Keys, KeyRequest(i)
      PROVE  state[k] = "revoking" \/ asked'[k]
    BY <1>1 DEF KeyRequest, CreateKey, RevokeKey, RotateKey, ToggleKey, PurgeFind, PurgeKey
<1>2. ASSUME NEW u \in Users, AccountRequest(u)
      PROVE  state[k] = "revoking" \/ asked'[k]
    <2>1. ASSUME NEW states, Offboard(u, states)
          PROVE  state[k] = "revoking" \/ asked'[k]
        BY <2>1 DEF Offboard
    <2>2. CASE EraseAccount(u) \/ UNCHANGED state
        BY <2>2 DEF EraseAccount
    <2> QED
        BY <1>2, <2>1, <2>2 DEF AccountRequest, AdminOffboard, AccessRemoved, Reinstate, DeleteUser,
           SweepFind, SweepDelete
<1>3. CASE FailJob \/ CompleteProvision \/ CompleteToggle \/ CompleteRevoke
    BY <1>3 DEF FailJob, CompleteProvision, CompleteToggle, CompleteRevoke, CompleteLifecycle
<1>4. CASE \/ UNCHANGED vars \/ RearmFind \/ Rearm \/ Timer \/ Crash \/ NodeFlips \/ LateLands
           \/ Claim \/ RetryJob
    BY <1>4 DEF vars, panel, RearmFind, Rearm, Timer, BackoffElapses, LeaseExpires, Crash, NodeFlips,
       LateLands, Claim, RetryJob
<1>5. CASE \/ LoadKey \/ FindPeer \/ DeleteOrphan \/ ReplacePeer \/ CreatePeer
           \/ ListForRevoke \/ DropPeer \/ SetClientStatus
    BY <1>5 DEF LoadKey, FindPeer, DeleteOrphan, ReplacePeer, CreatePeer, ListForRevoke,
       DropPeer, SetClientStatus, RestOf
<1> QED
    BY <1>1, <1>2, <1>3, <1>4, <1>5 DEF Next, WorkerStep

LEMMA RevokesAskedStep ==
    ASSUME TypeInv, RevokesAsked, [Next]_vars
    PROVE  RevokesAsked'
<1>0. TypeInv'
    BY TypeNext
<1>1. ASSUME NEW k \in Keys, asked[k]
      PROVE  asked'[k]
    BY <1>1, AskedStep
<1>2. ASSUME NEW k \in Keys, state'[k] = "revoking"
      PROVE  asked'[k]
    BY <1>1, <1>2, RevokingIsAsked DEF RevokesAsked
<1>3. ASSUME NEW j \in outbox', j.type = "revoke"
      PROVE  asked'[j.key]
    <2>1. j.key \in Keys /\ rearm \subseteq Keys
        BY <1>0 DEF TypeInv, TypeOK, Job
    <2> QED
        BY <1>1, <1>2, <1>3, <2>1, JobsComeFrom DEF RevokesAsked
<1>4. ASSUME worker'.pc # "idle", worker'.type = "revoke"
      PROVE  asked'[worker'.key]
    <2>1. CASE Claim
        <3>0. PICK j \in outbox : \E n :
                worker' = [IdleWorker EXCEPT !.pc = "load", !.type = j.type, !.key = j.key,
                                             !.attempts = n]
            BY <2>1 DEF Claim
        <3>1. worker'.type = j.type /\ worker'.key = j.key /\ j.key \in Keys
            BY <3>0 DEF IdleWorker, TypeInv, TypeOK, Job
        <3> QED
            BY <1>1, <1>4, <3>1 DEF RevokesAsked
    <2>2. CASE worker'.key = worker.key /\ worker'.type = worker.type /\ worker.pc # "idle"
        BY <1>1, <1>4, <2>2 DEF RevokesAsked, TypeInv, WorkerHasJob
    <2>3. CompleteJob => worker'.pc = "idle"
        BY DEF CompleteJob, IdleWorker
    <2>4. CASE UNCHANGED worker
        BY <1>4, <2>2, <2>4
    <2>5. CASE WorkerStep /\ GoesOn
        <3>1. Claim \/ worker.pc # "idle"
            BY <2>5 DEF WorkerStep, RetryJob, FailJob, LoadKey, FindPeer, DeleteOrphan, ReplacePeer,
               CreatePeer, CompleteProvision, ListForRevoke, DropPeer, CompleteRevoke,
               SetClientStatus, CompleteToggle, At
        <3> QED
            BY <2>1, <2>2, <2>5, <3>1 DEF GoesOn
    <2> QED
        BY <1>4, <2>1, <2>3, <2>4, <2>5, WorkerRests, NextSteps, HandlerStep DEF WorkerStep
<1>5. ASSUME NEW k \in rearm'
      PROVE  asked'[k]
    BY <1>0, <1>1, <1>5, RearmFrom DEF RevokesAsked, TypeInv, TypeOK
<1> QED
    BY <1>2, <1>3, <1>4, <1>5 DEF RevokesAsked

\* What the node carries for a key changes only as one peer comes or goes.
LEMMA ConfiguredStep ==
    ASSUME TypeInv, OnePeer, late = {}, [Next]_vars, NEW k \in Keys
    PROVE  \/ Configured(k)' = Configured(k)
           \/ Configured(k)' = {}
           \/ /\ CreatePeer /\ k = worker.key /\ Configured(k) = {}
              /\ \E p \in PeerIds : Configured(k)' = {p}
<1>1. CASE ~CreatePeer
    <2>1. Configured(k)' \subseteq Configured(k)
        BY <1>1, OnlyCreateAddsPeer
    <2>2. \A p, q \in Configured(k) : p = q
        BY DEF OnePeer
    <2> QED
        BY <2>1, <2>2
<1>2. CASE CreatePeer
    <2>0. worker.key \in Keys
        BY <1>2 DEF CreatePeer, At, TypeInv, WorkerHasJob
    <2>1. \/ UNCHANGED peers
          \/ \E p \in Creatable(worker.key), status \in {"on", "stale"} :
                peers' = WithNewPeer(worker.key, p, status)
        <3> DEFINE c == [op |-> "create", key |-> worker.key, pub |-> None]
        <3>1. MayPerform(c) \/ UNCHANGED peers
              \/ \E p \in Creatable(worker.key) : peers' = WithNewPeer(worker.key, p, "on")
            BY <1>2 DEF CreatePeer, Unanswered, node
        <3>2. c.op = "create" /\ c.key = worker.key
            OBVIOUS
        <3> HIDE DEF c
        <3> QED
            BY <3>1, <3>2 DEF MayPerform
    <2>2. CASE UNCHANGED peers
        BY <2>2 DEF Configured
    <2>3. ASSUME NEW p \in Creatable(worker.key), NEW status \in {"on", "stale"},
                 peers' = WithNewPeer(worker.key, p, status)
          PROVE  \/ Configured(k)' = Configured(k)
                 \/ Configured(k)' = {}
                 \/ k = worker.key /\ Configured(k) = {} /\ Configured(k)' = {p}
        <3>1. CASE k # worker.key
            <4>1. peers'[k] = peers[k]
                BY <2>0, <2>3, <3>1 DEF WithNewPeer, TypeInv, TypeOK
            <4> QED
                BY <4>1 DEF Configured
        <3>2. CASE k = worker.key
            <4>1. Configured(k) = {} /\ p \in PeerIds
                BY <3>2 DEF Creatable
            <4>2. \A q \in PeerIds : peers'[k][q] = IF q = p THEN status
                                        ELSE IF peers[k][q] = "stale" THEN "none" ELSE peers[k][q]
                BY <2>0, <2>3, <3>2 DEF WithNewPeer, TypeInv, TypeOK
            <4>3. \A q \in PeerIds : q # p => peers'[k][q] \notin {"on", "off"}
                BY <4>1, <4>2 DEF Configured
            <4> QED
                BY <3>2, <4>1, <4>2, <4>3 DEF Configured
        <3> QED
            BY <3>1, <3>2
    <2> QED
        BY <1>2, <2>1, <2>2, <2>3 DEF Creatable
<1> QED
    BY <1>1, <1>2

LEMMA PromiseInvStep ==
    ASSUME ~CallsLinger, PromiseInv, [Next]_vars
    PROVE  PromiseInv'
<1>0. TypeInv /\ late = {}
    BY DEF PromiseInv, PeerInv
<1>1. PeerInv'
    BY TypeNext, NoLateCallStep, ProvisionsLiveRowStep, DropsEveryPeerStep, NoStrandedPeerStep
    DEF PromiseInv, PeerInv
<1>2. OnePeer'
    <2> SUFFICES ASSUME NEW k \in Keys
                 PROVE  \A p, q \in Configured(k)' : p = q
        BY DEF OnePeer
    <2> QED
        BY <1>0, ConfiguredStep DEF PromiseInv, OnePeer
<1>3. StepOfType' /\ RevokesAsked' /\ FinishesWorking'
    BY <1>0, StepOfTypeStep, RevokesAskedStep, FinishesWorkingStep DEF PromiseInv
<1>4. (AgentDies \/ DeleteInv)'
    BY DeleteStep DEF PromiseInv
<1> QED
    BY <1>1, <1>2, <1>3, <1>4 DEF PromiseInv

\* The mapping, read for one key.
LEMMA PhaseIs ==
    ASSUME TypeInv, NEW k \in Keys
    PROVE  /\ state[k] \in LiveKeyStates <=> PhaseOf[k] = "live"
           /\ state[k] = "revoked" <=> PhaseOf[k] = "gone"
           /\ state[k] \in {"absent", "purged"} <=> PhaseOf[k] \in {"absent", "purged"}
           /\ state[k] \in {"absent", "purged"} => PhaseOf[k] = state[k]
<1>1. PhaseOf[k] = CASE state[k] \in LiveKeyStates -> "live"
                     [] state[k] = "revoked" -> "gone"
                     [] OTHER -> state[k]
    BY DEF PhaseOf
<1>2. state[k] \in LiveKeyStates \cup {"revoked", "absent", "purged"}
    BY DEF TypeInv, TypeOK, KeyStates
<1> QED
    BY <1>1, <1>2 DEF LiveKeyStates

\* The peer of the mapping is the one the node carries.
PeerReads ==
    /\ PeerOf = [k \in Keys |-> PeerOf[k]]
    /\ \A k \in Keys : Configured(k) = IF PeerOf[k] = None THEN {} ELSE {PeerOf[k]}

LEMMA PeerIs == OnePeer => PeerReads
<1> SUFFICES ASSUME OnePeer
             PROVE  PeerReads
    OBVIOUS
<1>1. ASSUME NEW k \in Keys
      PROVE  Configured(k) = IF PeerOf[k] = None THEN {} ELSE {PeerOf[k]}
    <2>1. PeerOf[k] = IF Configured(k) = {} THEN None ELSE CHOOSE p \in Configured(k) : TRUE
        BY DEF PeerOf
    <2>2. None \notin Configured(k)
        BY NoneAssumption DEF Configured
    <2>3. \A p, q \in Configured(k) : p = q
        BY DEF OnePeer
    <2>4. Configured(k) # {} => (CHOOSE p \in Configured(k) : TRUE) \in Configured(k)
        OBVIOUS
    <2> QED
        BY <2>1, <2>2, <2>3, <2>4
<1>2. PeerOf = [k \in Keys |-> PeerOf[k]]
    BY DEF PeerOf
<1> QED
    BY <1>1, <1>2 DEF PeerReads

LEMMA PeerStays ==
    ASSUME UNCHANGED peers
    PROVE  UNCHANGED PeerOf
BY DEF PeerOf, Configured

\* A call to the node.
LEMMA CallImplements ==
    ASSUME PromiseInv, PromiseInv', [Next]_vars,
           DeleteOrphan \/ ReplacePeer \/ DropPeer \/ SetClientStatus \/ CreatePeer
    PROVE  [Promise!Next]_(Promise!vars)
<1>0. /\ TypeInv /\ late = {} /\ OnePeer /\ OnePeer' /\ worker.key \in Keys
      /\ UNCHANGED <<state, pubKey, account, purge, asked>>
    BY DEF PromiseInv, PeerInv, TypeInv, WorkerHasJob, DeleteOrphan, ReplacePeer, DropPeer,
       SetClientStatus, CreatePeer, At, RestOf
<1> PICK k \in Keys : k = worker.key
    BY <1>0
<1>1. UNCHANGED PhaseOf
    BY <1>0 DEF PhaseOf
<1>2. PeerReads /\ PeerReads'
    BY <1>0, PeerIs, PTL
<1>3. ASSUME NEW i \in Keys, Configured(i)' = Configured(i)
      PROVE  PeerOf'[i] = PeerOf[i]
    BY <1>2, <1>3 DEF PeerReads
<1>4. \A i \in Keys \ {k} : PeerOf'[i] = PeerOf[i]
    <2> SUFFICES ASSUME NEW i \in Keys, i # k
                 PROVE  Configured(i)' = Configured(i)
        BY <1>3
    <2>1. peers'[i] = peers[i]
        BY <1>0, PeersMove
    <2> QED
        BY <2>1 DEF Configured
<1>5. PeerOf' = [PeerOf EXCEPT ![k] = PeerOf'[k]]
    BY <1>2, <1>4 DEF PeerReads
<1>6. CASE Configured(k)' = Configured(k)
    <2>1. UNCHANGED PeerOf
        BY <1>2, <1>3, <1>4, <1>6 DEF PeerReads
    <2> QED
        BY <1>0, <1>1, <2>1 DEF Promise!vars
<1>7. CASE Configured(k)' = {}
    <2>1. PeerOf'[k] = None
        BY <1>2, <1>7 DEF PeerReads
    <2>2. Promise!Disconnect(k)
        BY <1>0, <1>1, <1>5, <2>1 DEF Promise!Disconnect
    <2> QED
        BY <2>2 DEF Promise!Next
<1>8. ASSUME NEW p \in PeerIds, CreatePeer, Configured(k) = {}, Configured(k)' = {p}
      PROVE  Promise!Connect(k, p)
    <2>1. PeerOf'[k] = p /\ PeerOf[k] = None
        BY <1>2, <1>8 DEF PeerReads
    <2>2. PhaseOf[k] = "live" \/ purge[k] = "overrun"
        BY <1>0, <1>8, PhaseIs
        DEF CreatePeer, At, PromiseInv, PeerInv, ProvisionsLiveRow, MayHavePeer
    <2> QED
        BY <1>0, <1>1, <1>5, <2>1, <2>2 DEF Promise!Connect, Promise!Alive
<1>9. \/ Configured(k)' = Configured(k)
      \/ Configured(k)' = {}
      \/ \E p \in PeerIds : CreatePeer /\ Configured(k) = {} /\ Configured(k)' = {p}
    BY <1>0, ConfiguredStep
<1> QED
    BY <1>6, <1>7, <1>8, <1>9 DEF Promise!Next

\* A request about one key.
LEMMA KeyRequestImplements ==
    ASSUME PromiseInv, PromiseInv', NEW k \in Keys, KeyRequest(k)
    PROVE  [Promise!Next]_(Promise!vars)
<1>0. TypeInv /\ TypeInv' /\ TypeOK
    BY DEF PromiseInv, PeerInv, TypeInv
<1>1. UNCHANGED PeerOf
    BY PeerStays DEF KeyRequest, CreateKey, RevokeKey, RotateKey, ToggleKey, PurgeFind, PurgeKey, node
<1>2. CASE CreateKey(k)
    <2>1. PhaseOf' = [PhaseOf EXCEPT ![k] = "live"]
        BY <1>0, <1>2 DEF CreateKey, PhaseOf, TypeOK, LiveKeyStates
    <2>2. PhaseOf[k] = "absent"
        BY <1>0, <1>2, PhaseIs DEF CreateKey
    <2>3. Promise!Create(k)
        BY <1>1, <1>2, <2>1, <2>2 DEF CreateKey, Promise!Create
    <2> QED
        BY <2>3 DEF Promise!Next
<1>3. CASE RevokeKey(k)
    <2>1. UNCHANGED PhaseOf
        BY <1>0, <1>3 DEF RevokeKey, PhaseOf, TypeOK, LiveKeyStates, RevocableKeyStates
    <2>2. PhaseOf[k] = "live"
        BY <1>0, <1>3, PhaseIs DEF RevokeKey, RevocableKeyStates
    <2>3. Promise!Delete(k)
        BY <1>1, <1>3, <2>1, <2>2 DEF RevokeKey, Promise!Delete, Promise!Alive
    <2> QED
        BY <2>3 DEF Promise!Next
<1>4. CASE RotateKey(k) \/ \E type \in {"disable", "enable"} : ToggleKey(k, type)
    <2>1. UNCHANGED PhaseOf
        BY <1>0, <1>4 DEF RotateKey, RotatableStates, ToggleKey, PhaseOf, TypeOK, LiveKeyStates
    <2> QED
        BY <1>1, <1>4, <2>1 DEF RotateKey, ToggleKey, Promise!vars
<1>5. CASE PurgeKey(k)
    <2>0. state[k] \in LiveKeyStates \cup {"revoked"}
        BY <1>5 DEF PurgeKey, RowExists, KeyStates
    <2>1. PhaseOf' = [i \in Keys |-> IF i \in {k} THEN "purged" ELSE PhaseOf[i]]
        BY <1>0, <1>5 DEF PurgeKey, PhaseOf, TypeOK, LiveKeyStates
    <2>2. pubKey' = [i \in Keys |-> IF i \in {k} THEN None ELSE pubKey[i]]
        BY <1>0, <1>5 DEF PurgeKey, TypeOK
    <2>3. PhaseOf[k] \in {"gone", "live"} /\ (state[k] = "revoked" <=> PhaseOf[k] # "live")
        BY <1>0, <2>0, PhaseIs DEF LiveKeyStates
    <2>4. purge' = [purge EXCEPT ![k] = IF PhaseOf[k] = "live" THEN "overrun" ELSE "read"]
        BY <1>0, <1>5, <2>3 DEF PurgeKey, TypeOK
    <2>5. Promise!Purge(k)
        BY <1>1, <1>5, <2>1, <2>2, <2>3, <2>4
        DEF PurgeKey, Promise!Purge, Promise!Forget, Promise!Alive
    <2> QED
        BY <2>5 DEF Promise!Next
<1>6. CASE PurgeFind(k)
    <2>1. UNCHANGED PhaseOf /\ PhaseOf[k] = "gone"
        BY <1>0, <1>6, PhaseIs DEF PurgeFind, PhaseOf
    <2>2. Promise!LookAt(k)
        BY <1>1, <1>6, <2>1 DEF PurgeFind, Promise!LookAt
    <2> QED
        BY <2>2 DEF Promise!Next
<1> QED
    BY <1>2, <1>3, <1>4, <1>5, <1>6 DEF KeyRequest

\* A request about an account, or a step of the sweep.
LEMMA AccountRequestImplements ==
    ASSUME PromiseInv, PromiseInv', NEW u \in Users, AccountRequest(u)
    PROVE  [Promise!Next]_(Promise!vars)
<1>0. TypeInv /\ TypeInv' /\ TypeOK /\ RevokesAsked
    BY DEF PromiseInv, PeerInv, TypeInv
<1>1. UNCHANGED PeerOf
    BY PeerStays DEF AccountRequest, AdminOffboard, AccessRemoved, Offboard, Reinstate, DeleteUser,
       SweepFind, SweepDelete, node
<1>2. CASE AdminOffboard(u) \/ AccessRemoved(u)
    <2>0. PICK states : /\ Offboard(u, states) /\ account[u] # "deleted"
                        /\ states = LiveKeyStates \/ states = LiveKeyStates \ {"revoking"}
        BY <1>0, <1>2 DEF AdminOffboard, AccessRemoved, RevocableKeyStates
    <2> DEFINE K == {k \in KeysOf(u) : state[k] \in states}
    <2>1. /\ account' = [account EXCEPT ![u] = "disabled"]
          /\ state' = [k \in Keys |-> IF k \in K THEN "revoking" ELSE state[k]]
          /\ asked' = [k \in Keys |-> asked[k] \/ k \in K]
          /\ UNCHANGED <<pubKey, purge>>
        BY <2>0 DEF Offboard
    <2>2. UNCHANGED PhaseOf
        BY <1>0, <2>0, <2>1 DEF PhaseOf, LiveKeyStates, TypeOK
    <2>3. \A k \in Keys : (asked[k] \/ k \in K) <=> asked[k] \/ (Owner[k] = u /\ PhaseOf[k] = "live")
        <3> SUFFICES ASSUME NEW k \in Keys
                     PROVE  (asked[k] \/ k \in K)
                                <=> asked[k] \/ (Owner[k] = u /\ state[k] \in LiveKeyStates)
            BY <1>0, PhaseIs
        <3> QED
            BY <1>0, <2>0 DEF KeysOf, RevokesAsked
    <2>4. asked' = [k \in Keys |-> asked[k] \/ (Owner[k] = u /\ PhaseOf[k] = "live")]
        <3> HIDE DEF K
        <3>1. \A k \in Keys : asked[k] \in BOOLEAN
            BY <1>0 DEF TypeOK
        <3> QED
            BY <2>1, <2>3, <3>1
    <2>5. Promise!Disable(u)
        BY <1>1, <2>0, <2>1, <2>2, <2>4 DEF Promise!Disable, Promise!Alive
    <2> QED
        BY <2>5 DEF Promise!Next
<1>3. CASE Reinstate(u)
    <2>1. UNCHANGED PhaseOf
        BY <1>3 DEF Reinstate, PhaseOf
    <2>2. Promise!Reinstate(u)
        BY <1>1, <1>3, <2>1 DEF Reinstate, Promise!Reinstate
    <2> QED
        BY <2>2 DEF Promise!Next
<1>4. ASSUME EraseAccount(u), ~HasLiveKeys(u), UNCHANGED <<purge, asked>>
      PROVE  Promise!Erase(u)
    <2>1. \A k \in Keys : Owner[k] = u => PhaseOf[k] # "live"
        BY <1>0, <1>4, PhaseIs DEF HasLiveKeys, KeysOf
    <2> DEFINE G == {k \in Keys : Owner[k] = u /\ PhaseOf[k] = "gone"}
    <2>2. \A k \in Keys : k \in G <=> Owner[k] = u /\ state[k] = "revoked"
        BY <1>0, PhaseIs
    <2>3. PhaseOf' = [k \in Keys |-> IF k \in G THEN "purged" ELSE PhaseOf[k]]
        <3> HIDE DEF G
        <3> QED
            BY <1>0, <1>4, <2>2 DEF EraseAccount, PhaseOf, LiveKeyStates, TypeOK
    <2>4. pubKey' = [k \in Keys |-> IF k \in G THEN None ELSE pubKey[k]]
        <3> HIDE DEF G
        <3> QED
            BY <1>0, <1>4, <2>2 DEF EraseAccount, TypeOK
    <2>5. {k \in Promise!KeysOf(u) : PhaseOf[k] = "gone"} = G
        BY DEF Promise!KeysOf
    <2> HIDE DEF G
    <2> QED
        BY <1>1, <1>4, <2>1, <2>3, <2>4, <2>5
        DEF EraseAccount, Promise!Erase, Promise!Alive, Promise!KeysOf, Promise!Forget
<1>5. CASE DeleteUser(u) \/ SweepDelete(u)
    <2>1. CASE UNCHANGED <<account, state, pubKey, purge, asked>>
        BY <1>1, <2>1 DEF PhaseOf, Promise!vars
    <2> QED
        BY <1>4, <1>5, <2>1 DEF DeleteUser, SweepDelete, Promise!Next
<1>6. CASE SweepFind(u)
    BY <1>1, <1>6 DEF SweepFind, PhaseOf, Promise!vars
<1> QED
    BY <1>2, <1>3, <1>5, <1>6 DEF AccountRequest

\* The end of a job.
LEMMA EndOfJobImplements ==
    ASSUME PromiseInv, PromiseInv', FailJob \/ CompleteProvision \/ CompleteRevoke \/ CompleteToggle
    PROVE  [Promise!Next]_(Promise!vars)
<1>0. TypeInv /\ TypeInv' /\ TypeOK /\ OnePeer
    BY DEF PromiseInv, PeerInv, TypeInv
<1>1. UNCHANGED peers /\ UNCHANGED <<account, purge, asked>>
    BY DEF FailJob, CompleteProvision, CompleteRevoke, CompleteToggle, CompleteLifecycle, RestOf, node
<1>2. UNCHANGED PeerOf
    BY <1>1, PeerStays
<1>3. ASSUME UNCHANGED state, UNCHANGED pubKey
      PROVE  UNCHANGED Promise!vars
    BY <1>1, <1>2, <1>3 DEF PhaseOf, Promise!vars
<1>4. CASE FailJob
    <2>1. UNCHANGED PhaseOf
        BY <1>0, <1>4 DEF FailJob, PhaseOf, LiveKeyStates, TypeOK
    <2> QED
        BY <1>1, <1>2, <1>4, <2>1 DEF FailJob, Promise!vars
<1>5. CASE CompleteProvision
    <2>0. PICK k \in Keys : k = worker.key
        BY <1>0, <1>5 DEF CompleteProvision, At, TypeInv, WorkerHasJob
    <2>1. CASE state[k] # "provisioning"
        BY <1>3, <1>5, <2>0, <2>1 DEF CompleteProvision
    <2>2. CASE state[k] = "provisioning"
        <3>1. /\ state' = [state EXCEPT ![k] = "active"]
              /\ pubKey' = [pubKey EXCEPT ![k] = worker.pub]
            BY <1>5, <2>0, <2>2 DEF CompleteProvision
        <3>2. UNCHANGED PhaseOf
            BY <1>0, <2>2, <3>1 DEF PhaseOf, LiveKeyStates, TypeOK
        <3>3. PhaseOf[k] = "live"
            BY <1>0, <2>2, PhaseIs DEF LiveKeyStates
        <3>4. worker.pub \in Configured(k)
            BY <1>5, <2>0 DEF CompleteProvision, At, PromiseInv, FinishesWorking, Configured
        <3>5. PeerOf[k] # None /\ PeerOf[k] = worker.pub
            BY <1>0, <3>4, PeerIs DEF PeerReads
        <3>6. Promise!Publish(k)
            BY <1>1, <1>2, <3>1, <3>2, <3>3, <3>5 DEF Promise!Publish, Promise!Alive
        <3> QED
            BY <3>6 DEF Promise!Next
    <2> QED
        BY <2>1, <2>2
<1>6. CASE CompleteRevoke
    <2>0. PICK k \in Keys : k = worker.key
        BY <1>0, <1>6 DEF CompleteRevoke, At, TypeInv, WorkerHasJob
    <2>1. /\ state' = [state EXCEPT ![k] = IF RowExists(k) THEN "revoked" ELSE @]
          /\ UNCHANGED pubKey
        BY <1>6, <2>0 DEF CompleteRevoke, CompleteLifecycle, RestOf
    <2>2. CASE state[k] \notin LiveKeyStates
        <3>1. state' = state
            BY <1>0, <2>1, <2>2 DEF RowExists, KeyStates, TypeOK
        <3> QED
            BY <1>3, <2>1, <3>1
    <2>3. CASE state[k] \in LiveKeyStates
        <3>1. state' = [state EXCEPT ![k] = "revoked"]
            BY <2>1, <2>3 DEF RowExists, KeyStates
        <3>2. PhaseOf' = [PhaseOf EXCEPT ![k] = "gone"]
            BY <1>0, <3>1 DEF PhaseOf, LiveKeyStates, TypeOK
        <3>3. PhaseOf[k] = "live"
            BY <1>0, <2>3, PhaseIs
        <3>4. asked[k]
            BY <1>6, <2>0 DEF CompleteRevoke, At, PromiseInv, StepOfType, RevokesAsked
        <3>5. PeerOf[k] = None
            <4>1. Configured(k) = {}
                BY <1>6, <2>0 DEF CompleteRevoke, At, PromiseInv, PeerInv, DropsEveryPeer
            <4> QED
                BY <1>0, <4>1, PeerIs DEF PeerReads
        <3>6. Promise!End(k)
            BY <1>1, <1>2, <2>1, <3>2, <3>3, <3>4, <3>5 DEF Promise!End, Promise!Alive
        <3> QED
            BY <3>6 DEF Promise!Next
    <2> QED
        BY <2>2, <2>3
<1>7. CASE CompleteToggle
    <2>0. PICK k \in Keys : k = worker.key
        BY <1>0, <1>7 DEF CompleteToggle, At, TypeInv, WorkerHasJob
    <2> DEFINE to == IF worker.type = "enable" THEN "active" ELSE "disabled"
    <2>1. /\ state' = [state EXCEPT ![k] = IF RowExists(k) THEN to ELSE @]
          /\ UNCHANGED pubKey /\ to \in LiveKeyStates
        BY <1>7, <2>0 DEF CompleteToggle, CompleteLifecycle, RestOf, LiveKeyStates
    <2> HIDE DEF to
    <2>2. CASE ~RowExists(k)
        <3>1. state' = state
            BY <1>0, <2>1, <2>2 DEF TypeOK
        <3> QED
            BY <1>3, <2>1, <3>1
    <2>3. CASE state[k] \in LiveKeyStates
        <3>1. state' = [state EXCEPT ![k] = to]
            BY <2>1, <2>3 DEF RowExists, KeyStates
        <3>2. UNCHANGED PhaseOf
            BY <1>0, <2>1, <2>3, <3>1 DEF PhaseOf, LiveKeyStates, TypeOK
        <3> QED
            BY <1>1, <1>2, <2>1, <3>2 DEF Promise!vars
    <2>4. CASE state[k] = "revoked"
        <3>1. state' = [state EXCEPT ![k] = to]
            BY <2>1, <2>4 DEF RowExists, KeyStates
        <3>2. PhaseOf' = [PhaseOf EXCEPT ![k] = "live"]
            BY <1>0, <2>1, <3>1 DEF PhaseOf, LiveKeyStates, TypeOK
        <3>3. PhaseOf[k] = "gone"
            BY <1>0, <2>4, PhaseIs
        <3>4. AgentDies
            BY <1>7, <2>0, <2>4 DEF CompleteToggle, At, PromiseInv, DeleteInv, SettlesLiveRow
        <3>5. Promise!Revive(k)
            BY <1>1, <1>2, <2>1, <3>2, <3>3, <3>4 DEF Promise!Revive
        <3> QED
            BY <3>5 DEF Promise!Next
    <2> QED
        BY <2>2, <2>3, <2>4 DEF RowExists, KeyStates
<1> QED
    BY <1>4, <1>5, <1>6, <1>7

LEMMA StepImplements ==
    ASSUME PromiseInv, PromiseInv', [Next]_vars
    PROVE  [Promise!Next]_(Promise!vars)
<1>1. ASSUME UNCHANGED <<state, pubKey, account, purge, asked, peers>>
      PROVE  UNCHANGED Promise!vars
    <2>1. UNCHANGED PeerOf /\ UNCHANGED PhaseOf
        BY <1>1, PeerStays DEF PhaseOf
    <2> QED
        BY <1>1, <2>1 DEF Promise!vars
<1>2. CASE \/ UNCHANGED vars \/ RearmFind \/ Rearm \/ Timer \/ Crash \/ NodeFlips \/ Claim \/ RetryJob
    BY <1>1, <1>2 DEF vars, panel, node, RearmFind, Rearm, Timer, BackoffElapses, LeaseExpires, Crash,
       NodeFlips, Claim, RetryJob
<1>3. CASE LoadKey \/ FindPeer \/ ListForRevoke
    BY <1>1, <1>3 DEF LoadKey, FindPeer, ListForRevoke, RestOf, node
<1>4. ~LateLands
    BY DEF LateLands, PromiseInv, PeerInv
<1> QED
    BY <1>2, <1>3, <1>4, CallImplements, KeyRequestImplements, AccountRequestImplements,
       EndOfJobImplements
    DEF Next, WorkerStep

LEMMA PromiseInit ==
    ASSUME Init
    PROVE  PromiseInv /\ Promise!Init
<1>1. IdleWorker.pc = "idle"
    BY DEF IdleWorker
<1>2. PeerInv /\ DeleteInv
    BY PeerInit, DeleteInit
<1>3. OnePeer
    BY DEF Init, OnePeer, Configured
<1>4. PromiseInv
    BY <1>1, <1>2, <1>3 DEF Init, PromiseInv, StepOfType, RevokesAsked, FinishesWorking
<1>5. PhaseOf = [k \in Keys |-> "absent"]
    BY DEF Init, PhaseOf, LiveKeyStates
<1>6. PeerOf = [k \in Keys |-> None]
    BY DEF Init, PeerOf, Configured
<1> QED
    BY <1>4, <1>5, <1>6 DEF Init, Promise!Init

\* The panel, its worker and the node keep the promise of KeyPromise, whatever
\* dies, retries and interleaves, as long as no call lingers.
THEOREM PromiseKept ==
    ASSUME ~CallsLinger
    PROVE  Spec => ImplementsKeyPromise
<1>1. Init => PromiseInv /\ Promise!Init
    BY PromiseInit
<1>2. PromiseInv /\ [Next]_vars => PromiseInv' /\ [Promise!Next]_(Promise!vars)
    BY PromiseInvStep, StepImplements
<1> QED
    BY <1>1, <1>2, PTL DEF Spec, ImplementsKeyPromise, Promise!Spec

-----------------------------------------------------------------------------
(* What the promise is worth, whoever keeps it *)

\* A key ends only after it was asked to go.
PromiseWorth ==
    /\ PhaseOf \in [Keys -> {"absent", "live", "gone", "purged"}]
    /\ PeerOf \in [Keys -> PeerIds \cup {None}]
    /\ asked \in [Keys -> BOOLEAN]
    /\ purge \in [Keys -> {"none", "read", "overrun"}]
    /\ account \in [Users -> {"active", "disabled", "deleted"}]
    /\ \A k \in Keys : PhaseOf[k] = "gone" => asked[k]
    /\ Promise!NothingLeft

LEMMA PromiseWorthStep ==
    ASSUME PromiseWorth, [Promise!Next]_(Promise!vars)
    PROVE  PromiseWorth'
<1> USE OwnerAssumption DEF PromiseWorth, Promise!NothingLeft, Promise!Alive
<1>1. ASSUME NEW k \in Keys, Promise!Create(k)
      PROVE  PromiseWorth'
    BY <1>1 DEF Promise!Create
<1>2. ASSUME NEW k \in Keys, Promise!Delete(k)
      PROVE  PromiseWorth'
    BY <1>2 DEF Promise!Delete
<1>3. ASSUME NEW k \in Keys, Promise!Purge(k)
      PROVE  PromiseWorth'
    <2>1. purge'[k] = "overrun" \/ ~Promise!Alive(k)
        BY <1>3 DEF Promise!Purge
    <2>2. \A i \in Keys \ {k} : purge'[i] = purge[i]
        BY <1>3 DEF Promise!Purge
    <2>3. purge' \in [Keys -> {"none", "read", "overrun"}]
        BY <1>3 DEF Promise!Purge
    <2> QED
        BY <1>3, <2>1, <2>2, <2>3 DEF Promise!Purge, Promise!Forget
<1>4. ASSUME NEW k \in Keys, Promise!Disconnect(k)
      PROVE  PromiseWorth'
    BY <1>4 DEF Promise!Disconnect
<1>5. ASSUME NEW k \in Keys, Promise!Publish(k)
      PROVE  PromiseWorth'
    BY <1>5 DEF Promise!Publish
<1>6. ASSUME NEW k \in Keys, Promise!End(k)
      PROVE  PromiseWorth'
    BY <1>6 DEF Promise!End
<1>7. ASSUME NEW k \in Keys, Promise!Revive(k)
      PROVE  PromiseWorth'
    BY <1>7 DEF Promise!Revive
<1>8. ASSUME NEW k \in Keys, NEW p \in PeerIds, Promise!Connect(k, p)
      PROVE  PromiseWorth'
    BY <1>8 DEF Promise!Connect
<1>9. ASSUME NEW u \in Users, Promise!Disable(u)
      PROVE  PromiseWorth'
    BY <1>9 DEF Promise!Disable
<1>10. ASSUME NEW u \in Users, Promise!Reinstate(u)
       PROVE  PromiseWorth'
    BY <1>10 DEF Promise!Reinstate
<1>11. ASSUME NEW u \in Users, Promise!Erase(u)
       PROVE  PromiseWorth'
    BY <1>11 DEF Promise!Erase, Promise!KeysOf, Promise!Forget
<1>12. CASE UNCHANGED Promise!vars
    BY <1>12 DEF Promise!vars
<1>13. ASSUME NEW k \in Keys, Promise!LookAt(k)
       PROVE  PromiseWorth'
    <2>1. purge[k] = "none" /\ purge' = [purge EXCEPT ![k] = "read"]
        BY <1>13 DEF Promise!LookAt
    <2> QED
        BY <1>13, <2>1 DEF Promise!LookAt
<1> QED
    BY <1>1, <1>2, <1>3, <1>4, <1>5, <1>6, <1>7, <1>8, <1>9, <1>10, <1>11, <1>12, <1>13
    DEF Promise!Next

\* With no call lingering: what the node carries belongs to a key that lives, the
\* keys of an account that is not in force were all asked to go, and an erased
\* account has neither rows nor peers.
THEOREM NothingIsLeft ==
    ASSUME ~CallsLinger
    PROVE  Spec => []Promise!NothingLeft
<1>1. Promise!Init => PromiseWorth
    BY OwnerAssumption DEF Promise!Init, PromiseWorth, Promise!NothingLeft, Promise!Alive
<1>2. PromiseWorth /\ [Promise!Next]_(Promise!vars) => PromiseWorth'
    BY PromiseWorthStep
<1>3. PromiseWorth => Promise!NothingLeft
    BY DEF PromiseWorth
<1>4. Spec => Promise!Spec
    BY PromiseKept DEF ImplementsKeyPromise
<1> QED
    BY <1>1, <1>2, <1>3, <1>4, PTL DEF Promise!Spec
=============================================================================
