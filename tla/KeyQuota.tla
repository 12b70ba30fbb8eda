------------------------------ MODULE KeyQuota -------------------------------
(***************************************************************************)
(* How many keys an account may hold and a node may serve.  Creations run   *)
(* at SERIALIZABLE: they read the snapshot of their first statement, lock   *)
(* the account's row and the nodes' rows, and start again when a row they   *)
(* lock was written since, or when they and another creation each counted   *)
(* without the other's key.  Everything else runs at READ COMMITTED.        *)
(***************************************************************************)
EXTENDS Integers, FiniteSets

CONSTANTS
    Users, Nodes,
    Keys,           \* rows there is room for
    Sessions,       \* requests the API serves at a time
    None,           \* null: no row, no limit or mode of one's own, any server
    Limits,         \* the numbers limits and capacities are set to
    Asked,          \* bound: the limits set-limit is called with
    Initial,        \* bound: the policies the panel starts with
    MaxAttempts,    \* attempts of a creation; 10 in the code
    MaxChanges      \* bound: what administrators, owners and the worker do

Modes == {"per_node", "global"}
Row == [state : {"counted", "failed", "uncounted"}, owner : Users, node : Nodes, number : Nat]
Quota == [flat : Limits \cup {None}, perNode : [Nodes -> Limits \cup {None}], mode : Modes \cup {None}]
Policy == [default : Limits, mode : Modes]
Node == [enabled : BOOLEAN, maxPeers : Limits]

ASSUME LimitsAssumption == Limits \subseteq Nat /\ Asked \subseteq Quota /\ Initial \subseteq Policy
ASSUME NoneAssumption ==
    /\ None \notin Limits /\ None \notin Nodes /\ None \notin Users /\ None \notin Modes
    /\ None \notin Sessions /\ None \notin Row
ASSUME BoundsAssumption == MaxAttempts \in Nat \ {0} /\ MaxChanges \in Nat /\ IsFiniteSet(Keys)

VARIABLES
    key,        \* the rows of vpn_keys
    quota,      \* the limits on each account's row, and the mode of its override
    policy,     \* portal_policy: the default limit and the mode
    node,       \* the rows of nodes
    tx,         \* the transaction each session has open
    changes     \* bound

vars == <<key, quota, policy, node, tx, changes>>

\* A creation that committed, as another one missed it: whose key, where, and
\* the nodes whose keys it had counted.
Creation == [user : Users, node : Nodes, counted : SUBSET Nodes]

\* A creation keeps what its snapshot said, what was committed since, and
\* (overtaken, history) whether that was a policy or a key that came to
\* count again without being counted.  An approval keeps the request's number and server, and the mode it
\* read.
Tx == [step : {"idle", "snapshot", "user", "chosen", "approve"}, attempt : 0 .. MaxAttempts,
       user : Users \cup {None}, node : Nodes \cup {None}, keys : [Keys -> Row \cup {None}],
       policy : Policy \cup {None}, nodes : [Nodes -> Node \cup {None}],
       touched : SUBSET (Users \cup Nodes), missed : SUBSET Creation, counted : SUBSET Nodes,
       target : Nodes \cup {None}, limit : Limits \cup {None}, overtaken : BOOLEAN]

NoTx == [step |-> "idle", attempt |-> 0, user |-> None, node |-> None, keys |-> [k \in Keys |-> None],
         policy |-> None, nodes |-> [n \in Nodes |-> None], touched |-> {}, missed |-> {},
         counted |-> {}, target |-> None, limit |-> None, overtaken |-> FALSE]

Rows(keys) == {k \in Keys : keys[k] # None}
OfUser(keys, u) == {k \in Rows(keys) : keys[k].state = "counted" /\ keys[k].owner = u}
OnNode(keys, n) == {k \in Rows(keys) : keys[k].state = "counted" /\ keys[k].node = n}

\* An override's mode before the policy's, a node's limit before the flat one,
\* that before the default; a shared pool has no limits per node.
Mode(q, p) == IF q.mode # None THEN q.mode ELSE p.mode
Pool(q, p) == IF q.flat # None THEN q.flat ELSE p.default
Limit(q, p, n) == IF Mode(q, p) = "global" \/ q.perNode[n] = None THEN Pool(q, p) ELSE q.perNode[n]

\* The keys that count against the limit for a node.
Used(q, p, n, keys, u) ==
    IF Mode(q, p) = "global" THEN OfUser(keys, u) ELSE OfUser(keys, u) \cap OnNode(keys, n)

Creating == {s \in Sessions : tx[s].step \in {"snapshot", "user", "chosen"}}

Candidates(t) == {n \in Nodes : tx[t].nodes[n].enabled /\ tx[t].node \in {n, None}}

\* No other transaction holds the row's lock; s is None for a statement of its own.
UserFree(u, s) ==
    \A t \in Sessions \ {s} : tx[t].step \in {"user", "chosen", "approve"} => tx[t].user # u
NodeFree(n, s) == \A t \in Sessions \ {s} : tx[t].step = "chosen" => n \notin Candidates(t)

Touch(rows, transactions) ==
    [s \in Sessions |-> IF s \in Creating THEN [transactions[s] EXCEPT !.touched = @ \cup rows]
                        ELSE transactions[s]]
Overtake(rows) ==
    [s \in Sessions |-> IF tx[s] = NoTx THEN NoTx
                        ELSE [tx[s] EXCEPT !.touched = @ \cup rows, !.overtaken = TRUE]]

Change == changes < MaxChanges /\ changes' = changes + 1

-----------------------------------------------------------------------------
(* Creation of a key *)

Snapshot(u, n, attempt) ==
    [NoTx EXCEPT !.step = "snapshot", !.attempt = attempt, !.user = u, !.node = n,
                 !.keys = key, !.policy = policy, !.nodes = node]

\* n is None where the policy lets the panel pick the server.
BeginCreate(s, u, n) ==
    /\ tx[s] = NoTx
    /\ Rows(key) # Keys
    /\ tx' = [tx EXCEPT ![s] = Snapshot(u, n, 1)]
    /\ UNCHANGED <<key, quota, policy, node, changes>>

\* The database may find a transaction in conflict at any time.
Retry(s) ==
    /\ s \in Creating
    /\ tx' = [tx EXCEPT ![s] = IF @.attempt = MaxAttempts THEN NoTx
                               ELSE Snapshot(@.user, @.node, @.attempt + 1)]
    /\ UNCHANGED <<key, quota, policy, node, changes>>

\* Mutant: the account is read, not locked.
ReadUser(s) ==
    /\ tx[s].step = "snapshot"
    /\ tx' = [tx EXCEPT ![s].step = "user"]
    /\ UNCHANGED <<key, quota, policy, node, changes>>

LockUser(s) ==
    /\ tx[s].step = "snapshot"
    /\ UserFree(tx[s].user, s) /\ tx[s].user \notin tx[s].touched
    /\ tx' = [tx EXCEPT ![s].step = "user"]
    /\ UNCHANGED <<key, quota, policy, node, changes>>

NodesLockable(s) == \A n \in Candidates(s) : NodeFree(n, s) /\ n \notin tx[s].touched

\* Mutant: a shared pool is counted on one node.
HasRoomThere(s, n) ==
    LET q == quota[tx[s].user]
    IN  /\ Cardinality(OfUser(tx[s].keys, tx[s].user) \cap OnNode(tx[s].keys, n)) < Limit(q, tx[s].policy, n)
        /\ Cardinality(OnNode(tx[s].keys, n)) < tx[s].nodes[n].maxPeers

HasRoom(s, n) ==
    LET q == quota[tx[s].user]
    IN  /\ Cardinality(Used(q, tx[s].policy, n, tx[s].keys, tx[s].user)) < Limit(q, tx[s].policy, n)
        /\ Cardinality(OnNode(tx[s].keys, n)) < tx[s].nodes[n].maxPeers

\* The nodes that may serve are locked, then tried in the administrator's
\* order until one has room.
ChooseNode(s, n, full) ==
    /\ tx[s].step = "user"
    /\ NodesLockable(s)
    /\ n \in Candidates(s) /\ HasRoom(s, n)
    /\ \A m \in full : m \in Candidates(s) /\ ~HasRoom(s, m)
    /\ tx' = [tx EXCEPT ![s].step = "chosen", ![s].target = n, ![s].counted = full \cup {n}]
    /\ UNCHANGED <<key, quota, policy, node, changes>>

NoRoom(s) ==
    /\ tx[s].step = "user"
    /\ NodesLockable(s)
    /\ \A n \in Candidates(s) : ~HasRoom(s, n)
    /\ tx' = [tx EXCEPT ![s] = NoTx]
    /\ UNCHANGED <<key, quota, policy, node, changes>>

Made(s) == [user |-> tx[s].user, node |-> tx[s].target, counted |-> tx[s].counted]

\* One creation read what the other has written: the account's keys, which
\* are always read for the number of the next one, or a node's.
Read(one, other) == one.user = other.user \/ other.node \in one.counted

\* Mutant: the isolation level is REPEATABLE READ.
NoConflict(s) == TRUE

\* No creation that committed since the snapshot read around this one, too.
Serializable(s) == \A other \in tx[s].missed : ~(Read(Made(s), other) /\ Read(other, Made(s)))

Numbers(keys, u) == {0} \cup {keys[k].number : k \in {j \in Rows(keys) : keys[j].owner = u}}
NextNumber(keys, u) == 1 + CHOOSE i \in Numbers(keys, u) : \A j \in Numbers(keys, u) : j <= i

CommitCreate(s, k) ==
    /\ tx[s].step = "chosen"
    /\ key[k] = None
    /\ Serializable(s)
    /\ key' = [key EXCEPT ![k] = [state |-> "counted", owner |-> tx[s].user, node |-> tx[s].target,
                                  number |-> NextNumber(tx[s].keys, tx[s].user)]]
    /\ tx' = [t \in Sessions |->
                 IF t = s THEN NoTx
                 ELSE IF t \in Creating THEN [tx[t] EXCEPT !.missed = @ \cup {Made(s)}]
                 ELSE tx[t]]
    /\ UNCHANGED <<quota, policy, node, changes>>

-----------------------------------------------------------------------------
(* Approval of a request, and what else changes limits and counts *)

\* The account's row is locked, then the policy is read.
BeginApprove(s, u, number, n) ==
    /\ tx[s] = NoTx
    /\ UserFree(u, s)
    /\ tx' = [tx EXCEPT ![s] = [NoTx EXCEPT !.step = "approve", !.user = u, !.limit = number,
                                            !.target = n, !.policy = policy]]
    /\ Change
    /\ UNCHANGED <<key, quota, policy, node>>

ResolveQuotaApproval(q, mode, number, n) ==
    IF mode = "global" THEN [q EXCEPT !.flat = number]
    ELSE IF n = None THEN [q EXCEPT !.flat = number, !.perNode = [m \in Nodes |-> None]]
    ELSE [q EXCEPT !.perNode[n] = number]

CommitApprove(s) ==
    /\ tx[s].step = "approve"
    /\ LET u == tx[s].user
       IN  /\ quota' = [quota EXCEPT ![u] =
                  ResolveQuotaApproval(@, Mode(@, tx[s].policy), tx[s].limit, tx[s].target)]
           /\ tx' = Touch({u}, [tx EXCEPT ![s] = NoTx])
    /\ UNCHANGED <<key, policy, node, changes>>

SetLimit(u, q) ==
    /\ Change
    /\ UserFree(u, None)
    /\ quota' = [quota EXCEPT ![u] = q]
    /\ tx' = Touch({u}, tx)
    /\ UNCHANGED <<key, policy, node>>

UpdatePolicy(p) ==
    /\ Change
    /\ policy' = p
    /\ tx' = Overtake({})
    /\ UNCHANGED <<key, quota, node>>

\* Also set-capacity, as far as the panel's own row goes.
UpdateNode(n, row) ==
    /\ Change
    /\ NodeFree(n, None)
    /\ node' = [node EXCEPT ![n] = row]
    /\ tx' = Touch({n}, tx)
    /\ UNCHANGED <<key, quota, policy>>

Move(k, from, to) ==
    /\ Change
    /\ key[k] # None /\ key[k].state \in from
    /\ key' = [key EXCEPT ![k].state = to]
    /\ UNCHANGED <<quota, policy, node>>

FailJob(k) == Move(k, {"counted"}, "failed") /\ UNCHANGED tx
RevokeKey(k) == Move(k, {"counted", "failed"}, "uncounted") /\ UNCHANGED tx

\* Nothing is counted when a failed key is issued again.
RotateFailed(k) == Move(k, {"failed"}, "counted") /\ tx' = Overtake({})

\* A disable or enable that was in backoff completes: it writes its state over
\* whatever the row has become since, "revoking" and "revoked" included.
CompleteToggle(k) == Move(k, {"failed", "uncounted"}, "counted") /\ tx' = Overtake({})

EraseKey(k) ==
    /\ Change
    /\ key[k] # None /\ key[k].state = "uncounted"
    /\ key' = [key EXCEPT ![k] = None]
    /\ UNCHANGED <<quota, policy, node, tx>>

-----------------------------------------------------------------------------
Steps(s) ==
    \/ Retry(s) \/ LockUser(s) \/ NoRoom(s) \/ CommitApprove(s)
    \/ \E n \in Nodes, full \in SUBSET Nodes : ChooseNode(s, n, full)
    \/ \E k \in Keys : CommitCreate(s, k)

Begins(s) == \E u \in Users, n \in Nodes \cup {None} :
    BeginCreate(s, u, n) \/ \E number \in Limits : BeginApprove(s, u, number, n)

Changes ==
    \/ \E k \in Keys : FailJob(k) \/ RevokeKey(k) \/ RotateFailed(k) \/ CompleteToggle(k) \/ EraseKey(k)
    \/ \E u \in Users, q \in Asked : SetLimit(u, q)
    \/ \E p \in Policy : UpdatePolicy(p)
    \/ \E n \in Nodes, row \in Node : UpdateNode(n, row)

Next == Changes \/ \E s \in Sessions : Begins(s) \/ Steps(s)

\* Accounts as they are created or set since, one of them with a key perhaps,
\* and nodes that serve.
NoLimits == [flat |-> None, perNode |-> [n \in Nodes |-> None], mode |-> None]

Init ==
    /\ key \in [Keys -> [state : {"counted", "failed", "uncounted"}, owner : Users, node : Nodes, number : {1}] \cup {None}]
    /\ Cardinality(Rows(key)) <= 1
    /\ \E q \in {NoLimits} \cup Asked : quota = [u \in Users |-> q]
    /\ policy \in Initial
    /\ node \in [Nodes -> {row \in Node : row.enabled}]
    /\ tx = [s \in Sessions |-> NoTx]
    /\ changes = 0

Spec == Init /\ [][Next]_vars

-----------------------------------------------------------------------------
(* Properties *)

TypeOK ==
    /\ key \in [Keys -> Row \cup {None}]
    /\ quota \in [Users -> Quota] /\ policy \in Policy /\ node \in [Nodes -> Node]
    /\ tx \in [Sessions -> Tx] /\ changes \in 0 .. MaxChanges
    /\ \A s \in Sessions : tx[s].step \in {"user", "chosen"} => UserFree(tx[s].user, s)

\* Two keys of an account never have the same number, although each creation
\* takes one more than its snapshot knows of.
NumbersDiffer ==
    \A k, j \in Rows(key) : k # j /\ key[k].owner = key[j].owner => key[k].number # key[j].number

Creates(s) == tx[s].step = "chosen" /\ key' # key /\ tx'[s].step = "idle"

\* A new key leaves its account within its limit for the node, or for all of
\* them, and the node within its capacity, beside other creations, approvals,
\* limits and capacities, unless since the creation's snapshot the policy changed
\* or a key that did not count came to: a failed one issued again, or one a late
\* disable or enable took out of "failed", "revoking" or "revoked".
RoomHolds ==
    [][\A s \in Sessions : Creates(s) /\ ~tx[s].overtaken =>
          LET u == tx[s].user  q == quota[u]  n == tx[s].target
          IN  /\ Cardinality(Used(q, policy, n, key', u)) <= Limit(q, policy, n)
              /\ Cardinality(OnNode(key', n)) <= node[n].maxPeers]_vars
=============================================================================
