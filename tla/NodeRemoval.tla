----------------------------- MODULE NodeRemoval -----------------------------
(***************************************************************************)
(* What refers to a node when it is removed: keys and their jobs, requests  *)
(* for a higher limit on it, and the policy's lists.  Requests of the API   *)
(* are transactions at READ COMMITTED whose statements interleave; what a   *)
(* transaction has done is seen by others when it commits, and the rows it  *)
(* has written or locked are its own until then.                            *)
(***************************************************************************)
EXTENDS Naturals, FiniteSets, Sequences

CONSTANTS
    Nodes, Users,
    Keys,           \* ids of keys, one per creation
    Asks,           \* ids of quota requests, one per creation
    Sessions,       \* transactions at a time: the API's requests, the worker's sweep
    Null,           \* no node: every server
    Initial,        \* bound: the policy's lists at first
    MaxTxs          \* bound: transactions

ASSUME NullAssumption == Null \notin Nodes /\ Null \notin Users
ASSUME FiniteAssumption ==
    IsFiniteSet(Nodes) /\ IsFiniteSet(Keys) /\ IsFiniteSet(Asks) /\ IsFiniteSet(Sessions)
ASSUME BoundAssumption == MaxTxs \in Nat

VARIABLES
    node,       \* the rows of nodes
    key,        \* the rows of vpn_keys: the node of each, Null before it is made
    erased,     \* keys whose rows are gone
    jobs,       \* keys with a job in job_outbox
    ask,        \* the rows of quota_requests
    lists,      \* the policy's recommended nodes, and its order of nodes
    tx,         \* the transaction each session has open
    txs,        \* bound
    slipped,    \* history: requests committed after a removal cancelled the others
    unseen,     \* history: keys with a job committed after a removal dropped the others
    crossed     \* history: lists were written that changed since they were read

removalVars == <<node, key, erased, jobs, ask, lists, tx, txs, slipped, unseen, crossed>>
history == <<slipped, unseen, crossed>>

\* asked (history) is the node the request was made for.
Ask == [user : Users, node : Nodes \cup {Null}, asked : Nodes \cup {Null},
        status : {"pending", "approved", "rejected", "cancelled"}]
Unasked == [user |-> Null]

\* Without duplicates, the form in which lists are stored.
NodeLists == UNION {{l \in [1 .. i -> Nodes] : \A j, k \in 1 .. i : l[j] = l[k] => j = k} :
                        i \in 0 .. Cardinality(Nodes)}
Lists == [recommended : NodeLists, order : NodeLists]

\* The first nodes of an order, as many as are recommended, are those that are
\* recommended.
Top(l, i) == SubSeq(l, 1, i)
IsTop(recommended, order) ==
    LET wanted == {recommended[i] : i \in DOMAIN recommended}
        k == Cardinality(wanted)
    IN  k <= Len(order) /\ {order[i] : i \in 1 .. k} = wanted

\* A policy whose lists fit, as every write of them leaves it.
ASSUME InitialAssumption == \A l \in Initial :
    /\ l \in Lists
    /\ Len(l.recommended) <= Len(l.order) /\ l.recommended = Top(l.order, Len(l.recommended))

\* What a transaction has read (rows, seen), locked and done.  Removals go
\* through jobs, keys, asks, read, lists, erase and null; requests through supersede
\* and insert; the others through commit.  late: keys of the node whose jobs a
\* removal has not dropped, as they were queued after it looked.
Tx == [op : {"none", "remove", "request", "review", "create", "change", "rearm", "edit"},
       step : {"none", "jobs", "keys", "asks", "read", "lists", "erase", "null", "supersede", "insert",
               "commit"},
       node : Nodes \cup {Null}, user : Users \cup {Null}, deleteKeys : BOOLEAN,
       rows : SUBSET Keys, gone : SUBSET Keys, late : SUBSET Keys, locked : SUBSET Asks,
       seen : Lists, write : Lists, names : SUBSET {"recommended", "order"}, locksLists : BOOLEAN]
NoLists == [recommended |-> <<>>, order |-> <<>>]
NoTx == [op |-> "none", step |-> "none", node |-> Null, user |-> Null, deleteKeys |-> FALSE,
         rows |-> {}, gone |-> {}, late |-> {}, locked |-> {}, seen |-> NoLists, write |-> NoLists,
         names |-> {}, locksLists |-> FALSE]

Exists(n) == node[n] # "gone"
Alive(k) == key[k] # Null /\ k \notin erased
KeysOn(n) == {k \in Keys \ erased : key[k] = n}
Pending(r) == ask[r] # Unasked /\ ask[r].status = "pending"
PendingOf(u) == {r \in Asks : Pending(r) /\ ask[r].user = u}
PendingOn(n) == {r \in Asks : Pending(r) /\ ask[r].node = n}

At(s, op, step) == tx[s].op = op /\ tx[s].step = step

\* A creation and a removal have the row of their node; others have the rest.
HoldsNode(t, n) == tx[t].node = n /\ (tx[t].op = "create" \/ At(t, "remove", "null"))
Held(s) == UNION {tx[t].locked : t \in Sessions \ {s}}

\* A change of a key has its row, and a removal those it has deleted.
HoldsKey(t, k) == k \in tx[t].gone \/ (tx[t].op = "change" /\ k \in tx[t].rows)

\* What s does next needs a row that t has written or locked.
Waits(s, t) ==
    /\ s # t
    /\ \/ At(s, "remove", "jobs") /\ tx[t].op = "remove" /\ tx[t].step # "jobs"
              /\ tx[t].rows \cap tx[s].rows \cap jobs # {}
       \/ At(s, "remove", "keys") /\ \E k \in KeysOn(tx[s].node) : HoldsKey(t, k)
       \/ At(s, "remove", "asks") /\ PendingOn(tx[s].node) \cap tx[t].locked # {}
       \/ (At(s, "remove", "lists") \/ At(s, "edit", "commit")) /\ tx[t].locksLists
       \/ At(s, "remove", "erase") /\ HoldsNode(t, tx[s].node)
       \/ At(s, "remove", "null") /\ \E r \in tx[t].locked : ask[r].node = tx[s].node
       \/ At(s, "request", "supersede") /\ PendingOf(tx[s].user) \cap tx[t].locked # {}
       \/ At(s, "request", "insert") /\ At(t, "remove", "null") /\ tx[t].node = tx[s].node

Unblocked(s) == \A t \in Sessions : ~Waits(s, t)

\* op, with what it starts from; every transaction counts towards the bound.
Open(s, t) ==
    /\ tx[s] = NoTx
    /\ txs < MaxTxs /\ txs' = txs + 1
    /\ tx' = [tx EXCEPT ![s] = t]
    /\ UNCHANGED <<node, key, erased, jobs, ask, lists, history>>

\* A statement that changes nothing others see yet.
Step(s, t) ==
    /\ tx' = [tx EXCEPT ![s] = t]
    /\ UNCHANGED <<node, key, erased, jobs, ask, lists, txs, history>>

\* s commits with a job of k, a key of n: a removal of n has dropped the jobs of the
\* keys it listed, and this one is not among them.
Misses(t, k, n) == tx[t].op = "remove" /\ tx[t].node = n /\ ~(k \in tx[t].rows /\ tx[t].step = "jobs")
Queued(s, k, n) ==
    /\ jobs' = jobs \cup {k}
    /\ tx' = [t \in Sessions |-> IF t = s THEN NoTx
                                 ELSE IF Misses(t, k, n) THEN [tx[t] EXCEPT !.late = @ \cup {k}]
                                 ELSE tx[t]]

Opened(op) == Cardinality({s \in Sessions : tx[s].op = op})
FreshKeys == {k \in Keys : key[k] = Null}
FreshAsks == {r \in Asks : ask[r] = Unasked}

-----------------------------------------------------------------------------
(* Removal of a node *)

\* Without deleteKeys a node with keys is refused.
BeginRemove(s, n, deleteKeys) ==
    /\ Exists(n)
    /\ KeysOn(n) # {} => deleteKeys
    /\ Open(s, [NoTx EXCEPT !.op = "remove", !.node = n, !.deleteKeys = deleteKeys,
                            !.step = IF KeysOn(n) = {} THEN "asks" ELSE "jobs", !.rows = KeysOn(n)])

\* Two statements: the jobs of the keys that were read, and the keys that are there
\* by then.  What is queued in between stays.
RemoveJobs(s) ==
    /\ At(s, "remove", "jobs") /\ Unblocked(s)
    /\ Step(s, [tx[s] EXCEPT !.step = "keys"])

RemoveKeys(s) ==
    /\ At(s, "remove", "keys") /\ Unblocked(s)
    /\ Step(s, [tx[s] EXCEPT !.gone = KeysOn(tx[s].node), !.step = "asks"])

\* Mutants: requests are left to the foreign key, or cancelled whoever holds them.
LeaveAsks(s) ==
    /\ At(s, "remove", "asks")
    /\ Step(s, [tx[s] EXCEPT !.step = "read"])

CancelAsksAtOnce(s) ==
    /\ At(s, "remove", "asks")
    /\ Step(s, [tx[s] EXCEPT !.locked = PendingOn(tx[s].node), !.step = "read"])

CancelAsks(s) ==
    /\ At(s, "remove", "asks") /\ Unblocked(s)
    /\ Step(s, [tx[s] EXCEPT !.locked = PendingOn(tx[s].node), !.step = "read"])

Listed(n, l) == \E i \in DOMAIN l : l[i] = n

ReadLists(s) ==
    /\ At(s, "remove", "read")
    /\ Step(s, [tx[s] EXCEPT !.seen = lists,
                   !.step = IF Listed(tx[s].node, lists.recommended) \/ Listed(tx[s].node, lists.order)
                            THEN "lists" ELSE "erase"])

\* A list without n, which it has once or not at all.
Without(l, n) ==
    IF ~Listed(n, l) THEN l
    ELSE LET at == CHOOSE i \in DOMAIN l : l[i] = n
         IN  [i \in 1 .. Len(l) - 1 |-> IF i < at THEN l[i] ELSE l[i + 1]]

ScrubLists(s) ==
    /\ At(s, "remove", "lists") /\ Unblocked(s)
    /\ Step(s, [tx[s] EXCEPT !.write = [recommended |-> Without(tx[s].seen.recommended, tx[s].node),
                                        order |-> Without(tx[s].seen.order, tx[s].node)],
                             !.locksLists = TRUE, !.step = "erase"])

\* The row goes when nobody holds it; a key that is left, on RESTRICT, undoes
\* it all.
EraseNode(s) ==
    /\ At(s, "remove", "erase") /\ Unblocked(s)
    /\ Step(s, IF KeysOn(tx[s].node) \subseteq tx[s].gone
               THEN [tx[s] EXCEPT !.step = "null"] ELSE NoTx)

\* Mutant: jobs outlive their keys.
DroppedNever(s) == {}

Dropped(s) == tx[s].rows \ tx[s].late

\* Requests that still name the node name none, on SET NULL, and all is seen.
CommitRemove(s) ==
    LET n == tx[s].node
        naming == {r \in Asks : ask[r] # Unasked /\ ask[r].node = n}
    IN  /\ At(s, "remove", "null") /\ Unblocked(s)
        /\ node' = [node EXCEPT ![n] = "gone"]
        /\ erased' = erased \cup tx[s].gone
        /\ jobs' = jobs \ Dropped(s)
        /\ ask' = [r \in Asks |->
                      IF r \in tx[s].locked THEN [ask[r] EXCEPT !.status = "cancelled", !.node = Null]
                      ELSE IF r \in naming THEN [ask[r] EXCEPT !.node = Null]
                      ELSE ask[r]]
        /\ lists' = IF tx[s].locksLists THEN tx[s].write ELSE lists
        /\ crossed' = (crossed \/ lists # tx[s].seen)
        /\ unseen' = unseen \cup (tx[s].late \cap tx[s].gone)
        /\ tx' = [tx EXCEPT ![s] = NoTx]
        /\ UNCHANGED <<key, txs, slipped>>

-----------------------------------------------------------------------------
(* Quota requests *)

\* The node is looked at, not locked.
BeginAsk(s, u, n) ==
    /\ n # Null => node[n] = "enabled"
    /\ Cardinality(FreshAsks) > Opened("request")
    /\ Open(s, [NoTx EXCEPT !.op = "request", !.step = "supersede", !.user = u, !.node = n])

Supersede(s) ==
    /\ At(s, "request", "supersede") /\ Unblocked(s)
    /\ Step(s, [tx[s] EXCEPT !.locked = PendingOf(tx[s].user), !.step = "insert"])

\* The index lets one row of the account be pending.
OnlyPending(s) == PendingOf(tx[s].user) \subseteq tx[s].locked

\* The insert waits for whoever erases the node.
InsertAsk(s, r) ==
    /\ At(s, "request", "insert") /\ Unblocked(s)
    /\ r \in FreshAsks
    /\ OnlyPending(s)
    /\ tx[s].node # Null => Exists(tx[s].node)
    /\ ask' = [q \in Asks |->
                  IF q = r THEN [user |-> tx[s].user, node |-> tx[s].node, asked |-> tx[s].node,
                                 status |-> "pending"]
                  ELSE IF q \in tx[s].locked THEN [ask[q] EXCEPT !.status = "cancelled"]
                  ELSE ask[q]]
    /\ slipped' = IF \E t \in Sessions : tx[t].op = "remove" /\ tx[t].node = tx[s].node
                                         /\ tx[t].step \in {"read", "lists", "erase"}
                  THEN slipped \cup {r} ELSE slipped
    /\ tx' = [tx EXCEPT ![s] = NoTx]
    /\ UNCHANGED <<node, key, erased, jobs, lists, txs, unseen, crossed>>

\* Another row is pending, or the node is gone.
RefuseAsk(s) ==
    /\ At(s, "request", "insert") /\ Unblocked(s)
    /\ ~OnlyPending(s) \/ (tx[s].node # Null /\ ~Exists(tx[s].node))
    /\ Step(s, NoTx)

BeginReview(s, r) ==
    /\ Pending(r) /\ r \notin Held(s)
    /\ Open(s, [NoTx EXCEPT !.op = "review", !.step = "commit", !.locked = {r}])

CommitReview(s, status) ==
    /\ At(s, "review", "commit")
    /\ ask' = [r \in Asks |-> IF r \in tx[s].locked THEN [ask[r] EXCEPT !.status = status] ELSE ask[r]]
    /\ tx' = [tx EXCEPT ![s] = NoTx]
    /\ UNCHANGED <<node, key, erased, jobs, lists, txs, history>>

-----------------------------------------------------------------------------
(* Keys, the policy's lists, and nodes that are switched off *)

\* The node's row is locked; a creation that fails to is KeyQuota's.
BeginCreate(s, n) ==
    /\ node[n] = "enabled" /\ ~\E t \in Sessions : HoldsNode(t, n)
    /\ Cardinality(FreshKeys) > Opened("create")
    /\ Open(s, [NoTx EXCEPT !.op = "create", !.step = "commit", !.node = n])

CommitCreate(s, k) ==
    /\ At(s, "create", "commit")
    /\ k \in FreshKeys
    /\ key' = [key EXCEPT ![k] = tx[s].node]
    /\ Queued(s, k, tx[s].node)
    /\ UNCHANGED <<node, erased, ask, lists, txs, history>>

\* A deletion, a rotation or a toggle locks the key's row, then queues its job.
BeginChange(s, k) ==
    /\ Alive(k) /\ ~\E t \in Sessions : HoldsKey(t, k)
    /\ Open(s, [NoTx EXCEPT !.op = "change", !.step = "commit", !.rows = {k}])

\* The worker's sweep finds a key whose deletion is stuck, and locks nothing.
BeginRearm(s, k) ==
    /\ Alive(k)
    /\ Open(s, [NoTx EXCEPT !.op = "rearm", !.step = "commit", !.rows = {k}])

CommitQueue(s) ==
    /\ At(s, "change", "commit") \/ At(s, "rearm", "commit")
    /\ \E k \in tx[s].rows :
          /\ Queued(s, k, key[k])
          /\ unseen' = unseen \cup ({k} \cap erased)
    /\ UNCHANGED <<node, key, erased, ask, lists, txs, slipped, crossed>>

CheckRecommendedPrefix(recommended, order) == IsTop(recommended, order)

\* names: the columns the administrator sent; the other one is read, and what
\* is recommended is written in the order's sequence.
BeginEdit(s, l, names) ==
    LET order == IF "order" \in names THEN l.order ELSE lists.order
        recommended == IF "recommended" \in names THEN l.recommended ELSE lists.recommended
    IN  /\ names # {} /\ \A f \in {"recommended", "order"} \ names : l[f] = <<>>
        /\ \A n \in Nodes : (\E f \in names : Listed(n, l[f])) => Exists(n)
        /\ CheckRecommendedPrefix(recommended, order)
        /\ Open(s, [NoTx EXCEPT !.op = "edit", !.step = "commit", !.names = names, !.seen = lists,
               !.write = [recommended |-> Top(order, Len(recommended)), order |-> order]])

\* Mutant: a new order leaves what is recommended as it was.
CommitNamed(s) ==
    LET t == tx[s]
    IN  /\ At(s, "edit", "commit") /\ Unblocked(s)
        /\ lists' = [f \in {"recommended", "order"} |-> IF f \in t.names THEN t.write[f] ELSE lists[f]]
        /\ crossed' = (crossed \/ lists # t.seen)
        /\ tx' = [tx EXCEPT ![s] = NoTx]
        /\ UNCHANGED <<node, key, erased, jobs, ask, txs, slipped, unseen>>

CommitEdit(s) ==
    LET t == tx[s]
    IN  /\ At(s, "edit", "commit") /\ Unblocked(s)
        /\ lists' = [recommended |-> IF "recommended" \in t.names \/ t.write.recommended # <<>>
                                     THEN t.write.recommended ELSE lists.recommended,
                     order |-> IF "order" \in t.names THEN t.write.order ELSE lists.order]
        /\ crossed' = (crossed \/ lists # t.seen
                       \/ \E n \in Nodes : ~Exists(n) /\ \E f \in t.names : Listed(n, t.write[f]))
        /\ tx' = [tx EXCEPT ![s] = NoTx]
        /\ UNCHANGED <<node, key, erased, jobs, ask, txs, slipped, unseen>>

SwitchNode(n) ==
    /\ txs < MaxTxs /\ txs' = txs + 1
    /\ Exists(n) /\ ~\E s \in Sessions : HoldsNode(s, n)
    /\ node' = [node EXCEPT ![n] = IF @ = "enabled" THEN "disabled" ELSE "enabled"]
    /\ UNCHANGED <<key, erased, jobs, ask, lists, tx, history>>

\* The database ends one of those that wait for each other, or the API or its
\* connection is gone.
RollBack(s) == tx[s] # NoTx /\ Step(s, NoTx)

-----------------------------------------------------------------------------
Steps(s) ==
    \/ RemoveJobs(s) \/ RemoveKeys(s) \/ CancelAsks(s) \/ ReadLists(s) \/ ScrubLists(s) \/ EraseNode(s) \/ CommitRemove(s)
    \/ Supersede(s) \/ RefuseAsk(s) \/ \E r \in Asks : InsertAsk(s, r)
    \/ \E status \in {"approved", "rejected"} : CommitReview(s, status)
    \/ \E k \in Keys : CommitCreate(s, k)
    \/ CommitQueue(s) \/ CommitEdit(s) \/ RollBack(s)

Begins(s) ==
    \/ \E n \in Nodes, deleteKeys \in BOOLEAN : BeginRemove(s, n, deleteKeys)
    \/ \E u \in Users, n \in Nodes \cup {Null} : BeginAsk(s, u, n)
    \/ \E r \in Asks : BeginReview(s, r)
    \/ \E n \in Nodes : BeginCreate(s, n)
    \/ \E k \in Keys : BeginChange(s, k) \/ BeginRearm(s, k)
    \/ \E l \in Lists, names \in SUBSET {"recommended", "order"} : BeginEdit(s, l, names)

RemovalNext == (\E s \in Sessions : Begins(s) \/ Steps(s)) \/ \E n \in Nodes : SwitchNode(n)

\* Nodes that serve, the one perhaps with a key.
RemovalInit ==
    /\ node = [n \in Nodes |-> "enabled"]
    /\ key \in {f \in [Keys -> Nodes \cup {Null}] : Cardinality({k \in Keys : f[k] # Null}) <= 1}
    /\ erased = {} /\ jobs = {} /\ ask = [r \in Asks |-> Unasked]
    /\ lists \in Initial
    /\ tx = [s \in Sessions |-> NoTx] /\ txs = 0
    /\ slipped = {} /\ unseen = {} /\ crossed = FALSE

RemovalSpec == RemovalInit /\ [][RemovalNext]_removalVars

-----------------------------------------------------------------------------
(* Properties *)

RemovalTypeOK ==
    /\ node \in [Nodes -> {"enabled", "disabled", "gone"}]
    /\ key \in [Keys -> Nodes \cup {Null}] /\ erased \subseteq Keys /\ jobs \subseteq Keys
    /\ ask \in [Asks -> Ask \cup {Unasked}] /\ lists \in Lists
    /\ tx \in [Sessions -> Tx] /\ txs \in 0 .. MaxTxs
    /\ slipped \subseteq Asks /\ unseen \subseteq Keys /\ crossed \in BOOLEAN
    /\ \A s, t \in Sessions : s # t => tx[s].locked \cap tx[t].locked = {}

\* A request for one server is never answered as one for all of them, unless it
\* came in while its server was being removed, after the others were cancelled.
TargetKept == \A r \in Asks \ slipped :
    ask[r] # Unasked /\ ask[r].status # "cancelled" /\ ask[r].asked # Null =>
        ask[r].node = ask[r].asked \/ (~Pending(r) /\ node[ask[r].asked] = "gone")

\* The worker has no job of a key whose row is gone, but one that was queued while
\* the key was being removed: after its jobs were dropped, or by a sweep that had
\* found the key before.
JobsHaveKeys == jobs \cap erased \subseteq unseen

\* What is recommended are the first nodes of the order, in its sequence, and a
\* node that is gone is in neither list, unless two edits of the lists crossed.
ListsHold ==
    crossed \/
    /\ lists.recommended = Top(lists.order, Len(lists.recommended))
    /\ \A n \in Nodes : Listed(n, lists.order) => Exists(n)

\* Nothing refers to a key or a node that was removed, apart from what JobsHaveKeys
\* and ListsHold name: the worker's jobs and the policy's lists follow every removal.
NothingDangles == JobsHaveKeys /\ ListsHold
=============================================================================
