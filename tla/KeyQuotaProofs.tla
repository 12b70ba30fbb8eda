---------------------------- MODULE KeyQuotaProofs ----------------------------
(***************************************************************************)
(* For any accounts, nodes, keys, sessions, limits and attempts: the types, *)
(* that the keys of an account have different numbers, and that a key is    *)
(* made only where there is room for it.                                    *)
(***************************************************************************)
EXTENDS KeyQuota, FiniteSetTheorems, WellFoundedInduction, TLAPS

CreateSteps == {"snapshot", "user", "chosen"}

\* A creation that missed no other one for its account knows the number of
\* every key the account has.
Knows(t, keys) ==
    (\A m \in t.missed : m.user # t.user) =>
        \A k \in Keys : keys[k] # None /\ keys[k].owner = t.user =>
            t.keys[k] # None /\ t.keys[k].owner = t.user /\ t.keys[k].number = keys[k].number

\* Numbers are bounded, in the table and in every snapshot of it.
Bounded(keys) == \E b \in Nat : \A k \in Keys : keys[k] # None => keys[k].number <= b

SessionHolds(t, keys) ==
    /\ t.step # "idle" => t.user \in Users
    /\ t.step \in CreateSteps => Knows(t, keys) /\ Bounded(t.keys)
    /\ t.step = "chosen" => t.target \in Nodes

\* What TypeOK says of the sessions' locks.
Locks == \A s \in Sessions : tx[s].step \in {"user", "chosen"} => UserFree(tx[s].user, s)

QuotaInv ==
    /\ TypeOK
    /\ NumbersDiffer
    /\ Bounded(key)
    /\ \A s \in Sessions : SessionHolds(tx[s], key)

-----------------------------------------------------------------------------
(* The largest number of a bounded set *)

LEMMA LessIsWellFounded ==
    \E R : IsWellFoundedOn(R, Nat) /\ \A x, y \in Nat : x < y => <<x, y>> \in R
<1>1. IsWellFoundedOn(OpToRel(<, Nat), Nat)
    BY NatLessThanWellFounded
<1>2. \A x, y \in Nat : x < y => <<x, y>> \in OpToRel(<, Nat)
    BY DEF OpToRel
<1> QED
    BY <1>1, <1>2

LEMMA Minimal ==
    ASSUME NEW R, IsWellFoundedOn(R, Nat), NEW T, T \subseteq Nat, T # {}
    PROVE  \E x \in T : \A y \in T : ~(<<y, x>> \in R)
BY WFMin

LEMMA SmallestExists ==
    ASSUME NEW T, T \subseteq Nat, T # {}
    PROVE  \E i \in T : \A j \in T : i <= j
<1>1. PICK R : IsWellFoundedOn(R, Nat) /\ \A x, y \in Nat : x < y => <<x, y>> \in R
    BY LessIsWellFounded
<1>2. IsWellFoundedOn(R, Nat)
    BY <1>1
<1>3. \E i \in T : \A j \in T : ~(<<j, i>> \in R)
    BY ONLY <1>2, T \subseteq Nat, T # {}, Minimal
<1>4. PICK i \in T : \A j \in T : ~(<<j, i>> \in R)
    BY <1>3
<1>5. \A j \in T : ~(j < i)
    BY <1>1, <1>4
<1> QED
    BY <1>5

LEMMA LargestExists ==
    ASSUME NEW S \in SUBSET Nat, S # {}, NEW b \in Nat, \A i \in S : i <= b
    PROVE  \E i \in S : \A j \in S : j <= i
<1> DEFINE T == {b - i : i \in S}
<1>1. T \subseteq Nat /\ T # {}
    <2>1. \A i \in S : b - i \in Nat
        OBVIOUS
    <2> QED BY <2>1
<1>2. PICK t \in T : \A u \in T : t <= u
    <2> HIDE DEF T
    <2> QED BY <1>1, SmallestExists
<1>3. PICK i \in S : t = b - i
    BY <1>2
<1>4. ASSUME NEW j \in S PROVE j <= i
    <2>1. b - i <= b - j
        BY <1>2, <1>3
    <2> QED BY <2>1
<1> QED
    BY <1>3, <1>4

\* The next number is larger than those the snapshot has.
LEMMA NextIsLarger ==
    ASSUME NEW keys \in [Keys -> Row \cup {None}], Bounded(keys), NEW u \in Users
    PROVE  /\ NextNumber(keys, u) \in Nat
           /\ \A k \in Keys : keys[k] # None /\ keys[k].owner = u => keys[k].number < NextNumber(keys, u)
<1> DEFINE S == Numbers(keys, u)
<1>1. PICK b \in Nat : \A k \in Keys : keys[k] # None => keys[k].number <= b
    BY DEF Bounded
<1>2. \A k \in Keys : keys[k] # None => keys[k].number \in Nat
    BY DEF Row
<1>3. S \in SUBSET Nat /\ S # {} /\ \A i \in S : i <= b
    BY <1>1, <1>2 DEF Numbers, Rows
<1>4. \A k \in Keys : keys[k] # None /\ keys[k].owner = u => keys[k].number \in S
    BY DEF Numbers, Rows
<1> HIDE DEF S
<1>5. \E i \in S : \A j \in S : j <= i
    BY <1>1, <1>3, LargestExists
<1>6. PICK m \in S : m = (CHOOSE i \in S : \A j \in S : j <= i) /\ \A j \in S : j <= m
    BY <1>5
<1>7. NextNumber(keys, u) = 1 + m
    BY <1>6 DEF NextNumber, S
<1>8. m \in Nat /\ NextNumber(keys, u) \in Nat
    BY <1>3, <1>7
<1>9. ASSUME NEW k \in Keys, keys[k] # None, keys[k].owner = u
      PROVE  keys[k].number < NextNumber(keys, u)
    <2>1. keys[k].number \in Nat /\ keys[k].number <= m
        BY <1>2, <1>4, <1>6, <1>9
    <2> QED BY <1>7, <1>8, <2>1
<1> QED
    BY <1>8, <1>9

-----------------------------------------------------------------------------
(* Sessions *)

LEMMA NoTxTyped == NoTx \in Tx /\ NoTx.step = "idle"
BY BoundsAssumption DEF NoTx, Tx

\* What a creation is judged by.
Same(t, new) == new.step = t.step /\ new.user = t.user /\ new.keys = t.keys
                /\ new.missed = t.missed /\ new.target = t.target

LEMMA SnapshotTyped ==
    ASSUME TypeOK, NEW u \in Users, NEW n \in Nodes \cup {None}, NEW a \in 0 .. MaxAttempts
    PROVE  /\ Snapshot(u, n, a) \in Tx
           /\ Snapshot(u, n, a).step = "snapshot" /\ Snapshot(u, n, a).user = u
           /\ Snapshot(u, n, a).keys = key /\ Snapshot(u, n, a).missed = {}
<1>1. key \in [Keys -> Row \cup {None}] /\ policy \in Policy /\ node \in [Nodes -> Node \cup {None}]
    BY DEF TypeOK
<1> QED
    BY <1>1, NoTxTyped DEF Snapshot, NoTx, Tx

LEMMA TouchTyped ==
    ASSUME NEW f \in [Sessions -> Tx], NEW rows \in SUBSET (Users \cup Nodes)
    PROVE  /\ Touch(rows, f) \in [Sessions -> Tx]
           /\ \A s \in Sessions : Same(f[s], Touch(rows, f)[s])
<1>1. ASSUME NEW t \in Tx
      PROVE  LET new == [t EXCEPT !.touched = @ \cup rows] IN new \in Tx /\ Same(t, new)
    BY DEF Tx, Same
<1> QED
    BY <1>1 DEF Touch, Same

LEMMA OvertakeTyped ==
    ASSUME TypeOK
    PROVE  /\ Overtake({}) \in [Sessions -> Tx]
           /\ \A s \in Sessions : Same(tx[s], Overtake({})[s])
<1>1. ASSUME NEW t \in Tx
      PROVE  LET new == [t EXCEPT !.touched = @ \cup {}, !.overtaken = TRUE] IN new \in Tx /\ Same(t, new)
    BY DEF Tx, Same
<1> QED
    BY <1>1, NoTxTyped DEF Overtake, Same, TypeOK

\* Sessions go on as they were, end, or start from a snapshot of their own.
Goes(t, new) ==
    \/ Same(t, new)
    \/ new.step = "idle"
    \/ new.step = "snapshot" /\ new.user \in Users /\ new.keys = key /\ new.missed = {}

LEMMA SnapshotGoes ==
    ASSUME TypeOK, NEW t \in Tx, NEW u \in Users, NEW n \in Nodes \cup {None}, NEW a \in 0 .. MaxAttempts
    PROVE  Snapshot(u, n, a) \in Tx /\ Goes(t, Snapshot(u, n, a))
BY SnapshotTyped DEF Goes

LEMMA LocksKept ==
    ASSUME Locks, \A s \in Sessions : Goes(tx[s], tx'[s])
    PROVE  Locks'
BY DEF Locks, Goes, Same, UserFree

LEMMA SessionsGo ==
    ASSUME QuotaInv, tx' \in [Sessions -> Tx], \A s \in Sessions : Goes(tx[s], tx'[s]),
           key' = key, quota' \in [Users -> Quota], policy' \in Policy,
           node' \in [Nodes -> Node], changes' \in 0 .. MaxChanges
    PROVE  QuotaInv'
<1>1. Locks'
    BY LocksKept DEF QuotaInv, TypeOK, Locks
<1>2. TypeOK'
    BY <1>1 DEF QuotaInv, TypeOK, Locks
<1>3. \A s \in Sessions : SessionHolds(tx'[s], key)
    <2> SUFFICES ASSUME NEW s \in Sessions PROVE SessionHolds(tx'[s], key)
        OBVIOUS
    <2>1. CASE Same(tx[s], tx'[s])
        BY <2>1 DEF Same, SessionHolds, Knows, QuotaInv
    <2>2. CASE tx'[s].step = "idle"
        BY <2>2 DEF SessionHolds, CreateSteps
    <2>3. CASE tx'[s].step = "snapshot" /\ tx'[s].user \in Users /\ tx'[s].keys = key /\ tx'[s].missed = {}
        BY <2>3 DEF SessionHolds, Knows, QuotaInv
    <2> QED BY <2>1, <2>2, <2>3 DEF Goes
<1> QED
    BY <1>2, <1>3 DEF QuotaInv, NumbersDiffer, Rows, Bounded

LEMMA InitHolds == Init => QuotaInv
<1> SUFFICES ASSUME Init PROVE QuotaInv
    OBVIOUS
<1>1. key \in [Keys -> Row \cup {None}] /\ \A k \in Keys : key[k] # None => key[k].number = 1
    BY NoneAssumption DEF Init, Row
<1>2. \A s \in Sessions : tx[s] = NoTx
    BY DEF Init
<1>3. TypeOK
    <2>1. NoLimits \in Quota
        BY DEF NoLimits, Quota
    <2>2. quota \in [Users -> Quota] /\ policy \in Policy
        BY <2>1, LimitsAssumption DEF Init
    <2>3. node \in [Nodes -> Node] /\ tx \in [Sessions -> Tx] /\ changes \in 0 .. MaxChanges
        BY NoTxTyped, BoundsAssumption DEF Init
    <2> QED BY <1>1, <1>2, <2>2, <2>3, NoTxTyped DEF TypeOK
<1>4. Bounded(key)
    BY <1>1 DEF Bounded
<1>5. NumbersDiffer
    <2> SUFFICES ASSUME NEW k \in Rows(key), NEW j \in Rows(key), k # j PROVE FALSE
        BY DEF NumbersDiffer
    <2>1. IsFiniteSet(Rows(key)) /\ {k} \cup {j} \in SUBSET Rows(key)
        BY BoundsAssumption, FS_Subset DEF Rows
    <2>2. Cardinality({k} \cup {j}) <= Cardinality(Rows(key))
        BY <2>1, FS_Subset
    <2>3. IsFiniteSet({k}) /\ Cardinality({k}) = 1
        BY FS_Singleton
    <2>4. Cardinality({k} \cup {j}) = 2
        <3>1. j \notin {k}
            OBVIOUS
        <3>2. Cardinality({k} \cup {j}) = IF j \in {k} THEN Cardinality({k}) ELSE Cardinality({k}) + 1
            BY <2>3, FS_AddElement, ZenonT(30)
        <3> QED BY <2>3, <3>1, <3>2
    <2>5. Cardinality(Rows(key)) \in Nat /\ Cardinality(Rows(key)) <= 1
        BY <2>1, FS_CardinalityType DEF Init
    <2> QED BY <2>2, <2>4, <2>5
<1>6. \A s \in Sessions : SessionHolds(tx[s], key)
    BY <1>2, NoTxTyped DEF SessionHolds, CreateSteps
<1> QED
    BY <1>3, <1>4, <1>5, <1>6 DEF QuotaInv

\* One session takes a step of its own.
LEMMA OneGoes ==
    ASSUME QuotaInv, NEW s \in Sessions, NEW t \in Tx, tx' = [tx EXCEPT ![s] = t],
           SessionHolds(t, key), Locks',
           UNCHANGED <<key, quota, policy, node>>, changes' \in 0 .. MaxChanges
    PROVE  QuotaInv'
<1>1. tx' \in [Sessions -> Tx] /\ tx'[s] = t /\ \A o \in Sessions \ {s} : tx'[o] = tx[o]
    BY DEF QuotaInv, TypeOK
<1>2. TypeOK'
    BY <1>1 DEF QuotaInv, TypeOK, Locks
<1>3. \A o \in Sessions : SessionHolds(tx'[o], key)
    BY <1>1 DEF QuotaInv
<1> QED
    BY <1>2, <1>3 DEF QuotaInv, NumbersDiffer, Rows, Bounded

LEMMA CreationSteps ==
    ASSUME QuotaInv, NEW s \in Sessions,
           \/ \E u \in Users, n \in Nodes \cup {None} : BeginCreate(s, u, n)
           \/ Retry(s) \/ LockUser(s) \/ NoRoom(s)
           \/ \E n \in Nodes, full \in SUBSET Nodes : ChooseNode(s, n, full)
    PROVE  QuotaInv'
<1> tx \in [Sessions -> Tx] /\ tx[s] \in Tx /\ Locks /\ TypeOK
    BY DEF QuotaInv, TypeOK, Locks
<1> SessionHolds(tx[s], key)
    BY DEF QuotaInv
<1> quota \in [Users -> Quota] /\ policy \in Policy /\ node \in [Nodes -> Node] /\ changes \in 0 .. MaxChanges
    BY DEF TypeOK
<1>1. ASSUME NEW u \in Users, NEW n \in Nodes \cup {None}, BeginCreate(s, u, n)
      PROVE  QuotaInv'
    <2> DEFINE t == Snapshot(u, n, 1)
    <2>1. t \in Tx /\ Goes(tx[s], t)
        <3>1. 1 \in 0 .. MaxAttempts
            BY BoundsAssumption
        <3>2. t \in Tx /\ t.step = "snapshot" /\ t.user = u /\ t.keys = key /\ t.missed = {}
            BY <3>1, SnapshotTyped
        <3> QED BY <3>2 DEF Goes
    <2>2. tx' = [tx EXCEPT ![s] = t] /\ UNCHANGED <<key, quota, policy, node, changes>>
        BY <1>1 DEF BeginCreate
    <2> HIDE DEF t
    <2>3. tx' \in [Sessions -> Tx] /\ \A o \in Sessions : Goes(tx[o], tx'[o])
        BY <2>1, <2>2 DEF Goes, Same
    <2> QED BY <2>2, <2>3, SessionsGo
<1>2. CASE Retry(s)
    <2> DEFINE t == IF tx[s].attempt = MaxAttempts THEN NoTx
                    ELSE Snapshot(tx[s].user, tx[s].node, tx[s].attempt + 1)
    <2>1. tx[s].step \in CreateSteps /\ tx[s].user \in Users
        BY <1>2 DEF Retry, Creating, CreateSteps, SessionHolds
    <2>2. tx[s].node \in Nodes \cup {None} /\ tx[s].attempt \in 0 .. MaxAttempts
        BY DEF Tx
    <2>3. NoTx \in Tx /\ Goes(tx[s], NoTx)
        BY NoTxTyped DEF Goes
    <2>4. ASSUME tx[s].attempt # MaxAttempts
          PROVE  /\ Snapshot(tx[s].user, tx[s].node, tx[s].attempt + 1) \in Tx
                 /\ Goes(tx[s], Snapshot(tx[s].user, tx[s].node, tx[s].attempt + 1))
        <3>1. \A a \in 0 .. MaxAttempts : a # MaxAttempts => a + 1 \in 0 .. MaxAttempts
            BY BoundsAssumption
        <3> QED BY <2>1, <2>2, <2>4, <3>1, SnapshotGoes
    <2>5. t \in Tx /\ Goes(tx[s], t)
        BY <2>3, <2>4
    <2>6. tx' = [tx EXCEPT ![s] = t] /\ UNCHANGED <<key, quota, policy, node, changes>>
        BY <1>2 DEF Retry
    <2> HIDE DEF t
    <2>7. tx' \in [Sessions -> Tx] /\ \A o \in Sessions : Goes(tx[o], tx'[o])
        BY <2>5, <2>6 DEF Goes, Same
    <2> QED BY <2>6, <2>7, SessionsGo
<1>3. CASE LockUser(s)
    <2> DEFINE t == [tx[s] EXCEPT !.step = "user"]
    <2>1. t \in Tx /\ t.step = "user" /\ t.user = tx[s].user /\ t.keys = tx[s].keys /\ t.missed = tx[s].missed
        BY DEF Tx
    <2>2. /\ tx' = [tx EXCEPT ![s] = t] /\ UNCHANGED <<key, quota, policy, node, changes>>
          /\ tx[s].step = "snapshot" /\ UserFree(tx[s].user, s)
        BY <1>3 DEF LockUser
    <2> HIDE DEF t
    <2>3. SessionHolds(t, key)
        BY <2>1, <2>2 DEF SessionHolds, CreateSteps, Knows
    <2>4. Locks'
        BY <2>1, <2>2 DEF Locks, UserFree
    <2> QED BY <2>1, <2>2, <2>3, <2>4, OneGoes
<1>4. CASE NoRoom(s)
    <2>1. tx' = [tx EXCEPT ![s] = NoTx] /\ UNCHANGED <<key, quota, policy, node, changes>>
        BY <1>4 DEF NoRoom
    <2>2. tx' \in [Sessions -> Tx] /\ \A o \in Sessions : Goes(tx[o], tx'[o])
        BY <2>1, NoTxTyped DEF Goes, Same
    <2> QED BY <2>1, <2>2, SessionsGo
<1>5. ASSUME NEW n \in Nodes, NEW full \in SUBSET Nodes, ChooseNode(s, n, full)
      PROVE  QuotaInv'
    <2> DEFINE t == [tx[s] EXCEPT !.step = "chosen", !.target = n, !.counted = full \cup {n}]
    <2>1. /\ t \in Tx /\ t.step = "chosen" /\ t.user = tx[s].user /\ t.keys = tx[s].keys
          /\ t.missed = tx[s].missed /\ t.target = n
        BY DEF Tx
    <2>2. /\ tx' = [tx EXCEPT ![s] = t] /\ UNCHANGED <<key, quota, policy, node, changes>>
          /\ tx[s].step = "user"
        BY <1>5 DEF ChooseNode
    <2> HIDE DEF t
    <2>3. SessionHolds(t, key)
        BY <2>1, <2>2 DEF SessionHolds, CreateSteps, Knows
    <2>4. Locks'
        BY <2>1, <2>2 DEF Locks, UserFree
    <2> QED BY <2>1, <2>2, <2>3, <2>4, OneGoes
<1> QED
    BY <1>1, <1>2, <1>3, <1>4, <1>5

\* A creation that commits missed no other one for its account, so its number
\* is larger than all the account has.
LEMMA CommitStep ==
    ASSUME QuotaInv, NEW s \in Sessions, NEW k \in Keys, CommitCreate(s, k)
    PROVE  QuotaInv'
<1> DEFINE u == tx[s].user
           row == [state |-> "counted", owner |-> u, node |-> tx[s].target,
                   number |-> NextNumber(tx[s].keys, u)]
<1> USE DEF QuotaInv
<1>1. /\ tx[s] \in Tx /\ tx[s].step = "chosen" /\ u \in Users /\ tx[s].target \in Nodes
      /\ Knows(tx[s], key) /\ Bounded(tx[s].keys) /\ tx[s].keys \in [Keys -> Row \cup {None}]
    BY DEF CommitCreate, SessionHolds, CreateSteps, TypeOK, Tx
<1>2. /\ NextNumber(tx[s].keys, u) \in Nat
      /\ \A j \in Keys : tx[s].keys[j] # None /\ tx[s].keys[j].owner = u =>
            tx[s].keys[j].number < NextNumber(tx[s].keys, u)
    BY <1>1, NextIsLarger
<1>3. row \in Row /\ row # None /\ row.owner = u /\ row.number = NextNumber(tx[s].keys, u)
    BY <1>1, <1>2, NoneAssumption DEF Row
<1>4. /\ key' = [key EXCEPT ![k] = row] /\ key[k] = None
      /\ UNCHANGED <<quota, policy, node, changes>> /\ Serializable(s)
      /\ tx' = [t \in Sessions |->
                   IF t = s THEN NoTx
                   ELSE IF t \in Creating THEN [tx[t] EXCEPT !.missed = @ \cup {Made(s)}]
                   ELSE tx[t]]
    BY DEF CommitCreate
<1>5. /\ key' \in [Keys -> Row \cup {None}] /\ key'[k] = row
      /\ \A j \in Keys \ {k} : key'[j] = key[j]
    BY <1>3, <1>4 DEF TypeOK
<1> HIDE DEF row
<1>6. \A m \in tx[s].missed : m.user # u
    BY <1>4 DEF Serializable, Read, Made
<1>7. ASSUME NEW j \in Keys, key[j] # None, key[j].owner = u
      PROVE  key[j].number < row.number
    BY <1>1, <1>2, <1>3, <1>6, <1>7 DEF Knows
<1>8. \A j \in Keys : key[j] # None => key[j] \in Row /\ key[j].number \in Nat
    BY DEF TypeOK, Row
<1>9. NumbersDiffer'
    <2> SUFFICES ASSUME NEW i \in Keys, NEW j \in Keys, key'[i] # None, key'[j] # None, i # j,
                        key'[i].owner = key'[j].owner
                 PROVE  key'[i].number # key'[j].number
        BY DEF NumbersDiffer, Rows
    <2>1. CASE i # k /\ j # k
        BY <1>5, <2>1 DEF NumbersDiffer, Rows
    <2>2. CASE i = k
        BY <1>2, <1>3, <1>5, <1>7, <1>8, <2>2
    <2>3. CASE j = k
        BY <1>2, <1>3, <1>5, <1>7, <1>8, <2>3
    <2> QED BY <2>1, <2>2, <2>3
<1>10. Bounded(key')
    <2>1. PICK b \in Nat : \A j \in Keys : key[j] # None => key[j].number <= b
        BY DEF Bounded
    <2>2. b + row.number \in Nat
        BY <1>2, <1>3, <2>1
    <2>3. \A j \in Keys : key'[j] # None => key'[j].number <= b + row.number
        BY <1>2, <1>3, <1>5, <1>8, <2>1
    <2> QED BY <2>2, <2>3 DEF Bounded
<1>11. /\ tx' \in [Sessions -> Tx]
       /\ \A o \in Sessions \ {s} :
             /\ tx'[o].step = tx[o].step /\ tx'[o].user = tx[o].user /\ tx'[o].keys = tx[o].keys
             /\ tx'[o].target = tx[o].target
             /\ tx[o].step \in CreateSteps => tx'[o].missed = tx[o].missed \cup {Made(s)}
       /\ tx'[s].step = "idle"
    <2>1. Made(s) \in Creation /\ tx \in [Sessions -> Tx]
        BY <1>1 DEF Made, Creation, Tx, TypeOK
    <2>2. ASSUME NEW t \in Tx, NEW made \in Creation
          PROVE  LET new == [t EXCEPT !.missed = @ \cup {made}]
                 IN  /\ new \in Tx /\ new.missed = t.missed \cup {made}
                     /\ new.step = t.step /\ new.user = t.user /\ new.keys = t.keys
                     /\ new.target = t.target
        BY DEF Tx
    <2> QED BY <1>4, <2>1, <2>2, NoTxTyped DEF Creating, CreateSteps
<1>12. \A o \in Sessions : SessionHolds(tx'[o], key')
    <2> SUFFICES ASSUME NEW o \in Sessions, tx'[o].step \in CreateSteps
                 PROVE  SessionHolds(tx'[o], key')
        BY <1>11 DEF SessionHolds, CreateSteps
    <2>1. o # s /\ tx[o].step \in CreateSteps /\ Made(s) \in tx'[o].missed
        BY <1>11 DEF CreateSteps
    <2>2. Knows(tx'[o], key')
        <3> SUFFICES ASSUME \A m \in tx'[o].missed : m.user # tx'[o].user,
                            NEW j \in Keys, key'[j] # None, key'[j].owner = tx'[o].user
                     PROVE  tx'[o].keys[j] # None /\ tx'[o].keys[j].owner = tx'[o].user
                            /\ tx'[o].keys[j].number = key'[j].number
            BY DEF Knows
        <3>1. u # tx[o].user
            BY <1>11, <2>1 DEF Made
        <3>2. j # k
            BY <1>3, <1>5, <1>11, <2>1, <3>1
        <3>3. \A m \in tx[o].missed : m.user # tx[o].user
            BY <1>11, <2>1
        <3> QED BY <1>5, <1>11, <2>1, <3>2, <3>3 DEF SessionHolds, Knows
    <2> QED BY <1>11, <2>1, <2>2 DEF SessionHolds
<1>13. Locks'
    BY <1>11 DEF Locks, UserFree, TypeOK
<1>14. TypeOK'
    BY <1>4, <1>5, <1>11, <1>13 DEF TypeOK, Locks
<1> QED
    BY <1>9, <1>10, <1>12, <1>14

-----------------------------------------------------------------------------
(* Approvals, and what administrators, owners and the worker do *)

LEMMA Changed == QuotaInv /\ Change => changes' \in 0 .. MaxChanges
BY BoundsAssumption DEF QuotaInv, TypeOK, Change

LEMMA ApproveSteps ==
    ASSUME QuotaInv, NEW s \in Sessions,
           \/ \E u \in Users, number \in Limits, n \in Nodes \cup {None} : BeginApprove(s, u, number, n)
           \/ CommitApprove(s)
    PROVE  QuotaInv'
<1> tx \in [Sessions -> Tx] /\ tx[s] \in Tx /\ Locks /\ TypeOK
    BY DEF QuotaInv, TypeOK, Locks
<1> quota \in [Users -> Quota] /\ policy \in Policy /\ node \in [Nodes -> Node] /\ changes \in 0 .. MaxChanges
    BY DEF TypeOK
<1>1. ASSUME NEW u \in Users, NEW number \in Limits, NEW n \in Nodes \cup {None},
             BeginApprove(s, u, number, n)
      PROVE  QuotaInv'
    <2> DEFINE t == [NoTx EXCEPT !.step = "approve", !.user = u, !.limit = number,
                                 !.target = n, !.policy = policy]
    <2>1. t \in Tx /\ t.step = "approve" /\ t.user = u
        BY NoTxTyped DEF NoTx, Tx
    <2>2. /\ tx' = [tx EXCEPT ![s] = t] /\ UNCHANGED <<key, quota, policy, node>>
          /\ UserFree(u, s) /\ Change
        BY <1>1 DEF BeginApprove
    <2> HIDE DEF t
    <2>3. SessionHolds(t, key)
        BY <2>1 DEF SessionHolds, CreateSteps
    <2>4. Locks'
        BY <2>1, <2>2 DEF Locks, UserFree
    <2> QED BY <2>1, <2>2, <2>3, <2>4, OneGoes, Changed
<1>2. CASE CommitApprove(s)
    <2> DEFINE u == tx[s].user
               f == [tx EXCEPT ![s] = NoTx]
               q == ResolveQuotaApproval(quota[u], Mode(quota[u], tx[s].policy), tx[s].limit, tx[s].target)
    <2>1. f \in [Sessions -> Tx] /\ \A o \in Sessions : Goes(tx[o], f[o])
        BY NoTxTyped DEF Goes, Same
    <2>2. tx' = Touch({u}, f) /\ quota' = [quota EXCEPT ![u] = q] /\ UNCHANGED <<key, policy, node, changes>>
        BY <1>2 DEF CommitApprove
    <2>3. u \in Users => q \in Quota
        <3> SUFFICES ASSUME u \in Users PROVE q \in Quota
            OBVIOUS
        <3>1. quota[u] \in Quota /\ tx[s].limit \in Limits \cup {None} /\ tx[s].target \in Nodes \cup {None}
            BY DEF Tx
        <3> HIDE DEF u
        <3> QED BY <3>1 DEF ResolveQuotaApproval, Quota
    <2>4. quota' \in [Users -> Quota]
        <3> HIDE DEF q, u
        <3> QED BY <2>2, <2>3
    <2>5. /\ tx' \in [Sessions -> Tx]
          /\ \A o \in Sessions : Same(f[o], tx'[o])
        <3>1. u \in Users
            BY <1>2 DEF CommitApprove, QuotaInv, SessionHolds
        <3> HIDE DEF f, u
        <3> QED BY <2>1, <2>2, <3>1, TouchTyped
    <2>6. \A o \in Sessions : Goes(tx[o], tx'[o])
        BY <2>1, <2>5 DEF Goes, Same
    <2> HIDE DEF u, f, q
    <2> QED BY <2>2, <2>4, <2>5, <2>6, SessionsGo
<1> QED
    BY <1>1, <1>2

LEMMA Settings ==
    ASSUME QuotaInv,
           \/ \E u \in Users, q \in Asked : SetLimit(u, q)
           \/ \E p \in Policy : UpdatePolicy(p)
           \/ \E n \in Nodes, row \in Node : UpdateNode(n, row)
    PROVE  QuotaInv'
<1> TypeOK /\ tx \in [Sessions -> Tx]
    BY DEF QuotaInv, TypeOK
<1> quota \in [Users -> Quota] /\ policy \in Policy /\ node \in [Nodes -> Node]
    BY DEF TypeOK
<1>1. ASSUME NEW u \in Users, NEW q \in Asked, SetLimit(u, q)
      PROVE  QuotaInv'
    <2>1. tx' = Touch({u}, tx) /\ Change /\ quota' = [quota EXCEPT ![u] = q] /\ UNCHANGED <<key, policy, node>>
        BY <1>1 DEF SetLimit
    <2>2. quota' \in [Users -> Quota]
        BY <2>1, LimitsAssumption
    <2>3. tx' \in [Sessions -> Tx] /\ \A s \in Sessions : Goes(tx[s], tx'[s])
        BY <2>1, TouchTyped DEF Goes
    <2> QED BY <2>1, <2>2, <2>3, SessionsGo, Changed
<1>2. ASSUME NEW p \in Policy, UpdatePolicy(p)
      PROVE  QuotaInv'
    <2>1. tx' = Overtake({}) /\ Change /\ policy' = p /\ UNCHANGED <<key, quota, node>>
        BY <1>2 DEF UpdatePolicy
    <2>2. tx' \in [Sessions -> Tx] /\ \A s \in Sessions : Goes(tx[s], tx'[s])
        BY <2>1, OvertakeTyped DEF Goes
    <2> QED BY <2>1, <2>2, SessionsGo, Changed
<1>3. ASSUME NEW n \in Nodes, NEW row \in Node, UpdateNode(n, row)
      PROVE  QuotaInv'
    <2>1. tx' = Touch({n}, tx) /\ Change /\ node' = [node EXCEPT ![n] = row] /\ UNCHANGED <<key, quota, policy>>
        BY <1>3 DEF UpdateNode
    <2>2. node' \in [Nodes -> Node]
        BY <2>1
    <2>3. tx' \in [Sessions -> Tx] /\ \A s \in Sessions : Goes(tx[s], tx'[s])
        BY <2>1, TouchTyped DEF Goes
    <2> QED BY <2>1, <2>2, <2>3, SessionsGo, Changed
<1> QED
    BY <1>1, <1>2, <1>3

\* Rows keep their owners and numbers, or go.
LEMMA RowsKept ==
    ASSUME QuotaInv, key' \in [Keys -> Row \cup {None}],
           \A k \in Keys : key'[k] # None => key[k] # None /\ key'[k].owner = key[k].owner
                                             /\ key'[k].number = key[k].number,
           tx' \in [Sessions -> Tx], \A s \in Sessions : Same(tx[s], tx'[s]),
           UNCHANGED <<quota, policy, node>>, changes' \in 0 .. MaxChanges
    PROVE  QuotaInv'
<1>1. Locks'
    BY LocksKept DEF QuotaInv, TypeOK, Locks, Goes
<1>2. TypeOK'
    BY <1>1 DEF QuotaInv, TypeOK, Locks
<1>3. \A s \in Sessions : SessionHolds(tx'[s], key')
    BY DEF Same, SessionHolds, Knows, QuotaInv
<1> QED
    BY <1>2, <1>3 DEF QuotaInv, NumbersDiffer, Rows, Bounded

LEMMA KeySteps ==
    ASSUME QuotaInv, NEW k \in Keys, FailJob(k) \/ RevokeKey(k) \/ RotateFailed(k) \/ CompleteToggle(k) \/ EraseKey(k)
    PROVE  QuotaInv'
<1> TypeOK /\ tx \in [Sessions -> Tx] /\ key \in [Keys -> Row \cup {None}]
    BY DEF QuotaInv, TypeOK
<1>1. changes' \in 0 .. MaxChanges /\ UNCHANGED <<quota, policy, node>> /\ key[k] # None
    BY Changed DEF FailJob, RevokeKey, RotateFailed, CompleteToggle, EraseKey, Move
<1>2. tx' \in [Sessions -> Tx] /\ \A s \in Sessions : Same(tx[s], tx'[s])
    <2>1. CASE UNCHANGED tx
        BY <2>1 DEF Same
    <2>2. CASE RotateFailed(k) \/ CompleteToggle(k)
        BY <2>2, OvertakeTyped DEF RotateFailed, CompleteToggle
    <2> QED BY <2>1, <2>2 DEF FailJob, RevokeKey, EraseKey
<1>3. ASSUME NEW state \in {"counted", "failed", "uncounted"}, key' = [key EXCEPT ![k].state = state]
      PROVE  key' \in [Keys -> Row \cup {None}]
             /\ \A j \in Keys : key'[j] # None => key[j] # None /\ key'[j].owner = key[j].owner
                                                  /\ key'[j].number = key[j].number
    <2>1. key[k] \in Row
        BY <1>1
    <2>2. LET new == [key[k] EXCEPT !.state = state]
          IN  new \in Row /\ new.owner = key[k].owner /\ new.number = key[k].number
        BY <2>1 DEF Row
    <2>3. key' = [key EXCEPT ![k] = [key[k] EXCEPT !.state = state]]
        BY <1>3
    <2> QED BY <1>1, <2>2, <2>3
<1>4. CASE EraseKey(k)
    <2>1. key' = [key EXCEPT ![k] = None]
        BY <1>4 DEF EraseKey
    <2> QED BY <1>1, <1>2, <2>1, RowsKept
<1>5. CASE FailJob(k) \/ RevokeKey(k) \/ RotateFailed(k) \/ CompleteToggle(k)
    <2>1. \E state \in {"counted", "failed", "uncounted"} : key' = [key EXCEPT ![k].state = state]
        BY <1>5 DEF FailJob, RevokeKey, RotateFailed, CompleteToggle, Move
    <2> QED BY <1>1, <1>2, <1>3, <2>1, RowsKept
<1> QED
    BY <1>4, <1>5

-----------------------------------------------------------------------------
LEMMA NextStep == QuotaInv /\ [Next]_vars => QuotaInv'
<1> SUFFICES ASSUME QuotaInv, [Next]_vars PROVE QuotaInv'
    OBVIOUS
<1>1. CASE Changes
    BY <1>1, KeySteps, Settings DEF Changes
<1>2. ASSUME NEW s \in Sessions, Begins(s) \/ Steps(s)
      PROVE  QuotaInv'
    BY <1>2, CreationSteps, ApproveSteps, CommitStep DEF Begins, Steps
<1>3. CASE UNCHANGED vars
    BY <1>3 DEF vars, QuotaInv, TypeOK, UserFree, NumbersDiffer, Rows, Bounded
<1> QED
    BY <1>1, <1>2, <1>3 DEF Next

LEMMA InvHolds == Spec => []QuotaInv
BY InitHolds, NextStep, PTL DEF Spec

-----------------------------------------------------------------------------
\* Every row and transaction keeps its type, and no two sessions hold the row
\* of one account.
THEOREM TypeCorrect == Spec => []TypeOK
<1>1. QuotaInv => TypeOK
    BY DEF QuotaInv
<1> QED
    BY <1>1, InvHolds, PTL

\* However creations overlap and whatever is revoked or erased beside them, no
\* two keys of an account get the same number.
THEOREM NumbersAreUnique == Spec => []NumbersDiffer
<1>1. QuotaInv => NumbersDiffer
    BY DEF QuotaInv
<1> QED
    BY <1>1, InvHolds, PTL

-----------------------------------------------------------------------------
(* Room: what a creation counted covers what there is when it commits *)

IsCounted(row) == row # None /\ row.state = "counted"

\* What counts now counted in the snapshot, or was created by one it missed.
Foreseen(t, keys) ==
    \A k \in Keys : IsCounted(keys[k]) =>
        \/ IsCounted(t.keys[k]) /\ t.keys[k].owner = keys[k].owner /\ t.keys[k].node = keys[k].node
        \/ \E m \in t.missed : m.user = keys[k].owner /\ m.node = keys[k].node

InRoom(s) ==
    tx[s].step \in CreateSteps =>
        /\ \A n \in Nodes : n \notin tx[s].touched => tx[s].nodes[n] = node[n]
        /\ \A m \in tx[s].missed : m.node \in m.counted
        /\ ~tx[s].overtaken => tx[s].policy = policy /\ Foreseen(tx[s], key)
        /\ tx[s].step = "chosen" =>
              /\ tx[s].target \in Candidates(s) /\ tx[s].target \in tx[s].counted
              /\ tx[s].nodes[tx[s].target] = node[tx[s].target]
              /\ HasRoom(s, tx[s].target)

RoomInv == QuotaInv /\ \A s \in Sessions : InRoom(s)

\* All but the step of a creation.
Alike(t, new) ==
    /\ new.user = t.user /\ new.node = t.node /\ new.keys = t.keys /\ new.policy = t.policy
    /\ new.nodes = t.nodes

LEMMA RoomKept ==
    ASSUME NEW s \in Sessions, InRoom(s), Same(tx[s], tx'[s]), Alike(tx[s], tx'[s]),
           tx'[s].counted = tx[s].counted,
           \A n \in Nodes : n \notin tx'[s].touched => n \notin tx[s].touched /\ node'[n] = node[n],
           ~tx'[s].overtaken => ~tx[s].overtaken /\ policy' = policy
                                /\ \A k \in Keys : IsCounted(key'[k]) => key'[k] = key[k],
           tx[s].step = "chosen" =>
               quota'[tx[s].user] = quota[tx[s].user] /\ node'[tx[s].target] = node[tx[s].target]
    PROVE  InRoom(s)'
<1> SUFFICES ASSUME tx'[s].step \in CreateSteps PROVE InRoom(s)'
    BY DEF InRoom
<1>1. tx[s].step \in CreateSteps
    BY DEF Same
<1>2. ~tx'[s].overtaken => tx'[s].policy = policy' /\ Foreseen(tx'[s], key')
    BY <1>1 DEF InRoom, Same, Alike, Foreseen
<1>3. tx'[s].step = "chosen" =>
         /\ tx'[s].target \in Candidates(s)' /\ tx'[s].target \in tx'[s].counted
         /\ tx'[s].nodes[tx'[s].target] = node'[tx'[s].target]
         /\ HasRoom(s, tx[s].target)'
    BY <1>1 DEF InRoom, Same, Alike, Candidates, HasRoom
<1> QED
    BY <1>1, <1>2, <1>3 DEF InRoom, Same, Alike

\* What a change of a setting leaves of a creation that is going on.
LEMMA Touched ==
    ASSUME TypeOK, NEW f \in [Sessions -> Tx], NEW rows, NEW s \in Sessions, tx[s].step \in CreateSteps,
           f[s] = tx[s]
    PROVE  LET new == Touch(rows, f)[s]
           IN  /\ Same(tx[s], new) /\ Alike(tx[s], new) /\ new.counted = tx[s].counted
               /\ new.touched = tx[s].touched \cup rows /\ new.overtaken = tx[s].overtaken
<1>1. Touch(rows, f)[s] = [tx[s] EXCEPT !.touched = @ \cup rows] /\ tx[s] \in Tx
    BY DEF Touch, Creating, CreateSteps, TypeOK
<1> QED
    BY <1>1 DEF Tx, Same, Alike

LEMMA Overtaken ==
    ASSUME TypeOK, NEW s \in Sessions, tx[s].step \in CreateSteps
    PROVE  LET new == Overtake({})[s]
           IN  /\ Same(tx[s], new) /\ Alike(tx[s], new) /\ new.counted = tx[s].counted
               /\ new.touched = tx[s].touched /\ new.overtaken = TRUE
<1>1. tx[s] # NoTx /\ tx[s] \in Tx
    BY NoTxTyped DEF CreateSteps, TypeOK
<1>2. Overtake({})[s] = [tx[s] EXCEPT !.touched = @ \cup {}, !.overtaken = TRUE]
    BY <1>1 DEF Overtake
<1>3. ASSUME NEW t \in Tx, NEW new, new = [t EXCEPT !.touched = @ \cup {}, !.overtaken = TRUE]
      PROVE  /\ new.step = t.step /\ new.keys = t.keys /\ new.missed = t.missed /\ new.target = t.target
             /\ new.user = t.user /\ new.node = t.node /\ new.policy = t.policy /\ new.nodes = t.nodes
             /\ new.counted = t.counted /\ new.touched = t.touched /\ new.overtaken = TRUE
    BY <1>3 DEF Tx
<1> QED
    BY <1>1, <1>2, <1>3 DEF Same, Alike

LEMMA RoomSettings ==
    ASSUME RoomInv,
           \/ \E u \in Users, q \in Asked : SetLimit(u, q)
           \/ \E p \in Policy : UpdatePolicy(p)
           \/ \E n \in Nodes, row \in Node : UpdateNode(n, row),
           NEW s \in Sessions, tx[s].step \in CreateSteps
    PROVE  InRoom(s)'
<1> TypeOK /\ tx \in [Sessions -> Tx] /\ InRoom(s) /\ tx[s].touched \in SUBSET (Users \cup Nodes)
    BY DEF RoomInv, QuotaInv, TypeOK, Tx
<1> quota \in [Users -> Quota] /\ node \in [Nodes -> Node]
    BY DEF TypeOK
<1>1. ASSUME NEW u \in Users, NEW q \in Asked, SetLimit(u, q)
      PROVE  InRoom(s)'
    <2>1. tx' = Touch({u}, tx) /\ quota' = [quota EXCEPT ![u] = q] /\ UNCHANGED <<key, policy, node>>
          /\ UserFree(u, None)
        BY <1>1 DEF SetLimit
    <2>2. /\ Same(tx[s], tx'[s]) /\ Alike(tx[s], tx'[s]) /\ tx'[s].counted = tx[s].counted
          /\ tx'[s].touched = tx[s].touched \cup {u} /\ tx'[s].overtaken = tx[s].overtaken
        BY <2>1, Touched
    <2>3. tx[s].step = "chosen" => quota'[tx[s].user] = quota[tx[s].user]
        BY <2>1, NoneAssumption DEF UserFree
    <2> QED BY <2>1, <2>2, <2>3, RoomKept
<1>2. ASSUME NEW p \in Policy, UpdatePolicy(p)
      PROVE  InRoom(s)'
    <2>1. tx' = Overtake({}) /\ UNCHANGED <<key, quota, node>>
        BY <1>2 DEF UpdatePolicy
    <2>2. /\ Same(tx[s], tx'[s]) /\ Alike(tx[s], tx'[s]) /\ tx'[s].counted = tx[s].counted
          /\ tx'[s].touched = tx[s].touched /\ tx'[s].overtaken
        BY <2>1, Overtaken
    <2> QED BY <2>1, <2>2, RoomKept
<1>3. ASSUME NEW n \in Nodes, NEW row \in Node, UpdateNode(n, row)
      PROVE  InRoom(s)'
    <2>1. tx' = Touch({n}, tx) /\ node' = [node EXCEPT ![n] = row] /\ UNCHANGED <<key, quota, policy>>
          /\ NodeFree(n, None)
        BY <1>3 DEF UpdateNode
    <2>2. /\ Same(tx[s], tx'[s]) /\ Alike(tx[s], tx'[s]) /\ tx'[s].counted = tx[s].counted
          /\ tx'[s].touched = tx[s].touched \cup {n} /\ tx'[s].overtaken = tx[s].overtaken
        BY <2>1, Touched
    <2>3. tx[s].step = "chosen" => tx[s].target # n
        BY <2>1, NoneAssumption DEF NodeFree, InRoom
    <2>4. \A m \in Nodes : m \notin tx'[s].touched => m \notin tx[s].touched /\ node'[m] = node[m]
        BY <2>1, <2>2
    <2>5. tx[s].step = "chosen" => node'[tx[s].target] = node[tx[s].target]
        BY <2>1, <2>3 DEF InRoom, Candidates
    <2> QED BY <2>1, <2>2, <2>4, <2>5, RoomKept
<1> QED
    BY <1>1, <1>2, <1>3

LEMMA RoomKeys ==
    ASSUME RoomInv, NEW k \in Keys, FailJob(k) \/ RevokeKey(k) \/ RotateFailed(k) \/ CompleteToggle(k) \/ EraseKey(k),
           NEW s \in Sessions, tx[s].step \in CreateSteps
    PROVE  InRoom(s)'
<1> TypeOK /\ InRoom(s) /\ key \in [Keys -> Row \cup {None}]
    BY DEF RoomInv, QuotaInv, TypeOK
<1>1. UNCHANGED <<quota, policy, node>> /\ key[k] # None
    BY DEF FailJob, RevokeKey, RotateFailed, CompleteToggle, EraseKey, Move
<1>2. key[k] \in Row
    BY <1>1
<1>3. CASE RotateFailed(k) \/ CompleteToggle(k)
    <2>1. tx' = Overtake({})
        BY <1>3 DEF RotateFailed, CompleteToggle
    <2>2. /\ Same(tx[s], tx'[s]) /\ Alike(tx[s], tx'[s]) /\ tx'[s].counted = tx[s].counted
          /\ tx'[s].touched = tx[s].touched /\ tx'[s].overtaken
        BY <2>1, Overtaken
    <2> QED BY <1>1, <2>2, RoomKept
<1>4. CASE FailJob(k) \/ RevokeKey(k) \/ EraseKey(k)
    <2>1. tx' = tx
        BY <1>4 DEF FailJob, RevokeKey, EraseKey
    <2>2. \/ key' = [key EXCEPT ![k].state = "failed"]
          \/ key' = [key EXCEPT ![k].state = "uncounted"]
          \/ key' = [key EXCEPT ![k] = None]
        BY <1>4 DEF FailJob, RevokeKey, EraseKey, Move
    <2>3. ~IsCounted(key'[k]) /\ \A j \in Keys \ {k} : key'[j] = key[j]
        BY <1>2, <2>2 DEF IsCounted, Row
    <2>4. Same(tx[s], tx'[s]) /\ Alike(tx[s], tx'[s]) /\ tx'[s].counted = tx[s].counted
        BY <2>1 DEF Same, Alike
    <2>5. ~tx'[s].overtaken => ~tx[s].overtaken /\ policy' = policy
                               /\ \A j \in Keys : IsCounted(key'[j]) => key'[j] = key[j]
        BY <1>1, <2>1, <2>3
    <2> QED BY <1>1, <2>1, <2>4, <2>5, RoomKept
<1> QED
    BY <1>3, <1>4

LEMMA RoomUnchanged ==
    ASSUME NEW s \in Sessions, InRoom(s), tx'[s] = tx[s], UNCHANGED <<key, quota, policy, node>>
    PROVE  InRoom(s)'
BY DEF InRoom, Foreseen, IsCounted, Candidates, HasRoom

LEMMA RoomFresh ==
    ASSUME TypeOK, NEW s \in Sessions, NEW u \in Users, NEW n \in Nodes \cup {None}, NEW a \in 0 .. MaxAttempts,
           tx'[s] = Snapshot(u, n, a), UNCHANGED <<key, quota, policy, node>>
    PROVE  InRoom(s)'
<1>1. LET t == Snapshot(u, n, a)
      IN  t.step = "snapshot" /\ t.keys = key /\ t.missed = {} /\ t.policy = policy /\ t.nodes = node
    BY DEF Snapshot, NoTx
<1> QED
    BY <1>1 DEF InRoom, Foreseen, IsCounted

LEMMA RoomOfChosen ==
    ASSUME TypeOK, NEW s \in Sessions, InRoom(s), NEW n \in Nodes, NEW full \in SUBSET Nodes,
           ChooseNode(s, n, full)
    PROVE  InRoom(s)'
<1>1. /\ tx[s].step = "user" /\ NodesLockable(s) /\ n \in Candidates(s) /\ HasRoom(s, n)
      /\ UNCHANGED <<key, quota, policy, node>> /\ tx[s] \in Tx /\ tx \in [Sessions -> Tx]
    BY DEF ChooseNode, TypeOK
<1>2. tx'[s] = [tx[s] EXCEPT !.step = "chosen", !.target = n, !.counted = full \cup {n}]
    BY <1>1 DEF ChooseNode
<1>3. /\ Alike(tx[s], tx'[s]) /\ tx'[s].touched = tx[s].touched /\ tx'[s].missed = tx[s].missed
      /\ tx'[s].overtaken = tx[s].overtaken /\ tx'[s].step = "chosen" /\ tx'[s].target = n
      /\ tx'[s].counted = full \cup {n}
    BY <1>1, <1>2 DEF Tx, Alike
<1>4. n \notin tx[s].touched
    BY <1>1 DEF NodesLockable
<1>5. tx[s].step \in CreateSteps
    BY <1>1 DEF CreateSteps
<1>6. tx'[s].nodes[n] = node'[n] /\ n \in Candidates(s)' /\ HasRoom(s, n)'
    BY <1>1, <1>3, <1>4, <1>5 DEF InRoom, Alike, Candidates, HasRoom
<1>7. HasRoom(s, tx[s].target)'
    BY <1>3, <1>6 DEF HasRoom
<1>8. ~tx'[s].overtaken => tx'[s].policy = policy' /\ Foreseen(tx'[s], key')
    BY <1>1, <1>3, <1>5 DEF InRoom, Alike, Foreseen
<1> QED
    BY <1>1, <1>3, <1>5, <1>6, <1>7, <1>8 DEF InRoom, Alike

\* A session's step, but for the two that commit, leaves the rest as it was.
LEMMA OwnStep ==
    ASSUME TypeOK, NEW o \in Sessions, NEW u, NEW n, NEW number, NEW full,
           \/ BeginCreate(o, u, n) \/ Retry(o) \/ LockUser(o) \/ NoRoom(o)
           \/ BeginApprove(o, u, number, n) \/ ChooseNode(o, n, full)
    PROVE  UNCHANGED <<key, quota, policy, node>> /\ \A p \in Sessions \ {o} : tx'[p] = tx[p]
<1> tx \in [Sessions -> Tx]
    BY DEF TypeOK
<1>1. UNCHANGED <<key, quota, policy, node>>
    BY DEF BeginCreate, Retry, LockUser, NoRoom, ChooseNode, BeginApprove
<1>2. CASE BeginCreate(o, u, n) \/ Retry(o) \/ LockUser(o) \/ NoRoom(o)
    BY <1>2 DEF BeginCreate, Retry, LockUser, NoRoom
<1>3. CASE BeginApprove(o, u, number, n)
    BY <1>3 DEF BeginApprove
<1>4. CASE ChooseNode(o, n, full)
    BY <1>4 DEF ChooseNode
<1> QED
    BY <1>1, <1>2, <1>3, <1>4

LEMMA RoomCreation ==
    ASSUME RoomInv, NEW o \in Sessions,
           NEW s \in Sessions, NEW u, NEW n, NEW number, NEW full,
           \/ u \in Users /\ n \in Nodes \cup {None} /\ BeginCreate(o, u, n)
           \/ Retry(o) \/ LockUser(o) \/ NoRoom(o) \/ BeginApprove(o, u, number, n)
           \/ n \in Nodes /\ full \in SUBSET Nodes /\ ChooseNode(o, n, full)
    PROVE  InRoom(s)'
<1> TypeOK /\ tx \in [Sessions -> Tx] /\ InRoom(s) /\ tx[o] \in Tx /\ SessionHolds(tx[o], key)
    BY DEF RoomInv, QuotaInv, TypeOK
<1>1. UNCHANGED <<key, quota, policy, node>>
    BY OwnStep
<1>2. \A p \in Sessions \ {o} : tx'[p] = tx[p]
    BY OwnStep
<1>3. CASE s # o
    BY <1>1, <1>2, <1>3, RoomUnchanged
<1>4. ASSUME s = o, u \in Users, n \in Nodes \cup {None}, BeginCreate(o, u, n)
      PROVE  InRoom(s)'
    <2>1. tx'[s] = Snapshot(u, n, 1) /\ 1 \in 0 .. MaxAttempts
        BY <1>4, BoundsAssumption DEF BeginCreate
    <2> QED BY <1>1, <1>4, <2>1, RoomFresh
<1>5. ASSUME s = o, Retry(o)
      PROVE  InRoom(s)'
    <2>1. tx[s].step \in CreateSteps /\ tx[s].user \in Users
        BY <1>5 DEF Retry, Creating, CreateSteps, SessionHolds
    <2>2. tx[s].node \in Nodes \cup {None} /\ tx[s].attempt \in 0 .. MaxAttempts
        BY <1>5 DEF Tx
    <2>3. CASE tx[s].attempt = MaxAttempts
        BY <1>5, <2>3, NoTxTyped DEF Retry, InRoom, CreateSteps
    <2>4. CASE tx[s].attempt # MaxAttempts
        <3>1. tx'[s] = Snapshot(tx[s].user, tx[s].node, tx[s].attempt + 1)
            BY <1>5, <2>4 DEF Retry
        <3>2. \A a \in 0 .. MaxAttempts : a # MaxAttempts => a + 1 \in 0 .. MaxAttempts
            BY BoundsAssumption
        <3>3. tx[s].attempt + 1 \in 0 .. MaxAttempts
            BY <2>2, <2>4, <3>2
        <3> QED BY <1>1, <2>1, <2>2, <3>1, <3>3, RoomFresh
    <2> QED BY <2>3, <2>4
<1>6. ASSUME s = o, LockUser(o)
      PROVE  InRoom(s)'
    <2>1. tx'[s] = [tx[s] EXCEPT !.step = "user"] /\ tx[s].step = "snapshot"
        BY <1>6 DEF LockUser
    <2>2. /\ Alike(tx[s], tx'[s]) /\ tx'[s].touched = tx[s].touched /\ tx'[s].missed = tx[s].missed
          /\ tx'[s].overtaken = tx[s].overtaken /\ tx'[s].step = "user"
        BY <1>6, <2>1 DEF Tx, Alike
    <2>3. ~tx'[s].overtaken => tx'[s].policy = policy' /\ Foreseen(tx'[s], key')
        BY <1>1, <2>1, <2>2 DEF InRoom, Alike, Foreseen, CreateSteps
    <2> QED BY <1>1, <2>1, <2>2, <2>3 DEF InRoom, Alike, CreateSteps
<1>7. ASSUME s = o, NoRoom(o)
      PROVE  InRoom(s)'
    <2>1. tx'[s] = NoTx
        BY <1>7 DEF NoRoom
    <2> QED BY <2>1, NoTxTyped DEF InRoom, CreateSteps
<1>8. ASSUME s = o, BeginApprove(o, u, number, n)
      PROVE  InRoom(s)'
    <2> DEFINE t == [NoTx EXCEPT !.step = "approve", !.user = u, !.limit = number,
                                 !.target = n, !.policy = policy]
    <2>1. t.step = "approve"
        BY DEF NoTx
    <2>2. tx' = [tx EXCEPT ![o] = t]
        BY <1>8 DEF BeginApprove
    <2> HIDE DEF t
    <2>3. tx'[s].step = "approve"
        BY <1>8, <2>1, <2>2
    <2> QED BY <2>3 DEF InRoom, CreateSteps
<1> QED
    BY <1>3, <1>4, <1>5, <1>6, <1>7, <1>8, RoomOfChosen

LEMMA RoomApproved ==
    ASSUME RoomInv, NEW o \in Sessions, CommitApprove(o), NEW s \in Sessions
    PROVE  InRoom(s)'
<1> DEFINE f == [tx EXCEPT ![o] = NoTx]
           u == tx[o].user
<1>1. /\ TypeOK /\ tx \in [Sessions -> Tx] /\ InRoom(s) /\ tx[o].step = "approve" /\ u \in Users
      /\ quota \in [Users -> Quota] /\ Locks
    BY DEF RoomInv, QuotaInv, TypeOK, SessionHolds, CommitApprove, Locks
<1>2. /\ tx' = Touch({u}, f) /\ UNCHANGED <<key, policy, node>>
      /\ \A v \in Users \ {u} : quota'[v] = quota[v]
    BY <1>1 DEF CommitApprove
<1>3. f \in [Sessions -> Tx] /\ f[o] = NoTx /\ \A t \in Sessions \ {o} : f[t] = tx[t]
    BY <1>1, NoTxTyped
<1> HIDE DEF f
<1>4. CASE s = o
    <2>1. tx'[s].step = "idle"
        <3>1. {u} \in SUBSET (Users \cup Nodes)
            BY <1>1
        <3>2. Same(f[s], Touch({u}, f)[s])
            BY <1>3, <3>1, TouchTyped
        <3> QED BY <1>2, <1>3, <1>4, <3>2, NoTxTyped DEF Same
    <2> QED BY <2>1 DEF InRoom, CreateSteps
<1>5. CASE s # o /\ tx[s].step \notin CreateSteps
    <2>1. tx'[s].step \notin CreateSteps
        BY <1>2, <1>3, <1>5 DEF Touch, Creating, CreateSteps
    <2> QED BY <2>1 DEF InRoom
<1>6. CASE s # o /\ tx[s].step \in CreateSteps
    <2>1. /\ Same(tx[s], tx'[s]) /\ Alike(tx[s], tx'[s]) /\ tx'[s].counted = tx[s].counted
          /\ tx'[s].touched = tx[s].touched \cup {u} /\ tx'[s].overtaken = tx[s].overtaken
        BY <1>1, <1>2, <1>3, <1>6, Touched
    <2>2. tx[s].step = "chosen" => tx[s].user # u
        BY <1>1, <1>6 DEF Locks, UserFree
    <2>3. tx[s].step = "chosen" => quota'[tx[s].user] = quota[tx[s].user]
        BY <1>1, <1>2, <2>2 DEF RoomInv, QuotaInv, SessionHolds
    <2> QED BY <1>1, <1>2, <2>1, <2>3, RoomKept
<1> QED
    BY <1>4, <1>5, <1>6

LEMMA RoomCommitted ==
    ASSUME RoomInv, NEW o \in Sessions, NEW k \in Keys, CommitCreate(o, k), NEW s \in Sessions
    PROVE  InRoom(s)'
<1>1. /\ TypeOK /\ tx \in [Sessions -> Tx] /\ InRoom(s) /\ InRoom(o) /\ tx[o].step = "chosen"
      /\ tx[o].step \in CreateSteps /\ key \in [Keys -> Row \cup {None}]
    BY DEF RoomInv, QuotaInv, TypeOK, CommitCreate, CreateSteps
<1>2. /\ UNCHANGED <<quota, policy, node>>
      /\ \A j \in Keys \ {k} : key'[j] = key[j]
      /\ key'[k].owner = Made(o).user /\ key'[k].node = Made(o).node
      /\ tx'[s] = IF s = o THEN NoTx
                  ELSE IF s \in Creating THEN [tx[s] EXCEPT !.missed = @ \cup {Made(o)}]
                  ELSE tx[s]
    BY <1>1 DEF CommitCreate, Made
<1>3. Made(o).node \in Made(o).counted
    BY <1>1 DEF InRoom, Made
<1> HIDE DEF Made
<1>4. CASE s = o
    BY <1>2, <1>4, NoTxTyped DEF InRoom, CreateSteps
<1>5. CASE s # o /\ tx[s].step \notin CreateSteps
    BY <1>2, <1>5 DEF InRoom, Creating, CreateSteps
<1>6. CASE s # o /\ tx[s].step \in CreateSteps
    <2>1. tx'[s] = [tx[s] EXCEPT !.missed = @ \cup {Made(o)}] /\ tx[s] \in Tx
        BY <1>1, <1>2, <1>6 DEF Creating, CreateSteps
    <2>2. /\ Alike(tx[s], tx'[s]) /\ tx'[s].touched = tx[s].touched /\ tx'[s].counted = tx[s].counted
          /\ tx'[s].missed = tx[s].missed \cup {Made(o)} /\ tx'[s].step = tx[s].step
          /\ tx'[s].overtaken = tx[s].overtaken /\ tx'[s].target = tx[s].target
        BY <2>1 DEF Tx, Alike
    <2>3. ~tx'[s].overtaken => tx'[s].policy = policy' /\ Foreseen(tx[s], key)
        BY <1>1, <1>2, <1>6, <2>2 DEF InRoom, Alike
    <2>4. Foreseen(tx[s], key) => Foreseen(tx'[s], key')
        BY <1>2, <2>2 DEF Foreseen, Alike
    <2>5. \A m \in tx'[s].missed : m.node \in m.counted
        BY <1>1, <1>3, <1>6, <2>2 DEF InRoom
    <2>6. tx'[s].step = "chosen" =>
             /\ tx'[s].target \in Candidates(s)' /\ tx'[s].target \in tx'[s].counted
             /\ tx'[s].nodes[tx'[s].target] = node'[tx'[s].target]
             /\ HasRoom(s, tx[s].target)'
        BY <1>1, <1>2, <1>6, <2>2 DEF InRoom, Alike, Candidates, HasRoom
    <2>7. \A n \in Nodes : n \notin tx'[s].touched => tx'[s].nodes[n] = node'[n]
        BY <1>1, <1>2, <1>6, <2>2 DEF InRoom, Alike
    <2> QED BY <2>3, <2>4, <2>5, <2>6, <2>7 DEF InRoom
<1> QED
    BY <1>4, <1>5, <1>6

LEMMA RoomNext == RoomInv /\ [Next]_vars => RoomInv'
<1> SUFFICES ASSUME RoomInv, [Next]_vars, NEW s \in Sessions PROVE InRoom(s)'
    BY NextStep DEF RoomInv
<1>1. CASE Changes
    <2>1. CASE tx[s].step \in CreateSteps
        BY <1>1, <2>1, RoomSettings, RoomKeys DEF Changes
    <2>2. CASE tx[s].step \notin CreateSteps
        <3>1. tx'[s].step = tx[s].step
            <4>1. TypeOK /\ tx \in [Sessions -> Tx]
                BY DEF RoomInv, QuotaInv, TypeOK
            <4>2. ASSUME NEW rows \in SUBSET (Users \cup Nodes), tx' = Touch(rows, tx)
                  PROVE  tx'[s].step = tx[s].step
                BY <4>1, <4>2, TouchTyped DEF Same
            <4>3. ASSUME tx' = Overtake({})
                  PROVE  tx'[s].step = tx[s].step
                BY <4>1, <4>3, OvertakeTyped DEF Same
            <4>4. \/ tx' = tx \/ tx' = Overtake({})
                  \/ \E rows \in SUBSET (Users \cup Nodes) : tx' = Touch(rows, tx)
                BY <1>1 DEF Changes, FailJob, RevokeKey, RotateFailed, CompleteToggle, EraseKey, SetLimit, UpdatePolicy, UpdateNode
            <4> QED BY <4>2, <4>3, <4>4
        <3> QED BY <2>2, <3>1 DEF InRoom
    <2> QED BY <2>1, <2>2
<1>2. ASSUME NEW o \in Sessions, Begins(o) \/ Steps(o)
      PROVE  InRoom(s)'
    <2>1. CASE Begins(o)
        BY <2>1, RoomCreation DEF Begins
    <2>2. CASE Steps(o)
        <3>1. CASE Retry(o) \/ LockUser(o) \/ NoRoom(o)
            BY <3>1, RoomCreation
        <3>2. CASE \E n \in Nodes, full \in SUBSET Nodes : ChooseNode(o, n, full)
            BY <3>2, RoomCreation
        <3> QED BY <2>2, <3>1, <3>2, RoomApproved, RoomCommitted DEF Steps
    <2> QED BY <1>2, <2>1, <2>2
<1>3. CASE UNCHANGED vars
    BY <1>3, RoomUnchanged DEF vars, RoomInv
<1> QED
    BY <1>1, <1>2, <1>3 DEF Next

LEMMA RoomInit == Init => RoomInv
BY InitHolds, NoTxTyped DEF Init, RoomInv, InRoom, CreateSteps

\* One key more is the most a creation adds to what its snapshot counted.
LEMMA OneMore ==
    ASSUME NEW T \in SUBSET Keys, NEW S \in SUBSET Keys, NEW k \in Keys, T \subseteq S \cup {k},
           NEW b \in Nat, Cardinality(S) < b
    PROVE  Cardinality(T) <= b
<1>1. IsFiniteSet(S) /\ IsFiniteSet(S \cup {k}) /\ IsFiniteSet(T)
    BY BoundsAssumption, FS_Subset
<1>2. Cardinality(T) <= Cardinality(S \cup {k})
    BY <1>1, FS_Subset
<1>3. Cardinality(S) \in Nat /\ Cardinality(S \cup {k}) \in Nat /\ Cardinality(T) \in Nat
    BY <1>1, FS_CardinalityType
<1>4. Cardinality(S \cup {k}) <= Cardinality(S) + 1
    BY <1>1, <1>3, FS_AddElement
<1> QED
    BY <1>2, <1>3, <1>4

LEMMA LimitTyped ==
    ASSUME NEW q \in Quota, NEW p \in Policy, NEW n \in Nodes
    PROVE  Limit(q, p, n) \in Nat
<1>1. /\ q.flat \in Limits \cup {None} /\ q.perNode \in [Nodes -> Limits \cup {None}]
      /\ p.default \in Limits
    BY DEF Quota, Policy
<1> QED
    BY <1>1, LimitsAssumption DEF Limit, Pool

\* Only the creation itself ends it with a row written.
LEMMA CreatesIsCommit ==
    ASSUME RoomInv, [Next]_vars, NEW s \in Sessions, Creates(s)
    PROVE  \E k \in Keys : CommitCreate(s, k)
<1>1. TypeOK /\ tx \in [Sessions -> Tx] /\ key' # key /\ tx[s].step = "chosen" /\ tx'[s].step = "idle"
    BY DEF RoomInv, QuotaInv, TypeOK, Creates
<1>2. ASSUME NEW o \in Sessions, NEW k \in Keys, CommitCreate(o, k), o # s
      PROVE  FALSE
    <2>1. tx'[s] = IF s \in Creating THEN [tx[s] EXCEPT !.missed = @ \cup {Made(o)}] ELSE tx[s]
        BY <1>2 DEF CommitCreate
    <2>2. tx'[s].step = tx[s].step
        BY <1>1, <2>1 DEF Tx
    <2> QED BY <1>1, <2>2
<1>3. ASSUME NEW k \in Keys, FailJob(k) \/ RevokeKey(k) \/ RotateFailed(k) \/ CompleteToggle(k) \/ EraseKey(k)
      PROVE  FALSE
    <2>1. tx' = tx \/ tx' = Overtake({})
        BY <1>3 DEF FailJob, RevokeKey, RotateFailed, CompleteToggle, EraseKey
    <2> QED BY <1>1, <2>1, OvertakeTyped DEF Same
<1>4. Next
    BY <1>1 DEF vars
<1>5. \E o \in Sessions, k \in Keys : CommitCreate(o, k)
    <2>1. CASE Changes
        BY <1>1, <1>3, <2>1 DEF Changes, SetLimit, UpdatePolicy, UpdateNode
    <2>2. ASSUME NEW o \in Sessions, Begins(o)
          PROVE  FALSE
        BY <1>1, <2>2, OwnStep DEF Begins
    <2>3. ASSUME NEW o \in Sessions, Steps(o)
          PROVE  \E k \in Keys : CommitCreate(o, k)
        <3>1. ~CommitApprove(o)
            BY <1>1 DEF CommitApprove
        <3> QED BY <1>1, <2>3, <3>1, OwnStep DEF Steps
    <2> QED BY <1>4, <2>1, <2>2, <2>3 DEF Next
<1> QED
    BY <1>2, <1>5

\* A creation that commits missed none that matters to what it counted.
LEMMA Committed ==
    ASSUME RoomInv, NEW s \in Sessions, NEW k \in Keys, CommitCreate(s, k), ~tx[s].overtaken
    PROVE  LET u == tx[s].user  q == quota[u]  n == tx[s].target
           IN  /\ Cardinality(Used(q, policy, n, key', u)) <= Limit(q, policy, n)
               /\ Cardinality(OnNode(key', n)) <= node[n].maxPeers
<1> DEFINE u == tx[s].user
           n == tx[s].target
           q == quota[u]
<1>1. /\ TypeOK /\ tx[s] \in Tx /\ tx[s].step = "chosen" /\ u \in Users /\ n \in Nodes
      /\ tx[s].keys \in [Keys -> Row \cup {None}] /\ key \in [Keys -> Row \cup {None}]
      /\ q \in Quota /\ policy \in Policy /\ node[n] \in Node /\ Serializable(s)
    BY DEF RoomInv, QuotaInv, TypeOK, SessionHolds, CommitCreate, Tx
<1>2. /\ \A m \in tx[s].missed : m.node \in m.counted
      /\ tx[s].policy = policy /\ Foreseen(tx[s], key)
      /\ n \in tx[s].counted /\ tx[s].nodes[n] = node[n] /\ HasRoom(s, n)
    BY <1>1 DEF RoomInv, InRoom, CreateSteps
<1>3. /\ \A j \in Keys \ {k} : key'[j] = key[j]
    BY <1>1 DEF CommitCreate
<1>4. \A m \in tx[s].missed : m.user # u
    BY <1>1 DEF Serializable, Read, Made
<1>5. ASSUME NEW j \in Keys \ {k}, IsCounted(key'[j]), key'[j].owner = u
      PROVE  IsCounted(tx[s].keys[j]) /\ tx[s].keys[j].owner = u /\ tx[s].keys[j].node = key'[j].node
    BY <1>2, <1>3, <1>4, <1>5 DEF Foreseen
<1>6. \A m \in tx[s].missed : m.node # n
    BY <1>1, <1>2 DEF Serializable, Read, Made
<1>7. ASSUME NEW j \in Keys \ {k}, IsCounted(key'[j]), key'[j].node = n
      PROVE  IsCounted(tx[s].keys[j]) /\ tx[s].keys[j].node = n
    BY <1>2, <1>3, <1>6, <1>7 DEF Foreseen
<1>8. Cardinality(Used(q, policy, n, key', u)) <= Limit(q, policy, n)
    <2> DEFINE new == Used(q, policy, n, key', u)
               old == Used(q, policy, n, tx[s].keys, u)
    <2>1. new \in SUBSET Keys /\ old \in SUBSET Keys
        BY DEF Used, OfUser, OnNode, Rows
    <2>2. new \subseteq old \cup {k}
        BY <1>5 DEF Used, OfUser, OnNode, Rows, IsCounted
    <2>3. Cardinality(old) < Limit(q, policy, n)
        BY <1>2 DEF HasRoom
    <2>4. Limit(q, policy, n) \in Nat
        BY <1>1, LimitTyped
    <2> HIDE DEF new, old
    <2>5. Cardinality(new) <= Limit(q, policy, n)
        BY <2>1, <2>2, <2>3, <2>4, OneMore
    <2> QED BY <2>5 DEF new
<1>9. Cardinality(OnNode(key', n)) <= node[n].maxPeers
    <2> DEFINE new == OnNode(key', n)
               old == OnNode(tx[s].keys, n)
    <2>1. new \in SUBSET Keys /\ old \in SUBSET Keys
        BY DEF OnNode, Rows
    <2>2. new \subseteq old \cup {k}
        BY <1>7 DEF OnNode, Rows, IsCounted
    <2>3. Cardinality(old) < node[n].maxPeers
        BY <1>2 DEF HasRoom
    <2>4. node[n].maxPeers \in Nat
        BY <1>1, LimitsAssumption DEF Node
    <2> HIDE DEF new, old
    <2>5. Cardinality(new) <= node[n].maxPeers
        BY <2>1, <2>2, <2>3, <2>4, OneMore
    <2> QED BY <2>5 DEF new
<1> QED
    BY <1>8, <1>9

-----------------------------------------------------------------------------
\* A new key leaves its account within its limit and its node within its
\* capacity, however many accounts, servers and requests there are.
THEOREM RoomIsKept == Spec => RoomHolds
<1>1. Init => RoomInv
    BY RoomInit
<1>2. RoomInv /\ [Next]_vars => RoomInv'
    BY RoomNext
<1>3. RoomInv /\ [Next]_vars =>
         [\A s \in Sessions : Creates(s) /\ ~tx[s].overtaken =>
             LET u == tx[s].user  q == quota[u]  n == tx[s].target
             IN  /\ Cardinality(Used(q, policy, n, key', u)) <= Limit(q, policy, n)
                 /\ Cardinality(OnNode(key', n)) <= node[n].maxPeers]_vars
    BY CreatesIsCommit, Committed
<1> QED
    BY <1>1, <1>2, <1>3, PTL DEF Spec, RoomHolds
=============================================================================
