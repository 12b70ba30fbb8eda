--------------------------- MODULE AccountsProofs ---------------------------
(***************************************************************************)
(* For any addresses, sessions and bounds: the types, that requests leave  *)
(* an administrator, and that an account that is erased was due.           *)
(***************************************************************************)
EXTENDS Accounts, FiniteSetTheorems, TLAPS

\* What a guarded request has locked are active administrators, and the one
\* that may write has one besides its target, if any is left to lock.
Guards ==
    \A s \in Sessions :
        /\ tx[s].step \in {"lock", "write"} => \A u \in tx[s].locked : IsActiveAdmin(u)
        /\ tx[s].step = "write" /\ tx[s].locked # {} =>
               \E a \in tx[s].locked : a # tx[s].target

Inv == TypeOK /\ Guards

\* Rows of their type that agree on disabledAt.
Rows == {r \in Account : r.status # "disabled" => r.disabledAt = "unset"}

LEMMA NoAccountIsRow == NoAccount \in Rows
BY DEF NoAccount, Rows, Account

LEMMA IdleIsTx == Idle \in Tx /\ Idle.locked = {} /\ Idle.step = "none"
BY DEF Idle, Tx

\* A commit takes from a transaction beside it neither its course nor its locks.
LEMMA BesideKeeps ==
    ASSUME NEW t \in Tx, NEW gone, NEW anew
    PROVE  /\ Beside(t, gone, anew) \in Tx
           /\ Beside(t, gone, anew).op = t.op
           /\ Beside(t, gone, anew).step = t.step
           /\ Beside(t, gone, anew).locked = t.locked
           /\ Beside(t, gone, anew).todo = t.todo \ gone
           /\ Beside(t, gone, anew).slipped = t.slipped \cup (t.todo \cap anew)
           /\ Beside(t, gone, anew).target \in {t.target, None}
BY DEF Beside, Tx

\* What steps of others leave of transaction s.
Stays(s) ==
    /\ tx'[s] \in Tx
    /\ tx'[s].step = tx[s].step
    /\ tx'[s].locked = tx[s].locked
    /\ tx'[s].target \in {tx[s].target, None}

\* The typing of accounts, row by row.
LEMMA TypeByRows ==
    TypeOK <=> /\ account \in [Users -> Rows]
               /\ tx \in [Sessions -> Tx]
               /\ changes \in 0 .. MaxChanges
               /\ \A s, t \in Sessions : s # t => tx[s].locked \cap tx[t].locked = {}
<1>1. ASSUME account \in [Users -> Account],
             \A u \in Users : account[u].status # "disabled" => account[u].disabledAt = "unset"
      PROVE account \in [Users -> Rows]
    BY <1>1 DEF Rows
<1>2. ASSUME account \in [Users -> Rows]
      PROVE /\ account \in [Users -> Account]
            /\ \A u \in Users : account[u].status # "disabled" => account[u].disabledAt = "unset"
    BY <1>2 DEF Rows
<1> QED
    BY <1>1, <1>2 DEF TypeOK

-----------------------------------------------------------------------------
(* What each kind of step has to show *)

\* A transaction that stays as it is keeps its guard while its rows do.
LEMMA GuardStays ==
    ASSUME Inv, NEW s \in Sessions, Stays(s),
           \A u \in tx[s].locked : IsActiveAdmin(u) => IsActiveAdmin(u)'
    PROVE  /\ tx'[s].step \in {"lock", "write"} => \A u \in tx'[s].locked : IsActiveAdmin(u)'
           /\ tx'[s].step = "write" /\ tx'[s].locked # {} =>
                  \E a \in tx'[s].locked : a # tx'[s].target
<1>1. tx[s].locked \subseteq Users
    BY DEF Inv, TypeOK, Tx
<1> QED
    BY <1>1, SessionsAssumption DEF Inv, Guards, Stays

\* A step on one row takes no administrator from a transaction that holds it.
LEMMA RowStep ==
    ASSUME Inv, NEW u \in Users, NEW r \in Rows,
           account' = [account EXCEPT ![u] = r], changes' \in 0 .. MaxChanges,
           tx' \in [Sessions -> Tx], \A s \in Sessions : Stays(s),
           IsActiveAdmin(u) /\ ~Writable(u) => r.status = "active" /\ r.role = "admin"
    PROVE  Inv'
<1>1. account' \in [Users -> Rows]
    BY TypeByRows DEF Inv
<1>2. TypeOK'
    BY <1>1, TypeByRows DEF Rows, TypeOK, Inv, Stays
<1>3. ASSUME NEW s \in Sessions, NEW v \in tx[s].locked, IsActiveAdmin(v)
      PROVE  IsActiveAdmin(v)'
    <2>1. v \in Users
        BY DEF Inv, TypeOK, Tx
    <2>2. CASE v = u
        BY <1>3, <2>1, <2>2, TypeByRows DEF Inv, Writable, LockedBy, IsActiveAdmin
    <2>3. CASE v # u
        BY <1>3, <2>1, <2>3, TypeByRows DEF Inv, IsActiveAdmin
    <2> QED BY <2>2, <2>3
<1>4. Guards'
    BY <1>3, GuardStays DEF Guards
<1> QED
    BY <1>2, <1>4 DEF Inv

\* A step that leaves transactions alone, and one of the commits beside them.
LEMMA AllStay ==
    ASSUME Inv, UNCHANGED tx \/ \E gone, anew : tx' = [s \in Sessions |-> Beside(tx[s], gone, anew)]
    PROVE  tx' \in [Sessions -> Tx] /\ \A s \in Sessions : Stays(s)
<1>0. tx \in [Sessions -> Tx]
    BY DEF Inv, TypeOK
<1>1. CASE UNCHANGED tx
    BY <1>0, <1>1 DEF Stays
<1>2. ASSUME NEW gone, NEW anew, tx' = [s \in Sessions |-> Beside(tx[s], gone, anew)]
      PROVE  tx' \in [Sessions -> Tx] /\ \A s \in Sessions : Stays(s)
    BY <1>0, <1>2, BesideKeeps DEF Stays
<1> QED
    BY <1>1, <1>2

\* A step of one transaction that changes no row.
LEMMA TxStep ==
    ASSUME Inv, NEW s \in Sessions, NEW t \in Tx,
           tx' = [tx EXCEPT ![s] = t], UNCHANGED account, changes' \in 0 .. MaxChanges,
           \A q \in Sessions \ {s} : t.locked \cap tx[q].locked = {},
           t.step \in {"lock", "write"} => \A u \in t.locked : IsActiveAdmin(u),
           t.step = "write" /\ t.locked # {} => \E a \in t.locked : a # t.target
    PROVE  Inv'
<1>1. tx' \in [Sessions -> Tx] /\ tx'[s] = t /\ \A q \in Sessions \ {s} : tx'[q] = tx[q]
    BY DEF Inv, TypeOK
<1>2. \A p, q \in Sessions : p # q => tx'[p].locked \cap tx'[q].locked = {}
    BY <1>1 DEF Inv, TypeOK
<1>3. TypeOK'
    BY <1>1, <1>2 DEF Inv, TypeOK
<1>4. Guards'
    BY <1>1 DEF Inv, Guards, IsActiveAdmin
<1> QED
    BY <1>3, <1>4 DEF Inv

\* The end of a transaction that leaves alone what others have locked.
LEMMA EndStep ==
    ASSUME Inv, NEW s \in Sessions, account' \in [Users -> Rows], UNCHANGED changes,
           tx' \in [Sessions -> Tx], tx'[s] = Idle, \A t \in Sessions \ {s} : Stays(t),
           \A t \in Sessions \ {s} : \A u \in tx[t].locked : account'[u] = account[u]
    PROVE  Inv'
<1>2. \A p, q \in Sessions : p # q => tx'[p].locked \cap tx'[q].locked = {}
    BY IdleIsTx DEF Inv, TypeOK, Stays
<1>3. TypeOK'
    BY <1>2, TypeByRows DEF Rows, Inv, TypeOK
<1>4. Guards'
    BY IdleIsTx, GuardStays DEF Guards, IsActiveAdmin
<1> QED
    BY <1>3, <1>4 DEF Inv

\* One that ends and changes no row.
LEMMA EndAlone ==
    ASSUME Inv, NEW s \in Sessions, End(s), UNCHANGED <<account, changes>>
    PROVE  Inv'
<1>1. tx' \in [Sessions -> Tx] /\ tx'[s] = Idle /\ \A t \in Sessions \ {s} : Stays(t)
    BY IdleIsTx DEF Inv, TypeOK, End, Stays
<1>2. account' \in [Users -> Rows]
    BY TypeByRows DEF Inv
<1> QED
    BY <1>1, <1>2, EndStep

-----------------------------------------------------------------------------
(* The steps *)

LEMMA InitHolds == Init => Inv
<1> SUFFICES ASSUME Init PROVE Inv
    OBVIOUS
<1>0. /\ NoAccount \in Rows
      /\ [NoAccount EXCEPT !.status = "active"] \in Rows
      /\ [NoAccount EXCEPT !.status = "active", !.role = "admin"] \in Rows
      /\ [NoAccount EXCEPT !.status = "disabled", !.disabledAt = "old"] \in Rows
    BY DEF NoAccount, Rows, Account
<1>1. account \in [Users -> Rows]
    BY <1>0 DEF Init
<1>2. TypeOK
    BY <1>1, IdleIsTx, TypeByRows, BoundsAssumption DEF Init
<1>3. Guards
    BY IdleIsTx DEF Guards, Init
<1> QED
    BY <1>2, <1>3 DEF Inv

LEMMA AloneKeeps ==
    ASSUME Inv, NEW u \in Users, Alone(u)
    PROVE  Inv'
<1>0. account \in [Users -> Rows] /\ changes \in 0 .. MaxChanges /\ MaxChanges \in Nat
    BY TypeByRows, BoundsAssumption DEF Inv
<1>1. ASSUME NEW role \in {"user", "admin"}, CreateUser(u, role) PROVE Inv'
    <2>1. [NoAccount EXCEPT !.status = "active", !.role = role] \in Rows
        BY <1>1 DEF NoAccount, Rows, Account
    <2>2. ~IsActiveAdmin(u)
        BY <1>1 DEF CreateUser, Exists, IsActiveAdmin
    <2>3. UNCHANGED tx /\ changes' \in 0 .. MaxChanges
          /\ account' = [account EXCEPT ![u] = [NoAccount EXCEPT !.status = "active", !.role = role]]
        BY <1>0, <1>1 DEF CreateUser, Change
    <2> QED
        BY <2>1, <2>2, <2>3, AllStay, RowStep
<1>2. ASSUME SignIn(u) \/ Promote(u) PROVE Inv'
    <2>1. [account[u] EXCEPT !.role = "admin"] \in Rows
        BY <1>0 DEF Rows, Account
    <2>2. account' = [account EXCEPT ![u] = [account[u] EXCEPT !.role = "admin"]]
        BY <1>0, <1>2 DEF SignIn, Promote
    <2>3. Writable(u) /\ UNCHANGED tx /\ changes' \in 0 .. MaxChanges
        BY <1>0, <1>2 DEF SignIn, Promote, Change
    <2> QED
        BY <2>1, <2>2, <2>3, AllStay, RowStep
<1>3. ASSUME Reinstate(u) PROVE Inv'
    <2>1. [account[u] EXCEPT !.status = "active", !.disabledAt = "unset"] \in Rows
        BY <1>0 DEF Rows, Account
    <2>2. account' = [account EXCEPT ![u] = [account[u] EXCEPT !.status = "active",
                                                               !.disabledAt = "unset"]]
        BY <1>0, <1>3 DEF Reinstate
    <2>3. Writable(u) /\ changes' \in 0 .. MaxChanges
          /\ tx' = [s \in Sessions |-> Beside(tx[s], {}, {u})]
        BY <1>0, <1>3 DEF Reinstate, Change
    <2> QED
        BY <2>1, <2>2, <2>3, AllStay, RowStep
<1>4. ASSUME DeleteUser(u) PROVE Inv'
    <2>1. Writable(u) /\ changes' \in 0 .. MaxChanges
          /\ tx' = [s \in Sessions |-> Beside(tx[s], {u}, {})]
          /\ account' = [account EXCEPT ![u] = NoAccount]
        BY <1>0, <1>4 DEF DeleteUser, Change
    <2> QED
        BY <2>1, NoAccountIsRow, AllStay, RowStep
<1>5. ASSUME KeysChange(u) PROVE Inv'
    <2>1. \A b \in BOOLEAN : [account[u] EXCEPT !.live = b] \in Rows
        BY <1>0 DEF Rows, Account
    <2>2. PICK b \in BOOLEAN : account' = [account EXCEPT ![u] = [account[u] EXCEPT !.live = b]]
        BY <1>0, <1>5 DEF KeysChange
    <2>3. /\ [account[u] EXCEPT !.live = b].status = account[u].status
          /\ [account[u] EXCEPT !.live = b].role = account[u].role
        BY <1>0 DEF Rows, Account
    <2>4. UNCHANGED <<tx, changes>>
        BY <1>5 DEF KeysChange
    <2> QED
        BY <1>0, <2>1, <2>2, <2>3, <2>4, AllStay, RowStep DEF IsActiveAdmin
<1>6. ASSUME RetentionPasses(u) PROVE Inv'
    <2>1. account[u].status = "disabled"
        BY <1>0, <1>6 DEF RetentionPasses, Rows, Account
    <2>2. [account[u] EXCEPT !.disabledAt = "old"] \in Rows
        BY <1>0, <2>1 DEF Rows, Account
    <2>3. account' = [account EXCEPT ![u] = [account[u] EXCEPT !.disabledAt = "old"]]
        BY <1>0, <1>6 DEF RetentionPasses
    <2>4. UNCHANGED <<tx, changes>>
        BY <1>6 DEF RetentionPasses
    <2> QED
        BY <1>0, <2>1, <2>2, <2>3, <2>4, AllStay, RowStep DEF IsActiveAdmin
<1> QED
    BY <1>1, <1>2, <1>3, <1>4, <1>5, <1>6 DEF Alone

LEMMA StartsKeep ==
    ASSUME Inv, Starts
    PROVE  Inv'
<1>0. changes \in 0 .. MaxChanges /\ MaxChanges \in Nat
    BY BoundsAssumption DEF Inv, TypeOK
<1>1. ASSUME NEW s \in Requests, NEW u \in Users, NEW op \in {"offboard", "demote"},
             Guarded(s, op, u)
      PROVE  Inv'
    <2> DEFINE t == [Idle EXCEPT !.op = op, !.step = "lock", !.todo = ActiveAdmins,
                                 !.target = IF Exists(u) THEN u ELSE None]
    <2>1. t \in Tx /\ t.locked = {} /\ t.step = "lock"
        BY <1>1 DEF Tx, ActiveAdmins, Idle
    <2>2. s \in Sessions /\ tx' = [tx EXCEPT ![s] = t] /\ UNCHANGED account
          /\ changes' \in 0 .. MaxChanges
        BY <1>0, <1>1 DEF Guarded, Change, Sessions
    <2> HIDE DEF t
    <2> QED
        BY <2>1, <2>2, TxStep
<1>2. ASSUME NEW s \in Sessions, NEW op \in {"purge", "sweep"}, Find(s, op)
      PROVE  Inv'
    <2> DEFINE t == [Idle EXCEPT !.op = op, !.step = "each", !.todo = {u \in Users : Eligible(u)}]
    <2>1. t \in Tx /\ t.locked = {} /\ t.step = "each"
        BY <1>2 DEF Tx, Idle
    <2>2. tx' = [tx EXCEPT ![s] = t] /\ UNCHANGED account /\ changes' \in 0 .. MaxChanges
        BY <1>0, <1>2 DEF Find, Change
    <2> HIDE DEF t
    <2> QED
        BY <2>1, <2>2, TxStep
<1>3. ASSUME NEW s \in Workers, NEW w \in Users, FindRemoved(s, {w})
      PROVE  Inv'
    <2> DEFINE t == [Idle EXCEPT !.op = "remove", !.step = "each",
                                 !.todo = {u \in {w} : account[u].status = "active"
                                                       /\ account[u].role # "admin"}]
    <2>1. t \in Tx /\ t.locked = {} /\ t.step = "each"
        BY <1>3 DEF Tx, Idle
    <2>2. s \in Sessions /\ tx' = [tx EXCEPT ![s] = t] /\ UNCHANGED account
          /\ changes' \in 0 .. MaxChanges
        BY <1>0, <1>3 DEF FindRemoved, Change, Sessions
    <2> HIDE DEF t
    <2> QED
        BY <2>1, <2>2, TxStep
<1> QED
    BY <1>1, <1>2, <1>3 DEF Starts, Sessions

\* The owner of a lock is the only one that has it.
LEMMA Holder ==
    ASSUME Inv, NEW s \in Sessions, NEW u \in tx[s].locked, NEW t \in Sessions \ {s}
    PROVE  u \notin tx[t].locked
BY DEF Inv, TypeOK

\* Two rows or more: one of them is not the target.
LEMMA OneBesides ==
    ASSUME NEW S, NEW x, ~(Cardinality(S) <= 1), S # {}
    PROVE  \E a \in S : a # x
<1> SUFFICES ASSUME \A a \in S : a = x
             PROVE  FALSE
    OBVIOUS
<1>1. S = {x}
    OBVIOUS
<1>2. Cardinality({x}) = 1
    BY FS_Singleton
<1> QED
    BY <1>1, <1>2

LEMMA RunsKeep ==
    ASSUME Inv, NEW s \in Sessions, Runs(s)
    PROVE  Inv'
<1>0. /\ account \in [Users -> Rows] /\ changes \in 0 .. MaxChanges
      /\ tx[s] \in Tx /\ tx \in [Sessions -> Tx]
    BY TypeByRows DEF Inv
<1>1. ASSUME LockNext(s) PROVE Inv'
    <2>1. PICK u \in tx[s].todo :
             /\ Unlocked(s, u)
             /\ tx' = [tx EXCEPT ![s].todo = @ \ {u},
                                 ![s].locked = IF IsActiveAdmin(u) THEN @ \cup {u} ELSE @]
        BY <1>1 DEF LockNext
    <2> DEFINE t == [tx[s] EXCEPT !.todo = @ \ {u},
                                  !.locked = IF IsActiveAdmin(u) THEN @ \cup {u} ELSE @]
    <2>2. t \in Tx /\ tx' = [tx EXCEPT ![s] = t] /\ t.step = "lock"
          /\ t.locked = IF IsActiveAdmin(u) THEN tx[s].locked \cup {u} ELSE tx[s].locked
        BY <1>0, <1>1, <2>1 DEF Tx, LockNext
    <2>3. \A q \in Sessions \ {s} : t.locked \cap tx[q].locked = {}
        BY <2>1, <2>2 DEF Inv, TypeOK, Unlocked, LockedBy
    <2>4. \A v \in t.locked : IsActiveAdmin(v)
        BY <1>1, <2>2 DEF Inv, Guards, LockNext
    <2>5. UNCHANGED <<account, changes>>
        BY <1>1 DEF LockNext
    <2> HIDE DEF t
    <2> QED
        BY <1>0, <2>2, <2>3, <2>4, <2>5, TxStep
<1>2. ASSUME Look(s) PROVE Inv'
    <2>1. CASE End(s)
        BY <1>2, <2>1, EndAlone DEF Look
    <2>2. CASE ~LastAdmin(s) /\ tx' = [tx EXCEPT ![s].step = "write"]
        <3> DEFINE t == [tx[s] EXCEPT !.step = "write"]
        <3>1. t \in Tx /\ tx' = [tx EXCEPT ![s] = t] /\ t.step = "write"
              /\ t.locked = tx[s].locked /\ t.target = tx[s].target
            BY <1>0, <2>2 DEF Tx
        <3>2. \A v \in t.locked : IsActiveAdmin(v)
            BY <1>2, <3>1 DEF Inv, Guards, Look
        <3>3. t.locked # {} => \E a \in t.locked : a # t.target
            <4>1. CASE t.target \in t.locked
                <5>1. account[tx[s].target].role = "admin" /\ account[tx[s].target].status = "active"
                    BY <3>1, <3>2, <4>1 DEF IsActiveAdmin
                <5>2. ~(Cardinality(tx[s].locked) <= 1)
                    BY <2>2, <5>1 DEF LastAdmin
                <5> QED
                    BY <3>1, <5>2, OneBesides
            <4>2. CASE t.target \notin t.locked
                BY <4>2
            <4> QED BY <4>1, <4>2
        <3>4. \A q \in Sessions \ {s} : t.locked \cap tx[q].locked = {}
            BY <3>1 DEF Inv, TypeOK
        <3>5. UNCHANGED <<account, changes>>
            BY <1>2 DEF Look
        <3> HIDE DEF t
        <3> QED
            BY <1>0, <3>1, <3>2, <3>3, <3>4, <3>5, TxStep
    <2> QED
        BY <1>2, <2>1, <2>2 DEF Look
<1>3. ASSUME Commit(s) PROVE Inv'
    <2> DEFINE u == tx[s].target
    <2>1. account' \in [Users -> Rows]
        <3>1. CASE u \in Users
            <4>1. Disabled(account[u]) \in Rows /\ [account[u] EXCEPT !.role = "user"] \in Rows
                BY <1>0, <3>1 DEF Disabled, Rows, Account
            <4> QED
                BY <1>0, <1>3, <4>1 DEF Commit
        <3>2. CASE u \notin Users
            BY <1>0, <1>3, <3>2 DEF Commit
        <3> QED BY <3>1, <3>2
    <2>2. ASSUME NEW v, v # u PROVE account'[v] = account[v]
        BY <1>0, <1>3, <2>2 DEF Commit
    <2>3. \A t \in Sessions \ {s} : \A v \in tx[t].locked : account'[v] = account[v]
        BY <1>3, <2>2 DEF Commit, Unlocked, LockedBy
    <2>4. tx' \in [Sessions -> Tx] /\ tx'[s] = Idle /\ \A t \in Sessions \ {s} : Stays(t)
        BY <1>0, <1>3, IdleIsTx, BesideKeeps DEF Commit, Stays
    <2> QED
        BY <1>3, <2>1, <2>3, <2>4, EndStep DEF Commit
<1>4. ASSUME ChangeNext(s) PROVE Inv'
    <2>1. PICK u \in tx[s].todo :
             /\ Unlocked(s, u)
             /\ tx' = [tx EXCEPT ![s].todo = @ \ {u}, ![s].locked = @ \cup {u}]
        BY <1>4 DEF ChangeNext
    <2> DEFINE t == [tx[s] EXCEPT !.todo = @ \ {u}, !.locked = @ \cup {u}]
    <2>2. t \in Tx /\ tx' = [tx EXCEPT ![s] = t] /\ t.step = "each"
          /\ t.locked = tx[s].locked \cup {u}
        BY <1>0, <1>4, <2>1 DEF Tx, ChangeNext
    <2>3. \A q \in Sessions \ {s} : t.locked \cap tx[q].locked = {}
        BY <2>1, <2>2 DEF Inv, TypeOK, Unlocked, LockedBy
    <2>4. UNCHANGED <<account, changes>>
        BY <1>4 DEF ChangeNext
    <2> HIDE DEF t
    <2> QED
        BY <1>0, <2>2, <2>3, <2>4, TxStep
<1>5. ASSUME CommitAll(s) PROVE Inv'
    <2>1. account' \in [Users -> Rows]
        BY <1>0, <1>5, NoAccountIsRow DEF CommitAll, Erased, Disabled, Rows, Account
    <2>2. ASSUME NEW t \in Sessions \ {s}, NEW v \in tx[t].locked
          PROVE  account'[v] = account[v]
        <3>1. v \in Users /\ v \notin tx[s].locked
            BY <1>0, Holder DEF Tx, Inv, TypeOK
        <3> QED
            BY <1>5, <3>1 DEF CommitAll
    <2>3. tx' \in [Sessions -> Tx] /\ tx'[s] = Idle /\ \A t \in Sessions \ {s} : Stays(t)
        BY <1>0, <1>5, IdleIsTx, BesideKeeps DEF CommitAll, Stays
    <2> QED
        BY <1>5, <2>1, <2>2, <2>3, EndStep DEF CommitAll
<1>6. ASSUME RollBack(s) PROVE Inv'
    BY <1>6, EndAlone DEF RollBack
<1> QED
    BY <1>1, <1>2, <1>3, <1>4, <1>5, <1>6 DEF Runs

LEMMA StepKeeps == Inv /\ [Next]_vars => Inv'
<1> SUFFICES ASSUME Inv, [Next]_vars PROVE Inv'
    OBVIOUS
<1>1. CASE UNCHANGED vars
    BY <1>1 DEF vars, Inv, TypeOK, Guards, IsActiveAdmin
<1>2. CASE Next
    BY <1>2, AloneKeeps, StartsKeep, RunsKeep DEF Next
<1> QED
    BY <1>1, <1>2

LEMMA Always == Spec => []Inv
BY InitHolds, StepKeeps, PTL DEF Spec

-----------------------------------------------------------------------------
(* The theorems *)

\* Rows, transactions and dates keep their types, and a row has one holder,
\* whatever the addresses, the sessions and their number.
THEOREM TypeCorrect == Spec => []TypeOK
<1>1. Inv => TypeOK
    BY DEF Inv
<1> QED
    BY <1>1, Always, PTL

\* What a step has to be to leave no administrator.
LEMMA LastOneGoes ==
    ASSUME Inv, Next, ActiveAdmins # {}, ActiveAdmins' = {}
    PROVE  \E s \in Sessions : CommitAll(s) \/ (Commit(s) /\ tx[s].locked = {})
<1>0. account \in [Users -> Rows] /\ tx \in [Sessions -> Tx]
    BY TypeByRows DEF Inv
<1>1. PICK a \in Users : IsActiveAdmin(a)
    BY DEF ActiveAdmins
<1>2. \A u \in Users : ~IsActiveAdmin(u)'
    BY DEF ActiveAdmins
<1>3. ASSUME NEW u \in Users, Alone(u) PROVE FALSE
    <2>1. CASE u # a
        <3>1. account'[a] = account[a]
            BY <1>0, <1>3, <2>1 DEF Alone, CreateUser, SignIn, Promote, Reinstate, DeleteUser,
                                    KeysChange, RetentionPasses
        <3> QED
            BY <1>1, <1>2, <3>1 DEF IsActiveAdmin
    <2>2. CASE u = a
        <3>1. account[u].status = "active" /\ account[u].role = "admin"
              /\ account[u].disabledAt = "unset" /\ account[u] \in Account
            BY <1>0, <1>1, <2>2 DEF IsActiveAdmin, Rows
        <3>2. KeysChange(u)
            BY <1>3, <3>1 DEF Alone, CreateUser, Exists, SignIn, Promote, Reinstate, DeleteUser,
                              RetentionPasses
        <3>3. account'[u].status = account[u].status /\ account'[u].role = account[u].role
            BY <1>0, <3>1, <3>2 DEF KeysChange, Account
        <3> QED
            BY <1>2, <3>1, <3>3 DEF IsActiveAdmin
    <2> QED BY <2>1, <2>2
<1>4. ASSUME UNCHANGED account PROVE FALSE
    BY <1>1, <1>2, <1>4 DEF IsActiveAdmin
<1>5. ASSUME Starts PROVE FALSE
    BY <1>4, <1>5 DEF Starts, Guarded, Find, FindRemoved
<1>6. ASSUME NEW s \in Sessions, Commit(s), tx[s].locked # {} PROVE FALSE
    <2>1. PICK v \in tx[s].locked : v # tx[s].target
        BY <1>6 DEF Inv, Guards, Commit
    <2>2. v \in Users /\ IsActiveAdmin(v)
        BY <1>0, <1>6, <2>1 DEF Inv, Guards, Commit, Tx
    <2>3. account'[v] = account[v]
        BY <1>0, <1>6, <2>1 DEF Commit
    <2> QED
        BY <1>2, <2>2, <2>3 DEF IsActiveAdmin
<1>7. ASSUME NEW s \in Sessions, LockNext(s) \/ Look(s) \/ ChangeNext(s) \/ RollBack(s) PROVE FALSE
    BY <1>4, <1>7 DEF LockNext, Look, ChangeNext, RollBack
<1>8. PICK s \in Sessions : Runs(s)
    BY <1>3, <1>5 DEF Next
<1> QED
    BY <1>6, <1>7, <1>8 DEF Runs

\* However requests, sign-ins and passes interleave, the panel is left without
\* an administrator only as LastAdminStays names it.
THEOREM AnAdministratorStays == Spec => LastAdminStays
<1> DEFINE Excused == \E s \in Sessions : CommitAll(s) \/ (Commit(s) /\ tx[s].locked = {})
<1>1. Inv /\ [Next]_vars => [ActiveAdmins # {} /\ ActiveAdmins' = {} => Excused]_vars
    BY LastOneGoes
<1> QED
    BY <1>1, Always, PTL DEF LastAdminStays, Spec

-----------------------------------------------------------------------------
(* Who is erased *)

\* What a pass that erases has still to take was due when it read it, and is so
\* unless it slipped away; what it has taken can get no key.
DueOf(s) ==
    tx[s].step = "each" /\ tx[s].op # "remove" =>
        /\ \A u \in tx[s].todo \cup tx[s].locked :
               u \in tx[s].slipped \/ (account[u].status = "disabled" /\ account[u].disabledAt = "old")
        /\ \A u \in tx[s].locked : ~account[u].live

Due == \A s \in Sessions : DueOf(s)

\* A pass beside a commit: what changed was not taken yet, and is gone, slipped
\* or as due as before.
LEMMA DueBeside ==
    ASSUME Inv, Due, NEW s \in Sessions, NEW gone, NEW anew, tx'[s] = Beside(tx[s], gone, anew),
           \A u \in tx[s].locked :
               (account[u].status = "disabled" => account'[u].status = "disabled")
               /\ (account[u].disabledAt = "old" => account'[u].disabledAt = "old")
               /\ (~account[u].live => ~account'[u].live),
           \A u \in tx[s].todo \ (gone \cup anew) :
               (account[u].status = "disabled" => account'[u].status = "disabled")
               /\ (account[u].disabledAt = "old" => account'[u].disabledAt = "old")
    PROVE  DueOf(s)'
<1>1. tx[s] \in Tx
    BY DEF Inv, TypeOK
<1>2. /\ tx'[s].op = tx[s].op /\ tx'[s].step = tx[s].step /\ tx'[s].locked = tx[s].locked
      /\ tx'[s].todo = tx[s].todo \ gone
      /\ tx'[s].slipped = tx[s].slipped \cup (tx[s].todo \cap anew)
    BY <1>1, BesideKeeps
<1> QED
    BY <1>2 DEF Due, DueOf

\* A commit that is none to it, and an end.
LEMMA BesideNothing ==
    ASSUME NEW t \in Tx
    PROVE  t = Beside(t, {}, {})
BY DEF Beside, Tx

LEMMA DueAlone ==
    ASSUME Inv, Due, NEW u \in Users, Alone(u)
    PROVE  Due'
<1>0. account \in [Users -> Rows] /\ tx \in [Sessions -> Tx]
    BY TypeByRows DEF Inv
<1> SUFFICES ASSUME NEW s \in Sessions
             PROVE  DueOf(s)'
    BY DEF Due
<1>1. tx[s] = Beside(tx[s], {}, {}) /\ tx[s].todo \subseteq Users /\ tx[s].locked \subseteq Users
    BY <1>0, BesideNothing DEF Tx
<1>2. CASE CreateUser(u, "user") \/ CreateUser(u, "admin")
    <2>1. ~Exists(u) /\ UNCHANGED tx /\ ~account'[u].live
          /\ \A v \in Users \ {u} : account'[v] = account[v]
        BY <1>0, <1>2 DEF CreateUser, NoAccount
    <2>2. account[u].status # "disabled" /\ account[u].disabledAt # "old"
        BY <1>0, <2>1 DEF Exists, Rows
    <2> QED
        BY <1>1, <2>1, <2>2, DueBeside
<1>3. CASE SignIn(u) \/ Promote(u) \/ RetentionPasses(u)
    <2>1. UNCHANGED tx /\ \A v \in Users \ {u} : account'[v] = account[v]
        BY <1>0, <1>3 DEF SignIn, Promote, RetentionPasses
    <2>2. account'[u].status = account[u].status /\ account'[u].live = account[u].live
          /\ account'[u].disabledAt \in {account[u].disabledAt, "old"}
        BY <1>0, <1>3 DEF SignIn, Promote, RetentionPasses, Rows, Account
    <2> QED
        BY <1>1, <2>1, <2>2, DueBeside
<1>4. CASE Reinstate(u)
    <2>1. tx'[s] = Beside(tx[s], {}, {u}) /\ u \notin tx[s].locked
          /\ \A v \in Users \ {u} : account'[v] = account[v]
        BY <1>0, <1>4 DEF Reinstate, Writable, LockedBy
    <2> QED
        BY <1>1, <2>1, DueBeside
<1>5. CASE DeleteUser(u)
    <2>1. tx'[s] = Beside(tx[s], {u}, {}) /\ u \notin tx[s].locked
          /\ \A v \in Users \ {u} : account'[v] = account[v]
        BY <1>0, <1>5 DEF DeleteUser, Writable, LockedBy
    <2> QED
        BY <1>1, <2>1, DueBeside
<1>6. CASE KeysChange(u)
    <2>1. UNCHANGED tx /\ \A v \in Users \ {u} : account'[v] = account[v]
        BY <1>0, <1>6 DEF KeysChange
    <2>2. account'[u].status = account[u].status /\ account'[u].disabledAt = account[u].disabledAt
        BY <1>0, <1>6 DEF KeysChange, Rows, Account
    <2>3. account[u].live \in BOOLEAN
        BY <1>0 DEF Rows, Account
    <2>4. u \in tx[s].locked /\ ~account[u].live => FALSE
        BY <1>0, <1>6 DEF KeysChange, Writable, LockedBy
    <2> QED
        BY <1>1, <2>1, <2>2, <2>4, DueBeside
<1> QED
    BY <1>2, <1>3, <1>4, <1>5, <1>6 DEF Alone

LEMMA DueRuns ==
    ASSUME Inv, Due, NEW s \in Sessions, Runs(s)
    PROVE  Due'
<1>0. account \in [Users -> Rows] /\ tx \in [Sessions -> Tx]
    BY TypeByRows DEF Inv
<1>1. ASSUME NEW t, tx' = [tx EXCEPT ![s] = t], UNCHANGED account,
             t.step = "each" /\ t.op # "remove" =>
                 /\ \A u \in t.todo \cup t.locked :
                       u \in t.slipped \/ (account[u].status = "disabled" /\ account[u].disabledAt = "old")
                 /\ \A u \in t.locked : ~account[u].live
      PROVE  Due'
    BY <1>0, <1>1 DEF Due, DueOf
<1>2. CASE LockNext(s)
    <2>1. PICK x, y : tx' = [tx EXCEPT ![s] = [tx[s] EXCEPT !.todo = x, !.locked = y]]
        BY <1>0, <1>2 DEF LockNext
    <2> DEFINE t == [tx[s] EXCEPT !.todo = x, !.locked = y]
    <2>2. tx' = [tx EXCEPT ![s] = t] /\ t.step = "lock" /\ UNCHANGED account
        BY <1>0, <1>2, <2>1 DEF LockNext, Tx
    <2> QED
        BY <1>1, <2>2
<1>3. CASE (Look(s) /\ End(s)) \/ RollBack(s)
    BY <1>1, <1>3 DEF Look, RollBack, End, Idle
<1>4. CASE Look(s) /\ tx' = [tx EXCEPT ![s].step = "write"]
    <2> DEFINE t == [tx[s] EXCEPT !.step = "write"]
    <2>1. tx' = [tx EXCEPT ![s] = t] /\ t.step = "write" /\ UNCHANGED account
        BY <1>0, <1>4 DEF Look, Tx
    <2> QED
        BY <1>1, <2>1
<1>5. CASE Commit(s)
    <2> DEFINE v == tx[s].target
    <2> SUFFICES ASSUME NEW q \in Sessions PROVE DueOf(q)'
        BY DEF Due
    <2>1. CASE q = s
        BY <1>5, <2>1 DEF Commit, DueOf, Idle
    <2>2. CASE q # s
        <3>1. v \notin tx[q].locked /\ tx[q].todo \subseteq Users /\ tx[q].locked \subseteq Users
            BY <1>0, <1>5, <2>2 DEF Commit, Unlocked, LockedBy, Tx
        <3>2. \A u \in Users \ {v} : account'[u] = account[u]
            BY <1>0, <1>5 DEF Commit
        <3>3. CASE tx[s].op = "offboard"
            <4>1. tx'[q] = Beside(tx[q], {}, {v})
                BY <1>5, <2>2, <3>3 DEF Commit
            <4> QED
                BY <3>1, <3>2, <4>1, DueBeside
        <3>4. CASE tx[s].op # "offboard"
            <4>1. tx'[q] = Beside(tx[q], {}, {})
                BY <1>5, <2>2, <3>4 DEF Commit
            <4>2. v \in Users => /\ account'[v].status = account[v].status
                                 /\ account'[v].disabledAt = account[v].disabledAt
                BY <1>0, <1>5, <3>4 DEF Commit, Rows, Account
            <4> QED
                BY <3>1, <3>2, <4>1, <4>2, DueBeside
        <3> QED BY <3>3, <3>4
    <2> QED BY <2>1, <2>2
<1>6. CASE ChangeNext(s)
    <2>1. PICK u \in tx[s].todo :
             /\ tx[s].op # "remove" => ~account[u].live
             /\ tx' = [tx EXCEPT ![s].todo = @ \ {u}, ![s].locked = @ \cup {u}]
        BY <1>6 DEF ChangeNext
    <2> DEFINE t == [tx[s] EXCEPT !.todo = @ \ {u}, !.locked = @ \cup {u}]
    <2>2. tx' = [tx EXCEPT ![s] = t]
        BY <1>0, <2>1
    <2>3. /\ t.step = tx[s].step /\ t.op = tx[s].op /\ t.slipped = tx[s].slipped
          /\ t.locked = tx[s].locked \cup {u} /\ t.todo = tx[s].todo \ {u}
        BY <1>0 DEF Tx
    <2>4. UNCHANGED account /\ DueOf(s)
        BY <1>6 DEF ChangeNext, Due
    <2> HIDE DEF t
    <2>5. t.step = "each" /\ t.op # "remove" =>
              /\ \A v \in t.todo \cup t.locked :
                    v \in t.slipped \/ (account[v].status = "disabled" /\ account[v].disabledAt = "old")
              /\ \A v \in t.locked : ~account[v].live
        BY <2>1, <2>3, <2>4 DEF DueOf
    <2> QED
        BY <1>1, <2>2, <2>4, <2>5
<1>7. CASE CommitAll(s)
    <2> SUFFICES ASSUME NEW q \in Sessions PROVE DueOf(q)'
        BY DEF Due
    <2>1. CASE q = s
        BY <1>7, <2>1 DEF CommitAll, DueOf, Idle
    <2>2. CASE q # s
        <3>1. tx'[q] = Beside(tx[q], Erased(s), tx[s].locked \ Erased(s))
            BY <1>7, <2>2 DEF CommitAll
        <3>2. tx[q].todo \subseteq Users /\ tx[q].locked \subseteq Users
            BY <1>0 DEF Tx
        <3>3. \A u \in tx[q].locked : u \notin tx[s].locked
            BY <2>2, Holder
        <3>4. \A u \in Users \ tx[s].locked : account'[u] = account[u]
            BY <1>7 DEF CommitAll
        <3> QED
            BY <3>1, <3>2, <3>3, <3>4, DueBeside
    <2> QED BY <2>1, <2>2
<1> QED
    BY <1>2, <1>3, <1>4, <1>5, <1>6, <1>7 DEF Runs, Look

LEMMA DueStarts ==
    ASSUME Inv, Due, Starts
    PROVE  Due'
<1>0. tx \in [Sessions -> Tx]
    BY DEF Inv, TypeOK
<1>1. ASSUME NEW s \in Sessions, NEW t, tx' = [tx EXCEPT ![s] = t], UNCHANGED account,
             t.locked = {},
             t.step = "each" /\ t.op # "remove" => t.todo \subseteq {u \in Users : Eligible(u)}
      PROVE  Due'
    BY <1>0, <1>1 DEF Due, DueOf, Eligible
<1>2. ASSUME NEW s \in Sessions, NEW u \in Users, NEW op, Guarded(s, op, u) PROVE Due'
    <2> DEFINE t == [Idle EXCEPT !.op = op, !.step = "lock", !.todo = ActiveAdmins,
                                 !.target = IF Exists(u) THEN u ELSE None]
    <2>1. tx' = [tx EXCEPT ![s] = t] /\ UNCHANGED account /\ t.locked = {} /\ t.step = "lock"
        BY <1>2 DEF Guarded, Idle
    <2> QED
        BY <1>1, <2>1
<1>3. ASSUME NEW s \in Sessions, NEW op, Find(s, op) PROVE Due'
    <2> DEFINE t == [Idle EXCEPT !.op = op, !.step = "each", !.todo = {u \in Users : Eligible(u)}]
    <2>1. tx' = [tx EXCEPT ![s] = t] /\ UNCHANGED account /\ t.locked = {}
          /\ t.todo = {u \in Users : Eligible(u)}
        BY <1>3 DEF Find, Idle
    <2> QED
        BY <1>1, <2>1
<1>4. ASSUME NEW s \in Sessions, NEW removed, FindRemoved(s, removed) PROVE Due'
    <2> DEFINE t == [Idle EXCEPT !.op = "remove", !.step = "each",
                                 !.todo = {u \in removed : account[u].status = "active"
                                                           /\ account[u].role # "admin"}]
    <2>1. tx' = [tx EXCEPT ![s] = t] /\ UNCHANGED account /\ t.locked = {} /\ t.op = "remove"
        BY <1>4 DEF FindRemoved, Idle
    <2> QED
        BY <1>1, <2>1
<1> QED
    BY <1>2, <1>3, <1>4 DEF Starts, Sessions

LEMMA AlwaysDue == Spec => []Due
<1>1. Init => Due
    BY DEF Init, Due, DueOf, Idle
<1>2. Inv /\ Due /\ [Next]_vars => Due'
    <2>1. ASSUME Inv, Due, Next PROVE Due'
        BY <2>1, DueAlone, DueRuns, DueStarts DEF Next
    <2>2. ASSUME Due, UNCHANGED vars PROVE Due'
        BY <2>2 DEF vars, Due, DueOf
    <2> QED BY <2>1, <2>2
<1> QED
    BY <1>1, <1>2, Always, PTL DEF Spec

\* However requests, sweeps and purges interleave, an account that goes has no key
\* left and was due, or it was reinstated or shut out anew while a pass that had
\* read it was on its way to it.
THEOREM ErasuresAreDue == Spec => ErasedWereDue
<1> DEFINE Kept(u) == /\ ~account[u].live
                      /\ \/ account[u].status = "disabled"
                               /\ (DeleteUser(u) \/ account[u].disabledAt = "old")
                         \/ \E s \in Sessions : CommitAll(s) /\ u \in tx[s].slipped
<1>1. ASSUME Inv, Due, Next, NEW u \in Users, Exists(u), ~Exists(u)' PROVE Kept(u)
    <2>0. account \in [Users -> Rows] /\ tx \in [Sessions -> Tx]
        BY <1>1, TypeByRows DEF Inv
    <2>1. account'[u].status = "none" /\ account[u].status \in {"active", "disabled"}
        BY <1>1, <2>0 DEF Exists, Rows, Account
    <2>2. ASSUME NEW v \in Users, Alone(v) PROVE Kept(u)
        <3>1. CASE DeleteUser(v)
            <4>1. v = u
                BY <2>0, <2>1, <3>1 DEF DeleteUser
            <4> QED
                BY <3>1, <4>1 DEF DeleteUser
        <3>2. CASE ~DeleteUser(v)
            <4>1. account'[u].status \in {"active", "disabled"}
                BY <2>0, <2>1, <2>2, <3>2 DEF Alone, CreateUser, SignIn, Promote, Reinstate, KeysChange,
                                              RetentionPasses, Rows, Account, NoAccount
            <4> QED BY <2>1, <4>1
        <3> QED BY <3>1, <3>2
    <2>3. ASSUME UNCHANGED account PROVE FALSE
        BY <2>1, <2>3
    <2>4. ASSUME Starts PROVE FALSE
        BY <2>3, <2>4 DEF Starts, Guarded, Find, FindRemoved
    <2>5. ASSUME NEW s \in Sessions, Commit(s) PROVE FALSE
        <3>1. account'[u].status \in {"active", "disabled"}
            BY <2>0, <2>1, <2>5 DEF Commit, Disabled, Rows, Account
        <3> QED BY <2>1, <3>1
    <2>6. ASSUME NEW s \in Sessions, LockNext(s) \/ Look(s) \/ ChangeNext(s) \/ RollBack(s)
          PROVE  FALSE
        BY <2>3, <2>6 DEF LockNext, Look, ChangeNext, RollBack
    <2>7. ASSUME NEW s \in Sessions, CommitAll(s) PROVE Kept(u)
        <3>1. u \in tx[s].locked /\ tx[s].op # "remove"
            <4>1. u \in tx[s].locked
                BY <2>0, <2>1, <2>7 DEF CommitAll
            <4>2. Disabled(account[u]).status = "disabled"
                BY <2>0 DEF Disabled, Rows, Account
            <4>3. u \in Erased(s)
                BY <2>1, <2>7, <4>1, <4>2 DEF CommitAll
            <4> QED BY <4>1, <4>3 DEF Erased
        <3>2. tx[s].step = "each"
            BY <2>7 DEF CommitAll
        <3> QED
            BY <1>1, <2>7, <3>1, <3>2 DEF Due, DueOf
    <2> HIDE DEF Kept
    <2> QED
        BY <1>1, <2>2, <2>4, <2>5, <2>6, <2>7 DEF Next, Runs
<1>2. Inv /\ Due /\ [Next]_vars =>
          [\A u \in Users : Exists(u) /\ ~Exists(u)' => Kept(u)]_vars
    BY <1>1
<1> QED
    BY <1>2, Always, AlwaysDue, PTL DEF ErasedWereDue, Spec
=============================================================================
