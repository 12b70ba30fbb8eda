------------------------------ MODULE Accounts ------------------------------
(***************************************************************************)
(* Accounts of the panel: who is an administrator, who is shut out, who is *)
(* erased.  Administrators, sign-ins, the retention sweep and the Access   *)
(* sync change them in transactions at READ COMMITTED: a statement sees    *)
(* what is committed when it begins, and waits for the rows it writes or   *)
(* locks; nothing makes two statements of one transaction agree.           *)
(***************************************************************************)
EXTENDS Naturals, FiniteSets

CONSTANTS
    Users,          \* e-mail addresses
    Bootstrap,      \* those that sign in as administrators
    Requests,       \* transactions of the control API in flight
    Workers,        \* those of the worker: the retention sweep, the Access sync
    None,
    MaxChanges      \* bound: requests and passes of the worker

ASSUME UsersAssumption == Bootstrap \subseteq Users /\ IsFiniteSet(Users)
ASSUME SessionsAssumption ==
    Requests \cap Workers = {} /\ IsFiniteSet(Requests) /\ IsFiniteSet(Workers) /\ None \notin Users
ASSUME BoundsAssumption == MaxChanges \in Nat

Sessions == Requests \cup Workers

VARIABLES
    account,    \* the row of each address
    tx,         \* the transaction of each session
    changes     \* bound

vars == <<account, tx, changes>>

\* disabledAt: "unset", "recent", or "old" once the retention window is over.
\* live: whether a key of the account may still have a peer on a node.
Account == [status : {"none", "active", "disabled"}, role : {"user", "admin"},
            disabledAt : {"unset", "recent", "old"}, live : BOOLEAN]

NoAccount == [status |-> "none", role |-> "user", disabledAt |-> "unset", live |-> FALSE]

Exists(u) == account[u].status # "none"
IsActiveAdmin(u) == account[u].status = "active" /\ account[u].role = "admin"
ActiveAdmins == {u \in Users : IsActiveAdmin(u)}

\* todo: rows the transaction has still to lock or change; locked: rows it has;
\* slipped: rows it still has to change that were reinstated or shut out anew since
\* it read them, a history the properties speak of and no step looks at.
Tx == [op : {"idle", "offboard", "demote", "purge", "sweep", "remove"},
       target : Users \cup {None}, step : {"none", "lock", "write", "each"},
       todo : SUBSET Users, locked : SUBSET Users, slipped : SUBSET Users]

Idle == [op |-> "idle", target |-> None, step |-> "none", todo |-> {}, locked |-> {}, slipped |-> {}]

LockedBy(s, u) == u \in tx[s].locked
Unlocked(s, u) == \A t \in Sessions \ {s} : ~LockedBy(t, u)

\* A row no transaction has locked can be changed by a statement on its own.
Writable(u) == \A s \in Sessions : ~LockedBy(s, u)

End(s) == tx' = [tx EXCEPT ![s] = Idle]

\* What a commit is to a transaction t beside it.  Rows are found by id: an
\* address that comes back is another row.
Beside(t, gone, anew) == [t EXCEPT !.todo = @ \ gone,
                                   !.target = IF @ \in gone THEN None ELSE @,
                                   !.slipped = @ \cup (t.todo \cap anew)]

Change == changes < MaxChanges /\ changes' = changes + 1

-----------------------------------------------------------------------------
(* Changes of one row in one statement *)

\* An administrator adds an account, or a first sign-in does.
CreateUser(u, role) ==
    /\ Change
    /\ ~Exists(u)
    /\ ActiveAdmins # {} \/ role = (IF u \in Bootstrap THEN "admin" ELSE "user")
    /\ account' = [account EXCEPT ![u] = [NoAccount EXCEPT !.status = "active", !.role = role]]
    /\ UNCHANGED tx

\* A sign-in makes an administrator of a bootstrap address, whatever its state.
SignIn(u) ==
    /\ Exists(u)
    /\ u \in Bootstrap /\ account[u].role # "admin"
    /\ Writable(u)
    /\ account' = [account EXCEPT ![u].role = "admin"]
    /\ UNCHANGED <<tx, changes>>

Promote(u) ==
    /\ Change
    /\ ActiveAdmins # {}
    /\ Exists(u) /\ account[u].role # "admin"
    /\ Writable(u)
    /\ account' = [account EXCEPT ![u].role = "admin"]
    /\ UNCHANGED tx

\* Mutant: the date of the offboarding is kept.
ReinstateKeepsDate(u) ==
    /\ Change
    /\ ActiveAdmins # {}
    /\ account[u].status = "disabled"
    /\ Writable(u)
    /\ account' = [account EXCEPT ![u].status = "active"]
    /\ UNCHANGED tx

Reinstate(u) ==
    /\ Change
    /\ ActiveAdmins # {}
    /\ account[u].status = "disabled"
    /\ Writable(u)
    /\ account' = [account EXCEPT ![u].status = "active", ![u].disabledAt = "unset"]
    /\ tx' = [s \in Sessions |-> Beside(tx[s], {}, {u})]

\* The row is locked before it is looked at.
DeleteUser(u) ==
    /\ Change
    /\ ActiveAdmins # {}
    /\ account[u].status = "disabled" /\ ~account[u].live
    /\ Writable(u)
    /\ account' = [account EXCEPT ![u] = NoAccount]
    /\ tx' = [s \in Sessions |-> Beside(tx[s], {u}, {})]

\* The account's keys, as far as erasing it depends on them.
KeysChange(u) ==
    /\ IF account[u].live THEN account' = [account EXCEPT ![u].live = FALSE]
       ELSE account[u].status = "active" /\ Writable(u) /\ account' = [account EXCEPT ![u].live = TRUE]
    /\ UNCHANGED <<tx, changes>>

RetentionPasses(u) ==
    /\ account[u].disabledAt = "recent"
    /\ account' = [account EXCEPT ![u].disabledAt = "old"]
    /\ UNCHANGED <<tx, changes>>

-----------------------------------------------------------------------------
(* Offboarding and demotion, which must leave an administrator *)

\* SELECT ... FOR UPDATE of the active administrators: the rows are those of
\* the moment it begins, and are locked one after the other.
Guarded(s, op, u) ==
    /\ Change
    /\ tx[s] = Idle
    /\ \E a \in ActiveAdmins : op = "offboard" => a # u
    /\ tx' = [tx EXCEPT ![s] = [Idle EXCEPT !.op = op, !.step = "lock", !.todo = ActiveAdmins,
                                            !.target = IF Exists(u) THEN u ELSE None]]
    /\ UNCHANGED account

\* Mutant: the administrators are counted and not locked.
LockNothing(s) ==
    /\ tx[s].step = "lock"
    /\ \E u \in tx[s].todo :
          tx' = [tx EXCEPT ![s].todo = @ \ {u}, ![s].locked = @ \cup {u}]
    /\ UNCHANGED <<account, changes>>

\* A row that changed while the lock was awaited is looked at once more.
LockNext(s) ==
    /\ tx[s].step = "lock"
    /\ \E u \in tx[s].todo :
          /\ Unlocked(s, u)
          /\ tx' = [tx EXCEPT ![s].todo = @ \ {u},
                              ![s].locked = IF IsActiveAdmin(u) THEN @ \cup {u} ELSE @]
    /\ UNCHANGED <<account, changes>>

\* The target is read in a statement of its own.  An offboarding looks at its
\* status too, a demotion at its role only.
LastAdmin(s) ==
    /\ account[tx[s].target].role = "admin"
    /\ tx[s].op = "offboard" => account[tx[s].target].status = "active"
    /\ Cardinality(tx[s].locked) <= 1

Look(s) ==
    /\ tx[s].step = "lock" /\ tx[s].todo = {}
    /\ IF tx[s].target = None \/ LastAdmin(s)
       THEN End(s)
       ELSE tx' = [tx EXCEPT ![s].step = "write"]
    /\ UNCHANGED <<account, changes>>

Disabled(row) == [row EXCEPT !.status = "disabled", !.disabledAt = "recent"]

\* An offboarded account's keys go as well, in jobs of their own.
Commit(s) ==
    /\ tx[s].step = "write"
    /\ Unlocked(s, tx[s].target)
    /\ account' = IF tx[s].target = None THEN account
                  ELSE [account EXCEPT ![tx[s].target] =
                           IF tx[s].op = "offboard" THEN Disabled(@) ELSE [@ EXCEPT !.role = "user"]]
    /\ tx' = [t \in Sessions |->
                 IF t = s THEN Idle
                 ELSE Beside(tx[t], {}, IF tx[s].op = "offboard" THEN {tx[s].target} ELSE {})]
    /\ UNCHANGED changes

-----------------------------------------------------------------------------
(* Passes over several rows: read them, change one after the other, commit *)

Eligible(u) == account[u].status = "disabled" /\ account[u].disabledAt = "old" /\ ~account[u].live

\* The retention sweep, and an administrator's purge of the same accounts.
Find(s, op) ==
    /\ Change
    /\ tx[s] = Idle
    /\ IF op = "purge" THEN s \in Requests /\ ActiveAdmins # {} ELSE s \in Workers
    /\ tx' = [tx EXCEPT ![s] = [Idle EXCEPT !.op = op, !.step = "each",
                                            !.todo = {u \in Users : Eligible(u)}]]
    /\ UNCHANGED account

\* Addresses that were removed from the Access policy.
FindRemoved(s, removed) ==
    /\ Change
    /\ s \in Workers /\ tx[s] = Idle
    /\ tx' = [tx EXCEPT ![s] =
                 [Idle EXCEPT !.op = "remove", !.step = "each",
                              !.todo = {u \in removed : account[u].status = "active"
                                                        /\ account[u].role # "admin"}]]
    /\ UNCHANGED account

\* Mutant: an account takes the keys it still has with it.
ChangeNextWithKeys(s) ==
    /\ tx[s].step = "each"
    /\ \E u \in tx[s].todo :
          /\ Unlocked(s, u)
          /\ tx' = [tx EXCEPT ![s].todo = @ \ {u}, ![s].locked = @ \cup {u}]
    /\ UNCHANGED <<account, changes>>

\* The statement asks for the row's id and for nothing else; a key that is not
\* revoked keeps the account.
ChangeNext(s) ==
    /\ tx[s].step = "each"
    /\ \E u \in tx[s].todo :
          /\ Unlocked(s, u)
          /\ tx[s].op # "remove" => ~account[u].live
          /\ tx' = [tx EXCEPT ![s].todo = @ \ {u}, ![s].locked = @ \cup {u}]
    /\ UNCHANGED <<account, changes>>

\* Accounts that are gone when the transaction has committed.
Erased(s) == IF tx[s].op # "remove" THEN tx[s].locked ELSE {}

CommitAll(s) ==
    /\ tx[s].step = "each" /\ tx[s].todo = {}
    /\ account' = [u \in Users |-> IF u \notin tx[s].locked THEN account[u]
                                  ELSE IF u \in Erased(s) THEN NoAccount
                                  ELSE Disabled(account[u])]
    /\ tx' = [t \in Sessions |-> IF t = s THEN Idle
                                 ELSE Beside(tx[t], Erased(s), tx[s].locked \ Erased(s))]
    /\ UNCHANGED changes

\* Before it has committed a transaction may come to nothing: the database ends
\* one of those that wait for each other, a key that came up in between forbids
\* an erasure, the connection or the process is gone.
RollBack(s) ==
    /\ tx[s] # Idle
    /\ End(s)
    /\ UNCHANGED <<account, changes>>

-----------------------------------------------------------------------------
Runs(s) == LockNext(s) \/ Look(s) \/ Commit(s) \/ ChangeNext(s) \/ CommitAll(s) \/ RollBack(s)

Alone(u) ==
    \/ \E role \in {"user", "admin"} : CreateUser(u, role)
    \/ SignIn(u) \/ Promote(u) \/ Reinstate(u) \/ DeleteUser(u)
    \/ KeysChange(u) \/ RetentionPasses(u)

Starts ==
    \/ \E s \in Requests, u \in Users, op \in {"offboard", "demote"} : Guarded(s, op, u)
    \/ \E s \in Requests : Find(s, "purge")
    \/ \E s \in Workers : Find(s, "sweep")
    \/ \E s \in Workers, u \in Users : FindRemoved(s, {u})

Next ==
    \/ \E u \in Users : Alone(u)
    \/ Starts
    \/ \E s \in Sessions : Runs(s)

\* One administrator, and an account of each kind an installation may have.
Init ==
    /\ account \in [Users -> {NoAccount, [NoAccount EXCEPT !.status = "active"],
                              [NoAccount EXCEPT !.status = "active", !.role = "admin"],
                              [NoAccount EXCEPT !.status = "disabled", !.disabledAt = "old"]}]
    /\ ActiveAdmins # {}
    /\ tx = [s \in Sessions |-> Idle]
    /\ changes = 0

Spec == Init /\ [][Next]_vars

-----------------------------------------------------------------------------
(* Properties *)

\* Rows and transactions have values of their kinds; an account that is not
\* shut out has no date of an offboarding; a row has one holder.
TypeOK ==
    /\ account \in [Users -> Account]
    /\ tx \in [Sessions -> Tx]
    /\ changes \in 0 .. MaxChanges
    /\ \A u \in Users : account[u].status # "disabled" => account[u].disabledAt = "unset"
    /\ \A s, t \in Sessions : s # t => tx[s].locked \cap tx[t].locked = {}

\* adminAction: never demote or offboard the last administrator.  A step that
\* leaves the panel without one is a pass that acts on what it read before, or
\* a request whose every administrator went while it waited to lock them.
LastAdminStays ==
    [][ActiveAdmins # {} /\ ActiveAdmins' = {} =>
          \E s \in Sessions : CommitAll(s) \/ (Commit(s) /\ tx[s].locked = {})]_vars

\* An account that is erased has no key left that a node may serve, and was due:
\* shut out, and by a pass over many for as long as the retention window.  The
\* gap the code has is an account that was reinstated, or shut out anew, after the
\* pass read it: its DELETE does not look at the status again.
ErasedWereDue ==
    [][\A u \in Users : Exists(u) /\ ~Exists(u)' =>
          /\ ~account[u].live
          /\ \/ account[u].status = "disabled" /\ (DeleteUser(u) \/ account[u].disabledAt = "old")
             \/ \E s \in Sessions : CommitAll(s) /\ u \in tx[s].slipped]_vars
=============================================================================
