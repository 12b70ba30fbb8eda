----------------------------- MODULE PeerFiles ------------------------------
(***************************************************************************)
(* What the node agent promises about the two files of one protocol: a     *)
(* peer is named before it is exposed, keeps its name while it is exposed, *)
(* and at most one exposed peer carries a name.  Of the peers a backup     *)
(* brought it promises nothing, until they are deleted; of the others, that *)
(* a backup takes them away at most.  NodePeers implements it.             *)
(***************************************************************************)

CONSTANTS PeerIds, Names, None

VARIABLES
    name,       \* the name a peer is labelled with, None before and after
    access,     \* "none" (not configured), "on" or "off" (configured, blocked)
    restored    \* the peers a backup brought

vars == <<name, access, restored>>

Access == [PeerIds -> {"none", "on", "off"}]

Exposed == {p \in PeerIds : access[p] # "none"}

Label(n, p) ==
    /\ name[p] = None
    /\ access[p] = "none"
    /\ \A q \in Exposed : name[q] # n
    /\ name' = [q \in PeerIds |-> IF q = p THEN n ELSE IF name[q] = n THEN None ELSE name[q]]
    /\ UNCHANGED <<access, restored>>

Expose(p) ==
    /\ name[p] # None
    /\ access[p] = "none"
    /\ access' = [access EXCEPT ![p] = "on"]
    /\ UNCHANGED <<name, restored>>

\* A block or an unblock; the sweep of expired peers blocks several at once.
Toggle(S, to) ==
    /\ S \subseteq Exposed
    /\ access' = [p \in PeerIds |-> IF p \in S THEN to ELSE access[p]]
    /\ UNCHANGED <<name, restored>>

Withdraw(p) ==
    /\ access' = [access EXCEPT ![p] = "none"]
    /\ UNCHANGED <<name, restored>>

Unlabel(p) ==
    /\ access[p] = "none"
    /\ name' = [name EXCEPT ![p] = None]
    /\ UNCHANGED <<access, restored>>

\* A backup is about to be imported; then it replaces who is exposed, and then
\* who is named.
Bring(S) ==
    /\ restored' = restored \cup S
    /\ UNCHANGED <<name, access>>

Replace ==
    /\ access' \in Access
    /\ \A p \in PeerIds \ restored : access'[p] = "none"
    /\ UNCHANGED <<name, restored>>

Rename ==
    /\ Exposed \subseteq restored
    /\ name' \in [PeerIds -> Names \cup {None}]
    /\ \A p \in PeerIds \ restored : name'[p] = None
    /\ UNCHANGED <<access, restored>>

\* A peer of a backup is like any other once it is deleted.
Settle(p) ==
    /\ access[p] = "none"
    /\ name[p] = None
    /\ restored' = restored \ {p}
    /\ UNCHANGED <<name, access>>

Init ==
    /\ name \in [PeerIds -> Names \cup {None}]
    /\ access \in Access
    /\ restored = {}
    /\ \A p \in Exposed : name[p] # None
    /\ \A p, q \in PeerIds : name[p] = name[q] /\ name[p] # None => p = q

Next ==
    \/ \E p \in PeerIds : (\E n \in Names : Label(n, p)) \/ Expose(p) \/ Withdraw(p) \/ Unlabel(p)
    \/ \E S \in SUBSET PeerIds, to \in {"on", "off"} : Toggle(S, to)
    \/ \E S \in SUBSET PeerIds : Bring(S)
    \/ Replace \/ Rename \/ \E p \in PeerIds : Settle(p)

Spec == Init /\ [][Next]_vars

-----------------------------------------------------------------------------
\* What the steps above are worth: every exposed peer that no backup brought has
\* a name, which no other such peer has.
ExposedAreNamed ==
    \A p \in Exposed \ restored :
        name[p] # None /\ \A q \in Exposed \ restored : name[p] = name[q] => p = q
=============================================================================
