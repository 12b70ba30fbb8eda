----------------------------- MODULE KeyPromise -----------------------------
(***************************************************************************)
(* What panel and node promise of VPN keys, with no outbox, worker or call *)
(* to be seen: a key is made for an account in force, has one peer at a    *)
(* time while it lives, shows the public key of a peer that is there, and  *)
(* ends only when somebody asked for it and no peer is left.               *)
(* KeyLifecycle implements it while no call lingers.                       *)
(***************************************************************************)

CONSTANTS
    Keys, Users, Owner, PeerIds, None,
    MayRevive       \* may a key that has ended come back, without a peer?

VARIABLES
    phase,      \* "absent" before its row, "live", "gone" (revoked), "purged" after its row
    wanted,     \* was the key asked to go?
    known,      \* the public key its owner is shown
    peer,       \* the one peer the node carries for it, or None
    purge,      \* was the ended key "read" by a purge, and did it live again when that took it?
    account     \* "active", "disabled" or "deleted"

vars == <<phase, wanted, known, peer, purge, account>>

KeysOf(u) == {k \in Keys : Owner[k] = u}
Alive(k) == phase[k] = "live"

Create(k) ==
    /\ phase[k] = "absent" /\ account[Owner[k]] = "active"
    /\ phase' = [phase EXCEPT ![k] = "live"]
    /\ UNCHANGED <<wanted, known, peer, purge, account>>

Delete(k) ==
    /\ Alive(k)
    /\ wanted' = [wanted EXCEPT ![k] = TRUE]
    /\ UNCHANGED <<phase, known, peer, purge, account>>

\* Whoever is shut out has all keys that live asked to go, with the account's row.
Disable(u) ==
    /\ account[u] # "deleted"
    /\ account' = [account EXCEPT ![u] = "disabled"]
    /\ wanted' = [k \in Keys |-> wanted[k] \/ (Owner[k] = u /\ Alive(k))]
    /\ UNCHANGED <<phase, known, peer, purge>>

Reinstate(u) ==
    /\ account[u] = "disabled"
    /\ account' = [account EXCEPT ![u] = "active"]
    /\ UNCHANGED <<phase, wanted, known, peer, purge>>

\* The rows of K go.
Forget(K) ==
    /\ phase' = [k \in Keys |-> IF k \in K THEN "purged" ELSE phase[k]]
    /\ known' = [k \in Keys |-> IF k \in K THEN None ELSE known[k]]
    /\ UNCHANGED <<wanted, peer>>

LookAt(k) ==
    /\ phase[k] = "gone" /\ purge[k] = "none"
    /\ purge' = [purge EXCEPT ![k] = "read"]
    /\ UNCHANGED <<phase, wanted, known, peer, account>>

\* A key that came back between the look and the purge is overrun.
Purge(k) ==
    /\ phase[k] \in {"gone", "live"} /\ purge[k] = "read"
    /\ Forget({k})
    /\ purge' = [purge EXCEPT ![k] = IF Alive(k) THEN "overrun" ELSE "read"]
    /\ UNCHANGED account

Erase(u) ==
    /\ \A k \in KeysOf(u) : ~Alive(k)
    /\ account' = [account EXCEPT ![u] = "deleted"]
    /\ Forget({k \in KeysOf(u) : phase[k] = "gone"})
    /\ UNCHANGED purge

\* Whoever works for a key that is overrun does not know that its row is gone.
Connect(k, p) ==
    /\ Alive(k) \/ purge[k] = "overrun"
    /\ peer[k] = None
    /\ peer' = [peer EXCEPT ![k] = p]
    /\ UNCHANGED <<phase, wanted, known, purge, account>>

Disconnect(k) ==
    /\ peer' = [peer EXCEPT ![k] = None]
    /\ UNCHANGED <<phase, wanted, known, purge, account>>

\* The key it shows is the one of its peer.
Publish(k) ==
    /\ Alive(k) /\ peer[k] # None
    /\ known' = [known EXCEPT ![k] = peer[k]]
    /\ UNCHANGED <<phase, wanted, peer, purge, account>>

End(k) ==
    /\ Alive(k) /\ wanted[k] /\ peer[k] = None
    /\ phase' = [phase EXCEPT ![k] = "gone"]
    /\ UNCHANGED <<wanted, known, peer, purge, account>>

Revive(k) ==
    /\ MayRevive /\ phase[k] = "gone"
    /\ phase' = [phase EXCEPT ![k] = "live"]
    /\ UNCHANGED <<wanted, known, peer, purge, account>>

Init ==
    /\ phase = [k \in Keys |-> "absent"] /\ wanted = [k \in Keys |-> FALSE]
    /\ known = [k \in Keys |-> None] /\ peer = [k \in Keys |-> None]
    /\ purge = [k \in Keys |-> "none"]
    /\ account = [u \in Users |-> "active"]

Next ==
    \/ \E k \in Keys : \/ Create(k) \/ Delete(k) \/ LookAt(k) \/ Purge(k)
                       \/ Disconnect(k) \/ Publish(k) \/ End(k) \/ Revive(k)
                       \/ \E p \in PeerIds : Connect(k, p)
    \/ \E u \in Users : Disable(u) \/ Reinstate(u) \/ Erase(u)

Spec == Init /\ [][Next]_vars

-----------------------------------------------------------------------------
\* What the steps above are worth: a peer belongs to a key that lives, a key of
\* an account that is not in force was asked to go, and an erased account has
\* neither rows nor peers: none but those of a key that was overrun.
NothingLeft ==
    \A k \in Keys :
        /\ peer[k] # None => Alive(k) \/ purge[k] = "overrun"
        /\ account[Owner[k]] # "active" /\ Alive(k) => wanted[k]
        /\ account[Owner[k]] = "deleted" => phase[k] \in {"absent", "purged"}
=============================================================================
