----------------------------- MODULE NodePeers ------------------------------
(***************************************************************************)
(* The peers of one protocol on a node: the clients table and the          *)
(* WireGuard configuration, two files written one after the other, and the *)
(* interface, which follows the configuration only when it is synced or    *)
(* the container restarts.  Mutations are serialised, the import of a      *)
(* backup among them; the agent may die or a command may fail between any  *)
(* two writes; reads are not serialised.                                   *)
(***************************************************************************)
EXTENDS Naturals, FiniteSets

CONSTANTS
    PeerIds,            \* public keys, one per creation
    Names,              \* client names
    None, Blocked,      \* no entry, no peer; the address 0.0.0.0/32
    Keep,               \* an option of an update that was not given
    Backups,            \* what may be imported: a table and a configuration
    ServerHost,         \* the host the interface itself has
    LastHost,           \* the last host of the subnet, before its broadcast
    MaxPeers,           \* SERVER_MAX_PEERS
    MaxTime,            \* bound: the clock, and the latest expiry
    MaxFailures         \* bound: deaths of the agent and failed commands

ASSUME HostAssumption == LastHost \in Nat /\ ServerHost \in 1 .. LastHost
ASSUME NoneAssumption ==
    /\ None \notin Names \cup {Blocked, Keep} \cup Nat
    /\ Blocked \notin Nat /\ Keep \notin Nat \cup {"active", "disabled"}
ASSUME BoundsAssumption ==
    MaxPeers \in Nat /\ MaxTime \in Nat /\ MaxFailures \in Nat /\ IsFiniteSet(PeerIds)

VARIABLES
    table,      \* clientsTable.json: name, expiry (0 for none) and own address
    config,     \* AllowedIPs of each [Peer] of the configuration file
    live,       \* the same, as the interface has it
    call,       \* the mutation in progress, and what it has still to write
    now,
    stage,      \* what became of each peer
    failures,   \* bound
    lent        \* history: peers whose address was given to another

files == <<table, config>>
vars == <<table, config, live, call, now, stage, failures, lent>>

Hosts == 1 .. LastHost
Times == 0 .. MaxTime
Entry == [name : Names, expires : Times, ip : Hosts \cup {None}]

ASSUME EntryAssumption == None \notin Entry

Table == [PeerIds -> Entry \cup {None}]
Config == [PeerIds -> Hosts \cup {Blocked, None}]

\* Nothing about a backup is checked: its two files need not agree, with each
\* other or with what the node had.
ASSUME BackupsAssumption == Backups \subseteq [table : Table, config : Config]

\* "absent": the panel listed the configuration and did not find the peer.
\* "restored": a backup that holds it was imported, and it is not deleted since.
Stages == {"fresh", "made", "told", "deleted", "absent", "restored"}

Ops == {"none", "create", "update", "delete", "disable", "import"}

Call == [op : Ops, peers : SUBSET PeerIds, todo : SUBSET {"table", "config", "sync"},
         table : Table, config : Config]

NoTable == [p \in PeerIds |-> None]
Idle == [op |-> "none", peers |-> {}, todo |-> {}, table |-> NoTable, config |-> NoTable]

Configured(c) == {p \in PeerIds : c[p] # None}
Labelled(t) == {p \in PeerIds : t[p] # None}

Free == call.op = "none"

Restored == {p \in PeerIds : stage[p] = "restored"}

-----------------------------------------------------------------------------
(* Creation *)

UsedHosts(c) == {c[p] : p \in PeerIds} \cap Hosts

\* Mutant: the interface's own address is handed out like any other.
FreeHostsAny == Hosts \ UsedHosts(config)

\* Mutant: a block leaves no trace in the configuration and neither does a use.
FreeHostsAll == Hosts \ {ServerHost}

FreeHosts == (Hosts \ {ServerHost}) \ UsedHosts(config)

\* The lowest free host of the subnet; a blocked peer's own is not in use.
AllocatePeerIp(h) == h \in FreeHosts /\ \A g \in FreeHosts : h <= g

NameFree(n) == \A p \in Configured(config) \cap Labelled(table) : table[p].name # n

\* A generated key is one that was never there before; which one is immaterial.
NewKey == CHOOSE p \in PeerIds : stage[p] = "fresh"

\* Every entry of the name goes, configured or not; the new label is written
\* before the peer is.
CreateClient(n, p, expires) ==
    /\ Free
    /\ stage[p] = "fresh" /\ p = NewKey
    /\ Cardinality(Configured(config)) < MaxPeers
    /\ NameFree(n)
    /\ \E h \in Hosts :
          /\ AllocatePeerIp(h)
          /\ LET others == [q \in PeerIds |->
                               IF table[q] # None /\ table[q].name = n THEN None ELSE table[q]]
             IN call' = [op |-> "create", peers |-> {p}, todo |-> {"table", "config", "sync"},
                         table |-> [others EXCEPT ![p] = [name |-> n, expires |-> expires, ip |-> h]],
                         config |-> [config EXCEPT ![p] = h]]
          /\ lent' = lent \cup {q \in Labelled(table) : config[q] = Blocked /\ table[q].ip = h}
    /\ stage' = [stage EXCEPT ![p] = "made"]
    /\ UNCHANGED <<table, config, live, now, failures>>

-----------------------------------------------------------------------------
(* Updates, deletions and the sweep of expired peers *)

\* Mutant: a peer without an address of its own recorded is passed over.
ExpiredIfRestorable(e) == e # None /\ e.expires # 0 /\ e.expires <= now /\ e.ip # None

Expired(e) == e # None /\ e.expires # 0 /\ e.expires <= now

\* Mutant: the address of a peer that never had one recorded is not kept.
RememberNothing(e, address) == e

\* The address a peer is configured with, when the table has none for it.
Remember(e, address) ==
    IF e.ip = None /\ address \in Hosts THEN [e EXCEPT !.ip = address] ELSE e

\* The address that the options of an update ask for, None for no change.
Target(e, expires, status) ==
    LET wanted == IF status # Keep THEN status
                  ELSE IF expires = Keep THEN Keep
                  ELSE IF Expired(e) THEN "disabled" ELSE "active"
    IN CASE wanted = "disabled" -> Blocked
         [] wanted = "active" -> e.ip
         [] OTHER -> None

\* The expiry is written at once, the address and the block after it.
UpdateClient(p, expires, status) ==
    /\ Free
    /\ table[p] # None
    /\ LET dated == IF expires = Keep THEN table[p] ELSE [table[p] EXCEPT !.expires = expires]
           entry == Remember(dated, config[p])
           target == Target(entry, expires, status)
           change == target # None /\ config[p] # None /\ target # config[p]
       IN /\ table' = [table EXCEPT ![p] = dated]
          /\ call' = [op |-> "update", peers |-> {p},
                      todo |-> (IF entry # dated THEN {"table"} ELSE {})
                               \cup (IF change THEN {"config", "sync"} ELSE {}),
                      table |-> [table EXCEPT ![p] = entry],
                      config |-> IF change THEN [config EXCEPT ![p] = target] ELSE config]
    /\ UNCHANGED <<config, live, now, stage, failures, lent>>

\* Mutant: the interface is synced only when the file had the peer.
DeleteSyncsIfConfigured(p) ==
    IF config[p] = None THEN {"table"} ELSE {"config", "sync"} \cup (IF table[p] = None THEN {} ELSE {"table"})

DeleteWrites(p) ==
    {"sync"} \cup (IF config[p] = None THEN {} ELSE {"config"})
             \cup (IF table[p] = None THEN {} ELSE {"table"})

DeleteClient(p) ==
    /\ Free
    /\ table[p] # None \/ config[p] # None
    /\ call' = [op |-> "delete", peers |-> {p}, todo |-> DeleteWrites(p),
                table |-> [table EXCEPT ![p] = None], config |-> [config EXCEPT ![p] = None]]
    /\ UNCHANGED <<table, config, live, now, stage, failures, lent>>

\* Every entry that is past its date, in one pass over both files.
DisableExpired ==
    LET due == {p \in PeerIds : Expired(table[p])}
        blocked == [p \in PeerIds |->
                       IF p \in due /\ config[p] # None THEN Blocked ELSE config[p]]
        entries == [p \in PeerIds |->
                       IF p \in due THEN Remember(table[p], config[p]) ELSE table[p]]
    IN /\ Free
       /\ due # {}
       /\ call' = [op |-> "disable", peers |-> due,
                   todo |-> (IF entries # table THEN {"table"} ELSE {})
                            \cup (IF blocked # config THEN {"config", "sync"} ELSE {}),
                   table |-> entries, config |-> blocked]
       /\ UNCHANGED <<table, config, live, now, stage, failures, lent>>

-----------------------------------------------------------------------------
(* Backups *)

\* Both files are replaced by the payload's, the configuration first.
ImportBackup(b) ==
    /\ Free
    /\ call' = [op |-> "import", peers |-> {}, todo |-> {"config", "table", "sync"},
                table |-> b.table, config |-> b.config]
    /\ stage' = [p \in PeerIds |-> IF p \in Configured(b.config) \cup Labelled(b.table)
                                   THEN "restored" ELSE stage[p]]
    /\ UNCHANGED <<table, config, live, now, failures, lent>>

-----------------------------------------------------------------------------
(* The writes.  A deletion writes the table last, an import after the       *)
(* configuration, everything else first.                                    *)

TableTurn == CASE call.op = "delete" -> call.todo = {"table"}
               [] call.op = "import" -> "config" \notin call.todo
               [] OTHER -> TRUE

\* Mutant: the configuration may be written before the label is.
AfterAnything == TRUE

AfterTable == call.op = "delete" \/ "table" \notin call.todo

WriteTable ==
    /\ "table" \in call.todo
    /\ TableTurn
    /\ table' = call.table
    /\ call' = [call EXCEPT !.todo = @ \ {"table"}]
    /\ UNCHANGED <<config, live, now, stage, failures, lent>>

WriteConfig ==
    /\ "config" \in call.todo
    /\ call.op = "import" \/ AfterTable
    /\ config' = call.config
    /\ call' = [call EXCEPT !.todo = @ \ {"config"}]
    /\ UNCHANGED <<table, live, now, stage, failures, lent>>

SyncConfig ==
    /\ "sync" \in call.todo
    /\ "config" \notin call.todo
    /\ AfterTable
    /\ live' = config
    /\ call' = [call EXCEPT !.todo = @ \ {"sync"}]
    /\ UNCHANGED <<files, now, stage, failures, lent>>

Told ==
    CASE call.op = "create" -> "told"
      [] call.op = "delete" -> "deleted"

Answer ==
    /\ ~Free
    /\ call.todo = {}
    /\ stage' = IF call.op \in {"create", "delete"}
                THEN [p \in PeerIds |-> IF p \in call.peers THEN Told ELSE stage[p]]
                ELSE stage
    /\ call' = Idle
    /\ UNCHANGED <<files, live, now, failures, lent>>

\* The agent dies or a command fails: nothing that is left is written.
Fail ==
    /\ ~Free
    /\ failures < MaxFailures
    /\ failures' = failures + 1
    /\ call' = Idle
    /\ UNCHANGED <<files, live, now, stage, lent>>

\* The container starts the interface from the file.
Restart ==
    /\ live # config
    /\ live' = config
    /\ UNCHANGED <<files, call, now, stage, failures, lent>>

\* A revoke that finds the peer under no client takes it for gone.  The listing
\* reads the files whatever the mutation in progress.
RevokeFindsNone(p) ==
    /\ stage[p] = "told"
    /\ config[p] = None
    /\ stage' = [stage EXCEPT ![p] = "absent"]
    /\ UNCHANGED <<files, live, call, now, failures, lent>>

Tick ==
    /\ now < MaxTime
    /\ now' = now + 1
    /\ UNCHANGED <<files, live, call, stage, failures, lent>>

-----------------------------------------------------------------------------
Requests ==
    \/ \E p \in PeerIds, n \in Names, expires \in Times : CreateClient(n, p, expires)
    \/ \E p \in PeerIds, expires \in Times \cup {Keep}, status \in {"active", "disabled", Keep} :
           UpdateClient(p, expires, status)
    \/ \E p \in PeerIds : DeleteClient(p)
    \/ DisableExpired
    \/ \E b \in Backups : ImportBackup(b)

Writes == WriteTable \/ WriteConfig \/ SyncConfig \/ Answer

Environment == Fail \/ Restart \/ Tick \/ \E p \in PeerIds : RevokeFindsNone(p)

Next == Requests \/ Writes \/ Environment

\* An empty node, or one with a peer the official app made, whose entry has no
\* address of its own.
Init ==
    /\ \/ table = NoTable /\ config = NoTable
       \/ \E p \in PeerIds, n \in Names, h \in Hosts \ {ServerHost} :
             /\ p = CHOOSE q \in PeerIds : TRUE
             /\ table = [NoTable EXCEPT ![p] = [name |-> n, expires |-> 0, ip |-> None]]
             /\ config = [NoTable EXCEPT ![p] = h]
    /\ live = config
    /\ call = Idle
    /\ now = 0
    /\ stage = [p \in PeerIds |-> IF config[p] = None THEN "fresh" ELSE "told"]
    /\ failures = 0
    /\ lent = {}

Spec == Init /\ [][Next]_vars

\* Every command ends, and the sweep's turn comes: the lock that serialises
\* mutations is first come, first served, so other calls cannot starve it.
FairSpec == Spec /\ WF_vars(Writes) /\ SF_vars(DisableExpired)

-----------------------------------------------------------------------------
(* Properties *)

\* The files and the interface hold peers, addresses and expiries of their
\* kinds, and no peer is ever configured with the interface's own address but
\* by a backup.
TypeOK ==
    /\ table \in Table
    /\ config \in Config
    /\ live \in Config
    /\ call \in Call
    /\ now \in Times
    /\ stage \in [PeerIds -> Stages]
    /\ failures \in 0 .. MaxFailures
    /\ lent \in SUBSET PeerIds
    /\ \A p \in PeerIds \ Restored : config[p] # ServerHost

\* Two peers share an address only after one of them was blocked and its
\* address handed out, or came from a backup: creations never collide, with
\* what a backup brought neither.
AddressesSharedOnlyIfLent ==
    \A p, q \in PeerIds : config[p] = config[q] /\ config[p] \in Hosts
                              => p = q \/ {p, q} \cap (lent \cup Restored) # {}

\* A peer that is blocked can be unblocked: the table remembers its address,
\* which is the one it had, even for a peer the agent did not create and even
\* when the agent dies half-way.  What a backup brings is as the backup has it.
AddressIsRemembered ==
    \A p \in PeerIds \ Restored :
        /\ config[p] = Blocked => table[p] # None /\ table[p].ip # None
        /\ config[p] \in Hosts => table[p] # None /\ table[p].ip \in {None, config[p]}

\* A deletion that was answered leaves nothing of the peer anywhere, whatever
\* failed in the attempts before it, until a backup that holds the peer is
\* imported; and when it is deleted again, again.
DeletedIsCutOff ==
    \A p \in PeerIds : stage[p] = "deleted" => table[p] = None /\ config[p] = None /\ live[p] = None

\* What a date that has passed means, apart from the code's own test of it.
PastDate(e) == e # None /\ e.expires # 0 /\ e.expires <= now

\* A peer whose date has passed is blocked in the configuration (or deleted, or
\* given a later date), however often other calls come first or fail.
ExpiredGetsBlocked ==
    \A p \in PeerIds : PastDate(table[p]) ~> ~PastDate(table[p]) \/ config[p] \in {Blocked, None}

\* The two files, seen as labelled and exposed peers.
NameOf == [p \in PeerIds |-> IF table[p] = None THEN None ELSE table[p].name]
AccessOf == [p \in PeerIds |-> IF config[p] = None THEN "none"
                               ELSE IF config[p] = Blocked THEN "off" ELSE "on"]

Files == INSTANCE PeerFiles WITH name <- NameOf, access <- AccessOf, restored <- Restored

\* The agent's writes implement PeerFiles: a label before the peer and until
\* after it, one exposed peer per name, across failures between two writes and
\* imports that stop half-way; only what a backup brought may be exposed before,
\* or without, its label.
ImplementsPeerFiles == Files!Spec
=============================================================================
