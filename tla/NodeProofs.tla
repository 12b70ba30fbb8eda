----------------------------- MODULE NodeProofs -----------------------------
(***************************************************************************)
(* For any set of keys and names, any subnet and any number of failures:   *)
(* the files of NodePeers stay well formed, a blocked peer keeps the       *)
(* address it can be unblocked with, no two peers share an address unless  *)
(* one was blocked and its address given out, an answered deletion leaves  *)
(* nothing, and the agent implements PeerFiles.                            *)
(* For any number of nodes, accounts, requests and sessions: the requests, *)
(* jobs and lists of NodeRemoval follow every removal.                     *)
(***************************************************************************)
EXTENDS NodePeers, NodeRemoval, TLAPS, FiniteSetTheorems, SequenceTheorems

\* No peer holds, remembers or is about to be given the interface's address.
ServerHostIsOwn ==
    \A p \in PeerIds \ Restored :
        /\ config[p] # ServerHost /\ call.config[p] # ServerHost
        /\ table[p] # None => table[p].ip # ServerHost
        /\ call.table[p] # None => call.table[p].ip # ServerHost

\* A creation is of a new key; a deletion has taken what it has written.
CallAims ==
    \A p \in call.peers :
        /\ call.op = "create" => stage[p] = "made"
        /\ call.op = "delete" =>
              /\ call.config[p] = None /\ ("config" \notin call.todo => config[p] = None)
              /\ call.table[p] = None /\ ("table" \notin call.todo => table[p] = None)

TypeInv == TypeOK /\ ServerHostIsOwn /\ CallAims

-----------------------------------------------------------------------------
(* Type correctness *)

LEMMA HostFacts ==
    /\ Hosts \subseteq Nat
    /\ None \notin Hosts /\ Blocked \notin Hosts /\ Blocked # None /\ ServerHost \in Hosts
BY HostAssumption, NoneAssumption DEF Hosts

LEMMA RememberType ==
    ASSUME NEW e \in Entry, NEW a
    PROVE  /\ Remember(e, a) \in Entry
           /\ e.ip # ServerHost /\ a # ServerHost => Remember(e, a).ip # ServerHost
           /\ Remember(e, a).name = e.name
           /\ a = Blocked => Remember(e, a).ip = e.ip
           /\ a \in Hosts => Remember(e, a).ip # None
           /\ e.ip \in {None, a} => Remember(e, a).ip \in {None, a}
           /\ e.ip # None => Remember(e, a) = e
BY HostFacts DEF Remember, Entry

LEMMA TypeInit ==
    ASSUME Init
    PROVE  TypeInv
<1>0. NoTable \in Table /\ NoTable \in Config /\ \A p \in PeerIds : NoTable[p] = None
    BY DEF NoTable, Table, Config
<1>1. table \in Table /\ config \in Config /\ live \in Config
    BY <1>0, BoundsAssumption DEF Init, Table, Config, Entry, Hosts, Times
<1>2. call \in Call
    BY <1>0 DEF Init, Idle, Call, Ops
<1>3. ServerHostIsOwn
    BY <1>0, HostFacts, NoneAssumption DEF Init, ServerHostIsOwn, Idle, NoTable, Restored
<1>4. /\ now \in Times /\ failures \in 0 .. MaxFailures /\ lent \in SUBSET PeerIds
      /\ stage \in [PeerIds -> Stages]
    BY BoundsAssumption DEF Init, Times, Stages
<1> QED
    BY <1>1, <1>2, <1>3, <1>4 DEF TypeInv, TypeOK, ServerHostIsOwn, CallAims, Init, Idle

\* Only an import and the answer to a deletion change what a backup brought.
LEMMA SameRestored ==
    ASSUME UNCHANGED stage
    PROVE  Restored' = Restored
BY DEF Restored

LEMMA CreateType ==
    ASSUME TypeInv, NEW n \in Names, NEW p \in PeerIds, NEW x \in Times, CreateClient(n, p, x)
    PROVE  TypeInv'
<1>1. PICK h \in Hosts :
        /\ AllocatePeerIp(h)
        /\ call' = [op |-> "create", peers |-> {p}, todo |-> {"table", "config", "sync"},
                    table |-> [[q \in PeerIds |->
                                  IF table[q] # None /\ table[q].name = n THEN None ELSE table[q]]
                               EXCEPT ![p] = [name |-> n, expires |-> x, ip |-> h]],
                    config |-> [config EXCEPT ![p] = h]]
        /\ lent' = lent \cup {q \in Labelled(table) : config[q] = Blocked /\ table[q].ip = h}
    BY DEF CreateClient
<1>2. h # ServerHost
    BY <1>1 DEF AllocatePeerIp, FreeHosts
<1>3. [name |-> n, expires |-> x, ip |-> h] \in Entry
    BY DEF Entry
<1>4. call'.table \in Table /\ call'.config \in Config
    BY <1>1, <1>3 DEF TypeInv, TypeOK, Table, Config
<1>5. call' \in Call
    BY <1>1, <1>4 DEF Call, Ops
<1>6. Restored' = Restored
    BY DEF CreateClient, TypeInv, TypeOK, Restored
<1>7. ServerHostIsOwn'
    BY <1>1, <1>2, <1>6 DEF CreateClient, TypeInv, TypeOK, ServerHostIsOwn, Table, Config
<1> QED
    BY <1>1, <1>5, <1>7 DEF CreateClient, TypeInv, TypeOK, Stages, Labelled, ServerHostIsOwn, CallAims

LEMMA UpdateType ==
    ASSUME TypeInv, NEW p \in PeerIds, NEW x \in Times \cup {Keep},
           NEW s \in {"active", "disabled", Keep}, UpdateClient(p, x, s)
    PROVE  TypeInv'
<1> DEFINE dated == IF x = Keep THEN table[p] ELSE [table[p] EXCEPT !.expires = x]
           entry == Remember(dated, config[p])
           target == Target(entry, x, s)
           change == target # None /\ config[p] # None /\ target # config[p]
<1>1. /\ table[p] # None
      /\ table' = [table EXCEPT ![p] = dated]
      /\ call' = [op |-> "update", peers |-> {p},
                  todo |-> (IF entry # dated THEN {"table"} ELSE {})
                           \cup (IF change THEN {"config", "sync"} ELSE {}),
                  table |-> [table EXCEPT ![p] = entry],
                  config |-> IF change THEN [config EXCEPT ![p] = target] ELSE config]
      /\ UNCHANGED <<config, live, now, stage, failures, lent>>
    BY DEF UpdateClient
<1>2. dated \in Entry /\ (p \notin Restored => dated.ip # ServerHost)
    BY <1>1 DEF TypeInv, TypeOK, ServerHostIsOwn, Table, Entry
<1>3. entry \in Entry /\ (p \notin Restored => entry.ip # ServerHost)
    <2> HIDE DEF dated
    <2> QED
        BY <1>2, RememberType DEF TypeInv, TypeOK, ServerHostIsOwn
<1>4. target \in Hosts \cup {Blocked, None} /\ (p \notin Restored => target # ServerHost)
    BY <1>3, HostFacts DEF Target, Entry
<1> HIDE DEF dated, entry, target
<1>5. table' \in Table /\ call'.table \in Table /\ call'.config \in Config
    BY <1>1, <1>2, <1>3, <1>4 DEF TypeInv, TypeOK, Table, Config
<1>6. call' \in Call
    BY <1>1, <1>5 DEF Call, Ops
<1>7. ServerHostIsOwn'
    BY <1>1, <1>2, <1>3, <1>4, SameRestored DEF TypeInv, TypeOK, ServerHostIsOwn, Table, Config
<1> QED
    BY <1>1, <1>5, <1>6, <1>7, SameRestored DEF TypeInv, TypeOK, ServerHostIsOwn, CallAims

LEMMA DeleteType ==
    ASSUME TypeInv, NEW p \in PeerIds, DeleteClient(p)
    PROVE  TypeInv'
<1>1. call'.table \in Table /\ call'.config \in Config
    BY DEF DeleteClient, TypeInv, TypeOK, Table, Config
<1>2. call' \in Call
    BY <1>1 DEF DeleteClient, Call, Ops, DeleteWrites
<1>3. ServerHostIsOwn'
    BY HostFacts, SameRestored DEF DeleteClient, TypeInv, TypeOK, ServerHostIsOwn, Table, Config
<1>4. CallAims'
    BY <1>1 DEF DeleteClient, DeleteWrites, CallAims, TypeInv, TypeOK, Table, Config
<1> QED
    BY <1>2, <1>3, <1>4, SameRestored DEF DeleteClient, TypeInv, TypeOK, ServerHostIsOwn

LEMMA SweepType ==
    ASSUME TypeInv, DisableExpired
    PROVE  TypeInv'
<1> DEFINE due == {p \in PeerIds : Expired(table[p])}
           blocked == [p \in PeerIds |-> IF p \in due /\ config[p] # None THEN Blocked ELSE config[p]]
           entries == [p \in PeerIds |-> IF p \in due THEN Remember(table[p], config[p]) ELSE table[p]]
<1>1. /\ call' = [op |-> "disable", peers |-> due,
                  todo |-> (IF entries # table THEN {"table"} ELSE {})
                           \cup (IF blocked # config THEN {"config", "sync"} ELSE {}),
                  table |-> entries, config |-> blocked]
      /\ UNCHANGED <<table, config, live, now, stage, failures, lent>>
    BY DEF DisableExpired
<1>2. \A p \in due : entries[p] \in Entry /\ (p \notin Restored => entries[p].ip # ServerHost)
    BY RememberType DEF TypeInv, TypeOK, ServerHostIsOwn, Table, Expired
<1>3. entries \in Table /\ blocked \in Config
    BY <1>2 DEF TypeInv, TypeOK, Table, Config
<1>4. \A p \in PeerIds \ Restored :
        blocked[p] # ServerHost /\ (entries[p] # None => entries[p].ip # ServerHost)
    BY <1>2, HostFacts DEF TypeInv, ServerHostIsOwn
<1> HIDE DEF due, entries, blocked
<1>5. call' \in Call
    <2>1. due \in SUBSET PeerIds
        BY DEF due
    <2> QED
        BY <1>1, <1>3, <2>1 DEF Call, Ops
<1>6. ServerHostIsOwn'
    BY <1>1, <1>4, SameRestored DEF TypeInv, ServerHostIsOwn
<1> QED
    BY <1>1, <1>5, <1>6, SameRestored DEF TypeInv, TypeOK, ServerHostIsOwn, CallAims

LEMMA ImportType ==
    ASSUME TypeInv, NEW b \in Backups, ImportBackup(b)
    PROVE  TypeInv'
<1>1. b.table \in Table /\ b.config \in Config
    BY BackupsAssumption
<1>2. call' \in Call
    BY <1>1 DEF ImportBackup, Call, Ops
<1>3. stage' \in [PeerIds -> Stages]
    BY DEF ImportBackup, TypeInv, TypeOK, Stages
<1>4. Restored' = Restored \cup Configured(b.config) \cup Labelled(b.table)
    BY DEF ImportBackup, Restored, Configured, Labelled
<1>5. ServerHostIsOwn'
    BY <1>4, HostFacts DEF ImportBackup, TypeInv, ServerHostIsOwn, Configured, Labelled
<1> QED
    BY <1>2, <1>3, <1>4, <1>5 DEF ImportBackup, TypeInv, TypeOK, ServerHostIsOwn, CallAims

LEMMA TypeStep ==
    ASSUME TypeInv, [Next]_vars
    PROVE  TypeInv'
<1>1. CASE Requests
    BY <1>1, CreateType, UpdateType, DeleteType, SweepType, ImportType DEF Requests
<1>2. CASE WriteTable
    BY <1>2, SameRestored DEF WriteTable, TypeInv, TypeOK, ServerHostIsOwn, CallAims, Call
<1>3. CASE WriteConfig
    BY <1>3, SameRestored DEF WriteConfig, TypeInv, TypeOK, ServerHostIsOwn, CallAims, Call
<1>4. CASE SyncConfig
    BY <1>4, SameRestored DEF SyncConfig, files, TypeInv, TypeOK, ServerHostIsOwn, CallAims, Call
<1>0. Idle \in Call /\ \A p \in PeerIds : Idle.config[p] # ServerHost /\ Idle.table[p] = None
    BY HostFacts DEF Idle, Call, Ops, NoTable, Table, Config
<1>5. CASE Answer
    <2>1. stage' \in [PeerIds -> Stages] /\ UNCHANGED <<table, config>> /\ call' = Idle
        BY <1>5 DEF Answer, Told, files, TypeInv, TypeOK, Stages, Call, Ops
    <2>2. ASSUME NEW p \in PeerIds, p \in Restored, p \notin Restored'
          PROVE  table[p] = None /\ config[p] = None
        <3>1. call.op = "delete" /\ p \in call.peers
            BY <1>5, <2>2 DEF Answer, Restored, Told, TypeInv, CallAims
        <3> QED
            BY <1>5, <3>1 DEF Answer, TypeInv, CallAims
    <2>3. ServerHostIsOwn'
        BY <1>0, <2>1, <2>2, HostFacts DEF TypeInv, ServerHostIsOwn
    <2>4. CallAims'
        BY <2>1 DEF CallAims, Idle
    <2> QED
        BY <1>5, <1>0, <2>1, <2>3, <2>4 DEF Answer, files, TypeInv, TypeOK, ServerHostIsOwn, CallAims
<1>6. CASE Fail
    BY <1>6, <1>0, BoundsAssumption, SameRestored DEF Fail, files, TypeInv, TypeOK, ServerHostIsOwn, CallAims, Idle
<1>7. CASE Restart
    BY <1>7, SameRestored DEF Restart, files, TypeInv, TypeOK, ServerHostIsOwn, CallAims
<1>8. CASE Tick
    BY <1>8, BoundsAssumption, SameRestored DEF Tick, files, TypeInv, TypeOK, ServerHostIsOwn, CallAims, Times
<1>9. CASE \E p \in PeerIds : RevokeFindsNone(p)
    <2>1. Restored' = Restored
        BY <1>9 DEF RevokeFindsNone, Restored, TypeInv, TypeOK
    <2> QED
        BY <1>9, <2>1 DEF RevokeFindsNone, files, TypeInv, TypeOK, ServerHostIsOwn, CallAims, Stages
<1>10. CASE UNCHANGED vars
    BY <1>10, SameRestored DEF vars, files, TypeInv, TypeOK, ServerHostIsOwn, CallAims
<1> QED
    BY <1>1, <1>2, <1>3, <1>4, <1>5, <1>6, <1>7, <1>8, <1>9, <1>10
    DEF Next, Writes, Environment

\* The tables, the configuration and the call in progress stay well formed,
\* and no peer gets the interface's own address.
THEOREM TypeCorrect == Spec => []TypeOK
<1>1. Init => TypeInv
    BY TypeInit
<1>2. TypeInv /\ [Next]_vars => TypeInv'
    BY TypeStep
<1>3. TypeInv => TypeOK
    BY DEF TypeInv
<1> QED
    BY <1>1, <1>2, <1>3, PTL DEF Spec

-----------------------------------------------------------------------------
(* What the call in progress has read, written and still to write          *)

\* Labels are unique, and a configured peer has one, but for what a backup brought.
Labels ==
    /\ \A p \in PeerIds \ Restored : config[p] # None => table[p] # None
    /\ \A p, q \in PeerIds \ Restored :
          table[p] # None /\ table[q] # None /\ table[p].name = table[q].name => p = q

\* A key that was not used yet is nowhere.
FreshIsNew ==
    \A p \in PeerIds : stage[p] = "fresh" => table[p] = None /\ config[p] = None /\ live[p] = None

\* What a call does not write is as it read it, what it has written is there.
CallIsCurrent ==
    IF Free THEN call = Idle
    ELSE /\ "table" \notin call.todo => table = call.table
         /\ "config" \notin call.todo => config = call.config
         /\ call.op # "import" => \A p \in PeerIds \ call.peers : call.config[p] = config[p]
         /\ \A p \in call.peers : stage[p] \notin {"fresh", "deleted"}

CreatePlan ==
    call.op = "create" =>
        \E p \in PeerIds, n \in Names :
            /\ call.peers = {p}
            /\ stage[p] = "made"
            /\ call.config[p] \in Hosts
            /\ call.table[p] \in Entry /\ call.table[p].name = n /\ call.table[p].ip = call.config[p]
            /\ "table" \in call.todo => table[p] = None /\ "config" \in call.todo
            /\ "config" \in call.todo => config[p] = None
            /\ \A q \in PeerIds \ {p} :
                  /\ call.table[q] = IF table[q] # None /\ table[q].name = n THEN None ELSE table[q]
                  /\ table[q] # None /\ table[q].name = n => config[q] = None

\* The address of a peer, and what the table says of it, fit together.
Fits(e, a) ==
    /\ a = Blocked => e.ip # None
    /\ a \in Hosts => e.ip \in {None, a}

EditPlan ==
    call.op \in {"update", "disable"} =>
        /\ call.op = "update" => \E p \in PeerIds : call.peers = {p}
        /\ call.op = "disable" => \A q \in call.peers : call.config[q] \in {Blocked, None}
        /\ \A q \in PeerIds \ call.peers : call.table[q] = table[q]
        /\ \A q \in call.peers :
              /\ table[q] # None /\ call.table[q] # None /\ call.table[q].name = table[q].name
              /\ call.config[q] = None <=> config[q] = None
              /\ q \notin Restored =>
                    Fits(call.table[q], call.config[q]) /\ Fits(call.table[q], config[q])

DeletePlan ==
    call.op = "delete" =>
        \E p \in PeerIds :
            /\ call.peers = {p}
            /\ call.table[p] = None /\ call.config[p] = None
            /\ \A q \in PeerIds \ {p} : call.table[q] = table[q]
            /\ "sync" \notin call.todo => live[p] = None /\ "config" \notin call.todo

ImportPlan ==
    call.op = "import" =>
        /\ call.peers = {}
        /\ \A p \in PeerIds \ Restored : call.table[p] = None /\ call.config[p] = None

Plan == CallIsCurrent /\ CreatePlan /\ EditPlan /\ DeletePlan /\ ImportPlan

NodeInv == TypeInv /\ Labels /\ FreshIsNew /\ AddressIsRemembered /\ DeletedIsCutOff /\ Plan

LEMMA EntryFacts ==
    ASSUME TypeInv
    PROVE  \A p \in PeerIds :
              /\ table[p] # None => table[p] \in Entry /\ table[p].name \in Names
              /\ call.table[p] # None => call.table[p] \in Entry /\ call.table[p].name \in Names
              /\ config[p] \in Hosts \cup {Blocked, None}
              /\ call.config[p] \in Hosts \cup {Blocked, None}
BY DEF TypeInv, TypeOK, Table, Config, Call, Entry

LEMMA NodeInit ==
    ASSUME Init
    PROVE  NodeInv
<1>0. TypeInv /\ \A p \in PeerIds : NoTable[p] = None
    BY TypeInit DEF NoTable
<1>1. call = Idle /\ call.op = "none" /\ live = config
    BY DEF Init, Idle
<1>2. Plan
    BY <1>1 DEF Plan, CallIsCurrent, CreatePlan, EditPlan, DeletePlan, ImportPlan, Free
<1>3. CASE table = NoTable /\ config = NoTable
    BY <1>0, <1>1, <1>2, <1>3, HostFacts
    DEF Init, NodeInv, Labels, FreshIsNew, AddressIsRemembered, DeletedIsCutOff
<1>4. ASSUME NEW p \in PeerIds, NEW n \in Names, NEW h \in Hosts \ {ServerHost},
             table = [NoTable EXCEPT ![p] = [name |-> n, expires |-> 0, ip |-> None]],
             config = [NoTable EXCEPT ![p] = h]
      PROVE  NodeInv
    <2>1. /\ \A q \in PeerIds \ {p} : table[q] = None /\ config[q] = None
          /\ table[p] = [name |-> n, expires |-> 0, ip |-> None] /\ config[p] = h
        BY <1>4, <1>0 DEF NoTable
    <2>2. table[p] # None /\ table[p].ip = None /\ h # Blocked /\ h # None
        BY <2>1, <1>0, EntryAssumption, BoundsAssumption, HostFacts DEF Entry, Times
    <2> QED
        BY <1>0, <1>1, <1>2, <2>1, <2>2, HostFacts
        DEF Init, NodeInv, Labels, FreshIsNew, AddressIsRemembered, DeletedIsCutOff
<1> QED
    BY <1>3, <1>4 DEF Init

LEMMA NodeCreate ==
    ASSUME NodeInv, TypeInv', NEW n \in Names, NEW p \in PeerIds, NEW x \in Times,
           CreateClient(n, p, x)
    PROVE  NodeInv'
<1> DEFINE others == [q \in PeerIds |->
                         IF table[q] # None /\ table[q].name = n THEN None ELSE table[q]]
<1>1. PICK h \in Hosts :
        call' = [op |-> "create", peers |-> {p}, todo |-> {"table", "config", "sync"},
                 table |-> [others EXCEPT ![p] = [name |-> n, expires |-> x, ip |-> h]],
                 config |-> [config EXCEPT ![p] = h]]
    BY DEF CreateClient
<1>2. /\ stage' = [stage EXCEPT ![p] = "made"] /\ stage[p] = "fresh"
      /\ UNCHANGED <<table, config, live>>
    BY DEF CreateClient
<1>3. table[p] = None /\ config[p] = None /\ stage'[p] = "made"
    BY <1>2 DEF NodeInv, FreshIsNew, TypeInv, TypeOK
<1>4. \A q \in PeerIds \ {p} : stage'[q] = stage[q]
    BY <1>2 DEF NodeInv, TypeInv, TypeOK
<1>5. config \in [PeerIds -> Hosts \cup {Blocked, None}]
    BY DEF NodeInv, TypeInv, TypeOK, Config
<1>6. CreatePlan'
    <2>1. call'.config[p] = h /\ call'.table[p] = [name |-> n, expires |-> x, ip |-> h]
        BY <1>1, <1>5
    <2>2. call'.table[p] \in Entry
        BY <2>1 DEF Entry
    <2>3. \A q \in PeerIds \ {p} :
            /\ call'.table[q] = IF table[q] # None /\ table[q].name = n THEN None ELSE table[q]
            /\ table[q] # None /\ table[q].name = n => config[q] = None
        BY <1>1 DEF CreateClient, NameFree, Configured, Labelled
    <2> QED
        BY <1>1, <1>2, <1>3, <2>1, <2>2, <2>3 DEF CreatePlan
<1>7. CallIsCurrent'
    BY <1>1, <1>2, <1>3, <1>5 DEF CallIsCurrent, Free
<1>8. EditPlan' /\ DeletePlan' /\ ImportPlan'
    BY <1>1 DEF EditPlan, DeletePlan, ImportPlan
<1>9. Restored' = Restored
    BY <1>2, <1>3, <1>4 DEF Restored
<1> QED
    BY <1>2, <1>3, <1>4, <1>6, <1>7, <1>8, <1>9
    DEF NodeInv, Plan, Labels, FreshIsNew, AddressIsRemembered, DeletedIsCutOff

LEMMA NodeUpdate ==
    ASSUME NodeInv, TypeInv', NEW p \in PeerIds, NEW x \in Times \cup {Keep},
           NEW s \in {"active", "disabled", Keep}, UpdateClient(p, x, s)
    PROVE  NodeInv'
<1> DEFINE dated == IF x = Keep THEN table[p] ELSE [table[p] EXCEPT !.expires = x]
           entry == Remember(dated, config[p])
           target == Target(entry, x, s)
           change == target # None /\ config[p] # None /\ target # config[p]
<1>1. /\ table[p] # None
      /\ table' = [table EXCEPT ![p] = dated]
      /\ call' = [op |-> "update", peers |-> {p},
                  todo |-> (IF entry # dated THEN {"table"} ELSE {})
                           \cup (IF change THEN {"config", "sync"} ELSE {}),
                  table |-> [table EXCEPT ![p] = entry],
                  config |-> IF change THEN [config EXCEPT ![p] = target] ELSE config]
      /\ UNCHANGED <<config, live, now, stage, failures, lent>>
    BY DEF UpdateClient
<1>2. /\ dated \in Entry /\ dated.ip = table[p].ip /\ dated.name = table[p].name
    BY <1>1 DEF NodeInv, TypeInv, TypeOK, Table, Entry
<1>3. /\ entry \in Entry /\ entry.name = table[p].name
      /\ config[p] = Blocked => entry.ip = dated.ip
      /\ config[p] \in Hosts => entry.ip # None
      /\ dated.ip \in {None, config[p]} => entry.ip \in {None, config[p]}
    <2> HIDE DEF dated
    <2> QED
        BY <1>2, RememberType
<1>4. p \notin Restored => Fits(dated, config[p]) /\ Fits(entry, config[p])
    BY <1>2, <1>3 DEF NodeInv, AddressIsRemembered, Fits
<1>5. change => target \in Hosts \cup {Blocked} /\ (p \notin Restored => Fits(entry, target))
    <2>1. target \in {Blocked, entry.ip, None}
        BY DEF Target
    <2>2. config[p] \in Hosts \cup {Blocked, None} /\ entry.ip \in Hosts \cup {None}
        BY <1>3, EntryFacts DEF NodeInv, Entry
    <2> QED
        BY <1>3, <1>4, <2>1, <2>2, HostFacts DEF Fits
<1> HIDE DEF dated, entry, target
<1>6. /\ table \in Table /\ config \in Config
      /\ dated # None /\ entry # None
      /\ table'[p] = dated /\ \A q \in PeerIds \ {p} : table'[q] = table[q]
    BY <1>1, <1>2, <1>3, EntryAssumption DEF NodeInv, TypeInv, TypeOK, Table
<1>7. CallIsCurrent'
    <2>1. \A q \in PeerIds \ {p} : call'.config[q] = config[q]
        BY <1>1, <1>6 DEF Config
    <2>2. stage[p] \notin {"fresh", "deleted"}
        BY <1>1 DEF NodeInv, FreshIsNew, DeletedIsCutOff
    <2>3. "table" \notin call'.todo => table' = call'.table
        BY <1>1
    <2>4. "config" \notin call'.todo => config' = call'.config
        BY <1>1
    <2> QED
        BY <1>1, <2>1, <2>2, <2>3, <2>4 DEF CallIsCurrent, Free
<1>8. EditPlan'
    <2>1. call'.table[p] = entry /\ \A q \in PeerIds \ {p} : call'.table[q] = table[q]
        BY <1>1, <1>6 DEF Table
    <2>2. call'.config[p] = IF change THEN target ELSE config[p]
        BY <1>1, <1>6 DEF Config
    <2>3. call'.config[p] = None <=> config[p] = None
        BY <2>2, <1>5, HostFacts
    <2>4. p \notin Restored =>
            Fits(call'.table[p], call'.config[p]) /\ Fits(call'.table[p], config[p])
        BY <2>1, <2>2, <1>4, <1>5
    <2> QED
        BY <1>1, <1>2, <1>3, <1>6, <2>1, <2>3, <2>4, SameRestored DEF EditPlan, Fits
<1>9. CreatePlan' /\ DeletePlan' /\ ImportPlan'
    BY <1>1 DEF CreatePlan, DeletePlan, ImportPlan
<1>10. Labels'
    BY <1>1, <1>2, <1>6, SameRestored DEF NodeInv, Labels
<1>11. AddressIsRemembered'
    BY <1>1, <1>2, <1>6, SameRestored DEF NodeInv, AddressIsRemembered
<1>12. FreshIsNew' /\ DeletedIsCutOff'
    BY <1>1, <1>6 DEF NodeInv, FreshIsNew, DeletedIsCutOff
<1> QED
    BY <1>7, <1>8, <1>9, <1>10, <1>11, <1>12 DEF NodeInv, Plan

LEMMA NodeDelete ==
    ASSUME NodeInv, TypeInv', NEW p \in PeerIds, DeleteClient(p)
    PROVE  NodeInv'
<1>1. /\ call' = [op |-> "delete", peers |-> {p}, todo |-> DeleteWrites(p),
                  table |-> [table EXCEPT ![p] = None], config |-> [config EXCEPT ![p] = None]]
      /\ UNCHANGED <<table, config, live, stage>>
      /\ table[p] # None \/ config[p] # None
    BY DEF DeleteClient
<1>2. table \in Table /\ config \in Config
    BY DEF NodeInv, TypeInv, TypeOK
<1>3. /\ call'.table[p] = None /\ call'.config[p] = None
      /\ \A q \in PeerIds \ {p} : call'.table[q] = table[q] /\ call'.config[q] = config[q]
    BY <1>1, <1>2 DEF Table, Config
<1>4. "table" \notin call'.todo => call'.table = table
    BY <1>1, <1>2 DEF DeleteWrites, Table
<1>5. "config" \notin call'.todo => call'.config = config
    BY <1>1, <1>2 DEF DeleteWrites, Config
<1>6. stage[p] \notin {"fresh", "deleted"}
    BY <1>1 DEF NodeInv, FreshIsNew, DeletedIsCutOff
<1>7. CallIsCurrent'
    BY <1>1, <1>3, <1>4, <1>5, <1>6 DEF CallIsCurrent, Free
<1>8. DeletePlan'
    BY <1>1, <1>3 DEF DeletePlan, DeleteWrites
<1>9. CreatePlan' /\ EditPlan' /\ ImportPlan'
    BY <1>1 DEF CreatePlan, EditPlan, ImportPlan
<1> QED
    BY <1>1, <1>7, <1>8, <1>9, SameRestored
    DEF NodeInv, Plan, Labels, FreshIsNew, AddressIsRemembered, DeletedIsCutOff

LEMMA NodeSweep ==
    ASSUME NodeInv, TypeInv', DisableExpired
    PROVE  NodeInv'
<1> DEFINE due == {p \in PeerIds : Expired(table[p])}
           blocked == [p \in PeerIds |-> IF p \in due /\ config[p] # None THEN Blocked ELSE config[p]]
           entries == [p \in PeerIds |-> IF p \in due THEN Remember(table[p], config[p]) ELSE table[p]]
<1>1. /\ call' = [op |-> "disable", peers |-> due,
                  todo |-> (IF entries # table THEN {"table"} ELSE {})
                           \cup (IF blocked # config THEN {"config", "sync"} ELSE {}),
                  table |-> entries, config |-> blocked]
      /\ UNCHANGED <<table, config, live, now, stage, failures, lent>>
    BY DEF DisableExpired
<1>2. ASSUME NEW q \in due
      PROVE  /\ table[q] # None /\ entries[q] # None /\ entries[q].name = table[q].name
             /\ blocked[q] = None <=> config[q] = None
             /\ blocked[q] \in {Blocked, None}
             /\ q \notin Restored => Fits(entries[q], blocked[q]) /\ Fits(entries[q], config[q])
    <2>1. q \in PeerIds /\ table[q] # None
        BY DEF Expired
    <2>2. table[q] \in Entry
        BY <2>1, EntryFacts DEF NodeInv
    <2>3. /\ entries[q] \in Entry /\ entries[q].name = table[q].name
          /\ config[q] = Blocked => entries[q].ip = table[q].ip
          /\ config[q] \in Hosts => entries[q].ip # None
          /\ table[q].ip \in {None, config[q]} => entries[q].ip \in {None, config[q]}
        BY <2>1, <2>2, RememberType
    <2>4. config[q] \in Hosts \cup {Blocked, None}
        BY <2>1, EntryFacts DEF NodeInv
    <2>5. blocked[q] = IF config[q] # None THEN Blocked ELSE None
        BY <2>1
    <2>6. q \notin Restored => Fits(table[q], config[q])
        BY <2>1 DEF NodeInv, AddressIsRemembered, Fits
    <2> HIDE DEF blocked, entries, due
    <2> QED
        BY <2>1, <2>3, <2>4, <2>5, <2>6, HostFacts, EntryAssumption DEF Fits
<1>3. \A q \in PeerIds \ due : entries[q] = table[q] /\ blocked[q] = config[q]
    OBVIOUS
<1>4. \A q \in due : q \in PeerIds /\ stage[q] \notin {"fresh", "deleted"}
    BY <1>2 DEF NodeInv, FreshIsNew, DeletedIsCutOff
<1> HIDE DEF due, blocked, entries
<1>5. CallIsCurrent'
    BY <1>1, <1>3, <1>4 DEF CallIsCurrent, Free
<1>6. EditPlan'
    BY <1>1, <1>2, <1>3, <1>4, SameRestored DEF EditPlan, Fits
<1>7. CreatePlan' /\ DeletePlan' /\ ImportPlan'
    BY <1>1 DEF CreatePlan, DeletePlan, ImportPlan
<1> QED
    BY <1>1, <1>5, <1>6, <1>7, SameRestored
    DEF NodeInv, Plan, Labels, FreshIsNew, AddressIsRemembered, DeletedIsCutOff

LEMMA NodeImport ==
    ASSUME NodeInv, TypeInv', NEW b \in Backups, ImportBackup(b)
    PROVE  NodeInv' /\ \E S \in SUBSET PeerIds : Files!Bring(S)
<1> DEFINE S == Configured(b.config) \cup Labelled(b.table)
<1>1. /\ call' = [op |-> "import", peers |-> {}, todo |-> {"config", "table", "sync"},
                  table |-> b.table, config |-> b.config]
      /\ stage' = [p \in PeerIds |-> IF p \in S THEN "restored" ELSE stage[p]]
      /\ UNCHANGED <<table, config, live>>
    BY DEF ImportBackup
<1>2. S \subseteq PeerIds
    BY DEF Configured, Labelled
<1>3. Restored' = Restored \cup S
    BY <1>1, <1>2 DEF Restored
<1>4. ImportPlan'
    BY <1>1, <1>3 DEF ImportPlan, Configured, Labelled
<1>5. CallIsCurrent' /\ CreatePlan' /\ EditPlan' /\ DeletePlan'
    BY <1>1 DEF CallIsCurrent, CreatePlan, EditPlan, DeletePlan, Free
<1>6. Labels' /\ AddressIsRemembered'
    BY <1>1, <1>3 DEF NodeInv, Labels, AddressIsRemembered
<1>7. FreshIsNew' /\ DeletedIsCutOff'
    BY <1>1 DEF NodeInv, FreshIsNew, DeletedIsCutOff
<1>8. Files!Bring(S)
    BY <1>1, <1>3 DEF Files!Bring, NameOf, AccessOf
<1> QED
    BY <1>2, <1>4, <1>5, <1>6, <1>7, <1>8 DEF NodeInv, Plan

LEMMA NodeWriteTable ==
    ASSUME NodeInv, TypeInv', WriteTable
    PROVE  NodeInv' /\ [Files!Next]_(Files!vars)
<1>1. /\ "table" \in call.todo /\ TableTurn /\ table' = call.table
      /\ call' = [call EXCEPT !.todo = @ \ {"table"}]
      /\ UNCHANGED <<config, live, stage>>
      /\ call \in Call /\ call.op # "none"
    BY DEF WriteTable, NodeInv, TypeInv, TypeOK, Plan, CallIsCurrent, Free, Idle
<1>0. Restored' = Restored
    BY <1>1, SameRestored
<1>2. /\ call'.op = call.op /\ call'.peers = call.peers
      /\ call'.todo = call.todo \ {"table"}
      /\ call'.table = call.table /\ call'.config = call.config
    BY <1>1 DEF Call

<1>3. AccessOf' = AccessOf
    BY <1>1 DEF AccessOf
<1>4. CallIsCurrent'
    BY <1>1, <1>2 DEF NodeInv, Plan, CallIsCurrent, Free
<1>5. CASE call.op = "create"
    <2>1. PICK p \in PeerIds, n \in Names :
            /\ call.peers = {p}
            /\ stage[p] = "made"
            /\ call.config[p] \in Hosts
            /\ call.table[p] \in Entry /\ call.table[p].name = n /\ call.table[p].ip = call.config[p]
            /\ table[p] = None /\ "config" \in call.todo
            /\ config[p] = None
            /\ \A q \in PeerIds \ {p} :
                  /\ call.table[q] = IF table[q] # None /\ table[q].name = n THEN None ELSE table[q]
                  /\ table[q] # None /\ table[q].name = n => config[q] = None
        BY <1>1, <1>5 DEF NodeInv, Plan, CreatePlan
    <2>2. CreatePlan'
        <3>1. \A q \in PeerIds \ {p} : ~(call.table[q] # None /\ call.table[q].name = n)
            BY <2>1
        <3> QED
            BY <1>1, <1>2, <2>1, <3>1 DEF CreatePlan
    <2>3. Labels' /\ AddressIsRemembered'
        BY <1>0, <1>1, <2>1, EntryAssumption, HostFacts DEF NodeInv, Labels, AddressIsRemembered
    <2>4. FreshIsNew' /\ DeletedIsCutOff'
        BY <1>1, <2>1 DEF NodeInv, FreshIsNew, DeletedIsCutOff
    <2>5. Files!Label(n, p)
        <3>1. NameOf[p] = None /\ AccessOf[p] = "none"
            BY <2>1 DEF NameOf, AccessOf
        <3>2. \A q \in PeerIds : AccessOf[q] # "none" => NameOf[q] # n
            BY <2>1, NoneAssumption DEF NameOf, AccessOf
        <3>3. NameOf' = [q \in PeerIds |-> IF q = p THEN n ELSE IF NameOf[q] = n THEN None ELSE NameOf[q]]
            <4>1. \A q \in PeerIds :
                    NameOf'[q] = IF q = p THEN n ELSE IF NameOf[q] = n THEN None ELSE NameOf[q]
                BY <1>1, <2>1, EntryAssumption, NoneAssumption DEF NameOf
            <4> QED
                BY <4>1 DEF NameOf
        <3> QED
            BY <1>0, <1>3, <3>1, <3>2, <3>3 DEF Files!Label, Files!Exposed
    <2> QED
        BY <1>2, <1>4, <1>5, <2>2, <2>3, <2>4, <2>5
        DEF NodeInv, Plan, EditPlan, DeletePlan, ImportPlan, Files!Next
<1>6. CASE call.op \in {"update", "disable"}
    <2>0. /\ call.op = "update" => \E p \in PeerIds : call.peers = {p}
          /\ call.op = "disable" => \A q \in call.peers : call.config[q] \in {Blocked, None}
        BY <1>6 DEF NodeInv, Plan, EditPlan
    <2>1. /\ \A q \in PeerIds \ call.peers : call.table[q] = table[q]
          /\ \A q \in call.peers :
                /\ table[q] # None /\ call.table[q] # None /\ call.table[q].name = table[q].name
                /\ call.config[q] = None <=> config[q] = None
                /\ q \notin Restored =>
                      Fits(call.table[q], call.config[q]) /\ Fits(call.table[q], config[q])
        BY <1>6 DEF NodeInv, Plan, EditPlan
    <2>2. call.peers \subseteq PeerIds
        BY <1>1 DEF Call
    <2>3. EditPlan'
        BY <1>0, <1>1, <1>2, <2>0, <2>1 DEF EditPlan, Fits
    <2>4. \A q \in PeerIds :
            /\ call.table[q] = None <=> table[q] = None
            /\ table[q] # None => call.table[q].name = table[q].name
        BY <2>1
    <2>5. Labels' /\ FreshIsNew' /\ DeletedIsCutOff'
        BY <1>0, <1>1, <2>4 DEF NodeInv, Labels, FreshIsNew, DeletedIsCutOff
    <2>6. AddressIsRemembered'
        BY <1>0, <1>1, <2>1, <2>4 DEF NodeInv, AddressIsRemembered, Fits
    <2>7. NameOf' = NameOf
        BY <1>1, <2>4 DEF NameOf
    <2> QED
        BY <1>0, <1>2, <1>3, <1>4, <1>6, <2>3, <2>5, <2>6, <2>7
        DEF NodeInv, Plan, CreatePlan, DeletePlan, ImportPlan, Files!vars
<1>7. CASE call.op = "delete"
    <2>1. PICK p \in PeerIds :
            /\ call.peers = {p}
            /\ call.table[p] = None /\ call.config[p] = None
            /\ \A q \in PeerIds \ {p} : call.table[q] = table[q]
            /\ "sync" \notin call.todo => live[p] = None /\ "config" \notin call.todo
        BY <1>7 DEF NodeInv, Plan, DeletePlan
    <2>2. call.todo = {"table"}
        BY <1>1, <1>7 DEF TableTurn
    <2>3. config[p] = None
        BY <1>1, <2>1, <2>2 DEF NodeInv, Plan, CallIsCurrent, Free
    <2>4. DeletePlan'
        BY <1>1, <1>2, <2>1, <2>2 DEF DeletePlan
    <2>5. Labels' /\ FreshIsNew' /\ DeletedIsCutOff' /\ AddressIsRemembered'
        BY <1>0, <1>1, <2>1, <2>3, HostFacts
        DEF NodeInv, Labels, FreshIsNew, DeletedIsCutOff, AddressIsRemembered
    <2>6. Files!Unlabel(p)
        <3>1. NameOf' = [NameOf EXCEPT ![p] = None]
            BY <1>1, <2>1 DEF NameOf
        <3> QED
            BY <1>0, <1>3, <2>3, <3>1 DEF Files!Unlabel, AccessOf
    <2> QED
        BY <1>2, <1>4, <1>7, <2>4, <2>5, <2>6
        DEF NodeInv, Plan, CreatePlan, EditPlan, ImportPlan, Files!Next
<1>8. CASE call.op = "import"
    <2>1. /\ "config" \notin call.todo /\ config = call.config /\ call.peers = {}
          /\ \A p \in PeerIds \ Restored : call.table[p] = None /\ call.config[p] = None
        BY <1>1, <1>8 DEF TableTurn, NodeInv, Plan, CallIsCurrent, ImportPlan, Free
    <2>2. ImportPlan'
        BY <1>0, <1>2, <2>1 DEF ImportPlan
    <2>3. Labels' /\ AddressIsRemembered'
        BY <1>0, <1>1, <2>1, HostFacts DEF Labels, AddressIsRemembered
    <2>4. FreshIsNew' /\ DeletedIsCutOff'
        BY <1>1, <2>1 DEF NodeInv, FreshIsNew, DeletedIsCutOff, Restored
    <2>5. Files!Rename
        <3>1. Files!Exposed \subseteq Restored
            BY <2>1 DEF Files!Exposed, AccessOf
        <3>2. NameOf' \in [PeerIds -> Names \cup {None}]
            BY <1>1, EntryFacts DEF NodeInv, NameOf
        <3>3. \A p \in PeerIds \ Restored : NameOf'[p] = None
            BY <1>1, <2>1 DEF NameOf
        <3> QED
            BY <1>0, <1>3, <3>1, <3>2, <3>3 DEF Files!Rename
    <2> QED
        BY <1>2, <1>4, <1>8, <2>2, <2>3, <2>4, <2>5
        DEF NodeInv, Plan, CreatePlan, EditPlan, DeletePlan, Files!Next
<1> QED
    BY <1>1, <1>5, <1>6, <1>7, <1>8 DEF Call, Ops

LEMMA NodeWriteConfig ==
    ASSUME NodeInv, TypeInv', WriteConfig
    PROVE  NodeInv' /\ [Files!Next]_(Files!vars)
<1>1. /\ "config" \in call.todo /\ config' = call.config
      /\ call.op = "import" \/ AfterTable
      /\ call' = [call EXCEPT !.todo = @ \ {"config"}]
      /\ UNCHANGED <<table, live, stage>>
      /\ call \in Call /\ call.op # "none"
    BY DEF WriteConfig, NodeInv, TypeInv, TypeOK, Plan, CallIsCurrent, Free, Idle
<1>2. /\ call'.op = call.op /\ call'.peers = call.peers
      /\ call'.todo = call.todo \ {"config"}
      /\ call'.table = call.table /\ call'.config = call.config
    BY <1>1 DEF Call
<1>0. Restored' = Restored
    BY <1>1, SameRestored
<1>3. NameOf' = NameOf
    BY <1>1 DEF NameOf
<1>4. CallIsCurrent'
    BY <1>1, <1>2 DEF NodeInv, Plan, CallIsCurrent, Free
<1>5. /\ call.op # "import" => \A q \in PeerIds \ call.peers : call.config[q] = config[q]
      /\ \A q \in call.peers : stage[q] \notin {"fresh", "deleted"}
      /\ call.op \notin {"delete", "import"} => table = call.table
      /\ call.peers \subseteq PeerIds
    BY <1>1 DEF NodeInv, Plan, CallIsCurrent, Free, AfterTable, Call
<1>6. FreshIsNew' /\ DeletedIsCutOff'
    BY <1>1, <1>5 DEF NodeInv, FreshIsNew, DeletedIsCutOff, Plan, ImportPlan, Restored
<1>7. CASE call.op = "create"
    <2>1. PICK p \in PeerIds, n \in Names :
            /\ call.peers = {p}
            /\ stage[p] = "made"
            /\ call.config[p] \in Hosts
            /\ call.table[p] \in Entry /\ call.table[p].name = n /\ call.table[p].ip = call.config[p]
            /\ "table" \in call.todo => table[p] = None /\ "config" \in call.todo
            /\ config[p] = None
            /\ \A q \in PeerIds \ {p} :
                  /\ call.table[q] = IF table[q] # None /\ table[q].name = n THEN None ELSE table[q]
                  /\ table[q] # None /\ table[q].name = n => config[q] = None
        BY <1>1, <1>7 DEF NodeInv, Plan, CreatePlan
    <2>2. "table" \notin call.todo /\ table[p] # None /\ table[p].name = n /\ table[p].ip = call.config[p]
        BY <1>1, <1>5, <1>7, <2>1, EntryAssumption DEF AfterTable
    <2>3. CreatePlan'
        <3>1. \A q \in PeerIds \ {p} : ~(table[q] # None /\ table[q].name = n)
            BY <1>5, <1>7, <2>1
        <3> QED
            BY <1>1, <1>2, <2>1, <2>2, <3>1 DEF CreatePlan
    <2>4. Labels' /\ AddressIsRemembered'
        BY <1>0, <1>1, <1>5, <1>7, <2>1, <2>2, HostFacts DEF NodeInv, Labels, AddressIsRemembered
    <2>5. Files!Expose(p)
        <3>1. AccessOf' = [AccessOf EXCEPT ![p] = "on"]
            BY <1>1, <1>5, <1>7, <2>1, HostFacts DEF AccessOf
        <3>2. NameOf[p] # None /\ AccessOf[p] = "none"
            BY <2>1, <2>2, NoneAssumption DEF NameOf, AccessOf
        <3> QED
            BY <1>0, <1>3, <3>1, <3>2 DEF Files!Expose
    <2> QED
        BY <1>2, <1>4, <1>6, <1>7, <2>3, <2>4, <2>5
        DEF NodeInv, Plan, EditPlan, DeletePlan, ImportPlan, Files!Next
<1>8. CASE call.op \in {"update", "disable"}
    <2>0. /\ call.op = "update" => \E p \in PeerIds : call.peers = {p}
          /\ call.op = "disable" => \A q \in call.peers : call.config[q] \in {Blocked, None}
        BY <1>8 DEF NodeInv, Plan, EditPlan
    <2>1. /\ \A q \in PeerIds \ call.peers : call.table[q] = table[q]
          /\ \A q \in call.peers :
                /\ table[q] # None /\ call.table[q] # None /\ call.table[q].name = table[q].name
                /\ call.config[q] = None <=> config[q] = None
                /\ q \notin Restored =>
                      Fits(call.table[q], call.config[q]) /\ Fits(call.table[q], config[q])
        BY <1>8 DEF NodeInv, Plan, EditPlan
    <2>2. EditPlan'
        BY <1>0, <1>1, <1>2, <2>0, <2>1 DEF EditPlan, Fits
    <2>3. Labels' /\ AddressIsRemembered'
        BY <1>0, <1>1, <1>5, <1>8, <2>1 DEF NodeInv, Labels, AddressIsRemembered, Fits
    <2>4. PICK to \in {"on", "off"} :
            \A q \in call.peers : call.config[q] # None => (to = "off" <=> call.config[q] = Blocked)
        BY <1>8, <2>0
    <2>5. Files!Toggle({q \in call.peers : config[q] # None}, to)
        <3> DEFINE S == {q \in call.peers : config[q] # None}
        <3>1. S \subseteq Files!Exposed
            BY <1>5, HostFacts DEF Files!Exposed, AccessOf
        <3>2. \A q \in PeerIds : AccessOf'[q] = IF q \in S THEN to ELSE AccessOf[q]
            BY <1>1, <1>5, <1>8, <2>1, <2>4 DEF AccessOf
        <3>3. AccessOf' = [q \in PeerIds |-> IF q \in S THEN to ELSE AccessOf[q]]
            BY <3>2 DEF AccessOf
        <3> QED
            BY <1>0, <1>3, <3>1, <3>3 DEF Files!Toggle
    <2>6. {q \in call.peers : config[q] # None} \in SUBSET PeerIds
        BY <1>5
    <2> QED
        BY <1>2, <1>4, <1>6, <1>8, <2>2, <2>3, <2>5, <2>6
        DEF NodeInv, Plan, CreatePlan, DeletePlan, ImportPlan, Files!Next
<1>9. CASE call.op = "delete"
    <2>1. PICK p \in PeerIds :
            /\ call.peers = {p}
            /\ call.table[p] = None /\ call.config[p] = None
            /\ \A q \in PeerIds \ {p} : call.table[q] = table[q]
            /\ "sync" \notin call.todo => live[p] = None /\ "config" \notin call.todo
        BY <1>9 DEF NodeInv, Plan, DeletePlan
    <2>2. DeletePlan'
        BY <1>1, <1>2, <2>1 DEF DeletePlan
    <2>3. Labels' /\ AddressIsRemembered'
        BY <1>0, <1>1, <1>5, <1>9, <2>1, HostFacts DEF NodeInv, Labels, AddressIsRemembered
    <2>4. Files!Withdraw(p)
        <3>1. AccessOf' = [AccessOf EXCEPT ![p] = "none"]
            BY <1>1, <1>5, <1>9, <2>1 DEF AccessOf
        <3> QED
            BY <1>0, <1>3, <3>1 DEF Files!Withdraw
    <2> QED
        BY <1>2, <1>4, <1>6, <1>9, <2>2, <2>3, <2>4
        DEF NodeInv, Plan, CreatePlan, EditPlan, ImportPlan, Files!Next
<1>10. CASE call.op = "import"
    <2>1. /\ call.peers = {}
          /\ \A p \in PeerIds \ Restored : call.table[p] = None /\ call.config[p] = None
        BY <1>10 DEF NodeInv, Plan, ImportPlan
    <2>2. ImportPlan'
        BY <1>0, <1>2, <2>1 DEF ImportPlan
    <2>3. Labels' /\ AddressIsRemembered'
        BY <1>0, <1>1, <2>1, HostFacts DEF NodeInv, Labels, AddressIsRemembered
    <2>4. Files!Replace
        <3>1. AccessOf' \in Files!Access
            BY DEF AccessOf, Files!Access
        <3>2. \A p \in PeerIds \ Restored : AccessOf'[p] = "none"
            BY <1>1, <2>1 DEF AccessOf
        <3> QED
            BY <1>0, <1>3, <3>1, <3>2 DEF Files!Replace
    <2> QED
        BY <1>2, <1>4, <1>6, <1>10, <2>2, <2>3, <2>4
        DEF NodeInv, Plan, CreatePlan, EditPlan, DeletePlan, Files!Next
<1> QED
    BY <1>1, <1>7, <1>8, <1>9, <1>10 DEF Call, Ops

LEMMA NodeSync ==
    ASSUME NodeInv, TypeInv', SyncConfig
    PROVE  NodeInv'
<1>1. /\ "sync" \in call.todo /\ "config" \notin call.todo /\ live' = config
      /\ call' = [call EXCEPT !.todo = @ \ {"sync"}]
      /\ UNCHANGED <<table, config, stage>>
      /\ call \in Call /\ call.op # "none"
    BY DEF SyncConfig, files, NodeInv, TypeInv, TypeOK, Plan, CallIsCurrent, Free, Idle
<1>2. /\ call'.op = call.op /\ call'.peers = call.peers
      /\ call'.todo = call.todo \ {"sync"}
      /\ call'.table = call.table /\ call'.config = call.config
    BY <1>1 DEF Call
<1>3. CallIsCurrent'
    BY <1>1, <1>2 DEF NodeInv, Plan, CallIsCurrent, Free
<1>4. CreatePlan' /\ EditPlan' /\ ImportPlan'
    BY <1>1, <1>2, SameRestored DEF NodeInv, Plan, CreatePlan, EditPlan, ImportPlan, Fits
<1>5. DeletePlan'
    <2>1. call.op = "delete" => config = call.config
        BY <1>1 DEF NodeInv, Plan, CallIsCurrent, Free
    <2> QED
        BY <1>1, <1>2, <2>1 DEF NodeInv, Plan, DeletePlan
<1> QED
    BY <1>1, <1>3, <1>4, <1>5, SameRestored
    DEF NodeInv, Plan, Labels, FreshIsNew, AddressIsRemembered, DeletedIsCutOff

\* A call that ends, answered or not, leaves no plan.
LEMMA IdlePlan ==
    ASSUME call' = Idle
    PROVE  Plan'
BY DEF Idle, Plan, CallIsCurrent, CreatePlan, EditPlan, DeletePlan, ImportPlan, Free

LEMMA NodeAnswer ==
    ASSUME NodeInv, TypeInv', Answer
    PROVE  NodeInv' /\ (UNCHANGED Files!vars \/ \E p \in PeerIds : Files!Settle(p))
<1>1. /\ call' = Idle /\ call.todo = {} /\ ~Free
      /\ UNCHANGED <<table, config, live>>
      /\ stage' = IF call.op \in {"create", "delete"}
                  THEN [p \in PeerIds |-> IF p \in call.peers THEN Told ELSE stage[p]]
                  ELSE stage
    BY DEF Answer, files
<1>2. \A p \in PeerIds : stage'[p] = "fresh" => stage[p] = "fresh"
    BY <1>1 DEF Told
<1>3. ASSUME NEW p \in PeerIds, stage'[p] = "deleted"
      PROVE  table[p] = None /\ config[p] = None /\ live[p] = None
    <2>1. CASE stage[p] = "deleted"
        BY <2>1 DEF NodeInv, DeletedIsCutOff
    <2>2. CASE stage[p] # "deleted"
        <3>1. call.op = "delete" /\ p \in call.peers
            BY <1>1, <1>3, <2>2 DEF Told
        <3> QED
            BY <1>1, <3>1 DEF NodeInv, Plan, CallIsCurrent, DeletePlan
    <2> QED
        BY <2>1, <2>2
<1>4. \A p \in Restored \ Restored' : call.op = "delete" /\ p \in call.peers
    BY <1>1 DEF Restored, Told, NodeInv, TypeInv, CallAims
<1>5. \A p \in Restored \ Restored' : table[p] = None /\ config[p] = None
    BY <1>1, <1>4 DEF NodeInv, TypeInv, CallAims
<1>6. Labels' /\ AddressIsRemembered'
    BY <1>1, <1>5, HostFacts DEF NodeInv, Labels, AddressIsRemembered, Restored
<1>7. Restored' \subseteq Restored
    BY <1>1 DEF Restored, Told
<1>8. NameOf' = NameOf /\ AccessOf' = AccessOf
    BY <1>1 DEF NameOf, AccessOf
<1>9. Restored' = Restored => UNCHANGED Files!vars
    BY <1>8 DEF Files!vars
<1>10. ASSUME Restored' # Restored
       PROVE  \E p \in PeerIds : Files!Settle(p)
    <2>1. PICK p \in Restored : p \notin Restored'
        BY <1>7, <1>10
    <2>2. call.peers = {p} /\ p \in PeerIds
        BY <1>4, <2>1 DEF Restored, NodeInv, Plan, DeletePlan
    <2>3. Restored' = Restored \ {p}
        BY <1>4, <1>7, <2>1, <2>2
    <2> QED
        BY <1>5, <1>8, <2>1, <2>2, <2>3 DEF Files!Settle, NameOf, AccessOf
<1> QED
    BY <1>1, <1>2, <1>3, <1>6, <1>9, <1>10, IdlePlan
    DEF NodeInv, FreshIsNew, DeletedIsCutOff

\* Every step keeps the invariant, and is a step of PeerFiles or none.
LEMMA NodeStep ==
    ASSUME NodeInv, [Next]_vars
    PROVE  NodeInv' /\ [Files!Next]_(Files!vars)
<1>0. TypeInv'
    BY TypeStep DEF NodeInv
<1>1. UNCHANGED files /\ Restored' = Restored => UNCHANGED Files!vars
    BY DEF files, Files!vars, NameOf, AccessOf
<1>2. CASE Requests
    <2>1. ASSUME NEW p \in PeerIds, NEW n \in Names, NEW x \in Times, CreateClient(n, p, x)
          PROVE  NodeInv' /\ UNCHANGED files /\ Restored' = Restored
        BY <1>0, <2>1, NodeCreate DEF CreateClient, files, Restored, NodeInv, TypeInv, TypeOK
    <2>2. ASSUME NEW p \in PeerIds, NEW x \in Times \cup {Keep},
                 NEW s \in {"active", "disabled", Keep}, UpdateClient(p, x, s)
          PROVE  NodeInv' /\ UNCHANGED Files!vars
        <3>1. NodeInv'
            BY <1>0, <2>2, NodeUpdate
        <3>2. AccessOf' = AccessOf
            BY <2>2 DEF UpdateClient, AccessOf
        <3>3. NameOf' = NameOf
            <4>1. PICK d : table' = [table EXCEPT ![p] = d] /\ table[p] # None
                           /\ d = IF x = Keep THEN table[p] ELSE [table[p] EXCEPT !.expires = x]
                BY <2>2 DEF UpdateClient
            <4>2. table \in Table /\ table[p] \in Entry
                BY <4>1, EntryFacts DEF NodeInv, TypeInv, TypeOK
            <4>3. d \in Entry /\ d # None /\ d.name = table[p].name
                BY <4>1, <4>2, <2>2, EntryAssumption DEF Entry
            <4> QED
                BY <4>1, <4>2, <4>3 DEF NameOf, Table
        <3> QED
            BY <2>2, <3>1, <3>2, <3>3, SameRestored DEF UpdateClient, Files!vars
    <2>3. ASSUME NEW p \in PeerIds, DeleteClient(p)
          PROVE  NodeInv' /\ UNCHANGED files /\ Restored' = Restored
        BY <1>0, <2>3, NodeDelete, SameRestored DEF DeleteClient, files
    <2>4. CASE DisableExpired
        BY <1>0, <1>1, <2>4, NodeSweep, SameRestored DEF DisableExpired, files
    <2>5. ASSUME NEW b \in Backups, ImportBackup(b)
          PROVE  NodeInv' /\ Files!Next
        BY <1>0, <2>5, NodeImport DEF Files!Next
    <2> QED
        BY <1>1, <1>2, <2>1, <2>2, <2>3, <2>4, <2>5 DEF Requests
<1>3. CASE WriteTable
    BY <1>0, <1>3, NodeWriteTable
<1>4. CASE WriteConfig
    BY <1>0, <1>4, NodeWriteConfig
<1>5. CASE SyncConfig
    BY <1>0, <1>1, <1>5, NodeSync, SameRestored DEF SyncConfig
<1>6. CASE Answer
    BY <1>0, <1>6, NodeAnswer DEF Files!Next
<1>7. CASE Fail
    BY <1>0, <1>1, <1>7, IdlePlan, SameRestored
    DEF Fail, files, NodeInv, Labels, FreshIsNew, AddressIsRemembered, DeletedIsCutOff
<1>8. CASE Restart
    <2>1. call.op = "delete" /\ "sync" \notin call.todo => config = call.config
        BY DEF NodeInv, Plan, CallIsCurrent, DeletePlan, Free
    <2>2. DeletePlan'
        BY <1>8, <2>1 DEF Restart, files, NodeInv, Plan, DeletePlan
    <2>3. CallIsCurrent' /\ CreatePlan' /\ EditPlan' /\ ImportPlan'
        BY <1>8, SameRestored
        DEF Restart, files, NodeInv, Plan, CallIsCurrent, CreatePlan, EditPlan, ImportPlan, Fits, Free
    <2> QED
        BY <1>0, <1>1, <1>8, <2>2, <2>3, SameRestored
        DEF Restart, files, NodeInv, Plan, Labels, FreshIsNew, AddressIsRemembered, DeletedIsCutOff
<1>9. CASE Tick
    BY <1>0, <1>1, <1>9, SameRestored
    DEF Tick, files, NodeInv, Plan, CallIsCurrent, CreatePlan, EditPlan, DeletePlan, ImportPlan, Fits, Free,
        Labels, FreshIsNew, AddressIsRemembered, DeletedIsCutOff
<1>10. CASE \E p \in PeerIds : RevokeFindsNone(p)
    <2>1. PICK p \in PeerIds : RevokeFindsNone(p)
        BY <1>10
    <2>2. /\ \A q \in PeerIds : stage'[q] = stage[q] \/ (q = p /\ stage[q] = "told" /\ stage'[q] = "absent")
          /\ UNCHANGED <<table, config, live, call>>
        BY <2>1 DEF RevokeFindsNone, files, NodeInv, TypeInv, TypeOK
    <2>3. call \in Call
        BY DEF NodeInv, TypeInv, TypeOK
    <2>4. CallIsCurrent'
        BY <2>2, <2>3 DEF NodeInv, Plan, CallIsCurrent, Free, Call
    <2>6. Restored' = Restored
        BY <2>2 DEF Restored
    <2>5. CreatePlan' /\ EditPlan' /\ DeletePlan' /\ ImportPlan'
        BY <2>2, <2>6 DEF NodeInv, Plan, CreatePlan, EditPlan, DeletePlan, ImportPlan, Fits
    <2> QED
        BY <1>0, <1>1, <2>2, <2>4, <2>5, <2>6
        DEF files, NodeInv, Plan, Labels, FreshIsNew, AddressIsRemembered, DeletedIsCutOff
<1>11. CASE UNCHANGED vars
    BY <1>0, <1>1, <1>11, SameRestored
    DEF vars, files, NodeInv, Plan, CallIsCurrent, CreatePlan, EditPlan, DeletePlan, ImportPlan, Fits, Free,
        Labels, FreshIsNew, AddressIsRemembered, DeletedIsCutOff
<1> QED
    BY <1>2, <1>3, <1>4, <1>5, <1>6, <1>7, <1>8, <1>9, <1>10, <1>11 DEF Next, Writes, Environment

\* A blocked peer can be unblocked with the address it had, but one that a backup
\* brought without it.
THEOREM BlockedCanReturn == Spec => []AddressIsRemembered
<1>1. Init => NodeInv
    BY NodeInit
<1>2. NodeInv /\ [Next]_vars => NodeInv'
    BY NodeStep
<1>3. NodeInv => AddressIsRemembered
    BY DEF NodeInv
<1> QED
    BY <1>1, <1>2, <1>3, PTL DEF Spec

\* An answered deletion left nothing of the peer in the files or the interface,
\* and nothing but a backup that holds the peer brings it back.
THEOREM DeletionHolds == Spec => []DeletedIsCutOff
<1>1. Init => NodeInv
    BY NodeInit
<1>2. NodeInv /\ [Next]_vars => NodeInv'
    BY NodeStep
<1>3. NodeInv => DeletedIsCutOff
    BY DEF NodeInv
<1> QED
    BY <1>1, <1>2, <1>3, PTL DEF Spec

\* The agent implements PeerFiles, imports of backups included: a peer that none
\* of them brought is labelled before, while and after it is exposed, and no other
\* such peer with its name is.
THEOREM Refinement == Spec => ImplementsPeerFiles
<1>1. Init => NodeInv /\ Files!Init
    <2>1. ASSUME Init PROVE Files!Init
        <3>1. NodeInv
            BY <2>1, NodeInit
        <3>2. NameOf \in [PeerIds -> Names \cup {None}]
            BY <3>1, EntryFacts DEF NodeInv, NameOf
        <3>3. AccessOf \in Files!Access
            BY DEF AccessOf, Files!Access
        <3>4. Restored = {}
            BY <2>1 DEF Init, Restored
        <3>5. \A p \in Files!Exposed : NameOf[p] # None
            BY <3>1, <3>4, EntryFacts, NoneAssumption
            DEF NodeInv, Labels, NameOf, AccessOf, Files!Exposed
        <3>6. \A p, q \in PeerIds : NameOf[p] = NameOf[q] /\ NameOf[p] # None => p = q
            BY <3>1, <3>4 DEF NodeInv, Labels, NameOf
        <3> QED
            BY <3>2, <3>3, <3>4, <3>5, <3>6 DEF Files!Init
    <2> QED
        BY <2>1, NodeInit
<1>2. NodeInv /\ [Next]_vars => NodeInv' /\ [Files!Next]_(Files!vars)
    BY NodeStep
<1> QED
    BY <1>1, <1>2, PTL DEF Spec, ImplementsPeerFiles, Files!Spec

\* Whoever is exposed has a label, and nobody else who is exposed shares it, apart
\* from the peers a backup brought.
THEOREM ExposedAreNamed == Spec => []Files!ExposedAreNamed
<1>1. Init => NodeInv
    BY NodeInit
<1>2. NodeInv /\ [Next]_vars => NodeInv'
    BY NodeStep
<1>3. NodeInv => Files!ExposedAreNamed
    BY EntryFacts, NoneAssumption
    DEF NodeInv, Labels, NameOf, AccessOf, Files!ExposedAreNamed, Files!Exposed
<1> QED
    BY <1>1, <1>2, <1>3, PTL DEF Spec

-----------------------------------------------------------------------------
(* Addresses.  The address a configured peer owns, worked with or blocked,  *)
(* is its own until it is deleted: no write of an edit, and no half of one, *)
(* changes it.  A creation takes one that only blocked peers own.  Of what  *)
(* a backup brought nothing is said.                                        *)

\* The address of a peer that the table calls e and the configuration a.
Address(e, a) == IF a \in Hosts THEN a ELSE IF a = Blocked THEN e.ip ELSE None

\* What the files say is the peer's address, also while it is blocked.
Own(p) == Address(table[p], config[p])

SharedIfLent ==
    \A p, q \in PeerIds \ Restored :
        Own(p) = Own(q) /\ Own(p) # None => p = q \/ p \in lent \/ q \in lent

\* What a creation is about to expose, and what an edit is about to write.
AddressPlan ==
    /\ call.op = "create" /\ "config" \in call.todo =>
          \A p \in call.peers, q \in PeerIds \ Restored :
              p # q /\ Own(q) = call.config[p] => q \in lent
    /\ call.op \in {"update", "disable"} =>
          \A q \in call.peers \ Restored :
                                /\ Address(call.table[q], call.config[q]) = Own(q)
                                /\ Address(call.table[q], config[q]) = Own(q)

LentInv == NodeInv /\ SharedIfLent /\ AddressPlan

LEMMA LentInit ==
    ASSUME Init
    PROVE  LentInv
<1>1. NodeInv /\ call.op = "none" /\ \A p \in PeerIds : NoTable[p] = None
    BY NodeInit DEF Init, Idle, NoTable
<1>2. CASE config = NoTable
    BY <1>1, <1>2, HostFacts DEF LentInv, SharedIfLent, AddressPlan, Own, Address
<1>3. ASSUME NEW p \in PeerIds, NEW h \in Hosts, config = [NoTable EXCEPT ![p] = h]
      PROVE  LentInv
    <2>1. \A q \in PeerIds \ {p} : config[q] = None
        BY <1>1, <1>3 DEF NoTable
    <2> QED
        BY <1>1, <2>1, HostFacts DEF LentInv, SharedIfLent, AddressPlan, Own, Address
<1> QED
    BY <1>2, <1>3 DEF Init

\* Remembering an address, and blocking or unblocking with it, keeps it.
LEMMA EditKeeps ==
    ASSUME NodeInv, NEW q \in PeerIds, q \notin Restored, NEW d \in Entry, table[q] # None, d.ip = table[q].ip,
           NEW e, e = Remember(d, config[q]),
           NEW a, a = config[q] \/ (config[q] # None /\ a \in {Blocked, e.ip})
    PROVE  Address(e, a) = Own(q) /\ Address(e, config[q]) = Own(q)
<1>1. /\ config[q] \in Hosts \cup {Blocked, None}
      /\ config[q] = Blocked => d.ip # None
      /\ config[q] \in Hosts => d.ip \in {None, config[q]}
      /\ d.ip \in Hosts \cup {None}
    BY EntryFacts DEF NodeInv, AddressIsRemembered, Entry
<1>2. /\ e.ip = IF d.ip = None /\ config[q] \in Hosts THEN config[q] ELSE d.ip
    BY DEF Remember, Entry
<1> QED
    BY <1>1, <1>2, HostFacts DEF Address, Own

\* A peer that no backup brought keeps its address until it has none; only a
\* creation brings one.
LEMMA OwnStep ==
    ASSUME LentInv, [Next]_vars, NEW q \in PeerIds, q \notin Restored
    PROVE  \/ Own(q)' = Own(q)
           \/ call.op \in {"delete", "import"} /\ Own(q)' = None
           \/ /\ WriteConfig /\ call.op = "create" /\ call.peers = {q}
              /\ Own(q)' = call.config[q]
<1>0. NodeInv /\ call \in Call
    BY DEF LentInv, NodeInv, TypeInv, TypeOK
<1>1. CASE UNCHANGED files
    BY <1>1 DEF files, Own
<1>2. ASSUME NEW p \in PeerIds, NEW x \in Times \cup {Keep},
             NEW s \in {"active", "disabled", Keep}, UpdateClient(p, x, s)
      PROVE  Own(q)' = Own(q)
    <2>1. /\ table' = [table EXCEPT ![p] = IF x = Keep THEN table[p]
                                           ELSE [table[p] EXCEPT !.expires = x]]
          /\ UNCHANGED config /\ table[p] # None
        BY <1>2 DEF UpdateClient
    <2>2. table \in Table /\ table[p] \in Entry
        BY <1>0, <2>1, EntryFacts DEF NodeInv, TypeInv, TypeOK
    <2>3. [table[p] EXCEPT !.expires = x].ip = table[p].ip
        BY <2>2 DEF Entry
    <2>4. p = q => table'[q].ip = table[q].ip
        BY <2>1, <2>2, <2>3 DEF Table
    <2>5. p # q => table'[q] = table[q]
        BY <2>1, <2>2 DEF Table
    <2> QED
        BY <2>1, <2>4, <2>5 DEF Own, Address
<1>3. CASE WriteTable
    <2>1. table' = call.table /\ UNCHANGED config /\ call.op # "none"
        BY <1>0, <1>3 DEF WriteTable, NodeInv, Plan, CallIsCurrent, Free, Idle
    <2>2. CASE call.op = "create"
        <3>1. config[q] = None \/ call.table[q] = table[q]
            BY <1>0, <1>3, <2>2 DEF WriteTable, NodeInv, Plan, CreatePlan
        <3> QED
            BY <2>1, <3>1, HostFacts DEF Own, Address
    <2>3. CASE call.op \in {"update", "disable"}
        BY <1>0, <2>1, <2>3 DEF Own, LentInv, AddressPlan, NodeInv, Plan, EditPlan
    <2>4. CASE call.op = "delete"
        <3>1. config[q] = None \/ call.table[q] = table[q]
            BY <1>0, <1>3, <2>4 DEF WriteTable, TableTurn, NodeInv, Plan, CallIsCurrent, Free, DeletePlan
        <3> QED
            BY <2>1, <3>1, HostFacts DEF Own, Address
    <2>5. CASE call.op = "import"
        <3>1. config[q] = None
            BY <1>0, <1>3, <2>5 DEF WriteTable, TableTurn, NodeInv, Plan, CallIsCurrent, Free, ImportPlan
        <3> QED
            BY <2>1, <3>1, HostFacts DEF Own, Address
    <2> QED
        BY <1>0, <2>1, <2>2, <2>3, <2>4, <2>5 DEF Call, Ops
<1>4. CASE WriteConfig
    <2>1. /\ config' = call.config /\ UNCHANGED table /\ call.op # "none" /\ "config" \in call.todo
          /\ call.op # "import" => \A p \in PeerIds \ call.peers : call.config[p] = config[p]
        BY <1>0, <1>4 DEF WriteConfig, NodeInv, Plan, CallIsCurrent, Free, Idle
    <2>2. CASE q \notin call.peers /\ call.op # "import"
        BY <2>1, <2>2 DEF Own
    <2>3. CASE call.op = "create" /\ q \in call.peers
        <3>1. call.peers = {q} /\ call.config[q] \in Hosts
            BY <1>0, <2>3 DEF NodeInv, Plan, CreatePlan
        <3> QED
            BY <1>4, <2>1, <2>3, <3>1 DEF Own, Address
    <2>4. CASE call.op \in {"update", "disable"} /\ q \in call.peers
        <3>1. table = call.table
            BY <1>0, <1>4, <2>4 DEF WriteConfig, AfterTable, NodeInv, Plan, CallIsCurrent, Free
        <3> QED
            BY <2>1, <2>4, <3>1 DEF Own, LentInv, AddressPlan
    <2>5. CASE call.op = "delete" /\ q \in call.peers
        <3>1. call.config[q] = None
            BY <1>0, <2>5 DEF NodeInv, Plan, DeletePlan
        <3> QED
            BY <2>1, <2>5, <3>1, HostFacts DEF Own, Address
    <2>6. CASE call.op = "import"
        <3>1. call.config[q] = None
            BY <1>0, <2>6 DEF NodeInv, Plan, ImportPlan
        <3> QED
            BY <2>1, <2>6, <3>1, HostFacts DEF Own, Address
    <2> QED
        BY <1>0, <2>1, <2>2, <2>3, <2>4, <2>5, <2>6 DEF Call, Ops
<1>5. CASE \/ DisableExpired \/ SyncConfig \/ Answer \/ Environment \/ UNCHANGED vars
           \/ \E p \in PeerIds : DeleteClient(p)
           \/ \E b \in Backups : ImportBackup(b)
           \/ \E p \in PeerIds, n \in Names, x \in Times : CreateClient(n, p, x)
    BY <1>1, <1>5 DEF DisableExpired, SyncConfig, Answer, Environment, Fail, Restart, Tick,
       RevokeFindsNone, DeleteClient, ImportBackup, CreateClient, vars, files
<1> QED
    BY <1>2, <1>3, <1>4, <1>5 DEF Next, Requests, Writes

LEMMA LentGrows ==
    ASSUME [Next]_vars
    PROVE  lent \subseteq lent'
<1>1. ASSUME NEW n \in Names, NEW p \in PeerIds, NEW x \in Times, CreateClient(n, p, x)
      PROVE  lent \subseteq lent'
    BY <1>1 DEF CreateClient
<1>2. ASSUME NEW p \in PeerIds, NEW x, NEW s, UpdateClient(p, x, s) \/ DeleteClient(p)
      PROVE  UNCHANGED lent
    BY <1>2 DEF UpdateClient, DeleteClient
<1>4. ASSUME NEW b \in Backups, ImportBackup(b)
      PROVE  UNCHANGED lent
    BY <1>4 DEF ImportBackup
<1>3. CASE DisableExpired \/ Writes \/ Environment \/ UNCHANGED vars
    BY <1>3 DEF DisableExpired, Writes, WriteTable, WriteConfig, SyncConfig, Answer, Environment,
       Fail, Restart, Tick, RevokeFindsNone, vars
<1> QED
    BY <1>1, <1>2, <1>3, <1>4 DEF Next, Requests

\* Only a deletion that is answered makes a peer of a backup one like any other.
LEMMA SettledIsGone ==
    ASSUME NodeInv, [Next]_vars, NEW p \in Restored, p \notin Restored'
    PROVE  Answer /\ call'.op = "none" /\ Own(p)' = None
<1>1. p \in PeerIds /\ stage[p] = "restored" /\ stage'[p] # "restored"
    BY DEF Restored
<1>2. ASSUME NEW q \in PeerIds, NEW n \in Names, NEW x \in Times, CreateClient(n, q, x)
      PROVE  stage'[p] = "restored"
    BY <1>1, <1>2 DEF CreateClient, NodeInv, TypeInv, TypeOK
<1>3. ASSUME NEW q \in PeerIds, NEW x, NEW s, UpdateClient(q, x, s) \/ DeleteClient(q)
      PROVE  UNCHANGED stage
    BY <1>3 DEF UpdateClient, DeleteClient
<1>4. ASSUME NEW b \in Backups, ImportBackup(b)
      PROVE  stage'[p] = "restored"
    BY <1>1, <1>4 DEF ImportBackup
<1>5. ASSUME NEW q \in PeerIds, RevokeFindsNone(q)
      PROVE  stage'[p] = "restored"
    BY <1>1, <1>5 DEF RevokeFindsNone, NodeInv, TypeInv, TypeOK
<1>6. DisableExpired \/ WriteTable \/ WriteConfig \/ SyncConfig \/ Fail \/ Restart \/ Tick
          \/ UNCHANGED vars => UNCHANGED stage
    BY DEF DisableExpired, WriteTable, WriteConfig, SyncConfig, Fail, Restart, Tick, vars
<1>7. Answer
    BY <1>1, <1>2, <1>3, <1>4, <1>5, <1>6 DEF Next, Requests, Writes, Environment
<1>8. call.op = "delete" /\ p \in call.peers
    BY <1>1, <1>7 DEF Answer, Told, NodeInv, TypeInv, CallAims
<1>9. config'[p] = None
    BY <1>7, <1>8 DEF Answer, files, NodeInv, TypeInv, CallAims
<1> QED
    BY <1>7, <1>9, HostFacts DEF Answer, Idle, Own, Address

LEMMA SharedIfLentStep ==
    ASSUME LentInv, [Next]_vars
    PROVE  SharedIfLent'
<1> SUFFICES ASSUME NEW p \in PeerIds, NEW q \in PeerIds, p \notin Restored', q \notin Restored',
                    Own(p)' = Own(q)', Own(p)' # None, p # q
             PROVE  p \in lent' \/ q \in lent'
    BY DEF SharedIfLent
<1>0. p \notin Restored /\ q \notin Restored
    BY SettledIsGone DEF LentInv
<1>1. CASE Own(p)' = Own(p) /\ Own(q)' = Own(q)
    BY <1>0, <1>1, LentGrows DEF LentInv, SharedIfLent
<1>2. ASSUME NEW i \in PeerIds \ Restored, NEW j \in PeerIds \ Restored, i # j, Own(i)' = Own(j)', Own(i)' # None,
             WriteConfig, call.op = "create", call.peers = {i}, Own(i)' = call.config[i]
      PROVE  j \in lent'
    <2>1. Own(j)' = Own(j)
        BY <1>2, OwnStep
    <2> QED
        BY <1>2, <2>1, LentGrows DEF WriteConfig, LentInv, AddressPlan
<1> QED
    BY <1>0, <1>1, <1>2, OwnStep

LEMMA AddressPlanStep ==
    ASSUME LentInv, [Next]_vars
    PROVE  AddressPlan'
<1>0. NodeInv /\ call \in Call /\ table \in Table /\ config \in Config
    BY DEF LentInv, NodeInv, TypeInv, TypeOK
<1>1. CASE call'.op = "none"
    BY <1>1 DEF AddressPlan
\* A call that goes on writes nothing that changes what it is about to write.
<1>2. ASSUME UNCHANGED call \/ (\E w : call' = [call EXCEPT !.todo = @ \ {w}]),
             config' \in {config, call.config}, call.op # "none",
             "config" \in call'.todo => ~WriteConfig
      PROVE  AddressPlan'
    <2>0. \A q \in Restored : q \in Restored'
        BY <1>0, <1>2, SettledIsGone DEF Call
    <2>1. /\ call'.op = call.op /\ call'.peers = call.peers /\ call'.todo \subseteq call.todo
          /\ call'.table = call.table /\ call'.config = call.config /\ call.peers \subseteq PeerIds
        BY <1>0, <1>2 DEF Call
    <2>2. ASSUME call.op = "create", "config" \in call'.todo, NEW p \in call.peers,
                 NEW q \in PeerIds \ Restored', p # q, Own(q)' = call.config[p]
          PROVE  q \in lent'
        <3>0. q \notin Restored
            BY <2>0, <2>2
        <3>1. Own(q) = call.config[p]
            BY <1>2, <2>2, <3>0, OwnStep
        <3> QED
            BY <2>1, <2>2, <3>0, <3>1, LentGrows DEF LentInv, AddressPlan
    <2>3. ASSUME call.op \in {"update", "disable"}, NEW q \in call.peers \ Restored'
          PROVE  /\ Address(call.table[q], call.config[q]) = Own(q)'
                 /\ Address(call.table[q], config'[q]) = Own(q)'
        <3>0. q \notin Restored /\ q \in PeerIds
            BY <2>0, <2>1, <2>3
        <3>1. Own(q)' = Own(q)
            BY <2>1, <2>3, <3>0, OwnStep
        <3> QED
            BY <1>2, <2>3, <3>0, <3>1 DEF LentInv, AddressPlan
    <2> QED
        BY <2>1, <2>2, <2>3 DEF AddressPlan
<1>3. ASSUME NEW n \in Names, NEW p \in PeerIds, NEW x \in Times, CreateClient(n, p, x)
      PROVE  AddressPlan'
    <2>1. PICK h \in Hosts :
            /\ AllocatePeerIp(h)
            /\ call' = [op |-> "create", peers |-> {p}, todo |-> {"table", "config", "sync"},
                        table |-> [[q \in PeerIds |->
                                      IF table[q] # None /\ table[q].name = n THEN None ELSE table[q]]
                                   EXCEPT ![p] = [name |-> n, expires |-> x, ip |-> h]],
                        config |-> [config EXCEPT ![p] = h]]
            /\ lent' = lent \cup {q \in Labelled(table) : config[q] = Blocked /\ table[q].ip = h}
        BY <1>3 DEF CreateClient
    <2>2. call'.op = "create" /\ call'.peers = {p} /\ call'.config[p] = h /\ UNCHANGED <<table, config>>
        BY <1>0, <1>3, <2>1 DEF CreateClient, Config
    <2>4. Restored' = Restored
        BY <1>0, <1>3 DEF CreateClient, Restored, NodeInv, TypeInv, TypeOK
    <2>3. ASSUME NEW q \in PeerIds \ Restored, Own(q) = h
          PROVE  q \in lent'
        <3>1. config[q] # h
            BY <2>1 DEF AllocatePeerIp, FreeHosts, UsedHosts
        <3>2. config[q] = Blocked /\ table[q].ip = h
            BY <2>3, <3>1, HostFacts DEF Own, Address
        <3>3. table[q] # None
            BY <1>0, <3>2 DEF NodeInv, AddressIsRemembered
        <3> QED
            BY <2>1, <3>2, <3>3 DEF Labelled
    <2> QED
        BY <2>2, <2>3, <2>4 DEF AddressPlan, Own
<1>4. ASSUME NEW p \in PeerIds, NEW x \in Times \cup {Keep},
             NEW s \in {"active", "disabled", Keep}, UpdateClient(p, x, s)
      PROVE  AddressPlan'
    <2> DEFINE dated == IF x = Keep THEN table[p] ELSE [table[p] EXCEPT !.expires = x]
               entry == Remember(dated, config[p])
               target == Target(entry, x, s)
               change == target # None /\ config[p] # None /\ target # config[p]
    <2>1. /\ table[p] # None /\ UNCHANGED config
          /\ call' = [op |-> "update", peers |-> {p},
                      todo |-> (IF entry # dated THEN {"table"} ELSE {})
                               \cup (IF change THEN {"config", "sync"} ELSE {}),
                      table |-> [table EXCEPT ![p] = entry],
                      config |-> IF change THEN [config EXCEPT ![p] = target] ELSE config]
        BY <1>4 DEF UpdateClient
    <2>2. dated \in Entry /\ dated.ip = table[p].ip
        BY <1>0, <2>1, EntryFacts DEF NodeInv, Entry
    <2>3. target \in {Blocked, entry.ip, None}
        BY DEF Target
    <2> HIDE DEF dated, entry, target
    <2>4. call'.peers = {p} /\ call'.table[p] = entry /\ call'.op = "update"
          /\ call'.config[p] = IF change THEN target ELSE config[p]
        BY <1>0, <2>1 DEF Table, Config
    <2>5. entry = Remember(dated, config[p])
        BY DEF entry
    <2>6. ASSUME p \notin Restored
          PROVE  Address(entry, call'.config[p]) = Own(p) /\ Address(entry, config[p]) = Own(p)
        <3>1. \/ call'.config[p] = config[p]
              \/ config[p] # None /\ call'.config[p] \in {Blocked, entry.ip}
            BY <2>3, <2>4
        <3> HIDE DEF change
        <3>2. \A a : a = config[p] \/ (config[p] # None /\ a \in {Blocked, entry.ip}) =>
                      Address(entry, a) = Own(p) /\ Address(entry, config[p]) = Own(p)
            BY <1>0, <2>1, <2>2, <2>5, <2>6, EditKeeps
        <3> QED
            BY <3>1, <3>2
    <2>7. ASSUME p \notin Restored PROVE Own(p)' = Own(p)
        <3>1. call.op = "none"
            BY <1>4 DEF UpdateClient, Free
        <3> QED
            BY <2>7, <3>1, OwnStep
    <2>8. p \notin Restored => /\ Address(call'.table[p], call'.config[p]) = Own(p)'
                              /\ Address(call'.table[p], config'[p]) = Own(p)'
        BY <2>1, <2>4, <2>6, <2>7
    <2> QED
        BY <1>4, <2>4, <2>8, SameRestored DEF UpdateClient, AddressPlan
<1>5. CASE DisableExpired
    <2> DEFINE due == {p \in PeerIds : Expired(table[p])}
               blocked == [p \in PeerIds |->
                              IF p \in due /\ config[p] # None THEN Blocked ELSE config[p]]
               entries == [p \in PeerIds |->
                              IF p \in due THEN Remember(table[p], config[p]) ELSE table[p]]
    <2>1. /\ call' = [op |-> "disable", peers |-> due,
                      todo |-> (IF entries # table THEN {"table"} ELSE {})
                               \cup (IF blocked # config THEN {"config", "sync"} ELSE {}),
                      table |-> entries, config |-> blocked]
          /\ UNCHANGED <<table, config>>
        BY <1>5 DEF DisableExpired
    <2>2. ASSUME NEW q \in due \ Restored
          PROVE  Address(entries[q], blocked[q]) = Own(q) /\ Address(entries[q], config[q]) = Own(q)
        <3>1. q \in PeerIds /\ table[q] # None
            BY DEF Expired
        <3>2. table[q] \in Entry
            BY <1>0, <3>1, EntryFacts DEF NodeInv
        <3>3. entries[q] = Remember(table[q], config[q])
            BY <3>1
        <3>4. blocked[q] = config[q] \/ (config[q] # None /\ blocked[q] = Blocked)
            BY <3>1
        <3> HIDE DEF entries, blocked, due
        <3> QED
            BY <1>0, <3>1, <3>2, <3>3, <3>4, EditKeeps
    <2> HIDE DEF entries, blocked, due
    <2> QED
        BY <1>5, <2>1, <2>2, SameRestored DEF DisableExpired, AddressPlan, Own
<1>6. ASSUME NEW p \in PeerIds, DeleteClient(p)
      PROVE  AddressPlan'
    BY <1>6 DEF DeleteClient, AddressPlan
<1>12. ASSUME NEW b \in Backups, ImportBackup(b)
      PROVE  AddressPlan'
    BY <1>12 DEF ImportBackup, AddressPlan
<1>7. CASE WriteTable
    <2>1. call.op # "none"
        BY <1>0, <1>7 DEF WriteTable, NodeInv, Plan, CallIsCurrent, Free, Idle
    <2>2. ~WriteConfig \/ "config" \notin call'.todo
        BY <1>0 DEF WriteConfig, Call
    <2> QED
        BY <1>2, <1>7, <2>1, <2>2 DEF WriteTable
<1>8. CASE WriteConfig
    <2>1. call.op # "none"
        BY <1>0, <1>8 DEF WriteConfig, NodeInv, Plan, CallIsCurrent, Free, Idle
    <2>2. "config" \notin call'.todo
        BY <1>0, <1>8 DEF WriteConfig, Call
    <2> QED
        BY <1>2, <1>8, <2>1, <2>2 DEF WriteConfig
<1>9. CASE SyncConfig
    <2>1. call.op # "none"
        BY <1>0, <1>9 DEF SyncConfig, NodeInv, Plan, CallIsCurrent, Free, Idle
    <2>2. ~WriteConfig \/ "config" \notin call'.todo
        BY <1>0 DEF WriteConfig, Call
    <2> QED
        BY <1>2, <1>9, <2>1, <2>2 DEF SyncConfig, files
<1>10. CASE Answer \/ Fail
    BY <1>1, <1>10 DEF Answer, Fail, Idle
<1>11. CASE Restart \/ Tick \/ UNCHANGED vars \/ \E p \in PeerIds : RevokeFindsNone(p)
    <2>1. Restored' = Restored
        BY <1>0, <1>11 DEF Restart, Tick, RevokeFindsNone, vars, Restored, NodeInv, TypeInv, TypeOK
    <2> QED
        BY <1>11, <2>1, LentGrows DEF Restart, Tick, RevokeFindsNone, vars, files, LentInv, AddressPlan, Own
<1> QED
    BY <1>3, <1>4, <1>5, <1>6, <1>7, <1>8, <1>9, <1>10, <1>11, <1>12
    DEF Next, Requests, Writes, Environment

\* Two peers share an address only when one was blocked and its address was given
\* out meanwhile, or a backup brought one, whatever failed half-way.
THEOREM AddressesStayApart == Spec => []AddressesSharedOnlyIfLent
<1>1. Init => LentInv
    BY LentInit
<1>2. LentInv /\ [Next]_vars => LentInv'
    BY NodeStep, SharedIfLentStep, AddressPlanStep DEF LentInv
<1>3. LentInv => AddressesSharedOnlyIfLent
    BY HostFacts DEF LentInv, SharedIfLent, AddressesSharedOnlyIfLent, Own, Address
<1> QED
    BY <1>1, <1>2, <1>3, PTL DEF Spec

-----------------------------------------------------------------------------
(* Lists of nodes *)

LEMMA ListOfNodes ==
    ASSUME NEW l \in NodeLists
    PROVE  /\ l \in Seq(Nodes) /\ Len(l) \in 0 .. Cardinality(Nodes)
           /\ DOMAIN l = 1 .. Len(l) /\ l \in [1 .. Len(l) -> Nodes]
           /\ \A j, k \in 1 .. Len(l) : l[j] = l[k] => j = k
<1>0. Cardinality(Nodes) \in Nat
  BY FiniteAssumption, FS_CardinalityType
<1>1. PICK i \in 0 .. Cardinality(Nodes) :
        l \in [1 .. i -> Nodes] /\ \A j, k \in 1 .. i : l[j] = l[k] => j = k
  BY DEF NodeLists
<1>2. i \in Nat
  BY <1>0
<1>3. l \in Seq(Nodes) /\ Len(l) = i
  BY <1>1, <1>2
<1> QED BY <1>1, <1>3

LEMMA ListMade ==
    ASSUME NEW i \in 0 .. Cardinality(Nodes), NEW l \in [1 .. i -> Nodes],
           \A j, k \in 1 .. i : l[j] = l[k] => j = k
    PROVE  l \in NodeLists
BY DEF NodeLists

LEMMA LengthMade ==
    ASSUME NEW i \in Nat, NEW l \in [1 .. i -> Nodes]
    PROVE  Len(l) = i /\ l \in Seq(Nodes)
OBVIOUS

LEMMA NoListsAreLists == NoLists \in Lists /\ <<>> \in NodeLists
<1>1. 0 \in 0 .. Cardinality(Nodes)
  BY FiniteAssumption, FS_CardinalityType
<1> DEFINE empty == [j \in 1 .. 0 |-> Null]
<1>2. empty \in [1 .. 0 -> Nodes]
  OBVIOUS
<1>3. empty \in NodeLists
  <2> HIDE DEF empty
  <2>1. \A j, k \in 1 .. 0 : empty[j] = empty[k] => j = k
    OBVIOUS
  <2> QED BY <1>1, <1>2, <2>1, ListMade
<1>4. Len(empty) = 0 /\ empty \in Seq(Nodes)
  <2> HIDE DEF empty
  <2> QED BY <1>2, LengthMade
<1>5. empty = <<>>
  <2> HIDE DEF empty
  <2>1. empty # <<>> => Len(empty) \in Nat \ {0}
    BY <1>4, EmptySeq, Zenon
  <2>2. Len(empty) \notin Nat \ {0}
    BY <1>4
  <2> QED BY <2>1, <2>2
<1> QED BY <1>3, <1>5 DEF NoLists, Lists

LEMMA TopOfList ==
    ASSUME NEW l \in NodeLists, NEW i \in Nat, i <= Len(l)
    PROVE  /\ Top(l, i) \in NodeLists /\ Len(Top(l, i)) = i
           /\ \A j \in 1 .. i : Top(l, i)[j] = l[j]
<1>1. /\ l \in Seq(Nodes) /\ Len(l) \in 0 .. Cardinality(Nodes)
      /\ l \in [1 .. Len(l) -> Nodes] /\ Cardinality(Nodes) \in Nat
      /\ \A j, k \in 1 .. Len(l) : l[j] = l[k] => j = k
  BY ListOfNodes, FiniteAssumption, FS_CardinalityType
<1>2. Top(l, i) = [j \in 1 .. i |-> l[j]]
  BY <1>1 DEF Top
<1>3. Top(l, i) \in [1 .. i -> Nodes] /\ i \in 0 .. Cardinality(Nodes)
  BY <1>1, <1>2
<1>4. Top(l, i) \in NodeLists
  BY <1>1, <1>2, <1>3, ListMade
<1> QED BY <1>2, <1>3, <1>4, LengthMade

LEMMA WithoutIsList ==
    ASSUME NEW l \in NodeLists, NEW n
    PROVE  Without(l, n) \in NodeLists /\ ~Listed(n, Without(l, n))
<1>1. /\ l \in Seq(Nodes) /\ Len(l) \in 0 .. Cardinality(Nodes) /\ DOMAIN l = 1 .. Len(l)
      /\ l \in [1 .. Len(l) -> Nodes] /\ Cardinality(Nodes) \in Nat
      /\ \A j, k \in 1 .. Len(l) : l[j] = l[k] => j = k
  BY ListOfNodes, FiniteAssumption, FS_CardinalityType
<1>2. CASE ~Listed(n, l)
  BY <1>2 DEF Without
<1>3. CASE Listed(n, l)
  <2> DEFINE at == CHOOSE i \in DOMAIN l : l[i] = n
             w == [i \in 1 .. Len(l) - 1 |-> IF i < at THEN l[i] ELSE l[i + 1]]
  <2>1. at \in 1 .. Len(l) /\ l[at] = n
    BY <1>1, <1>3 DEF Listed
  <2>2. Without(l, n) = w
    BY <1>3 DEF Without
  <2>3. Len(l) - 1 \in 0 .. Cardinality(Nodes) /\ Len(l) - 1 \in Nat
    BY <1>1, <2>1
  <2> HIDE DEF at
  <2>4. w \in [1 .. Len(l) - 1 -> Nodes]
    BY <1>1, <2>1
  <2>5. ASSUME NEW j \in 1 .. Len(l) - 1, NEW k \in 1 .. Len(l) - 1, w[j] = w[k]
        PROVE  j = k
    BY <1>1, <2>1, <2>5
  <2>6. w \in NodeLists
    <3> HIDE DEF w
    <3> QED BY <2>3, <2>4, <2>5, ListMade
  <2>7. ASSUME NEW j \in 1 .. Len(l) - 1 PROVE w[j] # n
    BY <1>1, <2>1
  <2>8. DOMAIN w = 1 .. Len(l) - 1
    OBVIOUS
  <2> QED
    <3> HIDE DEF w
    <3> QED BY <2>2, <2>6, <2>7, <2>8 DEF Listed
<1> QED BY <1>2, <1>3

LEMMA WithoutKeeps ==
    ASSUME NEW l \in NodeLists, NEW n, NEW m, Listed(m, Without(l, n))
    PROVE  Listed(m, l) /\ m # n
<1>1. DOMAIN l = 1 .. Len(l) /\ Len(l) \in Nat /\ l \in Seq(Nodes)
  BY ListOfNodes, FiniteAssumption, FS_CardinalityType
<1>2. m # n
  BY WithoutIsList
<1>3. CASE ~Listed(n, l)
  BY <1>3, <1>2 DEF Without
<1>4. CASE Listed(n, l)
  <2> DEFINE at == CHOOSE i \in DOMAIN l : l[i] = n
             w == [i \in 1 .. Len(l) - 1 |-> IF i < at THEN l[i] ELSE l[i + 1]]
  <2>2. Without(l, n) = w
    BY <1>4 DEF Without
  <2>3. PICK j \in 1 .. Len(l) - 1 : w[j] = m
    BY <2>2 DEF Listed
  <2> HIDE DEF at
  <2>4. l[j] = m \/ l[j + 1] = m
    BY <2>3
  <2> QED BY <1>1, <1>2, <2>4 DEF Listed
<1> QED BY <1>3, <1>4

FirstOfOrder(l) ==
    /\ Len(l.recommended) <= Len(l.order)
    /\ l.recommended = Top(l.order, Len(l.recommended))

LEMMA WithoutKeepsFirst ==
    ASSUME NEW l \in Lists, FirstOfOrder(l), NEW n
    PROVE  FirstOfOrder([recommended |-> Without(l.recommended, n), order |-> Without(l.order, n)])
<1> DEFINE r == l.recommended
           o == l.order
<1>1. /\ r \in NodeLists /\ o \in NodeLists /\ Len(r) <= Len(o) /\ r = Top(o, Len(r))
  BY DEF Lists, FirstOfOrder
<1> HIDE DEF r, o
<1>2. /\ r \in Seq(Nodes) /\ Len(r) \in Nat /\ DOMAIN r = 1 .. Len(r) /\ r \in [1 .. Len(r) -> Nodes]
      /\ o \in Seq(Nodes) /\ Len(o) \in Nat /\ DOMAIN o = 1 .. Len(o) /\ o \in [1 .. Len(o) -> Nodes]
      /\ \A j, k \in 1 .. Len(o) : o[j] = o[k] => j = k
  BY <1>1, ListOfNodes, FiniteAssumption, FS_CardinalityType
<1>3. \A j \in 1 .. Len(r) : r[j] = o[j]
  BY <1>1, <1>2, TopOfList
<1> DEFINE wr == Without(r, n)
           wo == Without(o, n)
<1>4. wr \in NodeLists /\ wo \in NodeLists
  BY <1>1, WithoutIsList
<1>5. /\ wr \in Seq(Nodes) /\ Len(wr) \in Nat /\ wr \in [1 .. Len(wr) -> Nodes]
      /\ wo \in Seq(Nodes) /\ Len(wo) \in Nat /\ wo \in [1 .. Len(wo) -> Nodes]
  BY <1>4, ListOfNodes, FiniteAssumption, FS_CardinalityType
<1>6. Len(wr) <= Len(wo) /\ \A j \in 1 .. Len(wr) : wr[j] = wo[j]
  <2>1. CASE ~Listed(n, o)
    <3>1. ~Listed(n, r)
      BY <1>2, <1>3, <1>1, <2>1 DEF Listed
    <3> QED BY <3>1, <2>1, <1>1, <1>2, <1>3 DEF Without
  <2>2. CASE Listed(n, o)
    <3> DEFINE at == CHOOSE i \in DOMAIN o : o[i] = n
    <3>1. at \in 1 .. Len(o) /\ o[at] = n
      BY <1>2, <2>2 DEF Listed
    <3>2. wo = [i \in 1 .. Len(o) - 1 |-> IF i < at THEN o[i] ELSE o[i + 1]]
      BY <2>2 DEF Without
    <3> HIDE DEF at
    <3>3. Len(o) - 1 \in Nat /\ Len(wo) = Len(o) - 1
      BY <3>1, <3>2, <1>2
    <3>4. CASE ~Listed(n, r)
      <4>1. wr = r
        BY <3>4 DEF Without
      <4>2. Len(r) < at
        BY <3>4, <3>1, <1>1, <1>2, <1>3 DEF Listed
      <4> QED BY <4>1, <4>2, <3>1, <3>2, <3>3, <1>1, <1>2, <1>3
    <3>5. CASE Listed(n, r)
      <4> DEFINE a == CHOOSE i \in DOMAIN r : r[i] = n
      <4>1. a \in 1 .. Len(r) /\ r[a] = n
        BY <1>2, <3>5 DEF Listed
      <4>2. wr = [i \in 1 .. Len(r) - 1 |-> IF i < a THEN r[i] ELSE r[i + 1]]
        BY <3>5 DEF Without
      <4> HIDE DEF a
      <4>3. a = at
        BY <4>1, <3>1, <1>1, <1>2, <1>3
      <4>4. Len(r) - 1 \in Nat /\ Len(wr) = Len(r) - 1
        BY <4>1, <4>2, <1>2
      <4> HIDE DEF wr, wo
      <4>5. Len(wr) <= Len(wo)
        BY <1>1, <1>2, <3>3, <4>4
      <4>6. ASSUME NEW j \in 1 .. Len(wr) PROVE wr[j] = wo[j]
        <5>1. j \in 1 .. Len(r) - 1 /\ j \in 1 .. Len(o) - 1 /\ j + 1 \in 1 .. Len(r)
          BY <1>1, <1>2, <4>4
        <5> QED BY <5>1, <1>3, <1>2, <1>1, <3>2, <4>2, <4>3
      <4> QED BY <4>5, <4>6
    <3> QED BY <3>4, <3>5
  <2> QED BY <2>1, <2>2
<1>7. wr = Top(wo, Len(wr))
  <2>1. Top(wo, Len(wr)) = [j \in 1 .. Len(wr) |-> wo[j]]
    BY <1>5, <1>6 DEF Top
  <2> QED BY <2>1, <1>5, <1>6
<1> QED BY <1>6, <1>7 DEF FirstOfOrder, r, o

\* What an administrator's lists pass, of what is recommended and the order.
LEMMA TopIsWritten ==
    ASSUME NEW r \in NodeLists, NEW o \in NodeLists, CheckRecommendedPrefix(r, o)
    PROVE  /\ Len(r) <= Len(o) /\ Len(r) \in Nat
           /\ Top(o, Len(r)) \in NodeLists /\ Len(Top(o, Len(r))) = Len(r)
<1>1. /\ Len(r) \in Nat /\ DOMAIN r = 1 .. Len(r) /\ r \in [1 .. Len(r) -> Nodes]
      /\ \A j, k \in 1 .. Len(r) : r[j] = r[k] => j = k
  BY ListOfNodes, FiniteAssumption, FS_CardinalityType
<1> DEFINE wanted == {r[i] : i \in DOMAIN r}
<1>2. r \in Bijection(1 .. Len(r), wanted)
  BY <1>1 DEF Bijection, Injection, Surjection, IsInjective
<1>3. Cardinality(wanted) = Len(r)
  BY <1>1, <1>2, FS_CountingElements DEF ExistsBijection
<1>4. Len(r) <= Len(o)
  BY <1>3 DEF CheckRecommendedPrefix, IsTop
<1> QED BY <1>1, <1>4, TopOfList
-----------------------------------------------------------------------------
(* The inductive invariant *)

\* What a transaction is about, by what it does.
TxOfOp(u) ==
    /\ u.op = "request" => u.user \in Users
    /\ u.op \in {"remove", "create"} => u.node \in Nodes
    /\ u.op = "remove" => u.step \in {"jobs", "keys", "asks", "read", "lists", "erase", "null"}
    /\ u.op \notin {"remove", "request", "review"} \/ (u.op = "remove" /\ u.step \in {"jobs", "keys", "asks"})
          => u.locked = {}
    /\ u.locksLists => u.op = "remove" /\ u.step \in {"erase", "null"}

\* Requests are cancelled, reviewed and replaced while they are pending.
LockedArePending(u) == \A r \in u.locked : Pending(r)

\* Once a removal has cancelled requests, those it does not hold came after it.
OthersCancelled(u) ==
    u.op = "remove" /\ u.step \in {"read", "lists", "erase", "null"} =>
        PendingOn(u.node) \subseteq u.locked \cup slipped

Made == {k \in Keys : key[k] # Null}

\* The keys a removal erases are those whose jobs it drops, and some made since.
GoesKnown(u) ==
    /\ u.gone \subseteq Made /\ u.gone \ u.rows \subseteq u.late
    /\ u.op = "remove" /\ u.step \in {"jobs", "keys"} => KeysOn(u.node) \ u.rows \subseteq u.late

\* The lists an edit writes fit, with what it read where it was sent nothing.
EditFits(u) ==
    u.op = "edit" =>
        /\ FirstOfOrder(u.write) /\ u.names # {}
        /\ "order" \notin u.names => u.write.order = u.seen.order
        /\ "recommended" \notin u.names => Len(u.write.recommended) = Len(u.seen.recommended)

\* A removal writes the lists it read without its node, or read none with it.
RemovalFits(u) ==
    u.op = "remove" =>
        /\ u.locksLists =>
              u.write = [recommended |-> Without(u.seen.recommended, u.node),
                         order |-> Without(u.seen.order, u.node)]
        /\ u.step \in {"erase", "null"} /\ ~u.locksLists => ~Listed(u.node, u.seen.order)

TxHolds(u) ==
    /\ u \in Tx /\ TxOfOp(u) /\ LockedArePending(u) /\ OthersCancelled(u)
    /\ GoesKnown(u) /\ EditFits(u) /\ RemovalFits(u)

Apart == \A s, t \in Sessions : s # t => tx[s].locked \cap tx[t].locked = {}

RowsOfType ==
    /\ node \in [Nodes -> {"enabled", "disabled", "gone"}]
    /\ key \in [Keys -> Nodes \cup {Null}] /\ erased \subseteq Made /\ jobs \subseteq Keys
    /\ ask \in [Asks -> Ask \cup {Unasked}] /\ lists \in Lists
    /\ tx \in [Sessions -> Tx] /\ txs \in 0 .. MaxTxs
    /\ slipped \subseteq Asks /\ unseen \subseteq Keys /\ crossed \in BOOLEAN

\* A request names the node it was made for, until it names none.
NamesItsOwn == \A r \in Asks : ask[r] # Unasked => ask[r].node \in {ask[r].asked, Null}

ListsFit ==
    crossed \/ (FirstOfOrder(lists) /\ \A n \in Nodes : Listed(n, lists.order) => Exists(n))

RemovalInv ==
    /\ RowsOfType /\ Apart /\ NamesItsOwn /\ TargetKept /\ JobsHaveKeys /\ ListsFit
    /\ \A s \in Sessions : TxHolds(tx[s])

-----------------------------------------------------------------------------
LEMMA NoTxFields ==
    /\ NoTx.op = "none" /\ NoTx.step = "none" /\ NoTx.node = Null /\ NoTx.user = Null
    /\ NoTx.rows = {} /\ NoTx.gone = {} /\ NoTx.late = {} /\ NoTx.locked = {} /\ NoTx.names = {}
    /\ NoTx.locksLists = FALSE /\ NoTx.seen = NoLists /\ NoTx.write = NoLists
BY DEF NoTx

LEMMA NoTxOfType == NoTx \in Tx
BY NoListsAreLists DEF NoTx, Tx

LEMMA NoTxHolds == TxHolds(NoTx)
BY NoTxFields, NoTxOfType
   DEF TxHolds, TxOfOp, LockedArePending, OthersCancelled, GoesKnown, EditFits, RemovalFits

LEMMA RemovalInitHolds ==
    ASSUME RemovalInit
    PROVE  RemovalInv
<1>1. RowsOfType
  <2>1. lists \in Lists
    BY InitialAssumption DEF RemovalInit
  <2>2. tx \in [Sessions -> Tx]
    BY NoTxOfType DEF RemovalInit
  <2>3. 0 \in 0 .. MaxTxs
    BY BoundAssumption
  <2> QED BY <2>1, <2>2, <2>3 DEF RowsOfType, RemovalInit, Made
<1>2. \A s \in Sessions : TxHolds(tx[s])
  BY NoTxHolds DEF RemovalInit
<1>3. Apart
  BY NoTxFields DEF Apart, RemovalInit
<1>4. NamesItsOwn /\ TargetKept
  BY DEF NamesItsOwn, TargetKept, RemovalInit
<1>5. JobsHaveKeys
  BY DEF JobsHaveKeys, RemovalInit
<1>6. ListsFit
  <2>1. FirstOfOrder(lists)
    BY InitialAssumption DEF RemovalInit, FirstOfOrder
  <2>2. \A n \in Nodes : Exists(n)
    BY DEF RemovalInit, Exists
  <2> QED BY <2>1, <2>2 DEF ListsFit
<1> QED BY <1>1, <1>2, <1>3, <1>4, <1>5, <1>6 DEF RemovalInv

\* The rows, without what transactions have open.
RowsHold == NamesItsOwn /\ TargetKept /\ JobsHaveKeys /\ ListsFit

\* A transaction that opens or goes on, while the rows stay.
LEMMA OnlyTxChanges ==
    ASSUME RemovalInv, NEW s \in Sessions, NEW u, TxHolds(u), u.locked \cap Held(s) = {},
           tx' = [tx EXCEPT ![s] = u], txs' \in 0 .. MaxTxs,
           UNCHANGED <<node, key, erased, jobs, ask, lists, history>>
    PROVE  RemovalInv'
<1> USE DEF history
<1>0. u \in Tx
  BY DEF TxHolds
<1>1. tx'[s] = u /\ \A t \in Sessions \ {s} : tx'[t] = tx[t]
  BY DEF RemovalInv, RowsOfType
<1>2. RowsOfType'
  BY <1>0 DEF RemovalInv, RowsOfType, Made
<1>3. (NamesItsOwn /\ TargetKept)'
  BY DEF RemovalInv, NamesItsOwn, TargetKept, Pending
<1>4. JobsHaveKeys'
  BY DEF RemovalInv, JobsHaveKeys
<1>5. ListsFit'
  BY DEF RemovalInv, ListsFit, Exists
<1>6. Apart'
  <2> SUFFICES ASSUME NEW a \in Sessions, NEW b \in Sessions, a # b
               PROVE  tx'[a].locked \cap tx'[b].locked = {}
    BY DEF Apart
  <2>1. \A t \in Sessions \ {s} : u.locked \cap tx[t].locked = {}
    BY DEF Held
  <2> QED BY <1>1, <2>1 DEF RemovalInv, Apart
<1>7. ASSUME NEW t \in Sessions PROVE TxHolds(tx[t])'
  <2> DEFINE v == tx'[t]
  <2>1. v \in Tx /\ TxOfOp(v) /\ EditFits(v) /\ RemovalFits(v)
    BY <1>1 DEF RemovalInv, TxHolds
  <2>2. LockedArePending(v) /\ OthersCancelled(v) /\ GoesKnown(v)
    BY <1>1 DEF RemovalInv, TxHolds
  <2>3. LockedArePending(tx[t])'
    BY <2>2 DEF LockedArePending, Pending
  <2>4. OthersCancelled(tx[t])'
    BY <2>2 DEF OthersCancelled, Pending, PendingOn
  <2>5. GoesKnown(tx[t])'
    BY <2>2 DEF GoesKnown, Made, KeysOn
  <2>6. (tx[t] \in Tx /\ TxOfOp(tx[t]) /\ EditFits(tx[t]) /\ RemovalFits(tx[t]))'
    BY <2>1 DEF TxOfOp, EditFits, RemovalFits
  <2> QED BY <2>3, <2>4, <2>5, <2>6 DEF TxHolds
<1> QED BY <1>2, <1>3, <1>4, <1>5, <1>6, <1>7 DEF RemovalInv

LEMMA OpenKeeps ==
    ASSUME RemovalInv, NEW s \in Sessions, NEW u, TxHolds(u), u.locked \cap Held(s) = {}, Open(s, u)
    PROVE  RemovalInv'
<1>1. txs' \in 0 .. MaxTxs
  BY BoundAssumption DEF Open, RemovalInv, RowsOfType
<1> QED BY <1>1, OnlyTxChanges DEF Open

LEMMA StepKeeps ==
    ASSUME RemovalInv, NEW s \in Sessions, NEW u, TxHolds(u), u.locked \cap Held(s) = {}, Step(s, u)
    PROVE  RemovalInv'
<1>1. txs' \in 0 .. MaxTxs
  BY DEF Step, RemovalInv, RowsOfType
<1> QED BY <1>1, OnlyTxChanges DEF Step

LEMMA GiveUpKeeps ==
    ASSUME RemovalInv, NEW s \in Sessions, Step(s, NoTx)
    PROVE  RemovalInv'
BY NoTxHolds, NoTxFields, StepKeeps

\* What a transaction has open is its own.
LEMMA OwnTx ==
    ASSUME RemovalInv, NEW s \in Sessions
    PROVE  TxHolds(tx[s]) /\ tx[s] \in Tx /\ tx[s].locked \cap Held(s) = {}
BY DEF RemovalInv, TxHolds, Apart, Held

\* What a transaction that waits for nobody is about to write is no one else's.
LEMMA FreeTouchesNoOther ==
    ASSUME RemovalInv, NEW s \in Sessions, Unblocked(s)
    PROVE  /\ At(s, "remove", "asks") => PendingOn(tx[s].node) \cap Held(s) = {}
           /\ At(s, "request", "supersede") => PendingOf(tx[s].user) \cap Held(s) = {}
           /\ At(s, "remove", "null") => \A r \in Held(s) : ask[r].node # tx[s].node
           /\ At(s, "request", "insert") =>
                 \A t \in Sessions \ {s} : At(t, "remove", "null") => tx[t].node # tx[s].node
BY DEF Unblocked, Waits, Held

-----------------------------------------------------------------------------
(* Transactions that begin *)

LEMMA BeginRemoveKeeps ==
    ASSUME RemovalInv, NEW s \in Sessions, NEW n \in Nodes, NEW d \in BOOLEAN, BeginRemove(s, n, d)
    PROVE  RemovalInv'
<1> DEFINE u == [NoTx EXCEPT !.op = "remove", !.node = n, !.deleteKeys = d,
                             !.step = IF KeysOn(n) = {} THEN "asks" ELSE "jobs", !.rows = KeysOn(n)]
<1>1. /\ u \in Tx /\ u.op = "remove" /\ u.node = n /\ u.rows = KeysOn(n)
      /\ u.step \in {"asks", "jobs"} /\ u.gone = {} /\ u.locked = {} /\ ~u.locksLists
  BY NoTxOfType, NoListsAreLists DEF NoTx, Tx, KeysOn
<1>2. TxHolds(u)
  <2> HIDE DEF u
  <2> QED BY <1>1
     DEF TxHolds, TxOfOp, LockedArePending, OthersCancelled, GoesKnown, EditFits, RemovalFits
<1>3. Open(s, u)
  BY DEF BeginRemove
<1> HIDE DEF u
<1> QED BY <1>1, <1>2, <1>3, OpenKeeps

LEMMA BeginAskKeeps ==
    ASSUME RemovalInv, NEW s \in Sessions, NEW u \in Users, NEW n \in Nodes \cup {Null}, BeginAsk(s, u, n)
    PROVE  RemovalInv'
<1> DEFINE t == [NoTx EXCEPT !.op = "request", !.step = "supersede", !.user = u, !.node = n]
<1>1. /\ t \in Tx /\ t.op = "request" /\ t.user = u /\ t.step = "supersede"
      /\ t.gone = {} /\ t.locked = {} /\ ~t.locksLists
  BY NoTxOfType, NoListsAreLists DEF NoTx, Tx
<1>2. TxHolds(t)
  <2> HIDE DEF t
  <2> QED BY <1>1
     DEF TxHolds, TxOfOp, LockedArePending, OthersCancelled, GoesKnown, EditFits, RemovalFits
<1>3. Open(s, t)
  BY DEF BeginAsk
<1> HIDE DEF t
<1> QED BY <1>1, <1>2, <1>3, OpenKeeps

LEMMA BeginReviewKeeps ==
    ASSUME RemovalInv, NEW s \in Sessions, NEW r \in Asks, BeginReview(s, r)
    PROVE  RemovalInv'
<1> DEFINE t == [NoTx EXCEPT !.op = "review", !.step = "commit", !.locked = {r}]
<1>1. /\ t \in Tx /\ t.op = "review" /\ t.step = "commit"
      /\ t.gone = {} /\ t.locked = {r} /\ ~t.locksLists
  BY NoTxOfType, NoListsAreLists DEF NoTx, Tx
<1>2. TxHolds(t)
  <2> HIDE DEF t
  <2> QED BY <1>1
     DEF TxHolds, TxOfOp, LockedArePending, OthersCancelled, GoesKnown, EditFits, RemovalFits, BeginReview
<1>3. Open(s, t) /\ r \notin Held(s)
  BY DEF BeginReview
<1> HIDE DEF t
<1> QED BY <1>1, <1>2, <1>3, OpenKeeps

LEMMA BeginCreateKeeps ==
    ASSUME RemovalInv, NEW s \in Sessions, NEW n \in Nodes, BeginCreate(s, n)
    PROVE  RemovalInv'
<1> DEFINE t == [NoTx EXCEPT !.op = "create", !.step = "commit", !.node = n]
<1>1. /\ t \in Tx /\ t.op = "create" /\ t.step = "commit" /\ t.node = n
      /\ t.gone = {} /\ t.locked = {} /\ ~t.locksLists
  BY NoTxOfType, NoListsAreLists DEF NoTx, Tx
<1>2. TxHolds(t)
  <2> HIDE DEF t
  <2> QED BY <1>1
     DEF TxHolds, TxOfOp, LockedArePending, OthersCancelled, GoesKnown, EditFits, RemovalFits
<1>3. Open(s, t)
  BY DEF BeginCreate
<1> HIDE DEF t
<1> QED BY <1>1, <1>2, <1>3, OpenKeeps

LEMMA BeginQueueKeeps ==
    ASSUME RemovalInv, NEW s \in Sessions, NEW k \in Keys, BeginChange(s, k) \/ BeginRearm(s, k)
    PROVE  RemovalInv'
<1>1. PICK op \in {"change", "rearm"} :
         Open(s, [NoTx EXCEPT !.op = op, !.step = "commit", !.rows = {k}])
  BY DEF BeginChange, BeginRearm
<1> DEFINE t == [NoTx EXCEPT !.op = op, !.step = "commit", !.rows = {k}]
<1>2. /\ t \in Tx /\ t.op = op /\ t.step = "commit"
      /\ t.gone = {} /\ t.locked = {} /\ ~t.locksLists
  BY NoTxOfType, NoListsAreLists DEF NoTx, Tx
<1>3. TxHolds(t)
  <2> HIDE DEF t
  <2> QED BY <1>2
     DEF TxHolds, TxOfOp, LockedArePending, OthersCancelled, GoesKnown, EditFits, RemovalFits
<1> HIDE DEF t
<1> QED BY <1>1, <1>2, <1>3, OpenKeeps DEF t

LEMMA BeginEditKeeps ==
    ASSUME RemovalInv, NEW s \in Sessions, NEW l \in Lists, NEW names \in SUBSET {"recommended", "order"},
           BeginEdit(s, l, names)
    PROVE  RemovalInv'
<1> DEFINE o == IF "order" \in names THEN l.order ELSE lists.order
           r == IF "recommended" \in names THEN l.recommended ELSE lists.recommended
           w == [recommended |-> Top(o, Len(r)), order |-> o]
           t == [NoTx EXCEPT !.op = "edit", !.step = "commit", !.names = names, !.seen = lists, !.write = w]
<1>1. /\ names # {} /\ CheckRecommendedPrefix(r, o) /\ Open(s, t)
  BY DEF BeginEdit
<1>2. lists \in Lists /\ r \in NodeLists /\ o \in NodeLists
  BY DEF RemovalInv, RowsOfType, Lists
<1> HIDE DEF o, r
<1>3. /\ Len(r) <= Len(o) /\ Len(r) \in Nat
      /\ Top(o, Len(r)) \in NodeLists /\ Len(Top(o, Len(r))) = Len(r)
  BY <1>1, <1>2, TopIsWritten
<1>4. w \in Lists /\ FirstOfOrder(w) /\ w.order = o /\ Len(w.recommended) = Len(r)
  BY <1>2, <1>3 DEF Lists, FirstOfOrder
<1> HIDE DEF w
<1>5. /\ t \in Tx /\ t.op = "edit" /\ t.step = "commit" /\ t.names = names /\ t.seen = lists /\ t.write = w
      /\ t.gone = {} /\ t.locked = {} /\ ~t.locksLists
  BY <1>2, <1>4, NoTxOfType DEF NoTx, Tx
<1>6. "order" \notin names => w.order = lists.order
  BY <1>4 DEF o
<1>7. "recommended" \notin names => Len(w.recommended) = Len(lists.recommended)
  BY <1>4 DEF r
<1> HIDE DEF t
<1>8. TxHolds(t)
  BY <1>1, <1>4, <1>5, <1>6, <1>7
     DEF TxHolds, TxOfOp, LockedArePending, OthersCancelled, GoesKnown, EditFits, RemovalFits
<1> QED BY <1>1, <1>5, <1>8, OpenKeeps

-----------------------------------------------------------------------------
(* Steps of a removal that others do not see *)

LEMMA RemoveJobsKeeps ==
    ASSUME RemovalInv, NEW s \in Sessions, RemoveJobs(s)
    PROVE  RemovalInv'
<1> DEFINE t == tx[s]
           u == [t EXCEPT !.step = "keys"]
<1>1. TxHolds(t) /\ t \in Tx /\ t.locked \cap Held(s) = {}
  BY OwnTx
<1>2. t.op = "remove" /\ t.step = "jobs" /\ Step(s, u)
  BY DEF RemoveJobs, At
<1> HIDE DEF t
<1>3. /\ u \in Tx /\ u.op = t.op /\ u.step = "keys" /\ u.node = t.node /\ u.rows = t.rows
      /\ u.gone = t.gone /\ u.late = t.late /\ u.locked = t.locked /\ u.locksLists = t.locksLists
  BY <1>1 DEF Tx
<1> HIDE DEF u
<1>4. TxHolds(u)
  BY <1>1, <1>2, <1>3
     DEF TxHolds, TxOfOp, LockedArePending, OthersCancelled, GoesKnown, EditFits, RemovalFits
<1> QED BY <1>1, <1>2, <1>3, <1>4, StepKeeps

LEMMA RemoveKeysKeeps ==
    ASSUME RemovalInv, NEW s \in Sessions, RemoveKeys(s)
    PROVE  RemovalInv'
<1> DEFINE t == tx[s]
           u == [t EXCEPT !.gone = KeysOn(t.node), !.step = "asks"]
<1>1. TxHolds(t) /\ t \in Tx /\ t.locked \cap Held(s) = {}
  BY OwnTx
<1>2. t.op = "remove" /\ t.step = "keys" /\ Step(s, u)
  BY DEF RemoveKeys, At
<1> HIDE DEF t
<1>3. /\ u \in Tx /\ u.op = t.op /\ u.step = "asks" /\ u.node = t.node /\ u.rows = t.rows
      /\ u.gone = KeysOn(t.node) /\ u.late = t.late /\ u.locked = t.locked
      /\ u.locksLists = t.locksLists
  BY <1>1 DEF Tx, KeysOn
<1> HIDE DEF u
<1>4. t.node \in Nodes /\ t.locked = {} /\ ~t.locksLists /\ KeysOn(t.node) \ t.rows \subseteq t.late
  BY <1>1, <1>2 DEF TxHolds, TxOfOp, GoesKnown
<1>5. KeysOn(t.node) \subseteq Made
  BY <1>4, NullAssumption DEF KeysOn, Made
<1>6. TxHolds(u)
  BY <1>2, <1>3, <1>4, <1>5
     DEF TxHolds, TxOfOp, LockedArePending, OthersCancelled, GoesKnown, EditFits, RemovalFits
<1> QED BY <1>1, <1>2, <1>3, <1>6, StepKeeps

LEMMA CancelAsksKeeps ==
    ASSUME RemovalInv, NEW s \in Sessions, CancelAsks(s)
    PROVE  RemovalInv'
<1> DEFINE t == tx[s]
           u == [t EXCEPT !.locked = PendingOn(t.node), !.step = "read"]
<1>1. TxHolds(t) /\ t \in Tx
  BY OwnTx
<1>2. t.op = "remove" /\ t.step = "asks" /\ Step(s, u) /\ PendingOn(t.node) \cap Held(s) = {}
  BY FreeTouchesNoOther DEF CancelAsks, At
<1> HIDE DEF t
<1>3. /\ u \in Tx /\ u.op = t.op /\ u.step = "read" /\ u.node = t.node /\ u.rows = t.rows
      /\ u.gone = t.gone /\ u.late = t.late /\ u.locked = PendingOn(t.node) /\ u.locksLists = t.locksLists
  BY <1>1 DEF Tx, PendingOn
<1> HIDE DEF u
<1>4. t.node \in Nodes /\ ~t.locksLists /\ t.gone \subseteq Made /\ t.gone \ t.rows \subseteq t.late
  BY <1>1, <1>2 DEF TxHolds, TxOfOp, GoesKnown
<1>5. \A r \in PendingOn(t.node) : Pending(r)
  BY DEF PendingOn
<1>6. TxHolds(u)
  BY <1>2, <1>3, <1>4, <1>5
     DEF TxHolds, TxOfOp, LockedArePending, OthersCancelled, GoesKnown, EditFits, RemovalFits
<1> QED BY <1>2, <1>3, <1>6, StepKeeps

LEMMA ReadListsKeeps ==
    ASSUME RemovalInv, NEW s \in Sessions, ReadLists(s)
    PROVE  RemovalInv'
<1> DEFINE t == tx[s]
           found == Listed(t.node, lists.recommended) \/ Listed(t.node, lists.order)
           u == [t EXCEPT !.seen = lists, !.step = IF found THEN "lists" ELSE "erase"]
<1>1. TxHolds(t) /\ t \in Tx /\ t.locked \cap Held(s) = {}
  BY OwnTx
<1>2. t.op = "remove" /\ t.step = "read" /\ Step(s, u)
  BY DEF ReadLists, At
<1> HIDE DEF t
<1>3. lists \in Lists
  BY DEF RemovalInv, RowsOfType
<1>4. /\ u \in Tx /\ u.op = t.op /\ u.step \in {"lists", "erase"} /\ u.node = t.node /\ u.rows = t.rows
      /\ u.gone = t.gone /\ u.late = t.late /\ u.locked = t.locked /\ u.locksLists = t.locksLists /\ u.seen = lists
      /\ u.step = "erase" => ~found
  BY <1>1, <1>3 DEF Tx
<1> HIDE DEF u
<1>5. ~t.locksLists
  BY <1>1, <1>2 DEF TxHolds, TxOfOp
<1>6. TxHolds(u)
  BY <1>1, <1>2, <1>4, <1>5
     DEF TxHolds, TxOfOp, LockedArePending, OthersCancelled, GoesKnown, EditFits, RemovalFits
<1> QED BY <1>1, <1>2, <1>4, <1>6, StepKeeps

LEMMA ScrubListsKeeps ==
    ASSUME RemovalInv, NEW s \in Sessions, ScrubLists(s)
    PROVE  RemovalInv'
<1> DEFINE t == tx[s]
           w == [recommended |-> Without(t.seen.recommended, t.node),
                 order |-> Without(t.seen.order, t.node)]
           u == [t EXCEPT !.write = w, !.locksLists = TRUE, !.step = "erase"]
<1>1. TxHolds(t) /\ t \in Tx /\ t.locked \cap Held(s) = {}
  BY OwnTx
<1>2. t.op = "remove" /\ t.step = "lists" /\ Step(s, u)
  BY DEF ScrubLists, At
<1> HIDE DEF t
<1>3. w \in Lists
  BY <1>1, WithoutIsList DEF Lists, Tx
<1>4. /\ u \in Tx /\ u.op = t.op /\ u.step = "erase" /\ u.node = t.node /\ u.rows = t.rows
      /\ u.gone = t.gone /\ u.late = t.late /\ u.locked = t.locked /\ u.locksLists /\ u.seen = t.seen /\ u.write = w
  <2> HIDE DEF w
  <2> QED BY <1>1, <1>3 DEF Tx
<1> HIDE DEF u
<1>5. TxHolds(u)
  BY <1>1, <1>2, <1>4
     DEF TxHolds, TxOfOp, LockedArePending, OthersCancelled, GoesKnown, EditFits, RemovalFits
<1> QED BY <1>1, <1>2, <1>4, <1>5, StepKeeps

LEMMA EraseNodeKeeps ==
    ASSUME RemovalInv, NEW s \in Sessions, EraseNode(s)
    PROVE  RemovalInv'
<1> DEFINE t == tx[s]
           u == [t EXCEPT !.step = "null"]
<1>1. TxHolds(t) /\ t \in Tx /\ t.locked \cap Held(s) = {}
  BY OwnTx
<1>2. t.op = "remove" /\ t.step = "erase" /\ (Step(s, u) \/ Step(s, NoTx))
  BY DEF EraseNode, At
<1> HIDE DEF t
<1>3. /\ u \in Tx /\ u.op = t.op /\ u.step = "null" /\ u.node = t.node /\ u.rows = t.rows
      /\ u.gone = t.gone /\ u.late = t.late /\ u.locked = t.locked /\ u.locksLists = t.locksLists
      /\ u.seen = t.seen /\ u.write = t.write
  BY <1>1 DEF Tx
<1> HIDE DEF u
<1>4. TxHolds(u)
  BY <1>1, <1>2, <1>3
     DEF TxHolds, TxOfOp, LockedArePending, OthersCancelled, GoesKnown, EditFits, RemovalFits
<1> QED BY <1>1, <1>2, <1>3, <1>4, StepKeeps, GiveUpKeeps

LEMMA SupersedeKeeps ==
    ASSUME RemovalInv, NEW s \in Sessions, Supersede(s)
    PROVE  RemovalInv'
<1> DEFINE t == tx[s]
           u == [t EXCEPT !.locked = PendingOf(t.user), !.step = "insert"]
<1>1. TxHolds(t) /\ t \in Tx
  BY OwnTx
<1>2. t.op = "request" /\ t.step = "supersede" /\ Step(s, u) /\ PendingOf(t.user) \cap Held(s) = {}
  BY FreeTouchesNoOther DEF Supersede, At
<1> HIDE DEF t
<1>3. /\ u \in Tx /\ u.op = t.op /\ u.step = "insert" /\ u.user = t.user /\ u.rows = t.rows
      /\ u.gone = t.gone /\ u.late = t.late /\ u.locked = PendingOf(t.user) /\ u.locksLists = t.locksLists
  BY <1>1 DEF Tx, PendingOf
<1> HIDE DEF u
<1>4. \A r \in PendingOf(t.user) : Pending(r)
  BY DEF PendingOf
<1>5. TxHolds(u)
  BY <1>1, <1>2, <1>3, <1>4
     DEF TxHolds, TxOfOp, LockedArePending, OthersCancelled, GoesKnown, EditFits, RemovalFits
<1> QED BY <1>2, <1>3, <1>5, StepKeeps

-----------------------------------------------------------------------------
(* Steps that others see *)

\* A job that comes late to a removal changes nothing else of it.
LEMMA LateOnly ==
    ASSUME NEW t \in Tx, NEW k \in Keys
    PROVE  LET u == [t EXCEPT !.late = @ \cup {k}]
           IN  /\ u \in Tx /\ u.op = t.op /\ u.step = t.step /\ u.node = t.node /\ u.user = t.user
               /\ u.rows = t.rows /\ u.gone = t.gone /\ u.late = t.late \cup {k}
               /\ u.locked = t.locked /\ u.seen = t.seen /\ u.write = t.write
               /\ u.names = t.names /\ u.locksLists = t.locksLists
BY DEF Tx

\* What is open beside a transaction that commits, in what commits from it.
LEMMA BesideHold ==
    ASSUME RemovalInv, NEW s \in Sessions, tx' = [t \in Sessions |-> tx'[t]], tx'[s] = NoTx,
           slipped \subseteq slipped', Made \subseteq Made',
           \A t \in Sessions \ {s} :
              /\ tx'[t] = tx[t] \/ \E k \in Keys : tx'[t] = [tx[t] EXCEPT !.late = @ \cup {k}]
              /\ \A r \in tx[t].locked : Pending(r)'
              /\ \A r \in Asks : Pending(r)' /\ ask'[r].node = tx[t].node /\ tx[t].op = "remove"
                                 /\ tx[t].step \in {"read", "lists", "erase", "null"}
                                 => (Pending(r) /\ ask[r].node = tx[t].node) \/ r \in slipped'
              /\ \A k \in Keys \ erased' : key'[k] = tx[t].node
                                 /\ tx[t].op = "remove" /\ tx[t].step \in {"jobs", "keys"}
                                 /\ k \notin tx[t].rows => k \in KeysOn(tx[t].node) \/ k \in tx'[t].late
    PROVE  (\A t \in Sessions : TxHolds(tx[t]))' /\ Apart' /\ tx' \in [Sessions -> Tx]
<1>1. ASSUME NEW t \in Sessions \ {s}
      PROVE  /\ tx'[t] \in Tx /\ tx'[t].op = tx[t].op /\ tx'[t].step = tx[t].step
             /\ tx'[t].node = tx[t].node /\ tx'[t].user = tx[t].user
             /\ tx'[t].rows = tx[t].rows /\ tx'[t].gone = tx[t].gone /\ tx[t].late \subseteq tx'[t].late
             /\ tx'[t].locked = tx[t].locked /\ tx'[t].seen = tx[t].seen /\ tx'[t].write = tx[t].write
             /\ tx'[t].names = tx[t].names /\ tx'[t].locksLists = tx[t].locksLists
  <2>1. tx[t] \in Tx
    BY DEF RemovalInv, RowsOfType
  <2>2. CASE tx'[t] = tx[t]
    BY <2>1, <2>2
  <2>3. ASSUME NEW k \in Keys, tx'[t] = [tx[t] EXCEPT !.late = @ \cup {k}]
        PROVE  /\ tx'[t] \in Tx /\ tx'[t].op = tx[t].op /\ tx'[t].step = tx[t].step
               /\ tx'[t].node = tx[t].node /\ tx'[t].user = tx[t].user
               /\ tx'[t].rows = tx[t].rows /\ tx'[t].gone = tx[t].gone /\ tx[t].late \subseteq tx'[t].late
               /\ tx'[t].locked = tx[t].locked /\ tx'[t].seen = tx[t].seen /\ tx'[t].write = tx[t].write
               /\ tx'[t].names = tx[t].names /\ tx'[t].locksLists = tx[t].locksLists
    BY <2>1, <2>3, LateOnly
  <2> QED BY <2>2, <2>3
<1>2. Apart'
  BY <1>1, NoTxFields DEF RemovalInv, Apart
<1>3. tx' \in [Sessions -> Tx]
  BY <1>1, NoTxOfType
<1>4. TxHolds(tx[s])'
  BY NoTxFields, NoTxOfType
     DEF TxHolds, TxOfOp, LockedArePending, OthersCancelled, GoesKnown, EditFits, RemovalFits
<1>5. ASSUME NEW t \in Sessions \ {s} PROVE TxHolds(tx[t])'
  <2>2. TxHolds(tx[t])
    BY DEF RemovalInv
  <2>3. LockedArePending(tx[t])'
    BY <1>1 DEF LockedArePending
  <2>4. OthersCancelled(tx[t])'
    BY <1>1, <2>2 DEF TxHolds, OthersCancelled, PendingOn
  <2>5. GoesKnown(tx[t])'
    BY <1>1, <2>2 DEF TxHolds, GoesKnown, KeysOn
  <2>6. (tx[t] \in Tx /\ TxOfOp(tx[t]))'
    BY <1>1, <2>2 DEF TxHolds, TxOfOp
  <2>7. (EditFits(tx[t]) /\ RemovalFits(tx[t]))'
    BY <1>1, <2>2 DEF TxHolds, EditFits, RemovalFits
  <2> QED BY <2>3, <2>4, <2>5, <2>6, <2>7 DEF TxHolds
<1> QED BY <1>2, <1>3, <1>4, <1>5

\* The same, when no job commits.
LEMMA OthersHold ==
    ASSUME RemovalInv, NEW s \in Sessions, tx' = [tx EXCEPT ![s] = NoTx],
           slipped \subseteq slipped', Made \subseteq Made',
           \A t \in Sessions \ {s} :
              /\ \A r \in tx[t].locked : Pending(r)'
              /\ \A r \in Asks : Pending(r)' /\ ask'[r].node = tx[t].node /\ tx[t].op = "remove"
                                 /\ tx[t].step \in {"read", "lists", "erase", "null"}
                                 => (Pending(r) /\ ask[r].node = tx[t].node) \/ r \in slipped'
              /\ \A k \in Keys \ erased' : key'[k] = tx[t].node => k \in KeysOn(tx[t].node)
    PROVE  (\A t \in Sessions : TxHolds(tx[t]))' /\ Apart' /\ tx' \in [Sessions -> Tx]
<1>1. /\ tx'[s] = NoTx /\ tx' = [t \in Sessions |-> tx'[t]]
      /\ \A t \in Sessions \ {s} : tx'[t] = tx[t]
  BY DEF RemovalInv, RowsOfType
<1> QED BY <1>1, BesideHold

\* A committed job and those beside it.
LEMMA QueuedBeside ==
    ASSUME RemovalInv, NEW s \in Sessions, NEW k \in Keys, NEW n, Queued(s, k, n)
    PROVE  /\ tx' = [t \in Sessions |-> tx'[t]] /\ tx'[s] = NoTx
           /\ \A t \in Sessions \ {s} :
                 /\ tx'[t] = tx[t] \/ \E j \in Keys : tx'[t] = [tx[t] EXCEPT !.late = @ \cup {j}]
                 /\ Misses(t, k, n) => k \in tx'[t].late
<1>1. tx \in [Sessions -> Tx]
  BY DEF RemovalInv, RowsOfType
<1>2. ASSUME NEW t \in Sessions \ {s}, Misses(t, k, n) PROVE k \in tx'[t].late
  <2>1. tx'[t] = [tx[t] EXCEPT !.late = @ \cup {k}] /\ tx[t] \in Tx
    BY <1>1, <1>2 DEF Queued
  <2> QED BY <2>1, LateOnly
<1> QED BY <1>2 DEF Queued

LEMMA AskFields ==
    ASSUME RemovalInv, NEW r \in Asks, ask[r] # Unasked
    PROVE  /\ ask[r] \in Ask /\ ask[r].user \in Users /\ ask[r].node \in Nodes \cup {Null}
           /\ ask[r].asked \in Nodes \cup {Null}
           /\ ask[r].status \in {"pending", "approved", "rejected", "cancelled"}
BY DEF RemovalInv, RowsOfType, Ask

LEMMA AskIsAsked ==
    ASSUME NEW a \in Ask
    PROVE  a # Unasked
<1>1. a.user \in Users /\ Unasked.user = Null
  BY DEF Ask, Unasked
<1> QED BY <1>1, NullAssumption

LEMMA CommitRemoveKeeps ==
    ASSUME RemovalInv, NEW s \in Sessions, CommitRemove(s)
    PROVE  RemovalInv'
<1> DEFINE t == tx[s]
           n == t.node
           naming == {r \in Asks : ask[r] # Unasked /\ ask[r].node = n}
<1>1. /\ TxHolds(t) /\ t \in Tx /\ t.op = "remove" /\ t.step = "null" /\ n \in Nodes /\ n # Null
      /\ t.locked \subseteq Asks
  <2>1. TxHolds(t) /\ t \in Tx
    BY OwnTx
  <2>2. t.op = "remove" /\ t.step = "null"
    BY DEF CommitRemove, At
  <2> HIDE DEF t
  <2> QED BY <2>1, <2>2, NullAssumption DEF TxHolds, TxOfOp, Tx
<1>2. /\ naming \cap Held(s) = {} /\ \A o \in Sessions \ {s} : t.locked \cap tx[o].locked = {}
      /\ \A o \in Sessions \ {s} : naming \cap tx[o].locked = {}
  <2>1. \A r \in Held(s) : ask[r].node # n
    BY FreeTouchesNoOther DEF CommitRemove
  <2>2. naming \cap Held(s) = {}
    BY <2>1
  <2> HIDE DEF naming
  <2> QED BY <2>2 DEF Held, RemovalInv, Apart
<1>3. \A r \in t.locked : Pending(r)
  BY <1>1 DEF TxHolds, LockedArePending
<1>4. PendingOn(n) \subseteq t.locked \cup slipped
  BY <1>1 DEF TxHolds, OthersCancelled
<1>5. \A r \in Asks : ask'[r] = IF r \in t.locked THEN [ask[r] EXCEPT !.status = "cancelled", !.node = Null]
                                ELSE IF r \in naming THEN [ask[r] EXCEPT !.node = Null] ELSE ask[r]
  BY DEF CommitRemove
<1>6. ASSUME NEW r \in Asks, ask[r] # Unasked
      PROVE  /\ ask'[r] \in Ask /\ ask'[r] # Unasked
             /\ ask'[r].asked = ask[r].asked /\ ask'[r].node \in {ask[r].node, Null}
             /\ ask'[r].status = IF r \in t.locked THEN "cancelled" ELSE ask[r].status
             /\ r \notin t.locked /\ r \notin naming => ask'[r] = ask[r]
             /\ r \notin t.locked /\ r \in naming => ask'[r].node = Null
  <2>1. ask[r] \in Ask
    BY <1>6, AskFields
  <2>2. CASE r \in t.locked
    <3>1. ask'[r] = [ask[r] EXCEPT !.status = "cancelled", !.node = Null]
      BY <1>5, <2>2
    <3> QED BY <2>1, <2>2, <3>1, AskIsAsked DEF Ask
  <2>3. CASE r \notin t.locked /\ r \in naming
    <3>1. ask'[r] = [ask[r] EXCEPT !.node = Null]
      BY <1>5, <2>3
    <3> QED BY <2>1, <2>3, <3>1, AskIsAsked DEF Ask
  <2>4. CASE r \notin t.locked /\ r \notin naming
    <3>1. ask'[r] = ask[r]
      BY <1>5, <2>4
    <3> QED BY <1>6, <2>1, <2>4, <3>1
  <2> QED BY <2>2, <2>3, <2>4
<1>7. ASSUME NEW r \in Asks, ask[r] = Unasked PROVE ask'[r] = Unasked
  BY <1>3, <1>5, <1>7 DEF Pending
<1>8. node' = [node EXCEPT ![n] = "gone"] /\ node'[n] = "gone" /\ \A m \in Nodes \ {n} : node'[m] = node[m]
  BY <1>1 DEF CommitRemove, RemovalInv, RowsOfType
<1>9. /\ UNCHANGED <<key, txs, slipped>> /\ tx' = [tx EXCEPT ![s] = NoTx]
      /\ erased' = erased \cup t.gone /\ jobs' = jobs \ (t.rows \ t.late)
      /\ unseen' = unseen \cup (t.late \cap t.gone)
  BY DEF CommitRemove, Dropped
<1>10. t.gone \subseteq Made /\ t.gone \ t.rows \subseteq t.late
  BY <1>1 DEF TxHolds, GoesKnown
<1>11. (\A o \in Sessions : TxHolds(tx[o]))' /\ Apart' /\ tx' \in [Sessions -> Tx]
  <2>1. ASSUME NEW o \in Sessions \ {s}, NEW r \in tx[o].locked
        PROVE  Pending(r)'
    <3>1. r \in Asks /\ Pending(r) /\ r \notin t.locked /\ r \notin naming
      BY <1>2 DEF RemovalInv, TxHolds, LockedArePending, RowsOfType, Tx
    <3> QED BY <3>1, <1>6 DEF Pending
  <2>2. ASSUME NEW r \in Asks, Pending(r)'
        PROVE  /\ Pending(r) /\ \A m \in Nodes : ask'[r].node = m => ask[r].node = m
    BY <1>6, <1>7, <2>2, NullAssumption DEF Pending
  <2>3. \A o \in Sessions : tx[o].op = "remove" => tx[o].node \in Nodes
    BY DEF RemovalInv, TxHolds, TxOfOp
  <2>4. ASSUME NEW o \in Sessions \ {s}, NEW k \in Keys \ erased', key'[k] = tx[o].node
        PROVE  k \in KeysOn(tx[o].node)
    BY <1>9, <2>4 DEF KeysOn
  <2>5. slipped \subseteq slipped' /\ Made \subseteq Made'
    BY <1>9 DEF Made
  <2>6. ASSUME NEW o \in Sessions \ {s}, NEW r \in Asks, Pending(r)', ask'[r].node = tx[o].node,
               tx[o].op = "remove"
        PROVE  Pending(r) /\ ask[r].node = tx[o].node
    BY <2>2, <2>3, <2>6
  <2>7. tx' = [tx EXCEPT ![s] = NoTx]
    BY <1>9
  <2> HIDE DEF t, n, naming
  <2> QED BY <2>1, <2>4, <2>5, <2>6, <2>7, OthersHold
<1>12. lists' \in Lists /\ crossed' \in BOOLEAN /\ ListsFit'
  <2>1. CASE ~t.locksLists
    <3>1. lists' = lists /\ crossed' = (crossed \/ lists # t.seen) /\ lists \in Lists
      BY <2>1 DEF CommitRemove, RemovalInv, RowsOfType
    <3>2. ~Listed(n, t.seen.order)
      BY <1>1, <2>1 DEF TxHolds, RemovalFits
    <3> QED BY <3>1, <3>2, <1>8 DEF RemovalInv, ListsFit, RowsOfType, Exists
  <2>2. CASE t.locksLists
    <3> DEFINE w == [recommended |-> Without(t.seen.recommended, n), order |-> Without(t.seen.order, n)]
    <3>1. lists' = w /\ crossed' = (crossed \/ lists # t.seen) /\ lists \in Lists
      BY <1>1, <2>2 DEF CommitRemove, RemovalInv, RowsOfType, TxHolds, RemovalFits
    <3>2. lists' \in Lists
      BY <1>1, <2>2 DEF CommitRemove, Tx
    <3>3. crossed' \in BOOLEAN
      BY <3>1 DEF RemovalInv, RowsOfType
    <3>4. ASSUME ~crossed' PROVE FirstOfOrder(lists') /\ \A m \in Nodes : Listed(m, lists'.order) => Exists(m)'
      <4>1. t.seen = lists /\ FirstOfOrder(lists) /\ \A m \in Nodes : Listed(m, lists.order) => Exists(m)
        BY <3>1, <3>4 DEF RemovalInv, ListsFit
      <4>2. FirstOfOrder(lists')
        BY <3>1, <4>1, WithoutKeepsFirst
      <4>3. ASSUME NEW m \in Nodes, Listed(m, lists'.order) PROVE Exists(m)'
        <5>1. lists'.order = Without(lists.order, n) /\ lists.order \in NodeLists
          BY <3>1, <4>1 DEF Lists
        <5>2. Listed(m, lists.order) /\ m # n
          BY <4>3, <5>1, WithoutKeeps
        <5> QED BY <4>1, <5>2, <1>8 DEF Exists
      <4> QED BY <4>2, <4>3
    <3>5. ListsFit'
      BY <3>3, <3>4 DEF ListsFit, FirstOfOrder, Listed
    <3> QED BY <3>2, <3>3, <3>5
  <2> QED BY <2>1, <2>2
<1>13. RowsOfType'
  <2>1. ask' \in [Asks -> Ask \cup {Unasked}]
    <3>1. \A r \in Asks : ask'[r] \in Ask \cup {Unasked}
      BY <1>6, <1>7
    <3>2. ask' = [r \in Asks |-> ask'[r]]
      BY DEF CommitRemove
    <3> QED BY <3>1, <3>2
  <2>2. erased' \subseteq Made' /\ jobs' \subseteq Keys /\ unseen' \subseteq Keys
    BY <1>9, <1>10 DEF RemovalInv, RowsOfType, Made
  <2> QED BY <1>8, <1>9, <1>11, <1>12, <2>1, <2>2 DEF RemovalInv, RowsOfType
<1>14. NamesItsOwn'
  BY <1>6, <1>7 DEF RemovalInv, NamesItsOwn
<1>15. TargetKept'
  <2> SUFFICES ASSUME NEW r \in Asks \ slipped', ask'[r] # Unasked, ask'[r].status # "cancelled",
                      ask'[r].asked # Null
               PROVE  \/ ask'[r].node = ask'[r].asked
                      \/ ~Pending(r)' /\ node'[ask'[r].asked] = "gone"
    BY DEF TargetKept
  <2>1. /\ r \in Asks \ slipped /\ ask[r] # Unasked /\ r \notin t.locked
        /\ ask[r].status # "cancelled" /\ ask'[r].status = ask[r].status /\ ask'[r].asked = ask[r].asked
    BY <1>6, <1>7, <1>9
  <2>2. ask[r].node = ask[r].asked \/ (~Pending(r) /\ node[ask[r].asked] = "gone")
    BY <2>1 DEF RemovalInv, TargetKept
  <2>3. Pending(r)' => Pending(r)
    BY <2>1 DEF Pending
  <2>4. node[ask[r].asked] = "gone" => node'[ask[r].asked] = "gone"
    <3>1. ask[r].asked \in Nodes
      BY <2>1, AskFields
    <3> QED BY <3>1, <1>8
  <2>5. CASE r \notin naming
    BY <1>6, <2>1, <2>2, <2>3, <2>4, <2>5
  <2>6. CASE r \in naming
    <3>1. ~Pending(r)
      BY <1>4, <2>1, <2>6 DEF PendingOn
    <3>2. ask[r].asked = n
      BY <1>1, <2>1, <2>6 DEF RemovalInv, NamesItsOwn
    <3> QED BY <3>1, <3>2, <2>1, <2>3, <1>8
  <2> QED BY <2>5, <2>6
<1>16. JobsHaveKeys'
  BY <1>9, <1>10 DEF RemovalInv, JobsHaveKeys
<1> QED BY <1>11, <1>12, <1>13, <1>14, <1>15, <1>16 DEF RemovalInv

LEMMA InsertAskKeeps ==
    ASSUME RemovalInv, NEW s \in Sessions, NEW r \in Asks, InsertAsk(s, r)
    PROVE  RemovalInv'
<1> DEFINE t == tx[s]
           new == [user |-> t.user, node |-> t.node, asked |-> t.node, status |-> "pending"]
<1>1. TxHolds(t) /\ t \in Tx /\ t.op = "request" /\ t.step = "insert" /\ t.user \in Users
  <2>1. TxHolds(t) /\ t \in Tx
    BY OwnTx
  <2>2. t.op = "request" /\ t.step = "insert"
    BY DEF InsertAsk, At
  <2> HIDE DEF t
  <2> QED BY <2>1, <2>2 DEF TxHolds, TxOfOp
<1>2. new \in Ask /\ new # Unasked /\ new.node = t.node /\ new.asked = t.node /\ new.status = "pending"
  <2>1. new \in Ask
    BY <1>1 DEF Ask, Tx
  <2> QED BY <2>1, AskIsAsked
<1>3. \A q \in t.locked : Pending(q) /\ q # r
  BY <1>1 DEF TxHolds, LockedArePending, Pending, InsertAsk, FreshAsks
<1>4. /\ ask[r] = Unasked /\ ask'[r] = new
      /\ \A q \in Asks \ {r} : ask'[q] = IF q \in t.locked THEN [ask[q] EXCEPT !.status = "cancelled"]
                                         ELSE ask[q]
      /\ ask' = [q \in Asks |-> ask'[q]]
  BY DEF InsertAsk, FreshAsks
<1>5. ASSUME NEW q \in Asks \ {r}, ask[q] # Unasked
      PROVE  /\ ask'[q] \in Ask /\ ask'[q] # Unasked
             /\ ask'[q].asked = ask[q].asked /\ ask'[q].node = ask[q].node
             /\ ask'[q].status = IF q \in t.locked THEN "cancelled" ELSE ask[q].status
  <2>1. ask[q] \in Ask
    BY <1>5, AskFields
  <2>2. CASE q \in t.locked
    <3>1. ask'[q] = [ask[q] EXCEPT !.status = "cancelled"]
      BY <1>4, <2>2
    <3> QED BY <2>1, <2>2, <3>1, AskIsAsked DEF Ask
  <2>3. CASE q \notin t.locked
    <3>1. ask'[q] = ask[q]
      BY <1>4, <2>3
    <3> QED BY <1>5, <2>1, <2>3, <3>1
  <2> QED BY <2>2, <2>3
<1>6. ASSUME NEW q \in Asks \ {r}, ask[q] = Unasked PROVE ask'[q] = Unasked
  BY <1>3, <1>4, <1>6 DEF Pending
<1>7. /\ UNCHANGED <<node, key, erased, jobs, lists, txs, unseen, crossed>> /\ tx' = [tx EXCEPT ![s] = NoTx]
      /\ slipped \subseteq slipped' /\ slipped' \subseteq slipped \cup {r}
  BY DEF InsertAsk
<1>8. ASSUME NEW o \in Sessions \ {s}, tx[o].op = "remove", tx[o].node = t.node,
             tx[o].step \in {"read", "lists", "erase", "null"}
      PROVE  r \in slipped'
  <2>1. tx[o].step # "null"
    BY <1>8, FreeTouchesNoOther DEF InsertAsk, At
  <2>2. tx[o].step \in {"read", "lists", "erase"}
    BY <1>8, <2>1
  <2> QED BY <1>8, <2>2 DEF InsertAsk
<1>9. (\A o \in Sessions : TxHolds(tx[o]))' /\ Apart' /\ tx' \in [Sessions -> Tx]
  <2>1. ASSUME NEW o \in Sessions \ {s}, NEW q \in tx[o].locked
        PROVE  Pending(q)'
    <3>1. q \in Asks /\ Pending(q) /\ q \notin t.locked
      BY DEF RemovalInv, TxHolds, LockedArePending, RowsOfType, Tx, Apart
    <3>2. q # r
      BY <1>4, <3>1 DEF Pending
    <3> QED BY <3>1, <3>2, <1>5 DEF Pending
  <2>2. ASSUME NEW o \in Sessions \ {s}, NEW q \in Asks, Pending(q)', ask'[q].node = tx[o].node,
               tx[o].op = "remove", tx[o].step \in {"read", "lists", "erase", "null"}
        PROVE  (Pending(q) /\ ask[q].node = tx[o].node) \/ q \in slipped'
    <3>1. CASE q = r
      BY <1>2, <1>4, <1>8, <2>2, <3>1
    <3>2. CASE q # r
      BY <1>5, <1>6, <2>2, <3>2 DEF Pending
    <3> QED BY <3>1, <3>2
  <2>3. ASSUME NEW o \in Sessions \ {s}, NEW k \in Keys \ erased', key'[k] = tx[o].node
        PROVE  k \in KeysOn(tx[o].node)
    BY <1>7, <2>3 DEF KeysOn
  <2>4. Made \subseteq Made' /\ slipped \subseteq slipped' /\ tx' = [tx EXCEPT ![s] = NoTx]
    BY <1>7 DEF Made
  <2> HIDE DEF t, new
  <2> QED BY <2>1, <2>2, <2>3, <2>4, OthersHold
<1>10. RowsOfType'
  <2>1. ask' \in [Asks -> Ask \cup {Unasked}]
    <3>1. \A q \in Asks : ask'[q] \in Ask \cup {Unasked}
      BY <1>2, <1>4, <1>5, <1>6
    <3> QED BY <1>4, <3>1
  <2> QED BY <1>7, <1>9, <2>1 DEF RemovalInv, RowsOfType, Made
<1>11. NamesItsOwn'
  BY <1>2, <1>4, <1>5, <1>6 DEF RemovalInv, NamesItsOwn
<1>12. TargetKept'
  <2> SUFFICES ASSUME NEW q \in Asks \ slipped', ask'[q] # Unasked, ask'[q].status # "cancelled",
                      ask'[q].asked # Null
               PROVE  \/ ask'[q].node = ask'[q].asked
                      \/ ~Pending(q)' /\ node'[ask'[q].asked] = "gone"
    BY DEF TargetKept
  <2>1. CASE q = r
    BY <1>2, <1>4, <2>1
  <2>2. CASE q # r
    BY <1>5, <1>6, <1>7, <2>2 DEF RemovalInv, TargetKept, Pending
  <2> QED BY <2>1, <2>2
<1>13. JobsHaveKeys' /\ ListsFit'
  BY <1>7 DEF RemovalInv, JobsHaveKeys, ListsFit, Exists
<1> QED BY <1>9, <1>10, <1>11, <1>12, <1>13 DEF RemovalInv

LEMMA CommitReviewKeeps ==
    ASSUME RemovalInv, NEW s \in Sessions, NEW status \in {"approved", "rejected"}, CommitReview(s, status)
    PROVE  RemovalInv'
<1> DEFINE t == tx[s]
<1>1. TxHolds(t) /\ t \in Tx
  BY OwnTx
<1>2. \A q \in t.locked : Pending(q)
  BY <1>1 DEF TxHolds, LockedArePending
<1>3. /\ \A q \in Asks : ask'[q] = IF q \in t.locked THEN [ask[q] EXCEPT !.status = status] ELSE ask[q]
      /\ ask' = [q \in Asks |-> ask'[q]]
  BY DEF CommitReview
<1>4. ASSUME NEW q \in Asks, ask[q] # Unasked
      PROVE  /\ ask'[q] \in Ask /\ ask'[q] # Unasked
             /\ ask'[q].asked = ask[q].asked /\ ask'[q].node = ask[q].node
             /\ ask'[q].status = IF q \in t.locked THEN status ELSE ask[q].status
  <2>1. ask[q] \in Ask
    BY <1>4, AskFields
  <2>2. CASE q \in t.locked
    <3>1. ask'[q] = [ask[q] EXCEPT !.status = status]
      BY <1>3, <2>2
    <3> QED BY <2>1, <2>2, <3>1, AskIsAsked DEF Ask
  <2>3. CASE q \notin t.locked
    <3>1. ask'[q] = ask[q]
      BY <1>3, <2>3
    <3> QED BY <1>4, <2>1, <2>3, <3>1
  <2> QED BY <2>2, <2>3
<1>5. ASSUME NEW q \in Asks, ask[q] = Unasked PROVE ask'[q] = Unasked
  BY <1>2, <1>3, <1>5 DEF Pending
<1>6. UNCHANGED <<node, key, erased, jobs, lists, txs, slipped, unseen, crossed>> /\ tx' = [tx EXCEPT ![s] = NoTx]
  BY DEF CommitReview, history
<1>7. (\A o \in Sessions : TxHolds(tx[o]))' /\ Apart' /\ tx' \in [Sessions -> Tx]
  <2>1. ASSUME NEW o \in Sessions \ {s}, NEW q \in tx[o].locked
        PROVE  Pending(q)'
    <3>1. q \in Asks /\ Pending(q) /\ q \notin t.locked
      BY DEF RemovalInv, TxHolds, LockedArePending, RowsOfType, Tx, Apart
    <3> QED BY <3>1, <1>4 DEF Pending
  <2>2. ASSUME NEW o \in Sessions \ {s}, NEW q \in Asks, Pending(q)', ask'[q].node = tx[o].node
        PROVE  Pending(q) /\ ask[q].node = tx[o].node
    BY <1>2, <1>4, <1>5, <2>2 DEF Pending
  <2>3. ASSUME NEW o \in Sessions \ {s}, NEW k \in Keys \ erased', key'[k] = tx[o].node
        PROVE  k \in KeysOn(tx[o].node)
    BY <1>6, <2>3 DEF KeysOn
  <2>4. Made \subseteq Made' /\ slipped \subseteq slipped' /\ tx' = [tx EXCEPT ![s] = NoTx]
    BY <1>6 DEF Made
  <2> HIDE DEF t
  <2> QED BY <2>1, <2>2, <2>3, <2>4, OthersHold
<1>8. RowsOfType'
  <2>1. ask' \in [Asks -> Ask \cup {Unasked}]
    <3>1. \A q \in Asks : ask'[q] \in Ask \cup {Unasked}
      BY <1>4, <1>5
    <3> QED BY <1>3, <3>1
  <2> QED BY <1>6, <1>7, <2>1 DEF RemovalInv, RowsOfType, Made
<1>9. NamesItsOwn'
  BY <1>4, <1>5 DEF RemovalInv, NamesItsOwn
<1>10. TargetKept'
  <2> SUFFICES ASSUME NEW q \in Asks \ slipped', ask'[q] # Unasked, ask'[q].status # "cancelled",
                      ask'[q].asked # Null
               PROVE  \/ ask'[q].node = ask'[q].asked
                      \/ ~Pending(q)' /\ node'[ask'[q].asked] = "gone"
    BY DEF TargetKept
  <2>1. q \in Asks \ slipped /\ ask[q] # Unasked /\ ask'[q].asked = ask[q].asked /\ ask'[q].node = ask[q].node
    BY <1>4, <1>5, <1>6
  <2>2. ask[q].status # "cancelled"
    BY <1>2, <1>4, <2>1 DEF Pending
  <2>3. Pending(q)' => Pending(q)
    BY <1>2, <2>1, <1>4 DEF Pending
  <2> QED BY <2>1, <2>2, <2>3, <1>6 DEF RemovalInv, TargetKept
<1>11. JobsHaveKeys' /\ ListsFit'
  BY <1>6 DEF RemovalInv, JobsHaveKeys, ListsFit, Exists
<1> QED BY <1>7, <1>8, <1>9, <1>10, <1>11 DEF RemovalInv

LEMMA CommitCreateKeeps ==
    ASSUME RemovalInv, NEW s \in Sessions, NEW k \in Keys, CommitCreate(s, k)
    PROVE  RemovalInv'
<1> DEFINE n == tx[s].node
<1>1. n \in Nodes /\ n # Null
  BY NullAssumption DEF RemovalInv, TxHolds, TxOfOp, CommitCreate, At
<1>2. /\ UNCHANGED <<node, erased, ask, lists, txs, slipped, unseen, crossed>> /\ Queued(s, k, n)
      /\ key[k] = Null /\ key' = [key EXCEPT ![k] = n] /\ jobs' = jobs \cup {k}
  BY DEF CommitCreate, FreshKeys, history, Queued
<1>3. key'[k] = n /\ \A j \in Keys \ {k} : key'[j] = key[j]
  BY <1>2 DEF RemovalInv, RowsOfType
<1>4. k \notin erased /\ Made \subseteq Made'
  BY <1>2, <1>3 DEF RemovalInv, RowsOfType, Made
<1>5. (\A o \in Sessions : TxHolds(tx[o]))' /\ Apart' /\ tx' \in [Sessions -> Tx]
  <2>1. ASSUME NEW o \in Sessions \ {s}, NEW q \in tx[o].locked
        PROVE  Pending(q)'
    BY <1>2 DEF RemovalInv, TxHolds, LockedArePending, Pending
  <2>2. ASSUME NEW o \in Sessions \ {s}, NEW q \in Asks, Pending(q)', ask'[q].node = tx[o].node
        PROVE  Pending(q) /\ ask[q].node = tx[o].node
    BY <1>2, <2>2 DEF Pending
  <2>3. ASSUME NEW o \in Sessions \ {s}, NEW j \in Keys \ erased', key'[j] = tx[o].node,
               tx[o].op = "remove", j \notin tx[o].rows
        PROVE  j \in KeysOn(tx[o].node) \/ j \in tx'[o].late
    <3>1. CASE j = k
      <4>1. Misses(o, k, n)
        BY <1>3, <2>3, <3>1 DEF Misses
      <4> QED BY <1>2, <3>1, <4>1, QueuedBeside
    <3>2. CASE j # k
      BY <1>2, <1>3, <2>3, <3>2 DEF KeysOn
    <3> QED BY <3>1, <3>2
  <2>4. /\ slipped \subseteq slipped' /\ tx' = [t \in Sessions |-> tx'[t]] /\ tx'[s] = NoTx
        /\ \A t \in Sessions \ {s} :
              tx'[t] = tx[t] \/ \E j \in Keys : tx'[t] = [tx[t] EXCEPT !.late = @ \cup {j}]
    BY <1>2, QueuedBeside
  <2> HIDE DEF n
  <2> QED BY <1>4, <2>1, <2>2, <2>3, <2>4, BesideHold
<1>6. RowsOfType'
  BY <1>1, <1>2, <1>4, <1>5 DEF RemovalInv, RowsOfType
<1>7. (NamesItsOwn /\ TargetKept)'
  BY <1>2 DEF RemovalInv, NamesItsOwn, TargetKept, Pending
<1>8. JobsHaveKeys'
  BY <1>2, <1>4 DEF RemovalInv, JobsHaveKeys
<1>9. ListsFit'
  BY <1>2 DEF RemovalInv, ListsFit, Exists
<1> QED BY <1>5, <1>6, <1>7, <1>8, <1>9 DEF RemovalInv

\* A job of a key that was there when it was asked for.
LEMMA CommitQueueKeeps ==
    ASSUME RemovalInv, NEW s \in Sessions, CommitQueue(s)
    PROVE  RemovalInv'
<1>1. PICK k \in Keys : /\ Queued(s, k, key[k]) /\ unseen' = unseen \cup ({k} \cap erased)
                        /\ jobs' = jobs \cup {k}
  <2>1. tx[s].rows \subseteq Keys
    BY DEF RemovalInv, RowsOfType, Tx
  <2> QED BY <2>1 DEF CommitQueue, Queued
<1>2. UNCHANGED <<node, key, erased, ask, lists, txs, slipped, crossed>>
  BY DEF CommitQueue
<1>3. (\A o \in Sessions : TxHolds(tx[o]))' /\ Apart' /\ tx' \in [Sessions -> Tx]
  <2>1. ASSUME NEW o \in Sessions \ {s}, NEW q \in tx[o].locked
        PROVE  Pending(q)'
    BY <1>2 DEF RemovalInv, TxHolds, LockedArePending, Pending
  <2>2. ASSUME NEW o \in Sessions \ {s}, NEW q \in Asks, Pending(q)', ask'[q].node = tx[o].node
        PROVE  Pending(q) /\ ask[q].node = tx[o].node
    BY <1>2, <2>2 DEF Pending
  <2>3. ASSUME NEW o \in Sessions \ {s}, NEW j \in Keys \ erased', key'[j] = tx[o].node
        PROVE  j \in KeysOn(tx[o].node)
    BY <1>2, <2>3 DEF KeysOn
  <2>4. /\ slipped \subseteq slipped' /\ Made \subseteq Made'
        /\ tx' = [t \in Sessions |-> tx'[t]] /\ tx'[s] = NoTx
        /\ \A t \in Sessions \ {s} :
              tx'[t] = tx[t] \/ \E j \in Keys : tx'[t] = [tx[t] EXCEPT !.late = @ \cup {j}]
    BY <1>1, <1>2, QueuedBeside DEF Made
  <2> QED BY <2>1, <2>2, <2>3, <2>4, BesideHold
<1>4. RowsOfType'
  BY <1>1, <1>2, <1>3 DEF RemovalInv, RowsOfType, Made
<1>5. (NamesItsOwn /\ TargetKept)'
  BY <1>2 DEF RemovalInv, NamesItsOwn, TargetKept, Pending
<1>6. JobsHaveKeys'
  BY <1>1, <1>2 DEF RemovalInv, JobsHaveKeys
<1>7. ListsFit'
  BY <1>2 DEF RemovalInv, ListsFit, Exists
<1> QED BY <1>3, <1>4, <1>5, <1>6, <1>7 DEF RemovalInv

LEMMA CommitEditKeeps ==
    ASSUME RemovalInv, NEW s \in Sessions, CommitEdit(s)
    PROVE  RemovalInv'
<1> DEFINE t == tx[s]
           w == t.write
<1>1. /\ t \in Tx /\ w \in Lists /\ t.seen \in Lists /\ FirstOfOrder(w)
      /\ t.names # {} /\ t.names \subseteq {"recommended", "order"}
      /\ "order" \notin t.names => w.order = t.seen.order
      /\ "recommended" \notin t.names => Len(w.recommended) = Len(t.seen.recommended)
  <2>1. TxHolds(t) /\ t \in Tx
    BY OwnTx
  <2>2. t.op = "edit"
    BY DEF CommitEdit, At
  <2> HIDE DEF t
  <2> QED BY <2>1, <2>2 DEF TxHolds, EditFits, Tx
<1>2. /\ UNCHANGED <<node, key, erased, jobs, ask, txs, slipped, unseen>> /\ tx' = [tx EXCEPT ![s] = NoTx]
      /\ lists' = [recommended |-> IF "recommended" \in t.names \/ w.recommended # <<>>
                                   THEN w.recommended ELSE lists.recommended,
                   order |-> IF "order" \in t.names THEN w.order ELSE lists.order]
      /\ crossed' = (crossed \/ lists # t.seen
                     \/ \E n \in Nodes : ~Exists(n) /\ \E f \in t.names : Listed(n, w[f]))
  BY DEF CommitEdit
<1>3. lists \in Lists
  BY DEF RemovalInv, RowsOfType
<1> HIDE DEF w, t
<1>4. lists' \in Lists /\ crossed' \in BOOLEAN
  <2>1. /\ w.recommended \in NodeLists /\ w.order \in NodeLists
        /\ lists.recommended \in NodeLists /\ lists.order \in NodeLists
    BY <1>1, <1>3 DEF Lists
  <2>2. lists' \in Lists
    BY <1>2, <2>1 DEF Lists
  <2>3. crossed' \in BOOLEAN
    BY <1>2 DEF RemovalInv, RowsOfType
  <2> QED BY <2>2, <2>3
<1>5. ASSUME ~crossed' PROVE FirstOfOrder(lists') /\ \A n \in Nodes : Listed(n, lists'.order) => Exists(n)
  <2>1. ~crossed /\ t.seen = lists /\ \A n \in Nodes : \A f \in t.names : Listed(n, w[f]) => Exists(n)
    BY <1>2, <1>5
  <2>2. FirstOfOrder(lists) /\ \A n \in Nodes : Listed(n, lists.order) => Exists(n)
    BY <2>1 DEF RemovalInv, ListsFit
  <2>3. lists'.order = w.order
    BY <1>1, <1>2, <2>1
  <2>4. lists'.recommended = w.recommended
    <3>1. CASE "recommended" \in t.names \/ w.recommended # <<>>
      BY <1>2, <3>1
    <3>2. CASE "recommended" \notin t.names /\ w.recommended = <<>>
      <4>1. lists'.recommended = lists.recommended /\ Len(lists.recommended) = Len(w.recommended)
        BY <1>1, <1>2, <2>1, <3>2
      <4>2. lists.recommended \in Seq(Nodes)
        BY <1>3, ListOfNodes DEF Lists
      <4>3. Len(w.recommended) = 0
        BY <3>2, EmptySeq
      <4>4. lists.recommended # <<>> => Len(lists.recommended) \in Nat \ {0}
        BY <4>2, EmptySeq, Zenon
      <4>5. lists.recommended = <<>>
        BY <4>1, <4>3, <4>4
      <4> QED BY <3>2, <4>1, <4>5
    <3> QED BY <3>1, <3>2
  <2>5. FirstOfOrder(lists')
    BY <1>1, <2>3, <2>4 DEF FirstOfOrder
  <2>6. \A n \in Nodes : Listed(n, lists'.order) => Exists(n)
    <3>1. CASE "order" \in t.names
      BY <2>1, <2>3, <3>1
    <3>2. CASE "order" \notin t.names
      BY <1>1, <2>1, <2>2, <2>3, <3>2
    <3> QED BY <3>1, <3>2
  <2> QED BY <2>5, <2>6
<1>6. ListsFit'
  BY <1>2, <1>4, <1>5 DEF ListsFit, Exists, FirstOfOrder, Listed
<1>7. (\A o \in Sessions : TxHolds(tx[o]))' /\ Apart' /\ tx' \in [Sessions -> Tx]
  <2>1. ASSUME NEW o \in Sessions \ {s}, NEW q \in tx[o].locked
        PROVE  Pending(q)'
    BY <1>2 DEF RemovalInv, TxHolds, LockedArePending, Pending
  <2>2. ASSUME NEW o \in Sessions \ {s}, NEW q \in Asks, Pending(q)', ask'[q].node = tx[o].node
        PROVE  Pending(q) /\ ask[q].node = tx[o].node
    BY <1>2, <2>2 DEF Pending
  <2>3. ASSUME NEW o \in Sessions \ {s}, NEW k \in Keys \ erased', key'[k] = tx[o].node
        PROVE  k \in KeysOn(tx[o].node)
    BY <1>2, <2>3 DEF KeysOn
  <2>4. /\ Made \subseteq Made' /\ slipped \subseteq slipped'
        /\ tx' = [tx EXCEPT ![s] = NoTx]
    BY <1>2 DEF Made
  <2> QED BY <2>1, <2>2, <2>3, <2>4, OthersHold
<1>8. RowsOfType'
  BY <1>2, <1>4, <1>7 DEF RemovalInv, RowsOfType, Made
<1>9. (NamesItsOwn /\ TargetKept)'
  BY <1>2 DEF RemovalInv, NamesItsOwn, TargetKept, Pending
<1>10. JobsHaveKeys'
  BY <1>2 DEF RemovalInv, JobsHaveKeys
<1> QED BY <1>6, <1>7, <1>8, <1>9, <1>10 DEF RemovalInv

\* A node that is gone stays gone, and one that is switched off stays.
LEMMA SwitchNodeKeeps ==
    ASSUME RemovalInv, NEW n \in Nodes, SwitchNode(n)
    PROVE  RemovalInv'
<1>1. /\ UNCHANGED <<key, erased, jobs, ask, lists, tx, slipped, unseen, crossed>> /\ txs' \in 0 .. MaxTxs
      /\ node' \in [Nodes -> {"enabled", "disabled", "gone"}]
      /\ \A m \in Nodes : node[m] = "gone" <=> node'[m] = "gone"
  BY BoundAssumption DEF SwitchNode, history, Exists, RemovalInv, RowsOfType
<1>2. RowsOfType' /\ Apart'
  BY <1>1 DEF RemovalInv, RowsOfType, Made, Apart
<1>3. NamesItsOwn' /\ JobsHaveKeys' /\ ListsFit'
  BY <1>1 DEF RemovalInv, NamesItsOwn, JobsHaveKeys, ListsFit, FirstOfOrder, Listed, Exists
<1>4. TargetKept'
  <2> SUFFICES ASSUME NEW q \in Asks \ slipped, ask[q] # Unasked, ask[q].status # "cancelled",
                      ask[q].asked # Null
               PROVE  \/ ask[q].node = ask[q].asked
                      \/ ~Pending(q) /\ node'[ask[q].asked] = "gone"
    BY <1>1 DEF TargetKept, Pending
  <2>1. ask[q].asked \in Nodes
    BY AskFields
  <2> QED BY <1>1, <2>1 DEF RemovalInv, TargetKept
<1>5. (\A o \in Sessions : TxHolds(tx[o]))'
  BY <1>1 DEF RemovalInv, TxHolds, TxOfOp, LockedArePending, OthersCancelled, GoesKnown, EditFits,
              RemovalFits, Pending, PendingOn, KeysOn, Made
<1> QED BY <1>2, <1>3, <1>4, <1>5 DEF RemovalInv

-----------------------------------------------------------------------------
LEMMA RemovalStutterKeeps ==
    ASSUME RemovalInv, UNCHANGED removalVars
    PROVE  RemovalInv'
<1> USE DEF removalVars
<1>1. RowsOfType' /\ Apart' /\ NamesItsOwn' /\ TargetKept'
  BY DEF RemovalInv, RowsOfType, Made, Apart, NamesItsOwn, TargetKept, Pending
<1>2. JobsHaveKeys' /\ ListsFit'
  BY DEF RemovalInv, JobsHaveKeys, ListsFit, Exists
<1>3. (\A o \in Sessions : TxHolds(tx[o]))'
  BY DEF RemovalInv, TxHolds, TxOfOp, LockedArePending, OthersCancelled, GoesKnown, EditFits,
         RemovalFits, Pending, PendingOn, KeysOn, Made
<1> QED BY <1>1, <1>2, <1>3 DEF RemovalInv

LEMMA RemovalNextKeeps ==
    ASSUME RemovalInv, [RemovalNext]_removalVars
    PROVE  RemovalInv'
<1>1. ASSUME NEW s \in Sessions, Begins(s) PROVE RemovalInv'
  BY <1>1, BeginRemoveKeeps, BeginAskKeeps, BeginReviewKeeps, BeginCreateKeeps, BeginQueueKeeps,
     BeginEditKeeps DEF Begins
<1>2. ASSUME NEW s \in Sessions, Steps(s) PROVE RemovalInv'
  <2>1. CASE RefuseAsk(s) \/ RollBack(s)
    BY <2>1, GiveUpKeeps DEF RefuseAsk, RollBack
  <2>2. CASE \/ RemoveJobs(s) \/ RemoveKeys(s) \/ CancelAsks(s) \/ ReadLists(s) \/ ScrubLists(s) \/ EraseNode(s)
             \/ CommitRemove(s)
    BY <2>2, RemoveJobsKeeps, RemoveKeysKeeps, CancelAsksKeeps, ReadListsKeeps, ScrubListsKeeps, EraseNodeKeeps,
       CommitRemoveKeeps
  <2>3. CASE \/ Supersede(s) \/ \E r \in Asks : InsertAsk(s, r)
             \/ \E status \in {"approved", "rejected"} : CommitReview(s, status)
    BY <2>3, SupersedeKeeps, InsertAskKeeps, CommitReviewKeeps
  <2>4. CASE (\E k \in Keys : CommitCreate(s, k)) \/ CommitQueue(s) \/ CommitEdit(s)
    BY <2>4, CommitCreateKeeps, CommitQueueKeeps, CommitEditKeeps
  <2> QED BY <1>2, <2>1, <2>2, <2>3, <2>4 DEF Steps
<1>3. ASSUME NEW n \in Nodes, SwitchNode(n) PROVE RemovalInv'
  BY <1>3, SwitchNodeKeeps
<1>4. CASE UNCHANGED removalVars
  BY <1>4, RemovalStutterKeeps
<1> QED BY <1>1, <1>2, <1>3, <1>4 DEF RemovalNext

THEOREM RemovalInvHolds == RemovalSpec => []RemovalInv
<1>1. RemovalInit => RemovalInv
  BY RemovalInitHolds
<1>2. RemovalInv /\ [RemovalNext]_removalVars => RemovalInv'
  BY RemovalNextKeeps
<1> QED BY <1>1, <1>2, PTL DEF RemovalSpec

\* Rows, lists and open transactions are well formed; a request that is being
\* cancelled, replaced or reviewed is in the hands of one transaction.
THEOREM RemovalTypeCorrect == RemovalSpec => []RemovalTypeOK
<1>1. RemovalInv => RemovalTypeOK
  BY DEF RemovalInv, RowsOfType, RemovalTypeOK, Made, Apart
<1> QED BY <1>1, RemovalInvHolds, PTL

\* A request for one server is not answered as one for all of them.
THEOREM TargetIsKept == RemovalSpec => []TargetKept
<1>1. RemovalInv => TargetKept
  BY DEF RemovalInv
<1> QED BY <1>1, RemovalInvHolds, PTL

\* No job is left of a key that was erased with its node, but one that was queued
\* while it was, and no list names a node that is gone or recommends what the order
\* does not begin with, unless two writers of the lists crossed.
THEOREM NothingIsDangling == RemovalSpec => []NothingDangles
<1>1. RemovalInv => NothingDangles
  BY DEF RemovalInv, NothingDangles, ListsFit, ListsHold, FirstOfOrder
<1> QED BY <1>1, RemovalInvHolds, PTL

=============================================================================
