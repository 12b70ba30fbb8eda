---------------------------- MODULE RulePinning -----------------------------
(***************************************************************************)
(* The versions of one profile's routing rules: administrators publish and *)
(* pin one, release it or import another, while the worker fetches the     *)
(* feed and publishes what is new.  Each of these is a transaction of      *)
(* several statements at READ COMMITTED: a statement sees what was         *)
(* committed when it began, waits for rows another transaction has         *)
(* written, and then tests those rows, and only those, once more.          *)
(***************************************************************************)
EXTENDS Naturals, Sequences

CONSTANTS
    Versions,       \* checksums and names of rule versions
    Valid,          \* those whose payload passes validation
    Admins,         \* sessions of administrators
    Fetchers,       \* the worker's timer and its rules.refresh job
    None,           \* a row a transaction has not written
    MaxActions,     \* bound: what the administrators do
    MaxFeeds        \* bound: changes of the feed

ASSUME VersionAssumption == Valid \subseteq Versions
ASSUME SessionAssumption == Admins \cap Fetchers = {}
ASSUME BoundsAssumption == MaxActions \in Nat /\ MaxFeeds \in Nat

Sessions == Admins \cup Fetchers

VARIABLES
    rows,       \* route_rule_versions: status and pin of each version
    tx,         \* what each session is doing
    feed,       \* the version the sources answer with
    actions, feeds,     \* bounds
    raced       \* history: pins committed after a fetcher checked for one

vars == <<rows, tx, feed, actions, feeds, raced>>

RowStatus == {"none", "active", "superseded", "quarantined"}
Row == [status : RowStatus, pinned : BOOLEAN]

ASSUME NoneAssumption == None \notin Row

Active == {v \in Versions : rows[v].status = "active"}
PinnedRows == {v \in Versions : rows[v].pinned}

Kinds == {"idle", "activate", "follow", "import", "quarantine", "fetch"}

Statements == {"demote", "demoteAll", "demoteFeed", "unpin", "unpinAll", "pin", "pinUpsert",
               "look", "setAside", "read", "download", "record", "reject", "check", "publish"}

\* todo: the statements left; found: the rows the current one matched, None
\* before it began; write: rows written and not committed; seen: the version a
\* fetcher found active, and whether it was pinned.
Tx == [kind : Kinds, target : Versions, todo : Seq(Statements),
       found : (SUBSET Versions) \cup {None}, write : [Versions -> Row \cup {None}],
       seen : Versions \cup {None}, held : BOOLEAN]

AnyVersion == CHOOSE v \in Versions : TRUE

Idle == [kind |-> "idle", target |-> AnyVersion, todo |-> <<>>, found |-> None,
         write |-> [v \in Versions |-> None], seen |-> None, held |-> FALSE]

Statement(t) == IF tx[t].todo = <<>> THEN "none" ELSE Head(tx[t].todo)

-----------------------------------------------------------------------------
(* Rows as a session sees them, and the locks its writes hold *)

View(t, v) == IF tx[t].write[v] # None THEN tx[t].write[v] ELSE rows[v]

Holders(v) == {t \in Sessions : tx[t].write[v] # None}

\* The WHERE of each statement that changes rows.
Matches(t, v) ==
    LET row == View(t, v)
        other == v # tx[t].target
    IN CASE Statement(t) \in {"demote", "demoteFeed"} -> row.status = "active" /\ other
         [] Statement(t) = "demoteAll" -> row.status = "active"
         [] Statement(t) = "unpin" -> row.pinned /\ other
         [] Statement(t) = "unpinAll" -> row.pinned
         [] Statement(t) = "pin" -> ~other /\ row.status # "none"
         [] OTHER -> ~other

\* Mutant: a version that was recorded and never published stays so.
SetIfNew(t, v) ==
    LET row == View(t, v) IN
    CASE Statement(t) \in {"demote", "demoteAll"} -> [status |-> "superseded", pinned |-> FALSE]
      [] Statement(t) = "demoteFeed" -> [row EXCEPT !.status = "superseded"]
      [] Statement(t) \in {"unpin", "unpinAll"} -> [row EXCEPT !.pinned = FALSE]
      [] Statement(t) \in {"pin", "pinUpsert"} -> [status |-> "active", pinned |-> TRUE]
      [] Statement(t) = "setAside" -> [status |-> "quarantined", pinned |-> FALSE]
      [] OTHER -> [row EXCEPT !.status = IF @ # "none" THEN @ ELSE
                                         IF Statement(t) = "record" THEN "superseded" ELSE
                                         IF Statement(t) = "reject" THEN "quarantined" ELSE "active"]

\* Their SET.  The feed's statements leave the pin column alone.
SetTo(t, v) ==
    LET row == View(t, v) IN
    CASE Statement(t) \in {"demote", "demoteAll"} -> [status |-> "superseded", pinned |-> FALSE]
      [] Statement(t) = "demoteFeed" -> [row EXCEPT !.status = "superseded"]
      [] Statement(t) \in {"unpin", "unpinAll"} -> [row EXCEPT !.pinned = FALSE]
      [] Statement(t) \in {"pin", "pinUpsert"} -> [status |-> "active", pinned |-> TRUE]
      [] Statement(t) = "setAside" -> [status |-> "quarantined", pinned |-> FALSE]
      [] Statement(t) = "publish" -> [row EXCEPT !.status = "active"]
      [] Statement(t) = "record" -> [row EXCEPT !.status = "superseded"]
      [] Statement(t) = "reject" -> [row EXCEPT !.status = "quarantined"]

\* A version the feed only records or rejects is left alone if it is known.
Writes(t, v) == Statement(t) \in {"record", "reject"} => View(t, v).status = "none"

Changes == {"demote", "demoteAll", "demoteFeed", "unpin", "unpinAll", "pin", "pinUpsert",
            "setAside", "record", "reject", "publish"}

Pins == {"pin", "pinUpsert"}

\* Sessions it must wait for: they hold a row it wants, or one whose pin the
\* unique index of pins would have to compare.
WaitsFor(t) ==
    {u \in Sessions \ {t} :
        \/ \E v \in tx[t].found : u \in Holders(v)
        \/ /\ Statement(t) \in Pins
           /\ \E v \in Versions \ {tx[t].target} : u \in Holders(v) /\ (rows[v].pinned \/ View(u, v).pinned)}

\* route_rule_versions_pinned_profile_unique refuses a second pin.
PinTaken(t) ==
    /\ Statement(t) \in Pins
    /\ \E v \in Versions \ {tx[t].target} : View(t, v).pinned

-----------------------------------------------------------------------------
(* What a session starts *)

StartAs(t, kind, v, todo) ==
    /\ tx[t].kind = "idle"
    /\ tx' = [tx EXCEPT ![t] = [Idle EXCEPT !.kind = kind, !.target = v, !.todo = todo]]

Act(t, kind, v, todo) ==
    /\ actions < MaxActions
    /\ actions' = actions + 1
    /\ StartAs(t, kind, v, todo)
    /\ UNCHANGED <<rows, feed, feeds, raced>>

\* Mutant: a version that does not exist can be activated.
KnownAnyway(v) == TRUE

Known(v) == rows[v].status # "none"

\* Publish a version and pin the profile to it.
ActivateRule(t, v) == Known(v) /\ Act(t, "activate", v, <<"demote", "unpin", "pin">>)

\* Release the profile; what is published stays.
FollowFeed(t, v) == Known(v) /\ Act(t, "follow", v, <<"unpinAll">>)

\* An upload that is published and pinned, or one that is kept in quarantine.
ImportRule(t, v) == Act(t, "import", v, <<"demoteAll", "unpinAll", "pinUpsert">>)
QuarantineRule(t, v) == Act(t, "quarantine", v, <<"look", "setAside">>)

\* The fetcher's first read, of the newest active version and its pin.  With
\* two active ones either may be the newer.
FetchRules(t) ==
    /\ StartAs(t, "fetch", AnyVersion, <<"read">>)
    /\ UNCHANGED <<rows, feed, actions, feeds, raced>>

FeedChanges(v) ==
    /\ feeds < MaxFeeds
    /\ feeds' = feeds + 1
    /\ feed # v
    /\ feed' = v
    /\ UNCHANGED <<rows, tx, actions, raced>>

-----------------------------------------------------------------------------
(* Statements *)

Continue(t, todo) == tx' = [tx EXCEPT ![t].todo = todo, ![t].found = None]

\* Read the published version and its pin, then download, which takes long.
ReadActive(t) ==
    /\ Statement(t) = "read"
    /\ \/ \E v \in Active : tx' = [tx EXCEPT ![t].todo = <<"download">>, ![t].seen = v,
                                          ![t].held = rows[v].pinned]
       \/ Active = {} /\ Continue(t, <<"download">>)
    /\ UNCHANGED <<rows, feed, actions, feeds, raced>>

\* Nothing to do with the version that was read; what does not validate is put
\* aside and what a pin holds back recorded, each in a statement of its own.
Download(t) ==
    /\ Statement(t) = "download"
    /\ tx' = [tx EXCEPT ![t] =
                IF feed = tx[t].seen THEN Idle
                ELSE [@ EXCEPT !.target = feed,
                               !.todo = IF feed \notin Valid THEN <<"reject">>
                                        ELSE IF tx[t].held THEN <<"record">>
                                        ELSE <<"check", "demoteFeed", "publish">>]]
    /\ UNCHANGED <<rows, feed, actions, feeds, raced>>

\* Mutant: the transaction does not look at the pin again.
PinSeenNever(t) == FALSE

\* What the publishing transaction looks for before it writes.
PinSeen(t) == \E v \in Active : rows[v].pinned

CheckPin(t) ==
    /\ Statement(t) = "check"
    /\ IF PinSeen(t) THEN tx' = [tx EXCEPT ![t] = Idle]
                     ELSE Continue(t, Tail(tx[t].todo))
    /\ UNCHANGED <<rows, feed, actions, feeds, raced>>

\* An import into quarantine refuses the version that is published.
LookAtTarget(t) ==
    /\ Statement(t) = "look"
    /\ IF tx[t].target \in Active THEN tx' = [tx EXCEPT ![t] = Idle]
                                  ELSE Continue(t, Tail(tx[t].todo))
    /\ UNCHANGED <<rows, feed, actions, feeds, raced>>

Begin(t) ==
    /\ Statement(t) \in Changes
    /\ tx[t].found = None
    /\ tx' = [tx EXCEPT ![t].found = {v \in Versions : Matches(t, v)}]
    /\ UNCHANGED <<rows, feed, actions, feeds, raced>>

Apply(t) ==
    /\ Statement(t) \in Changes
    /\ tx[t].found # None
    /\ WaitsFor(t) = {}
    /\ ~PinTaken(t)
    /\ tx' = [tx EXCEPT ![t].todo = Tail(@), ![t].found = None,
                        ![t].write = [v \in Versions |->
                            IF v \in tx[t].found /\ Matches(t, v) /\ Writes(t, v)
                            THEN SetTo(t, v) ELSE tx[t].write[v]]]
    /\ UNCHANGED <<rows, feed, actions, feeds, raced>>

\* Mutant: the connection goes back to the pool without a ROLLBACK.
AbortUndone(t) ==
    /\ Statement(t) \in Changes
    /\ tx[t].found # None
    /\ WaitsFor(t) # {} \/ PinTaken(t)
    /\ tx' = [tx EXCEPT ![t].kind = "idle", ![t].todo = <<>>, ![t].found = None]
    /\ UNCHANGED <<rows, feed, actions, feeds, raced>>

\* The victim of a deadlock, a caller that gives up waiting, a second pin.
Abort(t) ==
    /\ Statement(t) \in Changes
    /\ tx[t].found # None
    /\ WaitsFor(t) # {} \/ PinTaken(t)
    /\ tx' = [tx EXCEPT ![t] = Idle]
    /\ UNCHANGED <<rows, feed, actions, feeds, raced>>

\* A fetcher between its look at the pins and the end of its transaction.
Publishing(t) ==
    tx[t].kind = "fetch" /\ tx[t].todo \in {<<"demoteFeed", "publish">>, <<"publish">>, <<>>}

Commit(t) ==
    /\ tx[t].kind # "idle"
    /\ tx[t].todo = <<>>
    /\ rows' = [v \in Versions |-> View(t, v)]
    /\ tx' = [tx EXCEPT ![t] = Idle]
    /\ raced' = {v \in Versions :
                    /\ View(t, v).pinned
                    /\ v \in raced \/ (~rows[v].pinned /\ \E u \in Fetchers \ {t} : Publishing(u))}
    /\ UNCHANGED <<feed, actions, feeds>>

-----------------------------------------------------------------------------
AdminStarts ==
    \E t \in Admins, v \in Versions :
        ActivateRule(t, v) \/ FollowFeed(t, v) \/ ImportRule(t, v) \/ QuarantineRule(t, v)

Runs(t) == ReadActive(t) \/ Download(t) \/ CheckPin(t) \/ LookAtTarget(t)
           \/ Begin(t) \/ Apply(t) \/ Commit(t)

Next ==
    \/ AdminStarts
    \/ \E t \in Fetchers : FetchRules(t)
    \/ \E t \in Sessions : Runs(t) \/ Abort(t)
    \/ \E v \in Versions : FeedChanges(v)

\* A profile that the worker published once, and versions it recorded since.
Init ==
    /\ \E v \in Valid : rows = [w \in Versions |-> IF w = v THEN [status |-> "active", pinned |-> FALSE]
                                                 ELSE [status |-> "none", pinned |-> FALSE]]
    /\ tx = [t \in Sessions |-> Idle]
    /\ feed \in Active
    /\ actions = 0 /\ feeds = 0
    /\ raced = {}

Spec == Init /\ [][Next]_vars

\* The timer fires again and again, and the database carries every session on.
FairSpec ==
    Spec /\ \A t \in Sessions : WF_vars(Runs(t)) /\ (t \in Fetchers => WF_vars(FetchRules(t)))

-----------------------------------------------------------------------------
(* Properties *)

\* Rows and sessions have values of their kinds, and a session that ended has
\* nothing left to write.
TypeOK ==
    /\ rows \in [Versions -> Row]
    /\ tx \in [Sessions -> Tx]
    /\ \A t \in Sessions : tx[t].kind = "idle" => tx[t] = Idle
    /\ feed \in Versions
    /\ actions \in 0 .. MaxActions /\ feeds \in 0 .. MaxFeeds
    /\ raced \in SUBSET Versions

\* A profile is pinned to one version at most, whichever activations, imports
\* and releases run at once.
OnePin == \A v, w \in PinnedRows : v = w

\* The pinned version is the published one, unless the pin was committed in the
\* moment between a fetcher's look at the pins and its own commit.
PinnedIsActiveUnlessRaced == \A v \in PinnedRows \ raced : v \in Active

\* A profile that is served stays served: no commit leaves it without a
\* published version, except an import into quarantine that looked before the
\* version it replaces was published.
StaysServed ==
    [][Active # {} /\ ~(\E t \in Admins : tx[t].kind = "quarantine" /\ tx[t].target \in Active
                                          /\ tx'[t] = Idle)
          => Active' # {}]_vars

\* Once nobody pins the profile any more, what a valid feed says is published,
\* even if it was recorded, rejected or replaced before.
UnpinnedFollowsFeed ==
    <>[](PinnedRows = {} /\ feed \in Valid) => []<>(rows[feed].status = "active")
=============================================================================
