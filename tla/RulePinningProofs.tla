------------------------- MODULE RulePinningProofs --------------------------
(***************************************************************************)
(* For any versions, sessions and interleaving of statements: a profile is *)
(* pinned to one version at most, the pinned version is the published one  *)
(* unless its pin was committed while a fetcher was publishing, and no     *)
(* commit leaves a served profile without a published version.             *)
(***************************************************************************)
EXTENDS RulePinning, TLAPS

LEMMA IdleType ==
    /\ AnyVersion \in Versions => Idle \in Tx
    /\ Idle.kind = "idle" /\ Idle.todo = <<>> /\ Idle.found = None
    /\ \A v \in Versions : Idle.write[v] = None
BY DEF Idle, Tx, Kinds

-----------------------------------------------------------------------------
(* Type correctness *)

LEMMA ViewType ==
    ASSUME TypeOK, NEW t \in Sessions, NEW v \in Versions
    PROVE  View(t, v) \in Row /\ rows[v] \in Row
BY DEF TypeOK, View, Tx

LEMMA SetToType ==
    ASSUME TypeOK, NEW t \in Sessions, NEW v \in Versions, Statement(t) \in Changes
    PROVE  SetTo(t, v) \in Row
<1>1. View(t, v) \in Row
    BY ViewType
<1> QED
    BY <1>1 DEF SetTo, Row, RowStatus, Changes

\* The values of the sessions' records; that an idle one is Idle is a step of
\* its own.
LEMMA StartType ==
    ASSUME TypeOK, NEW t \in Sessions, NEW kind \in Kinds, kind # "idle", NEW v \in Versions,
           NEW todo \in Seq(Statements), StartAs(t, kind, v, todo)
    PROVE  tx' \in [Sessions -> Tx] /\ \A u \in Sessions : tx'[u].kind = "idle" => tx'[u] = Idle
<1> DEFINE new == [Idle EXCEPT !.kind = kind, !.target = v, !.todo = todo]
<1>1. new \in Tx /\ new.kind = kind
    BY IdleType DEF Tx, Idle, TypeOK, AnyVersion
<1>2. tx' = [tx EXCEPT ![t] = new]
    BY DEF StartAs
<1> HIDE DEF new
<1> QED
    BY <1>1, <1>2 DEF TypeOK

LEMMA TypeStep ==
    ASSUME TypeOK, [Next]_vars
    PROVE  TypeOK'
<1> DEFINE TxOK == tx \in [Sessions -> Tx] /\ \A u \in Sessions : tx[u].kind = "idle" => tx[u] = Idle
<1>0. Idle \in Tx /\ TxOK
    BY IdleType DEF TypeOK, AnyVersion
<1>1. ASSUME NEW t \in Sessions, NEW new \in Tx, new.kind = "idle" => new = Idle,
             tx' = [tx EXCEPT ![t] = new]
      PROVE  TxOK'
    BY <1>0, <1>1
<1>2. ASSUME NEW t \in Admins, NEW v \in Versions,
             ActivateRule(t, v) \/ FollowFeed(t, v) \/ ImportRule(t, v) \/ QuarantineRule(t, v)
      PROVE  TypeOK'
    <2>0. /\ <<"demote", "unpin", "pin">> \in Seq(Statements) /\ <<"unpinAll">> \in Seq(Statements)
          /\ <<"demoteAll", "unpinAll", "pinUpsert">> \in Seq(Statements)
          /\ <<"look", "setAside">> \in Seq(Statements)
          /\ {"activate", "follow", "import", "quarantine"} \subseteq Kinds /\ t \in Sessions
        BY DEF Statements, Kinds, Sessions
    <2>1. ASSUME NEW kind \in Kinds, kind # "idle", NEW todo \in Seq(Statements), Act(t, kind, v, todo)
          PROVE  TypeOK'
        <3>1. TxOK'
            BY <2>0, <2>1, StartType DEF Act
        <3> QED
            BY <2>1, <3>1, BoundsAssumption DEF Act, TypeOK
    <2>2. CASE ActivateRule(t, v)
        BY <2>0, <2>1, <2>2 DEF ActivateRule
    <2>3. CASE FollowFeed(t, v)
        BY <2>0, <2>1, <2>3 DEF FollowFeed
    <2>4. CASE ImportRule(t, v)
        BY <2>0, <2>1, <2>4 DEF ImportRule
    <2>5. CASE QuarantineRule(t, v)
        BY <2>0, <2>1, <2>5 DEF QuarantineRule
    <2> QED
        BY <1>2, <2>2, <2>3, <2>4, <2>5
<1>3. ASSUME NEW t \in Fetchers, FetchRules(t)
      PROVE  TypeOK'
    <2>1. <<"read">> \in Seq(Statements) /\ "fetch" \in Kinds /\ t \in Sessions
        BY DEF Statements, Kinds, Sessions
    <2>2. AnyVersion \in Versions
        BY DEF AnyVersion, TypeOK
    <2>3. TxOK'
        BY <1>3, <2>1, <2>2, StartType DEF FetchRules
    <2> QED
        BY <1>3, <2>3 DEF FetchRules, TypeOK
<1>4. ASSUME NEW t \in Sessions, tx[t].todo # <<>>
      PROVE  Tail(tx[t].todo) \in Seq(Statements)
    BY <1>4 DEF TypeOK, Tx
<1>5. ASSUME NEW t \in Sessions, tx[t].todo # <<>>
      PROVE  tx[t].kind # "idle" /\ tx[t] \in Tx
    BY <1>5, IdleType DEF TypeOK
<1>6. ASSUME NEW t \in Sessions, ReadActive(t)
      PROVE  TypeOK'
    <2>1. <<"download">> \in Seq(Statements)
        BY DEF Statements
    <2>2. tx[t].kind # "idle" /\ tx[t] \in Tx
        BY <1>5, <1>6 DEF ReadActive, Statement
    <2>3. TxOK'
        <3>1. ASSUME NEW v \in Active,
                     tx' = [tx EXCEPT ![t].todo = <<"download">>, ![t].seen = v, ![t].held = rows[v].pinned]
              PROVE  TxOK'
            <4>1. rows[v].pinned \in BOOLEAN /\ v \in Versions
                BY ViewType DEF Active, TypeOK, Row
            <4> DEFINE new == [tx[t] EXCEPT !.todo = <<"download">>, !.seen = v, !.held = rows[v].pinned]
            <4>2. new \in Tx /\ new.kind # "idle"
                BY <2>1, <2>2, <4>1 DEF Tx
            <4>3. tx' = [tx EXCEPT ![t] = new]
                BY <3>1 DEF TypeOK
            <4> HIDE DEF new
            <4> QED
                BY <1>1, <4>2, <4>3
        <3>2. CASE Continue(t, <<"download">>)
            <4> DEFINE new == [tx[t] EXCEPT !.todo = <<"download">>, !.found = None]
            <4>1. new \in Tx /\ new.kind # "idle"
                BY <2>1, <2>2 DEF Tx
            <4>2. tx' = [tx EXCEPT ![t] = new]
                BY <3>2 DEF Continue, TypeOK
            <4> HIDE DEF new
            <4> QED
                BY <1>1, <4>1, <4>2
        <3> QED
            BY <1>6, <3>1, <3>2 DEF ReadActive
    <2> QED
        BY <1>6, <2>3 DEF ReadActive, TypeOK
<1>7. ASSUME NEW t \in Sessions, Download(t)
      PROVE  TypeOK'
    <2>1. /\ <<"reject">> \in Seq(Statements) /\ <<"record">> \in Seq(Statements)
          /\ <<"check", "demoteFeed", "publish">> \in Seq(Statements)
        BY DEF Statements
    <2>2. tx[t].kind # "idle" /\ tx[t] \in Tx
        BY <1>5, <1>7 DEF Download, Statement
    <2> DEFINE todo == IF feed \notin Valid THEN <<"reject">>
                       ELSE IF tx[t].held THEN <<"record">> ELSE <<"check", "demoteFeed", "publish">>
               new == [tx[t] EXCEPT !.target = feed, !.todo = todo]
    <2>3. todo \in Seq(Statements)
        BY <2>1
    <2>4. new \in Tx /\ new.kind # "idle"
        <3> HIDE DEF todo
        <3> QED
            BY <2>2, <2>3 DEF Tx, TypeOK
    <2>5. tx' = [tx EXCEPT ![t] = IF feed = tx[t].seen THEN Idle ELSE new]
        BY <1>7 DEF Download, TypeOK
    <2> HIDE DEF new
    <2>6. TxOK'
        BY <1>0, <1>1, <2>4, <2>5
    <2> QED
        BY <1>7, <2>6 DEF Download, TypeOK
<1>8. ASSUME NEW t \in Sessions, CheckPin(t) \/ LookAtTarget(t)
      PROVE  TypeOK'
    <2>0. tx[t].kind # "idle" /\ tx[t] \in Tx
        BY <1>5, <1>8 DEF CheckPin, LookAtTarget, Statement
    <2>1. Tail(tx[t].todo) \in Seq(Statements)
        BY <1>4, <1>8 DEF CheckPin, LookAtTarget, Statement
    <2> DEFINE new == [tx[t] EXCEPT !.todo = Tail(tx[t].todo), !.found = None]
    <2>2. new \in Tx /\ new.kind # "idle"
        BY <2>0, <2>1 DEF Tx
    <2>3. tx' = [tx EXCEPT ![t] = Idle] \/ tx' = [tx EXCEPT ![t] = new]
        BY <1>8 DEF CheckPin, LookAtTarget, Continue, TypeOK
    <2> HIDE DEF new
    <2>4. TxOK'
        BY <1>0, <1>1, <2>2, <2>3
    <2> QED
        BY <1>8, <2>4 DEF CheckPin, LookAtTarget, TypeOK
<1>9. ASSUME NEW t \in Sessions, Begin(t)
      PROVE  TypeOK'
    <2>0. tx[t].kind # "idle" /\ tx[t] \in Tx
        BY <1>5, <1>9 DEF Begin, Statement, Changes
    <2> DEFINE new == [tx[t] EXCEPT !.found = {v \in Versions : Matches(t, v)}]
    <2>1. new \in Tx /\ new.kind # "idle"
        BY <2>0 DEF Tx
    <2>2. tx' = [tx EXCEPT ![t] = new]
        BY <1>9 DEF Begin, TypeOK
    <2> HIDE DEF new
    <2>3. TxOK'
        BY <1>1, <2>1, <2>2
    <2> QED
        BY <1>9, <2>3 DEF Begin, TypeOK
<1>10. ASSUME NEW t \in Sessions, Apply(t)
      PROVE  TypeOK'
    <2>0. tx[t].kind # "idle" /\ tx[t] \in Tx
        BY <1>5, <1>10 DEF Apply, Statement, Changes
    <2>1. Tail(tx[t].todo) \in Seq(Statements)
        BY <1>4, <1>10 DEF Apply, Statement, Changes
    <2>2. \A v \in Versions : SetTo(t, v) \in Row
        BY <1>10, SetToType DEF Apply
    <2> DEFINE write == [v \in Versions |-> IF v \in tx[t].found /\ Matches(t, v) /\ Writes(t, v)
                                            THEN SetTo(t, v) ELSE tx[t].write[v]]
               new == [tx[t] EXCEPT !.todo = Tail(tx[t].todo), !.found = None, !.write = write]
    <2>3. write \in [Versions -> Row \cup {None}]
        BY <2>0, <2>2 DEF Tx
    <2>4. new \in Tx /\ new.kind # "idle"
        <3> HIDE DEF write
        <3> QED
            BY <2>0, <2>1, <2>3 DEF Tx
    <2>5. tx' = [tx EXCEPT ![t] = new]
        BY <1>10 DEF Apply, TypeOK
    <2> HIDE DEF new
    <2>6. TxOK'
        BY <1>1, <2>4, <2>5
    <2> QED
        BY <1>10, <2>6 DEF Apply, TypeOK
<1>11. ASSUME NEW t \in Sessions, Abort(t)
      PROVE  TypeOK'
    BY <1>0, <1>11 DEF Abort, TypeOK
<1>12. ASSUME NEW t \in Sessions, Commit(t)
      PROVE  TypeOK'
    BY <1>0, <1>12, ViewType DEF Commit, TypeOK
<1>13. ASSUME NEW v \in Versions, FeedChanges(v)
      PROVE  TypeOK'
    BY <1>13, BoundsAssumption DEF FeedChanges, TypeOK
<1>14. CASE UNCHANGED vars
    BY <1>14 DEF vars, TypeOK
<1> QED
    BY <1>2, <1>3, <1>6, <1>7, <1>8, <1>9, <1>10, <1>11, <1>12, <1>13, <1>14
    DEF Next, AdminStarts, Runs, Sessions

LEMMA TypeInit ==
    ASSUME Init
    PROVE  TypeOK
<1>1. rows \in [Versions -> Row] /\ feed \in Versions
    BY DEF Init, Row, RowStatus, Active
<1>2. Idle \in Tx
    BY <1>1, IdleType DEF AnyVersion
<1> QED
    BY <1>1, <1>2, BoundsAssumption DEF Init, TypeOK

\* Rows and sessions have values of their kinds, and a session that ended has
\* nothing left to write (every statement of every transaction).
THEOREM TypeCorrect == Spec => []TypeOK
<1>1. TypeOK /\ [Next]_vars => TypeOK'
    BY TypeStep
<1> QED
    BY TypeInit, <1>1, PTL DEF Spec

-----------------------------------------------------------------------------
(* One pin *)

Pending(t, v) == tx[t].write[v] # None /\ tx[t].write[v].pinned

\* A written row belongs to one session until it ends.
Exclusive == \A t, u \in Sessions, v \in Versions : t \in Holders(v) /\ u \in Holders(v) => t = u

\* No session sees two pins, its own writes included.
OneSeen == \A t \in Sessions, v, w \in Versions : View(t, v).pinned /\ View(t, w).pinned => v = w

\* Two sessions do not both hold a pinned row: the second writer of a pin waits
\* for whoever holds another row with one.
OnePending == \A t, u \in Sessions, v, w \in Versions : Pending(t, v) /\ Pending(u, w) => t = u

PinInv == TypeOK /\ OnePin /\ Exclusive /\ OneSeen /\ OnePending

LEMMA OtherSessions ==
    ASSUME TypeOK, NEW t \in Sessions, NEW u \in Sessions, u # t, NEW new, tx' = [tx EXCEPT ![t] = new]
    PROVE  tx'[u] = tx[u] /\ tx'[t] = new
BY DEF TypeOK

\* What a statement that changes rows does to what its session sees.
LEMMA ApplyEffect ==
    ASSUME TypeOK, NEW t \in Sessions, Apply(t)
    PROVE  /\ \A u \in Sessions \ {t} : tx'[u] = tx[u]
           /\ tx'[t].kind = tx[t].kind /\ tx'[t].todo = Tail(tx[t].todo) /\ tx'[t].target = tx[t].target
           /\ \A v \in Versions :
                 tx'[t].write[v] = IF v \in tx[t].found /\ Matches(t, v) /\ Writes(t, v)
                                   THEN SetTo(t, v) ELSE tx[t].write[v]
           /\ \A v \in Versions : SetTo(t, v) \in Row /\ SetTo(t, v) # None
<1>1. \A v \in Versions : SetTo(t, v) \in Row
    BY SetToType DEF Apply
<1> DEFINE new == [tx[t] EXCEPT !.todo = Tail(tx[t].todo), !.found = None,
                        !.write = [v \in Versions |-> IF v \in tx[t].found /\ Matches(t, v) /\ Writes(t, v)
                                                      THEN SetTo(t, v) ELSE tx[t].write[v]]]
<1>2. tx' = [tx EXCEPT ![t] = new]
    BY DEF Apply, TypeOK
<1>3. tx[t] \in Tx
    BY DEF TypeOK
<1>4. /\ new.kind = tx[t].kind /\ new.todo = Tail(tx[t].todo) /\ new.target = tx[t].target
      /\ \A v \in Versions : new.write[v] = IF v \in tx[t].found /\ Matches(t, v) /\ Writes(t, v)
                                            THEN SetTo(t, v) ELSE tx[t].write[v]
    BY <1>3 DEF Tx
<1> HIDE DEF new
<1>5. tx'[t] = new /\ \A u \in Sessions \ {t} : tx'[u] = tx[u]
    BY <1>2 DEF TypeOK
<1> QED
    BY <1>1, <1>4, <1>5, NoneAssumption

\* Only the statements that pin give a row a pin.
LEMMA PinsOnlyTarget ==
    ASSUME TypeOK, NEW t \in Sessions, Apply(t), NEW v \in Versions,
           v \in tx[t].found, Matches(t, v), SetTo(t, v).pinned
    PROVE  View(t, v).pinned \/ (Statement(t) \in Pins /\ v = tx[t].target)
<1>1. View(t, v) \in Row
    BY ViewType
<1> QED
    BY <1>1 DEF Apply, SetTo, Matches, Pins, Changes, Row

LEMMA ApplyKeepsPins ==
    ASSUME PinInv, NEW t \in Sessions, Apply(t), TypeOK'
    PROVE  PinInv'
<1>0. TypeOK /\ rows' = rows
    BY DEF PinInv, Apply
<1>1. \A u \in Sessions \ {t}, v \in Versions : v \in tx[t].found => u \notin Holders(v)
    BY <1>0 DEF Apply, WaitsFor
<1>2. \A u \in Sessions \ {t} : tx'[u] = tx[u]
    BY <1>0, ApplyEffect
<1>3. \A v \in Versions : tx'[t].write[v] = tx[t].write[v]
                          \/ (v \in tx[t].found /\ Matches(t, v) /\ tx'[t].write[v] = SetTo(t, v))
    BY <1>0, ApplyEffect
<1>4. Exclusive'
    BY <1>1, <1>2, <1>3 DEF Exclusive, Holders, PinInv
<1>5. \A u \in Sessions \ {t}, v \in Versions : View(u, v)' = View(u, v) /\ Pending(u, v)' = Pending(u, v)
    BY <1>0, <1>2 DEF View, Pending
<1>6. \A v \in Versions : View(t, v)'.pinned =>
            View(t, v).pinned \/ (Statement(t) \in Pins /\ v = tx[t].target /\ v \in tx[t].found)
    <2> SUFFICES ASSUME NEW v \in Versions, View(t, v)'.pinned
                 PROVE  View(t, v).pinned \/ (Statement(t) \in Pins /\ v = tx[t].target /\ v \in tx[t].found)
        OBVIOUS
    <2>1. CASE tx'[t].write[v] = tx[t].write[v]
        BY <1>0, <2>1 DEF View
    <2>2. CASE v \in tx[t].found /\ Matches(t, v) /\ tx'[t].write[v] = SetTo(t, v)
        <3>1. SetTo(t, v) # None
            BY <1>0, ApplyEffect
        <3>2. View(t, v)' = SetTo(t, v)
            BY <2>2, <3>1 DEF View
        <3> QED
            BY <1>0, <2>2, <3>2, PinsOnlyTarget
    <2> QED
        BY <1>3, <2>1, <2>2
<1>7. Statement(t) \in Pins => \A v \in Versions \ {tx[t].target} : ~View(t, v).pinned
    BY DEF Apply, PinTaken
<1>8. OneSeen'
    BY <1>5, <1>6, <1>7 DEF OneSeen, PinInv
<1>9. ASSUME NEW u \in Sessions \ {t}, NEW v \in Versions, NEW w \in Versions, Pending(t, v)', Pending(u, w)
      PROVE  FALSE
    <2>1. View(t, v)'.pinned
        BY <1>9 DEF Pending, View
    <2>2. u \in Holders(w) /\ View(u, w).pinned
        BY <1>9 DEF Pending, Holders, View
    <2>3. CASE Statement(t) \in Pins /\ v = tx[t].target /\ v \in tx[t].found
        <3>1. CASE w = v
            BY <1>1, <2>2, <2>3, <3>1
        <3>2. CASE w # v
            <4>1. u \in WaitsFor(t)
                BY <2>2, <2>3, <3>2 DEF WaitsFor
            <4> QED
                BY <4>1 DEF Apply
        <3> QED
            BY <3>1, <3>2
    <2>4. CASE View(t, v).pinned
        <3>1. CASE tx[t].write[v] # None
            BY <1>9, <2>4, <3>1 DEF Pending, View, OnePending, PinInv
        <3>2. CASE tx[t].write[v] = None
            <4>1. rows[v].pinned /\ v \in tx[t].found
                BY <1>3, <1>9, <2>4, <3>2 DEF View, Pending
            <4>2. tx[u].write[v] = None
                BY <1>1, <4>1 DEF Holders
            <4>3. View(u, v).pinned
                BY <4>1, <4>2 DEF View
            <4>4. v = w
                BY <2>2, <4>3 DEF OneSeen, PinInv
            <4> QED
                BY <2>2, <4>2, <4>4 DEF Holders
        <3> QED
            BY <3>1, <3>2
    <2> QED
        BY <1>6, <2>1, <2>3, <2>4
<1>10. OnePending'
    BY <1>5, <1>9 DEF OnePending, PinInv
<1> QED
    BY <1>0, <1>4, <1>8, <1>10 DEF PinInv, OnePin, PinnedRows

\* A session that ends, or begins, has written nothing.
LEMMA IdleKeepsPins ==
    ASSUME PinInv, TypeOK', NEW t \in Sessions, rows' = rows,
           \A u \in Sessions \ {t} : tx'[u] = tx[u],
           \A v \in Versions : tx'[t].write[v] = None
    PROVE  PinInv'
<1>1. \A v \in Versions : View(t, v)' = rows[v] /\ ~Pending(t, v)'
    BY DEF View, Pending
<1>2. \A u \in Sessions \ {t}, v \in Versions : View(u, v)' = View(u, v) /\ Pending(u, v)' = Pending(u, v)
    BY DEF View, Pending
<1>3. Exclusive'
    BY DEF Exclusive, Holders, PinInv
<1>4. OneSeen' /\ OnePending'
    BY <1>1, <1>2 DEF OneSeen, OnePending, PinInv, OnePin, PinnedRows
<1> QED
    BY <1>3, <1>4 DEF PinInv, OnePin, PinnedRows

LEMMA CommitKeepsPins ==
    ASSUME PinInv, TypeOK', NEW t \in Sessions, Commit(t)
    PROVE  PinInv'
<1>0. TypeOK
    BY DEF PinInv
<1>1. \A u \in Sessions \ {t} : tx'[u] = tx[u]
    BY <1>0 DEF Commit, TypeOK
<1>2. \A v \in Versions : tx'[t].write[v] = None /\ rows'[v] = View(t, v)
    BY <1>0, IdleType DEF Commit, TypeOK
<1>3. Exclusive'
    BY <1>1, <1>2 DEF Exclusive, Holders, PinInv
<1>4. OnePin'
    BY <1>2 DEF OnePin, PinnedRows, OneSeen, PinInv
<1>5. OnePending'
    BY <1>1, <1>2 DEF OnePending, Pending, PinInv
<1>6. ASSUME NEW u \in Sessions \ {t}, NEW v \in Versions, NEW w \in Versions,
             Pending(u, v), tx[u].write[w] = None, View(t, w).pinned
      PROVE  v = w
    <2>1. CASE tx[t].write[w] # None
        BY <1>6, <2>1 DEF Pending, View, OnePending, PinInv
    <2>2. CASE tx[t].write[w] = None
        <3>1. View(u, w).pinned /\ View(u, v).pinned
            BY <1>6, <2>2 DEF View, Pending
        <3> QED
            BY <3>1 DEF OneSeen, PinInv
    <2> QED
        BY <2>1, <2>2
<1>7. OneSeen'
    <2> SUFFICES ASSUME NEW u \in Sessions, NEW v \in Versions, NEW w \in Versions,
                        View(u, v)'.pinned, View(u, w)'.pinned
                 PROVE  v = w
        BY DEF OneSeen
    <2>1. CASE u = t
        BY <1>2, <2>1 DEF View, OneSeen, PinInv
    <2>2. CASE u # t
        <3>1. tx'[u] = tx[u]
            BY <1>1, <2>2
        <3>2. Pending(u, v) \/ (tx[u].write[v] = None /\ View(t, v).pinned)
            BY <1>2, <3>1 DEF View, Pending
        <3>3. Pending(u, w) \/ (tx[u].write[w] = None /\ View(t, w).pinned)
            BY <1>2, <3>1 DEF View, Pending
        <3>4. CASE Pending(u, v) /\ Pending(u, w)
            BY <3>4 DEF Pending, View, OneSeen, PinInv
        <3> QED
            BY <1>6, <2>2, <3>2, <3>3, <3>4 DEF OneSeen, PinInv
    <2> QED
        BY <2>1, <2>2
<1> QED
    BY <1>3, <1>4, <1>5, <1>7 DEF PinInv

\* Steps of a session that touch neither rows nor what it has written.
LEMMA ReadsKeepPins ==
    ASSUME PinInv, TypeOK', rows' = rows,
           \A u \in Sessions, v \in Versions : tx'[u].write[v] = tx[u].write[v]
    PROVE  PinInv'
<1>1. \A u \in Sessions, v \in Versions : View(u, v)' = View(u, v) /\ Pending(u, v)' = Pending(u, v)
    BY DEF View, Pending
<1> QED
    BY <1>1 DEF PinInv, OnePin, PinnedRows, Exclusive, Holders, OneSeen, OnePending

\* What each action does to the sessions' writes.
LEMMA StartEffect ==
    ASSUME TypeOK, NEW t \in Sessions, NEW kind, NEW v, NEW todo, StartAs(t, kind, v, todo)
    PROVE  /\ \A u \in Sessions \ {t} : tx'[u] = tx[u]
           /\ \A w \in Versions : tx'[t].write[w] = None
           /\ tx'[t].kind = kind /\ tx'[t].todo = todo
BY DEF StartAs, TypeOK, Idle

LEMMA StartsEffect ==
    ASSUME TypeOK, AdminStarts \/ \E t \in Fetchers : FetchRules(t)
    PROVE  \E t \in Sessions : /\ rows' = rows /\ raced' = raced
                               /\ \A u \in Sessions \ {t} : tx'[u] = tx[u]
                               /\ \A w \in Versions : tx'[t].write[w] = None
<1>1. ASSUME NEW t \in Admins, NEW v \in Versions,
             ActivateRule(t, v) \/ FollowFeed(t, v) \/ ImportRule(t, v) \/ QuarantineRule(t, v)
      PROVE  /\ t \in Sessions /\ rows' = rows /\ raced' = raced
             /\ \A u \in Sessions \ {t} : tx'[u] = tx[u]
             /\ \A w \in Versions : tx'[t].write[w] = None
    BY <1>1, StartEffect DEF ActivateRule, FollowFeed, ImportRule, QuarantineRule, Act, Sessions
<1>2. ASSUME NEW t \in Fetchers, FetchRules(t)
      PROVE  /\ t \in Sessions /\ rows' = rows /\ raced' = raced
             /\ \A u \in Sessions \ {t} : tx'[u] = tx[u]
             /\ \A w \in Versions : tx'[t].write[w] = None
    BY <1>2, StartEffect DEF FetchRules, Sessions
<1> QED
    BY <1>1, <1>2 DEF AdminStarts

\* Reads either leave the session's writes as they are or end the session.
LEMMA ReadEffect ==
    ASSUME TypeOK, NEW t \in Sessions,
           ReadActive(t) \/ Download(t) \/ CheckPin(t) \/ LookAtTarget(t) \/ Begin(t)
    PROVE  /\ rows' = rows /\ raced' = raced
           /\ \A u \in Sessions \ {t} : tx'[u] = tx[u]
           /\ \/ \A v \in Versions : tx'[t].write[v] = tx[t].write[v]
              \/ \A v \in Versions : tx'[t].write[v] = None
<1>1. tx[t] \in Tx /\ \A v \in Versions : Idle.write[v] = None
    BY IdleType DEF TypeOK
<1> DEFINE Goal == /\ \A u \in Sessions \ {t} : tx'[u] = tx[u]
                   /\ \/ \A v \in Versions : tx'[t].write[v] = tx[t].write[v]
                      \/ \A v \in Versions : tx'[t].write[v] = None
<1>2. ASSUME NEW new, tx' = [tx EXCEPT ![t] = new], new.write = tx[t].write
      PROVE  Goal
    BY <1>2 DEF TypeOK
<1>3. ASSUME tx' = [tx EXCEPT ![t] = Idle]
      PROVE  Goal
    BY <1>1, <1>3 DEF TypeOK
<1>4. ASSUME NEW todo, Continue(t, todo)
      PROVE  Goal
    <2> DEFINE new == [tx[t] EXCEPT !.todo = todo, !.found = None]
    <2>1. new.write = tx[t].write
        BY <1>1 DEF Tx
    <2>2. tx' = [tx EXCEPT ![t] = new]
        BY <1>4 DEF Continue, TypeOK
    <2> HIDE DEF new
    <2> QED
        BY <1>2, <2>1, <2>2
<1>5. CASE ReadActive(t)
    <2>1. ASSUME NEW v \in Active,
                 tx' = [tx EXCEPT ![t].todo = <<"download">>, ![t].seen = v, ![t].held = rows[v].pinned]
          PROVE  Goal
        <3> DEFINE new == [tx[t] EXCEPT !.todo = <<"download">>, !.seen = v, !.held = rows[v].pinned]
        <3>1. new.write = tx[t].write
            BY <1>1 DEF Tx
        <3>2. tx' = [tx EXCEPT ![t] = new]
            BY <2>1 DEF TypeOK
        <3> HIDE DEF new
        <3> QED
            BY <1>2, <3>1, <3>2
    <2> QED
        BY <1>4, <1>5, <2>1 DEF ReadActive
<1>6. CASE Download(t)
    BY <1>1, <1>6 DEF Download, TypeOK
<1>7. CASE CheckPin(t)
    <2> HIDE DEF Goal
    <2>1. tx' = [tx EXCEPT ![t] = Idle] \/ Continue(t, Tail(tx[t].todo))
        BY <1>7 DEF CheckPin
    <2>2. Goal
        BY <1>3, <1>4, <2>1
    <2> QED
        BY <1>7, <2>2 DEF Goal, CheckPin
<1>8. CASE LookAtTarget(t)
    <2> HIDE DEF Goal
    <2>1. tx' = [tx EXCEPT ![t] = Idle] \/ Continue(t, Tail(tx[t].todo))
        BY <1>8 DEF LookAtTarget
    <2>2. Goal
        BY <1>3, <1>4, <2>1
    <2> QED
        BY <1>8, <2>2 DEF Goal, LookAtTarget
<1>9. CASE Begin(t)
    BY <1>1, <1>9 DEF Begin, TypeOK
<1> QED
    BY <1>5, <1>6, <1>7, <1>8, <1>9

LEMMA AbortEffect ==
    ASSUME TypeOK, NEW t \in Sessions, Abort(t)
    PROVE  /\ rows' = rows /\ raced' = raced
           /\ \A u \in Sessions \ {t} : tx'[u] = tx[u]
           /\ \A v \in Versions : tx'[t].write[v] = None
BY IdleType DEF Abort, TypeOK

LEMMA PinStep ==
    ASSUME PinInv, [Next]_vars
    PROVE  PinInv'
<1>0. TypeOK /\ TypeOK'
    BY TypeStep DEF PinInv
<1>1. CASE AdminStarts \/ \E t \in Fetchers : FetchRules(t)
    BY <1>0, <1>1, StartsEffect, IdleKeepsPins
<1>2. ASSUME NEW t \in Sessions,
             ReadActive(t) \/ Download(t) \/ CheckPin(t) \/ LookAtTarget(t) \/ Begin(t)
      PROVE  PinInv'
    <2>1. CASE \A v \in Versions : tx'[t].write[v] = tx[t].write[v]
        BY <1>0, <1>2, <2>1, ReadEffect, ReadsKeepPins
    <2>2. CASE \A v \in Versions : tx'[t].write[v] = None
        BY <1>0, <1>2, <2>2, ReadEffect, IdleKeepsPins
    <2> QED
        BY <1>0, <1>2, <2>1, <2>2, ReadEffect
<1>3. ASSUME NEW t \in Sessions, Apply(t)
      PROVE  PinInv'
    BY <1>0, <1>3, ApplyKeepsPins
<1>4. ASSUME NEW t \in Sessions, Abort(t)
      PROVE  PinInv'
    BY <1>0, <1>4, AbortEffect, IdleKeepsPins
<1>5. ASSUME NEW t \in Sessions, Commit(t)
      PROVE  PinInv'
    BY <1>0, <1>5, CommitKeepsPins
<1>6. CASE UNCHANGED <<rows, tx>>
    BY <1>0, <1>6, ReadsKeepPins
<1> QED
    BY <1>1, <1>2, <1>3, <1>4, <1>5, <1>6 DEF Next, Runs, FeedChanges, vars

LEMMA PinInit ==
    ASSUME Init
    PROVE  PinInv
<1>1. \A v \in Versions : ~rows[v].pinned
    BY DEF Init
<1>2. \A t \in Sessions : tx[t] = Idle
    BY DEF Init
<1>3. \A v \in Versions, t \in Sessions : tx[t].write[v] = None
    BY <1>2, IdleType
<1> QED
    BY <1>1, <1>3, TypeInit DEF PinInv, OnePin, PinnedRows, Exclusive, Holders, OneSeen, OnePending, View, Pending

\* A profile is pinned to one version at most: the unique index refuses a pin
\* where the session sees another, and makes it wait for a session that may
\* commit one (activations, imports, releases and the fetcher, interleaved).
THEOREM PinIsUnique == Spec => []OnePin
<1>1. PinInv /\ [Next]_vars => PinInv'
    BY PinStep
<1>2. PinInv => OnePin
    BY DEF PinInv
<1> QED
    BY PinInit, <1>1, <1>2, PTL DEF Spec

-----------------------------------------------------------------------------
(* The pinned version is the published one *)

FeedTodo == {<<>>, <<"read">>, <<"download">>, <<"reject">>, <<"record">>,
             <<"check", "demoteFeed", "publish">>, <<"demoteFeed", "publish">>, <<"publish">>}

AdminTodo == {<<>>, <<"demote", "unpin", "pin">>, <<"unpin", "pin">>, <<"pin">>, <<"unpinAll">>,
              <<"demoteAll", "unpinAll", "pinUpsert">>, <<"unpinAll", "pinUpsert">>, <<"pinUpsert">>,
              <<"look", "setAside">>, <<"setAside">>}

Checked == {<<"demoteFeed", "publish">>, <<"publish">>}

Clean(t) == \A v \in Versions : tx[t].write[v] = None

\* A fetcher has written nothing before it looked at the pins, writes no pin of
\* its own, and once it has looked every pin there is was committed since.
FetcherOK(t) ==
    /\ t \in Fetchers
    /\ tx[t].todo \in FeedTodo
    /\ tx[t].todo \in Checked \cup {<<>>} \/ Clean(t)
    /\ \A v \in Versions : Pending(t, v) => rows[v].pinned
    /\ tx[t].todo \in Checked \/ (\E v \in Versions : Pending(t, v)) => PinnedRows \subseteq raced

\* An administrator pins what the same transaction publishes.
AdminOK(t) ==
    /\ tx[t].todo \in AdminTodo
    /\ \A v \in Versions : Pending(t, v) => tx[t].write[v].status = "active"

SessionOK(t) ==
    /\ tx[t].kind = "fetch" => FetcherOK(t)
    /\ tx[t].kind # "fetch" => AdminOK(t)
    /\ \A v \in Versions : View(t, v).status = "none" => ~View(t, v).pinned

RowsOK ==
    \A v \in Versions : /\ rows[v].pinned /\ v \notin raced => rows[v].status = "active"
                        /\ rows[v].status = "none" => ~rows[v].pinned

RaceInv == PinInv /\ RowsOK /\ \A t \in Sessions : SessionOK(t)

LEMMA Tails ==
    /\ Tail(<<"look", "setAside">>) = <<"setAside">> /\ Tail(<<"setAside">>) = <<>>
    /\ Tail(<<"demote", "unpin", "pin">>) = <<"unpin", "pin">>
    /\ Tail(<<"unpin", "pin">>) = <<"pin">> /\ Tail(<<"pin">>) = <<>> /\ Tail(<<"unpinAll">>) = <<>>
    /\ Tail(<<"demoteAll", "unpinAll", "pinUpsert">>) = <<"unpinAll", "pinUpsert">>
    /\ Tail(<<"unpinAll", "pinUpsert">>) = <<"pinUpsert">> /\ Tail(<<"pinUpsert">>) = <<>>
    /\ Tail(<<"reject">>) = <<>> /\ Tail(<<"record">>) = <<>> /\ Tail(<<"publish">>) = <<>>
    /\ Tail(<<"check", "demoteFeed", "publish">>) = <<"demoteFeed", "publish">>
    /\ Tail(<<"demoteFeed", "publish">>) = <<"publish">>
OBVIOUS

LEMMA SameSession ==
    ASSUME NEW u \in Sessions, SessionOK(u), tx'[u] = tx[u], rows' = rows, raced' = raced
    PROVE  SessionOK(u)'
BY DEF SessionOK, FetcherOK, AdminOK, Clean, Pending, View, PinnedRows

\* A session that has written nothing.
LEMMA CleanSession ==
    ASSUME NEW t \in Sessions, RowsOK', Clean(t)',
           IF tx'[t].kind = "fetch" THEN t \in Fetchers /\ tx'[t].todo \in FeedTodo \ Checked
                                    ELSE tx'[t].todo \in AdminTodo
    PROVE  SessionOK(t)'
BY DEF RowsOK, SessionOK, FetcherOK, AdminOK, Clean, Pending, View

LEMMA IdleSession ==
    ASSUME TypeOK, NEW t \in Sessions, tx' = [tx EXCEPT ![t] = Idle], RowsOK'
    PROVE  SessionOK(t)'
<1>1. tx'[t] = Idle
    BY DEF TypeOK
<1>2. Clean(t)'
    BY <1>1, IdleType DEF Clean
<1>3. tx'[t].kind = "idle" /\ tx'[t].todo \in AdminTodo
    BY <1>1, IdleType DEF AdminTodo
<1> QED
    BY <1>2, <1>3, CleanSession

\* The statement a session is at says how far its transaction is.
LEMMA Places ==
    ASSUME NEW t \in Sessions, SessionOK(t)
    PROVE  /\ tx[t].kind = "fetch" =>
              /\ Statement(t) = "read" <=> tx[t].todo = <<"read">>
              /\ Statement(t) = "download" <=> tx[t].todo = <<"download">>
              /\ Statement(t) = "check" <=> tx[t].todo = <<"check", "demoteFeed", "publish">>
              /\ Statement(t) \in Changes => Statement(t) \in {"reject", "record", "demoteFeed", "publish"}
              /\ Statement(t) \in {"reject", "record"} => tx[t].todo \in {<<"reject">>, <<"record">>}
              /\ Statement(t) \in {"demoteFeed", "publish"} => tx[t].todo \in Checked
           /\ tx[t].kind # "fetch" =>
              /\ Statement(t) \notin {"read", "download", "check"}
              /\ Statement(t) \in Changes =>
                    Statement(t) \in {"demote", "demoteAll", "unpin", "unpinAll", "pin", "pinUpsert", "setAside"}
<1>1. CASE tx[t].kind = "fetch"
    <2>1. tx[t].todo \in FeedTodo
        BY <1>1 DEF SessionOK, FetcherOK
    <2> HIDE DEF Changes
    <2>2. CASE tx[t].todo = <<>>
        BY <1>1, <2>2 DEF Statement, Changes
    <2>3. CASE tx[t].todo \in {<<"read">>, <<"download">>}
        BY <1>1, <2>3 DEF Statement, Changes
    <2>4. CASE tx[t].todo \in {<<"reject">>, <<"record">>}
        BY <1>1, <2>4 DEF Statement, Changes
    <2>5. CASE tx[t].todo = <<"check", "demoteFeed", "publish">>
        BY <1>1, <2>5 DEF Statement, Changes
    <2>6. CASE tx[t].todo \in Checked
        BY <1>1, <2>6 DEF Statement, Changes, Checked
    <2> QED
        BY <2>1, <2>2, <2>3, <2>4, <2>5, <2>6 DEF FeedTodo, Checked
<1>2. CASE tx[t].kind # "fetch"
    BY <1>2 DEF SessionOK, AdminOK, AdminTodo, Statement, Changes
<1> QED
    BY <1>1, <1>2

LEMMA AdvanceTodo ==
    ASSUME NEW t \in Sessions, SessionOK(t), tx[t].todo # <<>>
    PROVE  /\ tx[t].kind = "fetch" /\ Statement(t) \notin {"read", "download"} =>
                Tail(tx[t].todo) \in Checked \cup {<<>>}
           /\ tx[t].kind # "fetch" => Tail(tx[t].todo) \in AdminTodo
<1>1. CASE tx[t].kind = "fetch"
    <2>1. tx[t].todo \in FeedTodo
        BY <1>1 DEF SessionOK, FetcherOK
    <2>2. CASE tx[t].todo \in {<<"read">>, <<"download">>}
        BY <1>1, <2>2 DEF Statement
    <2>3. CASE tx[t].todo \in {<<"reject">>, <<"record">>}
        BY <1>1, <2>3, Tails
    <2>4. CASE tx[t].todo = <<"check", "demoteFeed", "publish">>
        BY <1>1, <2>4, Tails DEF Checked
    <2>5. CASE tx[t].todo \in Checked
        BY <1>1, <2>5, Tails DEF Checked
    <2> QED
        BY <1>1, <2>1, <2>2, <2>3, <2>4, <2>5 DEF FeedTodo, Checked
<1>2. CASE tx[t].kind # "fetch"
    BY <1>2, Tails DEF SessionOK, AdminOK, AdminTodo
<1> QED
    BY <1>1, <1>2

LEMMA StartSession ==
    ASSUME RaceInv, RowsOK', AdminStarts \/ \E t \in Fetchers : FetchRules(t)
    PROVE  \A u \in Sessions : SessionOK(u)'
<1>0. TypeOK /\ \A u \in Sessions : SessionOK(u)
    BY DEF RaceInv, PinInv
<1>1. ASSUME NEW t \in Sessions, NEW kind, NEW v, NEW todo, StartAs(t, kind, v, todo),
             rows' = rows, raced' = raced,
             IF kind = "fetch" THEN t \in Fetchers /\ todo \in FeedTodo \ Checked ELSE todo \in AdminTodo
      PROVE  \A u \in Sessions : SessionOK(u)'
    <2>1. Clean(t)' /\ tx'[t].kind = kind /\ tx'[t].todo = todo /\ \A u \in Sessions \ {t} : tx'[u] = tx[u]
        BY <1>0, <1>1, StartEffect DEF Clean
    <2>2. SessionOK(t)'
        BY <1>1, <2>1, CleanSession
    <2> QED
        BY <1>0, <1>1, <2>1, <2>2, SameSession
<1>2. ASSUME NEW t \in Admins, NEW v \in Versions,
             ActivateRule(t, v) \/ FollowFeed(t, v) \/ ImportRule(t, v) \/ QuarantineRule(t, v)
      PROVE  \A u \in Sessions : SessionOK(u)'
    <2>1. ASSUME NEW kind \in Kinds \ {"fetch"}, NEW todo \in AdminTodo, Act(t, kind, v, todo)
          PROVE  \A u \in Sessions : SessionOK(u)'
        BY <1>1, <2>1 DEF Act, Sessions
    <2>2. /\ <<"demote", "unpin", "pin">> \in AdminTodo /\ <<"unpinAll">> \in AdminTodo
          /\ <<"demoteAll", "unpinAll", "pinUpsert">> \in AdminTodo /\ <<"look", "setAside">> \in AdminTodo
          /\ {"activate", "follow", "import", "quarantine"} \subseteq Kinds \ {"fetch"}
        BY DEF AdminTodo, Kinds
    <2>3. CASE ActivateRule(t, v)
        BY <2>1, <2>2, <2>3 DEF ActivateRule
    <2>4. CASE FollowFeed(t, v)
        BY <2>1, <2>2, <2>4 DEF FollowFeed
    <2>5. CASE ImportRule(t, v)
        BY <2>1, <2>2, <2>5 DEF ImportRule
    <2>6. CASE QuarantineRule(t, v)
        BY <2>1, <2>2, <2>6 DEF QuarantineRule
    <2> QED
        BY <1>2, <2>3, <2>4, <2>5, <2>6
<1>3. ASSUME NEW t \in Fetchers, FetchRules(t)
      PROVE  \A u \in Sessions : SessionOK(u)'
    <2>1. <<"read">> \in FeedTodo \ Checked
        BY DEF FeedTodo, Checked
    <2> QED
        BY <1>1, <1>3, <2>1 DEF FetchRules, Sessions
<1> QED
    BY <1>2, <1>3 DEF AdminStarts

\* A session that reads on: what it has written stays, and its next statement
\* comes after a look at the pins only if there was none unraced.
LEMMA ReadOn ==
    ASSUME RaceInv, NEW t \in Sessions, NEW new,
           tx' = [tx EXCEPT ![t] = new], rows' = rows, raced' = raced,
           new.kind = tx[t].kind, new.write = tx[t].write,
           IF tx[t].kind = "fetch" THEN /\ new.todo \in FeedTodo
                                        /\ new.todo \in Checked \cup {<<>>} \/ Clean(t)
                                        /\ new.todo \in Checked => PinnedRows \subseteq raced
                                   ELSE new.todo \in AdminTodo
    PROVE  \A u \in Sessions : SessionOK(u)'
<1>1. tx'[t] = new /\ \A u \in Sessions \ {t} : tx'[u] = tx[u]
    BY DEF RaceInv, PinInv, TypeOK
<1>2. SessionOK(t)
    BY DEF RaceInv
<1>3. \A v \in Versions : /\ tx'[t].write[v] = tx[t].write[v]
                          /\ View(t, v)' = View(t, v) /\ Pending(t, v)' = Pending(t, v)
    BY <1>1 DEF View, Pending
<1>4. tx'[t].kind = tx[t].kind /\ tx'[t].todo = new.todo /\ PinnedRows' = PinnedRows
    BY <1>1 DEF PinnedRows
<1>5. SessionOK(t)'
    <2>1. CASE tx[t].kind = "fetch"
        <3>1. FetcherOK(t)
            BY <1>2, <2>1 DEF SessionOK
        <3>2. FetcherOK(t)'
            BY <1>3, <1>4, <2>1, <3>1 DEF FetcherOK, Clean
        <3> QED
            BY <1>2, <1>3, <1>4, <2>1, <3>2 DEF SessionOK
    <2>2. CASE tx[t].kind # "fetch"
        <3>1. AdminOK(t)
            BY <1>2, <2>2 DEF SessionOK
        <3>2. AdminOK(t)'
            BY <1>3, <1>4, <2>2, <3>1 DEF AdminOK
        <3> QED
            BY <1>2, <1>3, <1>4, <2>2, <3>2 DEF SessionOK
    <2> QED
        BY <2>1, <2>2
<1> QED
    BY <1>1, <1>5, SameSession DEF RaceInv

LEMMA ReadSession ==
    ASSUME RaceInv, RowsOK', NEW t \in Sessions,
           ReadActive(t) \/ Download(t) \/ CheckPin(t) \/ LookAtTarget(t) \/ Begin(t)
    PROVE  \A u \in Sessions : SessionOK(u)'
<1>0. TypeOK /\ (\A u \in Sessions : SessionOK(u)) /\ RowsOK
    BY DEF RaceInv, PinInv
<1>1. tx[t] \in Tx
    BY <1>0 DEF TypeOK
<1>2. ASSUME tx' = [tx EXCEPT ![t] = Idle], rows' = rows, raced' = raced
      PROVE  \A u \in Sessions : SessionOK(u)'
    <2>1. SessionOK(t)'
        BY <1>0, <1>2, IdleSession
    <2>2. \A u \in Sessions \ {t} : tx'[u] = tx[u]
        BY <1>0, <1>2 DEF TypeOK
    <2> QED
        BY <1>0, <1>2, <2>1, <2>2, SameSession
<1>3. ASSUME NEW todo, Continue(t, todo), rows' = rows, raced' = raced,
             IF tx[t].kind = "fetch" THEN /\ todo \in FeedTodo
                                          /\ todo \in Checked \cup {<<>>} \/ Clean(t)
                                          /\ todo \in Checked => PinnedRows \subseteq raced
                                     ELSE todo \in AdminTodo
      PROVE  \A u \in Sessions : SessionOK(u)'
    <2> DEFINE new == [tx[t] EXCEPT !.todo = todo, !.found = None]
    <2>1. new.kind = tx[t].kind /\ new.write = tx[t].write /\ new.todo = todo
        BY <1>1 DEF Tx
    <2>2. tx' = [tx EXCEPT ![t] = new]
        BY <1>0, <1>3 DEF Continue, TypeOK
    <2> HIDE DEF new
    <2> QED
        BY <1>3, <2>1, <2>2, ReadOn
<1>4. <<"download">> \in FeedTodo \ Checked /\ {<<"reject">>, <<"record">>,
        <<"check", "demoteFeed", "publish">>} \subseteq FeedTodo \ Checked
    BY DEF FeedTodo, Checked
<1>5. CASE ReadActive(t)
    <2>1. tx[t].kind = "fetch" /\ tx[t].todo = <<"read">>
        BY <1>0, <1>5, Places DEF ReadActive
    <2>2. Clean(t)
        <3>1. <<"read">> \notin Checked \cup {<<>>}
            BY DEF Checked
        <3>2. FetcherOK(t)
            BY <1>0, <2>1 DEF SessionOK
        <3> QED
            BY <2>1, <3>1, <3>2 DEF FetcherOK
    <2>3. ASSUME NEW v \in Active,
                 tx' = [tx EXCEPT ![t].todo = <<"download">>, ![t].seen = v, ![t].held = rows[v].pinned]
          PROVE  \A u \in Sessions : SessionOK(u)'
        <3> DEFINE new == [tx[t] EXCEPT !.todo = <<"download">>, !.seen = v, !.held = rows[v].pinned]
        <3>1. new.kind = tx[t].kind /\ new.write = tx[t].write /\ new.todo = <<"download">>
            BY <1>1 DEF Tx
        <3>2. tx' = [tx EXCEPT ![t] = new]
            BY <1>0, <2>3 DEF TypeOK
        <3> HIDE DEF new
        <3> QED
            BY <1>4, <1>5, <2>1, <2>2, <3>1, <3>2, ReadOn DEF ReadActive
    <2> QED
        BY <1>3, <1>4, <1>5, <2>1, <2>2, <2>3 DEF ReadActive
<1>6. CASE Download(t)
    <2>1. tx[t].kind = "fetch" /\ tx[t].todo = <<"download">>
        BY <1>0, <1>6, Places DEF Download
    <2>2. Clean(t)
        <3>1. <<"download">> \notin Checked \cup {<<>>}
            BY DEF Checked
        <3>2. FetcherOK(t)
            BY <1>0, <2>1 DEF SessionOK
        <3> QED
            BY <2>1, <3>1, <3>2 DEF FetcherOK
    <2> DEFINE todo == IF feed \notin Valid THEN <<"reject">>
                       ELSE IF tx[t].held THEN <<"record">> ELSE <<"check", "demoteFeed", "publish">>
               new == [tx[t] EXCEPT !.target = feed, !.todo = todo]
    <2>3. todo \in FeedTodo \ Checked
        BY <1>4
    <2>4. new.kind = tx[t].kind /\ new.write = tx[t].write /\ new.todo = todo
        <3> HIDE DEF todo
        <3> QED
            BY <1>1 DEF Tx
    <2>5. tx' = [tx EXCEPT ![t] = IF feed = tx[t].seen THEN Idle ELSE new]
        BY <1>0, <1>6 DEF Download, TypeOK
    <2> HIDE DEF todo, new
    <2> QED
        BY <1>2, <1>6, <2>1, <2>2, <2>3, <2>4, <2>5, ReadOn DEF Download
<1>7. CASE CheckPin(t)
    <2>1. tx[t].kind = "fetch" /\ tx[t].todo = <<"check", "demoteFeed", "publish">>
        BY <1>0, <1>7, Places DEF CheckPin
    <2>2. Tail(tx[t].todo) = <<"demoteFeed", "publish">> /\ Tail(tx[t].todo) \in FeedTodo \cap Checked
        BY <2>1, Tails DEF FeedTodo, Checked
    <2>3. ~PinSeen(t) => PinnedRows \subseteq raced
        BY <1>0 DEF PinSeen, PinnedRows, Active, RowsOK
    <2> QED
        BY <1>2, <1>3, <1>7, <2>1, <2>2, <2>3 DEF CheckPin
<1>8. CASE LookAtTarget(t)
    <2>1. tx[t].todo # <<>>
        BY <1>8 DEF LookAtTarget, Statement
    <2>2. CASE tx[t].kind = "fetch"
        BY <1>0, <1>8, <2>2 DEF SessionOK, FetcherOK, FeedTodo, LookAtTarget, Statement
    <2>3. CASE tx[t].kind # "fetch"
        <3>1. Tail(tx[t].todo) \in AdminTodo
            BY <1>0, <2>1, <2>3, AdvanceTodo
        <3> QED
            BY <1>2, <1>3, <1>8, <2>3, <3>1 DEF LookAtTarget
    <2> QED
        BY <2>2, <2>3
<1>9. CASE Begin(t)
    <2> DEFINE new == [tx[t] EXCEPT !.found = {v \in Versions : Matches(t, v)}]
    <2>1. new.kind = tx[t].kind /\ new.write = tx[t].write /\ new.todo = tx[t].todo
        BY <1>1 DEF Tx
    <2>2. tx' = [tx EXCEPT ![t] = new]
        BY <1>0, <1>9 DEF Begin, TypeOK
    <2>3. IF tx[t].kind = "fetch" THEN /\ tx[t].todo \in FeedTodo
                                       /\ tx[t].todo \in Checked \cup {<<>>} \/ Clean(t)
                                       /\ tx[t].todo \in Checked => PinnedRows \subseteq raced
                                  ELSE tx[t].todo \in AdminTodo
        BY <1>0 DEF SessionOK, FetcherOK, AdminOK
    <2> HIDE DEF new
    <2> QED
        BY <1>9, <2>1, <2>2, <2>3, ReadOn DEF Begin
<1> QED
    BY <1>5, <1>6, <1>7, <1>8, <1>9

LEMMA SetToFacts ==
    ASSUME TypeOK, NEW t \in Sessions, NEW v \in Versions, Statement(t) \in Changes
    PROVE  /\ Statement(t) \in {"reject", "record", "demoteFeed", "publish"} =>
                SetTo(t, v).pinned = View(t, v).pinned
           /\ Statement(t) \notin {"reject", "record", "demoteFeed", "publish"} /\ SetTo(t, v).pinned =>
                SetTo(t, v).status = "active"
           /\ SetTo(t, v).status = "none" => ~SetTo(t, v).pinned
<1>1. View(t, v) \in Row
    BY ViewType
<1> QED
    BY <1>1 DEF SetTo, Row, RowStatus, Changes

LEMMA ApplySession ==
    ASSUME RaceInv, NEW t \in Sessions, Apply(t)
    PROVE  \A u \in Sessions : SessionOK(u)'
<1>0. TypeOK /\ SessionOK(t) /\ Statement(t) \in Changes /\ tx[t].todo # <<>>
    BY DEF RaceInv, PinInv, Apply, Statement, Changes
<1>1. /\ \A u \in Sessions \ {t} : tx'[u] = tx[u]
      /\ tx'[t].kind = tx[t].kind /\ tx'[t].todo = Tail(tx[t].todo)
      /\ \A v \in Versions : tx'[t].write[v] = IF v \in tx[t].found /\ Matches(t, v) /\ Writes(t, v)
                                              THEN SetTo(t, v) ELSE tx[t].write[v]
      /\ \A v \in Versions : SetTo(t, v) \in Row /\ SetTo(t, v) # None
    BY <1>0, ApplyEffect
<1>2. rows' = rows /\ raced' = raced /\ PinnedRows' = PinnedRows
    BY DEF Apply, PinnedRows
<1>3. ASSUME NEW v \in Versions
      PROVE  \/ View(t, v)' = View(t, v) /\ Pending(t, v)' = Pending(t, v) /\ tx'[t].write[v] = tx[t].write[v]
             \/ View(t, v)' = SetTo(t, v) /\ tx'[t].write[v] = SetTo(t, v) /\ Writes(t, v)
    BY <1>1, <1>2 DEF View, Pending
<1>4. \A v \in Versions : View(t, v)'.status = "none" => ~View(t, v)'.pinned
    BY <1>0, <1>3, SetToFacts DEF SessionOK
<1>5. CASE tx[t].kind = "fetch"
    <2>1. Statement(t) \in {"reject", "record", "demoteFeed", "publish"}
        BY <1>0, <1>5, Places
    <2>2. tx'[t].todo \in Checked \cup {<<>>} /\ tx'[t].todo \in FeedTodo
        BY <1>0, <1>1, <1>5, <2>1, AdvanceTodo DEF Checked, FeedTodo
    <2>3. FetcherOK(t)
        BY <1>0, <1>5 DEF SessionOK
    <2>4. ASSUME NEW v \in Versions, Pending(t, v)'
          PROVE  View(t, v).pinned /\ (Pending(t, v) \/ Writes(t, v))
        BY <1>0, <1>3, <2>1, <2>4, SetToFacts DEF Pending, View
    <2>5. CASE Statement(t) \in {"reject", "record"}
        <3>1. tx[t].todo \notin Checked \cup {<<>>} /\ tx'[t].todo = <<>>
            <4>1. tx[t].todo \in {<<"reject">>, <<"record">>}
                BY <1>0, <1>5, <2>5, Places
            <4>2. tx[t].todo \notin Checked \cup {<<>>}
                BY <2>5 DEF Checked, Statement
            <4>3. Tail(tx[t].todo) = <<>>
                BY <4>1, Tails
            <4> QED
                BY <1>1, <4>2, <4>3
        <3>2. Clean(t)
            BY <2>3, <3>1 DEF FetcherOK
        <3>3. \A v \in Versions : ~Pending(t, v)'
            BY <1>0, <2>4, <2>5, <3>2 DEF SessionOK, Writes, Clean, Pending
        <3>4. FetcherOK(t)'
            BY <2>2, <2>3, <3>1, <3>3 DEF FetcherOK, Checked
        <3> QED
            BY <1>0, <1>1, <1>2, <1>4, <1>5, <3>4, SameSession DEF SessionOK, RaceInv
    <2>6. CASE Statement(t) \in {"demoteFeed", "publish"}
        <3>1. PinnedRows \subseteq raced
            BY <1>0, <1>5, <2>3, <2>6, Places DEF FetcherOK
        <3>2. \A v \in Versions : Pending(t, v)' => rows[v].pinned
            BY <2>3, <2>4 DEF FetcherOK, View, Pending
        <3>3. FetcherOK(t)'
            BY <1>2, <2>2, <2>3, <3>1, <3>2 DEF FetcherOK
        <3> QED
            BY <1>0, <1>1, <1>2, <1>4, <1>5, <3>3, SameSession DEF SessionOK, RaceInv
    <2> QED
        BY <2>1, <2>5, <2>6
<1>6. CASE tx[t].kind # "fetch"
    <2>1. Statement(t) \notin {"reject", "record", "demoteFeed", "publish"}
        BY <1>0, <1>6, Places
    <2>2. tx'[t].todo \in AdminTodo
        BY <1>0, <1>1, <1>6, AdvanceTodo
    <2>3. \A v \in Versions : Pending(t, v)' => tx'[t].write[v].status = "active"
        BY <1>0, <1>3, <1>6, <2>1, SetToFacts DEF SessionOK, AdminOK, Pending
    <2>4. SessionOK(t)'
        BY <1>1, <1>4, <1>6, <2>2, <2>3 DEF SessionOK, AdminOK
    <2> QED
        BY <1>1, <1>2, <2>4, SameSession DEF RaceInv
<1> QED
    BY <1>5, <1>6

\* A commit: what is pinned afterwards was pinned before, or is the committing
\* administrator's, and then raced if some fetcher is publishing.
LEMMA CommitRace ==
    ASSUME RaceInv, NEW t \in Sessions, Commit(t)
    PROVE  RowsOK' /\ \A u \in Sessions : SessionOK(u)'
<1>0. TypeOK /\ SessionOK(t) /\ RowsOK
    BY DEF RaceInv, PinInv
<1>1. /\ \A u \in Sessions \ {t} : tx'[u] = tx[u]
      /\ tx' = [tx EXCEPT ![t] = Idle]
      /\ \A v \in Versions : rows'[v] = View(t, v)
    BY <1>0 DEF Commit, TypeOK
<1>2. \A v \in Versions : View(t, v).pinned /\ v \notin raced' =>
            v \notin raced /\ (rows[v].pinned \/ ~\E u \in Fetchers \ {t} : Publishing(u))
    BY DEF Commit
<1>3. \A v \in Versions : View(t, v).pinned /\ v \notin raced' => View(t, v).status = "active"
    <2> SUFFICES ASSUME NEW v \in Versions, View(t, v).pinned, v \notin raced'
                 PROVE  View(t, v).status = "active"
        OBVIOUS
    <2>1. CASE ~Pending(t, v)
        BY <1>0, <1>2, <2>1 DEF Pending, View, RowsOK
    <2>2. CASE Pending(t, v) /\ tx[t].kind = "fetch"
        <3>1. rows[v].pinned /\ PinnedRows \subseteq raced
            BY <1>0, <2>2 DEF SessionOK, FetcherOK
        <3> QED
            BY <1>2, <3>1 DEF PinnedRows
    <2>3. CASE Pending(t, v) /\ tx[t].kind # "fetch"
        BY <1>0, <2>3 DEF SessionOK, AdminOK, View, Pending
    <2> QED
        BY <2>1, <2>2, <2>3
<1>4. RowsOK'
    BY <1>0, <1>1, <1>3 DEF RowsOK, SessionOK
<1>5. SessionOK(t)'
    BY <1>0, <1>1, <1>4, IdleSession
<1>6. ASSUME NEW u \in Sessions \ {t}
      PROVE  SessionOK(u)'
    <2>0. SessionOK(u) /\ tx'[u] = tx[u] /\ \A v \in Versions : Pending(u, v)' = Pending(u, v)
        BY <1>1 DEF RaceInv, Pending
    <2>1. \A v \in Versions : View(u, v)' = IF tx[u].write[v] # None THEN View(u, v) ELSE View(t, v)
        BY <1>1, <2>0 DEF View
    <2>2. \A v \in Versions : View(u, v)'.status = "none" => ~View(u, v)'.pinned
        BY <1>0, <2>0, <2>1 DEF SessionOK
    <2>3. CASE tx[u].kind = "fetch"
        <3>0. FetcherOK(u)
            BY <2>0, <2>3 DEF SessionOK
        <3>1. ASSUME NEW v \in Versions, Pending(u, v)
              PROVE  rows'[v].pinned
            <4>1. tx[t].write[v] = None
                BY <3>1 DEF Pending, RaceInv, PinInv, Exclusive, Holders
            <4> QED
                BY <1>1, <3>0, <3>1, <4>1 DEF FetcherOK, View
        <3>2. ASSUME tx[u].todo \in Checked \/ \E v \in Versions : Pending(u, v)
              PROVE  PinnedRows' \subseteq raced'
            <4>1. PinnedRows \subseteq raced
                BY <3>0, <3>2 DEF FetcherOK
            <4>2. tx[u].todo \in Checked \cup {<<>>}
                BY <3>0, <3>2 DEF FetcherOK, Clean, Pending
            <4>3. u \in Fetchers \ {t} /\ Publishing(u)
                BY <2>3, <3>0, <4>2 DEF FetcherOK, Publishing, Checked
            <4>4. \A v \in Versions : View(t, v).pinned => v \in raced'
                BY <1>2, <4>1, <4>3 DEF PinnedRows
            <4> QED
                BY <1>1, <4>4 DEF PinnedRows
        <3>3. FetcherOK(u)'
            BY <2>0, <3>0, <3>1, <3>2 DEF FetcherOK, Clean
        <3> QED
            BY <2>0, <2>2, <2>3, <3>3 DEF SessionOK
    <2>4. CASE tx[u].kind # "fetch"
        BY <2>0, <2>2, <2>4 DEF SessionOK, AdminOK
    <2> QED
        BY <2>3, <2>4
<1> QED
    BY <1>4, <1>5, <1>6

LEMMA RaceStep ==
    ASSUME RaceInv, [Next]_vars
    PROVE  RaceInv'
<1>0. PinInv' /\ TypeOK /\ RowsOK /\ \A u \in Sessions : SessionOK(u)
    BY PinStep DEF RaceInv, PinInv
<1>1. ASSUME rows' = rows, raced' = raced
      PROVE  RowsOK'
    BY <1>0, <1>1 DEF RowsOK
<1>2. CASE AdminStarts \/ \E t \in Fetchers : FetchRules(t)
    <2>1. RowsOK'
        BY <1>0, <1>1, <1>2, StartsEffect
    <2> QED
        BY <1>0, <1>2, <2>1, StartSession DEF RaceInv
<1>3. ASSUME NEW t \in Sessions,
             ReadActive(t) \/ Download(t) \/ CheckPin(t) \/ LookAtTarget(t) \/ Begin(t)
      PROVE  RaceInv'
    <2>1. RowsOK'
        BY <1>0, <1>1, <1>3, ReadEffect
    <2> QED
        BY <1>0, <1>3, <2>1, ReadSession DEF RaceInv
<1>4. ASSUME NEW t \in Sessions, Apply(t)
      PROVE  RaceInv'
    BY <1>0, <1>1, <1>4, ApplySession DEF RaceInv, Apply
<1>5. ASSUME NEW t \in Sessions, Abort(t)
      PROVE  RaceInv'
    <2>1. RowsOK'
        BY <1>1, <1>5 DEF Abort
    <2>2. SessionOK(t)'
        BY <1>0, <1>5, <2>1, IdleSession DEF Abort
    <2>3. \A u \in Sessions \ {t} : SessionOK(u)'
        BY <1>0, <1>5, AbortEffect, SameSession
    <2> QED
        BY <1>0, <2>1, <2>2, <2>3 DEF RaceInv
<1>6. ASSUME NEW t \in Sessions, Commit(t)
      PROVE  RaceInv'
    BY <1>0, <1>6, CommitRace DEF RaceInv
<1>7. CASE UNCHANGED <<rows, tx, raced>>
    BY <1>0, <1>1, <1>7, SameSession DEF RaceInv
<1> QED
    BY <1>2, <1>3, <1>4, <1>5, <1>6, <1>7 DEF Next, Runs, FeedChanges, vars

LEMMA RaceInit ==
    ASSUME Init
    PROVE  RaceInv
<1>1. \A v \in Versions : ~rows[v].pinned
    BY DEF Init
<1>2. \A t \in Sessions : tx[t].kind = "idle" /\ tx[t].todo = <<>> /\ Clean(t)
    BY IdleType DEF Init, Clean
<1> QED
    BY <1>1, <1>2, PinInit DEF RaceInv, RowsOK, SessionOK, AdminOK, AdminTodo, Clean, Pending, View

\* The pinned version is the published one, except after a pin that was
\* committed between a fetcher's look at the pins and that fetcher's commit.
THEOREM PinIsPublished == Spec => []PinnedIsActiveUnlessRaced
<1>1. RaceInv /\ [Next]_vars => RaceInv'
    BY RaceStep
<1>2. RaceInv => PinnedIsActiveUnlessRaced
    BY DEF RaceInv, RowsOK, PinnedIsActiveUnlessRaced, PinnedRows, Active
<1> QED
    BY RaceInit, <1>1, <1>2, PTL DEF Spec

-----------------------------------------------------------------------------
(* A profile that is served stays served *)

\* The statements each kind of session has still to run.
Courses ==
    [idle |-> {<<>>},
     activate |-> {<<>>, <<"pin">>, <<"unpin", "pin">>, <<"demote", "unpin", "pin">>},
     follow |-> {<<>>, <<"unpinAll">>},
     import |-> {<<>>, <<"pinUpsert">>, <<"unpinAll", "pinUpsert">>, <<"demoteAll", "unpinAll", "pinUpsert">>},
     quarantine |-> {<<>>, <<"setAside">>, <<"look", "setAside">>},
     fetch |-> FeedTodo]

Written(t) == {v \in Versions : tx[t].write[v] # None}

\* Its target is written, and published by what is written.
Published(t) == tx[t].target \in Written(t) /\ tx[t].write[tx[t].target].status = "active"

\* What a session has written, or found to write, will leave a published version.
ServeOK(t) ==
    /\ tx[t].todo \in Courses[tx[t].kind]
    /\ tx[t].kind \notin {"idle", "fetch"} => t \in Admins
    /\ \A v \in Written(t) : tx[t].write[v].status # "none"
    /\ tx[t].kind = "activate" => View(t, tx[t].target).status # "none"
    /\ Statement(t) \in {"pin", "pinUpsert", "publish"} /\ tx[t].found # None => tx[t].target \in tx[t].found
    /\ tx[t].kind \in {"activate", "import"} /\ tx[t].todo = <<>> => Published(t)
    /\ tx[t].kind = "fetch" /\ tx[t].todo = <<>> =>
          Published(t) \/ \A v \in Written(t) : rows[v].status = "none"
    /\ tx[t].kind = "follow" => \A v \in Written(t) : tx[t].write[v].status = rows[v].status
    /\ tx[t].kind = "quarantine" => Written(t) \subseteq {tx[t].target}

ServeInv == RaceInv /\ \A t \in Sessions : ServeOK(t)

LEMMA CourseNames ==
    /\ Courses["idle"] = {<<>>}
    /\ Courses["activate"] = {<<>>, <<"pin">>, <<"unpin", "pin">>, <<"demote", "unpin", "pin">>}
    /\ Courses["follow"] = {<<>>, <<"unpinAll">>}
    /\ Courses["import"] = {<<>>, <<"pinUpsert">>, <<"unpinAll", "pinUpsert">>,
                            <<"demoteAll", "unpinAll", "pinUpsert">>}
    /\ Courses["quarantine"] = {<<>>, <<"setAside">>, <<"look", "setAside">>}
    /\ Courses["fetch"] = FeedTodo
BY DEF Courses

\* What the statement a session is at says of its kind and of what follows.
LEMMA AtStatement ==
    ASSUME TypeOK, NEW t \in Sessions, ServeOK(t), tx[t].todo # <<>>
    PROVE  /\ tx[t].kind # "idle"
           /\ Statement(t) \notin {"read", "download"} => Tail(tx[t].todo) \in Courses[tx[t].kind]
           /\ Tail(tx[t].todo) = <<>> =>
                 \/ tx[t].kind = "activate" /\ Statement(t) = "pin"
                 \/ tx[t].kind = "import" /\ Statement(t) = "pinUpsert"
                 \/ tx[t].kind = "follow" /\ Statement(t) = "unpinAll"
                 \/ tx[t].kind = "quarantine" /\ Statement(t) = "setAside"
                 \/ tx[t].kind = "fetch" /\ Statement(t) \in {"read", "download", "reject", "record", "publish"}
           /\ tx[t].kind = "follow" => Statement(t) = "unpinAll"
           /\ tx[t].kind = "quarantine" => Statement(t) \in {"look", "setAside"}
           /\ Statement(t) = "pin" => tx[t].kind = "activate"
           /\ Statement(t) = "look" => tx[t].kind = "quarantine"
           /\ Statement(t) \in {"read", "download", "check", "record", "reject", "publish"} => tx[t].kind = "fetch"
<1>1. tx[t].kind \in Kinds /\ tx[t].todo \in Courses[tx[t].kind] /\ Statement(t) = Head(tx[t].todo)
    BY DEF TypeOK, Tx, ServeOK, Statement
<1>2. CASE tx[t].kind = "idle"
    BY <1>1, <1>2, CourseNames
<1>3. CASE tx[t].kind = "activate"
    <2>1. CASE tx[t].todo = <<"pin">>
        <3>1. Head(tx[t].todo) = "pin" /\ Tail(tx[t].todo) = <<>>
            BY <2>1
        <3> QED
            BY <1>1, <1>3, <3>1, CourseNames
    <2>2. CASE tx[t].todo = <<"unpin", "pin">>
        <3>1. Head(tx[t].todo) = "unpin" /\ Tail(tx[t].todo) = <<"pin">>
                /\ Tail(tx[t].todo) # <<>>
            BY <2>2
        <3> QED
            BY <1>1, <1>3, <3>1, CourseNames
    <2>3. CASE tx[t].todo = <<"demote", "unpin", "pin">>
        <3>1. Head(tx[t].todo) = "demote" /\ Tail(tx[t].todo) = <<"unpin", "pin">>
                /\ Tail(tx[t].todo) # <<>>
            BY <2>3
        <3> QED
            BY <1>1, <1>3, <3>1, CourseNames
    <2> QED
        BY <1>1, <1>3, <2>1, <2>2, <2>3, CourseNames
<1>4. CASE tx[t].kind = "follow"
    <2>1. CASE tx[t].todo = <<"unpinAll">>
        <3>1. Head(tx[t].todo) = "unpinAll" /\ Tail(tx[t].todo) = <<>>
            BY <2>1
        <3> QED
            BY <1>1, <1>4, <3>1, CourseNames
    <2> QED
        BY <1>1, <1>4, <2>1, CourseNames
<1>5. CASE tx[t].kind = "import"
    <2>1. CASE tx[t].todo = <<"pinUpsert">>
        <3>1. Head(tx[t].todo) = "pinUpsert" /\ Tail(tx[t].todo) = <<>>
            BY <2>1
        <3> QED
            BY <1>1, <1>5, <3>1, CourseNames
    <2>2. CASE tx[t].todo = <<"unpinAll", "pinUpsert">>
        <3>1. Head(tx[t].todo) = "unpinAll" /\ Tail(tx[t].todo) = <<"pinUpsert">>
                /\ Tail(tx[t].todo) # <<>>
            BY <2>2
        <3> QED
            BY <1>1, <1>5, <3>1, CourseNames
    <2>3. CASE tx[t].todo = <<"demoteAll", "unpinAll", "pinUpsert">>
        <3>1. Head(tx[t].todo) = "demoteAll" /\ Tail(tx[t].todo) = <<"unpinAll", "pinUpsert">>
                /\ Tail(tx[t].todo) # <<>>
            BY <2>3
        <3> QED
            BY <1>1, <1>5, <3>1, CourseNames
    <2> QED
        BY <1>1, <1>5, <2>1, <2>2, <2>3, CourseNames
<1>6. CASE tx[t].kind = "quarantine"
    <2>1. CASE tx[t].todo = <<"setAside">>
        <3>1. Head(tx[t].todo) = "setAside" /\ Tail(tx[t].todo) = <<>>
            BY <2>1
        <3> QED
            BY <1>1, <1>6, <3>1, CourseNames
    <2>2. CASE tx[t].todo = <<"look", "setAside">>
        <3>1. Head(tx[t].todo) = "look" /\ Tail(tx[t].todo) = <<"setAside">>
                /\ Tail(tx[t].todo) # <<>>
            BY <2>2
        <3> QED
            BY <1>1, <1>6, <3>1, CourseNames
    <2> QED
        BY <1>1, <1>6, <2>1, <2>2, CourseNames
<1>7. CASE tx[t].kind = "fetch"
    <2>1. CASE tx[t].todo = <<"read">>
        <3>1. Head(tx[t].todo) = "read" /\ Tail(tx[t].todo) = <<>>
            BY <2>1
        <3> QED
            BY <1>1, <1>7, <3>1, CourseNames DEF FeedTodo
    <2>2. CASE tx[t].todo = <<"download">>
        <3>1. Head(tx[t].todo) = "download" /\ Tail(tx[t].todo) = <<>>
            BY <2>2
        <3> QED
            BY <1>1, <1>7, <3>1, CourseNames DEF FeedTodo
    <2>3. CASE tx[t].todo = <<"reject">>
        <3>1. Head(tx[t].todo) = "reject" /\ Tail(tx[t].todo) = <<>>
            BY <2>3
        <3> QED
            BY <1>1, <1>7, <3>1, CourseNames DEF FeedTodo
    <2>4. CASE tx[t].todo = <<"record">>
        <3>1. Head(tx[t].todo) = "record" /\ Tail(tx[t].todo) = <<>>
            BY <2>4
        <3> QED
            BY <1>1, <1>7, <3>1, CourseNames DEF FeedTodo
    <2>5. CASE tx[t].todo = <<"check", "demoteFeed", "publish">>
        <3>1. Head(tx[t].todo) = "check" /\ Tail(tx[t].todo) = <<"demoteFeed", "publish">>
                /\ Tail(tx[t].todo) # <<>>
            BY <2>5
        <3> QED
            BY <1>1, <1>7, <3>1, CourseNames DEF FeedTodo
    <2>6. CASE tx[t].todo = <<"demoteFeed", "publish">>
        <3>1. Head(tx[t].todo) = "demoteFeed" /\ Tail(tx[t].todo) = <<"publish">>
                /\ Tail(tx[t].todo) # <<>>
            BY <2>6
        <3> QED
            BY <1>1, <1>7, <3>1, CourseNames DEF FeedTodo
    <2>7. CASE tx[t].todo = <<"publish">>
        <3>1. Head(tx[t].todo) = "publish" /\ Tail(tx[t].todo) = <<>>
            BY <2>7
        <3> QED
            BY <1>1, <1>7, <3>1, CourseNames DEF FeedTodo
    <2> QED
        BY <1>1, <1>7, <2>1, <2>2, <2>3, <2>4, <2>5, <2>6, <2>7, CourseNames DEF FeedTodo
<1> QED
    BY <1>1, <1>2, <1>3, <1>4, <1>5, <1>6, <1>7 DEF Kinds

LEMMA SameServed ==
    ASSUME NEW u \in Sessions, ServeOK(u), tx'[u] = tx[u], rows' = rows
    PROVE  ServeOK(u)'
BY DEF ServeOK, Written, Published, View, Statement

LEMMA IdleServed ==
    ASSUME NEW t \in Sessions, tx'[t] = Idle
    PROVE  ServeOK(t)'
<1>1. /\ tx'[t].kind = "idle" /\ tx'[t].todo = <<>> /\ tx'[t].found = None
      /\ \A v \in Versions : tx'[t].write[v] = None
    BY IdleType
<1> QED
    BY <1>1, CourseNames DEF ServeOK, Written, Statement

\* A session that starts has written nothing, and activates what it knows.
LEMMA StartServed ==
    ASSUME TypeOK, NEW t \in Sessions, NEW kind \in Kinds \ {"idle"}, NEW v \in Versions, NEW todo,
           StartAs(t, kind, v, todo), rows' = rows, todo \in Courses[kind], todo # <<>>,
           kind = "activate" => Known(v), kind = "fetch" \/ t \in Admins
    PROVE  ServeOK(t)' /\ \A u \in Sessions \ {t} : tx'[u] = tx[u]
<1> DEFINE new == [Idle EXCEPT !.kind = kind, !.target = v, !.todo = todo]
<1>1. tx'[t] = new /\ \A u \in Sessions \ {t} : tx'[u] = tx[u]
    BY DEF StartAs, TypeOK
<1>2. /\ new.kind = kind /\ new.target = v /\ new.todo = todo /\ new.found = None
      /\ \A w \in Versions : new.write[w] = None
    BY IdleType DEF Idle
<1> HIDE DEF new
<1>3. Written(t)' = {} /\ View(t, v)' = rows[v]
    BY <1>1, <1>2 DEF Written, View
<1> QED
    BY <1>1, <1>2, <1>3 DEF ServeOK, Known

LEMMA StartsServed ==
    ASSUME ServeInv, AdminStarts \/ \E t \in Fetchers : FetchRules(t)
    PROVE  \A u \in Sessions : ServeOK(u)'
<1>0. TypeOK /\ \A u \in Sessions : ServeOK(u)
    BY DEF ServeInv, RaceInv, PinInv
<1>1. ASSUME NEW t \in Sessions, NEW kind \in Kinds \ {"idle"}, NEW v \in Versions, NEW todo,
             StartAs(t, kind, v, todo), rows' = rows, todo \in Courses[kind], todo # <<>>,
             kind = "activate" => Known(v), kind = "fetch" \/ t \in Admins
      PROVE  \A u \in Sessions : ServeOK(u)'
    BY <1>0, <1>1, StartServed, SameServed
<1>2. ASSUME NEW t \in Admins, NEW v \in Versions,
             ActivateRule(t, v) \/ FollowFeed(t, v) \/ ImportRule(t, v) \/ QuarantineRule(t, v)
      PROVE  \A u \in Sessions : ServeOK(u)'
    <2>0. t \in Sessions /\ {"activate", "follow", "import", "quarantine"} \subseteq Kinds \ {"idle"}
        BY DEF Sessions, Kinds
    <2>1. ASSUME NEW kind \in Kinds \ {"idle"}, NEW todo \in Courses[kind], Act(t, kind, v, todo),
                 todo # <<>>, kind = "activate" => Known(v)
          PROVE  \A u \in Sessions : ServeOK(u)'
        BY <1>1, <2>0, <2>1 DEF Act
    <2>2. CASE ActivateRule(t, v)
        <3>1. <<"demote", "unpin", "pin">> \in Courses["activate"]
            BY CourseNames
        <3> QED
            BY <2>0, <2>1, <2>2, <3>1 DEF ActivateRule
    <2>3. CASE FollowFeed(t, v)
        <3>1. <<"unpinAll">> \in Courses["follow"]
            BY CourseNames
        <3> QED
            BY <2>0, <2>1, <2>3, <3>1 DEF FollowFeed
    <2>4. CASE ImportRule(t, v)
        <3>1. <<"demoteAll", "unpinAll", "pinUpsert">> \in Courses["import"]
            BY CourseNames
        <3> QED
            BY <2>0, <2>1, <2>4, <3>1 DEF ImportRule
    <2>5. CASE QuarantineRule(t, v)
        <3>1. <<"look", "setAside">> \in Courses["quarantine"]
            BY CourseNames
        <3> QED
            BY <2>0, <2>1, <2>5, <3>1 DEF QuarantineRule
    <2> QED
        BY <1>2, <2>2, <2>3, <2>4, <2>5
<1>3. ASSUME NEW t \in Fetchers, FetchRules(t)
      PROVE  \A u \in Sessions : ServeOK(u)'
    <2>1. /\ <<"read">> \in Courses["fetch"] /\ "fetch" \in Kinds \ {"idle"} /\ t \in Sessions
          /\ AnyVersion \in Versions
        BY <1>0, CourseNames DEF FeedTodo, Kinds, Sessions, TypeOK, AnyVersion
    <2> QED
        BY <1>1, <1>3, <2>1 DEF FetchRules
<1> QED
    BY <1>2, <1>3 DEF AdminStarts

\* A session that reads on, with nothing written but what it had.
LEMMA ReadOnServed ==
    ASSUME ServeInv, NEW t \in Sessions, NEW new, tx' = [tx EXCEPT ![t] = new], rows' = rows,
           new.kind = tx[t].kind, new.write = tx[t].write,
           new.target = tx[t].target \/ (Clean(t) /\ tx[t].kind = "fetch"),
           new.todo \in Courses[tx[t].kind] \ {<<>>},
           new.found = None \/ (/\ new.todo = tx[t].todo /\ new.target = tx[t].target
                                /\ new.found = {v \in Versions : Matches(t, v)})
                            \/ Head(new.todo) \in {"download", "reject", "record", "check"}
    PROVE  \A u \in Sessions : ServeOK(u)'
<1>0. TypeOK /\ (\A u \in Sessions : ServeOK(u)) /\ tx[t] \in Tx
    BY DEF ServeInv, RaceInv, PinInv, TypeOK
<1>1. tx'[t] = new /\ \A u \in Sessions \ {t} : tx'[u] = tx[u]
    BY <1>0 DEF TypeOK
<1>2. Written(t)' = Written(t) /\ \A v \in Versions : View(t, v)' = View(t, v) /\ tx'[t].write[v] = tx[t].write[v]
    BY <1>1 DEF Written, View
<1>3. Statement(t)' = Head(new.todo)
    BY <1>1 DEF Statement
<1>4. ASSUME Statement(t)' \in {"pin", "pinUpsert", "publish"}, tx'[t].found # None
      PROVE  tx'[t].target \in tx'[t].found
    <2>1. /\ new.todo = tx[t].todo /\ new.target = tx[t].target
          /\ new.found = {v \in Versions : Matches(t, v)}
        BY <1>1, <1>3, <1>4
    <2>2. Statement(t) = Statement(t)' /\ tx[t].todo # <<>>
        BY <1>1, <2>1 DEF Statement
    <2>3. tx[t].kind = "activate" => View(t, tx[t].target).status # "none"
        BY <1>0 DEF ServeOK
    <2>4. Statement(t) = "pin" => tx[t].kind = "activate"
        BY <1>0, <2>2, AtStatement
    <2>5. Matches(t, tx[t].target)
        BY <1>4, <2>2, <2>3, <2>4 DEF Matches
    <2> QED
        BY <1>0, <1>1, <2>1, <2>5 DEF Tx
<1>5. ServeOK(t)'
    <2>1. ServeOK(t)
        BY <1>0
    <2>2. tx'[t].kind = tx[t].kind /\ tx'[t].todo = new.todo /\ tx'[t].todo # <<>>
        BY <1>1
    <2>3. tx[t].kind = "activate" \/ tx[t].kind = "quarantine" => tx'[t].target = tx[t].target
        BY <1>1
    <2>4. tx[t].target \in Versions
        BY <1>0 DEF Tx
    <2>5. \A v \in Written(t) : v \in Versions
        BY DEF Written
    <2>6. tx[t].kind = "activate" => View(t, tx[t].target)'.status # "none"
        BY <1>1, <1>2, <2>1, <2>3, <2>4 DEF ServeOK, View
    <2>7. tx'[t].todo \in Courses[tx'[t].kind]
        BY <1>1
    <2>8. \A v \in Written(t)' : tx'[t].write[v] = tx[t].write[v] /\ v \in Written(t)
        BY <1>2, <2>5
    <2>9. tx[t].kind = "quarantine" => Written(t)' \subseteq {tx'[t].target}
        BY <1>2, <2>1, <2>3 DEF ServeOK
    <2>10. tx[t].kind = "follow" => \A v \in Written(t)' : tx'[t].write[v].status = rows'[v].status
        BY <2>1, <2>8 DEF ServeOK
    <2>11. \A v \in Written(t)' : tx'[t].write[v].status # "none"
        BY <2>1, <2>8 DEF ServeOK
    <2>12. tx'[t].kind \notin {"idle", "fetch"} => t \in Admins
        BY <2>1, <2>2 DEF ServeOK
    <2> QED
        BY <1>4, <2>2, <2>6, <2>7, <2>9, <2>10, <2>11, <2>12 DEF ServeOK
<1> QED
    BY <1>0, <1>1, <1>5, SameServed

LEMMA ReadServed ==
    ASSUME ServeInv, NEW t \in Sessions,
           ReadActive(t) \/ Download(t) \/ CheckPin(t) \/ LookAtTarget(t) \/ Begin(t)
    PROVE  \A u \in Sessions : ServeOK(u)'
<1>0. /\ TypeOK /\ (\A u \in Sessions : ServeOK(u)) /\ SessionOK(t) /\ tx[t] \in Tx
      /\ Statement(t) = Head(tx[t].todo) /\ tx[t].todo # <<>>
    BY DEF ServeInv, RaceInv, PinInv, TypeOK, Statement, ReadActive, Download, CheckPin, LookAtTarget,
           Begin, Changes
<1>1. <<"download">> \in Courses["fetch"] \ {<<>>} /\ Head(<<"download">>) = "download"
    BY CourseNames DEF FeedTodo
<1>2. ASSUME tx' = [tx EXCEPT ![t] = Idle], rows' = rows
      PROVE  \A u \in Sessions : ServeOK(u)'
    <2>1. tx'[t] = Idle /\ \A u \in Sessions \ {t} : tx'[u] = tx[u]
        BY <1>0, <1>2 DEF TypeOK
    <2> QED
        BY <1>0, <1>2, <2>1, IdleServed, SameServed
<1>3. ASSUME NEW todo \in Courses[tx[t].kind] \ {<<>>}, Continue(t, todo), rows' = rows
      PROVE  \A u \in Sessions : ServeOK(u)'
    <2> DEFINE new == [tx[t] EXCEPT !.todo = todo, !.found = None]
    <2>1. /\ new.kind = tx[t].kind /\ new.write = tx[t].write /\ new.todo = todo
          /\ new.target = tx[t].target /\ new.found = None
        BY <1>0 DEF Tx
    <2>2. tx' = [tx EXCEPT ![t] = new]
        BY <1>0, <1>3 DEF Continue, TypeOK
    <2> HIDE DEF new
    <2> QED
        BY <1>3, <2>1, <2>2, ReadOnServed
<1>4. CASE ReadActive(t)
    <2>1. tx[t].kind = "fetch"
        BY <1>0, <1>4, AtStatement DEF ReadActive
    <2>2. ASSUME NEW v \in Active,
                 tx' = [tx EXCEPT ![t].todo = <<"download">>, ![t].seen = v, ![t].held = rows[v].pinned]
          PROVE  \A u \in Sessions : ServeOK(u)'
        <3> DEFINE new == [tx[t] EXCEPT !.todo = <<"download">>, !.seen = v, !.held = rows[v].pinned]
        <3>1. /\ new.kind = tx[t].kind /\ new.write = tx[t].write /\ new.todo = <<"download">>
              /\ new.target = tx[t].target
            BY <1>0 DEF Tx
        <3>2. tx' = [tx EXCEPT ![t] = new]
            BY <1>0, <2>2 DEF TypeOK
        <3>3. Head(new.todo) = "download"
            BY <3>1
        <3> HIDE DEF new
        <3> QED
            BY <1>1, <1>4, <2>1, <3>1, <3>2, <3>3, ReadOnServed DEF ReadActive
    <2> QED
        BY <1>1, <1>3, <1>4, <2>1, <2>2 DEF ReadActive
<1>5. CASE Download(t)
    <2>1. tx[t].kind = "fetch"
        BY <1>0, <1>5, AtStatement DEF Download
    <2>2. Clean(t)
        <3>1. tx[t].todo = <<"download">>
            BY <1>0, <1>5, <2>1, Places DEF Download
        <3> QED
            BY <1>0, <2>1, <3>1 DEF SessionOK, FetcherOK, Checked
    <2> DEFINE todo == IF feed \notin Valid THEN <<"reject">>
                       ELSE IF tx[t].held THEN <<"record">> ELSE <<"check", "demoteFeed", "publish">>
               new == [tx[t] EXCEPT !.target = feed, !.todo = todo]
    <2>3. todo \in Courses["fetch"] \ {<<>>} /\ Head(todo) \in {"reject", "record", "check"}
        BY CourseNames DEF FeedTodo
    <2>4. new.kind = tx[t].kind /\ new.write = tx[t].write /\ new.todo = todo
        <3> HIDE DEF todo
        <3> QED
            BY <1>0 DEF Tx
    <2>5. tx' = [tx EXCEPT ![t] = IF feed = tx[t].seen THEN Idle ELSE new]
        BY <1>0, <1>5 DEF Download, TypeOK
    <2> HIDE DEF todo, new
    <2>6. CASE feed = tx[t].seen
        BY <1>2, <1>5, <2>5, <2>6 DEF Download
    <2>7. CASE feed # tx[t].seen
        BY <1>5, <2>1, <2>2, <2>3, <2>4, <2>5, <2>7, ReadOnServed DEF Download
    <2> QED
        BY <2>6, <2>7
<1>6. CASE CheckPin(t)
    <2>1. tx[t].kind = "fetch"
        BY <1>0, <1>6, AtStatement DEF CheckPin
    <2>2. tx[t].todo = <<"check", "demoteFeed", "publish">>
        BY <1>0, <1>6, <2>1, Places DEF CheckPin
    <2>3. Tail(tx[t].todo) \in Courses[tx[t].kind] \ {<<>>}
        BY <2>1, <2>2, Tails, CourseNames DEF FeedTodo
    <2> QED
        BY <1>2, <1>3, <1>6, <2>3 DEF CheckPin
<1>7. CASE LookAtTarget(t)
    <2>1. tx[t].kind = "quarantine" /\ Tail(tx[t].todo) \in Courses[tx[t].kind] /\ Tail(tx[t].todo) # <<>>
        BY <1>0, <1>7, AtStatement DEF LookAtTarget
    <2> QED
        BY <1>2, <1>3, <1>7, <2>1 DEF LookAtTarget
<1>8. CASE Begin(t)
    <2> DEFINE new == [tx[t] EXCEPT !.found = {v \in Versions : Matches(t, v)}]
    <2>1. /\ new.kind = tx[t].kind /\ new.write = tx[t].write /\ new.todo = tx[t].todo
          /\ new.target = tx[t].target /\ new.found = {v \in Versions : Matches(t, v)}
        BY <1>0 DEF Tx
    <2>2. tx' = [tx EXCEPT ![t] = new]
        BY <1>0, <1>8 DEF Begin, TypeOK
    <2>3. tx[t].todo \in Courses[tx[t].kind] \ {<<>>}
        BY <1>0 DEF ServeOK
    <2> HIDE DEF new
    <2> QED
        BY <1>8, <2>1, <2>2, <2>3, ReadOnServed DEF Begin
<1> QED
    BY <1>4, <1>5, <1>6, <1>7, <1>8

\* A statement writes known rows only, and the last one of a course what it promised.
LEMMA ApplyServed ==
    ASSUME ServeInv, NEW t \in Sessions, Apply(t)
    PROVE  \A u \in Sessions : ServeOK(u)'
<1>0. /\ TypeOK /\ (\A u \in Sessions : ServeOK(u)) /\ SessionOK(t) /\ tx[t] \in Tx
      /\ Statement(t) \in Changes /\ tx[t].found # None /\ tx[t].todo # <<>>
    BY DEF ServeInv, RaceInv, PinInv, TypeOK, Apply, Statement, Changes
<1>1. /\ \A u \in Sessions \ {t} : tx'[u] = tx[u]
      /\ tx'[t].kind = tx[t].kind /\ tx'[t].todo = Tail(tx[t].todo) /\ tx'[t].target = tx[t].target
      /\ \A v \in Versions : tx'[t].write[v] = IF v \in tx[t].found /\ Matches(t, v) /\ Writes(t, v)
                                              THEN SetTo(t, v) ELSE tx[t].write[v]
      /\ \A v \in Versions : SetTo(t, v) \in Row /\ SetTo(t, v) # None
    BY <1>0, ApplyEffect
<1>2. tx'[t].found = None /\ rows' = rows
    BY <1>0 DEF Apply, TypeOK, Tx
<1>3. ASSUME NEW v \in Versions, Matches(t, v)
      PROVE  SetTo(t, v).status # "none"
    <2>1. View(t, v) \in Row /\ (View(t, v).pinned => View(t, v).status # "none")
        BY <1>0, ViewType DEF SessionOK
    <2> QED
        BY <1>0, <1>3, <2>1 DEF SetTo, Matches, Changes, Row
<1>4. \A v \in Versions : \/ tx'[t].write[v] = tx[t].write[v]
                          \/ /\ tx'[t].write[v] = SetTo(t, v)
                             /\ v \in tx[t].found /\ Matches(t, v) /\ Writes(t, v)
    BY <1>1
<1>5. \A v \in Written(t)' : tx'[t].write[v].status # "none"
    BY <1>0, <1>3, <1>4 DEF Written, ServeOK
<1>6. tx[t].kind = "activate" => View(t, tx[t].target)'.status # "none"
    <2>1. tx[t].target \in Versions
        BY <1>0 DEF Tx
    <2>2. CASE tx'[t].write[tx[t].target] # None
        BY <1>1, <1>5, <2>1, <2>2 DEF View, Written
    <2>3. CASE tx'[t].write[tx[t].target] = None
        BY <1>0, <1>1, <1>2, <2>1, <2>3 DEF View, ServeOK
    <2> QED
        BY <2>2, <2>3
<1>7. ASSUME Statement(t) \in {"pin", "pinUpsert", "publish"}
      PROVE  Published(t)'
    <2>1. tx[t].target \in Versions /\ tx[t].target \in tx[t].found
        BY <1>0, <1>7 DEF Tx, ServeOK
    <2>2. Statement(t) = "pin" => View(t, tx[t].target).status # "none"
        BY <1>0, AtStatement DEF ServeOK
    <2>3. Matches(t, tx[t].target) /\ Writes(t, tx[t].target)
        BY <1>7, <2>2 DEF Matches, Writes
    <2>4. View(t, tx[t].target) \in Row
        BY <1>0, <2>1, ViewType
    <2>5. SetTo(t, tx[t].target).status = "active"
        BY <1>7, <2>4 DEF SetTo, Row
    <2> QED
        BY <1>1, <2>1, <2>3, <2>5 DEF Published, Written
<1>8. tx'[t].kind \in {"activate", "import"} /\ tx'[t].todo = <<>> => Published(t)'
    BY <1>0, <1>1, <1>7, AtStatement
<1>9. tx'[t].kind = "fetch" /\ tx'[t].todo = <<>> =>
          Published(t)' \/ \A v \in Written(t)' : rows'[v].status = "none"
    <2>1. SUFFICES ASSUME tx[t].kind = "fetch", Statement(t) \in {"reject", "record"}
                   PROVE  \A v \in Written(t)' : rows'[v].status = "none"
        BY <1>0, <1>1, <1>7, AtStatement DEF Changes
    <2>2. tx[t].todo \notin Checked \cup {<<>>}
        BY <1>0, <2>1 DEF Checked, Statement
    <2>3. Clean(t)
        BY <1>0, <2>1, <2>2 DEF SessionOK, FetcherOK
    <2> QED
        BY <1>2, <1>4, <2>1, <2>3 DEF Written, Clean, Writes, View
<1>10. tx'[t].kind = "follow" => \A v \in Written(t)' : tx'[t].write[v].status = rows'[v].status
    <2> SUFFICES ASSUME tx[t].kind = "follow", NEW v \in Written(t)'
                 PROVE  tx'[t].write[v].status = rows[v].status
        BY <1>1, <1>2
    <2>1. Statement(t) = "unpinAll" /\ v \in Versions
        BY <1>0, AtStatement DEF Written
    <2>2. View(t, v) \in Row /\ View(t, v).status = rows[v].status
        BY <1>0, <2>1, ViewType DEF View, ServeOK, Written
    <2>3. SetTo(t, v).status = rows[v].status
        BY <2>1, <2>2 DEF SetTo, Row
    <2> QED
        BY <1>0, <1>4, <2>1, <2>3 DEF Written, ServeOK
<1>11. tx'[t].kind = "quarantine" => Written(t)' \subseteq {tx'[t].target}
    <2> SUFFICES ASSUME tx[t].kind = "quarantine", NEW v \in Written(t)'
                 PROVE  v = tx[t].target
        BY <1>1
    <2>1. Statement(t) = "setAside" /\ v \in Versions
        BY <1>0, AtStatement DEF Written, Changes
    <2>2. Matches(t, v) => v = tx[t].target
        BY <2>1 DEF Matches
    <2> QED
        BY <1>0, <1>4, <2>1, <2>2 DEF Written, ServeOK
<1>12. tx'[t].todo \in Courses[tx'[t].kind] /\ (tx'[t].kind \notin {"idle", "fetch"} => t \in Admins)
    BY <1>0, <1>1, AtStatement DEF Changes, ServeOK
<1>13. ServeOK(t)'
    BY <1>1, <1>2, <1>5, <1>6, <1>8, <1>9, <1>10, <1>11, <1>12 DEF ServeOK
<1> QED
    BY <1>0, <1>1, <1>2, <1>13, SameServed

\* Nobody else's rows change, and no known row becomes unknown.
LEMMA CommitServed ==
    ASSUME ServeInv, NEW t \in Sessions, Commit(t)
    PROVE  \A u \in Sessions : ServeOK(u)'
<1>0. TypeOK /\ (\A u \in Sessions : ServeOK(u)) /\ Exclusive
    BY DEF ServeInv, RaceInv, PinInv
<1>1. /\ \A u \in Sessions \ {t} : tx'[u] = tx[u]
      /\ tx'[t] = Idle
      /\ \A v \in Versions : rows'[v] = View(t, v)
    BY <1>0 DEF Commit, TypeOK
<1>2. ASSUME NEW u \in Sessions \ {t}
      PROVE  ServeOK(u)'
    <2>0. ServeOK(u) /\ tx'[u] = tx[u] /\ tx[u] \in Tx
        BY <1>0, <1>1 DEF TypeOK
    <2>1. \A v \in Written(u) : v \in Versions /\ rows'[v] = rows[v]
        BY <1>0, <1>1 DEF Written, Exclusive, Holders, View
    <2>2. Written(u)' = Written(u) /\ Published(u)' = Published(u) /\ Statement(u)' = Statement(u)
        BY <2>0 DEF Written, Published, Statement
    <2>3. tx[u].kind = "activate" => View(u, tx[u].target)'.status # "none"
        <3>1. tx[u].target \in Versions
            BY <2>0 DEF Tx
        <3>2. CASE tx[u].write[tx[u].target] # None
            BY <2>0, <3>2 DEF View, ServeOK
        <3>3. CASE tx[u].write[tx[u].target] = None
            <4>1. View(u, tx[u].target)' = View(t, tx[u].target)
                BY <1>1, <2>0, <3>1, <3>3 DEF View
            <4>2. tx[u].kind = "activate" => rows[tx[u].target].status # "none"
                BY <2>0, <3>3 DEF View, ServeOK
            <4> QED
                BY <1>0, <3>1, <4>1, <4>2 DEF View, ServeOK, Written
        <3> QED
            BY <3>2, <3>3
    <2> QED
        BY <2>0, <2>1, <2>2, <2>3 DEF ServeOK
<1> QED
    BY <1>1, <1>2, IdleServed

LEMMA ServeStep ==
    ASSUME ServeInv, [Next]_vars
    PROVE  ServeInv'
<1>0. RaceInv' /\ TypeOK /\ \A u \in Sessions : ServeOK(u)
    BY RaceStep DEF ServeInv, RaceInv, PinInv
<1>1. CASE AdminStarts \/ \E t \in Fetchers : FetchRules(t)
    BY <1>0, <1>1, StartsServed DEF ServeInv
<1>2. ASSUME NEW t \in Sessions,
             ReadActive(t) \/ Download(t) \/ CheckPin(t) \/ LookAtTarget(t) \/ Begin(t)
      PROVE  ServeInv'
    BY <1>0, <1>2, ReadServed DEF ServeInv
<1>3. ASSUME NEW t \in Sessions, Apply(t)
      PROVE  ServeInv'
    BY <1>0, <1>3, ApplyServed DEF ServeInv
<1>4. ASSUME NEW t \in Sessions, Abort(t)
      PROVE  ServeInv'
    <2>1. tx'[t] = Idle /\ rows' = rows /\ \A u \in Sessions \ {t} : tx'[u] = tx[u]
        BY <1>0, <1>4 DEF Abort, TypeOK
    <2> QED
        BY <1>0, <2>1, IdleServed, SameServed DEF ServeInv
<1>5. ASSUME NEW t \in Sessions, Commit(t)
      PROVE  ServeInv'
    BY <1>0, <1>5, CommitServed DEF ServeInv
<1>6. CASE UNCHANGED <<rows, tx>>
    BY <1>0, <1>6, SameServed DEF ServeInv
<1> QED
    BY <1>1, <1>2, <1>3, <1>4, <1>5, <1>6 DEF Next, Runs, FeedChanges, vars

LEMMA ServeInit ==
    ASSUME Init
    PROVE  ServeInv
<1>1. \A t \in Sessions : tx[t] = Idle
    BY DEF Init
<1>2. ASSUME NEW t \in Sessions
      PROVE  ServeOK(t)
    <2>1. /\ tx[t].kind = "idle" /\ tx[t].todo = <<>> /\ tx[t].found = None
          /\ \A v \in Versions : tx[t].write[v] = None
        BY <1>1, IdleType
    <2> QED
        BY <2>1, CourseNames DEF ServeOK, Written, Statement
<1> QED
    BY <1>2, RaceInit DEF ServeInv

\* What is published after a commit.
LEMMA CommitServes ==
    ASSUME ServeInv, NEW t \in Sessions, Commit(t), Active # {},
           ~(\E u \in Admins : tx[u].kind = "quarantine" /\ tx[u].target \in Active /\ tx'[u] = Idle)
    PROVE  Active' # {}
<1>0. TypeOK /\ ServeOK(t) /\ tx[t] \in Tx /\ tx[t].kind # "idle" /\ tx[t].todo = <<>>
    BY DEF ServeInv, RaceInv, PinInv, TypeOK, Commit
<1>1. tx'[t] = Idle /\ \A v \in Versions : rows'[v] = View(t, v)
    BY <1>0 DEF Commit, TypeOK
<1>2. CASE Published(t)
    <2>1. tx[t].target \in Versions /\ rows'[tx[t].target].status = "active"
        BY <1>0, <1>1, <1>2 DEF Published, Written, View
    <2> QED
        BY <2>1 DEF Active
<1>3. PICK v \in Versions : rows[v].status = "active"
    BY DEF Active
<1>4. CASE tx[t].kind = "fetch" /\ ~Published(t)
    <2>1. v \notin Written(t)
        BY <1>0, <1>3, <1>4 DEF ServeOK
    <2> QED
        BY <1>1, <1>3, <2>1 DEF Written, View, Active
<1>5. CASE tx[t].kind = "follow"
    <2>1. View(t, v).status = "active"
        BY <1>0, <1>3, <1>5 DEF ServeOK, Written, View
    <2> QED
        BY <1>1, <1>3, <2>1 DEF Active
<1>6. CASE tx[t].kind = "quarantine"
    <2>1. t \in Admins /\ Written(t) \subseteq {tx[t].target}
        BY <1>0, <1>6 DEF ServeOK
    <2>2. v # tx[t].target
        BY <1>1, <1>3, <1>6, <2>1 DEF Active
    <2> QED
        BY <1>1, <1>3, <2>1, <2>2 DEF Written, View, Active
<1>7. tx[t].kind \in {"activate", "import"} => Published(t)
    BY <1>0 DEF ServeOK
<1> QED
    BY <1>0, <1>2, <1>4, <1>5, <1>6, <1>7 DEF Tx, Kinds

\* A profile that is served stays served, through activations, releases,
\* imports and fetches in any order, but for an import into quarantine whose
\* version was published after it had looked.
THEOREM ServedStays == Spec => StaysServed
<1>1. ServeInv /\ [Next]_vars =>
          [Active # {} /\ ~(\E t \in Admins : tx[t].kind = "quarantine" /\ tx[t].target \in Active
                                              /\ tx'[t] = Idle)
              => Active' # {}]_vars
    <2> SUFFICES ASSUME ServeInv, Next, Active # {},
                        ~(\E t \in Admins : tx[t].kind = "quarantine" /\ tx[t].target \in Active
                                            /\ tx'[t] = Idle)
                 PROVE  Active' # {}
        BY DEF vars
    <2>0. TypeOK
        BY DEF ServeInv, RaceInv, PinInv
    <2>1. CASE rows' = rows
        BY <2>1 DEF Active
    <2>2. ASSUME NEW t \in Sessions, Commit(t)
          PROVE  Active' # {}
        BY <2>2, CommitServes
    <2> QED
        BY <2>0, <2>1, <2>2, StartsEffect, ReadEffect
        DEF Next, Runs, Apply, Abort, FeedChanges
<1>2. ServeInv /\ [Next]_vars => ServeInv'
    BY ServeStep
<1> QED
    BY ServeInit, <1>1, <1>2, PTL DEF Spec, StaysServed
=============================================================================
