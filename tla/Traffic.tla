------------------------------- MODULE Traffic --------------------------------
(***************************************************************************)
(* How the panel counts traffic.  A poll of the node keeps the last counter *)
(* of each key and, now and then, a sample of it; node.reconcile writes the *)
(* last counters, too; maintenance turns samples into traffic per bucket    *)
(* before it deletes the old ones.  The three run at the same time in one   *)
(* worker, and any of them can stop between two steps.  Buckets are hours   *)
(* or days: maintenance goes through the same steps for one after the       *)
(* other, and they share nothing but the samples.                           *)
(***************************************************************************)
EXTENDS Integers, FiniteSetsExt

CONSTANTS
    Keys,
    Null,           \* null: no peer, no row
    Size,           \* the length of a bucket
    Keep,           \* how long buckets are kept
    Raw,            \* how long samples are kept
    SampleEvery,    \* an unchanged peer is sampled that often
    MaxSilence,     \* bound: maintenance gets through that often
    MaxTime, MaxBytes, MaxChanges, MaxSyncs    \* bounds

Times == 0 .. MaxTime

ASSUME SizeAssumption == Size \in Nat \ {0}
ASSUME CounterBounds == {Keep, Raw, SampleEvery, MaxSilence, MaxTime, MaxBytes, MaxChanges, MaxSyncs} \subseteq Nat
ASSUME NullAssumption == Null \notin Int

\* Maintenance runs so often that a bucket it has seen the end of is still whole
\* among the samples.  The setting allows a period of a week, as long as samples
\* are kept by default; then this does not hold.
ASSUME PeriodAssumption == MaxSilence + Size <= Raw + 1 /\ Raw <= Keep

VARIABLES
    now,
    peer,       \* the node: the counter of each key's peer
    current,    \* peer_current: the last counter of each key
    samples,    \* peer_samples: per key and time, the counter
    rollups,    \* traffic_rollups: per key and start of a bucket
    snapshot,   \* the poll of the node under way
    sync,       \* the node.reconcile job under way
    pass,       \* the maintenance pass under way
    lastPass,   \* when the last pass began that got through
    changes,    \* bound: peers that come and go
    syncs,      \* bound: reconciles
    passed,     \* history: the traffic of each key
    last,       \* history: the last sample ever stored of each key
    first,      \* history: when the first sample of each key was stored
    recorded,   \* history: per key and start of a bucket, what its samples added
    severed,    \* history: buckets with a sample whose predecessor was gone
    crossed     \* history: reconcile wrote what it read before a poll wrote

trafficVars == <<now, peer, current, samples, rollups, snapshot, sync, pass, lastPass, changes, syncs,
          passed, last, first, recorded, severed, crossed>>
node == <<peer, passed, changes>>
history == <<last, first, recorded, severed, crossed>>

Nothing == [k \in Keys |-> Null]
Never == [k \in Keys |-> [t \in Times |-> Null]]

\* A poll or reconcile is "idle", or has to "read" rows and then to "record" or
\* "write"; seen: the node's counters.
NoPoll == [step |-> "idle", at |-> 0, seen |-> Nothing, rows |-> Nothing]

\* overtaken: a poll wrote since the node was asked.
NoSync == [step |-> "idle", seen |-> Nothing, rows |-> Nothing, overtaken |-> FALSE]

\* A pass is "idle" or at "find", "replace", "samples" or "rollups".
NoPass == [step |-> "idle", at |-> 0, found |-> Never]

Bucket(t) == t - (t % Size)

\* What a sample adds to the one before it; a counter that went down started
\* from zero.
Delta(bytes, before) == IF bytes >= before THEN bytes - before ELSE bytes

\* Of a function on Times.
Total(amounts) ==
    LET upTo[t \in Times] == amounts[t] + (IF t = 0 THEN 0 ELSE upTo[t - 1])
    IN  upTo[MaxTime]

-----------------------------------------------------------------------------
(* The node *)

Transfer(k) ==
    /\ peer[k] # Null /\ passed[k] < MaxBytes
    /\ peer' = [peer EXCEPT ![k] = @ + 1]
    /\ passed' = [passed EXCEPT ![k] = @ + 1]
    /\ UNCHANGED <<now, syncs, current, samples, rollups, snapshot, sync, pass, lastPass, changes, history>>

\* The peer is deleted, created, or its interface restarted.
Reset(k, counter) ==
    /\ peer[k] # counter
    /\ changes < MaxChanges /\ changes' = changes + 1
    /\ peer' = [peer EXCEPT ![k] = counter]
    /\ UNCHANGED <<now, syncs, current, samples, rollups, snapshot, sync, pass, lastPass, passed, history>>

\* Poll, job and pass take less than a tick, and maintenance is not late.
Tick ==
    /\ now < MaxTime /\ now' = now + 1
    /\ snapshot = NoPoll /\ sync = NoSync /\ pass = NoPass
    /\ now - lastPass < MaxSilence
    /\ UNCHANGED <<syncs, peer, current, samples, rollups, snapshot, sync, pass, lastPass, changes, passed, history>>

-----------------------------------------------------------------------------
(* The poll *)

\* Polls are further apart than the clock can tell.
PollAsks ==
    /\ snapshot = NoPoll
    /\ \A k \in Keys : samples[k][now] = Null
    /\ snapshot' = [NoPoll EXCEPT !.step = "read", !.at = now, !.seen = peer]
    /\ UNCHANGED <<now, syncs, node, current, samples, rollups, sync, pass, lastPass, history>>

\* Keys without a peer are to keep the counters of their rows.
PollReads ==
    /\ snapshot.step = "read"
    /\ snapshot' = [snapshot EXCEPT !.step = "record",
                             !.rows = [k \in Keys |-> IF snapshot.seen[k] = Null THEN current[k] ELSE Null]]
    /\ UNCHANGED <<now, syncs, node, current, samples, rollups, sync, pass, lastPass, history>>

Observed(k) == IF snapshot.seen[k] # Null THEN snapshot.seen[k] ELSE snapshot.rows[k]

Sampled(k) == {t \in Times : samples[k][t] # Null}

\* A key is sampled when it has no sample, something but its counters moved, or
\* its last one is old.
Due(k) == Sampled(k) = {} \/ snapshot.at - Max(Sampled(k)) >= SampleEvery

PollRecords(moved) ==
    LET observed == {k \in Keys : Observed(k) # Null}
        stored == {k \in observed : Due(k) \/ k \in moved}
    IN  /\ snapshot.step = "record"
        /\ current' = [k \in Keys |-> IF k \in observed THEN Observed(k) ELSE current[k]]
        /\ samples' = [k \in Keys |-> IF k \in stored THEN [samples[k] EXCEPT ![snapshot.at] = Observed(k)]
                                     ELSE samples[k]]
        /\ recorded' = [k \in Keys |->
               IF k \in stored /\ last[k] # Null
               THEN [recorded[k] EXCEPT ![Bucket(snapshot.at)] = @ + Delta(Observed(k), last[k])]
               ELSE recorded[k]]
        /\ first' = [k \in Keys |-> IF k \in stored /\ last[k] = Null THEN snapshot.at ELSE first[k]]
        /\ last' = [k \in Keys |-> IF k \in stored THEN Observed(k) ELSE last[k]]
        /\ sync' = [sync EXCEPT !.overtaken = sync.step # "idle"]
        /\ snapshot' = NoPoll
        /\ UNCHANGED <<now, syncs, node, rollups, pass, lastPass, severed, crossed>>

\* The node does not answer, or the worker dies; so for the other two.
PollStops ==
    /\ snapshot.step # "idle"
    /\ snapshot' = NoPoll
    /\ UNCHANGED <<now, syncs, node, current, samples, rollups, sync, pass, lastPass, history>>

-----------------------------------------------------------------------------
(* node.reconcile *)

SyncAsks ==
    /\ sync = NoSync
    /\ syncs < MaxSyncs /\ syncs' = syncs + 1
    /\ sync' = [NoSync EXCEPT !.step = "read", !.seen = peer]
    /\ UNCHANGED <<now, node, current, samples, rollups, snapshot, pass, lastPass, history>>

SyncReads ==
    /\ sync.step = "read"
    /\ sync' = [sync EXCEPT !.step = "write",
                             !.rows = [k \in Keys |-> IF sync.seen[k] = Null THEN current[k] ELSE Null]]
    /\ UNCHANGED <<now, syncs, node, current, samples, rollups, snapshot, pass, lastPass, history>>

CompleteNodeReconcile ==
    /\ sync.step = "write"
    /\ current' = [k \in Keys |->
           IF sync.seen[k] # Null THEN sync.seen[k] ELSE IF sync.rows[k] # Null THEN sync.rows[k] ELSE 0]
    /\ crossed' = (crossed \/ sync.overtaken)
    /\ sync' = NoSync
    /\ UNCHANGED <<now, syncs, node, samples, rollups, snapshot, pass, lastPass, last, first, recorded, severed>>

SyncStops ==
    /\ sync.step # "idle"
    /\ sync' = NoSync
    /\ UNCHANGED <<now, syncs, node, current, samples, rollups, snapshot, pass, lastPass, history>>

-----------------------------------------------------------------------------
(* Maintenance *)

RawCutoff == pass.at - Raw

PassStarts ==
    /\ pass = NoPass /\ lastPass < now
    /\ pass' = [NoPass EXCEPT !.step = "find", !.at = now]
    /\ UNCHANGED <<now, syncs, node, current, samples, rollups, snapshot, sync, lastPass, history>>

Before(k, t) == {u \in Sampled(k) : u < t}
Window(k) == {t \in Sampled(k) : t >= RawCutoff}

\* A sample counts from the one before it, be that older than the window.
Added(k, t) == Delta(samples[k][t], samples[k][Max(Before(k, t))])

RollUpSamplesSince ==
    [k \in Keys |-> [start \in Times |->
        LET here == {t \in Window(k) : Bucket(t) = start /\ Before(k, t) # {}}
        IN  IF here = {} THEN Null ELSE Total([t \in Times |-> IF t \in here THEN Added(k, t) ELSE 0])]]

\* Mutant: a bucket of which some samples are gone is rolled up again.
AllBuckets(found) == found

\* A bucket that began before the window stays as it was.
FullBucketsOnly(found) ==
    [k \in Keys |-> [t \in Times |-> IF t >= RawCutoff THEN found[k][t] ELSE Null]]

FindRollups ==
    /\ pass.step = "find"
    /\ pass' = [pass EXCEPT !.step = "replace", !.found = FullBucketsOnly(RollUpSamplesSince)]
    /\ severed' = severed \cup {b \in Keys \X Times :
           \E t \in Window(b[1]) : Bucket(t) = b[2] /\ Before(b[1], t) = {} /\ t # first[b[1]]}
    /\ UNCHANGED <<now, syncs, node, current, samples, rollups, snapshot, sync, lastPass, last, first, recorded, crossed>>

\* Mutant: what is found is added to what is there.
Accumulated(old, found) ==
    [k \in Keys |-> [t \in Times |->
        IF found[k][t] = Null THEN old[k][t]
        ELSE IF old[k][t] = Null THEN found[k][t] ELSE old[k][t] + found[k][t]]]

\* Everything from the first bucket found on is deleted, whosever it is.
Replaced(old, found) ==
    LET starts == {t \in Times : \E k \in Keys : found[k][t] # Null}
        earliest == Min(starts)
    IN  IF starts = {} THEN old
        ELSE [k \in Keys |-> [t \in Times |-> IF t < earliest THEN old[k][t] ELSE found[k][t]]]

ReplaceRollups ==
    /\ pass.step = "replace"
    /\ rollups' = Replaced(rollups, pass.found)
    /\ pass' = [pass EXCEPT !.step = "samples", !.found = Never]
    /\ UNCHANGED <<now, syncs, node, current, samples, snapshot, sync, lastPass, history>>

DeleteSamples ==
    /\ pass.step = "samples"
    /\ samples' = [k \in Keys |-> [t \in Times |-> IF t >= RawCutoff THEN samples[k][t] ELSE Null]]
    /\ pass' = [pass EXCEPT !.step = "rollups"]
    /\ UNCHANGED <<now, syncs, node, current, rollups, snapshot, sync, lastPass, history>>

\* The rest of a pass does not concern traffic.
DeleteRollups ==
    /\ pass.step = "rollups"
    /\ rollups' = [k \in Keys |-> [t \in Times |->
           IF t >= pass.at - Keep THEN rollups[k][t] ELSE Null]]
    /\ lastPass' = pass.at
    /\ pass' = NoPass
    /\ UNCHANGED <<now, syncs, node, current, samples, snapshot, sync, history>>

PassStops ==
    /\ pass.step # "idle"
    /\ pass' = NoPass
    /\ UNCHANGED <<now, syncs, node, current, samples, rollups, snapshot, sync, lastPass, history>>

-----------------------------------------------------------------------------
Node == \E k \in Keys : Transfer(k) \/ Reset(k, Null) \/ Reset(k, 0)
Polls == PollAsks \/ PollReads \/ (\E moved \in SUBSET Keys : PollRecords(moved)) \/ PollStops
Syncs == SyncAsks \/ SyncReads \/ CompleteNodeReconcile \/ SyncStops
Passes == PassStarts \/ FindRollups \/ ReplaceRollups \/ DeleteSamples \/ DeleteRollups \/ PassStops

TrafficNext == Node \/ Tick \/ Polls \/ Syncs \/ Passes

TrafficInit ==
    /\ now = 0
    /\ peer = [k \in Keys |-> 0]
    /\ current = Nothing /\ samples = Never
    /\ rollups = Never
    /\ snapshot = NoPoll /\ sync = NoSync /\ pass = NoPass /\ lastPass = 0
    /\ changes = 0 /\ syncs = 0
    /\ passed = [k \in Keys |-> 0] /\ last = Nothing
    /\ first = Nothing /\ recorded = [k \in Keys |-> [t \in Times |-> 0]] /\ severed = {} /\ crossed = FALSE

TrafficSpec == TrafficInit /\ [][TrafficNext]_trafficVars

-----------------------------------------------------------------------------
(* Properties *)

Bytes(amount) == IF amount = Null THEN 0 ELSE amount
Sum(amounts) == Total([t \in Times |-> Bytes(amounts[t])])

\* No traffic is counted twice, whatever peers come and go and wherever a pass
\* stops, unless a reconcile wrote back counters that a poll had moved on from.
CountedOnce == ~crossed => \A k \in Keys : Sum(rollups[k]) <= passed[k]

\* A bucket the raw samples no longer cover keeps all its samples said, for as
\* long as it is kept, unless the key had been silent for so long that a sample
\* outlived the one it counts from.
SettledAreComplete ==
    \A k \in Keys, start \in Times :
        /\ start < lastPass - Raw /\ start >= now - Keep /\ start = Bucket(start)
        /\ <<k, start>> \notin severed
        => Bytes(rollups[k][start]) = recorded[k][start]
=============================================================================
