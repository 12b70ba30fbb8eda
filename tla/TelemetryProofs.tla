--------------------------- MODULE TelemetryProofs ----------------------------
(***************************************************************************)
(* NodeChanges, for any values, jobs, attempts, requests and deaths: the   *)
(* types, that a success shown is true of the agent unless a death or a    *)
(* restore parted it from .env, and that an outcome recorded is that of    *)
(* the request it ends or of a later one.                                  *)
(*                                                                         *)
(* Traffic, for any keys, times, lengths and counters: that no traffic is  *)
(* counted twice, and that a bucket the samples no longer cover is whole.  *)
(***************************************************************************)
EXTENDS NodeChanges, Traffic, TLAPS, WellFoundedInduction

\* The runner holds one job, and what is pending has an attempt left.
JobHeld ==
    /\ \A j \in Jobs : jobs[j].status = "pending" => jobs[j].attempts < MaxAttempts
    /\ worker.pc # "idle" => worker.job \in Jobs /\ jobs[worker.job].status = "processing"

\* The marker is the latest request; once it has its result, nothing is left of it.
MarkerIsLatest ==
    \A k \in Kinds :
        /\ request[k] # None => pending[k] # None /\ request[k].id <= pending[k].id
        /\ result[k] # None => pending[k] # None /\ result[k].id <= pending[k].id
        /\ script[k].pc # "idle" =>
              /\ script[k].req \in Request
              /\ pending[k] # None /\ script[k].req.id <= pending[k].id
        /\ pending[k] # None => pending[k].id <= ids
        /\ script[k].pc \notin {"idle", "read"} /\ script[k].req.id = pending[k].id => request[k] = None
        /\ result[k] # None /\ result[k].id = pending[k].id =>
              request[k] = None /\ script[k].pc = "idle"

Saved ==
    \A k \in Kinds :
        /\ script[k].pc \in {"saved", "edit", "up", "gate", "undo", "reedit", "reup"} => script[k].saved \in Env
        /\ script[k].pc \in {"edit", "reedit"} => script[k].edit \in Env
        /\ script[k].pc = "edit" => script[k].edit[k] = script[k].req.value

\* .env and the agent part only while a script of that kind is at work ...
EnvIsAgents ==
    \A k \in Kinds \ torn :
        /\ script[k].pc \in {"idle", "read", "check", "saved", "edit", "gate"} => env[k] = agent[k]
        /\ script[k].pc \in {"up", "gate"} => env[k] = script[k].req.value

\* ... so that what the result of the latest request says stays true.
SuccessIsAgents ==
    \A k \in Kinds \ torn :
        result[k] # None /\ result[k].id = pending[k].id /\ result[k].ok => agent[k] = result[k].value

\* Rows and answers are no newer than the marker; an answer is older than the
\* row only if the row was written since.
AnswersInOrder ==
    /\ worker.pc = "posted" => pending[JobKind] # None /\ worker.id <= pending[JobKind].id
    /\ \A k \in Kinds : row[k].id > 0 => pending[k] # None /\ row[k].id <= pending[k].id
    /\ poll # None /\ poll.kind \notin overtaken => poll.id >= row[poll.kind].id

ChangeInv ==
    /\ TypeOK
    /\ JobHeld
    /\ MarkerIsLatest
    /\ Saved
    /\ EnvIsAgents
    /\ SuccessIsAgents
    /\ AnswersInOrder

-----------------------------------------------------------------------------
(* Types *)

Script == [pc : Places, req : Request \cup {None}, saved : Env \cup {None}, edit : Env \cup {None}]
Job == [kind : Kinds, value : Values, attempts : 0 .. MaxAttempts,
        status : {"none", "pending", "processing", "done"}]
Held == [pc : {"idle", "posted", "refused"}, job : Jobs \cup {0}, id : 0 .. MaxRequests]
Row == [state : States, id : 0 .. MaxRequests]
Answer == [kind : Kinds, state : States, id : 0 .. MaxRequests]

LEMMA Constants ==
    /\ IdleScript \in Script /\ IdleScript.pc = "idle"
    /\ IdleWorker \in Held /\ IdleWorker.pc = "idle"
    /\ Done \in Job /\ Done.status = "done"
BY ValuesAssumption, BoundsAssumption
   DEF IdleScript, Script, IdleWorker, Held, Done, Job, Places, Kinds

\* The typing of each variable, in the terms the steps use.
Types ==
    /\ env \in Env /\ agent \in Env
    /\ request \in [Kinds -> Request \cup {None}]
    /\ pending \in [Kinds -> Marker \cup {None}]
    /\ result \in [Kinds -> Outcome \cup {None}]
    /\ script \in [Kinds -> Script]
    /\ lock \in BOOLEAN
    /\ ids \in 0 .. MaxRequests /\ deaths \in 0 .. MaxDeaths
    /\ jobs \in [Jobs -> Job]
    /\ worker \in Held
    /\ row \in [Kinds -> Row]
    /\ poll \in Answer \cup {None}
    /\ torn \in SUBSET Kinds /\ overtaken \in SUBSET Kinds /\ early \in SUBSET Kinds

LEMMA TypesAreTypeOK == TypeOK <=> Types
BY DEF TypeOK, Types, Script, Job, Held, Row, Answer

LEMMA StatusTyped ==
    ASSUME Types, NEW k \in Kinds
    PROVE  /\ Status(k).state \in States
           /\ Status(k).id \in 0 .. MaxRequests
           /\ pending[k] # None => Status(k).id = pending[k].id
           /\ pending[k] = None /\ result[k] = None => Status(k).id = 0
<1>1. CASE pending[k] # None /\ ~ResultIsForPending(k)
    <2>1. pending[k] \in Marker
        BY <1>1 DEF Types
    <2> QED BY <1>1, <2>1, BoundsAssumption DEF Status, States, Marker, Ids
<1>2. CASE ~(pending[k] # None /\ ~ResultIsForPending(k)) /\ result[k] # None
    <2>1. result[k] \in Outcome
        BY <1>2 DEF Types
    <2> QED BY <1>2, <2>1, BoundsAssumption DEF Status, States, Outcome, Ids, ResultIsForPending
<1>3. CASE ~(pending[k] # None /\ ~ResultIsForPending(k)) /\ result[k] = None
    BY <1>3, BoundsAssumption DEF Status, States, ResultIsForPending
<1> QED
    BY <1>1, <1>2, <1>3

\* What the script's steps write into its state, and the results they leave.
LEMMA GotoTyped ==
    ASSUME Types, NEW k \in Kinds, NEW pc \in Places, Goto(k, pc)
    PROVE  /\ script' \in [Kinds -> Script]
           /\ script'[k] = [script[k] EXCEPT !.pc = pc]
           /\ \A o \in Kinds \ {k} : script'[o] = script[o]
BY DEF Types, Goto, Script

LEMMA FinishTyped ==
    ASSUME Types, NEW k \in Kinds, NEW ok \in BOOLEAN, script[k].req \in Request, Finish(k, ok)
    PROVE  /\ script' \in [Kinds -> Script] /\ script'[k] = IdleScript
           /\ result' \in [Kinds -> Outcome \cup {None}]
           /\ result'[k] = [id |-> script[k].req.id, value |-> script[k].req.value, ok |-> ok]
           /\ \A o \in Kinds \ {k} : script'[o] = script[o] /\ result'[o] = result[o]
<1>1. [id |-> script[k].req.id, value |-> script[k].req.value, ok |-> ok] \in Outcome
    BY DEF Request, Outcome
<1> QED
    BY <1>1, Constants DEF Finish, Types

LEMMA PlacesAre ==
    \A pc \in {"idle", "read", "check", "saved", "edit", "up", "gate", "undo", "reedit", "reup"} : pc \in Places
BY DEF Places

-----------------------------------------------------------------------------
LEMMA InitHolds == Init => ChangeInv
<1> SUFFICES ASSUME Init PROVE ChangeInv
    OBVIOUS
<1> USE Constants, ValuesAssumption, BoundsAssumption DEF Init
<1>1. Types
    <2>1. env \in Env /\ agent \in Env
        BY DEF Env
    <2>2. jobs \in [Jobs -> Job] /\ \A j \in Jobs : jobs[j].status = "none"
        BY DEF Job
    <2>3. row \in [Kinds -> Row]
        BY DEF Row, States
    <2>4. script \in [Kinds -> Script] /\ worker \in Held
        OBVIOUS
    <2>5. /\ request \in [Kinds -> Request \cup {None}]
          /\ pending \in [Kinds -> Marker \cup {None}]
          /\ result \in [Kinds -> Outcome \cup {None}]
        OBVIOUS
    <2>6. ids \in 0 .. MaxRequests /\ deaths \in 0 .. MaxDeaths
        OBVIOUS
    <2> QED BY <2>1, <2>2, <2>3, <2>4, <2>5, <2>6 DEF Types
<1>2. JobHeld
    BY DEF Job, JobHeld
<1>3. MarkerIsLatest /\ Saved /\ EnvIsAgents /\ SuccessIsAgents
    BY DEF MarkerIsLatest, Saved, EnvIsAgents, SuccessIsAgents
<1>4. AnswersInOrder
    BY DEF AnswersInOrder
<1> QED
    BY <1>1, <1>2, <1>3, <1>4, TypesAreTypeOK DEF ChangeInv

\* What the panel's steps leave alone, and what they keep.
LEMMA PanelStep ==
    ASSUME ChangeInv,
           \/ \E j \in Jobs, k \in Kinds, v \in Values : AskFor(j, k, v)
           \/ WorkerStep
           \/ \E k \in Kinds : PollStep(k)
    PROVE  ChangeInv'
<1> Types /\ JobHeld /\ MarkerIsLatest /\ Saved /\ EnvIsAgents /\ SuccessIsAgents /\ AnswersInOrder
    BY TypesAreTypeOK DEF ChangeInv
<1> SUFFICES Types' /\ JobHeld' /\ MarkerIsLatest' /\ Saved' /\ EnvIsAgents' /\ SuccessIsAgents'
             /\ AnswersInOrder'
    BY TypesAreTypeOK DEF ChangeInv, TypeOK, Types, Script, Job, Held, Row, Answer
<1> USE BoundsAssumption
<1>1. ASSUME NEW j \in Jobs, NEW k \in Kinds, NEW v \in Values, AskFor(j, k, v)
      PROVE  Types' /\ JobHeld' /\ AnswersInOrder'
    <2>1. jobs' \in [Jobs -> Job] /\ \A i \in Jobs \ {j} : jobs'[i] = jobs[i]
        BY <1>1 DEF AskFor, Types, Job
    <2>2. row' \in [Kinds -> Row] /\ \A o \in Kinds : row'[o].id = row[o].id
        BY <1>1 DEF AskFor, Types, Row, States
    <2>3. worker.pc # "idle" => worker.job # j
        BY <1>1 DEF AskFor, JobHeld
    <2>4. jobs'[j].attempts = 0
        BY <1>1 DEF AskFor, Types
    <2>5. Types'
        BY <1>1, <2>1, <2>2 DEF AskFor, Types, spool, host
    <2>6. JobHeld'
        BY <1>1, <2>1, <2>3, <2>4 DEF AskFor, JobHeld
    <2>7. AnswersInOrder'
        BY <1>1, <2>1, <2>2, <2>3 DEF AskFor, AnswersInOrder, JobKind, JobHeld, spool, Types, Answer
    <2> QED BY <2>5, <2>6, <2>7
<1>2. ASSUME NEW j \in Jobs, Post(j)
      PROVE  Types' /\ JobHeld' /\ MarkerIsLatest' /\ SuccessIsAgents' /\ AnswersInOrder'
    <2> DEFINE k == jobs[j].kind
    <2>1. /\ k \in Kinds /\ jobs[j].status = "pending" /\ jobs[j].attempts < MaxAttempts
          /\ jobs[j].value \in Values
        BY <1>2 DEF Post, Types, Job, JobHeld
    <2>2. /\ jobs' \in [Jobs -> Job] /\ jobs'[j].status = "processing" /\ jobs'[j].kind = k
          /\ \A i \in Jobs \ {j} : jobs'[i] = jobs[i]
        BY <1>2, <2>1 DEF Post, Types, Job
    <2>3. /\ worker' \in Held /\ worker'.job = j
          /\ worker'.pc \in {"posted", "refused"}
        BY <1>2 DEF Post, Held, NextId, Types
    <2>4. JobHeld'
        BY <2>1, <2>2, <2>3 DEF JobHeld
    <2> HIDE DEF k
    <2>5. CASE UNCHANGED <<pending, request, ids>> /\ worker'.pc = "refused"
        BY <1>2, <2>2, <2>3, <2>4, <2>5
        DEF Post, Types, MarkerIsLatest, SuccessIsAgents, AnswersInOrder, host
    <2>6. CASE /\ ids < MaxRequests
               /\ ids' = ids + 1
               /\ pending' = [pending EXCEPT ![k] =
                                 [id |-> ids + 1, value |-> jobs[j].value, expired |-> FALSE]]
               /\ \/ request' = [request EXCEPT ![k] = [id |-> ids + 1, value |-> jobs[j].value]]
                  \/ request' = request
               /\ worker'.pc = "posted" => worker'.id = ids + 1
        <3>1. /\ pending' \in [Kinds -> Marker \cup {None}] /\ pending'[k] # None
              /\ pending'[k].id = ids + 1
              /\ \A o \in Kinds \ {k} : pending'[o] = pending[o]
            <4>1. [id |-> ids + 1, value |-> jobs[j].value, expired |-> FALSE] \in Marker
                BY <2>1, <2>6 DEF Types, Marker, Ids
            <4> QED BY <2>1, <2>6, <4>1, NoneAssumption DEF Types
        <3>2. /\ request' \in [Kinds -> Request \cup {None}]
              /\ request'[k] # None => request'[k].id <= ids + 1
              /\ \A o \in Kinds \ {k} : request'[o] = request[o]
            <4>1. CASE request' = request
                BY <2>1, <4>1 DEF Types, MarkerIsLatest, Marker, Request, Ids
            <4>2. CASE request' = [request EXCEPT ![k] = [id |-> ids + 1, value |-> jobs[j].value]]
                BY <2>1, <2>6, <4>2 DEF Types, Request, Ids
            <4> QED BY <2>6, <4>1, <4>2
        <3>3. UNCHANGED <<result, env, agent, script, lock, deaths, torn, row, poll, overtaken, early>>
            BY <1>2 DEF Post, host
        <3>4. Types'
            BY <2>2, <2>3, <2>6, <3>1, <3>2, <3>3 DEF Types
        <3>5. pending[k] # None => pending[k].id < ids + 1
            BY <2>1 DEF MarkerIsLatest, Types, Marker, Ids
        <3>6. /\ result[k] # None => result[k].id < ids + 1
              /\ script[k].pc # "idle" => script[k].req.id < ids + 1
              /\ row[k].id < ids + 1
            BY <2>1, <3>5 DEF MarkerIsLatest, AnswersInOrder, Types, Marker, Outcome, Row, Request, Ids
        <3>7. MarkerIsLatest'
            <4> SUFFICES ASSUME NEW o \in Kinds
                         PROVE  /\ request'[o] # None => pending'[o] # None /\ request'[o].id <= pending'[o].id
                                /\ result[o] # None => pending'[o] # None /\ result[o].id <= pending'[o].id
                                /\ script[o].pc # "idle" =>
                                      /\ script[o].req \in Request
                                      /\ pending'[o] # None /\ script[o].req.id <= pending'[o].id
                                /\ pending'[o] # None => pending'[o].id <= ids'
                                /\ script[o].pc \notin {"idle", "read"} /\ script[o].req.id = pending'[o].id
                                      => request'[o] = None
                                /\ result[o] # None /\ result[o].id = pending'[o].id =>
                                      request'[o] = None /\ script[o].pc = "idle"
                BY <3>3 DEF MarkerIsLatest
            <4>1. CASE o = k
                BY <2>6, <3>1, <3>2, <3>6, <4>1 DEF MarkerIsLatest, Types, Outcome, Request, Ids
            <4>2. CASE o # k
                <5>1. pending[o] # None => pending[o].id <= ids + 1
                    BY DEF MarkerIsLatest, Types, Marker, Ids
                <5> QED BY <2>6, <3>1, <3>2, <4>2, <5>1 DEF MarkerIsLatest
            <4> QED BY <4>1, <4>2
        <3>8. SuccessIsAgents'
            BY <3>1, <3>3, <3>6, <2>1 DEF SuccessIsAgents, Types, Outcome, Ids
        <3>9. AnswersInOrder'
            BY <2>1, <2>2, <2>3, <2>6, <3>1, <3>3, <3>6 DEF AnswersInOrder, JobKind, Types, Row
        <3> QED BY <2>4, <3>4, <3>7, <3>8, <3>9
    <2> QED BY <1>2, <2>5, <2>6 DEF Post, NextId, k
<1>3. ASSUME Retry
      PROVE  Types' /\ JobHeld' /\ AnswersInOrder'
    <2>1. worker.job \in Jobs
        BY <1>3 DEF Retry, JobHeld
    <2>2. /\ jobs' \in [Jobs -> Job]
          /\ \A j \in Jobs : jobs'[j].status = "pending" => jobs'[j].attempts < MaxAttempts
        BY <1>3, <2>1, Constants DEF Retry, Types, JobHeld, Job
    <2> QED BY <1>3, <2>2, Constants
            DEF Retry, Types, JobHeld, AnswersInOrder, spool, host
<1>4. ASSUME CompleteRequest
      PROVE  Types' /\ JobHeld' /\ AnswersInOrder'
    <2> DEFINE k == JobKind
    <2>1. worker.job \in Jobs /\ k \in Kinds
        BY <1>4 DEF CompleteRequest, JobHeld, JobKind, Types, Job
    <2>2. /\ jobs' \in [Jobs -> Job]
          /\ \A j \in Jobs : jobs'[j].status = "pending" => jobs'[j].attempts < MaxAttempts
        BY <1>4, <2>1, Constants DEF CompleteRequest, Types, JobHeld
    <2>3. /\ row' \in [Kinds -> Row] /\ row'[k].id = worker.id
          /\ \A o \in Kinds \ {k} : row'[o] = row[o]
        BY <1>4, <2>1 DEF CompleteRequest, Types, Row, States, Held
    <2>4. overtaken' \in SUBSET Kinds
        BY <1>4, <2>1 DEF CompleteRequest, Types
    <2>6. early' \in SUBSET Kinds
        BY <1>4 DEF CompleteRequest, Types
    <2>5. AnswersInOrder'
        <3>1. \A o \in Kinds : row'[o].id > 0 => pending[o] # None /\ row'[o].id <= pending[o].id
            BY <1>4, <2>3 DEF CompleteRequest, AnswersInOrder
        <3>2. poll # None /\ poll.kind \notin overtaken' => poll.id >= row'[poll.kind].id
            BY <1>4, <2>3 DEF CompleteRequest, AnswersInOrder, Types, Answer
        <3> QED BY <1>4, <3>1, <3>2, Constants DEF CompleteRequest, AnswersInOrder, spool
    <2> QED BY <1>4, <2>2, <2>3, <2>4, <2>5, <2>6, Constants
            DEF CompleteRequest, Types, JobHeld, spool, host
<1>5. ASSUME NEW k \in Kinds, PollRead(k)
      PROVE  Types' /\ JobHeld' /\ AnswersInOrder'
    <2>1. poll' \in Answer /\ poll'.kind = k /\ poll'.id = Status(k).id
        BY <1>5, StatusTyped DEF PollRead, Answer
    <2>2. Status(k).id >= row[k].id
        <3>1. CASE pending[k] = None
            BY <3>1, StatusTyped DEF AnswersInOrder, MarkerIsLatest, Types, Row
        <3>2. CASE pending[k] # None
            BY <3>2, StatusTyped DEF AnswersInOrder, Types, Row, Marker, Ids
        <3> QED BY <3>1, <3>2
    <2> QED BY <1>5, <2>1, <2>2 DEF PollRead, Types, JobHeld, AnswersInOrder, JobKind, spool, host
<1>6. ASSUME NEW k \in Kinds, PollRecord(k)
      PROVE  Types' /\ JobHeld' /\ AnswersInOrder'
    <2>1. row' \in [Kinds -> Row] /\ \A o \in Kinds : row'[o].id = row[o].id
        BY <1>6 DEF PollRecord, Types, Row, Answer
    <2> QED BY <1>6, <2>1 DEF PollRecord, Types, JobHeld, AnswersInOrder, JobKind, spool, host
<1>7. CASE ~\E j \in Jobs : Post(j)
    <2>1. UNCHANGED <<spool, host, ids>>
        BY <1>7 DEF AskFor, WorkerStep, Retry, CompleteRequest, PollStep, PollRead, PollRecord
    <2> QED BY <1>1, <1>3, <1>4, <1>5, <1>6, <1>7, <2>1
            DEF WorkerStep, PollStep, MarkerIsLatest, Saved, EnvIsAgents, SuccessIsAgents, spool, host
<1>8. CASE \E j \in Jobs : Post(j)
    <2>1. UNCHANGED host
        BY <1>8 DEF Post
    <2> QED BY <1>2, <1>8, <2>1 DEF Saved, EnvIsAgents, host
<1> QED
    BY <1>7, <1>8

-----------------------------------------------------------------------------
(* The host's side: what the panel has does not change *)

HostInv == Types /\ MarkerIsLatest /\ Saved /\ EnvIsAgents /\ SuccessIsAgents

\* The marker keeps its request, though its deadline may pass.
SameMarkers ==
    \A o \in Kinds : /\ pending'[o] # None <=> pending[o] # None
                     /\ pending[o] # None => pending'[o].id = pending[o].id

LEMMA PanelKept ==
    ASSUME JobHeld, AnswersInOrder, Types, UNCHANGED panel, SameMarkers
    PROVE  JobHeld' /\ AnswersInOrder'
<1>1. worker.pc = "posted" => JobKind \in Kinds
    BY DEF JobHeld, JobKind, Types, Job
<1> QED
    BY <1>1 DEF panel, SameMarkers, JobHeld, AnswersInOrder, JobKind

\* The end of a script whose request is consumed.
LEMMA FinishStep ==
    ASSUME HostInv, NEW k \in Kinds, NEW ok \in BOOLEAN, Finish(k, ok),
           UNCHANGED <<request, pending, env, deaths, ids, panel>>,
           lock' \in BOOLEAN, torn' \in SUBSET Kinds, torn \subseteq torn',
           agent' \in {agent, env},
           script[k].pc \notin {"idle", "read"},
           \A o \in Kinds \ torn' : agent'[o] = env[o] \/ (o # k /\ agent' = agent),
           k \notin torn' /\ ok => env[k] = script[k].req.value
    PROVE  HostInv'
<1> USE DEF HostInv
<1>1. script[k].req \in Request /\ request[k] \in Request \cup {None}
    BY DEF MarkerIsLatest, Types
<1>2. /\ script' \in [Kinds -> Script] /\ script'[k] = IdleScript
      /\ result' \in [Kinds -> Outcome \cup {None}]
      /\ result'[k] = [id |-> script[k].req.id, value |-> script[k].req.value, ok |-> ok]
      /\ \A o \in Kinds \ {k} : script'[o] = script[o] /\ result'[o] = result[o]
    BY <1>1, FinishTyped
<1>3. Types'
    BY <1>2 DEF Types, panel
<1>4. MarkerIsLatest'
    BY <1>1, <1>2, Constants DEF MarkerIsLatest
<1>5. Saved'
    BY <1>2, Constants DEF Saved
<1>6. EnvIsAgents'
    BY <1>2, Constants DEF EnvIsAgents
<1>7. SuccessIsAgents'
    <2> SUFFICES ASSUME NEW o \in Kinds \ torn', result'[o] # None, result'[o].id = pending[o].id,
                        result'[o].ok
                 PROVE  agent'[o] = result'[o].value
        BY DEF SuccessIsAgents
    <2>1. CASE o = k
        BY <1>2, <2>1
    <2>2. CASE o # k
        <3>1. script[o].pc = "idle" /\ agent[o] = result[o].value
            BY <1>2, <2>2 DEF MarkerIsLatest, SuccessIsAgents
        <3>2. env[o] = agent[o]
            BY <3>1 DEF EnvIsAgents
        <3> QED BY <1>2, <2>2, <3>1, <3>2
    <2> QED BY <2>1, <2>2
<1> QED
    BY <1>3, <1>4, <1>5, <1>6, <1>7

\* A script that goes on with its request leaves the marker the latest.
LEMMA MarkerKept ==
    ASSUME HostInv, NEW k \in Kinds, UNCHANGED <<pending, result, ids>>,
           \A o \in Kinds \ {k} : script'[o] = script[o] /\ request'[o] = request[o],
           script[k].pc # "idle", script'[k].pc # "idle", script'[k].req = script[k].req,
           request'[k] = None \/ (script[k].pc # "read" /\ request'[k] = request[k])
    PROVE  MarkerIsLatest'
<1> USE DEF HostInv
<1> SUFFICES ASSUME NEW o \in Kinds
             PROVE  /\ request'[o] # None => pending[o] # None /\ request'[o].id <= pending[o].id
                    /\ result[o] # None => pending[o] # None /\ result[o].id <= pending[o].id
                    /\ script'[o].pc # "idle" =>
                          /\ script'[o].req \in Request
                          /\ pending[o] # None /\ script'[o].req.id <= pending[o].id
                    /\ pending[o] # None => pending[o].id <= ids
                    /\ script'[o].pc \notin {"idle", "read"} /\ script'[o].req.id = pending[o].id
                          => request'[o] = None
                    /\ result[o] # None /\ result[o].id = pending[o].id =>
                          request'[o] = None /\ script'[o].pc = "idle"
    BY DEF MarkerIsLatest
<1>1. CASE o = k
    BY <1>1 DEF MarkerIsLatest
<1>2. CASE o # k
    BY <1>2 DEF MarkerIsLatest
<1> QED
    BY <1>1, <1>2

\* What a script remembers, and its part of .env, after a step of its own.
LEMMA SavedKept ==
    ASSUME Saved, NEW k \in Kinds, \A o \in Kinds \ {k} : script'[o] = script[o],
           script'[k].pc \in {"saved", "edit", "up", "gate", "undo", "reedit", "reup"} => script'[k].saved \in Env,
           script'[k].pc \notin {"edit", "reedit"}
    PROVE  Saved'
<1> SUFFICES ASSUME NEW o \in Kinds
             PROVE  /\ script'[o].pc \in {"saved", "edit", "up", "gate", "undo", "reedit", "reup"} => script'[o].saved \in Env
                    /\ script'[o].pc \in {"edit", "reedit"} => script'[o].edit \in Env
                    /\ script'[o].pc = "edit" => script'[o].edit[o] = script'[o].req.value
    BY DEF Saved
<1>1. CASE o = k
    BY <1>1
<1>2. CASE o # k
    BY <1>2 DEF Saved
<1> QED
    BY <1>1, <1>2

LEMMA EnvKept ==
    ASSUME EnvIsAgents, SuccessIsAgents, NEW k \in Kinds, UNCHANGED <<env, agent, torn, result>>,
           \A o \in Kinds : pending'[o] = pending[o],
           \A o \in Kinds \ {k} : script'[o] = script[o],
           script'[k].pc \in {"idle", "read", "check", "saved", "edit", "gate"} /\ k \notin torn => env[k] = agent[k],
           script'[k].pc \notin {"up", "gate"}
    PROVE  EnvIsAgents' /\ SuccessIsAgents'
<1>1. EnvIsAgents'
    <2> SUFFICES ASSUME NEW o \in Kinds \ torn
                 PROVE  /\ script'[o].pc \in {"idle", "read", "check", "saved", "edit", "gate"} => env[o] = agent[o]
                        /\ script'[o].pc \in {"up", "gate"} => env[o] = script'[o].req.value
        BY DEF EnvIsAgents
    <2>1. CASE o = k
        BY <2>1
    <2>2. CASE o # k
        BY <2>2 DEF EnvIsAgents
    <2> QED BY <2>1, <2>2
<1>2. SuccessIsAgents'
    BY DEF SuccessIsAgents
<1> QED
    BY <1>1, <1>2

LEMMA ScriptSteps ==
    ASSUME HostInv, NEW k \in Kinds, ScriptStep(k) \/ Die(k) \/ DeadlinePasses(k)
    PROVE  HostInv' /\ UNCHANGED panel /\ SameMarkers
<1> USE BoundsAssumption, PlacesAre DEF HostInv, SameMarkers
<1> script[k] \in Script /\ env \in Env /\ agent \in Env /\ lock \in BOOLEAN /\ torn \subseteq Kinds
    BY DEF Types
<1>1. CASE ReadRequest(k)
    <2>1. request[k] \in Request
        BY <1>1 DEF ReadRequest, Types
    <2>2. /\ script' \in [Kinds -> Script]
          /\ script'[k] = [IdleScript EXCEPT !.pc = "read", !.req = request[k]]
          /\ \A o \in Kinds \ {k} : script'[o] = script[o]
        BY <1>1, <2>1 DEF ReadRequest, Types, Script, IdleScript
    <2>3. Types' /\ Saved' /\ EnvIsAgents' /\ SuccessIsAgents' /\ UNCHANGED panel /\ UNCHANGED spool
        BY <1>1, <2>2 DEF ReadRequest, Types, Saved, EnvIsAgents, SuccessIsAgents, spool, panel, IdleScript
    <2>4. MarkerIsLatest'
        BY <1>1, <2>1, <2>2, <2>3 DEF ReadRequest, MarkerIsLatest, spool, IdleScript
    <2> QED BY <2>3, <2>4 DEF spool
<1>2. CASE Consume(k)
    <2>1. /\ script' \in [Kinds -> Script] /\ script'[k] = [script[k] EXCEPT !.pc = "check"]
          /\ \A o \in Kinds \ {k} : script'[o] = script[o]
        BY <1>2, GotoTyped DEF Consume
    <2>2. script'[k].pc = "check" /\ script'[k].req = script[k].req
        BY <2>1 DEF Script
    <2>3. /\ request' \in [Kinds -> Request \cup {None}] /\ request'[k] = None
          /\ \A o \in Kinds \ {k} : request'[o] = request[o]
        BY <1>2 DEF Consume, Types
    <2>4. UNCHANGED <<pending, result, env, agent, lock, deaths, torn, panel, ids>>
        BY <1>2 DEF Consume
    <2>5. Types'
        BY <2>1, <2>3, <2>4 DEF Types, panel
    <2>6. MarkerIsLatest'
        <3>1. script[k].pc # "idle" /\ script'[k].pc # "idle"
            BY <1>2, <2>2 DEF Consume
        <3>2. \A o \in Kinds \ {k} : script'[o] = script[o] /\ request'[o] = request[o]
            BY <2>1, <2>3
        <3> HIDE DEF HostInv, SameMarkers
        <3>3. request'[k] = None /\ script'[k].req = script[k].req /\ UNCHANGED <<pending, result, ids>>
            BY <2>2, <2>3, <2>4
        <3> QED BY ONLY HostInv, k \in Kinds, <3>1, <3>2, <3>3, MarkerKept
    <2>7. Saved'
        BY <2>1, <2>2, <2>4 DEF Saved
    <2>8. EnvIsAgents' /\ SuccessIsAgents'
        <3>1. script[k].pc = "read"
            BY <1>2 DEF Consume
        <3>2. k \notin torn => env[k] = agent[k]
            BY <3>1 DEF EnvIsAgents
        <3> QED BY <2>1, <2>2, <2>4, <3>2, EnvKept
    <2> QED BY <2>4, <2>5, <2>6, <2>7, <2>8
<1>3. CASE AlreadyThere(k)
    <2>1. \A o \in Kinds \ torn : agent[o] = env[o] \/ o # k
        BY <1>3 DEF AlreadyThere, EnvIsAgents
    <2> QED BY <1>3, <2>1, FinishStep DEF AlreadyThere
<1>4. CASE Refuse(k)
    <2>1. \A o \in Kinds \ torn : agent[o] = env[o] \/ o # k
        BY <1>4 DEF Refuse, EnvIsAgents
    <2> QED BY <1>4, <2>1, FinishStep DEF Refuse
<1>5. CASE Save(k)
    <2>1. /\ script' \in [Kinds -> Script]
          /\ script'[k].pc = "saved" /\ script'[k].req = script[k].req /\ script'[k].saved = env
          /\ \A o \in Kinds \ {k} : script'[o] = script[o]
        BY <1>5 DEF Save, Script, Types
    <2>2. lock' \in BOOLEAN /\ UNCHANGED <<spool, env, agent, deaths, torn, panel, ids>>
        BY <1>5 DEF Save
    <2>3. Types'
        BY <2>1, <2>2 DEF Types, panel, spool
    <2>4. MarkerIsLatest' /\ Saved'
        BY <1>5, <2>1, <2>2 DEF MarkerIsLatest, Saved, spool, Save
    <2>5. EnvIsAgents' /\ SuccessIsAgents'
        BY <1>5, <2>1, <2>2 DEF EnvIsAgents, SuccessIsAgents, spool, Save
    <2> QED BY <2>2, <2>3, <2>4, <2>5 DEF spool
<1>13. CASE Apply(k) \/ Undo(k)
    <2>1. PICK pc \in {"edit", "reedit"}, value \in Values :
             /\ EditEnv(k, IF pc = "edit" THEN "saved" ELSE "undo", pc, value)
             /\ pc = "edit" => value = script[k].req.value
        <3>1. CASE Apply(k)
            <4>1. script[k].req.value \in Values
                BY <3>1 DEF Apply, EditEnv, MarkerIsLatest, Request
            <4> QED BY <3>1, <4>1 DEF Apply
        <3>2. CASE Undo(k)
            <4>1. script[k].saved[k] \in Values
                BY <3>2 DEF Undo, EditEnv, Saved, Env
            <4> QED BY <3>2, <4>1 DEF Undo
        <3> QED BY <1>13, <3>1, <3>2
    <2> DEFINE file == [env EXCEPT ![k] = value]
    <2>2. file \in Env /\ file[k] = value
        BY DEF Env
    <2>3. script' = [script EXCEPT ![k].pc = pc, ![k].edit = file]
        BY <2>1 DEF EditEnv
    <2>4. /\ script[k].pc \in {"saved", "undo"} /\ (pc = "edit" => script[k].pc = "saved")
          /\ UNCHANGED <<spool, env, agent, lock, deaths, torn, panel, ids>>
        BY <2>1 DEF EditEnv
    <2> HIDE DEF file
    <2>5. /\ script' \in [Kinds -> Script]
          /\ script'[k].pc = pc /\ script'[k].req = script[k].req
          /\ script'[k].saved = script[k].saved /\ script'[k].edit = file
          /\ \A o \in Kinds \ {k} : script'[o] = script[o]
        BY <2>2, <2>3 DEF Types, Script
    <2>6. Types'
        BY <2>4, <2>5 DEF Types, panel, spool
    <2>7. MarkerIsLatest'
        BY <2>4, <2>5 DEF MarkerIsLatest, spool
    <2>8. Saved'
        BY <2>1, <2>2, <2>4, <2>5 DEF Saved
    <2>9. EnvIsAgents' /\ SuccessIsAgents'
        BY <2>4, <2>5 DEF EnvIsAgents, SuccessIsAgents, spool
    <2> QED BY <2>4, <2>6, <2>7, <2>8, <2>9 DEF spool
<1>14. CASE WriteEnv(k) \/ Restore(k)
    <2>1. PICK file \in Env, pc \in {"up", "reup"} :
             /\ ReplaceEnv(k, file, pc)
             /\ script[k].pc \in {"edit", "undo", "reedit"}
             /\ pc = "up" => file[k] = script[k].req.value /\ script[k].pc = "edit"
        BY <1>14 DEF WriteEnv, Restore, Saved
    <2>2. /\ env' = file /\ UNCHANGED <<spool, agent, lock, deaths, panel, ids>>
          /\ torn' = torn \cup {o \in Kinds \ {k} : env'[o] # env[o]}
          /\ script' = [script EXCEPT ![k].pc = pc, ![k].edit = None]
        BY <2>1 DEF ReplaceEnv
    <2>3. /\ script' \in [Kinds -> Script]
          /\ script'[k].pc = pc /\ script'[k].req = script[k].req
          /\ script'[k].saved = script[k].saved
          /\ \A o \in Kinds \ {k} : script'[o] = script[o]
        BY <2>2 DEF Types, Script
    <2>4. Types'
        BY <2>2, <2>3 DEF Types, panel, spool
    <2>5. MarkerIsLatest'
        BY <2>1, <2>2, <2>3 DEF MarkerIsLatest, spool
    <2>6. Saved'
        BY <2>1, <2>2, <2>3 DEF Saved
    <2>7. EnvIsAgents' /\ SuccessIsAgents'
        BY <2>1, <2>2, <2>3 DEF EnvIsAgents, SuccessIsAgents, spool
    <2> QED BY <2>2, <2>4, <2>5, <2>6, <2>7 DEF spool
<1>6. CASE AgentUp(k)
    <2>1. /\ script' \in [Kinds -> Script] /\ script'[k] = [script[k] EXCEPT !.pc = "gate"]
          /\ \A o \in Kinds \ {k} : script'[o] = script[o]
        BY <1>6, GotoTyped DEF AgentUp
    <2>2. /\ script'[k].pc = "gate" /\ script'[k].req = script[k].req
          /\ script'[k].saved = script[k].saved
        BY <2>1 DEF Script
    <2>3. UNCHANGED <<spool, env, lock, deaths, torn, panel, ids>> /\ agent' = env
        BY <1>6 DEF AgentUp
    <2>4. Types'
        BY <2>1, <2>3 DEF Types, panel, spool
    <2>5. MarkerIsLatest'
        BY <1>6, <2>1, <2>2, <2>3, MarkerKept DEF spool, AgentUp
    <2>6. Saved'
        <3>1. script[k].saved \in Env
            BY <1>6 DEF AgentUp, Saved
        <3> QED BY <2>1, <2>2, <3>1, SavedKept
    <2>8. EnvIsAgents'
        <3>1. \A o \in Kinds \ torn : script'[o].pc \in {"up", "gate"} => env[o] = script'[o].req.value
            <4> SUFFICES ASSUME NEW o \in Kinds \ torn, script'[o].pc \in {"up", "gate"}
                         PROVE  env[o] = script'[o].req.value
                OBVIOUS
            <4>1. CASE o = k
                BY <1>6, <2>2, <4>1 DEF EnvIsAgents, AgentUp
            <4>2. CASE o # k
                BY <2>1, <4>2 DEF EnvIsAgents
            <4> QED BY <4>1, <4>2
        <3> QED BY <2>3, <3>1 DEF EnvIsAgents
    <2>7. SuccessIsAgents'
        BY <1>6, <2>3 DEF SuccessIsAgents, MarkerIsLatest, EnvIsAgents, spool
    <2> QED BY <2>3, <2>4, <2>5, <2>6, <2>7, <2>8 DEF spool
<1>7. CASE Healthy(k)
    <2>1. PICK ok \in BOOLEAN : Finish(k, ok)
        BY <1>7 DEF Healthy
    <2>2. lock' \in BOOLEAN
        BY <1>7 DEF Healthy, Unlock
    <2>3. k \notin torn => env[k] = agent[k] /\ env[k] = script[k].req.value
        BY <1>7 DEF Healthy, EnvIsAgents
    <2> QED BY <1>7, <2>1, <2>2, <2>3, FinishStep DEF Healthy
<1>8. CASE Unhealthy(k)
    <2>1. /\ script' \in [Kinds -> Script] /\ script'[k] = [script[k] EXCEPT !.pc = "undo"]
          /\ \A o \in Kinds \ {k} : script'[o] = script[o]
        BY <1>8, GotoTyped DEF Unhealthy
    <2>2. /\ script'[k].pc = "undo" /\ script'[k].req = script[k].req
          /\ script'[k].saved = script[k].saved
        BY <2>1 DEF Script
    <2>3. script[k].pc \in {"up", "gate"} /\ UNCHANGED <<spool, env, agent, lock, deaths, torn, panel, ids>>
        BY <1>8 DEF Unhealthy
    <2>4. Types'
        BY <2>1, <2>3 DEF Types, panel, spool
    <2>5. MarkerIsLatest'
        BY <2>1, <2>2, <2>3, MarkerKept DEF spool
    <2>6. Saved'
        <3>1. script[k].saved \in Env
            BY <2>3 DEF Saved
        <3> QED BY <2>1, <2>2, <3>1, SavedKept
    <2>7. EnvIsAgents' /\ SuccessIsAgents'
        BY <2>1, <2>2, <2>3, EnvKept DEF spool
    <2> QED BY <2>3, <2>4, <2>5, <2>6, <2>7 DEF spool
<1>10. CASE RollBack(k)
    <2>1. \A o \in Kinds \ torn' : agent'[o] = env[o]
        BY <1>10 DEF RollBack
    <2>2. lock' \in BOOLEAN /\ torn' \in SUBSET Kinds /\ torn \subseteq torn'
        BY <1>10 DEF RollBack, Unlock
    <2>3. Finish(k, FALSE) /\ UNCHANGED <<request, pending, env, deaths, ids, panel>>
        BY <1>10 DEF RollBack
    <2>4. agent' \in {agent, env} /\ script[k].pc \notin {"idle", "read"}
        BY <1>10 DEF RollBack
    <2>5. HostInv'
        <3> HIDE DEF HostInv, SameMarkers
        <3>1. FALSE \in BOOLEAN
            OBVIOUS
        <3> QED BY ONLY HostInv, k \in Kinds, <2>1, <2>2, <2>3, <2>4, <3>1, FinishStep
    <2> QED BY <2>3, <2>5
<1>11. CASE Die(k)
    <2>1. /\ script' \in [Kinds -> Script] /\ script'[k] = IdleScript
          /\ \A o \in Kinds \ {k} : script'[o] = script[o]
        BY <1>11, Constants DEF Die, Types
    <2>2. deaths' \in 0 .. MaxDeaths /\ torn' \in SUBSET Kinds /\ torn \subseteq torn'
        BY <1>11 DEF Die, Types
    <2>3. UNCHANGED <<spool, env, agent, lock, panel, ids>>
        BY <1>11 DEF Die
    <2>4. Types'
        BY <2>1, <2>2, <2>3 DEF Types, panel, spool
    <2>5. MarkerIsLatest' /\ Saved'
        BY <2>1, <2>3, Constants DEF MarkerIsLatest, Saved, spool
    <2>6. EnvIsAgents' /\ SuccessIsAgents'
        BY <1>11, <2>1, <2>2, <2>3, Constants DEF EnvIsAgents, SuccessIsAgents, spool, Die
    <2> QED BY <2>3, <2>4, <2>5, <2>6 DEF spool
<1>12. CASE DeadlinePasses(k)
    <2>1. pending[k] \in Marker
        BY <1>12 DEF DeadlinePasses, Types
    <2>2. [pending[k] EXCEPT !.expired = TRUE] \in Marker
        BY <2>1 DEF Marker
    <2>3. /\ pending' \in [Kinds -> Marker \cup {None}]
          /\ pending'[k] # None /\ pending'[k].id = pending[k].id
          /\ \A o \in Kinds \ {k} : pending'[o] = pending[o]
        BY <1>12, <2>1, <2>2, NoneAssumption DEF DeadlinePasses, Types, Marker
    <2>4. SameMarkers
        BY <1>12, <2>3 DEF DeadlinePasses
    <2>5. UNCHANGED <<request, result, host, panel, ids>>
        BY <1>12 DEF DeadlinePasses
    <2>6. Types' /\ Saved' /\ EnvIsAgents'
        BY <2>3, <2>5 DEF Types, Saved, EnvIsAgents, host, panel
    <2>7. MarkerIsLatest'
        BY <2>4, <2>5 DEF MarkerIsLatest, host
    <2>8. SuccessIsAgents'
        BY <2>4, <2>5 DEF SuccessIsAgents, MarkerIsLatest, host
    <2> QED BY <2>4, <2>5, <2>6, <2>7, <2>8
<1> QED
    BY <1>1, <1>2, <1>3, <1>4, <1>5, <1>6, <1>7, <1>8, <1>10, <1>11, <1>12, <1>13, <1>14 DEF ScriptStep

LEMMA NextStep == ChangeInv /\ [Next]_vars => ChangeInv'
<1> SUFFICES ASSUME ChangeInv, [Next]_vars PROVE ChangeInv'
    OBVIOUS
<1>1. CASE \E k \in Kinds : ScriptStep(k) \/ Die(k) \/ DeadlinePasses(k)
    <2>1. HostInv /\ JobHeld /\ AnswersInOrder
        BY TypesAreTypeOK DEF ChangeInv, HostInv
    <2>2. HostInv' /\ UNCHANGED panel /\ SameMarkers
        BY <1>1, <2>1, ScriptSteps
    <2>3. JobHeld' /\ AnswersInOrder'
        BY <2>1, <2>2, PanelKept DEF HostInv
    <2> QED BY <2>2, <2>3
            DEF ChangeInv, HostInv, TypeOK, Types, Script, Job, Held, Row, Answer
<1>2. CASE UNCHANGED vars
    BY <1>2 DEF vars, ChangeInv, TypeOK, JobHeld, MarkerIsLatest, Saved, EnvIsAgents,
                SuccessIsAgents, AnswersInOrder, JobKind
<1> QED
    BY <1>1, <1>2, PanelStep DEF Next

LEMMA InvHolds == Spec => []ChangeInv
BY InitHolds, NextStep, PTL DEF Spec

-----------------------------------------------------------------------------
\* Every variable keeps its type: in particular no job is attempted more often
\* than allowed, and what a script restores is a whole .env.
THEOREM TypeCorrect == Spec => []TypeOK
<1>1. ChangeInv => TypeOK
    BY DEF ChangeInv
<1> QED
    BY <1>1, InvHolds, PTL

\* A success the agent reports of its latest request is true of the agent that
\* runs, whatever the two scripts do to each other's .env, unless torn.
THEOREM SuccessIsTrue == Spec => []SuccessIsTrueUnlessTorn
<1>1. ChangeInv => SuccessIsTrueUnlessTorn
    <2> SUFFICES ASSUME ChangeInv, NEW k \in Kinds \ torn, Status(k).state = "succeeded"
                 PROVE  agent[k] = Status(k).value
        BY DEF SuccessIsTrueUnlessTorn
    <2>1. ~(pending[k] # None /\ ~ResultIsForPending(k)) /\ result[k] # None
        BY DEF Status
    <2>2. pending[k] # None
        BY <2>1 DEF ChangeInv, MarkerIsLatest
    <2> QED BY <2>1, <2>2 DEF Status, ResultIsForPending, ChangeInv, SuccessIsAgents
<1> QED
    BY <1>1, InvHolds, PTL

\* What telemetry records in place of a wait is the outcome of the request the
\* row shows or of a later one, unless that request was recorded after the answer
\* was read, or the row waits for one that is still to be made.
THEOREM OutcomesAreTheRequests == Spec => OutcomeIsTheRequests
<1>1. ChangeInv =>
        [\A k \in Kinds :
            PollRecord(k) /\ poll.state # "waiting" =>
               k \in overtaken \cup early \/ poll.id >= row[k].id]_vars
    BY DEF ChangeInv, AnswersInOrder, PollRecord
<1> QED
    BY <1>1, InvHolds, PTL DEF OutcomeIsTheRequests

-----------------------------------------------------------------------------
(* Traffic: the principle of the least number *)

LEMMA LeastNumber ==
    ASSUME NEW T \in SUBSET Nat, T # {}
    PROVE  \E n \in T : \A m \in T : n <= m
<1> DEFINE R == {p \in Nat \X Nat : p[1] < p[2]}
<1>1. IsWellFoundedOn(R, Nat)
  BY NatLessThanWellFounded DEF OpToRel
<1>2. \A x, y \in Nat : x < y => <<x, y>> \in R
  OBVIOUS
<1> HIDE DEF R
<1>3. PICK n \in T : \A m \in T : <<m, n>> \notin R
  BY <1>1, WFMin
<1>4. ASSUME NEW m \in T PROVE n <= m
  <2>1. m \in Nat /\ n \in Nat
    OBVIOUS
  <2>2. ~(m < n)
    BY <1>2, <1>3, <2>1, Zenon
  <2> QED BY <2>1, <2>2
<1> QED BY <1>4

LEMMA TimeFacts ==
    /\ MaxTime \in Nat /\ Keep \in Nat /\ Raw \in Nat /\ SampleEvery \in Nat /\ MaxSilence \in Nat
    /\ MaxBytes \in Nat /\ MaxChanges \in Nat /\ MaxSyncs \in Nat /\ Size \in Nat /\ Size > 0
    /\ Times \subseteq Nat /\ 0 \in Times /\ Null \notin Nat /\ Null \notin Int
BY SizeAssumption, CounterBounds, NullAssumption DEF Times

-----------------------------------------------------------------------------
(* Totals.  Induction on times is the principle of the least number, on the *)
(* set of times at which what is claimed fails.                             *)

IsPrefix(p, x, n) ==
    /\ p \in [0 .. n -> Int] /\ p[0] = x[0]
    /\ \A t \in 1 .. n : p[t] = x[t] + p[t - 1]

LEMMA PrefixExists ==
    ASSUME NEW x \in [Times -> Int], NEW n \in Times
    PROVE  \E p : IsPrefix(p, x, n)
<1> DEFINE T == {m \in Nat : m \in Times /\ ~\E p : IsPrefix(p, x, m)}
<1> SUFFICES ASSUME T # {} PROVE FALSE
  BY TimeFacts
<1>1. PICK m \in T : \A i \in T : m <= i
  <2>1. T \in SUBSET Nat
    OBVIOUS
  <2> HIDE DEF T
  <2> QED BY <2>1, LeastNumber
<1>2. m \in Nat /\ m \in Times /\ ~\E p : IsPrefix(p, x, m)
  OBVIOUS
<1>3. CASE m = 0
  <2> DEFINE p == [t \in 0 .. 0 |-> x[0]]
  <2>1. x[0] \in Int
    BY TimeFacts
  <2>2. IsPrefix(p, x, 0)
    BY <2>1 DEF IsPrefix
  <2> QED BY <1>2, <1>3, <2>2
<1>4. CASE m # 0
  <2>1. m - 1 \in Nat /\ m - 1 \in Times /\ m - 1 \notin T
    BY <1>1, <1>2, <1>4, TimeFacts DEF Times
  <2>2. PICK q : IsPrefix(q, x, m - 1)
    BY <2>1
  <2> DEFINE p == [t \in 0 .. m |-> IF t = m THEN x[m] + q[m - 1] ELSE q[t]]
  <2>3. x[m] \in Int /\ q[m - 1] \in Int
    BY <1>2, <2>1, <2>2 DEF IsPrefix
  <2>4. p \in [0 .. m -> Int]
    BY <1>2, <2>1, <2>2, <2>3 DEF IsPrefix
  <2>5. p[0] = x[0]
    BY <1>2, <1>4, <2>2 DEF IsPrefix
  <2>6. ASSUME NEW t \in 1 .. m PROVE p[t] = x[t] + p[t - 1]
    <3>1. CASE t = m
      BY <1>2, <1>4, <3>1
    <3>2. CASE t # m
      <4>1. t \in 1 .. m - 1 /\ t \in 0 .. m /\ t - 1 \in 0 .. m /\ t - 1 # m
        BY <1>2, <3>2
      <4>2. q[t] = x[t] + q[t - 1]
        BY <4>1, <2>2 DEF IsPrefix
      <4> QED BY <4>1, <4>2, <3>2
    <3> QED BY <3>1, <3>2
  <2>7. IsPrefix(p, x, m)
    <3> HIDE DEF p
    <3> QED BY <2>4, <2>5, <2>6 DEF IsPrefix
  <2> QED BY <1>2, <2>7
<1> QED BY <1>3, <1>4

LEMMA TotalIsPrefix ==
    ASSUME NEW x \in [Times -> Int]
    PROVE  \E p : IsPrefix(p, x, MaxTime) /\ Total(x) = p[MaxTime]
<1> DEFINE Goes(g) == g = [t \in Times |-> x[t] + (IF t = 0 THEN 0 ELSE g[t - 1])]
           up == CHOOSE g : Goes(g)
<1>1. PICK p : IsPrefix(p, x, MaxTime)
  BY TimeFacts, PrefixExists DEF Times
<1>2. Goes(p)
  <2>1. p \in [Times -> Int] /\ \A t \in Times : p[t] = x[t] + (IF t = 0 THEN 0 ELSE p[t - 1])
    BY <1>1, TimeFacts DEF IsPrefix, Times
  <2> QED BY <2>1
<1>3. Goes(up)
  <2> HIDE DEF Goes
  <2> QED BY <1>2
<1>4. Total(x) = up[MaxTime]
  BY DEF Total
<1> HIDE DEF up
<1>5. \A t \in Times : up[t] = x[t] + (IF t = 0 THEN 0 ELSE up[t - 1])
  BY <1>3
<1>6. \A t \in Times : up[t] = p[t]
  <2> DEFINE T == {t \in Nat : t \in Times /\ up[t] # p[t]}
  <2> SUFFICES ASSUME T # {} PROVE FALSE
    BY TimeFacts
  <2>1. PICK m \in T : \A i \in T : m <= i
    <3>1. T \in SUBSET Nat
      OBVIOUS
    <3> HIDE DEF T
    <3> QED BY <3>1, LeastNumber
  <2>2. m = 0 \/ up[m - 1] = p[m - 1]
    <3>1. CASE m # 0
      <4>1. m - 1 \in Nat /\ m - 1 \in Times /\ m - 1 \notin T
        BY <2>1, <3>1, TimeFacts DEF Times
      <4> QED BY <4>1
    <3> QED BY <3>1
  <2>3. up[m] = p[m]
    <3>1. x[m] \in Int
      OBVIOUS
    <3> QED BY <1>1, <1>5, <2>2, <3>1, TimeFacts DEF IsPrefix, Times
  <2> QED BY <2>3
<1> QED BY <1>1, <1>4, <1>6, TimeFacts DEF Times

LEMMA TotalType ==
    ASSUME NEW x \in [Times -> Int]
    PROVE  Total(x) \in Int
<1>1. PICK p : IsPrefix(p, x, MaxTime) /\ Total(x) = p[MaxTime]
  BY TotalIsPrefix
<1> QED BY <1>1, TimeFacts DEF IsPrefix

\* Where one function is nowhere more than another, neither are their totals;
\* where they differ by d at one time, so do their totals.
LEMMA TotalOrder ==
    ASSUME NEW x \in [Times -> Int], NEW y \in [Times -> Int], \A t \in Times : x[t] <= y[t]
    PROVE  Total(x) <= Total(y)
<1>1. PICK p : IsPrefix(p, x, MaxTime) /\ Total(x) = p[MaxTime]
  BY TotalIsPrefix
<1>2. PICK q : IsPrefix(q, y, MaxTime) /\ Total(y) = q[MaxTime]
  BY TotalIsPrefix
<1>3. \A t \in Times : p[t] <= q[t]
  <2> DEFINE T == {t \in Nat : t \in Times /\ ~(p[t] <= q[t])}
  <2> SUFFICES ASSUME T # {} PROVE FALSE
    BY TimeFacts
  <2>1. PICK m \in T : \A i \in T : m <= i
    <3>1. T \in SUBSET Nat
      OBVIOUS
    <3> HIDE DEF T
    <3> QED BY <3>1, LeastNumber
  <2>2. m = 0 \/ p[m - 1] <= q[m - 1]
    <3>1. CASE m # 0
      <4>1. m - 1 \in Nat /\ m - 1 \in Times /\ m - 1 \notin T
        BY <2>1, <3>1, TimeFacts DEF Times
      <4> QED BY <4>1
    <3> QED BY <3>1
  <2>3. p[m] <= q[m]
    <3>1. x[m] <= y[m] /\ x[m] \in Int /\ y[m] \in Int
      OBVIOUS
    <3>2. CASE m = 0
      BY <1>1, <1>2, <3>1, <3>2 DEF IsPrefix
    <3>3. CASE m # 0
      <4>1. m \in 1 .. MaxTime /\ m - 1 \in 0 .. MaxTime
        BY <3>3, TimeFacts DEF Times
      <4>2. /\ p[m] = x[m] + p[m - 1] /\ q[m] = y[m] + q[m - 1]
            /\ p[m - 1] \in Int /\ q[m - 1] \in Int
        BY <1>1, <1>2, <4>1 DEF IsPrefix
      <4> QED BY <2>2, <3>1, <3>3, <4>2
    <3> QED BY <3>2, <3>3
  <2> QED BY <2>3
<1> QED BY <1>1, <1>2, <1>3, TimeFacts DEF Times

LEMMA TotalChange ==
    ASSUME NEW x \in [Times -> Int], NEW y \in [Times -> Int], NEW at \in Times, NEW d \in Int,
           y[at] = x[at] + d, \A t \in Times \ {at} : y[t] = x[t]
    PROVE  Total(y) = Total(x) + d
<1>1. PICK p : IsPrefix(p, x, MaxTime) /\ Total(x) = p[MaxTime]
  BY TotalIsPrefix
<1>2. PICK q : IsPrefix(q, y, MaxTime) /\ Total(y) = q[MaxTime]
  BY TotalIsPrefix
<1>3. \A t \in Times : q[t] = IF t < at THEN p[t] ELSE p[t] + d
  <2> DEFINE T == {t \in Nat : t \in Times /\ ~(q[t] = IF t < at THEN p[t] ELSE p[t] + d)}
  <2> SUFFICES ASSUME T # {} PROVE FALSE
    BY TimeFacts
  <2>1. PICK m \in T : \A i \in T : m <= i
    <3>1. T \in SUBSET Nat
      OBVIOUS
    <3> HIDE DEF T
    <3> QED BY <3>1, LeastNumber
  <2>2. m = 0 \/ q[m - 1] = IF m - 1 < at THEN p[m - 1] ELSE p[m - 1] + d
    <3>1. CASE m # 0
      <4>1. m - 1 \in Nat /\ m - 1 \in Times /\ m - 1 \notin T
        BY <2>1, <3>1, TimeFacts DEF Times
      <4> QED BY <4>1
    <3> QED BY <3>1
  <2>3. q[m] = IF m < at THEN p[m] ELSE p[m] + d
    <3>1. x[m] \in Int /\ y[m] \in Int /\ y[m] = IF m = at THEN x[m] + d ELSE x[m]
      OBVIOUS
    <3>2. CASE m = 0
      BY <1>1, <1>2, <3>1, <3>2, TimeFacts DEF IsPrefix
    <3>3. CASE m # 0
      <4>1. m \in 1 .. MaxTime /\ m - 1 \in 0 .. MaxTime /\ at \in Nat
        BY <3>3, TimeFacts DEF Times
      <4>2. /\ p[m] = x[m] + p[m - 1] /\ q[m] = y[m] + q[m - 1]
            /\ p[m - 1] \in Int /\ q[m - 1] \in Int
        BY <1>1, <1>2, <4>1 DEF IsPrefix
      <4> QED BY <2>2, <3>1, <3>3, <4>1, <4>2
    <3> QED BY <3>2, <3>3
  <2> QED BY <2>3
<1>4. MaxTime \in Times /\ ~(MaxTime < at) /\ at \in Nat
  BY TimeFacts DEF Times
<1> QED BY <1>1, <1>2, <1>3, <1>4

LEMMA TotalOfNone ==
    ASSUME NEW x \in [Times -> Int], \A t \in Times : x[t] = 0
    PROVE  Total(x) = 0
<1>1. PICK p : IsPrefix(p, x, MaxTime) /\ Total(x) = p[MaxTime]
  BY TotalIsPrefix
<1>2. \A t \in Times : p[t] = 0
  <2> DEFINE T == {t \in Nat : t \in Times /\ p[t] # 0}
  <2> SUFFICES ASSUME T # {} PROVE FALSE
    BY TimeFacts
  <2>1. PICK m \in T : \A i \in T : m <= i
    <3>1. T \in SUBSET Nat
      OBVIOUS
    <3> HIDE DEF T
    <3> QED BY <3>1, LeastNumber
  <2>2. m = 0 \/ p[m - 1] = 0
    <3>1. CASE m # 0
      <4>1. m - 1 \in Nat /\ m - 1 \in Times /\ m - 1 \notin T
        BY <2>1, <3>1, TimeFacts DEF Times
      <4> QED BY <4>1
    <3> QED BY <3>1
  <2>3. p[m] = 0
    <3>1. x[m] = 0
      OBVIOUS
    <3>2. CASE m = 0
      BY <1>1, <3>1, <3>2 DEF IsPrefix
    <3>3. CASE m # 0
      <4>1. m \in 1 .. MaxTime
        BY <3>3, TimeFacts DEF Times
      <4>2. p[m] = x[m] + p[m - 1]
        BY <1>1, <4>1 DEF IsPrefix
      <4> QED BY <2>2, <3>1, <3>3, <4>2
    <3> QED BY <3>2, <3>3
  <2> QED BY <2>3
<1> QED BY <1>1, <1>2, TimeFacts DEF Times

\* The last and the first of some times.
LEMMA MaxOfTimes ==
    ASSUME NEW S \in SUBSET Times, S # {}
    PROVE  Max(S) \in S /\ \A t \in S : t <= Max(S)
<1> DEFINE T == {MaxTime - t : t \in S}
<1>1. T \in SUBSET Nat /\ T # {}
  <2>1. ASSUME NEW t \in S PROVE MaxTime - t \in Nat
    <3>1. t \in 0 .. MaxTime /\ MaxTime \in Nat
      BY TimeFacts DEF Times
    <3> QED BY <3>1
  <2>2. T \subseteq Nat
    BY <2>1
  <2>3. PICK t \in S : TRUE
    OBVIOUS
  <2>4. MaxTime - t \in T
    OBVIOUS
  <2> QED BY <2>2, <2>4
<1>2. PICK n \in T : \A m \in T : n <= m
  <2> HIDE DEF T
  <2> QED BY <1>1, LeastNumber
<1>3. PICK t \in S : n = MaxTime - t
  OBVIOUS
<1>4. \A u \in S : t >= u
  <2> SUFFICES ASSUME NEW u \in S PROVE t >= u
    OBVIOUS
  <2>1. MaxTime - t <= MaxTime - u
    BY <1>2, <1>3
  <2> QED BY <2>1, TimeFacts DEF Times
<1>5. Max(S) \in S /\ \A u \in S : Max(S) >= u
  BY <1>3, <1>4 DEF Max
<1> QED BY <1>5, TimeFacts

LEMMA MinOfTimes ==
    ASSUME NEW S \in SUBSET Times, S # {}
    PROVE  Min(S) \in S /\ \A t \in S : Min(S) <= t
<1>1. PICK n \in S : \A m \in S : n <= m
  BY TimeFacts, LeastNumber
<1> QED BY <1>1 DEF Min

-----------------------------------------------------------------------------
(* The invariant *)

Counters == Nat \cup {Null}

TrafficType ==
    /\ now \in Times /\ lastPass \in Times
    /\ peer \in [Keys -> Counters] /\ current \in [Keys -> Counters] /\ last \in [Keys -> Counters]
    /\ samples \in [Keys -> [Times -> Counters]] /\ rollups \in [Keys -> [Times -> Counters]]
    /\ snapshot \in [step : {"idle", "read", "record"}, at : Times,
                     seen : [Keys -> Counters], rows : [Keys -> Counters]]
    /\ sync \in [step : {"idle", "read", "write"}, seen : [Keys -> Counters], rows : [Keys -> Counters],
                 overtaken : BOOLEAN]
    /\ pass \in [step : {"idle", "find", "replace", "samples", "rollups"}, at : Times,
                 found : [Keys -> [Times -> Counters]]]
    /\ passed \in [Keys -> Nat] /\ first \in [Keys -> Times \cup {Null}]
    /\ recorded \in [Keys -> [Times -> Nat]] /\ crossed \in BOOLEAN

\* What is under way is of this tick, and its time has no sample yet.
OfThisTick ==
    /\ lastPass <= now /\ now - lastPass <= MaxSilence
    /\ pass.step # "idle" => pass.at = now
    /\ snapshot.step # "idle" => snapshot.at = now
    /\ \A k \in Keys : \A t \in Sampled(k) : t <= now /\ (snapshot.step # "idle" => t < now)

\* What a key's rows say of its samples, stored and gone.
LineOf(k) ==
    /\ first[k] = Null <=> last[k] = Null
    /\ current[k] = Null => last[k] = Null
    /\ last[k] = Null => \A t \in Times : recorded[k][t] = 0
    /\ \A t \in Sampled(k) : first[k] # Null /\ first[k] <= t
    /\ first[k] # Null => first[k] < now - Raw \/ first[k] \in Sampled(k)
    /\ Sampled(k) # {} => samples[k][Max(Sampled(k))] = last[k]

\* What v adds to all that is recorded, and the peer to v, has passed.
Gain(v, before) == IF v = Null \/ before = Null THEN 0 ELSE Delta(v, before)
Fits(k, v) == Total(recorded[k]) + Gain(v, last[k]) + Gain(peer[k], v) <= passed[k]

FitsOf(k) ==
    /\ Bytes(peer[k]) <= passed[k]
    /\ Fits(k, current[k])
    /\ snapshot.step = "read" => Fits(k, snapshot.seen[k])
    /\ snapshot.step = "record" => Fits(k, Observed(k))
    /\ sync.step # "idle" /\ ~sync.overtaken => Fits(k, sync.seen[k])
    /\ sync.step = "write" /\ ~sync.overtaken /\ sync.seen[k] = Null => sync.rows[k] = current[k]

\* What the samples there are add to bucket b.
Share(k, b) == [t \in Times |-> IF t \in Sampled(k) /\ Bucket(t) = b /\ Before(k, t) # {} THEN Added(k, t) ELSE 0]

NoMoreThanRecorded(k, b) ==
    /\ Total(Share(k, b)) <= recorded[k][b]
    /\ Bytes(rollups[k][b]) <= recorded[k][b]
    /\ Bytes(pass.found[k][b]) <= recorded[k][b]

Whole(k, b) == \A t \in Sampled(k) : Bucket(t) = b => Before(k, t) # {} \/ t = first[k]

AllOfRecorded(k, b) ==
    /\ b >= now - Raw /\ Whole(k, b) => Total(Share(k, b)) = recorded[k][b]
    /\ pass.step = "replace" /\ b < now - Raw => pass.found[k][b] = Null
    /\ <<k, b>> \notin severed =>
        /\ b >= now - Keep /\ b + Size <= lastPass => Bytes(rollups[k][b]) = recorded[k][b]
        /\ pass.step = "replace" /\ b >= now - Raw /\ b + Size <= now => Bytes(pass.found[k][b]) = recorded[k][b]
        /\ pass.step \in {"samples", "rollups"} /\ b >= now - Keep /\ b + Size <= now
            => Bytes(rollups[k][b]) = recorded[k][b]

TrafficInv ==
    /\ TrafficType /\ OfThisTick
    /\ \A k \in Keys : LineOf(k)
    /\ ~crossed => \A k \in Keys : FitsOf(k)
    /\ \A k \in Keys, b \in Times : NoMoreThanRecorded(k, b) /\ AllOfRecorded(k, b)

-----------------------------------------------------------------------------
(* Counters *)

LEMMA GainFacts ==
    ASSUME NEW v \in Counters, NEW w \in Counters
    PROVE  /\ Gain(v, w) \in Nat /\ Bytes(v) \in Nat
           /\ Gain(v, v) = 0 /\ Gain(v, Null) = 0 /\ Gain(Null, v) = 0
           /\ Gain(v, w) <= Bytes(v)
           /\ v # Null => v + 1 \in Nat /\ Gain(v + 1, w) <= Gain(v, w) + 1
           /\ Gain(0, v) = 0
           /\ v # Null => Bytes(v) = v
BY TimeFacts DEF Counters, Gain, Delta, Bytes

\* What v adds to u, it adds by way of w at the least.
LEMMA GainByWay ==
    ASSUME NEW v \in Counters, NEW w \in Counters, NEW u \in Counters, w # Null
    PROVE  Gain(v, u) <= Gain(v, w) + Gain(w, u)
BY TimeFacts DEF Counters, Gain, Delta

LEMMA BytesTotal ==
    ASSUME NEW x \in [Times -> Nat]
    PROVE  Total(x) \in Nat /\ x \in [Times -> Int]
<1>1. x \in [Times -> Int]
  OBVIOUS
<1> DEFINE zero == [t \in Times |-> 0]
<1>2. zero \in [Times -> Int] /\ \A t \in Times : zero[t] <= x[t] /\ zero[t] = 0
  OBVIOUS
<1>3. Total(zero) = 0
  <2> HIDE DEF zero
  <2> QED BY <1>2, TotalOfNone
<1>4. Total(zero) <= Total(x)
  <2> HIDE DEF zero
  <2> QED BY <1>1, <1>2, TotalOrder
<1> QED BY <1>1, <1>3, <1>4, TotalType

\* The bucket of a time begins at most a bucket's length before it.
LEMMA BucketFacts ==
    ASSUME NEW t \in Times
    PROVE  Bucket(t) \in Times /\ Bucket(t) <= t /\ t < Bucket(t) + Size
<1>1. t \in Nat /\ t <= MaxTime /\ MaxTime \in Nat /\ Size \in Nat /\ Size > 0
  BY TimeFacts DEF Times
<1> DEFINE rest == t % Size
<1>2. rest \in 0 .. Size - 1
  BY <1>1
<1>3. rest <= t
  <2>1. CASE t < Size
    <3>1. rest = t
      BY <1>1, <2>1
    <3> QED BY <1>1, <3>1
  <2>2. CASE t >= Size
    <3> HIDE DEF rest
    <3> QED BY <1>1, <1>2, <2>2
  <2> QED BY <1>1, <2>1, <2>2
<1>4. Bucket(t) = t - rest
  BY DEF Bucket
<1> HIDE DEF rest
<1> QED BY <1>1, <1>2, <1>3, <1>4 DEF Times

-----------------------------------------------------------------------------
(* Types *)

LEMMA TypeStart == TrafficInit => TrafficType
<1> SUFFICES ASSUME TrafficInit PROVE TrafficType
  OBVIOUS
<1>1. 0 \in Times /\ 0 \in Nat /\ Null \in Counters
  BY TimeFacts DEF Counters
<1>2. Nothing \in [Keys -> Counters] /\ Never \in [Keys -> [Times -> Counters]]
  BY <1>1 DEF Nothing, Never
<1>3. [k \in Keys |-> 0] \in [Keys -> Counters]
  BY DEF Counters
<1> QED BY <1>1, <1>2, <1>3 DEF TrafficInit, TrafficType, NoPoll, NoSync, NoPass, Nothing

LEMMA RecordsWell ==
    ASSUME TrafficType
    PROVE  /\ NoPoll \in [step : {"idle", "read", "record"}, at : Times,
                          seen : [Keys -> Counters], rows : [Keys -> Counters]]
           /\ NoSync \in [step : {"idle", "read", "write"}, seen : [Keys -> Counters],
                          rows : [Keys -> Counters], overtaken : BOOLEAN]
           /\ NoPass \in [step : {"idle", "find", "replace", "samples", "rollups"}, at : Times,
                          found : [Keys -> [Times -> Counters]]]
           /\ NoPoll.step = "idle" /\ NoSync.step = "idle" /\ NoPass.step = "idle"
           /\ NoPass.found = Never /\ NoSync.overtaken = FALSE
           /\ Never \in [Keys -> [Times -> Counters]] /\ Null \in Counters
<1>1. 0 \in Times /\ 0 \in Nat /\ Null \in Counters
  BY TimeFacts DEF Counters
<1>2. Nothing \in [Keys -> Counters] /\ Never \in [Keys -> [Times -> Counters]]
  BY <1>1 DEF Nothing, Never
<1> QED BY <1>1, <1>2 DEF NoPoll, NoSync, NoPass

LEMMA SampledFacts ==
    ASSUME TrafficType, NEW k \in Keys
    PROVE  /\ Sampled(k) \in SUBSET Times
           /\ \A t \in Times : Before(k, t) \in SUBSET Sampled(k) /\ Before(k, t) \in SUBSET Times
           /\ \A t \in Sampled(k) : samples[k][t] \in Nat /\ samples[k][t] # Null
           /\ Sampled(k) # {} => /\ Max(Sampled(k)) \in Sampled(k)
                                 /\ \A t \in Sampled(k) : t <= Max(Sampled(k))
           /\ \A t \in Times : Before(k, t) # {} => /\ Max(Before(k, t)) \in Before(k, t)
                                                   /\ \A u \in Before(k, t) : u <= Max(Before(k, t))
<1>1. Sampled(k) \in SUBSET Times
  BY DEF Sampled
<1>2. \A t \in Times : Before(k, t) \in SUBSET Sampled(k) /\ Before(k, t) \in SUBSET Times
  BY <1>1 DEF Before
<1>3. \A t \in Sampled(k) : samples[k][t] \in Nat /\ samples[k][t] # Null
  BY DEF Sampled, TrafficType, Counters
<1>4. Sampled(k) # {} => /\ Max(Sampled(k)) \in Sampled(k)
                         /\ \A t \in Sampled(k) : t <= Max(Sampled(k))
  BY <1>1, MaxOfTimes
<1>5. \A t \in Times : Before(k, t) # {} => /\ Max(Before(k, t)) \in Before(k, t)
                                           /\ \A u \in Before(k, t) : u <= Max(Before(k, t))
  BY <1>2, MaxOfTimes
<1> QED BY <1>1, <1>2, <1>3, <1>4, <1>5

\* A sample adds a number of bytes; so does a bucket.
LEMMA AddedFacts ==
    ASSUME TrafficType, NEW k \in Keys
    PROVE  /\ \A t \in Sampled(k) : Before(k, t) # {} => Added(k, t) \in Nat
           /\ \A b \in Times : Share(k, b) \in [Times -> Nat]
<1>1. ASSUME NEW t \in Sampled(k), Before(k, t) # {} PROVE Added(k, t) \in Nat
  <2>1. t \in Times /\ samples[k][t] \in Nat
    BY SampledFacts
  <2>2. samples[k][Max(Before(k, t))] \in Nat
    BY <1>1, <2>1, SampledFacts
  <2> QED BY <2>1, <2>2 DEF Added, Delta
<1> QED BY <1>1 DEF Share

LEMMA ObservedType ==
    ASSUME TrafficType
    PROVE  \A k \in Keys : Observed(k) \in Counters
BY DEF TrafficType, Observed

LEMMA RollUpType ==
    ASSUME TrafficType
    PROVE  RollUpSamplesSince \in [Keys -> [Times -> Counters]]
<1> SUFFICES ASSUME NEW k \in Keys, NEW b \in Times PROVE RollUpSamplesSince[k][b] \in Counters
  BY DEF RollUpSamplesSince
<1> DEFINE here == {t \in Window(k) : Bucket(t) = b /\ Before(k, t) # {}}
           x == [t \in Times |-> IF t \in here THEN Added(k, t) ELSE 0]
<1>1. RollUpSamplesSince[k][b] = IF here = {} THEN Null ELSE Total(x)
  BY DEF RollUpSamplesSince
<1>2. x \in [Times -> Nat]
  BY AddedFacts DEF Window
<1>3. Total(x) \in Nat
  <2> HIDE DEF x
  <2> QED BY <1>2, BytesTotal
<1> HIDE DEF here, x
<1> QED BY <1>1, <1>3 DEF Counters

LEMMA FullType ==
    ASSUME TrafficType, NEW found \in [Keys -> [Times -> Counters]]
    PROVE  FullBucketsOnly(found) \in [Keys -> [Times -> Counters]]
BY RecordsWell DEF FullBucketsOnly

LEMMA ReplacedType ==
    ASSUME NEW old \in [Keys -> [Times -> Counters]], NEW found \in [Keys -> [Times -> Counters]]
    PROVE  Replaced(old, found) \in [Keys -> [Times -> Counters]]
BY DEF Replaced

LEMMA MoreRecorded ==
    ASSUME NEW r \in [Times -> Nat], NEW b \in Times, NEW d \in Nat
    PROVE  /\ [r EXCEPT ![b] = @ + d] \in [Times -> Nat]
           /\ [r EXCEPT ![b] = @ + d][b] = r[b] + d
           /\ \A t \in Times \ {b} : [r EXCEPT ![b] = @ + d][t] = r[t]
OBVIOUS

LEMMA RecordedType ==
    ASSUME TrafficType, NEW moved \in SUBSET Keys, PollRecords(moved)
    PROVE  recorded' \in [Keys -> [Times -> Nat]]
<1>1. \A k \in Keys : Observed(k) \in Counters /\ last[k] \in Counters
  BY ObservedType DEF TrafficType
<1>2. \A k \in Keys : recorded[k] \in [Times -> Nat]
  BY DEF TrafficType
<1> DEFINE stored == {k \in {i \in Keys : Observed(i) # Null} : Due(k) \/ k \in moved}
<1>3. recorded' = [k \in Keys |->
               IF k \in stored /\ last[k] # Null
               THEN [recorded[k] EXCEPT ![Bucket(snapshot.at)] = @ + Delta(Observed(k), last[k])]
               ELSE recorded[k]]
  BY DEF PollRecords
<1>4. ASSUME NEW k \in Keys, k \in stored, last[k] # Null
      PROVE  [recorded[k] EXCEPT ![Bucket(snapshot.at)] = @ + Delta(Observed(k), last[k])] \in [Times -> Nat]
  <2>1. Delta(Observed(k), last[k]) \in Nat
    BY <1>1, <1>4 DEF Delta, Counters
  <2>2. Bucket(snapshot.at) \in Times
    BY BucketFacts DEF TrafficType
  <2> QED BY <1>2, <2>1, <2>2, MoreRecorded
<1> HIDE DEF stored
<1> QED BY <1>2, <1>3, <1>4

LEMMA TypeStep == TrafficType /\ [TrafficNext]_trafficVars => TrafficType'
<1> SUFFICES ASSUME TrafficType, [TrafficNext]_trafficVars PROVE TrafficType'
  OBVIOUS
<1>1. CASE UNCHANGED trafficVars
  BY <1>1 DEF trafficVars, TrafficType
<1>2. ASSUME NEW k \in Keys, Transfer(k) PROVE TrafficType'
  <2>1. peer' \in [Keys -> Counters] /\ passed' \in [Keys -> Nat]
    BY <1>2 DEF Transfer, TrafficType, Counters
  <2> QED BY <1>2, <2>1 DEF Transfer, TrafficType, history
<1>3. ASSUME NEW k \in Keys, NEW c \in {0, Null}, Reset(k, c) PROVE TrafficType'
  <2>1. c \in Counters
    BY DEF Counters
  <2>2. peer' \in [Keys -> Counters]
    BY <1>3, <2>1 DEF Reset, TrafficType
  <2> QED BY <1>3, <2>2 DEF Reset, TrafficType, history
<1>4. CASE Tick
  <2>1. now' \in Times
    BY <1>4, TimeFacts DEF Tick, TrafficType, Times
  <2> QED BY <1>4, <2>1 DEF Tick, TrafficType, history
<1>5. CASE PollAsks
  <2>1. snapshot' \in [step : {"idle", "read", "record"}, at : Times, seen : [Keys -> Counters], rows : [Keys -> Counters]]
    BY <1>5, RecordsWell DEF PollAsks, TrafficType
  <2> QED BY <1>5, <2>1 DEF PollAsks, TrafficType, node, history
<1>6. CASE PollReads
  <2>1. [k \in Keys |-> IF snapshot.seen[k] = Null THEN current[k] ELSE Null] \in [Keys -> Counters]
    BY RecordsWell DEF TrafficType
  <2>2. snapshot' \in [step : {"idle", "read", "record"}, at : Times, seen : [Keys -> Counters], rows : [Keys -> Counters]]
    BY <1>6, <2>1 DEF PollReads, TrafficType
  <2> QED BY <1>6, <2>2 DEF PollReads, TrafficType, node, history
<1>7. ASSUME NEW moved \in SUBSET Keys, PollRecords(moved) PROVE TrafficType'
  <2>1. \A k \in Keys : Observed(k) \in Counters
    BY ObservedType
  <2>2. current' \in [Keys -> Counters] /\ last' \in [Keys -> Counters]
    BY <1>7, <2>1 DEF PollRecords, TrafficType
  <2>3. samples' \in [Keys -> [Times -> Counters]]
    BY <1>7, <2>1 DEF PollRecords, TrafficType
  <2>4. first' \in [Keys -> Times \cup {Null}]
    BY <1>7 DEF PollRecords, TrafficType
  <2>5. recorded' \in [Keys -> [Times -> Nat]]
    BY <1>7, RecordedType
  <2>6. /\ snapshot' \in [step : {"idle", "read", "record"}, at : Times, seen : [Keys -> Counters], rows : [Keys -> Counters]]
        /\ sync' \in [step : {"idle", "read", "write"}, seen : [Keys -> Counters], rows : [Keys -> Counters], overtaken : BOOLEAN]
    BY <1>7, RecordsWell DEF PollRecords, TrafficType
  <2> QED BY <1>7, <2>2, <2>3, <2>4, <2>5, <2>6 DEF PollRecords, TrafficType, node
<1>8. CASE PollStops
  BY <1>8, RecordsWell DEF PollStops, TrafficType, node, history
<1>9. CASE SyncAsks
  <2>1. sync' \in [step : {"idle", "read", "write"}, seen : [Keys -> Counters], rows : [Keys -> Counters], overtaken : BOOLEAN]
    BY <1>9, RecordsWell DEF SyncAsks, TrafficType
  <2> QED BY <1>9, <2>1 DEF SyncAsks, TrafficType, node, history
<1>10. CASE SyncReads
  <2>1. [k \in Keys |-> IF sync.seen[k] = Null THEN current[k] ELSE Null] \in [Keys -> Counters]
    BY RecordsWell DEF TrafficType
  <2>2. sync' \in [step : {"idle", "read", "write"}, seen : [Keys -> Counters], rows : [Keys -> Counters], overtaken : BOOLEAN]
    BY <1>10, <2>1 DEF SyncReads, TrafficType
  <2> QED BY <1>10, <2>2 DEF SyncReads, TrafficType, node, history
<1>11. CASE CompleteNodeReconcile
  <2>1. current' \in [Keys -> Counters]
    BY <1>11 DEF CompleteNodeReconcile, TrafficType, Counters
  <2> QED BY <1>11, <2>1, RecordsWell DEF CompleteNodeReconcile, TrafficType, node
<1>12. CASE SyncStops
  BY <1>12, RecordsWell DEF SyncStops, TrafficType, node, history
<1>13. CASE PassStarts
  <2>1. pass' \in [step : {"idle", "find", "replace", "samples", "rollups"}, at : Times, found : [Keys -> [Times -> Counters]]]
    BY <1>13, RecordsWell DEF PassStarts, TrafficType
  <2> QED BY <1>13, <2>1 DEF PassStarts, TrafficType, node, history
<1>14. CASE FindRollups
  <2>1. FullBucketsOnly(RollUpSamplesSince) \in [Keys -> [Times -> Counters]]
    BY RollUpType, FullType
  <2>2. pass' \in [step : {"idle", "find", "replace", "samples", "rollups"}, at : Times, found : [Keys -> [Times -> Counters]]]
    BY <1>14, <2>1 DEF FindRollups, TrafficType
  <2> QED BY <1>14, <2>2 DEF FindRollups, TrafficType, node
<1>15. CASE ReplaceRollups
  <2>1. rollups' \in [Keys -> [Times -> Counters]]
    BY <1>15, ReplacedType DEF ReplaceRollups, TrafficType
  <2>2. pass' \in [step : {"idle", "find", "replace", "samples", "rollups"}, at : Times, found : [Keys -> [Times -> Counters]]]
    BY <1>15, RecordsWell DEF ReplaceRollups, TrafficType
  <2> QED BY <1>15, <2>1, <2>2 DEF ReplaceRollups, TrafficType, node, history
<1>16. CASE DeleteSamples
  <2>1. samples' \in [Keys -> [Times -> Counters]]
    BY <1>16, RecordsWell DEF DeleteSamples, TrafficType
  <2>2. pass' \in [step : {"idle", "find", "replace", "samples", "rollups"}, at : Times, found : [Keys -> [Times -> Counters]]]
    BY <1>16 DEF DeleteSamples, TrafficType
  <2> QED BY <1>16, <2>1, <2>2 DEF DeleteSamples, TrafficType, node, history
<1>17. CASE DeleteRollups
  <2>1. rollups' \in [Keys -> [Times -> Counters]]
    BY <1>17, RecordsWell DEF DeleteRollups, TrafficType
  <2>2. lastPass' \in Times
    BY <1>17 DEF DeleteRollups, TrafficType
  <2> QED BY <1>17, <2>1, <2>2, RecordsWell DEF DeleteRollups, TrafficType, node, history
<1>18. CASE PassStops
  BY <1>18, RecordsWell DEF PassStops, TrafficType, node, history
<1> QED BY <1>1, <1>2, <1>3, <1>4, <1>5, <1>6, <1>7, <1>8, <1>9, <1>10, <1>11, <1>12, <1>13, <1>14, <1>15,
           <1>16, <1>17, <1>18 DEF TrafficNext, Node, Polls, Syncs, Passes

-----------------------------------------------------------------------------
(* Samples *)

LEMMA MaxIs ==
    ASSUME NEW S \in SUBSET Times, NEW m \in S, \A t \in S : t <= m
    PROVE  Max(S) = m
<1> DEFINE n == Max(S)
<1>1. n \in S /\ \A t \in S : t <= n
  BY MaxOfTimes
<1> HIDE DEF n
<1>2. n <= m /\ m <= n
  BY <1>1
<1>3. m \in Int /\ n \in Int
  BY <1>1, TimeFacts
<1>4. n = m
  BY <1>2, <1>3
<1> QED BY <1>4 DEF n

\* A poll records of a key nothing, its counters, or its counters and a sample.
Noted(k) ==
    /\ samples'[k] = samples[k] /\ recorded'[k] = recorded[k]
    /\ first'[k] = first[k] /\ last'[k] = last[k]
    /\ IF Observed(k) = Null THEN current'[k] = current[k] ELSE current'[k] = Observed(k)

Stored(k) ==
    /\ Observed(k) \in Nat /\ Observed(k) # Null /\ current'[k] = Observed(k) /\ last'[k] = Observed(k)
    /\ samples'[k][now] = Observed(k)
    /\ \A t \in Times \ {now} : samples'[k][t] = samples[k][t]
    /\ IF last[k] = Null
       THEN recorded'[k] = recorded[k] /\ first'[k] = now
       ELSE /\ recorded'[k] = [recorded[k] EXCEPT ![Bucket(now)] = @ + Delta(Observed(k), last[k])]
            /\ first'[k] = first[k]

LEMMA RecordsEach ==
    ASSUME TrafficType, OfThisTick, NEW moved \in SUBSET Keys, PollRecords(moved), NEW k \in Keys
    PROVE  /\ Noted(k) \/ Stored(k)
           /\ snapshot.step = "record" /\ snapshot.at = now /\ snapshot'.step = "idle"
<1> DEFINE observed == {i \in Keys : Observed(i) # Null}
           stored == {i \in observed : Due(i) \/ i \in moved}
<1>1. snapshot.step = "record" /\ snapshot.at = now /\ snapshot'.step = "idle"
  BY RecordsWell DEF PollRecords, OfThisTick
<1>2. Observed(k) \in Counters
  BY ObservedType
<1>3. /\ current'[k] = IF k \in observed THEN Observed(k) ELSE current[k]
      /\ samples'[k] = IF k \in stored THEN [samples[k] EXCEPT ![now] = Observed(k)] ELSE samples[k]
      /\ recorded'[k] = IF k \in stored /\ last[k] # Null
                        THEN [recorded[k] EXCEPT ![Bucket(now)] = @ + Delta(Observed(k), last[k])]
                        ELSE recorded[k]
      /\ first'[k] = IF k \in stored /\ last[k] = Null THEN now ELSE first[k]
      /\ last'[k] = IF k \in stored THEN Observed(k) ELSE last[k]
  BY <1>1 DEF PollRecords
<1>4. CASE k \notin stored
  <2>1. Noted(k)
    <3>1. k \in observed <=> Observed(k) # Null
      OBVIOUS
    <3> HIDE DEF observed, stored
    <3> QED BY <1>3, <1>4, <3>1 DEF Noted
  <2> QED BY <1>1, <2>1
<1>5. CASE k \in stored
  <2>1. Observed(k) # Null /\ k \in observed
    BY <1>5
  <2>2. Observed(k) \in Nat
    BY <1>2, <2>1 DEF Counters
  <2>3. samples[k] \in [Times -> Counters] /\ now \in Times
    BY DEF TrafficType
  <2> HIDE DEF observed, stored
  <2>4. samples'[k] = [samples[k] EXCEPT ![now] = Observed(k)]
    BY <1>3, <1>5
  <2>5. Stored(k)
    BY <1>3, <1>5, <2>1, <2>2, <2>3, <2>4 DEF Stored
  <2> QED BY <1>1, <2>5
<1> QED BY <1>4, <1>5

LEMMA SampledAfter ==
    ASSUME TrafficType, NEW k \in Keys, Stored(k)
    PROVE  Sampled(k)' = Sampled(k) \cup {now}
BY DEF Sampled, Stored, TrafficType

\* What the deletion of old samples leaves is the end of them.
LEMMA SamplesLeft ==
    ASSUME TrafficType, TrafficType', OfThisTick, DeleteSamples, NEW k \in Keys
    PROVE  /\ Sampled(k)' = {t \in Sampled(k) : t >= now - Raw}
           /\ \A t \in Sampled(k)' : samples'[k][t] = samples[k][t]
           /\ \A t \in Sampled(k)' : Before(k, t)' = {u \in Before(k, t) : u >= now - Raw}
           /\ \A t \in Sampled(k)' : Before(k, t)' # {} => Before(k, t) # {} /\ Added(k, t)' = Added(k, t)
<1>1. pass.at = now /\ RawCutoff = now - Raw
  BY DEF DeleteSamples, OfThisTick, RawCutoff
<1>2. \A t \in Times : samples'[k][t] = IF t >= now - Raw THEN samples[k][t] ELSE Null
  BY <1>1 DEF DeleteSamples
<1>3. Sampled(k)' = {t \in Sampled(k) : t >= now - Raw}
  BY <1>2 DEF Sampled
<1>4. \A t \in Sampled(k)' : samples'[k][t] = samples[k][t] /\ t \in Sampled(k) /\ t \in Times
  BY <1>2, <1>3, SampledFacts
<1>5. \A t \in Sampled(k)' : Before(k, t)' = {u \in Before(k, t) : u >= now - Raw}
  BY <1>3 DEF Before
<1>6. ASSUME NEW t \in Sampled(k)', Before(k, t)' # {}
      PROVE  Before(k, t) # {} /\ Added(k, t)' = Added(k, t)
  <2>1. Before(k, t) # {} /\ Before(k, t) \in SUBSET Times /\ Before(k, t)' \in SUBSET Times
    BY <1>4, <1>5, <1>6, SampledFacts
  <2> DEFINE m == Max(Before(k, t))
  <2>2. m \in Before(k, t) /\ \A u \in Before(k, t) : u <= m
    BY <2>1, MaxOfTimes
  <2>3. m \in Before(k, t)'
    <3>1. PICK u \in Before(k, t)' : TRUE
      BY <1>6
    <3>2. u \in Before(k, t) /\ u >= now - Raw
      BY <1>5, <3>1
    <3>3. u <= m /\ u \in Nat /\ m \in Nat /\ now \in Nat
      BY <2>1, <2>2, <3>2, TimeFacts DEF TrafficType
    <3> HIDE DEF m
    <3>4. m >= now - Raw
      BY <3>2, <3>3, TimeFacts
    <3> QED BY <1>5, <2>2, <3>4
  <2>4. \A u \in Before(k, t)' : u <= m
    BY <1>5, <2>2
  <2>5. Max(Before(k, t)') = m
    <3> HIDE DEF m
    <3> QED BY <2>1, <2>3, <2>4, MaxIs
  <2>6. m \in Sampled(k)'
    BY <2>3 DEF Before
  <2>7. samples'[k][m] = samples[k][m] /\ samples'[k][t] = samples[k][t]
    BY <1>4, <2>6
  <2>8. Max(Before(k, t))' = m
    BY <2>5
  <2>9. Added(k, t)' = Delta(samples'[k][t], samples'[k][m])
    BY <2>8 DEF Added, Delta
  <2> QED BY <2>1, <2>7, <2>9 DEF Added
<1> QED BY <1>3, <1>4, <1>5, <1>6

-----------------------------------------------------------------------------
(* What is under way, and the line of a key *)

LEMMA ThisTickStep ==
    ASSUME TrafficType, TrafficType', OfThisTick, [TrafficNext]_trafficVars
    PROVE  OfThisTick'
<1>0. now \in Nat /\ now' \in Nat /\ lastPass \in Nat /\ MaxSilence \in Nat
  BY TimeFacts DEF TrafficType
<1>1. CASE UNCHANGED <<now, lastPass, samples, snapshot, pass>>
  BY <1>1 DEF OfThisTick, Sampled
<1>2. CASE Tick
  <2>1. snapshot'.step = "idle" /\ pass'.step = "idle" /\ now' = now + 1 /\ now - lastPass < MaxSilence
        /\ lastPass' = lastPass /\ samples' = samples
    BY <1>2, RecordsWell DEF Tick
  <2>2. \A k \in Keys : Sampled(k)' = Sampled(k)
    BY <2>1 DEF Sampled
  <2>3. ASSUME NEW k \in Keys, NEW t \in Sampled(k) PROVE t <= now'
    <3>1. t \in Nat /\ t <= now
      BY SampledFacts, TimeFacts DEF OfThisTick
    <3> QED BY <1>0, <2>1, <3>1
  <2> QED BY <1>0, <2>1, <2>2, <2>3 DEF OfThisTick
<1>3. CASE PollAsks
  <2>1. /\ snapshot'.step = "read" /\ snapshot'.at = now /\ UNCHANGED <<now, lastPass, samples, pass>>
        /\ \A k \in Keys : samples[k][now] = Null
    BY <1>3 DEF PollAsks, NoPoll
  <2>2. ASSUME NEW k \in Keys, NEW t \in Sampled(k)' PROVE t <= now /\ t < now
    <3>1. t \in Sampled(k) /\ t # now
      BY <2>1 DEF Sampled
    <3>2. t <= now /\ t \in Nat
      BY <3>1, SampledFacts, TimeFacts DEF OfThisTick
    <3> QED BY <1>0, <3>1, <3>2
  <2> QED BY <2>1, <2>2 DEF OfThisTick
<1>4. CASE PollReads
  <2>1. snapshot.step = "read" /\ snapshot'.at = snapshot.at /\ UNCHANGED <<now, lastPass, samples, pass>>
    BY <1>4 DEF PollReads, TrafficType
  <2> QED BY <2>1 DEF OfThisTick, Sampled
<1>5. ASSUME NEW moved \in SUBSET Keys, PollRecords(moved) PROVE OfThisTick'
  <2>1. UNCHANGED <<now, lastPass, pass>>
    BY <1>5 DEF PollRecords
  <2>2. snapshot'.step = "idle"
    BY <1>5, RecordsWell DEF PollRecords
  <2>3. ASSUME NEW k \in Keys, NEW t \in Sampled(k)' PROVE t <= now'
    <3>1. CASE Noted(k)
      <4>1. t \in Sampled(k)
        BY <3>1 DEF Noted, Sampled
      <4> QED BY <2>1, <4>1 DEF OfThisTick
    <3>2. CASE Stored(k)
      <4>1. t \in Sampled(k) \/ t = now
        BY <3>2, SampledAfter
      <4> QED BY <1>0, <2>1, <4>1 DEF OfThisTick
    <3> QED BY <1>5, <3>1, <3>2, RecordsEach
  <2> QED BY <2>1, <2>2, <2>3 DEF OfThisTick
<1>6. CASE PollStops
  <2>1. snapshot'.step = "idle" /\ UNCHANGED <<now, lastPass, samples, pass>>
    BY <1>6, RecordsWell DEF PollStops
  <2> QED BY <2>1 DEF OfThisTick, Sampled
<1>7. CASE PassStarts
  <2>1. pass'.at = now /\ UNCHANGED <<now, lastPass, samples, snapshot>>
    BY <1>7 DEF PassStarts, NoPass
  <2> QED BY <2>1 DEF OfThisTick, Sampled
<1>8. CASE FindRollups \/ ReplaceRollups
  <2>1. pass.step # "idle" /\ pass'.at = pass.at /\ UNCHANGED <<now, lastPass, samples, snapshot>>
    BY <1>8 DEF FindRollups, ReplaceRollups, TrafficType
  <2> QED BY <2>1 DEF OfThisTick, Sampled
<1>9. CASE DeleteSamples
  <2>1. pass.step # "idle" /\ pass'.at = pass.at /\ UNCHANGED <<now, lastPass, snapshot>>
    BY <1>9 DEF DeleteSamples, TrafficType
  <2>2. \A k \in Keys : \A t \in Sampled(k)' : t \in Sampled(k)
    BY <1>9, SamplesLeft
  <2> QED BY <2>1, <2>2 DEF OfThisTick
<1>10. CASE DeleteRollups
  <2>1. pass'.step = "idle" /\ lastPass' = now /\ UNCHANGED <<now, samples, snapshot>>
    BY <1>10, RecordsWell DEF DeleteRollups, OfThisTick
  <2> QED BY <1>0, <2>1 DEF OfThisTick, Sampled
<1>11. CASE PassStops
  <2>1. pass'.step = "idle" /\ UNCHANGED <<now, lastPass, samples, snapshot>>
    BY <1>11, RecordsWell DEF PassStops
  <2> QED BY <2>1 DEF OfThisTick, Sampled
<1>12. ASSUME NEW k \in Keys, Transfer(k) PROVE OfThisTick'
  BY <1>1, <1>12 DEF Transfer
<1>13. ASSUME NEW k \in Keys, NEW c \in {0, Null}, Reset(k, c) PROVE OfThisTick'
  BY <1>1, <1>13 DEF Reset
<1>14. CASE Syncs
  BY <1>1, <1>14 DEF Syncs, SyncAsks, SyncReads, CompleteNodeReconcile, SyncStops
<1>15. CASE UNCHANGED trafficVars
  BY <1>1, <1>15 DEF trafficVars
<1> QED BY <1>2, <1>3, <1>4, <1>5, <1>6, <1>7, <1>8, <1>9, <1>10, <1>11, <1>12, <1>13, <1>14, <1>15
        DEF TrafficNext, Node, Polls, Passes

LEMMA LineStep ==
    ASSUME TrafficType, TrafficType', OfThisTick, OfThisTick', [TrafficNext]_trafficVars,
           NEW k \in Keys, LineOf(k)
    PROVE  LineOf(k)'
<1>0. now \in Nat /\ now' \in Nat /\ Raw \in Nat /\ (first[k] # Null => first[k] \in Nat)
  BY TimeFacts DEF TrafficType
<1>1. CASE UNCHANGED <<now, samples, current, first, last, recorded>>
  BY <1>1 DEF LineOf, Sampled
<1>2. CASE Tick
  <2>1. now' = now + 1 /\ UNCHANGED <<samples, current, first, last, recorded>>
    BY <1>2 DEF Tick, history
  <2>2. Sampled(k)' = Sampled(k)
    BY <2>1 DEF Sampled
  <2>3. first[k] # Null => first[k] < now' - Raw \/ first[k] \in Sampled(k)
    BY <1>0, <2>1 DEF LineOf
  <2> QED BY <2>1, <2>2, <2>3 DEF LineOf
<1>3. ASSUME NEW moved \in SUBSET Keys, PollRecords(moved) PROVE LineOf(k)'
  <2>1. UNCHANGED now
    BY <1>3 DEF PollRecords
  <2>2. CASE Noted(k)
    <3>1. current'[k] = Null => current[k] = Null
      BY <2>2 DEF Noted
    <3> QED BY <2>1, <2>2, <3>1 DEF LineOf, Noted, Sampled
  <2>3. CASE Stored(k)
    <3>1. Sampled(k)' = Sampled(k) \cup {now} /\ now \in Times /\ Sampled(k)' \in SUBSET Times
      <4>1. Sampled(k)' = Sampled(k) \cup {now}
        BY <2>3, SampledAfter
      <4>2. now \in Times
        BY DEF TrafficType
      <4> QED BY <4>1, <4>2, SampledFacts
    <3>2. first'[k] # Null /\ last'[k] # Null /\ current'[k] # Null
      <4>1. now # Null
        BY <1>0, TimeFacts
      <4> QED BY <2>3, <4>1 DEF Stored, LineOf
    <3>3. ASSUME NEW t \in Sampled(k)' PROVE t <= now /\ first'[k] <= t
      <4>1. CASE t \in Sampled(k)
        <5>1. first[k] # Null /\ first[k] <= t /\ t <= now
          BY <4>1 DEF LineOf, OfThisTick
        <5> QED BY <2>3, <5>1 DEF Stored, LineOf
      <4>2. CASE t = now /\ last[k] = Null
        BY <1>0, <2>3, <4>2 DEF Stored
      <4>3. CASE t = now /\ last[k] # Null
        <5>1. first[k] \in Nat /\ (first[k] < now - Raw \/ first[k] <= now) /\ first'[k] = first[k]
          BY <1>0, <2>3, <4>3 DEF Stored, LineOf, OfThisTick
        <5> QED BY <1>0, <4>3, <5>1
      <4> QED BY <3>1, <4>1, <4>2, <4>3
    <3>4. Max(Sampled(k)') = now
      BY <3>1, <3>3, MaxIs
    <3>5. Max(Sampled(k))' = now
      BY <3>4
    <3>6. samples'[k][now] = last'[k]
      BY <2>3 DEF Stored
    <3>7. first'[k] < now - Raw \/ first'[k] \in Sampled(k)'
      BY <2>3, <3>1 DEF Stored, LineOf
    <3> QED BY <2>1, <3>2, <3>3, <3>5, <3>6, <3>7 DEF LineOf
  <2> QED BY <1>3, <2>2, <2>3, RecordsEach
<1>4. CASE CompleteNodeReconcile
  <2>1. current'[k] # Null /\ UNCHANGED <<now, samples, first, last, recorded>>
    BY <1>4, TimeFacts DEF CompleteNodeReconcile
  <2> QED BY <2>1 DEF LineOf, Sampled
<1>5. CASE DeleteSamples
  <2>1. UNCHANGED <<now, current, first, last, recorded>>
    BY <1>5 DEF DeleteSamples, history
  <2>2. Sampled(k)' = {t \in Sampled(k) : t >= now - Raw} /\ \A t \in Sampled(k)' : samples'[k][t] = samples[k][t]
    BY <1>5, SamplesLeft
  <2>3. first[k] # Null => first[k] < now - Raw \/ first[k] \in Sampled(k)'
    BY <1>0, <2>2 DEF LineOf
  <2>4. ASSUME Sampled(k)' # {} PROVE samples'[k][Max(Sampled(k)')] = last[k]
    <3> DEFINE m == Max(Sampled(k))
    <3>1. m \in Sampled(k) /\ \A t \in Sampled(k) : t <= m /\ t \in Nat
      BY <2>2, <2>4, SampledFacts, TimeFacts
    <3>2. samples[k][m] = last[k]
      BY <2>2, <2>4 DEF LineOf
    <3> HIDE DEF m
    <3>3. m \in Sampled(k)'
      <4>1. PICK t \in Sampled(k) : t >= now - Raw
        BY <2>2, <2>4
      <4>2. m >= now - Raw
        BY <1>0, <3>1, <4>1
      <4> QED BY <2>2, <3>1, <4>2
    <3>4. Sampled(k)' \in SUBSET Times /\ \A t \in Sampled(k)' : t <= m
      BY <2>2, <3>1, SampledFacts
    <3>5. Max(Sampled(k)') = m
      BY <3>3, <3>4, MaxIs
    <3> QED BY <2>2, <3>2, <3>3, <3>5
  <2>5. Max(Sampled(k))' = Max(Sampled(k)')
    OBVIOUS
  <2> QED BY <2>1, <2>2, <2>3, <2>4, <2>5 DEF LineOf
<1>6. ASSUME NEW i \in Keys, Transfer(i) PROVE LineOf(k)'
  BY <1>1, <1>6 DEF Transfer, history
<1>7. ASSUME NEW i \in Keys, NEW c \in {0, Null}, Reset(i, c) PROVE LineOf(k)'
  BY <1>1, <1>7 DEF Reset, history
<1>8. CASE PollAsks \/ PollReads \/ PollStops
  BY <1>1, <1>8 DEF PollAsks, PollReads, PollStops, history
<1>9. CASE SyncAsks \/ SyncReads \/ SyncStops
  BY <1>1, <1>9 DEF SyncAsks, SyncReads, SyncStops, history
<1>10. CASE PassStarts \/ FindRollups \/ ReplaceRollups \/ DeleteRollups \/ PassStops
  BY <1>1, <1>10 DEF PassStarts, FindRollups, ReplaceRollups, DeleteRollups, PassStops, history
<1>11. CASE UNCHANGED trafficVars
  BY <1>1, <1>11 DEF trafficVars
<1> QED BY <1>2, <1>3, <1>4, <1>5, <1>6, <1>7, <1>8, <1>9, <1>10, <1>11
        DEF TrafficNext, Node, Polls, Syncs, Passes

-----------------------------------------------------------------------------
(* Counted once *)

FitsNext(k, v) == Total(recorded'[k]) + Gain(v, last'[k]) + Gain(peer'[k], v) <= passed'[k]

LEMMA FitsTypes ==
    ASSUME TrafficType, NEW k \in Keys
    PROVE  /\ Total(recorded[k]) \in Nat /\ passed[k] \in Nat
           /\ peer[k] \in Counters /\ last[k] \in Counters /\ current[k] \in Counters /\ Null \in Counters
           /\ snapshot.seen[k] \in Counters /\ snapshot.rows[k] \in Counters /\ Observed(k) \in Counters
           /\ sync.seen[k] \in Counters /\ sync.rows[k] \in Counters
           /\ \A v \in Counters : Gain(v, last[k]) \in Nat /\ Gain(peer[k], v) \in Nat
<1>1. recorded[k] \in [Times -> Nat]
  BY DEF TrafficType
<1>2. Total(recorded[k]) \in Nat
  BY <1>1, BytesTotal
<1>3. /\ passed[k] \in Nat
      /\ peer[k] \in Counters /\ last[k] \in Counters /\ current[k] \in Counters
      /\ snapshot.seen[k] \in Counters /\ snapshot.rows[k] \in Counters
      /\ sync.seen[k] \in Counters /\ sync.rows[k] \in Counters
  BY DEF TrafficType
<1> QED BY <1>2, <1>3, ObservedType, RecordsWell, GainFacts

\* What fits now, the node's counter fits, too.
LEMMA PeerFits ==
    ASSUME TrafficType, NEW k \in Keys, LineOf(k), FitsOf(k)
    PROVE  /\ Fits(k, peer[k]) /\ Fits(k, Null)
           /\ current[k] = Null => Fits(k, 0)
<1> DEFINE R == Total(recorded[k])  P == passed[k]  p == peer[k]  c == current[k]  l == last[k]
<1>1. R \in Nat /\ P \in Nat /\ p \in Counters /\ c \in Counters /\ l \in Counters /\ Null \in Counters /\ 0 \in Counters
  BY FitsTypes DEF Counters
<1>2. R + Gain(c, l) + Gain(p, c) <= P /\ Bytes(p) <= P
  BY DEF FitsOf, Fits
<1>3. c = Null => l = Null /\ R = 0
  <2>1. SUFFICES ASSUME c = Null PROVE l = Null /\ R = 0
    OBVIOUS
  <2>2. l = Null /\ \A t \in Times : recorded[k][t] = 0
    BY <2>1 DEF LineOf
  <2>3. recorded[k] \in [Times -> Int]
    BY DEF TrafficType
  <2> QED BY <2>2, <2>3, TotalOfNone
<1> HIDE DEF R, P, p, c, l
<1>4. /\ Gain(p, p) = 0 /\ Gain(p, Null) = 0 /\ Gain(Null, l) = 0 /\ Gain(0, l) = 0 /\ Gain(Null, p) = 0
      /\ Gain(p, 0) <= Bytes(p) /\ Gain(p, 0) \in Nat /\ Bytes(p) \in Nat
      /\ Gain(c, l) \in Nat /\ Gain(p, c) \in Nat /\ Gain(p, l) \in Nat
  BY <1>1, GainFacts
<1>5. R + Gain(p, l) + Gain(p, p) <= P
  <2>1. CASE c = Null
    BY <1>1, <1>2, <1>3, <1>4, <2>1
  <2>2. CASE c # Null
    <3>1. Gain(p, l) <= Gain(p, c) + Gain(c, l)
      BY <1>1, <2>2, GainByWay
    <3> QED BY <1>1, <1>2, <1>4, <3>1
  <2> QED BY <2>1, <2>2
<1>6. R + Gain(Null, l) + Gain(p, Null) <= P
  BY <1>1, <1>2, <1>4
<1>7. c = Null => R + Gain(0, l) + Gain(p, 0) <= P
  BY <1>1, <1>2, <1>3, <1>4
<1> QED BY <1>5, <1>6, <1>7 DEF Fits, R, P, p, c, l

\* Whatever the node does, what fitted fits.
LEMMA NodeKeepsFit ==
    ASSUME TrafficType, NEW k \in Keys, NEW i \in Keys,
           Transfer(i) \/ Reset(i, Null) \/ Reset(i, 0), Bytes(peer[k]) <= passed[k]
    PROVE  /\ Bytes(peer'[k]) <= passed'[k]
           /\ \A v \in Counters : Fits(k, v) => FitsNext(k, v)
<1>1. last' = last /\ recorded' = recorded
  BY DEF Transfer, Reset, history
<1>2. CASE peer'[k] = peer[k] /\ passed'[k] = passed[k]
  BY <1>1, <1>2 DEF Fits, FitsNext
<1>3. CASE peer[k] # Null /\ peer'[k] = peer[k] + 1 /\ passed'[k] = passed[k] + 1
  <2>1. peer[k] \in Counters /\ passed[k] \in Nat
    BY FitsTypes
  <2>2. Bytes(peer[k]) = peer[k] /\ peer[k] + 1 \in Nat /\ peer[k] \in Nat
    BY <1>3, <2>1, GainFacts DEF Counters
  <2>3. Bytes(peer[k] + 1) = peer[k] + 1
    BY <2>2, TimeFacts DEF Bytes
  <2>4. ASSUME NEW v \in Counters, Fits(k, v) PROVE FitsNext(k, v)
    <3> DEFINE R == Total(recorded[k])  g == Gain(v, last[k])  h == Gain(peer[k], v)  h1 == Gain(peer[k] + 1, v)
    <3>1. R \in Nat /\ g \in Nat /\ h \in Nat
      BY FitsTypes
    <3>2. h1 <= h + 1
      BY <1>3, <2>1, GainFacts
    <3>3. h1 \in Nat
      BY <2>2, GainFacts DEF Counters
    <3>4. R + g + h <= passed[k]
      BY <2>4 DEF Fits
    <3> HIDE DEF R, g, h, h1
    <3>5. R + g + h1 <= passed[k] + 1
      BY <2>1, <3>1, <3>2, <3>3, <3>4
    <3> QED BY <1>1, <1>3, <3>5 DEF FitsNext, R, g, h1
  <2> QED BY <1>3, <2>1, <2>2, <2>3, <2>4
<1>4. CASE peer'[k] \in {0, Null} /\ passed'[k] = passed[k]
  <2>1. passed[k] \in Nat
    BY FitsTypes
  <2>2. ASSUME NEW v \in Counters, Fits(k, v) PROVE FitsNext(k, v)
    <3> DEFINE R == Total(recorded[k])  g == Gain(v, last[k])  h == Gain(peer[k], v)
    <3>1. R \in Nat /\ g \in Nat /\ h \in Nat
      BY FitsTypes
    <3>2. R + g + h <= passed[k]
      BY <2>2 DEF Fits
    <3>3. Gain(peer'[k], v) = 0
      BY <1>4, GainFacts
    <3> HIDE DEF R, g, h
    <3>4. R + g + 0 <= passed[k]
      BY <2>1, <3>1, <3>2
    <3> QED BY <1>1, <1>4, <3>3, <3>4 DEF FitsNext, R, g
  <2>3. Bytes(peer'[k]) = 0
    BY <1>4, TimeFacts DEF Bytes
  <2> QED BY <1>4, <2>1, <2>2, <2>3
<1>5. CASE Transfer(i)
  BY <1>2, <1>3, <1>5 DEF Transfer, TrafficType
<1>6. CASE Reset(i, Null) \/ Reset(i, 0)
  BY <1>2, <1>4, <1>6 DEF Reset, TrafficType
<1> QED BY <1>5, <1>6

\* What a poll stores of a key, it records; and from there on its counter stands.
LEMMA StoredFits ==
    ASSUME TrafficType, TrafficType', NEW k \in Keys, LineOf(k), Fits(k, Observed(k)), Stored(k),
           UNCHANGED <<peer, passed>>
    PROVE  FitsNext(k, Observed(k))
<1> DEFINE R == Total(recorded[k])  P == passed[k]  p == peer[k]  v == Observed(k)  l == last[k]
<1>1. R \in Nat /\ P \in Nat /\ p \in Counters /\ v \in Counters /\ l \in Counters /\ v # Null
  BY FitsTypes DEF Stored
<1>2. Gain(v, l) \in Nat /\ Gain(p, v) \in Nat /\ Gain(v, v) = 0
  BY <1>1, GainFacts
<1>3. R + Gain(v, l) + Gain(p, v) <= P
  BY DEF Fits
<1>4. Total(recorded'[k]) = R + Gain(v, l)
  <2>1. CASE l = Null
    BY <1>1, <2>1 DEF Stored, Gain
  <2>2. CASE l # Null
    <3> DEFINE d == Delta(v, l)  b == Bucket(now)  r == recorded[k]
    <3>1. Gain(v, l) = d
      BY <1>1, <2>2 DEF Gain
    <3>2. recorded'[k] = [r EXCEPT ![b] = @ + d]
      BY <2>2 DEF Stored
    <3>3. r \in [Times -> Nat] /\ recorded'[k] \in [Times -> Nat] /\ b \in Times
      BY BucketFacts DEF TrafficType
    <3>4. r \in [Times -> Int] /\ recorded'[k] \in [Times -> Int] /\ d \in Int
      BY <1>2, <3>1, <3>3, BytesTotal
    <3> HIDE DEF d, b, r
    <3>5. recorded'[k][b] = r[b] + d /\ \A t \in Times \ {b} : recorded'[k][t] = r[t]
      BY <3>2, <3>3
    <3>6. Total(recorded'[k]) = Total(r) + d
      BY <3>3, <3>4, <3>5, TotalChange
    <3> QED BY <3>1, <3>6 DEF r
  <2> QED BY <2>1, <2>2
<1>5. last'[k] = v
  BY DEF Stored
<1> HIDE DEF R, P, p, v, l
<1>6. R + Gain(v, l) + Gain(v, v) + Gain(p, v) <= P
  BY <1>1, <1>2, <1>3
<1> QED BY <1>4, <1>5, <1>6 DEF FitsNext, P, p, v

LEMMA FitsStep ==
    ASSUME TrafficType, TrafficType', OfThisTick, [TrafficNext]_trafficVars,
           NEW k \in Keys, LineOf(k), ~crossed', ~crossed => FitsOf(k)
    PROVE  FitsOf(k)'
<1>1. ~crossed
  BY DEF TrafficNext, Node, Polls, Syncs, Passes, trafficVars, history, Transfer, Reset, Tick, PollAsks, PollReads,
         PollRecords, PollStops, SyncAsks, SyncReads, CompleteNodeReconcile, SyncStops, PassStarts, FindRollups,
         ReplaceRollups, DeleteSamples, DeleteRollups, PassStops
<1>2. FitsOf(k)
  BY <1>1
<1>3. /\ current[k] \in Counters /\ snapshot.seen[k] \in Counters /\ Observed(k) \in Counters
      /\ sync.seen[k] \in Counters /\ peer[k] \in Counters /\ Null \in Counters /\ 0 \in Counters
  BY FitsTypes DEF Counters
<1>4. Fits(k, peer[k]) /\ Fits(k, Null) /\ (current[k] = Null => Fits(k, 0))
  BY <1>2, PeerFits
<1>5. ASSUME UNCHANGED <<peer, passed, last, recorded>>
      PROVE  \A v : Fits(k, v) => FitsNext(k, v)
  BY <1>5 DEF Fits, FitsNext
\* What has to fit after a step.
<1>6. ASSUME Bytes(peer'[k]) <= passed'[k],
             FitsNext(k, current'[k]),
             snapshot'.step = "read" => FitsNext(k, snapshot'.seen[k]),
             snapshot'.step = "record" => FitsNext(k, Observed(k)'),
             sync'.step # "idle" /\ ~sync'.overtaken => FitsNext(k, sync'.seen[k]),
             sync'.step = "write" /\ ~sync'.overtaken /\ sync'.seen[k] = Null => sync'.rows[k] = current'[k]
      PROVE  FitsOf(k)'
  BY <1>6 DEF FitsOf, Fits, FitsNext, Bytes, Gain, Delta
<1>7. ASSUME NEW i \in Keys, Transfer(i) \/ Reset(i, Null) \/ Reset(i, 0) PROVE FitsOf(k)'
  <2>1. UNCHANGED <<current, snapshot, sync>>
    BY <1>7 DEF Transfer, Reset
  <2>2. Bytes(peer'[k]) <= passed'[k] /\ \A v \in Counters : Fits(k, v) => FitsNext(k, v)
    BY <1>2, <1>7, NodeKeepsFit DEF FitsOf
  <2>3. Observed(k)' = Observed(k)
    BY <2>1 DEF Observed
  <2> QED BY <1>2, <1>3, <1>6, <2>1, <2>2, <2>3 DEF FitsOf
<1>8. CASE UNCHANGED <<peer, passed, current, last, recorded, snapshot, sync>>
  <2>1. Observed(k)' = Observed(k)
    BY <1>8 DEF Observed
  <2> QED BY <1>2, <1>5, <1>6, <1>8, <2>1 DEF FitsOf
<1>9. CASE PollAsks
  <2>1. /\ UNCHANGED <<peer, passed, current, last, recorded, sync>>
        /\ snapshot'.step = "read" /\ snapshot'.seen = peer
    BY <1>9 DEF PollAsks, NoPoll, node, history
  <2> QED BY <1>2, <1>4, <1>5, <1>6, <2>1 DEF FitsOf
<1>10. CASE PollReads
  <2>1. /\ UNCHANGED <<peer, passed, current, last, recorded, sync>>
        /\ snapshot.step = "read" /\ snapshot'.step = "record" /\ snapshot'.seen = snapshot.seen
        /\ snapshot'.rows = [i \in Keys |-> IF snapshot.seen[i] = Null THEN current[i] ELSE Null]
    BY <1>10 DEF PollReads, node, history, TrafficType
  <2>2. Observed(k)' = IF snapshot.seen[k] # Null THEN snapshot.seen[k] ELSE current[k]
    BY <2>1 DEF Observed
  <2> QED BY <1>2, <1>5, <1>6, <2>1, <2>2 DEF FitsOf
<1>11. ASSUME NEW moved \in SUBSET Keys, PollRecords(moved) PROVE FitsOf(k)'
  <2>1. /\ UNCHANGED <<peer, passed>> /\ snapshot.step = "record" /\ snapshot'.step = "idle"
        /\ sync'.step = sync.step /\ sync'.overtaken = (sync.step # "idle")
        /\ Noted(k) \/ Stored(k)
    BY <1>11, RecordsEach DEF PollRecords, node, TrafficType
  <2>2. Fits(k, Observed(k)) /\ Fits(k, current[k]) /\ Bytes(peer[k]) <= passed[k]
    BY <1>2, <2>1 DEF FitsOf
  <2>3. CASE Noted(k)
    <3>1. FitsNext(k, current'[k])
      BY <2>1, <2>2, <2>3 DEF Noted, Fits, FitsNext
    <3> QED BY <1>6, <2>1, <2>2, <3>1
  <2>4. CASE Stored(k)
    <3>1. FitsNext(k, current'[k])
      BY <2>1, <2>2, <2>4, StoredFits DEF Stored
    <3> QED BY <1>6, <2>1, <2>2, <3>1
  <2> QED BY <2>1, <2>3, <2>4
<1>12. CASE PollStops
  <2>1. UNCHANGED <<peer, passed, current, last, recorded, sync>> /\ snapshot'.step = "idle"
    BY <1>12, RecordsWell DEF PollStops, node, history
  <2> QED BY <1>2, <1>5, <1>6, <2>1 DEF FitsOf
<1>13. CASE SyncAsks
  <2>1. /\ UNCHANGED <<peer, passed, current, last, recorded, snapshot>>
        /\ sync'.step = "read" /\ sync'.seen = peer
    BY <1>13 DEF SyncAsks, NoSync, node, history
  <2>2. Observed(k)' = Observed(k)
    BY <2>1 DEF Observed
  <2> QED BY <1>2, <1>4, <1>5, <1>6, <2>1, <2>2 DEF FitsOf
<1>14. CASE SyncReads
  <2>1. /\ UNCHANGED <<peer, passed, current, last, recorded, snapshot>>
        /\ sync.step = "read" /\ sync'.step = "write" /\ sync'.seen = sync.seen /\ sync'.overtaken = sync.overtaken
        /\ sync'.rows = [i \in Keys |-> IF sync.seen[i] = Null THEN current[i] ELSE Null]
    BY <1>14 DEF SyncReads, node, history, TrafficType
  <2>2. Observed(k)' = Observed(k)
    BY <2>1 DEF Observed
  <2> QED BY <1>2, <1>5, <1>6, <2>1, <2>2 DEF FitsOf
<1>15. CASE CompleteNodeReconcile
  <2>1. /\ UNCHANGED <<peer, passed, last, recorded, snapshot>> /\ sync'.step = "idle"
        /\ sync.step = "write" /\ ~sync.overtaken
        /\ current'[k] = IF sync.seen[k] # Null THEN sync.seen[k] ELSE IF sync.rows[k] # Null THEN sync.rows[k] ELSE 0
    BY <1>15, RecordsWell DEF CompleteNodeReconcile, node
  <2>2. Observed(k)' = Observed(k)
    BY <2>1 DEF Observed
  <2>3. Fits(k, current'[k])
    <3>1. CASE sync.seen[k] # Null
      BY <1>2, <2>1, <3>1 DEF FitsOf
    <3>2. CASE sync.seen[k] = Null
      <4>1. sync.rows[k] = current[k]
        BY <1>2, <2>1, <3>2 DEF FitsOf
      <4> QED BY <1>2, <1>4, <2>1, <3>2, <4>1 DEF FitsOf
    <3> QED BY <3>1, <3>2
  <2> QED BY <1>2, <1>5, <1>6, <2>1, <2>2, <2>3 DEF FitsOf
<1>16. CASE SyncStops
  <2>1. UNCHANGED <<peer, passed, current, last, recorded, snapshot>> /\ sync'.step = "idle"
    BY <1>16, RecordsWell DEF SyncStops, node, history
  <2>2. Observed(k)' = Observed(k)
    BY <2>1 DEF Observed
  <2> QED BY <1>2, <1>5, <1>6, <2>1, <2>2 DEF FitsOf
<1>17. CASE Tick \/ Passes
  BY <1>8, <1>17 DEF Tick, Passes, PassStarts, FindRollups, ReplaceRollups, DeleteSamples, DeleteRollups, PassStops,
                    node, history
<1>18. CASE UNCHANGED trafficVars
  BY <1>8, <1>18 DEF trafficVars
<1> QED BY <1>7, <1>9, <1>10, <1>11, <1>12, <1>13, <1>14, <1>15, <1>16, <1>17, <1>18
        DEF TrafficNext, Node, Polls, Syncs

-----------------------------------------------------------------------------
(* Buckets *)

LEMMA TotalSame ==
    ASSUME NEW x \in [Times -> Nat], NEW y \in [Times -> Nat], \A t \in Times : x[t] = y[t]
    PROVE  Total(x) = Total(y)
<1>1. x = y
  OBVIOUS
<1> QED BY <1>1

\* A sample stored adds to the samples before it, and leaves what those add.
LEMMA ShareStored ==
    ASSUME TrafficType, OfThisTick, snapshot.step = "record", UNCHANGED now, NEW k \in Keys, LineOf(k),
           Stored(k), NEW b \in Times
    PROVE  /\ \A t \in Times : t = now => Before(k, t)' = Sampled(k)
           /\ \A t \in Sampled(k) : Before(k, t)' = Before(k, t)
           /\ Total(Share(k, b)') = Total(Share(k, b))
                + (IF b = Bucket(now) /\ Sampled(k) # {} THEN Delta(Observed(k), last[k]) ELSE 0)
<1> DEFINE d == IF b = Bucket(now) /\ Sampled(k) # {} THEN Delta(Observed(k), last[k]) ELSE 0
<1>1. Sampled(k)' = Sampled(k) \cup {now} /\ now \in Times
  BY SampledAfter DEF TrafficType
<1>2. ASSUME NEW t \in Sampled(k) PROVE t < now /\ t # now /\ t \in Times /\ t \in Nat /\ now \in Nat
  <2>1. t \in Times /\ t < now
    BY SampledFacts DEF OfThisTick
  <2>2. t \in Nat /\ now \in Nat
    BY <1>1, <2>1, TimeFacts
  <2> QED BY <2>1, <2>2
<1>3. Before(k, now)' = Sampled(k)
  <2>1. Before(k, now)' = {u \in Sampled(k)' : u < now}
    BY DEF Before
  <2>2. now \in Nat
    BY <1>1, TimeFacts
  <2>3. \A u : u \in Sampled(k)' /\ u < now <=> u \in Sampled(k)
    BY <1>1, <1>2, <2>2
  <2>4. {u \in Sampled(k)' : u < now} = Sampled(k)
    BY <2>3
  <2> QED BY <2>1, <2>4
<1>4. ASSUME NEW t \in Sampled(k) PROVE Before(k, t)' = Before(k, t)
  <2>1. ~(now < t)
    BY <1>2
  <2> QED BY <1>1, <2>1 DEF Before
<1>5. ASSUME NEW t \in Sampled(k), Before(k, t) # {} PROVE Added(k, t)' = Added(k, t)
  <2>1. Max(Before(k, t)) \in Sampled(k)
    BY <1>2, <1>5, SampledFacts
  <2>2. samples'[k][t] = samples[k][t] /\ samples'[k][Max(Before(k, t))] = samples[k][Max(Before(k, t))]
    BY <1>2, <2>1 DEF Stored
  <2>3. Max(Before(k, t))' = Max(Before(k, t))
    BY <1>4
  <2>4. Added(k, t)' = Delta(samples'[k][t], samples'[k][Max(Before(k, t))])
    BY <2>3 DEF Added, Delta
  <2> QED BY <2>2, <2>4 DEF Added
<1>6. ASSUME NEW t \in Times \ {now} PROVE Share(k, b)'[t] = Share(k, b)[t]
  <2>1. t \in Sampled(k)' <=> t \in Sampled(k)
    BY <1>1, <1>6
  <2>2. Share(k, b)'[t] = IF t \in Sampled(k)' /\ Bucket(t) = b /\ Before(k, t)' # {} THEN Added(k, t)' ELSE 0
    BY DEF Share, Bucket
  <2>3. Share(k, b)[t] = IF t \in Sampled(k) /\ Bucket(t) = b /\ Before(k, t) # {} THEN Added(k, t) ELSE 0
    BY DEF Share
  <2> QED BY <1>4, <1>5, <2>1, <2>2, <2>3
<1>7. Share(k, b)[now] = 0
  BY <1>1, <1>2 DEF Share
<1>8. Sampled(k) # {} => Added(k, now)' = Delta(Observed(k), last[k])
  <2> SUFFICES ASSUME Sampled(k) # {} PROVE Added(k, now)' = Delta(Observed(k), last[k])
    OBVIOUS
  <2> DEFINE m == Max(Sampled(k))
  <2>1. m \in Sampled(k) /\ samples[k][m] = last[k]
    BY SampledFacts DEF LineOf
  <2>2. samples'[k][m] = last[k] /\ samples'[k][now] = Observed(k)
    BY <1>2, <2>1 DEF Stored
  <2>3. Added(k, now)' = Delta(samples'[k][now], samples'[k][Max(Before(k, now)')])
    BY DEF Added, Delta
  <2> QED BY <1>3, <2>2, <2>3
<1>9. Share(k, b)'[now] = d
  <2>1. Share(k, b)'[now] = IF now \in Sampled(k)' /\ Bucket(now) = b /\ Before(k, now)' # {} THEN Added(k, now)' ELSE 0
    BY <1>1 DEF Share, Bucket
  <2> QED BY <1>1, <1>3, <1>8, <2>1
<1>10. Share(k, b) \in [Times -> Nat] /\ Share(k, b)' \in [Times -> Nat] /\ d \in Nat
  <2>1. Share(k, b) \in [Times -> Nat]
    BY AddedFacts
  <2>2. d \in Nat
    <3>1. CASE Sampled(k) = {}
      BY <3>1
    <3>2. CASE Sampled(k) # {}
      <4>1. last[k] \in Nat /\ Observed(k) \in Nat
        BY <3>2, SampledFacts DEF LineOf, Stored
      <4> QED BY <4>1 DEF Delta
    <3> QED BY <3>1, <3>2
  <2>3. \A t \in Times : Share(k, b)'[t] \in Nat
    <3> HIDE DEF d
    <3> QED BY <1>6, <1>9, <2>1, <2>2
  <2>4. Share(k, b)' = [t \in Times |-> Share(k, b)'[t]]
    BY DEF Share
  <2>5. Share(k, b)' \in [Times -> Nat]
    BY <2>3, <2>4
  <2> QED BY <2>1, <2>2, <2>5
<1>11. Share(k, b) \in [Times -> Int] /\ Share(k, b)' \in [Times -> Int] /\ d \in Int
  <2> HIDE DEF d
  <2> QED BY <1>10, BytesTotal
<1>12. Total(Share(k, b)') = Total(Share(k, b)) + d
  <2> DEFINE x == Share(k, b)  y == Share(k, b)'
  <2>1. y[now] = x[now] + d /\ \A t \in Times \ {now} : y[t] = x[t]
    BY <1>6, <1>7, <1>9, <1>11
  <2>2. x \in [Times -> Int] /\ y \in [Times -> Int] /\ d \in Int /\ now \in Times
    BY <1>1, <1>11
  <2> HIDE DEF d, x, y
  <2>3. Total(y) = Total(x) + d
    BY <2>1, <2>2, TotalChange
  <2> QED BY <2>3 DEF x, y
<1>13. \A t \in Times : t = now => Before(k, t)' = Sampled(k)
  BY <1>3
<1> QED BY <1>4, <1>12, <1>13

\* Of a key recorded, a bucket records what its share grows by, or more.
LEMMA RecordedStored ==
    ASSUME TrafficType, NEW k \in Keys, Stored(k), NEW b \in Times
    PROVE  recorded'[k][b] = recorded[k][b]
               + (IF b = Bucket(now) /\ last[k] # Null THEN Delta(Observed(k), last[k]) ELSE 0)
<1>1. recorded[k] \in [Times -> Nat] /\ recorded[k][b] \in Nat /\ now \in Times /\ Bucket(now) \in Times
  BY BucketFacts DEF TrafficType
<1>2. CASE last[k] = Null
  BY <1>1, <1>2 DEF Stored
<1>3. CASE last[k] # Null
  <2> DEFINE d == Delta(Observed(k), last[k])  r == recorded[k]  c == Bucket(now)
  <2>1. d \in Nat
    <3>1. last[k] \in Nat /\ Observed(k) \in Nat
      BY <1>3 DEF Stored, TrafficType, Counters
    <3> QED BY <3>1 DEF Delta
  <2>2. recorded'[k] = [r EXCEPT ![c] = @ + d]
    BY <1>3 DEF Stored
  <2> HIDE DEF d, r, c
  <2>3. recorded'[k][b] = r[b] + (IF b = c THEN d ELSE 0)
    BY <1>1, <2>1, <2>2, MoreRecorded DEF r, c
  <2> QED BY <1>3, <2>3 DEF d, r, c
<1> QED BY <1>2, <1>3

\* What is left of a share is no more than it was, and all of it in a bucket
\* that began where no sample was deleted.
LEMMA ShareLeft ==
    ASSUME TrafficType, TrafficType', OfThisTick, DeleteSamples, NEW k \in Keys, LineOf(k), NEW b \in Times
    PROVE  /\ Total(Share(k, b)') \in Nat /\ Total(Share(k, b)') <= Total(Share(k, b))
           /\ b >= now - Raw /\ Whole(k, b)' => Whole(k, b) /\ Total(Share(k, b)') = Total(Share(k, b))
<1>0. b \in Nat /\ now \in Nat /\ Raw \in Nat /\ first' = first
  BY TimeFacts DEF TrafficType, DeleteSamples, history
<1>1. /\ Sampled(k)' = {t \in Sampled(k) : t >= now - Raw}
      /\ \A t \in Sampled(k)' : Before(k, t)' = {u \in Before(k, t) : u >= now - Raw}
      /\ \A t \in Sampled(k)' : Before(k, t)' # {} => Before(k, t) # {} /\ Added(k, t)' = Added(k, t)
  BY SamplesLeft
<1>2. Share(k, b) \in [Times -> Nat]
  BY AddedFacts
<1>3. ASSUME NEW t \in Times
      PROVE  /\ Share(k, b)[t] = IF t \in Sampled(k) /\ Bucket(t) = b /\ Before(k, t) # {} THEN Added(k, t) ELSE 0
             /\ Share(k, b)'[t] = IF t \in Sampled(k)' /\ Bucket(t) = b /\ Before(k, t)' # {} THEN Added(k, t)' ELSE 0
  BY DEF Share, Bucket
<1>4. ASSUME NEW t \in Times
      PROVE  Share(k, b)'[t] \in Nat /\ Share(k, b)'[t] <= Share(k, b)[t]
  <2>1. Share(k, b)[t] \in Nat
    BY <1>2
  <2>2. Share(k, b)'[t] = Share(k, b)[t] \/ Share(k, b)'[t] = 0
    BY <1>1, <1>3
  <2> QED BY <2>1, <2>2
<1>5. Share(k, b)' \in [Times -> Nat]
  <2>1. Share(k, b)' = [t \in Times |-> Share(k, b)'[t]]
    BY DEF Share
  <2> QED BY <1>4, <2>1
<1>6. Total(Share(k, b)') \in Nat /\ Total(Share(k, b)') <= Total(Share(k, b))
  <2> DEFINE x == Share(k, b)  y == Share(k, b)'
  <2>1. x \in [Times -> Nat] /\ y \in [Times -> Nat] /\ \A t \in Times : y[t] <= x[t]
    BY <1>2, <1>4, <1>5
  <2> HIDE DEF x, y
  <2>2. Total(y) \in Nat /\ Total(y) <= Total(x)
    BY <2>1, BytesTotal, TotalOrder
  <2> QED BY <2>2 DEF x, y
<1>7. ASSUME b >= now - Raw, Whole(k, b)'
      PROVE  Whole(k, b) /\ Total(Share(k, b)') = Total(Share(k, b))
  <2>1. ASSUME NEW t \in Sampled(k), Bucket(t) = b
        PROVE  /\ t \in Sampled(k)'
               /\ Before(k, t)' # {} \/ (t = first[k] /\ Before(k, t) = {})
    <3>1. t \in Times /\ t \in Nat /\ b <= t
      BY <2>1, SampledFacts, BucketFacts, TimeFacts
    <3>2. t >= now - Raw
      BY <1>0, <1>7, <3>1
    <3>3. t \in Sampled(k)'
      BY <1>1, <3>2
    <3>4. Before(k, t)' # {} \/ t = first[k]
      BY <1>0, <1>7, <2>1, <3>3 DEF Whole, Bucket
    <3>5. t = first[k] => Before(k, t) = {}
      <4> SUFFICES ASSUME t = first[k], NEW u \in Before(k, t) PROVE FALSE
        OBVIOUS
      <4>1. u \in Sampled(k) /\ u < t
        BY DEF Before
      <4>2. first[k] <= u /\ u \in Nat
        BY <4>1, SampledFacts, TimeFacts DEF LineOf
      <4> QED BY <3>1, <4>1, <4>2
    <3> QED BY <3>3, <3>4, <3>5
  <2>2. Whole(k, b)
    <3>1. ASSUME NEW t \in Sampled(k), Bucket(t) = b PROVE Before(k, t) # {} \/ t = first[k]
      BY <1>1, <2>1, <3>1
    <3> QED BY <3>1 DEF Whole
  <2>3. ASSUME NEW t \in Times PROVE Share(k, b)'[t] = Share(k, b)[t]
    <3>1. CASE t \in Sampled(k) /\ Bucket(t) = b
      BY <1>1, <1>3, <2>1, <3>1
    <3>2. CASE ~(t \in Sampled(k) /\ Bucket(t) = b)
      BY <1>1, <1>3, <3>2
    <3> QED BY <3>1, <3>2
  <2>4. Share(k, b)' = Share(k, b)
    <3> DEFINE x == Share(k, b)  y == Share(k, b)'
    <3>1. x \in [Times -> Nat] /\ y \in [Times -> Nat] /\ \A t \in Times : y[t] = x[t]
      BY <1>2, <1>5, <2>3
    <3> HIDE DEF x, y
    <3>2. y = x
      BY <3>1
    <3> QED BY <3>2 DEF x, y
  <2> QED BY <2>2, <2>4
<1> QED BY <1>6, <1>7

\* What is found of a bucket is its share, or nothing if it began before the window.
LEMMA FoundIsShare ==
    ASSUME TrafficType, OfThisTick, FindRollups, NEW k \in Keys, NEW b \in Times
    PROVE  IF b >= now - Raw THEN Bytes(pass'.found[k][b]) = Total(Share(k, b)) ELSE pass'.found[k][b] = Null
<1>0. b \in Nat /\ now \in Nat /\ Raw \in Nat
  BY TimeFacts DEF TrafficType
<1>1. pass.at = now /\ RawCutoff = now - Raw
  BY DEF FindRollups, OfThisTick, RawCutoff
<1>2. pass'.found = FullBucketsOnly(RollUpSamplesSince)
  BY DEF FindRollups, TrafficType
<1>3. pass'.found[k][b] = IF b >= now - Raw THEN RollUpSamplesSince[k][b] ELSE Null
  BY <1>1, <1>2 DEF FullBucketsOnly
<1>4. ASSUME b >= now - Raw PROVE Bytes(RollUpSamplesSince[k][b]) = Total(Share(k, b))
  <2> DEFINE here == {t \in Window(k) : Bucket(t) = b /\ Before(k, t) # {}}
             x == [t \in Times |-> IF t \in here THEN Added(k, t) ELSE 0]
  <2>1. RollUpSamplesSince[k][b] = IF here = {} THEN Null ELSE Total(x)
    BY DEF RollUpSamplesSince
  <2>2. ASSUME NEW t \in Times
        PROVE  t \in here <=> t \in Sampled(k) /\ Bucket(t) = b /\ Before(k, t) # {}
    <3>1. b = Bucket(t) => t >= now - Raw
      <4> SUFFICES ASSUME b = Bucket(t) PROVE t >= now - Raw
        OBVIOUS
      <4>1. b <= t /\ t \in Nat
        BY BucketFacts, TimeFacts
      <4> QED BY <1>0, <1>4, <4>1
    <3> QED BY <1>1, <3>1 DEF Window
  <2>3. Share(k, b) \in [Times -> Nat]
    BY AddedFacts
  <2>4. x = Share(k, b)
    <3>1. \A t \in Times : x[t] = Share(k, b)[t]
      <4> SUFFICES ASSUME NEW t \in Times PROVE x[t] = Share(k, b)[t]
        OBVIOUS
      <4> HIDE DEF here
      <4> QED BY <2>2 DEF Share
    <3>2. x = [t \in Times |-> x[t]] /\ Share(k, b) = [t \in Times |-> Share(k, b)[t]]
      BY <2>3
    <3> HIDE DEF x
    <3> QED BY <3>1, <3>2
  <2>5. CASE here = {}
    <3>1. \A t \in Times : Share(k, b)[t] = 0
      <4> HIDE DEF here, x
      <4> QED BY <2>2, <2>5 DEF Share
    <3>2. Total(Share(k, b)) = 0
      BY <2>3, <3>1, BytesTotal, TotalOfNone
    <3> QED BY <2>1, <2>5, <3>2 DEF Bytes
  <2>6. CASE here # {}
    <3>1. RollUpSamplesSince[k][b] = Total(Share(k, b))
      <4> HIDE DEF here, x
      <4> QED BY <2>1, <2>4, <2>6
    <3>2. Total(Share(k, b)) # Null
      BY <2>3, BytesTotal, TimeFacts
    <3> QED BY <3>1, <3>2 DEF Bytes
  <2> QED BY <2>5, <2>6
<1> QED BY <1>3, <1>4

\* From the first bucket found on there is what was found; before it, nothing was.
LEMMA ReplacedEach ==
    ASSUME NEW old \in [Keys -> [Times -> Counters]], NEW found \in [Keys -> [Times -> Counters]],
           NEW k \in Keys, NEW b \in Times
    PROVE  \/ /\ Replaced(old, found)[k][b] = found[k][b]
              /\ \E i \in Keys, t \in Times : found[i][t] # Null /\ t <= b
           \/ Replaced(old, found)[k][b] = old[k][b] /\ found[k][b] = Null
<1> DEFINE starts == {t \in Times : \E i \in Keys : found[i][t] # Null}
           earliest == Min(starts)
<1>1. Replaced(old, found) = IF starts = {} THEN old
                             ELSE [i \in Keys |-> [t \in Times |-> IF t < earliest THEN old[i][t] ELSE found[i][t]]]
  BY DEF Replaced
<1>2. CASE starts = {}
  <2>1. found[k][b] = Null
    BY <1>2
  <2> QED BY <1>1, <1>2, <2>1
<1>3. CASE starts # {}
  <2>1. earliest \in starts /\ \A t \in starts : earliest <= t
    BY <1>3, MinOfTimes
  <2>2. earliest \in Nat /\ b \in Nat /\ earliest \in Times
    BY <2>1, TimeFacts
  <2>3. PICK i \in Keys : found[i][earliest] # Null
    BY <2>1
  <2>4. b \notin starts => found[k][b] = Null
    OBVIOUS
  <2> HIDE DEF starts, earliest
  <2>5. Replaced(old, found)[k][b] = IF b < earliest THEN old[k][b] ELSE found[k][b]
    BY <1>1, <1>3
  <2>6. CASE b < earliest
    <3>1. b \notin starts
      BY <2>1, <2>2, <2>6
    <3> QED BY <2>4, <2>5, <2>6, <3>1
  <2>7. CASE ~(b < earliest)
    <3>1. earliest <= b
      BY <2>2, <2>7
    <3> QED BY <2>2, <2>3, <2>5, <2>7, <3>1
  <2> QED BY <2>6, <2>7
<1> QED BY <1>2, <1>3

LEMMA BucketTypes ==
    ASSUME TrafficType, NEW k \in Keys, NEW b \in Times
    PROVE  /\ b \in Nat /\ now \in Nat /\ lastPass \in Nat /\ Raw \in Nat /\ Keep \in Nat /\ Size \in Nat /\ Size > 0
           /\ recorded[k][b] \in Nat /\ Total(Share(k, b)) \in Nat
           /\ rollups[k][b] \in Counters /\ pass.found[k][b] \in Counters
           /\ Bytes(rollups[k][b]) \in Nat /\ Bytes(pass.found[k][b]) \in Nat /\ Bytes(Null) = 0
<1>1. b \in Nat /\ now \in Nat /\ lastPass \in Nat /\ Raw \in Nat /\ Keep \in Nat /\ Size \in Nat /\ Size > 0
  BY TimeFacts DEF TrafficType
<1>2. recorded[k][b] \in Nat /\ rollups[k][b] \in Counters /\ pass.found[k][b] \in Counters
  BY DEF TrafficType
<1>3. Total(Share(k, b)) \in Nat
  BY AddedFacts, BytesTotal
<1> QED BY <1>1, <1>2, <1>3, GainFacts DEF Bytes

\* A poll records in the bucket of this tick only.
LEMMA RecordedGrows ==
    ASSUME TrafficType, OfThisTick, NEW moved \in SUBSET Keys, PollRecords(moved), NEW k \in Keys, LineOf(k),
           NEW b \in Times
    PROVE  /\ recorded'[k][b] \in Nat /\ recorded[k][b] <= recorded'[k][b]
           /\ b + Size <= now => recorded'[k][b] = recorded[k][b]
<1>1. recorded[k][b] \in Nat /\ now \in Times /\ now \in Nat /\ b \in Nat /\ Size \in Nat
  BY BucketTypes DEF TrafficType
<1>2. CASE Noted(k)
  BY <1>1, <1>2 DEF Noted
<1>3. CASE Stored(k)
  <2> DEFINE d == IF b = Bucket(now) /\ last[k] # Null THEN Delta(Observed(k), last[k]) ELSE 0
  <2>1. recorded'[k][b] = recorded[k][b] + d
    BY <1>3, RecordedStored
  <2>2. d \in Nat
    <3>1. last[k] # Null => last[k] \in Nat
      BY DEF TrafficType, Counters
    <3>2. Observed(k) \in Nat
      BY <1>3 DEF Stored
    <3> QED BY <3>1, <3>2 DEF Delta
  <2>3. b + Size <= now => d = 0
    <3>1. now < Bucket(now) + Size
      BY <1>1, BucketFacts
    <3> QED BY <1>1, <3>1
  <2> HIDE DEF d
  <2> QED BY <1>1, <2>1, <2>2, <2>3
<1> QED BY <1>2, <1>3, RecordsEach

\* After a poll, what a bucket's samples add.
LEMMA ShareAfterPoll ==
    ASSUME TrafficType, OfThisTick, NEW moved \in SUBSET Keys, PollRecords(moved), NEW k \in Keys, LineOf(k),
           NEW b \in Times, NoMoreThanRecorded(k, b)
    PROVE  /\ Total(Share(k, b)') \in Nat /\ Total(Share(k, b)') <= recorded'[k][b]
           /\ Whole(k, b)' /\ (Whole(k, b) => Total(Share(k, b)) = recorded[k][b])
                => Total(Share(k, b)') = recorded'[k][b]
<1>1. /\ recorded[k][b] \in Nat /\ now \in Times /\ now \in Nat /\ Total(Share(k, b)) \in Nat
      /\ UNCHANGED now
  BY BucketTypes DEF TrafficType, PollRecords
<1>2. Total(Share(k, b)) <= recorded[k][b]
  BY DEF NoMoreThanRecorded
<1>3. CASE Noted(k)
  <2>1. Sampled(k)' = Sampled(k)
    BY <1>3 DEF Noted, Sampled
  <2>2. \A t \in Times : Before(k, t)' = Before(k, t)
    BY <2>1 DEF Before
  <2>3. \A t \in Times : Added(k, t)' = Added(k, t)
    BY <1>3, <2>2 DEF Noted, Added, Delta
  <2>4. Share(k, b)' = Share(k, b)
    BY <2>1, <2>2, <2>3 DEF Share, Bucket
  <2>5. Whole(k, b)' => Whole(k, b)
    <3>1. \A t \in Sampled(k) : t \in Times
      BY SampledFacts
    <3> QED BY <1>3, <2>1, <2>2, <3>1 DEF Whole, Bucket, Noted
  <2>6. Total(Share(k, b)') = Total(Share(k, b)) /\ recorded'[k][b] = recorded[k][b]
    BY <1>3, <2>4 DEF Noted
  <2> QED BY <1>1, <1>2, <2>5, <2>6
<1>4. CASE Stored(k)
  <2> DEFINE d == Delta(Observed(k), last[k])
  <2>1. /\ \A t \in Times : t = now => Before(k, t)' = Sampled(k)
        /\ \A t \in Sampled(k) : Before(k, t)' = Before(k, t)
        /\ Total(Share(k, b)') = Total(Share(k, b)) + (IF b = Bucket(now) /\ Sampled(k) # {} THEN d ELSE 0)
    BY <1>1, <1>4, ShareStored, RecordsEach
  <2>2. recorded'[k][b] = recorded[k][b] + (IF b = Bucket(now) /\ last[k] # Null THEN d ELSE 0)
    BY <1>4, RecordedStored
  <2>3. last[k] # Null => d \in Nat
    <3>1. last[k] # Null => last[k] \in Nat
      BY DEF TrafficType, Counters
    <3>2. Observed(k) \in Nat
      BY <1>4 DEF Stored
    <3> QED BY <3>1, <3>2 DEF Delta
  <2>4. Sampled(k) # {} => last[k] # Null
    BY DEF LineOf
  <2>5. Sampled(k)' = Sampled(k) \cup {now}
    BY <1>4, SampledAfter
  <2>6. ASSUME Whole(k, b)'
        PROVE  Whole(k, b) /\ (b = Bucket(now) /\ last[k] # Null => Sampled(k) # {})
    <3>1. \A t \in Sampled(k)' : Bucket(t) = b => Before(k, t)' # {} \/ t = first'[k]
      BY <2>6 DEF Whole, Bucket
    <3>2. ASSUME NEW t \in Sampled(k), Bucket(t) = b PROVE Before(k, t) # {} \/ t = first[k]
      <4>1. first'[k] = first[k]
        BY <1>4, <2>4 DEF Stored
      <4> QED BY <2>1, <2>5, <3>1, <3>2, <4>1
    <3>3. ASSUME b = Bucket(now), last[k] # Null, Sampled(k) = {} PROVE FALSE
      <4>1. now = first'[k] /\ first'[k] = first[k]
        BY <1>1, <1>4, <2>1, <2>5, <3>1, <3>3 DEF Stored
      <4>2. first[k] # Null /\ first[k] < now - Raw
        BY <3>3 DEF LineOf
      <4>3. Raw \in Nat
        BY TimeFacts
      <4> QED BY <1>1, <4>1, <4>2, <4>3
    <3> QED BY <3>2, <3>3 DEF Whole
  <2> HIDE DEF d
  <2>7. CASE b = Bucket(now) /\ Sampled(k) # {}
    BY <1>1, <1>2, <2>1, <2>2, <2>3, <2>4, <2>6, <2>7
  <2>8. CASE ~(b = Bucket(now) /\ Sampled(k) # {})
    <3>1. Total(Share(k, b)') = Total(Share(k, b))
      BY <1>1, <2>1, <2>8
    <3>2. CASE b = Bucket(now) /\ last[k] # Null
      <4>1. recorded'[k][b] = recorded[k][b] + d /\ d \in Nat
        BY <2>2, <2>3, <3>2
      <4>2. ~Whole(k, b)'
        BY <2>6, <2>8, <3>2
      <4> QED BY <1>1, <1>2, <3>1, <4>1, <4>2
    <3>3. CASE ~(b = Bucket(now) /\ last[k] # Null)
      <4>1. recorded'[k][b] = recorded[k][b]
        BY <1>1, <2>2, <3>3
      <4> QED BY <1>1, <1>2, <2>6, <3>1, <4>1
    <3> QED BY <3>2, <3>3
  <2> QED BY <2>7, <2>8
<1> QED BY <1>3, <1>4, RecordsEach

LEMMA NoMoreStep ==
    ASSUME TrafficType, TrafficType', OfThisTick, [TrafficNext]_trafficVars, NEW k \in Keys, LineOf(k),
           NEW b \in Times, NoMoreThanRecorded(k, b)
    PROVE  NoMoreThanRecorded(k, b)'
<1>1. /\ recorded[k][b] \in Nat /\ Total(Share(k, b)) \in Nat /\ Bytes(Null) = 0 /\ b \in Nat /\ now \in Nat
      /\ Bytes(rollups[k][b]) \in Nat /\ Bytes(pass.found[k][b]) \in Nat
      /\ Total(Share(k, b)) <= recorded[k][b]
      /\ Bytes(rollups[k][b]) <= recorded[k][b]
      /\ Bytes(pass.found[k][b]) <= recorded[k][b]
  BY BucketTypes DEF NoMoreThanRecorded
\* What has to hold after a step.
<1>2. ASSUME Total(Share(k, b)') <= recorded'[k][b],
             Bytes(rollups'[k][b]) <= recorded'[k][b],
             Bytes(pass'.found[k][b]) <= recorded'[k][b]
      PROVE  NoMoreThanRecorded(k, b)'
  BY <1>2 DEF NoMoreThanRecorded, Bytes
<1>3. ASSUME UNCHANGED samples PROVE Share(k, b)' = Share(k, b)
  BY <1>3 DEF Share, Sampled, Before, Added, Delta, Bucket
<1>4. CASE UNCHANGED <<samples, recorded, rollups>> /\ pass'.found = pass.found
  <2>1. Share(k, b)' = Share(k, b)
    BY <1>3, <1>4
  <2> QED BY <1>1, <1>2, <1>4, <2>1
<1>5. ASSUME NEW moved \in SUBSET Keys, PollRecords(moved) PROVE NoMoreThanRecorded(k, b)'
  <2>1. UNCHANGED <<rollups, pass>>
    BY <1>5 DEF PollRecords
  <2>2. recorded'[k][b] \in Nat /\ recorded[k][b] <= recorded'[k][b] /\ Total(Share(k, b)') <= recorded'[k][b]
    BY <1>5, RecordedGrows, ShareAfterPoll
  <2>3. Bytes(rollups[k][b]) <= recorded'[k][b] /\ Bytes(pass.found[k][b]) <= recorded'[k][b]
    BY <1>1, <2>2
  <2> QED BY <1>2, <2>1, <2>2, <2>3
<1>6. CASE PassStarts
  <2>1. UNCHANGED <<samples, recorded, rollups>> /\ pass'.found[k][b] = Null
    BY <1>6 DEF PassStarts, NoPass, Never, history
  <2> QED BY <1>1, <1>2, <1>3, <2>1
<1>7. CASE FindRollups
  <2>1. UNCHANGED <<samples, recorded, rollups>>
    BY <1>7 DEF FindRollups
  <2>2. Bytes(pass'.found[k][b]) <= recorded[k][b]
    BY <1>1, <1>7, FoundIsShare
  <2> QED BY <1>1, <1>2, <1>3, <2>1, <2>2
<1>8. CASE ReplaceRollups
  <2>1. UNCHANGED <<samples, recorded>> /\ pass'.found[k][b] = Null /\ rollups' = Replaced(rollups, pass.found)
    BY <1>8 DEF ReplaceRollups, Never, history, TrafficType
  <2>2. rollups'[k][b] = pass.found[k][b] \/ rollups'[k][b] = rollups[k][b]
    <3>1. rollups \in [Keys -> [Times -> Counters]] /\ pass.found \in [Keys -> [Times -> Counters]]
      BY DEF TrafficType
    <3>2. \/ Replaced(rollups, pass.found)[k][b] = pass.found[k][b]
          \/ Replaced(rollups, pass.found)[k][b] = rollups[k][b]
      BY <3>1, ReplacedEach
    <3> QED BY <2>1, <3>2
  <2> QED BY <1>1, <1>2, <1>3, <2>1, <2>2
<1>9. CASE DeleteSamples
  <2>1. UNCHANGED <<recorded, rollups>> /\ pass'.found = pass.found
    BY <1>9 DEF DeleteSamples, history, TrafficType
  <2>2. Total(Share(k, b)') <= recorded[k][b]
    <3>1. Total(Share(k, b)') \in Nat /\ Total(Share(k, b)') <= Total(Share(k, b))
      BY <1>9, ShareLeft
    <3> QED BY <1>1, <3>1
  <2> QED BY <1>1, <1>2, <2>1, <2>2
<1>10. CASE DeleteRollups
  <2>1. UNCHANGED <<samples, recorded>> /\ pass'.found[k][b] = Null
        /\ (rollups'[k][b] = rollups[k][b] \/ rollups'[k][b] = Null)
    BY <1>10 DEF DeleteRollups, NoPass, Never, history
  <2> QED BY <1>1, <1>2, <1>3, <2>1
<1>11. CASE PassStops
  <2>1. UNCHANGED <<samples, recorded, rollups>> /\ pass'.found[k][b] = Null
    BY <1>11 DEF PassStops, NoPass, Never, history
  <2> QED BY <1>1, <1>2, <1>3, <2>1
<1>12. ASSUME NEW i \in Keys, Transfer(i) \/ Reset(i, Null) \/ Reset(i, 0) PROVE NoMoreThanRecorded(k, b)'
  BY <1>4, <1>12 DEF Transfer, Reset, history
<1>13. CASE PollAsks \/ PollReads \/ PollStops \/ Tick
  BY <1>4, <1>13 DEF PollAsks, PollReads, PollStops, Tick, history
<1>14. CASE Syncs
  BY <1>4, <1>14 DEF Syncs, SyncAsks, SyncReads, CompleteNodeReconcile, SyncStops, history
<1>15. CASE UNCHANGED trafficVars
  BY <1>4, <1>15 DEF trafficVars
<1> QED BY <1>5, <1>6, <1>7, <1>8, <1>9, <1>10, <1>11, <1>12, <1>13, <1>14, <1>15
        DEF TrafficNext, Node, Polls, Passes

LEMMA AllStep ==
    ASSUME TrafficType, TrafficType', OfThisTick, OfThisTick', [TrafficNext]_trafficVars,
           \A i \in Keys : LineOf(i),
           \A i \in Keys, t \in Times : NoMoreThanRecorded(i, t) /\ AllOfRecorded(i, t),
           NEW k \in Keys, NEW b \in Times
    PROVE  AllOfRecorded(k, b)'
<1>1. /\ recorded[k][b] \in Nat /\ Total(Share(k, b)) \in Nat /\ Bytes(Null) = 0
      /\ b \in Nat /\ now \in Nat /\ lastPass \in Nat /\ Raw \in Nat /\ Keep \in Nat /\ Size \in Nat /\ Size > 0
      /\ Bytes(rollups[k][b]) \in Nat /\ Bytes(pass.found[k][b]) \in Nat
      /\ MaxSilence \in Nat /\ lastPass <= now
  BY BucketTypes, TimeFacts DEF OfThisTick
<1>2. LineOf(k) /\ NoMoreThanRecorded(k, b) /\ AllOfRecorded(k, b)
  OBVIOUS
\* What has to hold after a step.
<1> DEFINE Shared == b >= now' - Raw /\ Whole(k, b)' => Total(Share(k, b)') = recorded'[k][b]
           Early == pass'.step = "replace" /\ b < now' - Raw => pass'.found[k][b] = Null
           Settled == <<k, b>> \notin severed' /\ b >= now' - Keep /\ b + Size <= lastPass'
                         => Bytes(rollups'[k][b]) = recorded'[k][b]
           Found == <<k, b>> \notin severed' /\ pass'.step = "replace" /\ b >= now' - Raw /\ b + Size <= now'
                         => Bytes(pass'.found[k][b]) = recorded'[k][b]
           InPlace == <<k, b>> \notin severed' /\ pass'.step \in {"samples", "rollups"} /\ b >= now' - Keep
                         /\ b + Size <= now' => Bytes(rollups'[k][b]) = recorded'[k][b]
<1>3. ASSUME Shared, Early, Settled, Found, InPlace PROVE AllOfRecorded(k, b)'
  BY <1>3 DEF AllOfRecorded, Bytes
<1>4. /\ b >= now - Raw /\ Whole(k, b) => Total(Share(k, b)) = recorded[k][b]
      /\ pass.step = "replace" /\ b < now - Raw => pass.found[k][b] = Null
      /\ <<k, b>> \notin severed /\ b >= now - Keep /\ b + Size <= lastPass
           => Bytes(rollups[k][b]) = recorded[k][b]
      /\ <<k, b>> \notin severed /\ pass.step = "replace" /\ b >= now - Raw /\ b + Size <= now
           => Bytes(pass.found[k][b]) = recorded[k][b]
      /\ <<k, b>> \notin severed /\ pass.step \in {"samples", "rollups"} /\ b >= now - Keep /\ b + Size <= now
           => Bytes(rollups[k][b]) = recorded[k][b]
  BY <1>2 DEF AllOfRecorded
<1>5. Bytes(rollups[k][b]) <= recorded[k][b]
  BY <1>2 DEF NoMoreThanRecorded
<1>6. ASSUME UNCHANGED <<samples, first>>
      PROVE  Share(k, b)' = Share(k, b) /\ (Whole(k, b)' => Whole(k, b))
  <2>1. Share(k, b)' = Share(k, b)
    BY <1>6 DEF Share, Sampled, Before, Added, Delta, Bucket
  <2>2. Whole(k, b)' => Whole(k, b)
    BY <1>6 DEF Whole, Sampled, Before, Bucket
  <2> QED BY <2>1, <2>2
\* A bucket that began before the samples kept had ended when the last pass began.
<1>7. b < now - Raw => b + Size <= lastPass
  BY <1>1, PeriodAssumption DEF OfThisTick
<1>8. CASE UNCHANGED <<now, lastPass, samples, first, recorded, rollups, severed, pass>>
  <2>1. Share(k, b)' = Share(k, b) /\ (Whole(k, b)' => Whole(k, b))
    BY <1>6, <1>8
  <2> QED BY <1>3, <1>4, <1>8, <2>1
<1>9. CASE Tick
  <2>1. /\ UNCHANGED <<lastPass, samples, first, recorded, rollups, severed>>
        /\ now' = now + 1 /\ pass'.step = "idle"
    BY <1>9, RecordsWell DEF Tick, history
  <2>2. Share(k, b)' = Share(k, b) /\ (Whole(k, b)' => Whole(k, b))
    BY <1>6, <2>1
  <2>3. (b >= now' - Raw => b >= now - Raw) /\ (b >= now' - Keep => b >= now - Keep)
    BY <1>1, <2>1
  <2> QED BY <1>3, <1>4, <2>1, <2>2, <2>3
<1>10. ASSUME NEW moved \in SUBSET Keys, PollRecords(moved) PROVE AllOfRecorded(k, b)'
  <2>1. UNCHANGED <<now, lastPass, rollups, severed, pass>>
    BY <1>10 DEF PollRecords
  <2>2. b + Size <= now => recorded'[k][b] = recorded[k][b]
    BY <1>2, <1>10, RecordedGrows
  <2>3. b + Size <= lastPass => b + Size <= now
    BY <1>1
  <2>4. Shared
    <3>1. Whole(k, b)' /\ (Whole(k, b) => Total(Share(k, b)) = recorded[k][b])
            => Total(Share(k, b)') = recorded'[k][b]
      BY <1>2, <1>10, ShareAfterPoll
    <3> QED BY <1>4, <2>1, <3>1
  <2>5. Early
    BY <1>4, <2>1
  <2>6. Settled
    BY <1>4, <2>1, <2>2, <2>3
  <2>7. Found
    BY <1>4, <2>1, <2>2
  <2>8. InPlace
    BY <1>4, <2>1, <2>2
  <2> QED BY <1>3, <2>4, <2>5, <2>6, <2>7, <2>8
<1>11. CASE PassStarts \/ PassStops
  <2>1. UNCHANGED <<now, lastPass, samples, first, recorded, rollups, severed>> /\ pass'.step \in {"idle", "find"}
    <3>1. CASE PassStarts
      BY <3>1 DEF PassStarts, NoPass, history
    <3>2. CASE PassStops
      BY <3>2, RecordsWell DEF PassStops, history
    <3> QED BY <1>11, <3>1, <3>2
  <2>2. Share(k, b)' = Share(k, b) /\ (Whole(k, b)' => Whole(k, b))
    BY <1>6, <2>1
  <2> QED BY <1>3, <1>4, <2>1, <2>2
<1>12. CASE FindRollups
  <2>1. /\ UNCHANGED <<now, lastPass, samples, first, recorded, rollups>>
        /\ pass'.step = "replace" /\ severed \subseteq severed'
        /\ severed' = severed \cup {i \in Keys \X Times :
               \E t \in Window(i[1]) : Bucket(t) = i[2] /\ Before(i[1], t) = {} /\ t # first[i[1]]}
    BY <1>12 DEF FindRollups, TrafficType
  <2>2. Share(k, b)' = Share(k, b) /\ (Whole(k, b)' => Whole(k, b))
    BY <1>6, <2>1
  <2>3. IF b >= now - Raw THEN Bytes(pass'.found[k][b]) = Total(Share(k, b)) ELSE pass'.found[k][b] = Null
    BY <1>12, FoundIsShare
  <2>4. ASSUME <<k, b>> \notin severed', b >= now - Raw PROVE Whole(k, b)
    <3> SUFFICES ASSUME NEW t \in Sampled(k), Bucket(t) = b, Before(k, t) = {}, t # first[k] PROVE FALSE
      BY DEF Whole
    <3>1. t \in Times /\ t \in Nat /\ b <= t
      BY SampledFacts, BucketFacts, TimeFacts
    <3>2. RawCutoff = now - Raw
      BY <1>12 DEF FindRollups, OfThisTick, RawCutoff
    <3>3. t \in Window(k)
      BY <1>1, <2>4, <3>1, <3>2 DEF Window
    <3>4. <<k, b>> \in Keys \X Times /\ <<k, b>>[1] = k /\ <<k, b>>[2] = b
      OBVIOUS
    <3> QED BY <2>1, <2>4, <3>3, <3>4
  <2>5. <<k, b>> \notin severed' => <<k, b>> \notin severed
    BY <2>1
  <2>6. Found
    BY <1>4, <2>1, <2>3, <2>4
  <2>7. Shared /\ Settled /\ InPlace
    BY <1>4, <2>1, <2>2, <2>5
  <2>8. Early
    BY <1>1, <2>1, <2>3
  <2> QED BY <1>3, <2>6, <2>7, <2>8
<1>13. CASE ReplaceRollups
  <2>1. /\ UNCHANGED <<now, lastPass, samples, first, recorded, severed>>
        /\ pass.step = "replace" /\ pass'.step = "samples" /\ rollups' = Replaced(rollups, pass.found)
    BY <1>13 DEF ReplaceRollups, history, TrafficType
  <2>2. Share(k, b)' = Share(k, b) /\ (Whole(k, b)' => Whole(k, b))
    BY <1>6, <2>1
  <2>3. \/ /\ rollups'[k][b] = pass.found[k][b]
           /\ \E i \in Keys, t \in Times : pass.found[i][t] # Null /\ t <= b
        \/ rollups'[k][b] = rollups[k][b] /\ pass.found[k][b] = Null
    <3>1. rollups \in [Keys -> [Times -> Counters]] /\ pass.found \in [Keys -> [Times -> Counters]]
      BY DEF TrafficType
    <3> QED BY <2>1, <3>1, ReplacedEach
  <2>4. ASSUME <<k, b>> \notin severed, b >= now - Keep, b + Size <= now
        PROVE  Bytes(rollups'[k][b]) = recorded[k][b]
    <3>1. CASE b >= now - Raw
      <4>1. Bytes(pass.found[k][b]) = recorded[k][b]
        BY <1>4, <2>1, <2>4, <3>1
      <4>2. pass.found[k][b] = Null => Bytes(rollups[k][b]) = recorded[k][b]
        BY <1>1, <1>5, <4>1
      <4> QED BY <2>3, <4>1, <4>2
    <3>2. CASE ~(b >= now - Raw)
      <4>1. b < now - Raw
        BY <1>1, <3>2
      <4>2. ASSUME NEW i \in Keys, NEW t \in Times, t <= b PROVE pass.found[i][t] = Null
        <5>1. t \in Nat
          BY TimeFacts
        <5>2. t < now - Raw
          BY <1>1, <4>1, <4>2, <5>1
        <5>3. AllOfRecorded(i, t)
          OBVIOUS
        <5> QED BY <2>1, <5>2, <5>3 DEF AllOfRecorded
      <4>3. rollups'[k][b] = rollups[k][b]
        BY <2>3, <4>2
      <4> QED BY <1>4, <1>7, <2>4, <4>1, <4>3
    <3> QED BY <3>1, <3>2
  <2>5. b + Size <= lastPass => b + Size <= now
    BY <1>1
  <2>6. Shared /\ Early /\ Settled /\ Found /\ InPlace
    BY <1>4, <2>1, <2>2, <2>4, <2>5
  <2> QED BY <1>3, <2>6
<1>14. CASE DeleteSamples
  <2>1. /\ UNCHANGED <<now, lastPass, first, recorded, rollups, severed>>
        /\ pass.step = "samples" /\ pass'.step = "rollups"
    BY <1>14 DEF DeleteSamples, history, TrafficType
  <2>2. b >= now - Raw /\ Whole(k, b)' => Whole(k, b) /\ Total(Share(k, b)') = Total(Share(k, b))
    BY <1>2, <1>14, ShareLeft
  <2>3. Shared /\ Early /\ Settled /\ Found /\ InPlace
    BY <1>4, <2>1, <2>2
  <2> QED BY <1>3, <2>3
<1>15. CASE DeleteRollups
  <2>1. /\ UNCHANGED <<now, samples, first, recorded, severed>>
        /\ pass.step = "rollups" /\ pass'.step = "idle" /\ lastPass' = now
        /\ rollups'[k][b] = IF b >= now - Keep THEN rollups[k][b] ELSE Null
    BY <1>15, RecordsWell DEF DeleteRollups, history, OfThisTick
  <2>2. Share(k, b)' = Share(k, b) /\ (Whole(k, b)' => Whole(k, b))
    BY <1>6, <2>1
  <2>3. Shared /\ Early /\ Settled /\ Found /\ InPlace
    BY <1>4, <2>1, <2>2
  <2> QED BY <1>3, <2>3
<1>16. ASSUME NEW i \in Keys, Transfer(i) \/ Reset(i, Null) \/ Reset(i, 0) PROVE AllOfRecorded(k, b)'
  BY <1>8, <1>16 DEF Transfer, Reset, history
<1>17. CASE PollAsks \/ PollReads \/ PollStops
  BY <1>8, <1>17 DEF PollAsks, PollReads, PollStops, history
<1>18. CASE Syncs
  BY <1>8, <1>18 DEF Syncs, SyncAsks, SyncReads, CompleteNodeReconcile, SyncStops, history
<1>19. CASE UNCHANGED trafficVars
  BY <1>8, <1>19 DEF trafficVars
<1> QED BY <1>9, <1>10, <1>11, <1>12, <1>13, <1>14, <1>15, <1>16, <1>17, <1>18, <1>19
        DEF TrafficNext, Node, Polls, Passes

-----------------------------------------------------------------------------
(* The theorems *)

LEMMA TrafficStart == TrafficInit => TrafficInv
<1> SUFFICES ASSUME TrafficInit PROVE TrafficInv
  OBVIOUS
<1>1. TrafficType
  BY TypeStart
<1>2. /\ now = 0 /\ lastPass = 0 /\ samples = Never /\ rollups = Never /\ current = Nothing /\ last = Nothing
      /\ first = Nothing /\ snapshot.step = "idle" /\ sync.step = "idle" /\ pass.step = "idle" /\ pass.found = Never
      /\ peer = [k \in Keys |-> 0] /\ passed = [k \in Keys |-> 0] /\ recorded = [k \in Keys |-> [t \in Times |-> 0]]
  BY <1>1, RecordsWell DEF TrafficInit
<1>3. \A k \in Keys : Sampled(k) = {}
  BY <1>2 DEF Sampled, Never
<1>4. OfThisTick
  BY <1>2, <1>3, TimeFacts DEF OfThisTick
<1>5. \A k \in Keys : LineOf(k)
  BY <1>2, <1>3 DEF LineOf, Nothing
<1>6. ASSUME NEW k \in Keys PROVE FitsOf(k)
  <2>1. recorded[k] \in [Times -> Int] /\ \A t \in Times : recorded[k][t] = 0
    BY <1>2
  <2>2. Total(recorded[k]) = 0
    BY <2>1, TotalOfNone
  <2>3. current[k] = Null /\ last[k] = Null /\ peer[k] = 0 /\ passed[k] = 0
    BY <1>2 DEF Nothing
  <2> QED BY <1>2, <2>2, <2>3, TimeFacts DEF FitsOf, Fits, Gain, Bytes
<1>7. ASSUME NEW k \in Keys, NEW b \in Times PROVE NoMoreThanRecorded(k, b) /\ AllOfRecorded(k, b)
  <2>1. Share(k, b) \in [Times -> Int] /\ \A t \in Times : Share(k, b)[t] = 0
    BY <1>3 DEF Share
  <2>2. Total(Share(k, b)) = 0
    BY <2>1, TotalOfNone
  <2>3. recorded[k][b] = 0 /\ rollups[k][b] = Null /\ pass.found[k][b] = Null
    BY <1>2 DEF Never
  <2> QED BY <1>2, <2>2, <2>3 DEF NoMoreThanRecorded, AllOfRecorded, Bytes
<1> QED BY <1>1, <1>4, <1>5, <1>6, <1>7 DEF TrafficInv

LEMMA TrafficSteps == TrafficInv /\ [TrafficNext]_trafficVars => TrafficInv'
<1> SUFFICES ASSUME TrafficInv, [TrafficNext]_trafficVars PROVE TrafficInv'
  OBVIOUS
<1>1. /\ TrafficType /\ OfThisTick /\ \A k \in Keys : LineOf(k)
      /\ \A k \in Keys, b \in Times : NoMoreThanRecorded(k, b) /\ AllOfRecorded(k, b)
      /\ ~crossed => \A k \in Keys : FitsOf(k)
  BY DEF TrafficInv
<1>2. TrafficType'
  BY <1>1, TypeStep
<1>3. OfThisTick'
  BY <1>1, <1>2, ThisTickStep
<1>4. \A k \in Keys : LineOf(k)'
  BY <1>1, <1>2, <1>3, LineStep
<1>5. ~crossed' => \A k \in Keys : FitsOf(k)'
  BY <1>1, <1>2, FitsStep
<1>6. \A k \in Keys, b \in Times : NoMoreThanRecorded(k, b)'
  BY <1>1, <1>2, NoMoreStep
<1>7. \A k \in Keys, b \in Times : AllOfRecorded(k, b)'
  BY <1>1, <1>2, <1>3, AllStep
<1> QED BY <1>2, <1>3, <1>4, <1>5, <1>6, <1>7 DEF TrafficInv

\* What traffic a key has passed, its buckets sum up to no more: polls and
\* maintenance may interleave and stop anywhere, as long as no reconcile wrote
\* back what it had read before a poll.
THEOREM TrafficIsCountedOnce == TrafficSpec => []CountedOnce
<1>1. TrafficInv => CountedOnce
  <2> SUFFICES ASSUME TrafficInv, ~crossed, NEW k \in Keys PROVE Sum(rollups[k]) <= passed[k]
    BY DEF CountedOnce
  <2>1. TrafficType /\ FitsOf(k) /\ \A b \in Times : NoMoreThanRecorded(k, b)
    BY DEF TrafficInv
  <2> DEFINE x == [t \in Times |-> Bytes(rollups[k][t])]
  <2>2. x \in [Times -> Nat] /\ recorded[k] \in [Times -> Nat]
    BY <2>1, BucketTypes DEF TrafficType
  <2>3. \A t \in Times : x[t] <= recorded[k][t]
    BY <2>1 DEF NoMoreThanRecorded
  <2>4. Sum(rollups[k]) = Total(x)
    BY DEF Sum
  <2>5. Total(recorded[k]) <= passed[k]
    <3> DEFINE R == Total(recorded[k])  g == Gain(current[k], last[k])  h == Gain(peer[k], current[k])
    <3>1. R \in Nat /\ g \in Nat /\ h \in Nat /\ passed[k] \in Nat
      BY <2>1, FitsTypes
    <3>2. R + g + h <= passed[k]
      BY <2>1 DEF FitsOf, Fits
    <3> HIDE DEF R, g, h
    <3>3. R <= passed[k]
      BY <3>1, <3>2
    <3> QED BY <3>3 DEF R
  <2> HIDE DEF x
  <2>6. Total(x) \in Nat /\ Total(recorded[k]) \in Nat /\ Total(x) <= Total(recorded[k]) /\ passed[k] \in Nat
    BY <2>1, <2>2, <2>3, BytesTotal, TotalOrder DEF TrafficType
  <2> QED BY <2>4, <2>5, <2>6
<1> QED BY <1>1, TrafficStart, TrafficSteps, PTL DEF TrafficSpec

\* A bucket from before the samples that are left says all that its samples
\* said, until it is too old to keep: replacing buckets and deleting samples
\* never loses any of it, wherever a pass stops.
THEOREM SettledBucketsAreComplete == TrafficSpec => []SettledAreComplete
<1>1. TrafficInv => SettledAreComplete
  <2> SUFFICES ASSUME TrafficInv, NEW k \in Keys, NEW b \in Times, b < lastPass - Raw, b >= now - Keep,
                      <<k, b>> \notin severed
               PROVE  Bytes(rollups[k][b]) = recorded[k][b]
    BY DEF SettledAreComplete
  <2>1. AllOfRecorded(k, b) /\ TrafficType
    BY DEF TrafficInv
  <2>2. b + Size <= lastPass
    BY <2>1, BucketTypes, TimeFacts, PeriodAssumption
  <2> QED BY <2>1, <2>2 DEF AllOfRecorded
<1> QED BY <1>1, TrafficStart, TrafficSteps, PTL DEF TrafficSpec
=============================================================================
