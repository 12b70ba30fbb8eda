---------------------------- MODULE NodeChanges -----------------------------
(***************************************************************************)
(* The two changes the panel asks a node's host for: another agent image   *)
(* ("update") and another peer limit ("capacity").  The agent leaves a     *)
(* request in a spool; a script of the host consumes it, rewrites .env,    *)
(* recreates the agent, and leaves a result.  Each kind has a spool, a     *)
(* script and a lock of its own; .env and the agent they share.  The       *)
(* telemetry poll brings the outcome to the node's row.                    *)
(***************************************************************************)
EXTENDS Naturals, FiniteSets

CONSTANTS
    Values,         \* images, and peer limits
    First,          \* the one the node starts with
    None,
    MaxJobs,        \* bound: changes the administrators ask for
    MaxAttempts,    \* attempts of a job
    MaxRequests,    \* bound: requests the agent accepts
    MaxDeaths       \* bound: deaths of a script

ASSUME ValuesAssumption == First \in Values /\ None \notin Values
ASSUME BoundsAssumption ==
    /\ MaxJobs \in Nat /\ MaxAttempts \in Nat \ {0}
    /\ MaxRequests \in Nat /\ MaxDeaths \in Nat

Kinds == {"update", "capacity"}
Ids == 1 .. MaxRequests     \* one per accepted request
Jobs == 1 .. MaxJobs

Env == [Kinds -> Values]
Request == [id : Ids, value : Values]
Marker == [id : Ids, value : Values, expired : BOOLEAN]
Outcome == [id : Ids, value : Values, ok : BOOLEAN]

\* "requested" and "running" are one wait: only what is shown tells them apart.
States == {"idle", "waiting", "succeeded", "failed"}

ASSUME NoneAssumption == None \notin Marker

VARIABLES
    env,        \* the host's .env: image and peer limit
    agent,      \* what the running agent was created with
    request, pending, result,   \* the files of each spool, None if absent
    script,     \* the host script of each kind
    lock,       \* .deploy.lock, which only the capacity script takes
    jobs, worker,       \* the outbox and the runner
    row,        \* what the panel shows; id is the request it last recorded
    poll,       \* the answer telemetry has read and not recorded, None if none
    ids, deaths,        \* bounds
    torn,       \* history: kinds whose .env and agent a death or another script parted
    overtaken,  \* history: kinds whose row was recorded over an answer held
    early       \* history: kinds whose row shows a wait no request stands for yet

spool == <<request, pending, result>>
host == <<env, agent, script, lock, deaths, torn>>
panel == <<jobs, worker, row, poll, overtaken, early>>
vars == <<env, agent, request, pending, result, script, lock, jobs, worker, row, poll, ids,
          deaths, torn, overtaken, early>>

Places == {"idle", "read", "check", "saved", "edit", "up", "gate", "undo", "reedit", "reup"}
IdleScript == [pc |-> "idle", req |-> None, saved |-> None, edit |-> None]
IdleWorker == [pc |-> "idle", job |-> 0, id |-> 0]

NextId == ids + 1

\* A job that was completed or has failed.
Done == [kind |-> "update", value |-> First, status |-> "done", attempts |-> 0]

-----------------------------------------------------------------------------
(* The agent's answers *)

\* Mutant: any result is taken for the pending request's.
AnyResult(k) == pending[k] # None /\ result[k] # None

ResultIsForPending(k) ==
    pending[k] # None /\ result[k] # None /\ pending[k].id = result[k].id

\* The files of a spool as one state.  The request an answer is about is known
\* to the model only.
Status(k) ==
    IF pending[k] # None /\ ~ResultIsForPending(k)
    THEN [state |-> IF pending[k].expired THEN "failed" ELSE "waiting",
          value |-> pending[k].value, id |-> pending[k].id]
    ELSE IF result[k] # None
    THEN [state |-> IF result[k].ok THEN "succeeded" ELSE "failed",
          value |-> result[k].value, id |-> result[k].id]
    ELSE [state |-> "idle", value |-> None, id |-> 0]

\* One change at a time, as long as the one before is not past its deadline.
InFlight(k) == request[k] # None /\ pending[k] # None /\ ~pending[k].expired

\* The deadline outlasts a script that starts at once; one whose start was
\* delayed may still be at work when it passes.
DeadlinePasses(k) ==
    /\ pending[k] # None /\ ~pending[k].expired
    /\ ~ResultIsForPending(k)
    /\ pending' = [pending EXCEPT ![k].expired = TRUE]
    /\ UNCHANGED <<request, result, host, panel, ids>>

-----------------------------------------------------------------------------
(* The panel: the administrator's request and the worker's job *)

\* A change of capacity shows as requested before any job has run: until then
\* what the agent has to say is of the request before.
AskFor(j, k, v) ==
    /\ jobs[j].status = "none"
    /\ \A i \in Jobs : i < j => jobs[i].status # "none"
    /\ jobs' = [jobs EXCEPT ![j] = [kind |-> k, value |-> v, status |-> "pending", attempts |-> 0]]
    /\ row' = IF k = "capacity" THEN [row EXCEPT ![k].state = "waiting"] ELSE row
    /\ early' = IF k = "capacity" THEN early \cup {k} ELSE early
    /\ UNCHANGED <<spool, host, worker, poll, ids, overtaken>>

\* The job is claimed and the agent called: the marker first, the trigger after
\* it, two files and two renames, between which the agent may be stopped.
Post(j) ==
    /\ worker.pc = "idle"
    /\ jobs[j].status = "pending"
    /\ jobs' = [jobs EXCEPT ![j].status = "processing", ![j].attempts = @ + 1]
    /\ \/ /\ ids < MaxRequests
          /\ ~InFlight(jobs[j].kind)
          /\ ids' = NextId
          /\ pending' = [pending EXCEPT ![jobs[j].kind] =
                            [id |-> NextId, value |-> jobs[j].value, expired |-> FALSE]]
          /\ \/ /\ request' = [request EXCEPT ![jobs[j].kind] = [id |-> NextId, value |-> jobs[j].value]]
                /\ worker' = [pc |-> "posted", job |-> j, id |-> NextId]
             \/ /\ worker' = [pc |-> "refused", job |-> j, id |-> 0]
                /\ UNCHANGED request
       \/ /\ worker' = [pc |-> "refused", job |-> j, id |-> 0]
          /\ UNCHANGED <<pending, request, ids>>
    /\ UNCHANGED <<result, host, row, poll, overtaken, early>>

JobKind == jobs[worker.job].kind

\* Mutant: one attempt more.
RetryOneMore ==
    /\ worker.pc # "idle"
    /\ jobs' = [jobs EXCEPT ![worker.job] =
                    IF @.attempts <= MaxAttempts THEN [@ EXCEPT !.status = "pending"] ELSE Done]
    /\ worker' = IdleWorker
    /\ UNCHANGED <<spool, host, row, poll, ids, overtaken, early>>

\* A refusal, an agent that does not answer or a reply that is lost.
Retry ==
    /\ worker.pc # "idle"
    /\ jobs' = [jobs EXCEPT ![worker.job] =
                    IF @.attempts < MaxAttempts THEN [@ EXCEPT !.status = "pending"] ELSE Done]
    /\ worker' = IdleWorker
    /\ UNCHANGED <<spool, host, row, poll, ids, overtaken, early>>

CompleteRequest ==
    /\ worker.pc = "posted"
    /\ row' = [row EXCEPT ![JobKind] = [state |-> "waiting", id |-> worker.id]]
    /\ overtaken' = IF poll # None /\ poll.kind = JobKind THEN {JobKind} ELSE overtaken
    /\ early' = early \ {JobKind}
    /\ jobs' = [jobs EXCEPT ![worker.job] = Done]
    /\ worker' = IdleWorker
    /\ UNCHANGED <<spool, host, poll, ids>>

\* The poll asks only for what the row shows as under way, one kind after the
\* other; how long it holds an answer is open.
PollRead(k) ==
    /\ poll = None
    /\ row[k].state = "waiting"
    /\ poll' = [kind |-> k, state |-> Status(k).state, id |-> Status(k).id]
    /\ UNCHANGED <<spool, host, jobs, worker, row, ids, overtaken, early>>

PollRecord(k) ==
    /\ poll # None /\ poll.kind = k
    /\ row' = [row EXCEPT ![k].state = poll.state]
    /\ poll' = None
    /\ overtaken' = {}
    /\ early' = IF poll.state = "waiting" THEN early ELSE early \ {k}
    /\ UNCHANGED <<spool, host, jobs, worker, ids>>

-----------------------------------------------------------------------------
(* The host's scripts *)

Goto(k, pc) == script' = [script EXCEPT ![k].pc = pc]

Finish(k, ok) ==
    /\ result' = [result EXCEPT ![k] = [id |-> script[k].req.id, value |-> script[k].req.value, ok |-> ok]]
    /\ script' = [script EXCEPT ![k] = IdleScript]

\* Open and read the request, then remove it, whatever it is by then.
ReadRequest(k) ==
    /\ script[k].pc = "idle"
    /\ request[k] # None
    /\ script' = [script EXCEPT ![k] = [IdleScript EXCEPT !.pc = "read", !.req = request[k]]]
    /\ UNCHANGED <<spool, env, agent, lock, deaths, torn, panel, ids>>

Consume(k) ==
    /\ script[k].pc = "read"
    /\ request' = [request EXCEPT ![k] = None]
    /\ Goto(k, "check")
    /\ UNCHANGED <<pending, result, env, agent, lock, deaths, torn, panel, ids>>

\* What .env has is taken for what the agent runs.
AlreadyThere(k) ==
    /\ script[k].pc = "check"
    /\ env[k] = script[k].req.value
    /\ Finish(k, TRUE)
    /\ UNCHANGED <<request, pending, env, agent, lock, deaths, torn, panel, ids>>

Unlock(k) == lock' = (lock /\ k # "capacity")

\* A check, a pull or a held lock refuses the change.
Refuse(k) ==
    /\ script[k].pc = "check"
    /\ env[k] # script[k].req.value
    /\ Finish(k, FALSE)
    /\ UNCHANGED <<request, pending, env, agent, lock, deaths, torn, panel, ids>>

\* What is to be restored is saved first; the capacity script takes the lock.
Save(k) ==
    /\ script[k].pc = "check"
    /\ env[k] # script[k].req.value
    /\ k = "capacity" => ~lock
    /\ lock' = (lock \/ k = "capacity")
    /\ script' = [script EXCEPT ![k].pc = "saved", ![k].saved = env]
    /\ UNCHANGED <<spool, env, agent, deaths, torn, panel, ids>>

\* The whole file is read into a new one with the script's own line changed,
\* which is renamed into place by the next step.
EditEnv(k, from, to, value) ==
    /\ script[k].pc = from
    /\ script' = [script EXCEPT ![k].pc = to, ![k].edit = [env EXCEPT ![k] = value]]
    /\ UNCHANGED <<spool, env, agent, lock, deaths, torn, panel, ids>>

Apply(k) == EditEnv(k, "saved", "edit", script[k].req.value)

\* The file takes what was made of it; lines another script wrote since are lost.
ReplaceEnv(k, file, pc) ==
    /\ env' = file
    /\ torn' = torn \cup {o \in Kinds \ {k} : env'[o] # env[o]}
    /\ script' = [script EXCEPT ![k].pc = pc, ![k].edit = None]
    /\ UNCHANGED <<spool, agent, lock, deaths, panel, ids>>

WriteEnv(k) == script[k].pc = "edit" /\ ReplaceEnv(k, script[k].edit, "up")

\* The agent is recreated from the whole of .env.
AgentUp(k) ==
    /\ script[k].pc = "up"
    /\ agent' = env
    /\ Goto(k, "gate")
    /\ UNCHANGED <<spool, env, lock, deaths, torn, panel, ids>>

\* Mutant: the health gate is not waited for.
HealthyAnyway(k) ==
    /\ script[k].pc \in {"up", "gate"}
    /\ Finish(k, TRUE)
    /\ Unlock(k)
    /\ UNCHANGED <<request, pending, env, agent, deaths, torn, panel, ids>>

\* The capacity script looks at .env once more before it reports.
Healthy(k) ==
    /\ script[k].pc = "gate"
    /\ Finish(k, k = "capacity" => env[k] = script[k].req.value)
    /\ Unlock(k)
    /\ UNCHANGED <<request, pending, env, agent, deaths, torn, panel, ids>>

\* The new agent could not be started, or is not healthy.
Unhealthy(k) ==
    /\ script[k].pc \in {"up", "gate"}
    /\ Goto(k, "undo")
    /\ UNCHANGED <<spool, env, agent, lock, deaths, torn, panel, ids>>

\* The update restores the file it copied, the capacity script its own line.
Undo(k) == k = "capacity" /\ EditEnv(k, "undo", "reedit", script[k].saved[k])

Restore(k) ==
    \/ k = "update" /\ script[k].pc = "undo" /\ ReplaceEnv(k, script[k].saved, "reup")
    \/ script[k].pc = "reedit" /\ ReplaceEnv(k, script[k].edit, "reup")

\* A recreation that fails here is only logged.
RollBack(k) ==
    /\ script[k].pc = "reup"
    /\ agent' \in {env, agent}
    /\ torn' = torn \cup {o \in Kinds : agent'[o] # env[o]}
    /\ Finish(k, FALSE)
    /\ Unlock(k)
    /\ UNCHANGED <<request, pending, env, deaths, panel, ids>>

\* Killed by its time limit or with the host; its lock stays.
Die(k) ==
    /\ script[k].pc # "idle"
    /\ deaths < MaxDeaths
    /\ deaths' = deaths + 1
    /\ script' = [script EXCEPT ![k] = IdleScript]
    /\ torn' = IF env[k] # agent[k] THEN torn \cup {k} ELSE torn
    /\ UNCHANGED <<spool, env, agent, lock, panel, ids>>

-----------------------------------------------------------------------------
WorkerStep == (\E j \in Jobs : Post(j)) \/ Retry \/ CompleteRequest

ScriptStep(k) ==
    \/ ReadRequest(k) \/ Consume(k) \/ AlreadyThere(k) \/ Refuse(k)
    \/ Save(k) \/ Apply(k) \/ WriteEnv(k) \/ AgentUp(k) \/ Healthy(k)
    \/ Unhealthy(k) \/ Undo(k) \/ Restore(k) \/ RollBack(k)

PollStep(k) == PollRead(k) \/ PollRecord(k)

Next ==
    \/ \E j \in Jobs, k \in Kinds, v \in Values : AskFor(j, k, v)
    \/ WorkerStep
    \/ \E k \in Kinds : ScriptStep(k) \/ Die(k) \/ DeadlinePasses(k) \/ PollStep(k)

Init ==
    /\ env = [k \in Kinds |-> First] /\ agent = env
    /\ request = [k \in Kinds |-> None] /\ pending = request /\ result = request
    /\ script = [k \in Kinds |-> IdleScript]
    /\ lock = FALSE
    /\ jobs = [j \in Jobs |-> [Done EXCEPT !.status = "none"]]
    /\ worker = IdleWorker
    /\ row = [k \in Kinds |-> [state |-> "idle", id |-> 0]]
    /\ poll = None
    /\ ids = 0 /\ deaths = 0
    /\ torn = {} /\ overtaken = {} /\ early = {}

Spec == Init /\ [][Next]_vars

-----------------------------------------------------------------------------
(* Properties *)

TypeOK ==
    /\ env \in Env /\ agent \in Env
    /\ request \in [Kinds -> Request \cup {None}]
    /\ pending \in [Kinds -> Marker \cup {None}]
    /\ result \in [Kinds -> Outcome \cup {None}]
    /\ script \in [Kinds -> [pc : Places, req : Request \cup {None}, saved : Env \cup {None},
                             edit : Env \cup {None}]]
    /\ lock \in BOOLEAN
    /\ ids \in 0 .. MaxRequests /\ deaths \in 0 .. MaxDeaths
    /\ jobs \in [Jobs -> [kind : Kinds, value : Values, attempts : 0 .. MaxAttempts,
                           status : {"none", "pending", "processing", "done"}]]
    /\ worker \in [pc : {"idle", "posted", "refused"}, job : Jobs \cup {0}, id : 0 .. MaxRequests]
    /\ row \in [Kinds -> [state : States, id : 0 .. MaxRequests]]
    /\ poll \in [kind : Kinds, state : States, id : 0 .. MaxRequests] \cup {None}
    /\ torn \in SUBSET Kinds /\ overtaken \in SUBSET Kinds /\ early \in SUBSET Kinds

\* A change reported as made is the one the agent runs with, unless a script
\* died before it recreated the agent or the other one took it back: by the copy
\* it restored, or by writing whole a file it had read before.
SuccessIsTrueUnlessTorn ==
    \A k \in Kinds \ torn : Status(k).state = "succeeded" => agent[k] = Status(k).value

\* What ends the wait the row shows is the outcome of the request it shows or of
\* a later one, unless the poll read its answer before that request was recorded,
\* or the row has been waiting since the administrator asked and the request is
\* still to be made (set-capacity).
OutcomeIsTheRequests ==
    [][\A k \in Kinds : PollRecord(k) /\ poll.state # "waiting" =>
          k \in overtaken \cup early \/ poll.id >= row[k].id]_vars
=============================================================================
