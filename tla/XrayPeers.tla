----------------------------- MODULE XrayPeers ------------------------------
(***************************************************************************)
(* The clients of the Xray protocol on a node: one JSON file and the       *)
(* container that reads it when it starts.  Creations hold one mutex,      *)
(* updates, deletions and the sweep of expired clients another, an import  *)
(* none; each call reads the file, writes it as a whole and restarts the   *)
(* container.  All of them write through one temporary file.               *)
(***************************************************************************)
EXTENDS Naturals, FiniteSets

CONSTANTS
    Ids,            \* client ids, one per creation
    None,           \* no entry
    Keep,           \* an option of an update that was not given
    Missing,        \* no temporary file
    Cut, Torn,      \* a file that is being written; one of two writers' pieces
    Backups,        \* what may be imported
    MaxPeers,       \* SERVER_MAX_PEERS
    MaxTime,        \* bound: the clock, and the latest expiry
    MaxCalls,       \* bound: updates and deletions
    MaxFailures     \* bound: failed commands and deaths of the agent

ASSUME ValuesAssumption == None # Keep /\ Keep \notin Nat \cup {"active", "disabled"}
ASSUME BoundsAssumption ==
    /\ MaxPeers \in Nat /\ MaxTime \in Nat /\ MaxCalls \in Nat /\ MaxFailures \in Nat
    /\ IsFiniteSet(Ids)

VARIABLES
    file,       \* server.json: clients and clientsDisabled of the first inbound
    draft,      \* server.json.tmp, which every write goes through
    running,    \* what the container read when it started
    call,       \* the call each mutex, or an import, has in progress
    answered,   \* what the last answer about a client said of it
    now,
    calls, failures,    \* bounds
    imported,   \* bound and history: a backup was imported
    lost,       \* history: clients a backup or a write about others changed
    behind      \* history: the file was written and no restart has come through

vars == <<file, draft, running, call, answered, now, calls, failures, imported, lost, behind>>

Times == 0 .. MaxTime       \* 0: without an expiry
Entry == [status : {"active", "disabled"}, expires : Times]
Config == [Ids -> Entry \cup {None}]

ASSUME NoneAssumption ==
    /\ None \notin Entry
    /\ Cut \notin Config \cup {Missing} /\ Torn \notin Config \cup {Missing} /\ Missing \notin Config
ASSUME BackupsAssumption == Backups \subseteq Config

Slots == {"create", "change", "import"}

\* What a call has still to do: content is what it will write, and into the
\* file its command has open, by now another name's or none's.
Call == [ids : SUBSET Ids, step : {"idle", "read", "write", "fill", "move", "restart", "answer"},
         content : Config, says : {"unknown", "active", "disabled", "deleted"},
         into : {"none", "draft", "file"}]

Empty == [id \in Ids |-> None]
Idle == [ids |-> {}, step |-> "idle", content |-> Empty, says |-> "unknown", into |-> "none"]

\* A file that is no JSON holds no client for whoever starts with it, and fails
\* whoever reads it to change it.
Readable(f) == f \notin {Cut, Torn}
Clientele(f) == IF Readable(f) THEN f ELSE Empty

Clients(config) == {id \in Ids : config[id] # None}
Active(config) == {id \in Clients(config) : config[id].status = "active"}
Expired(config) == {id \in Active(config) : config[id].expires \in 1 .. now}

\* A call that has read the file begins to write; nothing is known of its
\* clients until it answers, whatever an earlier call has still to say.
Writes(s, ids, content, says) ==
    /\ call' = [q \in Slots |->
                   IF q = s THEN [Idle EXCEPT !.ids = ids, !.step = "write", !.content = content,
                                              !.says = says]
                   ELSE IF ids \cap call[q].ids # {} THEN [call[q] EXCEPT !.says = "unknown"]
                   ELSE call[q]]
    /\ answered' = [id \in Ids |-> IF id \in ids THEN "unknown" ELSE answered[id]]

Counted == calls < MaxCalls /\ calls' = calls + 1

-----------------------------------------------------------------------------
(* Calls *)

\* The peers are listed and counted before the file is read for the creation,
\* which is when a file that is no JSON, or empty, fails it.
HasRoom == Cardinality(Clients(Clientele(file))) < MaxPeers

CreateClient(id) ==
    /\ call["create"] = Idle
    /\ answered[id] = "unmade"
    /\ HasRoom
    /\ call' = [call EXCEPT !["create"] = [Idle EXCEPT !.ids = {id}, !.step = "read"]]
    /\ UNCHANGED <<file, draft, running, answered, now, calls, failures, imported, lost, behind>>

ReadToCreate(e) ==
    /\ call["create"].step = "read"
    /\ Readable(file)
    /\ Writes("create", call["create"].ids,
              [id \in Ids |-> IF id \in call["create"].ids
                              THEN [status |-> "active", expires |-> e] ELSE file[id]],
              "active")
    /\ UNCHANGED <<file, draft, running, now, calls, failures, imported, lost, behind>>

ReadInVain ==
    /\ call["create"].step = "read"
    /\ ~Readable(file)
    /\ call' = [call EXCEPT !["create"] = Idle]
    /\ UNCHANGED <<file, draft, running, answered, now, calls, failures, imported, lost, behind>>

\* Mutant: an update that names no status writes none.
TargetNamed(entry, e, st) == st

\* The status an update leads to: the one it names, or the one its expiry says.
Target(entry, e, st) ==
    IF st # Keep THEN st
    ELSE IF e = Keep THEN entry.status
    ELSE IF e \in 1 .. now THEN "disabled" ELSE "active"

UpdateClient(id, e, st) ==
    /\ Counted
    /\ call["change"] = Idle
    /\ Readable(file) /\ file[id] # None
    /\ LET to == Target(file[id], e, st)
       IN  Writes("change", {id},
                  [file EXCEPT ![id] = [status |-> to, expires |-> IF e = Keep THEN @.expires ELSE e]],
                  to)
    /\ UNCHANGED <<file, draft, running, now, failures, imported, lost, behind>>

\* Mutant: a client that is disabled is not looked for.
DeleteActiveClient(id) ==
    /\ Counted
    /\ call["change"] = Idle
    /\ Readable(file) /\ file[id] # None
    /\ Writes("change", {id}, IF id \in Active(file) THEN [file EXCEPT ![id] = None] ELSE file, "deleted")
    /\ UNCHANGED <<file, draft, running, now, failures, imported, lost, behind>>

DeleteClient(id) ==
    /\ Counted
    /\ call["change"] = Idle
    /\ Readable(file) /\ file[id] # None
    /\ Writes("change", {id}, [file EXCEPT ![id] = None], "deleted")
    /\ UNCHANGED <<file, draft, running, now, failures, imported, lost, behind>>

\* Mutant: a client is looked at once its day is over.
DisableLongExpired ==
    LET gone == {id \in Expired(Clientele(file)) : file[id].expires < now}
    IN  /\ call["change"] = Idle
        /\ gone # {}
        /\ Writes("change", gone,
                  [id \in Ids |-> IF id \in gone THEN [file[id] EXCEPT !.status = "disabled"] ELSE file[id]],
                  "unknown")
        /\ UNCHANGED <<file, draft, running, now, calls, failures, imported, lost, behind>>

\* The sweep, every minute; it writes nothing when nothing has expired.
DisableExpired ==
    /\ call["change"] = Idle
    /\ LET due == Expired(Clientele(file))
       IN /\ due # {}
          /\ Writes("change", due,
                    [id \in Ids |-> IF id \in due THEN [file[id] EXCEPT !.status = "disabled"]
                                    ELSE file[id]],
                    "unknown")
    /\ UNCHANGED <<file, draft, running, now, calls, failures, imported, lost, behind>>

\* A backup, of this node or another; whom it holds is not one to be made any
\* more, and a client that is being made is in none.
ImportBackup(b) ==
    /\ ~imported /\ imported' = TRUE
    /\ \A id \in Clients(b) \cap call["create"].ids : call["create"].step \in {"restart", "answer"}
    /\ call' = [call EXCEPT !["import"] = [Idle EXCEPT !.step = "write", !.content = b]]
    /\ answered' = [id \in Ids |-> IF id \in Clients(b) /\ answered[id] = "unmade" THEN "unknown"
                                   ELSE answered[id]]
    /\ UNCHANGED <<file, draft, running, now, calls, failures, lost, behind>>

-----------------------------------------------------------------------------
(* What every call goes through.  A write is one command: it opens the       *)
(* temporary file, which empties it, fills it and moves it into place.  The  *)
(* command of another call may do so at the same time, to the same file.     *)

Open(s) ==
    /\ call[s].step = "write"
    /\ draft' = Cut
    /\ call' = [call EXCEPT ![s].step = "fill", ![s].into = "draft"]
    /\ UNCHANGED <<file, running, answered, now, calls, failures, imported, lost, behind>>

\* The file that the command has open, with its name or already under the other.
Opened(s) == IF call[s].into = "draft" THEN draft ELSE file

\* Nobody else has written to it, or is about to.
Alone(s) ==
    /\ Opened(s) = Cut
    /\ \A q \in Slots \ {s} : call[q].step = "fill" => call[q].into # call[s].into

Poured(s) == {call[s].content} \cup IF Alone(s) THEN {} ELSE {Torn}

Changed(f) == {id \in Ids : Clientele(f)[id] # Clientele(file)[id]}

Fill(s) ==
    /\ call[s].step = "fill"
    /\ \E f \in Poured(s) :
          CASE call[s].into = "draft" -> draft' = f /\ UNCHANGED <<file, lost, behind>>
            [] call[s].into = "file" ->
                  /\ file' = f /\ behind' = TRUE
                  /\ lost' = lost \cup call[s].ids \cup Changed(f)
                  /\ UNCHANGED draft
            [] OTHER -> UNCHANGED <<file, draft, lost, behind>>
    /\ call' = [call EXCEPT ![s].step = "move", ![s].into = "none"]
    /\ UNCHANGED <<running, answered, now, calls, failures, imported>>

\* Whatever the temporary file is by now takes the place of the file; a command
\* that has it open goes on writing to it there.
Move(s) ==
    /\ call[s].step = "move"
    /\ draft # Missing
    /\ file' = draft
    /\ draft' = Missing
    /\ lost' = lost \cup {id \in call[s].ids : Clientele(draft)[id] # call[s].content[id]}
                   \cup (Changed(draft) \ call[s].ids)
    /\ behind' = TRUE
    /\ call' = [q \in Slots |->
                   IF q = s THEN [call[q] EXCEPT !.step = "restart", !.content = Empty]
                   ELSE [call[q] EXCEPT !.into = IF @ = "draft" THEN "file" ELSE "none"]]
    /\ UNCHANGED <<running, answered, now, calls, failures, imported>>

\* Another command has moved it away: this one fails, and its call with it.
MoveInVain(s) ==
    /\ call[s].step = "move"
    /\ draft = Missing
    /\ call' = [call EXCEPT ![s] = Idle]
    /\ UNCHANGED <<file, draft, running, answered, now, calls, failures, imported, lost, behind>>

Says(s) ==
    answered' = [id \in Ids |-> IF id \in call[s].ids THEN call[s].says ELSE answered[id]]

\* A creation has the public key and the short id to read yet.
Restart(s) ==
    /\ call[s].step = "restart"
    /\ running' = Clientele(file)
    /\ behind' = FALSE
    /\ IF s = "create" THEN call' = [call EXCEPT ![s].step = "answer"] /\ UNCHANGED answered
       ELSE Says(s) /\ call' = [call EXCEPT ![s] = Idle]
    /\ UNCHANGED <<file, draft, now, calls, failures, imported, lost>>

Answer(s) ==
    /\ call[s].step = "answer"
    /\ Says(s)
    /\ call' = [call EXCEPT ![s] = Idle]
    /\ UNCHANGED <<file, draft, running, now, calls, failures, imported, lost, behind>>

\* A command fails, runs out of time or is stopped by a restart of the container;
\* a restart may come through all the same.
Fail(s) ==
    /\ failures < MaxFailures /\ failures' = failures + 1
    /\ call[s].step # "idle"
    /\ call' = [call EXCEPT ![s] = Idle]
    /\ \/ UNCHANGED <<running, behind>>
       \/ call[s].step = "restart" /\ running' = Clientele(file) /\ behind' = FALSE
    /\ UNCHANGED <<file, draft, answered, now, calls, imported, lost>>

AgentDies ==
    /\ failures < MaxFailures /\ failures' = failures + 1
    /\ call' = [s \in Slots |-> Idle]
    /\ UNCHANGED <<file, draft, running, answered, now, calls, imported, lost, behind>>

ContainerRestarts ==
    /\ running' = Clientele(file)
    /\ behind' = FALSE
    /\ UNCHANGED <<file, draft, call, answered, now, calls, failures, imported, lost>>

Tick ==
    /\ now < MaxTime
    /\ now' = now + 1
    /\ UNCHANGED <<file, draft, running, call, answered, calls, failures, imported, lost, behind>>

-----------------------------------------------------------------------------
Steps(s) ==
    \/ Open(s) \/ Fill(s) \/ Move(s) \/ MoveInVain(s) \/ Restart(s) \/ Answer(s)
    \/ s = "create" /\ (ReadInVain \/ \E e \in Times : ReadToCreate(e))

Requests ==
    \/ \E id \in Ids : CreateClient(id) \/ DeleteClient(id)
    \/ \E id \in Ids, e \in Times \cup {Keep}, st \in {"active", "disabled", Keep} : UpdateClient(id, e, st)
    \/ \E b \in Backups : ImportBackup(b)

Next ==
    \/ Requests \/ DisableExpired \/ Tick \/ ContainerRestarts \/ AgentDies
    \/ \E s \in Slots : Steps(s) \/ Fail(s)

Init ==
    /\ file = Empty /\ running = Empty /\ draft = Missing
    /\ call = [s \in Slots |-> Idle]
    /\ answered = [id \in Ids |-> "unmade"]
    /\ now = 0 /\ calls = 0 /\ failures = 0
    /\ imported = FALSE /\ lost = {} /\ behind = FALSE

Spec == Init /\ [][Next]_vars

\* The agent carries its calls on, and the sweep comes round.
FairSpec ==
    /\ Spec
    /\ \A s \in Slots : WF_vars(Steps(s))
    /\ WF_vars(DisableExpired)

-----------------------------------------------------------------------------
(* Properties *)

\* The files hold entries, and a call knows what it will write.
TypeOK ==
    /\ file \in Config \cup {Cut, Torn} /\ running \in Config
    /\ draft \in Config \cup {Cut, Torn, Missing}
    /\ call \in [Slots -> Call]
    /\ answered \in [Ids -> {"unmade", "unknown", "active", "disabled", "deleted"}]
    /\ now \in Times /\ calls \in 0 .. MaxCalls /\ failures \in 0 .. MaxFailures
    /\ lost \subseteq Ids /\ imported \in BOOLEAN /\ behind \in BOOLEAN

\* What an answer said of a client is what the file says, until the next call
\* about it, unless two calls crossed: one wrote back what it had read before
\* the other's write, or both wrote to the temporary file at once.
AnswersHold ==
    \A id \in Ids \ lost : answered[id] \in {"active", "disabled", "deleted"} =>
        IF answered[id] = "deleted" THEN Clientele(file)[id] = None
        ELSE Clientele(file)[id] # None /\ Clientele(file)[id].status = answered[id]

\* A client whose time is over is shut out of the container in the end, and
\* stays so, unless the file was written without a restart since, be it that the
\* restart failed or the write that reached the file: the sweep looks at the
\* file alone, and finds nothing in it to do.
ExpiredIsCutOff ==
    \A id \in Ids : <>[](id \in Expired(running) => behind /\ id \notin Expired(Clientele(file)))
=============================================================================
