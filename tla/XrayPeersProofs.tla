--------------------------- MODULE XrayPeersProofs ---------------------------
(***************************************************************************)
(* For any clients, backups, room, times and failures: the types, and that *)
(* what an answer said of a client stays true of the file.                 *)
(***************************************************************************)
EXTENDS XrayPeers, TLAPS

\* What was said of an entry is so.
Holds(entry, says) ==
    CASE says = "deleted" -> entry = None
      [] says \in {"active", "disabled"} -> entry # None /\ entry.status = says
      [] OTHER -> TRUE

\* The file is not written yet, or not by its name.
Writing == {"write", "fill", "move"}

\* A client that is being created is in nobody's hands but the creation's ...
CreatedByOne ==
    \A id \in Ids \ lost :
        /\ answered[id] = "unmade" => Clientele(file)[id] = None /\ id \notin call["change"].ids
        /\ id \in call["create"].ids /\ call["create"].step \in {"read"} \cup Writing =>
              /\ Clientele(file)[id] = None
              /\ id \notin call["change"].ids
        /\ id \in call["create"].ids =>
              answered[id] \in (IF call["create"].step = "read" THEN {"unmade"}
                                ELSE IF call["create"].step \in Writing THEN {"unknown"}
                                ELSE {"unknown", "active", "disabled", "deleted"})

\* ... and a change of it silences the creation, and whatever was said before.
ChangeSilences ==
    \A id \in Ids \ lost :
        id \in call["change"].ids /\ call["change"].step \in Writing =>
            /\ answered[id] = "unknown"
            /\ id \in call["create"].ids => call["create"].says = "unknown"

\* What a call will say is what it writes, and after that what the file has.
WillHold ==
    \A s \in Slots : \A id \in call[s].ids \ lost :
        /\ call[s].step = "read" => call[s].says = "unknown"
        /\ call[s].step \in Writing => Holds(call[s].content[id], call[s].says)
        /\ call[s].step \in {"restart", "answer"} => Holds(Clientele(file)[id], call[s].says)

\* An import names no client, and a step belongs to a call.
StepsOfCalls ==
    /\ call["import"].ids = {}
    /\ call["change"].step \notin {"read", "answer"} /\ call["import"].step \notin {"read", "answer"}
    /\ \A s \in Slots : call[s].step = "idle" => call[s] = Idle

AnswersInv ==
    /\ TypeOK
    /\ StepsOfCalls
    /\ CreatedByOne
    /\ ChangeSilences
    /\ WillHold
    /\ AnswersHold

-----------------------------------------------------------------------------
(* Types *)

Sayings == {"unknown", "active", "disabled", "deleted"}

LEMMA Constants ==
    /\ Empty \in Config /\ \A id \in Ids : Empty[id] = None
    /\ Idle \in Call /\ Idle.ids = {} /\ Idle.step = "idle"
BY DEF Empty, Config, Idle, Call

LEMMA Files ==
    ASSUME TypeOK
    PROVE  /\ Clientele(file) \in Config
           /\ Readable(file) => file \in Config /\ Clientele(file) = file
           /\ draft # Missing => Clientele(draft) \in Config /\ draft \in Config \cup {Cut, Torn}
BY Constants DEF Clientele, Readable, TypeOK

LEMMA Slot == \A s \in Slots : s = "create" \/ s = "change" \/ s = "import"
BY DEF Slots

LEMMA WritesTyped ==
    ASSUME TypeOK, NEW s \in Slots, NEW ids \in SUBSET Ids, NEW content \in Config, NEW says \in Sayings,
           Writes(s, ids, content, says)
    PROVE  /\ call' \in [Slots -> Call]
           /\ call'[s].ids = ids /\ call'[s].step = "write"
           /\ call'[s].content = content /\ call'[s].says = says
           /\ \A q \in Slots \ {s} :
                 /\ call'[q].ids = call[q].ids /\ call'[q].step = call[q].step
                 /\ call'[q].content = call[q].content
                 /\ call'[q] = call[q] \/ call'[q].says = "unknown"
                 /\ ids \cap call[q].ids = {} => call'[q] = call[q]
                 /\ ids \cap call[q].ids # {} => call'[q].says = "unknown"
           /\ answered' = [id \in Ids |-> IF id \in ids THEN "unknown" ELSE answered[id]]
<1> DEFINE new == [Idle EXCEPT !.ids = ids, !.step = "write", !.content = content, !.says = says]
<1>1. /\ new \in Call /\ new.ids = ids /\ new.step = "write"
      /\ new.content = content /\ new.says = says
    BY DEF Call, Sayings, Idle
<1>2. \A q \in Slots : call[q] \in Call /\ [call[q] EXCEPT !.says = "unknown"] \in Call
    BY DEF TypeOK, Call
<1>3. call' \in [Slots -> Call]
    BY <1>1, <1>2 DEF Writes
<1>4. call'[s] = new
    BY DEF Writes
<1>5. \A q \in Slots \ {s} :
         call'[q] = IF ids \cap call[q].ids # {} THEN [call[q] EXCEPT !.says = "unknown"] ELSE call[q]
    BY DEF Writes
<1> HIDE DEF new
<1> QED
    BY <1>1, <1>2, <1>3, <1>4, <1>5 DEF Writes, Call

LEMMA InitHolds == Init => AnswersInv
<1> SUFFICES ASSUME Init PROVE AnswersInv
    OBVIOUS
<1> USE Constants, BoundsAssumption DEF Init
<1>1. TypeOK
    <2>1. now \in Times /\ calls \in 0 .. MaxCalls /\ failures \in 0 .. MaxFailures
        BY DEF Times
    <2>2. /\ file \in Config /\ running \in Config /\ call \in [Slots -> Call]
          /\ draft \in Config \cup {Cut, Torn, Missing}
        OBVIOUS
    <2>3. answered \in [Ids -> {"unmade", "unknown", "active", "disabled", "deleted"}]
        OBVIOUS
    <2> QED BY <2>1, <2>2, <2>3 DEF TypeOK
<1>2. StepsOfCalls /\ CreatedByOne /\ ChangeSilences /\ WillHold /\ AnswersHold
    <2> Clientele(file) = Empty
        BY DEF Clientele
    <2> QED BY Slot DEF StepsOfCalls, CreatedByOne, ChangeSilences, WillHold, AnswersHold, Slots, Writing
<1> QED
    BY <1>1, <1>2 DEF AnswersInv

-----------------------------------------------------------------------------
(* Creations *)

LEMMA CreateStep ==
    ASSUME AnswersInv, NEW id \in Ids, CreateClient(id)
    PROVE  AnswersInv'
<1> USE DEF AnswersInv
<1>1. /\ call' \in [Slots -> Call]
      /\ call'["create"].ids = {id} /\ call'["create"].step = "read" /\ call'["create"].says = "unknown"
      /\ call'["change"] = call["change"] /\ call'["import"] = call["import"]
    BY Constants DEF CreateClient, TypeOK, Slots, Idle, Call
<1>2. UNCHANGED <<file, draft, running, answered, now, calls, failures, imported, lost, behind>>
    BY DEF CreateClient
<1>3. TypeOK'
    BY <1>1, <1>2 DEF TypeOK
<1>4. StepsOfCalls'
    BY <1>1, Slot DEF StepsOfCalls, Slots
<1> Clientele(file)' = Clientele(file)
    BY <1>2
<1>5. CreatedByOne'
    BY <1>1, <1>2 DEF CreatedByOne, CreateClient, Writing
<1>6. ChangeSilences' /\ AnswersHold'
    BY <1>1, <1>2 DEF ChangeSilences, AnswersHold
<1>7. WillHold'
    BY <1>1, <1>2, Slot DEF WillHold, Slots, Writing
<1> QED
    BY <1>3, <1>4, <1>5, <1>6, <1>7

LEMMA CreationWrites ==
    ASSUME AnswersInv, call["create"].step = "read",
           NEW ids \in SUBSET Ids, NEW content \in Config, NEW says \in Sayings,
           ids = call["create"].ids, \A id \in ids : Holds(content[id], says),
           Writes("create", ids, content, says),
           UNCHANGED <<file, draft, running, now, calls, failures, imported, lost, behind>>
    PROVE  AnswersInv'
<1> USE DEF AnswersInv
<1>1. /\ call' \in [Slots -> Call]
      /\ call'["create"].ids = ids /\ call'["create"].step = "write"
      /\ call'["create"].content = content /\ call'["create"].says = says
      /\ \A q \in Slots \ {"create"} :
            /\ call'[q].ids = call[q].ids /\ call'[q].step = call[q].step
            /\ call'[q].content = call[q].content
            /\ call'[q] = call[q] \/ call'[q].says = "unknown"
            /\ ids \cap call[q].ids = {} => call'[q] = call[q]
            /\ ids \cap call[q].ids # {} => call'[q].says = "unknown"
      /\ answered' = [id \in Ids |-> IF id \in ids THEN "unknown" ELSE answered[id]]
    BY WritesTyped DEF Slots
<1> Clientele(file)' = Clientele(file)
    OBVIOUS
<1>2. TypeOK'
    BY <1>1 DEF TypeOK
<1>3. StepsOfCalls'
    BY <1>1, Slot, Constants DEF StepsOfCalls, Slots
<1>4. CreatedByOne'
    BY <1>1 DEF CreatedByOne, Slots, TypeOK, Writing
<1>5. ChangeSilences'
    BY <1>1 DEF ChangeSilences, CreatedByOne, Slots, Writing
<1>6. WillHold'
    BY <1>1, Slot DEF WillHold, Slots, Holds, Writing
<1>7. AnswersHold'
    BY <1>1 DEF AnswersHold
<1> QED
    BY <1>2, <1>3, <1>4, <1>5, <1>6, <1>7

LEMMA ReadStep ==
    ASSUME AnswersInv, NEW e \in Times, ReadToCreate(e)
    PROVE  AnswersInv'
<1> DEFINE ids == call["create"].ids
           content == [id \in Ids |-> IF id \in ids THEN [status |-> "active", expires |-> e] ELSE file[id]]
<1>1. ids \in SUBSET Ids /\ content \in Config /\ "active" \in Sayings
    <2> call["create"] \in Call /\ file \in Config
        BY Files DEF AnswersInv, TypeOK, Slots, ReadToCreate
    <2> QED BY DEF Call, Config, Entry, Sayings
<1>2. Writes("create", ids, content, "active") /\ call["create"].step = "read"
      /\ UNCHANGED <<file, draft, running, now, calls, failures, imported, lost, behind>>
    BY DEF ReadToCreate
<1>3. \A id \in ids : content[id].status = "active" /\ content[id] # None
    BY <1>1, NoneAssumption DEF Config, Entry
<1>4. \A id \in ids : Holds(content[id], "active")
    BY <1>3 DEF Holds
<1>5. ids = call["create"].ids
    OBVIOUS
<1> HIDE DEF ids, content
<1> QED
    BY <1>1, <1>2, <1>4, <1>5, CreationWrites

-----------------------------------------------------------------------------
(* Updates, deletions and the sweep *)

LEMMA ChangeStep ==
    ASSUME AnswersInv, call["change"] = Idle,
           NEW ids \in SUBSET Ids, NEW content \in Config, NEW says \in Sayings,
           \A id \in ids : Clientele(file)[id] # None /\ Holds(content[id], says),
           Writes("change", ids, content, says),
           UNCHANGED <<file, draft, running, now, failures, imported, lost, behind>>,
           calls' \in 0 .. MaxCalls
    PROVE  AnswersInv'
<1> USE DEF AnswersInv
<1>1. /\ call' \in [Slots -> Call]
      /\ call'["change"].ids = ids /\ call'["change"].step = "write"
      /\ call'["change"].content = content /\ call'["change"].says = says
      /\ \A q \in Slots \ {"change"} :
            /\ call'[q].ids = call[q].ids /\ call'[q].step = call[q].step
            /\ call'[q].content = call[q].content
            /\ call'[q] = call[q] \/ call'[q].says = "unknown"
            /\ ids \cap call[q].ids = {} => call'[q] = call[q]
            /\ ids \cap call[q].ids # {} => call'[q].says = "unknown"
      /\ answered' = [id \in Ids |-> IF id \in ids THEN "unknown" ELSE answered[id]]
    BY WritesTyped DEF Slots
<1> Clientele(file)' = Clientele(file)
    OBVIOUS
<1>2. TypeOK'
    BY <1>1 DEF TypeOK
<1>3. StepsOfCalls'
    BY <1>1, Slot, Constants DEF StepsOfCalls, Slots
<1>4. CreatedByOne'
    BY <1>1 DEF CreatedByOne, Slots, TypeOK, Writing
<1>5. ChangeSilences'
    BY <1>1 DEF ChangeSilences, Slots, Writing
<1>6. WillHold'
    BY <1>1, Slot DEF WillHold, Slots, Holds, Writing
<1>7. AnswersHold'
    BY <1>1 DEF AnswersHold
<1> QED
    BY <1>2, <1>3, <1>4, <1>5, <1>6, <1>7

LEMMA ChangeSteps ==
    ASSUME AnswersInv,
           \/ \E id \in Ids, e \in Times \cup {Keep}, st \in {"active", "disabled", Keep} :
                 UpdateClient(id, e, st)
           \/ \E id \in Ids : DeleteClient(id)
           \/ DisableExpired
    PROVE  AnswersInv'
<1> now \in Times /\ calls \in 0 .. MaxCalls /\ Clientele(file) \in Config
    BY Files DEF AnswersInv, TypeOK
<1>1. ASSUME NEW id \in Ids, NEW e \in Times \cup {Keep}, NEW st \in {"active", "disabled", Keep},
             UpdateClient(id, e, st)
      PROVE  AnswersInv'
    <2> DEFINE to == Target(file[id], e, st)
               new == [status |-> to, expires |-> IF e = Keep THEN file[id].expires ELSE e]
               content == [file EXCEPT ![id] = new]
    <2> file \in Config /\ Clientele(file) = file
        BY <1>1, Files DEF UpdateClient, AnswersInv
    <2>1. file[id] \in Entry /\ file[id] # None
        BY <1>1 DEF UpdateClient, Config
    <2>2. to \in {"active", "disabled"}
        BY <2>1, ValuesAssumption DEF Target, Entry
    <2>3. new \in Entry /\ new.status = to
        BY <2>1, <2>2 DEF Entry
    <2>4. content \in Config /\ content[id] = new
        BY <2>3 DEF Config
    <2>5. new # None
        BY <1>1, <2>3, NoneAssumption
    <2>6. Writes("change", {id}, content, to) /\ call["change"] = Idle
          /\ UNCHANGED <<file, draft, running, now, failures, imported, lost, behind>>
          /\ calls' \in 0 .. MaxCalls
        BY <1>1, BoundsAssumption DEF UpdateClient, Counted
    <2>7. to \in Sayings /\ Holds(content[id], to)
        BY <2>2, <2>3, <2>4, <2>5 DEF Sayings, Holds
    <2> HIDE DEF to, new, content
    <2> QED BY <2>1, <2>4, <2>6, <2>7, ChangeStep
<1>2. ASSUME NEW id \in Ids, DeleteClient(id)
      PROVE  AnswersInv'
    <2> DEFINE content == [file EXCEPT ![id] = None]
    <2> file \in Config /\ Clientele(file) = file
        BY <1>2, Files DEF DeleteClient, AnswersInv
    <2>1. content \in Config /\ content[id] = None /\ "deleted" \in Sayings
        BY DEF Config, Sayings
    <2>2. Holds(content[id], "deleted")
        BY <2>1 DEF Holds
    <2>3. Writes("change", {id}, content, "deleted") /\ call["change"] = Idle /\ file[id] # None
          /\ UNCHANGED <<file, draft, running, now, failures, imported, lost, behind>>
          /\ calls' \in 0 .. MaxCalls
        BY <1>2, BoundsAssumption DEF DeleteClient, Counted
    <2> HIDE DEF content
    <2> QED BY <2>1, <2>2, <2>3, ChangeStep
<1>3. ASSUME DisableExpired
      PROVE  AnswersInv'
    <2> DEFINE ids == Expired(Clientele(file))
               content == [id \in Ids |-> IF id \in ids THEN [file[id] EXCEPT !.status = "disabled"]
                                          ELSE file[id]]
    <2> file \in Config /\ Clientele(file) = file
        <3>1. CASE Readable(file)
            BY <3>1, Files DEF AnswersInv
        <3>2. CASE ~Readable(file)
            BY <1>3, <3>2, Constants DEF DisableExpired, Clientele, Expired, Active, Clients
        <3> QED BY <3>1, <3>2
    <2>1. ids \in SUBSET Ids /\ \A id \in ids : Clientele(file)[id] # None
        BY DEF Expired, Active, Clients
    <2>2. \A id \in ids : [file[id] EXCEPT !.status = "disabled"] \in Entry
        BY <2>1 DEF Config, Entry
    <2>3. content \in Config /\ "unknown" \in Sayings
        BY <2>2 DEF Config, Sayings
    <2>4. \A id \in ids : Holds(content[id], "unknown")
        BY DEF Holds
    <2>5. Writes("change", ids, content, "unknown") /\ call["change"] = Idle
          /\ UNCHANGED <<file, draft, running, now, calls, failures, imported, lost, behind>>
        BY <1>3 DEF DisableExpired
    <2> HIDE DEF ids, content
    <2> QED BY <2>1, <2>3, <2>4, <2>5, ChangeStep
<1> QED
    BY <1>1, <1>2, <1>3

-----------------------------------------------------------------------------
(* What every call goes through *)

LEMMA ImportStep ==
    ASSUME AnswersInv, NEW b \in Backups, ImportBackup(b)
    PROVE  AnswersInv'
<1> USE DEF AnswersInv
<1>1. b \in Config
    BY BackupsAssumption
<1>2. call' = [call EXCEPT !["import"] = [Idle EXCEPT !.step = "write", !.content = b]]
    BY DEF ImportBackup
<1>3. /\ call' \in [Slots -> Call]
      /\ call'["import"].ids = {} /\ call'["import"].step = "write"
      /\ call'["create"] = call["create"] /\ call'["change"] = call["change"]
    BY <1>1, <1>2, Constants DEF TypeOK, Slots, Idle, Call
<1>4. imported' = TRUE /\ UNCHANGED <<file, draft, running, now, calls, failures, lost, behind>>
    BY DEF ImportBackup
<1>5. /\ answered' \in [Ids -> {"unmade", "unknown", "active", "disabled", "deleted"}]
      /\ \A id \in Ids : answered'[id] = answered[id]
                          \/ (answered[id] = "unmade" /\ answered'[id] = "unknown")
      /\ \A id \in call["create"].ids : call["create"].step \in {"read"} \cup Writing =>
            answered'[id] = answered[id]
    <2>1. answered' = [id \in Ids |-> IF id \in Clients(b) /\ answered[id] = "unmade" THEN "unknown"
                                      ELSE answered[id]]
        BY DEF ImportBackup
    <2>2. answered \in [Ids -> {"unmade", "unknown", "active", "disabled", "deleted"}]
        BY DEF TypeOK
    <2>3. call["create"] \in Call /\ call["create"].ids \subseteq Ids
        BY DEF TypeOK, Call, Slots
    <2>4. \A id \in Clients(b) \cap call["create"].ids : call["create"].step \in {"restart", "answer"}
        BY DEF ImportBackup
    <2>5. \A id \in call["create"].ids : call["create"].step \in {"read"} \cup Writing =>
             id \in Ids /\ id \notin Clients(b)
        BY <2>3, <2>4 DEF Writing
    <2> HIDE DEF AnswersInv
    <2>6. \A id \in Ids : answered'[id] = IF id \in Clients(b) /\ answered[id] = "unmade" THEN "unknown"
                                          ELSE answered[id]
        BY <2>1
    <2>7. answered' \in [Ids -> {"unmade", "unknown", "active", "disabled", "deleted"}]
        BY <2>1, <2>2
    <2>8. \A id \in call["create"].ids : call["create"].step \in {"read"} \cup Writing =>
             answered'[id] = answered[id]
        BY <2>5, <2>6
    <2>9. \A id \in Ids : answered'[id] = answered[id]
                          \/ (answered[id] = "unmade" /\ answered'[id] = "unknown")
        BY <2>6
    <2> QED BY <2>7, <2>8, <2>9
<1> Clientele(file)' = Clientele(file)
    BY <1>4
<1>6. TypeOK'
    BY <1>3, <1>4, <1>5 DEF TypeOK
<1>7. StepsOfCalls'
    BY <1>3, Slot DEF StepsOfCalls, Slots
<1>8. CreatedByOne' /\ ChangeSilences' /\ AnswersHold'
    BY <1>3, <1>4, <1>5 DEF CreatedByOne, ChangeSilences, AnswersHold, Writing
<1>9. WillHold'
    BY <1>3, <1>4, Slot DEF WillHold
<1> QED
    BY <1>6, <1>7, <1>8, <1>9

\* A call goes from one step to the next, and the file keeps its clients.
LEMMA CarryingOn ==
    ASSUME AnswersInv, NEW s \in Slots, call[s].step \in {"write", "fill"},
           call' \in [Slots -> Call],
           call'[s].ids = call[s].ids, call'[s].content = call[s].content, call'[s].says = call[s].says,
           call'[s].step \in {"fill", "move"},
           \A q \in Slots \ {s} : call'[q] = call[q],
           lost \subseteq lost', lost' \subseteq Ids,
           \A id \in Ids \ lost' : Clientele(file')[id] = Clientele(file)[id],
           file' \in Config \cup {Cut, Torn}, draft' \in Config \cup {Cut, Torn, Missing},
           behind' \in BOOLEAN,
           UNCHANGED <<running, answered, now, calls, failures, imported>>
    PROVE  AnswersInv'
<1> USE DEF AnswersInv
<1>1. TypeOK'
    BY DEF TypeOK
<1>2. StepsOfCalls'
    BY Slot DEF StepsOfCalls, Slots
<1>3. CreatedByOne' /\ ChangeSilences' /\ AnswersHold'
    BY DEF CreatedByOne, ChangeSilences, AnswersHold, Slots, Writing
<1>4. WillHold'
    <2> SUFFICES ASSUME NEW q \in Slots, NEW id \in call'[q].ids \ lost'
                 PROVE  /\ call'[q].step = "read" => call'[q].says = "unknown"
                        /\ call'[q].step \in Writing => Holds(call'[q].content[id], call'[q].says)
                        /\ call'[q].step \in {"restart", "answer"} =>
                              Holds(Clientele(file')[id], call'[q].says)
        BY DEF WillHold
    <2>1. id \in Ids
        BY DEF Call
    <2>2. CASE q = s
        BY <2>2 DEF WillHold, Writing
    <2>3. CASE q # s
        BY <2>1, <2>3 DEF WillHold
    <2> QED BY <2>2, <2>3
<1> QED
    BY <1>1, <1>2, <1>3, <1>4

LEMMA OpenStep ==
    ASSUME AnswersInv, NEW s \in Slots, Open(s)
    PROVE  AnswersInv'
<1>1. /\ call' \in [Slots -> Call]
      /\ call'[s].ids = call[s].ids /\ call'[s].content = call[s].content
      /\ call'[s].says = call[s].says /\ call'[s].step = "fill"
      /\ \A q \in Slots \ {s} : call'[q] = call[q]
    BY DEF Open, AnswersInv, TypeOK, Call
<1>2. /\ file' \in Config \cup {Cut, Torn} /\ draft' \in Config \cup {Cut, Torn, Missing}
      /\ file' = file /\ lost' = lost /\ lost' \subseteq Ids /\ behind' \in BOOLEAN
      /\ UNCHANGED <<running, answered, now, calls, failures, imported>> /\ call[s].step = "write"
    BY DEF Open, AnswersInv, TypeOK
<1> QED
    BY <1>1, <1>2, CarryingOn

LEMMA FillStep ==
    ASSUME AnswersInv, NEW s \in Slots, Fill(s)
    PROVE  AnswersInv'
<1>1. /\ call' \in [Slots -> Call]
      /\ call'[s].ids = call[s].ids /\ call'[s].content = call[s].content
      /\ call'[s].says = call[s].says /\ call'[s].step = "move"
      /\ \A q \in Slots \ {s} : call'[q] = call[q]
    BY DEF Fill, AnswersInv, TypeOK, Call
<1>2. /\ UNCHANGED <<running, answered, now, calls, failures, imported>> /\ call[s].step = "fill"
      /\ call[s] \in Call /\ call[s].into \in {"none", "draft", "file"}
      /\ lost \subseteq Ids /\ behind \in BOOLEAN
      /\ file \in Config \cup {Cut, Torn} /\ draft \in Config \cup {Cut, Torn, Missing}
    BY DEF Fill, AnswersInv, TypeOK, Call
<1>3. PICK f \in Poured(s) :
         CASE call[s].into = "draft" -> draft' = f /\ UNCHANGED <<file, lost, behind>>
           [] call[s].into = "file" ->
                 /\ file' = f /\ behind' = TRUE
                 /\ lost' = lost \cup call[s].ids \cup Changed(f)
                 /\ UNCHANGED draft
           [] OTHER -> UNCHANGED <<file, draft, lost, behind>>
    BY DEF Fill
<1>4. f \in Config \cup {Cut, Torn}
    BY <1>2 DEF Poured, Call
<1>5. CASE call[s].into = "file"
    <2>1. /\ file' = f /\ behind' = TRUE /\ draft' = draft
          /\ lost' = lost \cup call[s].ids \cup Changed(f)
        BY <1>3, <1>5
    <2>2. /\ lost \subseteq lost' /\ lost' \subseteq Ids
          /\ \A id \in Ids \ lost' : Clientele(file')[id] = Clientele(file)[id]
        BY <1>2, <2>1 DEF Changed, Call
    <2> QED BY <1>1, <1>2, <1>4, <2>1, <2>2, CarryingOn
<1>6. CASE call[s].into # "file"
    <2>1. /\ file' = file /\ lost' = lost /\ behind' = behind
          /\ draft' = f \/ draft' = draft
        BY <1>3, <1>6
    <2> QED BY <1>1, <1>2, <1>4, <2>1, CarryingOn
<1> QED
    BY <1>5, <1>6

LEMMA MoveStep ==
    ASSUME AnswersInv, NEW s \in Slots, Move(s)
    PROVE  AnswersInv'
<1> USE DEF AnswersInv
<1>0. \A q \in Slots : call[q] \in Call
    BY DEF TypeOK
<1>1. /\ call' \in [Slots -> Call]
      /\ call'[s].ids = call[s].ids /\ call'[s].step = "restart" /\ call'[s].says = call[s].says
      /\ \A q \in Slots \ {s} :
            /\ call'[q].ids = call[q].ids /\ call'[q].step = call[q].step
            /\ call'[q].says = call[q].says /\ call'[q].content = call[q].content
    <2>1. /\ [call[s] EXCEPT !.step = "restart", !.content = Empty] \in Call
          /\ [call[s] EXCEPT !.step = "restart", !.content = Empty].ids = call[s].ids
          /\ [call[s] EXCEPT !.step = "restart", !.content = Empty].step = "restart"
          /\ [call[s] EXCEPT !.step = "restart", !.content = Empty].says = call[s].says
        BY <1>0, Constants DEF Call
    <2>2. ASSUME NEW q \in Slots
          PROVE  LET c == [call[q] EXCEPT !.into = IF @ = "draft" THEN "file" ELSE "none"]
                 IN  c \in Call /\ c.ids = call[q].ids /\ c.step = call[q].step
                     /\ c.says = call[q].says /\ c.content = call[q].content
        BY <1>0 DEF Call
    <2>3. call' = [q \in Slots |->
                     IF q = s THEN [call[q] EXCEPT !.step = "restart", !.content = Empty]
                     ELSE [call[q] EXCEPT !.into = IF @ = "draft" THEN "file" ELSE "none"]]
        BY DEF Move
    <2>4. call'[s] = [call[s] EXCEPT !.step = "restart", !.content = Empty]
        BY <2>3
    <2>5. \A q \in Slots \ {s} :
             call'[q] = [call[q] EXCEPT !.into = IF @ = "draft" THEN "file" ELSE "none"]
        BY <2>3
    <2>6. call' \in [Slots -> Call]
        BY <2>1, <2>2, <2>3
    <2> HIDE DEF AnswersInv
    <2> QED BY <2>1, <2>2, <2>4, <2>5, <2>6
<1>2. /\ file' = draft /\ draft # Missing /\ draft' = Missing /\ behind' = TRUE
      /\ lost' = lost \cup {id \in call[s].ids : Clientele(draft)[id] # call[s].content[id]}
                     \cup (Changed(draft) \ call[s].ids)
    BY DEF Move
<1>3. UNCHANGED <<running, answered, now, calls, failures, imported>> /\ call[s].step = "move"
    BY DEF Move
<1>4. /\ lost' \subseteq Ids /\ lost \subseteq lost'
      /\ file' \in Config \cup {Cut, Torn}
      /\ \A id \in Ids \ lost' :
            IF id \in call[s].ids THEN Clientele(file')[id] = call[s].content[id]
            ELSE Clientele(file')[id] = Clientele(file)[id]
    <2>1. /\ lost \subseteq Ids /\ call[s].ids \subseteq Ids
          /\ draft \in Config \cup {Cut, Torn} /\ Changed(draft) \subseteq Ids
        BY <1>0, <1>2, Files DEF TypeOK, Changed, Call
    <2>2. \A id \in Ids \ Changed(draft) : Clientele(draft)[id] = Clientele(file)[id]
        BY DEF Changed
    <2> HIDE DEF AnswersInv
    <2> QED BY <1>2, <2>1, <2>2
<1>5. TypeOK'
    BY <1>1, <1>2, <1>3, <1>4 DEF TypeOK
<1>6. StepsOfCalls'
    <2>1. ASSUME NEW q \in Slots, call'[q].step = "idle"
          PROVE  call'[q] = Idle
        <3>1. q # s /\ call[q] = Idle
            BY <1>1, <2>1 DEF StepsOfCalls
        <3>2. call'[q] = [Idle EXCEPT !.into = IF @ = "draft" THEN "file" ELSE "none"]
            BY <3>1 DEF Move
        <3>3. Idle.into = "none"
            BY DEF Idle
        <3> QED BY <3>2, <3>3 DEF Idle
    <2>2. call'["import"].ids = call["import"].ids
        BY <1>1 DEF Slots
    <2>3. \A q \in Slots : call'[q].step = call[q].step \/ call'[q].step = "restart"
        BY <1>1
    <2> QED BY <2>1, <2>2, <2>3 DEF StepsOfCalls, Slots
<1>7. ASSUME NEW id \in Ids \ lost', id \in call[s].ids
      PROVE  /\ answered[id] = "unknown"
             /\ \/ s = "create" /\ id \notin call["change"].ids
                \/ s = "change" /\ (id \in call["create"].ids =>
                                      call["create"].says = "unknown"
                                      /\ call["create"].step \notin {"read"} \cup Writing)
    BY <1>3, <1>4, <1>7, Slot DEF CreatedByOne, ChangeSilences, StepsOfCalls, Writing
<1>8. CreatedByOne'
    BY <1>1, <1>3, <1>4, <1>7, Slot DEF CreatedByOne, Slots, Writing
<1>9. ChangeSilences'
    BY <1>1, <1>3, <1>4, <1>7, Slot DEF ChangeSilences, Slots, Writing
<1>10. AnswersHold'
    BY <1>3, <1>4, <1>7 DEF AnswersHold
<1>11. WillHold'
    <2> SUFFICES ASSUME NEW q \in Slots, NEW id \in call'[q].ids \ lost'
                 PROVE  /\ call'[q].step = "read" => call'[q].says = "unknown"
                        /\ call'[q].step \in Writing => Holds(call'[q].content[id], call'[q].says)
                        /\ call'[q].step \in {"restart", "answer"} =>
                              Holds(Clientele(file')[id], call'[q].says)
        BY DEF WillHold
    <2>1. id \in Ids
        BY <1>1 DEF Call
    <2>2. CASE q = s
        <3>1. id \in call[s].ids \ lost /\ Holds(call[s].content[id], call[s].says)
            BY <1>1, <1>3, <1>4, <2>2 DEF WillHold, Writing
        <3> QED BY <1>1, <1>4, <2>1, <2>2, <3>1 DEF Writing
    <2>3. CASE q # s /\ id \notin call[s].ids
        <3>1. Clientele(file')[id] = Clientele(file)[id] /\ id \in call[q].ids \ lost
            BY <1>1, <1>4, <2>1, <2>3
        <3> QED BY <1>1, <2>3, <3>1 DEF WillHold
    <2>4. CASE q # s /\ id \in call[s].ids
        <3>1. call[q].says = "unknown" \/ id \notin call[q].ids
            BY <1>7, <2>1, <2>4, Slot DEF StepsOfCalls
        <3> QED BY <1>1, <2>4, <3>1 DEF Holds
    <2> QED BY <2>2, <2>3, <2>4
<1> QED
    BY <1>5, <1>6, <1>8, <1>9, <1>10, <1>11

\* The call says what it has to say, and is over or has an answer left.
LEMMA SayingStep ==
    ASSUME AnswersInv, NEW s \in Slots, Restart(s) \/ Answer(s)
    PROVE  AnswersInv'
<1> USE DEF AnswersInv
<1>1. UNCHANGED <<file, draft, now, calls, failures, imported, lost>>
      /\ call[s].step \in {"restart", "answer"}
    BY DEF Restart, Answer
<1>2. running' \in Config /\ behind' \in BOOLEAN
    BY Files DEF Restart, Answer, TypeOK
<1> Clientele(file)' = Clientele(file)
    BY <1>1
<1>3. CASE call' = [call EXCEPT ![s] = Idle] /\ Says(s)
    <2>1. /\ call' \in [Slots -> Call] /\ call'[s] = Idle
          /\ \A q \in Slots \ {s} : call'[q] = call[q]
        BY <1>3, Constants DEF TypeOK
    <2>2. /\ answered' \in [Ids -> {"unmade", "unknown", "active", "disabled", "deleted"}]
          /\ \A id \in Ids : answered'[id] = IF id \in call[s].ids THEN call[s].says ELSE answered[id]
        BY <1>3 DEF Says, TypeOK, Call
    <2>3. call[s].says \in Sayings
        BY DEF TypeOK, Call, Sayings
    <2>4. TypeOK'
        BY <1>1, <1>2, <2>1, <2>2 DEF TypeOK
    <2>5. StepsOfCalls'
        BY <2>1, Slot, Constants DEF StepsOfCalls, Slots
    <2>6. CreatedByOne'
        BY <1>1, <2>1, <2>2, <2>3, Slot, Constants DEF CreatedByOne, Slots, Sayings, StepsOfCalls, Writing
    <2>7. ChangeSilences'
        BY <1>1, <2>1, <2>2, Slot, Constants DEF ChangeSilences, Slots, StepsOfCalls, Writing
    <2>8. WillHold'
        BY <1>1, <2>1, Constants DEF WillHold, Writing
    <2>9. AnswersHold'
        BY <1>1, <2>2 DEF AnswersHold, WillHold, Holds
    <2> QED BY <2>4, <2>5, <2>6, <2>7, <2>8, <2>9
<1>4. CASE s = "create" /\ call' = [call EXCEPT ![s].step = "answer"] /\ answered' = answered
    <2>1. /\ call' \in [Slots -> Call]
          /\ call'[s].ids = call[s].ids /\ call'[s].step = "answer" /\ call'[s].says = call[s].says
          /\ \A q \in Slots \ {s} : call'[q] = call[q]
        BY <1>4 DEF TypeOK, Call
    <2>2. TypeOK'
        BY <1>1, <1>2, <1>4, <2>1 DEF TypeOK
    <2>3. StepsOfCalls'
        BY <1>4, <2>1, Slot DEF StepsOfCalls, Slots
    <2>4. CreatedByOne' /\ ChangeSilences' /\ AnswersHold'
        BY <1>1, <1>4, <2>1 DEF CreatedByOne, ChangeSilences, AnswersHold, Slots, Writing
    <2>5. WillHold'
        BY <1>1, <2>1 DEF WillHold, Writing
    <2> QED BY <2>2, <2>3, <2>4, <2>5
<1> QED
    BY <1>3, <1>4 DEF Restart, Answer

\* A call that fails says nothing any more.
LEMMA FailStep ==
    ASSUME AnswersInv, (\E s \in Slots : Fail(s) \/ MoveInVain(s)) \/ AgentDies \/ ReadInVain
    PROVE  AnswersInv'
<1> USE DEF AnswersInv
<1>1. /\ UNCHANGED <<file, draft, answered, now, calls, imported, lost>>
      /\ failures' \in 0 .. MaxFailures /\ running' \in Config /\ behind' \in BOOLEAN
    <2> /\ Clientele(file) \in Config /\ running \in Config /\ behind \in BOOLEAN
        /\ failures \in 0 .. MaxFailures
        BY Files DEF TypeOK
    <2>1. CASE \E s \in Slots : Fail(s)
        <3> PICK s \in Slots : Fail(s)
            BY <2>1
        <3>1. failures' \in 0 .. MaxFailures /\ UNCHANGED <<file, draft, answered, now, calls, imported, lost>>
            BY BoundsAssumption DEF Fail
        <3>2. UNCHANGED <<running, behind>> \/ (running' = Clientele(file) /\ behind' = FALSE)
            BY DEF Fail
        <3> QED BY <3>1, <3>2
    <2>2. CASE AgentDies
        BY <2>2, BoundsAssumption DEF AgentDies
    <2>3. CASE ReadInVain \/ \E s \in Slots : MoveInVain(s)
        BY <2>3 DEF ReadInVain, MoveInVain
    <2> QED BY <2>1, <2>2, <2>3
<1>2. /\ call' \in [Slots -> Call]
      /\ \A q \in Slots : call'[q] = call[q] \/ call'[q] = Idle
    BY Constants DEF Fail, AgentDies, ReadInVain, MoveInVain, TypeOK
<1> Clientele(file)' = Clientele(file)
    BY <1>1
<1>3. TypeOK'
    BY <1>1, <1>2 DEF TypeOK
<1>4. StepsOfCalls'
    BY <1>2, Constants DEF StepsOfCalls, Slots
<1>5. CreatedByOne' /\ ChangeSilences'
    BY <1>1, <1>2, Constants DEF CreatedByOne, ChangeSilences, Slots, Writing
<1>6. WillHold' /\ AnswersHold'
    BY <1>1, <1>2, Constants DEF WillHold, AnswersHold, Writing
<1> QED
    BY <1>3, <1>4, <1>5, <1>6

LEMMA NextStep == AnswersInv /\ [Next]_vars => AnswersInv'
<1> SUFFICES ASSUME AnswersInv, [Next]_vars PROVE AnswersInv'
    OBVIOUS
<1>1. CASE UNCHANGED <<file, draft, call, answered, calls, failures, imported, lost>>
           /\ running' \in Config /\ behind' \in BOOLEAN /\ now' \in Times
    <2> Clientele(file)' = Clientele(file)
        BY <1>1
    <2> QED BY <1>1 DEF AnswersInv, TypeOK, StepsOfCalls, CreatedByOne, ChangeSilences, WillHold, AnswersHold
<1>2. CASE Tick \/ ContainerRestarts \/ UNCHANGED vars
    <2> /\ Clientele(file) \in Config /\ running \in Config /\ behind \in BOOLEAN
        /\ now \in Times
        BY Files DEF AnswersInv, TypeOK
    <2>1. CASE Tick
        BY <1>1, <2>1, BoundsAssumption DEF Tick, Times
    <2>2. CASE ContainerRestarts
        BY <1>1, <2>2 DEF ContainerRestarts
    <2>3. CASE UNCHANGED vars
        BY <1>1, <2>3 DEF vars
    <2> QED BY <1>2, <2>1, <2>2, <2>3
<1>3. CASE Requests
    BY <1>3, CreateStep, ChangeSteps, ImportStep DEF Requests
<1>4. CASE \E s \in Slots : Steps(s)
    BY <1>4, OpenStep, FillStep, MoveStep, FailStep, SayingStep, ReadStep DEF Steps
<1> QED
    BY <1>2, <1>3, <1>4, ChangeSteps, FailStep DEF Next

LEMMA InvHolds == Spec => []AnswersInv
BY InitHolds, NextStep, PTL DEF Spec

-----------------------------------------------------------------------------
\* The files hold entries and calls what they will write, whatever fails.
THEOREM TypeCorrect == Spec => []TypeOK
<1>1. AnswersInv => TypeOK
    BY DEF AnswersInv
<1> QED
    BY <1>1, InvHolds, PTL

\* The last answer about a client holds of the file, until the next call about
\* it or a call that wrote back what it had read before.
THEOREM AnswersStayTrue == Spec => []AnswersHold
<1>1. AnswersInv => AnswersHold
    BY DEF AnswersInv
<1> QED
    BY <1>1, InvHolds, PTL
=============================================================================
