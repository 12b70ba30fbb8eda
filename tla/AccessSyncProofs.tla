-------------------------- MODULE AccessSyncProofs --------------------------
(***************************************************************************)
(* The sync never leaves a change behind a run that had already read the   *)
(* accounts, and disables only who was shut out at Cloudflare: for any     *)
(* addresses, domains, cap and bounds.                                     *)
(***************************************************************************)
EXTENDS AccessSync, FiniteSetTheorems, TLAPS

\* A run holds the row; only the death of a worker takes attempts past the limit.
RowHeld ==
    /\ crashes <= MaxCrashes
    /\ ~At("idle") => job.status = "processing" /\ job.attempts <= MaxAttempts + crashes
    /\ At("idle") /\ job.status = "processing" => job.attempts < MaxAttempts + crashes
    /\ job.status = "pending" => job.attempts < MaxAttempts

\* A change after the accounts were read has marked the row.
ChangeIsMarked ==
    unread => /\ job.status # "completed"
              /\ run.pc \in {"push", "record", "finish"} => job.rearmed

\* What the baseline holds is admitted, or known to have been shut out ...
BaselineIsAdmitted ==
    \A e \in baseline.emails : Admits(policy, e) \/ e \in withdrawn \cup dropped

\* ... and what the run fetched stays so, but for the dashboard.
FetchedIsAdmitted ==
    run.pc \in {"decide", "disable", "read", "push"} =>
        \A e \in Emails : Admits(run.policy, e) => Admits(policy, e) \/ e \in withdrawn

MissingWereShutOut ==
    At("decide") =>
        \A e \in baseline.emails : Admits(run.policy, e) \/ e \in withdrawn \cup dropped

RemovedWereShutOut ==
    At("disable") => run.removed \subseteq (withdrawn \cup dropped) \ Pinned

WrittenIsAdmitted ==
    At("record") => \A e \in run.desired : Admits(policy, e) \/ e \in withdrawn

SyncInv ==
    /\ TypeOK
    /\ RowHeld
    /\ ChangeIsMarked
    /\ BaselineIsAdmitted
    /\ FetchedIsAdmitted
    /\ MissingWereShutOut
    /\ RemovedWereShutOut
    /\ WrittenIsAdmitted

-----------------------------------------------------------------------------
(* What the steps do *)

LEMMA PolicyParts ==
    ASSUME NEW p \in Policy
    PROVE  /\ p.emails \in [Emails -> Present \cup {"absent"}]
           /\ p.domains \subseteq Domains /\ p.exclude \subseteq Emails
           /\ p.excludeDomains \subseteq Domains
           /\ Listed(p) \subseteq Emails
BY DEF Policy, Listed

LEMMA IdleRunIsRun ==
    /\ NoPolicy \in Policy
    /\ IdleRun \in Run /\ IdleRun.pc = "idle" /\ IdleRun.removed = {} /\ IdleRun.desired = {}
<1>1. NoPolicy \in Policy
    BY DEF NoPolicy, Policy
<1> QED
    BY <1>1 DEF IdleRun, Run, RunSteps

LEMMA ArmedIsJob ==
    ASSUME NEW j \in Job
    PROVE  /\ Armed(j) \in Job
           /\ Armed(j).status \in {"pending", "processing"}
           /\ Armed(j).status = "processing" <=> j.status = "processing"
           /\ j.status = "processing" => Armed(j).rearmed /\ Armed(j).attempts = j.attempts
           /\ j.status = "pending" => Armed(j).attempts = j.attempts
           /\ j.status \notin {"pending", "processing"} => Armed(j).attempts = 0
<1> USE BoundsAssumption
<1>1. CASE j.status \in {"none", "completed", "failed"}
    BY <1>1 DEF Job, JobStatus, Armed
<1>2. CASE j.status \in {"pending", "processing"}
    BY <1>2 DEF Job, JobStatus, Armed
<1> QED
    BY <1>1, <1>2 DEF Job, JobStatus

\* Requests and the timer change accounts and domains, and arm the row or leave it.
PanelStep ==
    /\ user' \in [Emails -> {"none", "active", "disabled"}]
    /\ wanted' \in SUBSET Domains
    /\ changes' \in Nat
    /\ UNCHANGED <<baseline, policy, run, edits, crashes, withdrawn, dropped>>
    /\ \/ job' = Armed(job) /\ unread' \in {unread, TRUE}
       \/ UNCHANGED <<job, unread>>

LEMMA PanelSteps ==
    ASSUME TypeOK, PanelChange \/ ArmOnly
    PROVE  PanelStep
<1> USE DEF TypeOK, PanelStep
<1>1. CASE ArmOnly
    BY <1>1 DEF ArmOnly, Arm, panel, history
<1>2. ASSUME NEW D \in SUBSET Domains, SetAllowedDomains(D)
      PROVE  PanelStep
    BY <1>2 DEF SetAllowedDomains, Arm, Change
<1>3. ASSUME NEW e \in Emails, NEW status \in {"active", "disabled"}, SetStatus(e, status),
             \/ Arm /\ unread' = TRUE
             \/ UNCHANGED <<job, unread>>
      PROVE  PanelStep
    <2>1. user' \in [Emails -> {"none", "active", "disabled"}] /\ changes' \in Nat /\ wanted' = wanted
        BY <1>3 DEF SetStatus, Change
    <2> QED BY <1>3, <2>1 DEF SetStatus, Arm
<1>4. ASSUME NEW e \in Emails, CreateUser(e) \/ OffboardUser(e) \/ ReinstateUser(e) \/ SignIn(e)
      PROVE  PanelStep
    BY <1>3, <1>4 DEF CreateUser, OffboardUser, ReinstateUser, SignIn
<1> QED
    BY <1>1, <1>2, <1>4 DEF PanelChange

LEMMA OperatorStep ==
    ASSUME TypeOK, OperatorEdits
    PROVE  \E p \in Policy : EditPolicy(p)
<1> USE PolicyParts DEF TypeOK
<1>1. ASSUME NEW e \in Emails, NEW r \in {"hand", "absent"}
      PROVE  [policy EXCEPT !.emails[e] = r] \in Policy
    BY DEF Policy, Present
<1>2. ASSUME NEW D \in SUBSET Domains
      PROVE  /\ [policy EXCEPT !.domains = D] \in Policy
             /\ [policy EXCEPT !.excludeDomains = D] \in Policy
    BY DEF Policy
<1>3. ASSUME NEW E \in SUBSET Emails
      PROVE  [policy EXCEPT !.exclude = E] \in Policy
    BY DEF Policy
<1>4. ASSUME NEW e \in Emails, EditPolicy([policy EXCEPT !.emails[e] = "hand"])
      PROVE  \E p \in Policy : EditPolicy(p)
    BY <1>1, <1>4
<1>5. ASSUME NEW e \in Emails, EditPolicy([policy EXCEPT !.emails[e] = "absent"])
      PROVE  \E p \in Policy : EditPolicy(p)
    BY <1>1, <1>5
<1>6. ASSUME NEW d \in Domains, EditPolicy([policy EXCEPT !.domains = @ \cup {d}])
      PROVE  \E p \in Policy : EditPolicy(p)
    BY <1>2, <1>6
<1>7. ASSUME NEW d \in Domains, EditPolicy([policy EXCEPT !.domains = @ \ {d}])
      PROVE  \E p \in Policy : EditPolicy(p)
    BY <1>2, <1>7
<1>8. ASSUME NEW e \in Emails, EditPolicy([policy EXCEPT !.exclude = @ \cup {e}])
      PROVE  \E p \in Policy : EditPolicy(p)
    BY <1>3, <1>8
<1>9. ASSUME NEW d \in Domains, EditPolicy([policy EXCEPT !.excludeDomains = @ \cup {d}])
      PROVE  \E p \in Policy : EditPolicy(p)
    BY <1>2, <1>9
<1> QED
    BY <1>4, <1>5, <1>6, <1>7, <1>8, <1>9 DEF OperatorEdits

LEMMA NextPolicyIsPolicy ==
    ASSUME run \in Run
    PROVE  /\ NextPolicy \in Policy
           /\ \A e \in run.desired : Admits(NextPolicy, e)
<1>1. run.policy \in Policy /\ run.desired \subseteq Emails /\ run.domains \subseteq Domains
    BY DEF Run
<1>2. ASSUME NEW e \in Emails
      PROVE  (CASE e \in run.desired -> "panel"
                [] e \in (Listed(run.policy) \cap baseline.emails) \ run.desired -> "absent"
                [] OTHER -> run.policy.emails[e]) \in Present \cup {"absent"}
    BY <1>1, PolicyParts DEF Present
<1>3. NextPolicy.emails \in [Emails -> Present \cup {"absent"}]
    BY <1>1, <1>2, PolicyParts DEF NextPolicy, Policy
<1>4. NextPolicy \in Policy
    BY <1>1, <1>3, PolicyParts DEF NextPolicy, Policy
<1>5. \A e \in run.desired : NextPolicy.emails[e] = "panel"
    BY <1>1, PolicyParts DEF NextPolicy, Policy
<1> QED
    BY <1>1, <1>4, <1>5 DEF Admits, Listed, Present

LEMMA ThrowEnds ==
    ASSUME TypeOK, RowHeld, ~At("idle"), Throw
    PROVE  /\ run' = IdleRun
           /\ job' \in Job
           /\ job'.status \in {"pending", "failed"}
           /\ job'.status = "pending" => job'.attempts < MaxAttempts
<1> USE BoundsAssumption DEF TypeOK, Job, JobStatus, Throw, FailJob
<1>1. CASE job.attempts >= MaxAttempts
    BY <1>1
<1>2. CASE ~(job.attempts >= MaxAttempts)
    BY <1>2
<1> QED
    BY <1>1, <1>2

-----------------------------------------------------------------------------
(* The types, the row, and the mark on it *)

LEMMA InitHolds == Init => SyncInv
<1> SUFFICES ASSUME Init PROVE SyncInv
    OBVIOUS
<1> USE BoundsAssumption DEF Init
<1>1. policy \in Policy
    BY IdleRunIsRun DEF NoPolicy, Policy
<1>2. TypeOK
    <2>1. user \in [Emails -> {"none", "active", "disabled"}]
        OBVIOUS
    <2>2. job \in Job
        BY DEF Job, JobStatus
    <2>3. baseline \in [emails : SUBSET Emails, domains : SUBSET Domains]
        OBVIOUS
    <2> QED BY <1>1, <2>1, <2>2, <2>3, IdleRunIsRun DEF TypeOK
<1>3. run.pc = "idle"
    BY IdleRunIsRun
<1>4. RowHeld /\ ChangeIsMarked /\ BaselineIsAdmitted
    BY <1>3 DEF RowHeld, ChangeIsMarked, BaselineIsAdmitted, At
<1>5. FetchedIsAdmitted /\ MissingWereShutOut /\ RemovedWereShutOut /\ WrittenIsAdmitted
    BY <1>3 DEF FetchedIsAdmitted, MissingWereShutOut, RemovedWereShutOut, WrittenIsAdmitted, At
<1> QED
    BY <1>2, <1>4, <1>5 DEF SyncInv

RowInv == TypeOK /\ RowHeld /\ ChangeIsMarked

LEMMA RowStep ==
    ASSUME RowInv, [Next]_vars
    PROVE  RowInv'
<1> USE BoundsAssumption, IdleRunIsRun DEF RowInv
<1> TypeOK /\ RowHeld /\ ChangeIsMarked
    OBVIOUS
<1>1. CASE PanelChange \/ ArmOnly
    <2>1. PanelStep
        BY <1>1, PanelSteps
    <2>2. CASE job' = Armed(job) /\ unread' \in {unread, TRUE}
        <3>1. TypeOK'
            BY <2>1, <2>2, ArmedIsJob DEF TypeOK, PanelStep
        <3>2. RowHeld'
            BY <2>1, <2>2, ArmedIsJob DEF TypeOK, PanelStep, RowHeld, At, Job, JobStatus
        <3>3. ChangeIsMarked'
            BY <2>1, <2>2, ArmedIsJob DEF TypeOK, PanelStep, RowHeld, ChangeIsMarked, At
        <3> QED BY <3>1, <3>2, <3>3
    <2>3. CASE UNCHANGED <<job, unread>>
        BY <2>1, <2>3 DEF TypeOK, PanelStep, RowHeld, ChangeIsMarked, At
    <2> QED BY <2>1, <2>2, <2>3 DEF PanelStep
<1>2. CASE OperatorEdits
    <2>1. PICK p \in Policy : EditPolicy(p)
        BY <1>2, OperatorStep
    <2> QED BY <2>1 DEF EditPolicy, TypeOK, RowHeld, ChangeIsMarked, At, panel
<1>3. CASE Claim
    <2>1. /\ run' = [IdleRun EXCEPT !.pc = "fetch"] /\ run' \in Run /\ run'.pc = "fetch"
          /\ job.attempts < MaxAttempts + crashes
        BY <1>3 DEF Claim, Run, RunSteps, IdleRun, RowHeld, TypeOK, Job
    <2>2. job' \in Job /\ job'.status = "processing" /\ job'.attempts = job.attempts + 1
        BY <1>3, <2>1 DEF Claim, TypeOK, Job, JobStatus, RowHeld
    <2> QED BY <1>3, <2>1, <2>2 DEF Claim, TypeOK, RowHeld, ChangeIsMarked, At, panel, history, Job
<1>4. CASE FetchPolicy
    <2>1. CASE Throw /\ UNCHANGED <<withdrawn, dropped>>
        BY <1>4, <2>1, ThrowEnds
        DEF FetchPolicy, TypeOK, RowHeld, ChangeIsMarked, At, panel
    <2>2. CASE /\ run' = [run EXCEPT !.pc = "decide", !.policy = policy]
               /\ withdrawn' = {e \in withdrawn : ~Admits(policy, e)}
               /\ dropped' = {e \in dropped : ~Admits(policy, e)}
               /\ UNCHANGED job
        <3>1. run' \in Run /\ run'.pc = "decide"
            BY <2>2 DEF TypeOK, Run, RunSteps
        <3> QED BY <1>4, <2>2, <3>1 DEF FetchPolicy, TypeOK, RowHeld, ChangeIsMarked, At, panel
    <2> QED BY <1>4, <2>1, <2>2 DEF FetchPolicy
<1>5. CASE Decide
    <2> DEFINE removed == RemovedInCloudflare(run.policy)
    <2>1. CASE FailJob
        BY <1>5, <2>1
        DEF Decide, FailJob, TypeOK, RowHeld, ChangeIsMarked, At, panel, history, Job, JobStatus
    <2>2. CASE /\ run' = [run EXCEPT !.pc = IF removed = {} THEN "read" ELSE "disable",
                                     !.removed = removed]
               /\ UNCHANGED job
        <3>1. removed \subseteq Emails
            BY DEF RemovedInCloudflare, TypeOK
        <3>2. run' \in Run /\ run'.pc \in {"read", "disable"}
            BY <2>2, <3>1 DEF TypeOK, Run, RunSteps
        <3> QED BY <1>5, <2>2, <3>2 DEF Decide, TypeOK, RowHeld, ChangeIsMarked, At, panel, history
    <2> QED BY <1>5, <2>1, <2>2 DEF Decide
<1>6. CASE DeactivateByEmail
    <2>1. run' \in Run /\ run'.pc = "read"
        BY <1>6 DEF DeactivateByEmail, TypeOK, Run, RunSteps
    <2>2. user' \in [Emails -> {"none", "active", "disabled"}]
        BY <1>6 DEF DeactivateByEmail, TypeOK
    <2> QED BY <1>6, <2>1, <2>2
            DEF DeactivateByEmail, TypeOK, RowHeld, ChangeIsMarked, At, history
<1>7. CASE ReadDesired
    <2> DEFINE desired == ActiveUsers \cup Pinned
    <2>1. CASE FailJob
        BY <1>7, <2>1
        DEF ReadDesired, FailJob, TypeOK, RowHeld, ChangeIsMarked, At, panel, Job, JobStatus
    <2>2. CASE /\ run' = [run EXCEPT !.pc = "push", !.desired = desired, !.domains = wanted]
               /\ UNCHANGED job
        <3>1. desired \subseteq Emails
            BY AdminAssumption DEF ActiveUsers
        <3>2. run' \in Run /\ run'.pc = "push"
            BY <2>2, <3>1 DEF TypeOK, Run, RunSteps
        <3> QED BY <1>7, <2>2, <3>2 DEF ReadDesired, TypeOK, RowHeld, ChangeIsMarked, At, panel
    <2> QED BY <1>7, <2>1, <2>2 DEF ReadDesired
<1>8. CASE PushPolicy
    <2> DEFINE next == [run EXCEPT !.pc = "record", !.policy = NoPolicy]
    <2>1. next \in Run /\ next.pc = "record"
        BY DEF TypeOK, Run, RunSteps
    <2>2. policy' \in Policy /\ dropped' \subseteq Emails
        BY <1>8, NextPolicyIsPolicy DEF PushPolicy, Replace, TypeOK
    <2>3. CASE run' = next /\ UNCHANGED job
        BY <1>8, <2>1, <2>2, <2>3 DEF PushPolicy, TypeOK, RowHeld, ChangeIsMarked, At, panel
    <2>4. CASE Throw
        BY <1>8, <2>2, <2>4, ThrowEnds DEF PushPolicy, TypeOK, RowHeld, ChangeIsMarked, At, panel
    <2> QED BY <1>8, <2>3, <2>4 DEF PushPolicy
<1>9. CASE SetBaseline
    <2>1. run' \in Run /\ run'.pc = "finish"
        BY <1>9 DEF SetBaseline, IdleRun, Run, RunSteps
    <2>2. baseline' \in [emails : SUBSET Emails, domains : SUBSET Domains]
        BY <1>9 DEF SetBaseline, TypeOK, Run
    <2> QED BY <1>9, <2>1, <2>2 DEF SetBaseline, TypeOK, RowHeld, ChangeIsMarked, At, panel
<1>10. CASE FinishAccessSync
    <2>1. job' \in Job /\ job'.status \in {"pending", "completed"} /\ job'.attempts = 0
        BY <1>10 DEF FinishAccessSync, TypeOK, Job, JobStatus
    <2>2. job'.status = "completed" => ~unread
        BY <1>10 DEF FinishAccessSync, ChangeIsMarked, At
    <2> QED BY <1>10, <2>1, <2>2
            DEF FinishAccessSync, TypeOK, RowHeld, ChangeIsMarked, At, panel, history
<1>11. CASE Crash
    BY <1>11 DEF Crash, TypeOK, RowHeld, ChangeIsMarked, At, panel, history, Job
<1>12. CASE UNCHANGED vars
    BY <1>12 DEF vars, panel, history, TypeOK, RowHeld, ChangeIsMarked, At
<1> QED
    BY <1>1, <1>2, <1>3, <1>4, <1>5, <1>6, <1>7, <1>8, <1>9, <1>10, <1>11, <1>12
    DEF Next, WorkerStep

-----------------------------------------------------------------------------
(* Who is admitted, and who was shut out *)

LEMMA AdmittedStep ==
    ASSUME SyncInv, [Next]_vars
    PROVE  /\ BaselineIsAdmitted' /\ FetchedIsAdmitted' /\ MissingWereShutOut'
           /\ RemovedWereShutOut' /\ WrittenIsAdmitted'
<1> USE IdleRunIsRun
    DEF BaselineIsAdmitted, FetchedIsAdmitted, MissingWereShutOut, RemovedWereShutOut,
        WrittenIsAdmitted, Admits, Listed, CoveredByDomain, At
<1> TypeOK /\ RowHeld /\ BaselineIsAdmitted /\ FetchedIsAdmitted /\ MissingWereShutOut
    /\ RemovedWereShutOut /\ WrittenIsAdmitted
    BY DEF SyncInv
<1> baseline.emails \subseteq Emails /\ run.desired \subseteq Emails /\ run.removed \subseteq Emails
    BY DEF TypeOK, Run
<1>1. CASE PanelChange \/ ArmOnly
    BY <1>1, PanelSteps DEF PanelStep
<1>2. CASE OperatorEdits
    <2>1. PICK p \in Policy : EditPolicy(p)
        BY <1>2, OperatorStep
    <2> QED BY <2>1 DEF EditPolicy
<1>3. CASE Claim
    <2>1. run'.pc = "fetch"
        BY <1>3 DEF Claim, IdleRun
    <2> QED BY <1>3, <2>1 DEF Claim, history
<1>4. CASE FetchPolicy
    <2>1. CASE Throw /\ UNCHANGED <<withdrawn, dropped>>
        <3>1. run' = IdleRun
            BY <2>1 DEF Throw, FailJob
        <3> QED BY <1>4, <2>1, <3>1 DEF FetchPolicy
    <2>2. CASE /\ run' = [run EXCEPT !.pc = "decide", !.policy = policy]
               /\ withdrawn' = {e \in withdrawn : ~Admits(policy, e)}
               /\ dropped' = {e \in dropped : ~Admits(policy, e)}
               /\ UNCHANGED job
        <3>1. run'.pc = "decide" /\ run'.policy = policy
            BY <2>2 DEF TypeOK, Run
        <3> QED BY <1>4, <2>2, <3>1 DEF FetchPolicy
    <2> QED BY <1>4, <2>1, <2>2 DEF FetchPolicy
<1>5. CASE Decide
    <2> DEFINE removed == RemovedInCloudflare(run.policy)
    <2>1. CASE FailJob
        BY <1>5, <2>1 DEF Decide, FailJob, history
    <2>2. CASE run' = [run EXCEPT !.pc = IF removed = {} THEN "read" ELSE "disable",
                                  !.removed = removed]
        <3>1. /\ run'.pc \in {"read", "disable"} /\ run'.policy = run.policy
              /\ run'.removed = removed
            BY <2>2 DEF TypeOK, Run
        <3>2. removed \subseteq (withdrawn \cup dropped) \ Pinned
            BY <1>5 DEF RemovedInCloudflare, Decide
        <3> HIDE DEF removed
        <3> QED BY <1>5, <3>1, <3>2 DEF Decide, history
    <2> QED BY <1>5, <2>1, <2>2 DEF Decide
<1>6. CASE DeactivateByEmail
    <2>1. run'.pc = "read" /\ run'.policy = run.policy
        BY <1>6 DEF DeactivateByEmail, TypeOK, Run
    <2> QED BY <1>6, <2>1 DEF DeactivateByEmail, history
<1>7. CASE ReadDesired
    <2> DEFINE desired == ActiveUsers \cup Pinned
    <2>1. CASE FailJob
        BY <1>7, <2>1 DEF ReadDesired, FailJob
    <2>2. CASE run' = [run EXCEPT !.pc = "push", !.desired = desired, !.domains = wanted]
        <3>1. run'.pc = "push" /\ run'.policy = run.policy
            BY <2>2 DEF TypeOK, Run
        <3> QED BY <1>7, <3>1 DEF ReadDesired
    <2> QED BY <1>7, <2>1, <2>2 DEF ReadDesired
<1>8. CASE PushPolicy
    <2> DEFINE next == [run EXCEPT !.pc = "record", !.policy = NoPolicy]
    <2>1. next.pc = "record" /\ next.desired = run.desired
        BY DEF TypeOK, Run
    <2>2. \A e \in run.desired : Admits(NextPolicy, e)
        BY NextPolicyIsPolicy DEF TypeOK
    <2>3. CASE InSync /\ run' = next /\ UNCHANGED <<policy, job, dropped>>
        <3>1. \A e \in run.desired : e \in Listed(NextPolicy)
            BY DEF NextPolicy, Present, TypeOK, Run, Policy
        <3>2. \A e \in run.desired : Admits(policy, e) \/ e \in withdrawn
            BY <1>8, <2>3, <3>1 DEF InSync, PushPolicy
        <3> QED BY <1>8, <2>1, <2>3, <3>2 DEF PushPolicy
    <2>4. CASE Replace(NextPolicy) /\ run' = next
        BY <1>8, <2>1, <2>2, <2>4 DEF PushPolicy, Replace
    <2>5. CASE Throw /\ (Replace(NextPolicy) \/ UNCHANGED <<policy, dropped>>)
        <3>1. run' = IdleRun
            BY <2>5 DEF Throw, FailJob
        <3>2. BaselineIsAdmitted'
            BY <1>8, <2>5 DEF PushPolicy, Replace
        <3> QED BY <3>1, <3>2
    <2> QED BY <1>8, <2>3, <2>4, <2>5 DEF PushPolicy
<1>9. CASE SetBaseline
    <2>1. run'.pc = "finish" /\ baseline'.emails = run.desired
        BY <1>9 DEF SetBaseline, IdleRun
    <2> QED BY <1>9, <2>1 DEF SetBaseline
<1>10. CASE FinishAccessSync
    BY <1>10 DEF FinishAccessSync, history
<1>11. CASE Crash
    BY <1>11 DEF Crash, history
<1>12. CASE UNCHANGED vars
    BY <1>12 DEF vars, history
<1> QED
    BY <1>1, <1>2, <1>3, <1>4, <1>5, <1>6, <1>7, <1>8, <1>9, <1>10, <1>11, <1>12
    DEF Next, WorkerStep

LEMMA InvHolds == Spec => []SyncInv
<1>1. SyncInv /\ [Next]_vars => SyncInv'
    BY RowStep, AdmittedStep DEF SyncInv, RowInv
<1> QED
    BY <1>1, InitHolds, PTL DEF Spec

-----------------------------------------------------------------------------
\* Every variable keeps its type: in particular the attempts of the row pass
\* the limit only by as many as workers died.
THEOREM TypeCorrect == Spec => []TypeOK
<1>1. SyncInv => TypeOK
    BY DEF SyncInv
<1> QED
    BY <1>1, InvHolds, PTL

\* However changes and runs interleave, the row does not show completed while
\* a change that armed it came after the last reading of the accounts.
THEOREM NoChangeLeftBehind == Spec => []ChangeGetsARun
<1>1. SyncInv => ChangeGetsARun
    BY DEF SyncInv, ChangeIsMarked, ChangeGetsARun
<1> QED
    BY <1>1, InvHolds, PTL

\* A run disables only addresses that an edit at Cloudflare, or a write the
\* panel has not recorded, has shut out, and no administrator: with any cap,
\* and with edits, panel changes, lost replies and deaths at any step.
THEOREM OnlyWithdrawnDisabled == Spec => OnlyWithdrawnAreDisabled
<1>1. SyncInv /\ [Next]_vars =>
        [DeactivateByEmail =>
            \A e \in Emails : DisabledNow(e) => /\ e \in withdrawn \cup dropped
                                                /\ e \notin Admins \cup Pinned]_vars
    <2> SUFFICES ASSUME SyncInv, DeactivateByEmail, NEW e \in Emails, DisabledNow(e)
                 PROVE  e \in withdrawn \cup dropped /\ e \notin Admins \cup Pinned
        OBVIOUS
    <2>1. e \in run.removed \ Admins
        BY DEF DeactivateByEmail, DisabledNow, SyncInv, TypeOK
    <2> QED BY <2>1 DEF SyncInv, RemovedWereShutOut, DeactivateByEmail
<1> QED
    BY <1>1, InvHolds, PTL DEF Spec, OnlyWithdrawnAreDisabled
=============================================================================
