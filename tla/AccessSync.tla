----------------------------- MODULE AccessSync -----------------------------
(***************************************************************************)
(* The two-way sync between the panel's accounts and the policy of a       *)
(* Cloudflare Access application.  Panel changes and a timer arm the one   *)
(* access.sync row of the outbox; the worker runs the sync step by step    *)
(* while administrators keep changing accounts and an operator keeps       *)
(* editing the policy in the Cloudflare dashboard.  A stored baseline (the *)
(* addresses and domains of the last write) tells an account added in the  *)
(* panel from one taken out in Cloudflare.                                 *)
(***************************************************************************)
EXTENDS Naturals, FiniteSets

CONSTANTS
    Emails, Domains, DomainOf,  \* addresses, domains, and each address's domain
    Pinned, Admins,         \* bootstrap admins; accounts whose role is admin
    MaxDisables,            \* ACCESS_SYNC_MAX_DISABLES (10); 0 lifts the cap
    MaxAttempts,            \* maxAttempts of the runner (10)
    MaxChanges,             \* bound: changes of accounts and of the domain list
    MaxEdits,               \* bound: edits in the Cloudflare dashboard
    MaxCrashes              \* bound: deaths of the worker

ASSUME DomainAssumption == DomainOf \in [Emails -> Domains]
ASSUME AdminAssumption == Pinned \subseteq Emails /\ Admins \subseteq Emails
ASSUME FiniteAssumption == IsFiniteSet(Emails) /\ IsFiniteSet(Domains)
ASSUME BoundsAssumption ==
    MaxAttempts \in Nat \ {0} /\ {MaxDisables, MaxChanges, MaxEdits, MaxCrashes} \subseteq Nat

VARIABLES
    user,           \* users.status; "none" before there is an account
    wanted,         \* portal_policy.cf_access_allowed_domains
    baseline,       \* cf_access_synced_emails and _domains
    policy,         \* the Access policy at Cloudflare
    job,            \* the access.sync row of job_outbox
    run,            \* the sync the worker is in and what it has read
    changes, edits, crashes,    \* bounds
    unread,         \* history: a change that armed the job came after the last read
    withdrawn,      \* history: addresses the operator shut out, not seen admitted since
    dropped         \* history: those a write of the panel did, which it has not recorded

panel == <<user, wanted>>
history == <<unread, withdrawn, dropped>>
vars == <<panel, baseline, policy, job, run, changes, edits, crashes, history>>

-----------------------------------------------------------------------------
(* The policy.  Each address has a rule of its own or none; who wrote it   *)
(* is not something the panel can see.                                     *)

Present == {"panel", "hand"}

Policy == [emails : [Emails -> Present \cup {"absent"}], domains : SUBSET Domains,
           exclude : SUBSET Emails, excludeDomains : SUBSET Domains]

Listed(p) == {e \in Emails : p.emails[e] \in Present}

CoveredByDomain(p, e) ==
    /\ DomainOf[e] \in p.domains \ p.excludeDomains
    /\ e \notin p.exclude

Admits(p, e) == e \in Listed(p) \/ CoveredByDomain(p, e)

ActiveUsers == {e \in Emails : user[e] = "active"}

-----------------------------------------------------------------------------
(* Arming the row: a finished one becomes pending, one in progress keeps   *)
(* its course but carries a new marker (the armId the run compares).       *)

JobStatus == {"none", "pending", "processing", "completed", "failed"}

\* Only a lease that ran out takes the attempts past their limit.
Job == [status : JobStatus, attempts : 0 .. MaxAttempts + MaxCrashes, rearmed : BOOLEAN]

ArmedIdleOnly(j) ==
    IF j.status \in {"none", "completed", "failed"}
    THEN [status |-> "pending", attempts |-> 0, rearmed |-> FALSE]
    ELSE j

Armed(j) ==
    IF j.status \in {"none", "completed", "failed"}
    THEN [status |-> "pending", attempts |-> 0, rearmed |-> FALSE]
    ELSE [j EXCEPT !.rearmed = (j.status = "processing")]

Arm == job' = Armed(job)

-----------------------------------------------------------------------------
(* The panel *)

Change == changes < MaxChanges /\ changes' = changes + 1

SetStatus(e, status) ==
    /\ Change
    /\ user' = [user EXCEPT ![e] = status]
    /\ UNCHANGED <<wanted, baseline, policy, run, edits, crashes, withdrawn, dropped>>

CreateUser(e) == user[e] = "none" /\ SetStatus(e, "active") /\ Arm /\ unread' = TRUE

\* An administrator who is active and not the target asks for it.
OffboardUser(e) ==
    /\ user[e] # "none"
    /\ ActiveUsers \cap (Admins \ {e}) # {}
    /\ SetStatus(e, "disabled")
    /\ Arm
    /\ unread' = TRUE

ReinstateUser(e) == user[e] # "none" /\ SetStatus(e, "active") /\ Arm /\ unread' = TRUE

\* A first sign-in makes an account and arms nothing.  Cloudflare lets in whom
\* the policy admits, the panel's own door whom a managed domain or pin names.
SignIn(e) ==
    /\ user[e] = "none"
    /\ Admits(policy, e) \/ DomainOf[e] \in wanted \/ e \in Pinned
    /\ SetStatus(e, "active")
    /\ UNCHANGED <<job, unread>>

SetAllowedDomains(D) ==
    /\ Change
    /\ wanted' = D
    /\ Arm
    /\ unread' = TRUE
    /\ UNCHANGED <<user, baseline, policy, run, edits, crashes, withdrawn, dropped>>

\* The timer, and the administrator's "run now".
ArmOnly ==
    /\ Arm
    /\ UNCHANGED <<panel, baseline, policy, run, changes, edits, crashes, history>>

-----------------------------------------------------------------------------
(* The Cloudflare dashboard *)

EditPolicy(p) ==
    /\ edits < MaxEdits
    /\ edits' = edits + 1
    /\ policy' = p
    /\ withdrawn' = withdrawn \cup {e \in Emails : Admits(policy, e) /\ ~Admits(p, e)}
    /\ UNCHANGED <<panel, baseline, job, run, changes, crashes, unread, dropped>>

OperatorEdits ==
    \/ \E e \in Emails : policy.emails[e] = "absent"
                         /\ EditPolicy([policy EXCEPT !.emails[e] = "hand"])
    \/ \E e \in Listed(policy) : EditPolicy([policy EXCEPT !.emails[e] = "absent"])
    \/ \E d \in Domains \ policy.domains : EditPolicy([policy EXCEPT !.domains = @ \cup {d}])
    \/ \E d \in policy.domains : EditPolicy([policy EXCEPT !.domains = @ \ {d}])
    \/ \E e \in Emails \ policy.exclude : EditPolicy([policy EXCEPT !.exclude = @ \cup {e}])
    \/ \E d \in Domains \ policy.excludeDomains :
            EditPolicy([policy EXCEPT !.excludeDomains = @ \cup {d}])

-----------------------------------------------------------------------------
(* The run *)

RunSteps == {"idle", "fetch", "decide", "disable", "read", "push", "record", "finish"}

Run == [pc : RunSteps, policy : Policy, removed : SUBSET Emails, desired : SUBSET Emails,
        domains : SUBSET Domains]

NoPolicy == [emails |-> [e \in Emails |-> "absent"], domains |-> {}, exclude |-> {},
             excludeDomains |-> {}]

IdleRun == [pc |-> "idle", policy |-> NoPolicy, removed |-> {}, desired |-> {}, domains |-> {}]

At(step) == run.pc = step

\* A pending row, or one a dead worker left in progress until its lease ran out.
Claim ==
    /\ At("idle")
    /\ job.status \in {"pending", "processing"}
    /\ job' = [status |-> "processing", attempts |-> job.attempts + 1, rearmed |-> FALSE]
    /\ run' = [IdleRun EXCEPT !.pc = "fetch"]
    /\ UNCHANGED <<panel, baseline, policy, changes, edits, crashes, history>>

\* failJob: a refusal to act, or the last attempt, whatever was armed meanwhile.
FailJob == job' = [job EXCEPT !.status = "failed"] /\ run' = IdleRun

ThrowForever == job' = [job EXCEPT !.status = "pending"] /\ run' = IdleRun

\* The error reaches the runner: a retry, or the end of the attempts.
Throw ==
    IF job.attempts >= MaxAttempts
    THEN FailJob
    ELSE job' = [job EXCEPT !.status = "pending"] /\ run' = IdleRun

FetchPolicy ==
    /\ At("fetch")
    /\ \/ Throw /\ UNCHANGED <<withdrawn, dropped>>
       \/ /\ run' = [run EXCEPT !.pc = "decide", !.policy = policy]
          /\ withdrawn' = {e \in withdrawn : ~Admits(policy, e)}
          /\ dropped' = {e \in dropped : ~Admits(policy, e)}
          /\ UNCHANGED job
    /\ UNCHANGED <<panel, baseline, policy, changes, edits, crashes, unread>>

RemovedNotRecorded(p) ==
    IF Listed(p) = {} THEN {}
    ELSE {e \in Emails \ Pinned :
             user[e] = "active" /\ e \notin Listed(p) /\ ~CoveredByDomain(p, e)}

\* Active accounts of the baseline that the policy no longer admits; a policy
\* without a single address is an anomaly and takes out nobody.
RemovedInCloudflare(p) ==
    IF Listed(p) = {} THEN {}
    ELSE {e \in baseline.emails \ Pinned :
             user[e] = "active" /\ e \notin Listed(p) /\ ~CoveredByDomain(p, e)}

\* Over the absolute cap, or over half of the active accounts rounded up.
OverCap(removed) ==
    /\ MaxDisables > 0
    /\ \/ Cardinality(removed) > MaxDisables
       \/ Cardinality(removed) > (Cardinality(ActiveUsers) + 1) \div 2

Decide ==
    LET removed == RemovedInCloudflare(run.policy)
    IN  /\ At("decide")
        /\ \/ OverCap(removed) /\ FailJob
           \/ /\ ~OverCap(removed)
              /\ run' = [run EXCEPT !.pc = IF removed = {} THEN "read" ELSE "disable",
                                    !.removed = removed]
              /\ UNCHANGED job
        /\ UNCHANGED <<panel, baseline, policy, changes, edits, crashes, history>>

\* deactivateByEmail looks again at status and role, not at why they were named.
DeactivateByEmail ==
    /\ At("disable")
    /\ user' = [e \in Emails |-> IF e \in run.removed \ Admins /\ user[e] = "active"
                                 THEN "disabled" ELSE user[e]]
    /\ run' = [run EXCEPT !.pc = "read", !.removed = {}]
    /\ UNCHANGED <<wanted, baseline, policy, job, changes, edits, crashes, history>>

\* The accounts are read again, then the domain list; nobody active, no write.
ReadDesired ==
    LET desired == ActiveUsers \cup Pinned
    IN  /\ At("read")
        /\ \/ desired = {} /\ FailJob
           \/ /\ desired # {}
              /\ run' = [run EXCEPT !.pc = "push", !.desired = desired, !.domains = wanted]
              /\ UNCHANGED job
        /\ unread' = FALSE
        /\ UNCHANGED <<panel, baseline, policy, changes, edits, crashes, withdrawn, dropped>>

NextPolicyOwnsNothing ==
    [run.policy EXCEPT
        !.emails = [e \in Emails |-> IF e \in run.desired THEN "panel" ELSE @[e]],
        !.domains = @ \cup run.domains]

\* What the PUT sends: rules neither owned nor desired stay as they were
\* fetched, the desired ones are written anew, owned ones no longer desired go.
NextPolicy ==
    LET foreignDomains == run.policy.domains \ (baseline.domains \cup run.domains)
    IN  [run.policy EXCEPT
            !.emails = [e \in Emails |->
                CASE e \in run.desired -> "panel"
                  [] e \in (Listed(run.policy) \cap baseline.emails) \ run.desired -> "absent"
                  [] OTHER -> run.policy.emails[e]],
            !.domains = foreignDomains \cup run.domains]

InSync ==
    Listed(NextPolicy) = Listed(run.policy) /\ NextPolicy.domains = run.policy.domains

Replace(p) ==
    /\ policy' = p
    /\ dropped' = dropped \cup {e \in Emails : Admits(policy, e) /\ ~Admits(p, e)}

\* The PUT replaces the whole policy.  Its reply may be lost after it landed.
PushPolicy ==
    LET next == [run EXCEPT !.pc = "record", !.policy = NoPolicy]
    IN  /\ At("push")
        /\ \/ InSync /\ run' = next /\ UNCHANGED <<policy, job, dropped>>
           \/ ~InSync /\ Replace(NextPolicy) /\ run' = next /\ UNCHANGED job
           \/ ~InSync /\ Throw /\ (Replace(NextPolicy) \/ UNCHANGED <<policy, dropped>>)
        /\ UNCHANGED <<panel, baseline, changes, edits, crashes, unread, withdrawn>>

SetBaseline ==
    /\ At("record")
    /\ baseline' = [emails |-> run.desired, domains |-> run.domains]
    /\ run' = [IdleRun EXCEPT !.pc = "finish"]
    /\ dropped' = {}
    /\ UNCHANGED <<panel, policy, job, changes, edits, crashes, unread, withdrawn>>

\* Completed only if the marker is still the one the run was claimed with.
FinishAccessSync ==
    /\ At("finish")
    /\ job' = [status |-> IF job.rearmed THEN "pending" ELSE "completed",
               attempts |-> 0, rearmed |-> FALSE]
    /\ run' = IdleRun
    /\ UNCHANGED <<panel, baseline, policy, changes, edits, crashes, history>>

Crash ==
    /\ ~At("idle")
    /\ crashes < MaxCrashes
    /\ crashes' = crashes + 1
    /\ run' = IdleRun
    /\ UNCHANGED <<panel, baseline, policy, job, changes, edits, history>>

-----------------------------------------------------------------------------
Init ==
    /\ user \in [Emails -> {"none", "active"}]
    /\ \A e \in Pinned : user[e] = "active"
    /\ wanted = {}
    /\ baseline = [emails |-> {}, domains |-> {}]
    /\ policy \in {[NoPolicy EXCEPT !.domains = D] : D \in SUBSET Domains}
    /\ job = [status |-> "none", attempts |-> 0, rearmed |-> FALSE]
    /\ run = IdleRun
    /\ changes = 0 /\ edits = 0 /\ crashes = 0
    /\ unread = FALSE
    /\ withdrawn = {} /\ dropped = {}

PanelChange ==
    \/ \E e \in Emails : CreateUser(e) \/ OffboardUser(e) \/ ReinstateUser(e) \/ SignIn(e)
    \/ \E D \in SUBSET Domains : SetAllowedDomains(D)

WorkerStep ==
    \/ Claim \/ FetchPolicy \/ Decide \/ DeactivateByEmail \/ ReadDesired \/ PushPolicy
    \/ SetBaseline \/ FinishAccessSync

Next == PanelChange \/ ArmOnly \/ OperatorEdits \/ WorkerStep \/ Crash

Spec == Init /\ [][Next]_vars

\* The runner keeps claiming and stepping, and the timer arms the row again.
FairSpec == Spec /\ WF_vars(WorkerStep) /\ WF_vars(ArmOnly)

-----------------------------------------------------------------------------
(* Properties *)

TypeOK ==
    /\ user \in [Emails -> {"none", "active", "disabled"}]
    /\ wanted \in SUBSET Domains
    /\ baseline \in [emails : SUBSET Emails, domains : SUBSET Domains]
    /\ policy \in Policy
    /\ job \in Job
    /\ run \in Run
    /\ changes \in Nat /\ edits \in Nat /\ crashes \in Nat
    /\ unread \in BOOLEAN
    /\ withdrawn \subseteq Emails /\ dropped \subseteq Emails

\* A change that armed the row is never left behind by a run that had already
\* read the accounts: the row does not show completed before a later read.
ChangeGetsARun == unread => job.status # "completed"

DisabledNow(e) == user[e] = "active" /\ user'[e] = "disabled"

\* The sync disables only who was shut out in Cloudflare, or whom a write of
\* its own dropped without getting as far as recording it; never an administrator.
OnlyWithdrawnAreDisabled ==
    [][DeactivateByEmail =>
        \A e \in Emails :
            DisabledNow(e) => /\ e \in withdrawn \cup dropped
                              /\ e \notin Admins \cup Pinned]_vars

\* An offboarded address the panel recorded as its own leaves the policy,
\* unless it is reinstated, added by hand, or the run fails or refuses.
LeaverLeavesPolicy ==
    \A e \in Emails \ Pinned :
        (user[e] = "disabled" /\ e \in baseline.emails)
            ~> (policy.emails[e] # "panel" \/ user[e] = "active" \/ job.status = "failed")
=============================================================================
