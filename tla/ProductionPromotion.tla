-------------------------- MODULE ProductionPromotion --------------------------
(***************************************************************************)
(* The automatic promotion of one commit of main to Production: the proxy, *)
(* the agent and the agent's callback alias are moved one after the other, *)
(* and moved back in the reverse order when any step fails.                *)
(* Source: packages/infrastructure/src/vercel/production.ts,               *)
(* production.live.layer.ts; scripts/automatic-production.ts.              *)
(*                                                                         *)
(* The workflow's concurrency group lets one run go at a time; a run may   *)
(* be for any commit that main has had.  The provider accepts a request    *)
(* first and carries it out later: the code polls for the result.          *)
(***************************************************************************)
EXTENDS Naturals, Sequences, FiniteSets

CONSTANTS
  CommandTimeout,    \* minutes: providerCommandTimeout
  PromotionTimeout,  \* minutes: productionMutationTimeout
  RollbackTimeout,   \* minutes: productionRollbackTimeout
  StepTimeout,       \* minutes: the deployment step of the workflow
  MaxSha,            \* bound on the commits of main
  MaxRuns            \* bound on the runs

(* The twelve commands before the promotion, the promotion and the three   *)
(* restorations fit into the step of the workflow.                         *)
ASSUME PromotionAssumption ==
  /\ CommandTimeout \in Nat /\ PromotionTimeout \in Nat /\ RollbackTimeout \in Nat
  /\ StepTimeout \in Nat
  /\ 12 * CommandTimeout + PromotionTimeout + 3 * RollbackTimeout <= StepTimeout
  /\ MaxSha \in Nat \ {0} /\ MaxRuns \in Nat

VARIABLES
  main,       \* the newest commit of main
  serving,    \* the deployment behind each target
  queue,      \* requests that the provider has accepted and not carried out
  runs,       \* the runs started so far
  pc, at,     \* the step of the run, and its target
  sha,        \* the commit of the run
  previous,   \* the deployments that the run found
  eligible,   \* rollbackEligibility
  unrestored, \* targets whose restoration failed
  outcome,    \* how the last run ended
  minutes,    \* the most minutes that the run can have taken
  accepted,   \* the releases that runs have reported
  uncertain,  \* targets that a run gave up not knowing what becomes of them
  dropped,    \* targets of which the provider dropped a request
  died        \* a run has died

vars == <<main, serving, queue, runs, pc, at, sha, previous, eligible, unrestored, outcome,
          minutes, accepted, uncertain, dropped, died>>

provider == <<serving, queue, dropped>>

history == <<accepted, uncertain, died>>
-----------------------------------------------------------------------------

Target == {"proxy", "agent", "callback"}

(* A deployment of a project: the commit, and the run that staged it.      *)
Deployment == [sha : 0..MaxSha, run : 0..MaxRuns]

Release == [Target -> Deployment]

Unread == [t \in Target |-> [sha |-> 0, run |-> 0]]

Sha == 1..MaxSha

Reading   == {"current", "stage", "inspect", "main"}
Promoting == {"post", "wait", "validate", "probe"}
Restoring == {"restore", "settle", "confirm"}

Success == {"already-current", "callback-reconciled", "promoted"}

TypeOK ==
  /\ main \in Sha /\ sha \in Sha /\ runs \in 0..MaxRuns
  /\ serving \in Release /\ previous \in Release
  /\ queue \in [Target -> Seq(Deployment)]
  /\ pc \in {"idle"} \cup Reading \cup Promoting \cup Restoring
  /\ at \in Target
  /\ eligible \subseteq Target /\ unrestored \subseteq eligible
  /\ outcome \in Success \cup {"none", "stale", "failed", "restored", "rollbackFailed", "died"}
  /\ minutes \in 0..StepTimeout
  /\ accepted \subseteq Release
  /\ uncertain \subseteq Target /\ dropped \subseteq Target /\ died \in BOOLEAN

(* Commit 0 is served, or commit 1 with the callback left behind.          *)
Init ==
  /\ main = 1
  /\ serving \in {[t \in Target |-> [sha |-> IF t = "callback" THEN 0 ELSE s, run |-> 0]] : s \in {0, 1}}
  /\ queue = [t \in Target |-> <<>>]
  /\ runs = 0
  /\ pc = "idle" /\ at = "proxy" /\ sha = 1
  /\ previous = Unread
  /\ eligible = {} /\ unrestored = {}
  /\ outcome = "none" /\ minutes = 0
  /\ accepted = {serving} /\ uncertain = {} /\ dropped = {} /\ died = FALSE

-----------------------------------------------------------------------------
(* What the run decides by.                                                *)

PublicTargetsAreCurrent(found) == found["proxy"].sha = sha /\ found["agent"].sha = sha

CallbackIsCurrent(found) == found["callback"] = found["agent"] /\ found["callback"].sha = sha

(* Current targets are their own candidates; others are staged by the run. *)
Candidate(t) ==
  IF PublicTargetsAreCurrent(previous)
  THEN previous[IF t = "callback" THEN "agent" ELSE t]
  ELSE [sha |-> sha, run |-> runs]

Ask(t, deployment) == queue' = [queue EXCEPT ![t] = Append(@, deployment)]

(* The commands of a step: the alias is resolved and its deployment        *)
(* inspected; staging deploys and inspects, and probes the agent.          *)
Commands(step, t) ==
  CASE step = "current" /\ t = "callback" -> 2
    [] step = "stage" /\ t = "proxy" -> 2
    [] step = "stage" /\ t = "agent" -> 3
    [] OTHER -> 1

Spend(allowance) == minutes' = minutes + allowance

SpendCommands == Spend(Commands(pc, at) * CommandTimeout)

End(result) == pc' = "idle" /\ outcome' = result

-----------------------------------------------------------------------------
(* Before anything is changed.                                             *)

Push ==
  /\ main < MaxSha
  /\ main' = main + 1
  /\ UNCHANGED <<provider, runs, pc, at, sha, previous, eligible, unrestored, outcome, minutes, history>>

(* A run starts for a commit whose checks passed; checks end in any order, *)
(* and a run can be repeated.                                              *)
Start ==
  /\ pc = "idle" /\ runs < MaxRuns
  /\ runs' = runs + 1
  /\ sha' \in 1..main
  /\ pc' = "current" /\ at' = "proxy"
  /\ previous' = Unread /\ eligible' = {} /\ unrestored' = {}
  /\ outcome' = "none" /\ minutes' = 0
  /\ UNCHANGED <<main, provider, history>>

Current ==
  /\ pc = "current"
  /\ previous' = [previous EXCEPT ![at] = serving[at]]
  /\ SpendCommands
  /\ \/ at = "proxy" /\ at' = "agent" /\ UNCHANGED <<pc, outcome>>
     \/ at = "agent" /\ at' = "callback" /\ UNCHANGED <<pc, outcome>>
     \/ /\ at = "callback" /\ PublicTargetsAreCurrent(previous') /\ CallbackIsCurrent(previous')
        /\ End("already-current")
        /\ UNCHANGED at
     \/ /\ at = "callback" /\ PublicTargetsAreCurrent(previous') /\ ~CallbackIsCurrent(previous')
        /\ pc' = "main"
        /\ UNCHANGED <<at, outcome>>
     \/ /\ at = "callback" /\ ~PublicTargetsAreCurrent(previous')
        /\ pc' = "stage" /\ at' = "proxy"
        /\ UNCHANGED outcome
  /\ UNCHANGED <<main, provider, runs, sha, eligible, unrestored, history>>

(* Candidates are staged, then inspected: proxy and agent.                 *)
Stage ==
  /\ pc \in {"stage", "inspect"}
  /\ SpendCommands
  /\ \/ at = "proxy" /\ at' = "agent" /\ UNCHANGED pc
     \/ at = "agent" /\ pc = "stage" /\ pc' = "inspect" /\ at' = "proxy"
     \/ at = "agent" /\ pc = "inspect" /\ pc' = "main" /\ UNCHANGED at
  /\ UNCHANGED <<main, provider, runs, sha, previous, eligible, unrestored, outcome, history>>

(* Mutant: a commit that main has left behind is promoted.                 *)
ReadMainUnchecked ==
  /\ pc = "main"
  /\ pc' = "post" /\ at' = IF PublicTargetsAreCurrent(previous) THEN "callback" ELSE "proxy"
  /\ Spend(CommandTimeout + PromotionTimeout)
  /\ UNCHANGED <<main, provider, runs, sha, previous, eligible, unrestored, outcome, history>>

ReadMain ==
  /\ pc = "main"
  /\ \/ /\ main # sha
        /\ End("stale")
        /\ SpendCommands
        /\ UNCHANGED at
     \/ /\ main = sha
        /\ pc' = "post" /\ at' = IF PublicTargetsAreCurrent(previous) THEN "callback" ELSE "proxy"
        /\ Spend(CommandTimeout + PromotionTimeout)
        /\ UNCHANGED outcome
  /\ UNCHANGED <<main, provider, runs, sha, previous, eligible, unrestored, history>>

(* A command fails or times out, or its output is not what it must be.     *)
CommandFails ==
  /\ pc \in Reading
  /\ SpendCommands
  /\ End("failed")
  /\ UNCHANGED <<main, provider, runs, at, sha, previous, eligible, unrestored, history>>

-----------------------------------------------------------------------------
(* The promotion.                                                          *)

Outstanding == {t \in Target : queue[t] # <<>>}

(* Any exit but success goes on to the rollback.                           *)
Compensate ==
  /\ pc' = "restore" /\ at' = "callback"
  /\ uncertain' = uncertain \cup Outstanding'

(* Mutant: the target becomes eligible when the request has succeeded.     *)
PostMarkingLate ==
  /\ pc = "post"
  /\ \/ Ask(at, Candidate(at)) /\ pc' = "wait" /\ eligible' = eligible \cup {at} /\ UNCHANGED <<at, uncertain>>
     \/ Ask(at, Candidate(at)) /\ Compensate /\ UNCHANGED eligible
     \/ UNCHANGED <<queue, eligible>> /\ Compensate
  /\ UNCHANGED <<main, serving, dropped, runs, sha, previous, unrestored, outcome, minutes, accepted, died>>

(* The target becomes eligible for rollback before the request is made; a  *)
(* request that fails may have been accepted all the same.                 *)
Post ==
  /\ pc = "post"
  /\ eligible' = eligible \cup {at}
  /\ \/ Ask(at, Candidate(at)) /\ pc' = "wait" /\ UNCHANGED <<at, uncertain>>
     \/ Ask(at, Candidate(at)) /\ Compensate
     \/ UNCHANGED queue /\ Compensate
  /\ UNCHANGED <<main, serving, dropped, runs, sha, previous, unrestored, outcome, minutes, accepted, died>>

(* Mutant: a request that was accepted is not awaited.                     *)
ObserveNothing ==
  /\ pc \in {"wait", "validate"}
  /\ \/ at = "proxy" /\ pc' = "post" /\ at' = "agent"
     \/ at = "agent" /\ pc' = "post" /\ at' = "callback"
     \/ at = "callback" /\ pc' = "probe" /\ UNCHANGED at
  /\ UNCHANGED <<main, provider, runs, sha, previous, eligible, unrestored, outcome, minutes, history>>

(* The poll sees the candidate, and it is read and validated once more.    *)
Observe ==
  /\ pc \in {"wait", "validate"}
  /\ serving[at] = Candidate(at)
  /\ \/ pc = "wait" /\ pc' = "validate" /\ UNCHANGED at
     \/ pc = "validate" /\ at = "proxy" /\ pc' = "post" /\ at' = "agent"
     \/ pc = "validate" /\ at = "agent" /\ pc' = "post" /\ at' = "callback"
     \/ pc = "validate" /\ at = "callback" /\ pc' = "probe" /\ UNCHANGED at
  /\ UNCHANGED <<main, provider, runs, sha, previous, eligible, unrestored, outcome, minutes, history>>

(* Both applications answer as they should.                                *)
Probe ==
  /\ pc = "probe"
  /\ End(IF PublicTargetsAreCurrent(previous) THEN "callback-reconciled" ELSE "promoted")
  /\ accepted' = accepted \cup {[t \in Target |-> Candidate(t)]}
  /\ UNCHANGED <<main, provider, runs, at, sha, previous, eligible, unrestored, minutes, uncertain, died>>

(* Mutant: an application that does not answer as it should is left there. *)
PromotionFailsBare ==
  /\ pc \in Promoting
  /\ UNCHANGED provider
  /\ IF pc = "probe" THEN End("failed") /\ UNCHANGED <<at, uncertain>> ELSE Compensate /\ UNCHANGED outcome
  /\ UNCHANGED <<main, runs, sha, previous, eligible, unrestored, minutes, accepted, died>>

(* The poll gives up, another deployment is read, a probe fails, or the    *)
(* time for the promotion is over.                                         *)
PromotionFails ==
  /\ pc \in Promoting
  /\ UNCHANGED provider
  /\ Compensate
  /\ UNCHANGED <<main, runs, sha, previous, eligible, unrestored, outcome, minutes, accepted, died>>

-----------------------------------------------------------------------------
(* The rollback: the callback, the agent, the proxy.                       *)

(* The next target, or the end.                                            *)
NextRestore ==
  \/ at = "callback" /\ pc' = "restore" /\ at' = "agent" /\ UNCHANGED outcome
  \/ at = "agent" /\ pc' = "restore" /\ at' = "proxy" /\ UNCHANGED outcome
  \/ at = "proxy" /\ End(IF unrestored' = {} THEN "restored" ELSE "rollbackFailed") /\ UNCHANGED at

Skip ==
  /\ pc = "restore" /\ at \notin eligible
  /\ UNCHANGED unrestored
  /\ NextRestore
  /\ UNCHANGED <<main, provider, runs, sha, previous, eligible, minutes, history>>

(* A restoration that fails does not keep the others from being tried.     *)
LeaveUnrestored ==
  /\ unrestored' = unrestored \cup {at}
  /\ uncertain' = uncertain \cup {at}
  /\ NextRestore

Restore ==
  /\ pc = "restore" /\ at \in eligible
  /\ Spend(RollbackTimeout)
  /\ \/ Ask(at, previous[at]) /\ pc' = "settle" /\ UNCHANGED <<at, unrestored, outcome, uncertain>>
     \/ Ask(at, previous[at]) /\ LeaveUnrestored
     \/ UNCHANGED queue /\ LeaveUnrestored
  /\ UNCHANGED <<main, serving, dropped, runs, sha, previous, eligible, accepted, died>>

(* The poll sees the former deployment, and it is read once more.          *)
Settle ==
  /\ pc \in {"settle", "confirm"}
  /\ serving[at] = previous[at]
  /\ UNCHANGED unrestored
  /\ \/ pc = "settle" /\ pc' = "confirm" /\ UNCHANGED <<at, outcome>>
     \/ pc = "confirm" /\ NextRestore
  /\ UNCHANGED <<main, provider, runs, sha, previous, eligible, minutes, history>>

RestoreFails ==
  /\ pc \in {"settle", "confirm"}
  /\ LeaveUnrestored
  /\ UNCHANGED <<main, provider, runs, sha, previous, eligible, minutes, accepted, died>>

-----------------------------------------------------------------------------
(* The process dies, and nothing is rolled back.                           *)
Die ==
  /\ pc # "idle"
  /\ End("died")
  /\ uncertain' = uncertain \cup Outstanding
  /\ died' = TRUE
  /\ UNCHANGED <<main, provider, runs, at, sha, previous, eligible, unrestored, minutes, accepted>>

(* The provider carries out the requests for a target in order, or drops   *)
(* one.  That order is an assumption about the provider, which the code    *)
(* relies on and does not enforce: RollbackIsComplete and AllOrNothing     *)
(* rest on it.                                                             *)
CarryOut(t) ==
  /\ queue[t] # <<>>
  /\ queue' = [queue EXCEPT ![t] = Tail(@)]
  /\ \/ serving' = [serving EXCEPT ![t] = Head(queue[t])] /\ UNCHANGED dropped
     \/ dropped' = dropped \cup {t} /\ UNCHANGED serving
  /\ UNCHANGED <<main, runs, pc, at, sha, previous, eligible, unrestored, outcome, minutes, history>>

Step ==
  \/ Current \/ Stage \/ ReadMain \/ CommandFails
  \/ Post \/ Observe \/ Probe \/ PromotionFails
  \/ Skip \/ Restore \/ Settle \/ RestoreFails

Next == Push \/ Start \/ Step \/ Die \/ \E t \in Target : CarryOut(t)

Spec == Init /\ [][Next]_vars

(* Every command is killed when its time is over.                          *)
FairSpec == Spec /\ WF_vars(Step)

-----------------------------------------------------------------------------
(* A report of success is true: every target serves the commit.  Of the    *)
(* targets it did not move the run knows only what it read, so requests    *)
(* that an earlier run left behind can undo that.                          *)
ReceiptsAreTrue ==
  outcome = "promoted" \/ (outcome \in Success /\ uncertain = {}) =>
    \A t \in Target : serving[t].sha = sha

(* What a target serves once the provider has done what it has accepted.   *)
Final(t) == IF queue[t] = <<>> THEN serving[t] ELSE queue[t][Len(queue[t])]

(* A failed run that does not report its rollback as failed leaves every   *)
(* target that it touched at what it found, and none at what it staged,    *)
(* whatever is still under way from before.                                *)
RollbackIsComplete ==
  outcome = "restored" =>
    \A t \in Target \ dropped :
      Final(t) = previous[t] \/ (t \notin eligible /\ Final(t).run # runs)

(* Promotion is all or nothing: as long as every run ended in order and    *)
(* knew what became of its requests, the targets serve, between runs, one  *)
(* release that was reported.                                              *)
AllOrNothing ==
  pc = "idle" /\ uncertain = {} /\ ~died => serving \in accepted

(* Releases never regress: a run that reports success does so of a commit  *)
(* no older than any that was reported before.                             *)
ReleasesNeverRegress ==
  [][accepted' # accepted => \A release \in accepted : release["agent"].sha <= sha]_vars

=============================================================================
