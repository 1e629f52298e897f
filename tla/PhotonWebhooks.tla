----------------------------- MODULE PhotonWebhooks -----------------------------
(***************************************************************************)
(* The operator's commands on Photon webhooks: register, delete and prove, *)
(* and the binding of a registered webhook to the Preview environment of   *)
(* Vercel.  Photon returns the signing secret of a webhook once, in the    *)
(* answer to its registration: from there it goes to a file of the         *)
(* operator's, and from the file to the environment.                       *)
(* Source: packages/photon/src/{environment-webhook,provider-proof,        *)
(* operator-management}.ts, packages/photon/scripts/                       *)
(* register-environment-webhook.ts, packages/infrastructure/scripts/       *)
(* bind-photon-preview-webhook.ts and src/photon/webhook-binding-live.     *)
(*                                                                         *)
(* The operator runs one command at a time, with whatever arguments, and   *)
(* a command may die at any step.  A request that fails for its caller can *)
(* still be applied by the provider, much later or never.  The secret of a *)
(* webhook is named by the webhook's id.                                   *)
(***************************************************************************)
EXTENDS Naturals, FiniteSets

CONSTANTS
  Urls,         \* callbacks of deployments
  ProofUrl,     \* the reserved URL of prove-provider
  Stages,       \* the Photon projects that the stages select: Preview's and
  Production,   \* Production's, whose callback is preserved
  Paths,        \* binding files
  Torn,         \* a binding file that does not decode
  Readbacks,    \* observations after a registration
  MaxCommands,  \* bound on the commands
  MaxFaults     \* bound on failing calls, failing file operations and deaths

ASSUME WebhooksAssumption ==
  /\ ProofUrl \notin Urls /\ Paths # {}
  /\ \E preview \in Stages : preview # Production /\ Stages = {Production, preview}
  /\ Readbacks \in Nat \ {0} /\ MaxCommands \in Nat /\ MaxFaults \in Nat
  /\ Torn \notin Nat

VARIABLES
  webhooks,  \* the webhooks that Photon has
  late,      \* requests that failed for their caller and may still be applied
  files,     \* the binding file at each path
  env,       \* the revision of each Preview variable, named by the webhook's id
  cmd,       \* the command that runs: its arguments and its local values
  at,        \* its step
  outcome,   \* how the last command ended
  created,   \* webhooks that Photon has created
  commands,  \* commands begun
  faults,    \* faults so far
  cutovers,  \* bindings written over existing ones, with the operator's authority
  doubtful   \* every request that ever failed for its caller

vars == <<webhooks, late, files, env, cmd, at, outcome, created, commands, faults, cutovers,
          doubtful>>

local == <<files, cmd, at, outcome, commands, cutovers>>
history == <<commands, cutovers>>
-----------------------------------------------------------------------------

None == 0         \* no file, no revision, no webhook

Original == 1     \* the webhook that Production has from the start

Ids == 1..(MaxCommands + 2)

Webhook == [id : Ids, stage : Stages, url : Urls \cup {ProofUrl}]

(* The project's pair of variables, and the webhook's pair.                *)
Keys == {"project", "webhookId", "webhookSecret"}

Request ==
  [op : {"register"}, stage : Stages, url : Urls \cup {ProofUrl}, by : 1..MaxCommands]
    \cup [op : {"delete"}, id : Ids]
    \cup [op : {"bind"}, id : Ids, by : 1..MaxCommands]

Command ==
  [name : {"register", "delete", "prove", "bind"},
   stage : Stages, url : Urls \cup {ProofUrl}, path : Paths,
   original : Ids \cup {None},  \* the webhook to preserve, in Production
   recovery : BOOLEAN,          \* BUNDJIL_PHOTON_BINDING_RECOVERY_MODE is set
   mine : Ids \cup {None},      \* the webhook registered, deleted or bound here
   targets : SUBSET Ids,        \* webhooks still to delete
   seen : SUBSET Webhook,       \* the baseline of a proof
   reads : 0..(Readbacks - 1),      \* observations made after the registration
   good : BOOLEAN]              \* nothing has failed in the attempt

Steps ==
  {"path", "original", "baseline", "post", "readback", "topology", "undo", "write", "unwrite",
   "find", "delete", "absent",
   "discover", "clear", "before", "try", "observe", "release", "residual", "sweep", "after",
   "load", "inspect", "upsert", "verify", "remove"}

TypeOK ==
  /\ webhooks \subseteq Webhook
  /\ files \in [Paths -> Ids \cup {None, Torn}]
  /\ env \in [Keys -> Ids \cup {None}]
  /\ cmd \in Command
  /\ at \in Steps \cup {"idle"}
  /\ outcome \in {"none", "blocked", "died", "registered", "deleted", "proved", "bound", "pendingIngress"}
  /\ created \in Ids /\ commands \in 0..MaxCommands /\ faults \in 0..MaxFaults
  /\ cutovers \in 0..MaxCommands
  /\ late \subseteq doubtful /\ doubtful \subseteq Request

NoCommand(name, stage, url, path, original, recovery) ==
  [name |-> name, stage |-> stage, url |-> url, path |-> path, original |-> original,
   recovery |-> recovery, mine |-> None, targets |-> {}, seen |-> {}, reads |-> 0, good |-> TRUE]

Resting == NoCommand("delete", Production, ProofUrl, CHOOSE p \in Paths : TRUE, None, FALSE)

(* Production has its callback; Preview has none yet, or one that is bound.*)
Init ==
  /\ \E url \in Urls, bound \in SUBSET {Original + 1} :
       /\ webhooks = {[id |-> Original, stage |-> Production, url |-> url]}
                       \cup [id : bound, stage : Stages \ {Production}, url : {url}]
       /\ created = Original + Cardinality(bound)
       /\ env = [k \in Keys |-> IF bound = {} THEN None ELSE created]
  /\ late = {} /\ files = [p \in Paths |-> None]
  /\ cmd = Resting /\ at = "idle" /\ outcome = "none"
  /\ commands = 0 /\ faults = 0 /\ cutovers = 0 /\ doubtful = {}
-----------------------------------------------------------------------------

Listed == {w \in webhooks : w.stage = cmd.stage}

Matching(url) == {w \in Listed : w.url = url}

IdsOf(ws) == {w.id : w \in ws}

Fault == faults < MaxFaults /\ faults' = faults + 1

(* The caller is told of a failure, and the request is on its way.         *)
Abandon(request) ==
  /\ Fault
  /\ late' = late \cup {request}
  /\ doubtful' = doubtful \cup {request}

End(result) ==
  /\ at' = "idle" /\ cmd' = Resting /\ outcome' = result
  /\ UNCHANGED history

Proceed(step, command) ==
  /\ at' = step /\ cmd' = command
  /\ UNCHANGED <<outcome, history>>

Resolve(step) == Proceed(step, cmd)

photon == <<webhooks, created>>
requests == <<late, doubtful>>

(* A command's step that only reads, and finds its answer.                 *)
Looks(step) == at = step /\ UNCHANGED <<photon, requests, files, env, faults>>

Registered(ws, id, stage, url) == ws \cup {[id |-> id, stage |-> stage, url |-> url]}

Without(ws, id) == {w \in ws : w.id # id}

Upserted(keys, id) == [k \in Keys |-> IF k \in keys THEN id ELSE env[k]]
-----------------------------------------------------------------------------
(* The operator begins a command.                                          *)

Begin(command, step) ==
  /\ at = "idle" /\ commands < MaxCommands
  /\ commands' = commands + 1
  /\ cmd' = command /\ at' = step /\ outcome' = "none"
  /\ UNCHANGED <<photon, requests, files, env, faults, cutovers>>

BeginRegister ==
  \E stage \in Stages, url \in Urls, path \in Paths :
    \E original \in IF stage = Production THEN IdsOf({w \in webhooks : w.stage = stage}) ELSE {None} :
      Begin(NoCommand("register", stage, url, path, original, FALSE), "path")

BeginDelete ==
  \E stage \in Stages, url \in Urls :
    Begin([Resting EXCEPT !.name = "delete", !.stage = stage, !.url = url], "find")

BeginProve ==
  \E stage \in Stages : Begin([Resting EXCEPT !.name = "prove", !.stage = stage], "discover")

BeginBind ==
  \E path \in Paths, recovery \in BOOLEAN :
    Begin([Resting EXCEPT !.name = "bind", !.path = path, !.recovery = recovery], "load")
-----------------------------------------------------------------------------
(* register-environment-webhook                                            *)

CheckPathUnguarded ==
  /\ Looks("path")
  /\ Resolve(IF cmd.stage = Production THEN "original" ELSE "baseline")

CheckPath ==
  /\ Looks("path")
  /\ IF files[cmd.path] # None THEN End("blocked")
     ELSE Resolve(IF cmd.stage = Production THEN "original" ELSE "baseline")

CheckOriginal ==
  /\ Looks("original")
  /\ IF IdsOf(Listed) = {cmd.original} THEN Resolve("baseline") ELSE End("blocked")

CheckBaseline ==
  /\ Looks("baseline")
  /\ IF Matching(cmd.url) = {} THEN Resolve("post") ELSE End("blocked")

(* A registration, by register or by prove: its answer comes, or fails.    *)
RegisterWebhook(step, next) ==
  /\ at = step
  /\ created' = created + 1
  /\ webhooks' = Registered(webhooks, created', cmd.stage, cmd.url)
  /\ Proceed(next, [cmd EXCEPT !.mine = created'])
  /\ UNCHANGED <<requests, files, env, faults>>

RegistrationFails(step, next) ==
  /\ at = step
  /\ Abandon([op |-> "register", stage |-> cmd.stage, url |-> cmd.url, by |-> commands])
  /\ Proceed(next, [cmd EXCEPT !.good = FALSE])
  /\ UNCHANGED <<photon, files, env>>

Post == RegisterWebhook("post", "readback")

PostFails == RegistrationFails("post", "readback")

(* observeEnvironmentWebhookAfterWrite.  A reading that fails, or that     *)
(* shows no such webhook, is repeated.                                     *)
Misses ==
  LET reads == cmd.reads + 1
  IN IF reads < Readbacks THEN Proceed("readback", [cmd EXCEPT !.reads = reads])
     ELSE End("blocked")

Observed ==
  /\ Matching(cmd.url) # {}
  /\ IF IdsOf(Matching(cmd.url)) = {cmd.mine}
     THEN Resolve(IF cmd.stage = Production THEN "topology" ELSE "write")
     ELSE End("blocked")

Readback ==
  /\ Looks("readback")
  /\ \/ Observed
     \/ Matching(cmd.url) = {} /\ Misses

ReadbackFails ==
  /\ at = "readback" /\ Fault /\ Misses
  /\ UNCHANGED <<photon, requests, files, env>>

CheckTopology ==
  /\ Looks("topology")
  /\ Resolve(IF IdsOf(Listed) = {cmd.original, cmd.mine} THEN "write" ELSE "undo")

WriteBinding ==
  /\ at = "write"
  /\ files' = [files EXCEPT ![cmd.path] = cmd.mine]
  /\ End("registered")
  /\ UNCHANGED <<photon, requests, env, faults>>

WriteFails ==
  /\ at = "write" /\ Fault
  /\ \E left \in {None, Torn, cmd.mine} : files' = [files EXCEPT ![cmd.path] = left]
  /\ Resolve("unwrite")
  /\ UNCHANGED <<photon, requests, env>>

(* The file is removed, and whether that worked does not matter.           *)
Unwrite ==
  /\ at = "unwrite"
  /\ \/ files' = [files EXCEPT ![cmd.path] = None] /\ UNCHANGED faults
     \/ Fault /\ UNCHANGED files
  /\ Resolve("undo")
  /\ UNCHANGED <<photon, requests, env>>
-----------------------------------------------------------------------------
(* Deletions, by any command: the answer comes, or fails.                  *)

DeleteWebhook(step, id, next) ==
  /\ at = step
  /\ webhooks' = Without(webhooks, id)
  /\ next
  /\ UNCHANGED <<created, requests, files, env, faults>>

DeletionFails(step, id, next) ==
  /\ at = step /\ Abandon([op |-> "delete", id |-> id])
  /\ next
  /\ UNCHANGED <<photon, files, env>>

Undo == DeleteWebhook("undo", cmd.mine, End("blocked"))

UndoFails == DeletionFails("undo", cmd.mine, End("blocked"))

Find ==
  /\ Looks("find")
  /\ \/ \E w \in Matching(cmd.url) :
          /\ Matching(cmd.url) = {w}
          /\ Proceed("delete", [cmd EXCEPT !.mine = w.id])
     \/ Cardinality(Matching(cmd.url)) # 1 /\ End("blocked")

Delete == DeleteWebhook("delete", cmd.mine, Resolve("absent"))

DeleteFails == DeletionFails("delete", cmd.mine, End("blocked"))

CheckAbsent ==
  /\ Looks("absent")
  /\ End(IF Matching(cmd.url) = {} THEN "deleted" ELSE "blocked")
-----------------------------------------------------------------------------
(* prove-provider                                                          *)

(* Delete the targets one after the other, then go on.                     *)
Purge(step, then) ==
  \/ at = step /\ cmd.targets = {} /\ Resolve(then)
       /\ UNCHANGED <<photon, requests, files, env, faults>>
  \/ \E id \in cmd.targets :
       \/ DeleteWebhook(step, id, Proceed(step, [cmd EXCEPT !.targets = @ \ {id}]))
       \/ DeletionFails(step, id, End("blocked"))

DiscoverNothing == Looks("discover") /\ Resolve("clear")

Discover ==
  /\ Looks("discover")
  /\ Proceed("clear", [cmd EXCEPT !.targets = IdsOf(Matching(ProofUrl))])

Clear == Purge("clear", "before")

TakeBaseline ==
  /\ Looks("before")
  /\ Proceed("try", [cmd EXCEPT !.seen = Listed])

Try == RegisterWebhook("try", "observe")

TryFails == RegistrationFails("try", "residual")

(* The listing and the SDK lifecycle; either may fail.                     *)
Observe ==
  /\ at = "observe"
  /\ \/ /\ Proceed("release", [cmd EXCEPT !.good = @ /\ cmd.mine \in IdsOf(Matching(ProofUrl))])
        /\ UNCHANGED faults
     \/ Fault /\ Proceed("release", [cmd EXCEPT !.good = FALSE])
  /\ UNCHANGED <<photon, requests, files, env>>

Release == DeleteWebhook("release", cmd.mine, Resolve("residual"))

ReleaseFails ==
  DeletionFails("release", cmd.mine, Proceed("residual", [cmd EXCEPT !.good = FALSE]))

ListResidual ==
  /\ Looks("residual")
  /\ Proceed("sweep", [cmd EXCEPT !.targets = IdsOf(Matching(ProofUrl))])

Sweep == Purge("sweep", "after")

CheckRestored ==
  /\ Looks("after")
  /\ End(IF Listed = cmd.seen /\ cmd.good THEN "proved" ELSE "blocked")
-----------------------------------------------------------------------------
(* bind-photon-preview-webhook                                             *)

Initial == \A k \in Keys : env[k] = None

Complete == \A k \in Keys : env[k] # None

LoadBindingConsuming ==
  /\ at = "load"
  /\ UNCHANGED <<photon, requests, env, faults>>
  /\ IF files[cmd.path] \in Ids
     THEN /\ Proceed("inspect", [cmd EXCEPT !.mine = files[cmd.path]])
          /\ files' = [files EXCEPT ![cmd.path] = None]
     ELSE End("blocked") /\ UNCHANGED files

LoadBinding ==
  /\ Looks("load")
  /\ IF files[cmd.path] \in Ids THEN Proceed("inspect", [cmd EXCEPT !.mine = files[cmd.path]])
     ELSE End("blocked")

Inspect ==
  /\ Looks("inspect")
  /\ IF Initial THEN Proceed("upsert", [cmd EXCEPT !.recovery = FALSE])
     ELSE IF cmd.recovery /\ Complete THEN Resolve("upsert")
     ELSE End("blocked")

Counted == cutovers' = cutovers + (IF cmd.recovery THEN 1 ELSE 0)

Upsert ==
  /\ at = "upsert"
  /\ env' = Upserted(Keys, cmd.mine)
  /\ at' = "verify" /\ Counted
  /\ UNCHANGED <<photon, requests, files, cmd, outcome, commands, faults>>

UpsertFailsIgnored ==
  /\ at = "upsert"
  /\ \/ Abandon([op |-> "bind", id |-> cmd.mine, by |-> commands]) /\ UNCHANGED env
     \/ /\ Fault
        /\ \E keys \in SUBSET Keys : env' = Upserted(keys, cmd.mine)
        /\ UNCHANGED requests
  /\ at' = "remove" /\ Counted
  /\ UNCHANGED <<photon, files, cmd, outcome, commands>>

(* The answer fails, or acknowledges a part of the variables.              *)
UpsertFails ==
  /\ at = "upsert"
  /\ \/ Abandon([op |-> "bind", id |-> cmd.mine, by |-> commands]) /\ UNCHANGED env
     \/ /\ Fault
        /\ \E keys \in SUBSET Keys : env' = Upserted(keys, cmd.mine)
        /\ UNCHANGED requests
  /\ at' = "idle" /\ cmd' = Resting /\ outcome' = "blocked" /\ Counted
  /\ UNCHANGED <<photon, files, commands>>

Verify ==
  /\ Looks("verify")
  /\ IF ~Complete THEN End("blocked")
     ELSE IF cmd.recovery THEN End("pendingIngress")
     ELSE Resolve("remove")

RemoveBinding ==
  /\ at = "remove"
  /\ \/ files' = [files EXCEPT ![cmd.path] = None] /\ End("bound") /\ UNCHANGED faults
     \/ Fault /\ End("blocked") /\ UNCHANGED files
  /\ UNCHANGED <<photon, requests, env>>
-----------------------------------------------------------------------------
(* A listing that fails ends its command.                                  *)
ListingFails ==
  /\ at \in {"original", "baseline", "topology", "find", "absent",
             "discover", "before", "residual", "after", "inspect", "verify"}
  /\ Fault /\ End("blocked")
  /\ UNCHANGED <<photon, requests, files, env>>

Die ==
  /\ at # "idle" /\ Fault /\ End("died")
  /\ UNCHANGED <<photon, requests, files, env>>

(* A provider applies a request after all, or has lost it.                 *)
Land(request) ==
  /\ late' = late \ {request}
  /\ CASE request.op = "register" ->
            /\ created' = created + 1
            /\ webhooks' = Registered(webhooks, created', request.stage, request.url)
            /\ UNCHANGED env
       [] request.op = "delete" ->
            webhooks' = Without(webhooks, request.id) /\ UNCHANGED <<created, env>>
       [] request.op = "bind" ->
            /\ \E keys \in SUBSET Keys : env' = Upserted(keys, request.id)
            /\ UNCHANGED <<webhooks, created>>
  /\ UNCHANGED <<local, faults, doubtful>>

Lose(request) ==
  /\ late' = late \ {request}
  /\ UNCHANGED <<photon, env, local, faults, doubtful>>

RegisterStep ==
  \/ CheckPath \/ CheckOriginal \/ CheckBaseline \/ Post \/ PostFails \/ Readback \/ ReadbackFails
  \/ CheckTopology \/ WriteBinding \/ WriteFails \/ Unwrite \/ Undo \/ UndoFails

DeleteStep == Find \/ Delete \/ DeleteFails \/ CheckAbsent

ProveStep ==
  \/ Discover \/ Clear \/ TakeBaseline \/ Try \/ TryFails \/ Observe \/ Release \/ ReleaseFails
  \/ ListResidual \/ Sweep \/ CheckRestored

BindStep ==
  LoadBinding \/ Inspect \/ Upsert \/ UpsertFails \/ Verify \/ RemoveBinding

Next ==
  \/ BeginRegister \/ BeginDelete \/ BeginProve \/ BeginBind
  \/ RegisterStep \/ DeleteStep \/ ProveStep \/ BindStep
  \/ ListingFails \/ Die
  \/ \E request \in late : Land(request) \/ Lose(request)

Spec == Init /\ [][Next]_vars

(* Every call to Photon is timed (operator-management.ts:219), so that     *)
(* these commands go on.  The calls to Vercel are not: bind may hang.      *)
FairSpec == Spec /\ WF_vars(RegisterStep) /\ WF_vars(DeleteStep) /\ WF_vars(ProveStep)
-----------------------------------------------------------------------------
(* Somebody still has the secret: a file, the environment or the command.  *)
Held(id) ==
  \/ \E p \in Paths : files[p] = id
  \/ env["webhookSecret"] = id
  \/ at # "idle" /\ cmd.mine = id

Orphans ==
  {w \in webhooks : w.url # ProofUrl /\ w.id # Original /\ ~Held(w.id)}

(* The secret of a webhook is returned once.  A sequence of commands       *)
(* leaves a webhook that nobody has the secret of only where a call, a     *)
(* file or a command failed, two at most for each failure (a registration  *)
(* of doubtful outcome that lands can spoil the readback of another), or   *)
(* where an authorised cutover has replaced it in the environment.         *)
OrphansCostFaults == Cardinality(Orphans) <= 2 * faults + cutovers

(* When the environment names one webhook and has the secret of another, a *)
(* binding file of one of the two is left to repair it from, whatever      *)
(* partial or late writes the environment has seen.                        *)
MixedBindingsAreRepairable ==
  env["webhookId"] # env["webhookSecret"] =>
    \E p \in Paths : files[p] \in {env["webhookId"], env["webhookSecret"]} \ {None}

(* A binding file goes when the environment has all of it (or what a       *)
(* binding of doubtful outcome has put over it), or with its webhook when  *)
(* register takes both back.                                               *)
FilesLeaveHeld ==
  [][\A p \in Paths :
       files[p] \in Ids /\ files'[p] # files[p] =>
         \/ cmd.name = "register" /\ cmd.mine = files[p]
         \/ \A k \in Keys :
              env[k] = files[p] \/ \E r \in doubtful : r.op = "bind" /\ r.id = env[k]]_vars

(* Whatever earlier proofs have left behind, a proof that meets no fault   *)
(* and no late request succeeds: running the command again recovers.       *)
ProofsRecover ==
  (at = "discover" /\ faults = MaxFaults /\ late = {}) ~> (outcome = "proved")

=============================================================================
