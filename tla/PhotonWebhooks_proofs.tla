------------------------- MODULE PhotonWebhooks_proofs -------------------------
(***************************************************************************)
(* Proofs about PhotonWebhooks, for any number of commands, faults, paths, *)
(* callbacks and readbacks.                                                *)
(***************************************************************************)
EXTENDS PhotonWebhooks, FiniteSetTheorems, TLAPS

(* Where a command is that registers, that has registered and may have to  *)
(* take it back, that binds, and that may still register a webhook.        *)
Registering ==
  {"path", "original", "baseline", "post", "readback", "topology", "write", "unwrite", "undo"}

Holding == {"readback", "topology", "write", "unwrite", "undo"}

Binding == {"inspect", "upsert", "verify", "remove"}

Early == {"path", "original", "baseline", "post", "discover", "clear", "before", "try"}

Outcomes ==
  {"none", "blocked", "died", "registered", "deleted", "proved", "bound", "pendingIngress"}

(* The requests of a kind that may still be applied.                       *)
Of(op) == {r \in late : r.op = op}

One(b) == IF b THEN 1 ELSE 0
-----------------------------------------------------------------------------
(* Commands and how they go on.                                            *)

LEMMA Bounds ==
  /\ Readbacks \in Nat /\ Readbacks # 0 /\ MaxCommands \in Nat /\ MaxFaults \in Nat
  /\ Torn \notin Nat /\ Production \in Stages /\ ProofUrl \notin Urls
  /\ (CHOOSE p \in Paths : TRUE) \in Paths
  BY WebhooksAssumption

LEMMA IdsAreNumbers == \A i \in Ids : i \in Nat /\ i # None /\ i # Torn
  BY Bounds DEF Ids, None

LEMMA NewCommandTyped ==
  ASSUME NEW name \in {"register", "delete", "prove", "bind"},
         NEW stage \in Stages, NEW url \in Urls \cup {ProofUrl}, NEW path \in Paths,
         NEW original \in Ids \cup {None}, NEW recovery \in BOOLEAN
  PROVE  NoCommand(name, stage, url, path, original, recovery) \in Command
  <1>1. 0 \in 0..(Readbacks - 1)
    BY Bounds
  <1> QED
    BY <1>1 DEF NoCommand, Command

LEMMA RestingTyped == Resting \in Command
  BY NewCommandTyped, Bounds DEF Resting

LEMMA UpdatedCommandTyped ==
  ASSUME NEW c \in Command
  PROVE  /\ \A i \in Ids \cup {None} : [c EXCEPT !.mine = i] \in Command
         /\ \A b \in BOOLEAN : [c EXCEPT !.good = b] \in Command
         /\ \A n \in 0..(Readbacks - 1) : [c EXCEPT !.reads = n] \in Command
         /\ \A T \in SUBSET Ids : [c EXCEPT !.targets = T] \in Command
         /\ \A W \in SUBSET Webhook : [c EXCEPT !.seen = W] \in Command
         /\ [c EXCEPT !.recovery = FALSE] \in Command
  BY DEF Command

(* How far a command is, and what it has to show for it.                   *)
Controlled ==
  /\ cmd \in Command /\ at \in Steps \cup {"idle"} /\ outcome \in Outcomes
  /\ commands \in 0..MaxCommands /\ cutovers \in 0..MaxCommands

LEMMA EndTyped ==
  ASSUME TypeOK, NEW result \in Outcomes, End(result)
  PROVE  Controlled' /\ at' = "idle" /\ cmd' = Resting /\ UNCHANGED history
  BY RestingTyped DEF End, TypeOK, Controlled, history

LEMMA ProceedTyped ==
  ASSUME TypeOK, NEW step \in Steps, NEW c \in Command, Proceed(step, c)
  PROVE  Controlled' /\ at' = step /\ cmd' = c /\ UNCHANGED history
  BY DEF Proceed, TypeOK, Controlled, Outcomes, history
-----------------------------------------------------------------------------
(* Types, and the counting that bounds the webhooks there can be.          *)

(* A command that runs has begun.                                          *)
Running == at # "idle" => commands # 0

(* Every command registers one webhook at most, now or late.               *)
Numbered ==
  /\ IsFiniteSet(late)
  /\ created + Cardinality(Of("register")) + One(at \in Early) <= 2 + commands

(* Every command writes the environment once at most.                      *)
CutoversAllowed == cutovers + One(at \in {"load", "inspect", "upsert"}) <= commands

MineIsAnId ==
  at \in {"topology", "write", "unwrite", "undo", "delete", "observe", "release"} \cup Binding =>
    cmd.mine \in Ids

TInv == TypeOK /\ Running /\ Numbered /\ CutoversAllowed /\ MineIsAnId

LEMMA LateTyped ==
  ASSUME IsFiniteSet(late), NEW op
  PROVE  IsFiniteSet(Of(op)) /\ Cardinality(Of(op)) \in Nat
  <1>1. Of(op) \in SUBSET late
    BY DEF Of
  <1> QED
    BY <1>1, FS_Subset, FS_CardinalityType

(* A request that fails for its caller joins those of its kind, and one    *)
(* that is applied or lost leaves them.                                    *)
LEMMA AbandonCounts ==
  ASSUME IsFiniteSet(late), NEW request, late' = late \cup {request}
  PROVE  /\ IsFiniteSet(late')
         /\ \A op : request.op # op => Of(op)' = Of(op)
         /\ \A op : Cardinality(Of(op)') <= Cardinality(Of(op)) + 1
         /\ \A op : Cardinality(Of(op)') \in Nat
  <1>1. IsFiniteSet(late')
    BY FS_AddElement
  <1>2. \A op : request.op # op => Of(op)' = Of(op)
    BY DEF Of
  <1>3. ASSUME NEW op
        PROVE  Cardinality(Of(op)') <= Cardinality(Of(op)) + 1 /\ Cardinality(Of(op)') \in Nat
    <2>1. IsFiniteSet(Of(op)) /\ Cardinality(Of(op)) \in Nat
      BY LateTyped
    <2>2. CASE request.op = op
      <3>1. Of(op)' = Of(op) \cup {request}
        BY <2>2 DEF Of
      <3>2. Cardinality(Of(op)') = IF request \in Of(op) THEN Cardinality(Of(op))
                                   ELSE Cardinality(Of(op)) + 1
        BY <2>1, <3>1, FS_AddElement
      <3> QED
        BY <2>1, <3>2
    <2>3. CASE request.op # op
      BY <1>2, <2>1, <2>3
    <2> QED
      BY <2>2, <2>3
  <1> QED
    BY <1>1, <1>2, <1>3

LEMMA OtherRequestsDoNotCount ==
  ASSUME IsFiniteSet(late), NEW request, request.op # "register", late' = late \cup {request}
  PROVE  IsFiniteSet(late') /\ Of("register")' = Of("register")
  BY AbandonCounts

LEMMA SettleCounts ==
  ASSUME IsFiniteSet(late), NEW request \in late, late' = late \ {request}
  PROVE  /\ IsFiniteSet(late')
         /\ \A op : request.op # op => Of(op)' = Of(op)
         /\ \A op : request.op = op => Cardinality(Of(op)') = Cardinality(Of(op)) - 1
         /\ \A op : Cardinality(Of(op)') \in Nat
  <1>1. IsFiniteSet(late')
    BY FS_RemoveElement
  <1>2. \A op : request.op # op => Of(op)' = Of(op)
    BY DEF Of
  <1>3. ASSUME NEW op
        PROVE  /\ request.op = op => Cardinality(Of(op)') = Cardinality(Of(op)) - 1
               /\ Cardinality(Of(op)') \in Nat
    <2>1. IsFiniteSet(Of(op)) /\ Cardinality(Of(op)) \in Nat
      BY LateTyped
    <2>2. CASE request.op = op
      <3>1. Of(op)' = Of(op) \ {request} /\ request \in Of(op)
        BY <2>2 DEF Of
      <3>2. Cardinality(Of(op)') = Cardinality(Of(op)) - 1 /\ IsFiniteSet(Of(op)')
        BY <2>1, <3>1, FS_RemoveElement
      <3>3. Cardinality(Of(op)') \in Nat
        BY <3>2, FS_CardinalityType
      <3> QED
        BY <3>2, <3>3
    <2>3. CASE request.op # op
      BY <1>2, <2>1, <2>3
    <2> QED
      BY <2>2, <2>3
  <1> QED
    BY <1>1, <1>2, <1>3

(* A command that has not registered yet has a number left for it.         *)
LEMMA NextNumber ==
  ASSUME TypeOK, Numbered, at \in Early
  PROVE  created + 1 \in Ids
  <1>1. Cardinality(Of("register")) \in Nat
    BY LateTyped DEF Numbered
  <1>2. created + Cardinality(Of("register")) + 1 <= 2 + commands
    BY DEF Numbered, One
  <1>3. created \in Nat /\ commands \in Nat /\ commands <= MaxCommands /\ 1 <= created
    BY Bounds DEF TypeOK, Ids
  <1> QED
    BY <1>1, <1>2, <1>3, Bounds DEF Ids

LEMMA ListedTyped ==
  ASSUME TypeOK
  PROVE  /\ Listed \subseteq Webhook
         /\ \A url : IdsOf(Matching(url)) \subseteq Ids
         /\ \A w \in webhooks : w.id \in Ids /\ w.stage \in Stages
         /\ \A w \in webhooks : IdsOf({w}) = {w.id}
  BY DEF TypeOK, Listed, Matching, IdsOf, Webhook

(* A command begins with nothing of its own.                               *)
Starts ==
  /\ at = "idle" /\ commands < MaxCommands /\ commands' = commands + 1
  /\ UNCHANGED <<photon, requests, files, env, faults, cutovers>>
  /\ cmd' \in Command /\ outcome' = "none" /\ cmd'.mine = None
  /\ at' \in {"path", "find", "discover", "load"}
  /\ at' = "path" => cmd'.name = "register"
  /\ at' = "discover" => cmd'.url = ProofUrl

LEMMA CommandsStart ==
  ASSUME TypeOK, BeginRegister \/ BeginDelete \/ BeginProve \/ BeginBind
  PROVE  Starts
  <1>1. ASSUME NEW c \in Command, NEW step \in {"path", "find", "discover", "load"},
               Begin(c, step), c.mine = None, step = "path" => c.name = "register",
               step = "discover" => c.url = ProofUrl
        PROVE  Starts
    BY <1>1 DEF Begin, Starts
  <1>2. CASE BeginRegister
    <2>1. PICK stage \in Stages, url \in Urls, path \in Paths :
            \E original \in IF stage = Production
                            THEN IdsOf({w \in webhooks : w.stage = stage}) ELSE {None} :
              Begin(NoCommand("register", stage, url, path, original, FALSE), "path")
      BY <1>2 DEF BeginRegister
    <2>2. IdsOf({w \in webhooks : w.stage = stage}) \subseteq Ids
      BY ListedTyped DEF IdsOf
    <2>3. PICK original \in Ids \cup {None} :
            Begin(NoCommand("register", stage, url, path, original, FALSE), "path")
      BY <2>1, <2>2
    <2>4. NoCommand("register", stage, url, path, original, FALSE) \in Command
      BY NewCommandTyped
    <2> QED
      BY <1>1, <2>3, <2>4 DEF NoCommand
  <1>3. CASE BeginDelete
    <2>1. PICK stage \in Stages, url \in Urls :
            Begin([Resting EXCEPT !.name = "delete", !.stage = stage, !.url = url], "find")
      BY <1>3 DEF BeginDelete
    <2>2. [Resting EXCEPT !.name = "delete", !.stage = stage, !.url = url] \in Command
      BY RestingTyped DEF Command
    <2>3. [Resting EXCEPT !.name = "delete", !.stage = stage, !.url = url].mine = None
      BY DEF Resting, NoCommand
    <2> QED
      BY <1>1, <2>1, <2>2, <2>3
  <1>4. CASE BeginProve
    <2>1. PICK stage \in Stages :
            Begin([Resting EXCEPT !.name = "prove", !.stage = stage], "discover")
      BY <1>4 DEF BeginProve
    <2>2. [Resting EXCEPT !.name = "prove", !.stage = stage] \in Command
      BY RestingTyped DEF Command
    <2>3. /\ [Resting EXCEPT !.name = "prove", !.stage = stage].mine = None
          /\ [Resting EXCEPT !.name = "prove", !.stage = stage].url = ProofUrl
      BY DEF Resting, NoCommand
    <2> QED
      BY <1>1, <2>1, <2>2, <2>3
  <1>5. CASE BeginBind
    <2>1. PICK path \in Paths, recovery \in BOOLEAN :
            Begin([Resting EXCEPT !.name = "bind", !.path = path, !.recovery = recovery], "load")
      BY <1>5 DEF BeginBind
    <2>2. [Resting EXCEPT !.name = "bind", !.path = path, !.recovery = recovery] \in Command
      BY RestingTyped DEF Command
    <2>3. [Resting EXCEPT !.name = "bind", !.path = path, !.recovery = recovery].mine = None
      BY DEF Resting, NoCommand
    <2> QED
      BY <1>1, <2>1, <2>2, <2>3
  <1> QED
    BY <1>2, <1>3, <1>4, <1>5

(* A command that runs goes on, or ends; it is never early again.          *)
Onward ==
  /\ at # "idle" /\ Controlled' /\ MineIsAnId' /\ UNCHANGED commands
  /\ at' \in Early => at \in Early
  /\ at' \in {"load", "inspect", "upsert"} => at \in {"load", "inspect"}
  /\ UNCHANGED cutovers

LEMMA EndsOnward ==
  ASSUME TypeOK, at # "idle", NEW result \in Outcomes, End(result)
  PROVE  Onward
  BY EndTyped DEF Onward, MineIsAnId, Binding, Early, history

LEMMA ProceedsOnward ==
  ASSUME TypeOK, at # "idle", NEW step \in Steps, NEW c \in Command, Proceed(step, c),
         step \in {"topology", "write", "unwrite", "undo", "delete", "observe", "release"}
                    \cup Binding => c.mine \in Ids,
         step \in Early => at \in Early,
         step \in {"inspect", "upsert"} => at \in {"load", "inspect"},
         step # "load"
  PROVE  Onward
  BY ProceedTyped DEF Onward, MineIsAnId, history

LEMMA RegisterOnward ==
  ASSUME TInv, RegisterStep
  PROVE  Onward
  <1> USE DEF TInv
  <1>0. cmd \in Command /\ cmd.mine \in Ids \cup {None}
    BY DEF TypeOK, Command
  <1>1. CASE CheckPath
    BY <1>0, <1>1, EndsOnward, ProceedsOnward
    DEF CheckPath, Looks, Resolve, Steps, Outcomes, Early, Binding
  <1>2. CASE CheckOriginal \/ CheckBaseline
    BY <1>0, <1>2, EndsOnward, ProceedsOnward
    DEF CheckOriginal, CheckBaseline, Looks, Resolve, Steps, Outcomes, Early, Binding
  <1>3. CASE Post
    <2>1. at = "post" /\ created' \in Ids
      BY <1>3, NextNumber DEF Post, RegisterWebhook, Early
    <2>2. [cmd EXCEPT !.mine = created'] \in Command
      BY <1>0, <2>1, UpdatedCommandTyped
    <2> QED
      BY <1>3, <2>1, <2>2, ProceedsOnward
      DEF Post, RegisterWebhook, Steps, Early, Binding
  <1>4. CASE PostFails
    <2>1. [cmd EXCEPT !.good = FALSE] \in Command
      BY <1>0, UpdatedCommandTyped
    <2> QED
      BY <1>4, <2>1, ProceedsOnward
      DEF PostFails, RegistrationFails, Steps, Early, Binding
  <1>5. CASE Readback \/ ReadbackFails
    <2>1. at = "readback" /\ (Misses \/ Observed)
      BY <1>5 DEF Readback, ReadbackFails, Looks
    <2>2. CASE Misses
      <3>1. cmd.reads + 1 < Readbacks => [cmd EXCEPT !.reads = cmd.reads + 1] \in Command
        <4>1. cmd.reads \in 0..(Readbacks - 1)
          BY <1>0 DEF Command
        <4>2. cmd.reads + 1 < Readbacks => cmd.reads + 1 \in 0..(Readbacks - 1)
          BY <4>1, Bounds
        <4> QED
          BY <1>0, <4>2, UpdatedCommandTyped
      <3> QED
        BY <2>1, <2>2, <3>1, EndsOnward, ProceedsOnward
        DEF Misses, Steps, Outcomes, Early, Binding
    <2>3. CASE Observed
      <3>1. IdsOf(Matching(cmd.url)) \subseteq Ids
        BY ListedTyped
      <3>2. CASE IdsOf(Matching(cmd.url)) = {cmd.mine}
        BY <1>0, <2>1, <2>3, <3>1, <3>2, ProceedsOnward
        DEF Observed, Resolve, Steps, Early, Binding
      <3>3. CASE IdsOf(Matching(cmd.url)) # {cmd.mine}
        BY <2>1, <2>3, <3>3, EndsOnward DEF Observed, Outcomes
      <3> QED
        BY <3>2, <3>3
    <2> QED
      BY <2>1, <2>2, <2>3
  <1>6. CASE CheckTopology \/ WriteFails \/ Unwrite
    <2>1. at \in {"topology", "write", "unwrite"} /\ cmd.mine \in Ids
      BY <1>6 DEF CheckTopology, WriteFails, Unwrite, Looks, MineIsAnId
    <2>2. \E step \in {"write", "undo", "unwrite"} : Proceed(step, cmd)
      BY <1>6 DEF CheckTopology, WriteFails, Unwrite, Resolve
    <2> QED
      BY <1>0, <2>1, <2>2, ProceedsOnward DEF Steps, Early, Binding
  <1>7. CASE WriteBinding \/ Undo \/ UndoFails
    BY <1>7, EndsOnward DEF WriteBinding, Undo, UndoFails, DeleteWebhook, DeletionFails, Outcomes
  <1> QED
    BY <1>1, <1>2, <1>3, <1>4, <1>5, <1>6, <1>7 DEF RegisterStep

LEMMA DeleteOnward ==
  ASSUME TInv, DeleteStep
  PROVE  Onward
  <1> USE DEF TInv
  <1>0. cmd \in Command /\ cmd.mine \in Ids \cup {None}
    BY DEF TypeOK, Command
  <1>1. CASE Find
    <2>1. ASSUME NEW w \in Matching(cmd.url), Proceed("delete", [cmd EXCEPT !.mine = w.id])
          PROVE  Onward
      <3>1. w.id \in Ids
        BY ListedTyped DEF Matching, Listed
      <3>2. [cmd EXCEPT !.mine = w.id] \in Command /\ [cmd EXCEPT !.mine = w.id].mine = w.id
        BY <1>0, <3>1, UpdatedCommandTyped DEF Command
      <3> QED
        BY <1>1, <2>1, <3>1, <3>2, ProceedsOnward DEF Find, Looks, Steps, Early, Binding
    <2> QED
      BY <1>1, <2>1, EndsOnward DEF Find, Looks, Outcomes
  <1>2. CASE Delete
    BY <1>0, <1>2, ProceedsOnward DEF Delete, DeleteWebhook, Resolve, Steps, Early, Binding
  <1>3. CASE DeleteFails \/ CheckAbsent
    BY <1>3, EndsOnward DEF DeleteFails, CheckAbsent, DeletionFails, Looks, Outcomes
  <1> QED
    BY <1>1, <1>2, <1>3 DEF DeleteStep

LEMMA ProveOnward ==
  ASSUME TInv, ProveStep
  PROVE  Onward
  <1> USE DEF TInv
  <1>0. cmd \in Command /\ cmd.mine \in Ids \cup {None} /\ cmd.targets \subseteq Ids
    BY DEF TypeOK, Command
  <1>1. ASSUME NEW step \in {"clear", "sweep"}, NEW then \in {"before", "after"},
               Purge(step, then), step = "sweep" => then = "after"
        PROVE  Onward
    <2>1. at = step
      BY <1>1 DEF Purge, DeleteWebhook, DeletionFails
    <2>2. CASE Resolve(then)
      BY <1>0, <1>1, <2>1, <2>2, ProceedsOnward DEF Resolve, Steps, Early, Binding
    <2>3. ASSUME NEW id \in cmd.targets, Proceed(step, [cmd EXCEPT !.targets = @ \ {id}])
          PROVE  Onward
      <3>1. [cmd EXCEPT !.targets = @ \ {id}] \in Command
        BY <1>0 DEF Command
      <3> QED
        BY <1>1, <2>1, <2>3, <3>1, ProceedsOnward DEF Steps, Early, Binding
    <2>4. CASE End("blocked")
      BY <1>1, <2>1, <2>4, EndsOnward DEF Outcomes
    <2> QED
      BY <1>1, <2>2, <2>3, <2>4 DEF Purge, DeleteWebhook, DeletionFails
  <1>2. CASE Discover \/ ListResidual
    <2>1. IdsOf(Matching(ProofUrl)) \subseteq Ids
      BY ListedTyped
    <2>2. [cmd EXCEPT !.targets = IdsOf(Matching(ProofUrl))] \in Command
      BY <1>0, <2>1, UpdatedCommandTyped
    <2> QED
      BY <1>2, <2>2, ProceedsOnward DEF Discover, ListResidual, Looks, Steps, Early, Binding
  <1>3. CASE TakeBaseline
    <2>1. [cmd EXCEPT !.seen = Listed] \in Command
      BY <1>0, ListedTyped, UpdatedCommandTyped
    <2> QED
      BY <1>3, <2>1, ProceedsOnward DEF TakeBaseline, Looks, Steps, Early, Binding
  <1>4. CASE Try
    <2>1. at = "try" /\ created' \in Ids
      BY <1>4, NextNumber DEF Try, RegisterWebhook, Early
    <2>2. [cmd EXCEPT !.mine = created'] \in Command /\ [cmd EXCEPT !.mine = created'].mine = created'
      BY <1>0, <2>1, UpdatedCommandTyped DEF Command
    <2> QED
      BY <1>4, <2>1, <2>2, ProceedsOnward DEF Try, RegisterWebhook, Steps, Early, Binding
  <1>5. CASE TryFails \/ ReleaseFails
    <2>1. [cmd EXCEPT !.good = FALSE] \in Command
      BY <1>0, UpdatedCommandTyped
    <2> QED
      BY <1>5, <2>1, ProceedsOnward
      DEF TryFails, ReleaseFails, RegistrationFails, DeletionFails, Steps, Early, Binding
  <1>6. CASE Observe
    <2>1. PICK good \in BOOLEAN : Proceed("release", [cmd EXCEPT !.good = good])
      <3>1. cmd.good \in BOOLEAN
        BY <1>0 DEF Command
      <3> QED
        BY <1>6, <3>1 DEF Observe
    <2>2. [cmd EXCEPT !.good = good] \in Command /\ [cmd EXCEPT !.good = good].mine = cmd.mine
      BY <1>0, UpdatedCommandTyped DEF Command
    <2>3. at = "observe" /\ cmd.mine \in Ids
      BY <1>6 DEF Observe, MineIsAnId
    <2> QED
      BY <2>1, <2>2, <2>3, ProceedsOnward DEF Steps, Early, Binding
  <1>7. CASE Release
    BY <1>0, <1>7, ProceedsOnward DEF Release, DeleteWebhook, Resolve, Steps, Early, Binding
  <1>8. CASE CheckRestored
    BY <1>8, EndsOnward DEF CheckRestored, Looks, Outcomes
  <1> QED
    BY <1>1, <1>2, <1>3, <1>4, <1>5, <1>6, <1>7, <1>8 DEF ProveStep, Clear, Sweep

(* The steps of a binding, but for the one that writes the environment.    *)
LEMMA BindOnward ==
  ASSUME TInv, LoadBinding \/ Inspect \/ Verify \/ RemoveBinding
  PROVE  Onward
  <1> USE DEF TInv
  <1>0. cmd \in Command /\ cmd.mine \in Ids \cup {None}
    BY DEF TypeOK, Command
  <1>1. CASE LoadBinding
    <2>1. ASSUME files[cmd.path] \in Ids, Proceed("inspect", [cmd EXCEPT !.mine = files[cmd.path]])
          PROVE  Onward
      <3>1. /\ [cmd EXCEPT !.mine = files[cmd.path]] \in Command
            /\ [cmd EXCEPT !.mine = files[cmd.path]].mine = files[cmd.path]
        BY <1>0, <2>1, UpdatedCommandTyped DEF Command
      <3> QED
        BY <1>1, <2>1, <3>1, ProceedsOnward DEF LoadBinding, Looks, Steps, Early, Binding
    <2> QED
      BY <1>1, <2>1, EndsOnward DEF LoadBinding, Looks, Outcomes
  <1>2. CASE Inspect
    <2>1. at = "inspect" /\ cmd.mine \in Ids
      BY <1>2 DEF Inspect, Looks, MineIsAnId, Binding
    <2>2. /\ [cmd EXCEPT !.recovery = FALSE] \in Command
          /\ [cmd EXCEPT !.recovery = FALSE].mine = cmd.mine
      BY <1>0, UpdatedCommandTyped DEF Command
    <2> QED
      BY <1>0, <1>2, <2>1, <2>2, EndsOnward, ProceedsOnward
      DEF Inspect, Resolve, Steps, Early, Binding, Outcomes
  <1>3. CASE Verify
    <2>1. at = "verify" /\ cmd.mine \in Ids
      BY <1>3 DEF Verify, Looks, MineIsAnId, Binding
    <2> QED
      BY <1>0, <1>3, <2>1, EndsOnward, ProceedsOnward
      DEF Verify, Resolve, Steps, Early, Binding, Outcomes
  <1>4. CASE RemoveBinding
    BY <1>4, EndsOnward DEF RemoveBinding, Outcomes
  <1> QED
    BY <1>1, <1>2, <1>3, <1>4

LEMMA FailuresOnward ==
  ASSUME TInv, ListingFails \/ Die
  PROVE  Onward
  BY EndsOnward DEF TInv, ListingFails, Die, Outcomes

(* The step that writes the environment, or fails to.                      *)
LEMMA UpsertControlled ==
  ASSUME TInv, Upsert \/ UpsertFails
  PROVE  /\ at = "upsert" /\ at' \in {"verify", "idle"} /\ Controlled' /\ MineIsAnId'
         /\ UNCHANGED commands /\ Counted /\ cutovers' <= cutovers + 1
         /\ at' = "verify" => cmd' = cmd
  <1> USE DEF TInv
  <1>1. at = "upsert" /\ Counted /\ UNCHANGED commands
    BY DEF Upsert, UpsertFails
  <1>2. cutovers' \in 0..MaxCommands /\ cutovers' <= cutovers + 1
    <2>1. cutovers + 1 <= commands
      BY <1>1 DEF CutoversAllowed, One
    <2> QED
      BY <1>1, <2>1, Bounds DEF Counted, TypeOK
  <1>3. CASE Upsert
    BY <1>1, <1>2, <1>3 DEF Upsert, Controlled, TypeOK, Outcomes, Steps, MineIsAnId, Binding
  <1>4. CASE UpsertFails
    BY <1>1, <1>2, <1>4, RestingTyped
    DEF UpsertFails, Controlled, TypeOK, Outcomes, MineIsAnId, Binding
  <1> QED
    BY <1>1, <1>2, <1>3, <1>4

(* What a command's step does to the rest of the state, unless it          *)
(* registers a webhook or writes the environment.                          *)
WritesFile ==
  \/ UNCHANGED files
  \/ at = "write" /\ \E left \in {None, Torn, cmd.mine} : files' = [files EXCEPT ![cmd.path] = left]
  \/ at \in {"unwrite", "remove"} /\ files' = [files EXCEPT ![cmd.path] = None]

Calm ==
  /\ UNCHANGED <<created, env>> /\ webhooks' \subseteq webhooks
  /\ \/ UNCHANGED requests
     \/ \E id \in Ids : Abandon([op |-> "delete", id |-> id])
  /\ UNCHANGED faults \/ Fault
  /\ WritesFile

CommandStep ==
  \/ CheckPath \/ CheckOriginal \/ CheckBaseline \/ Readback \/ ReadbackFails \/ CheckTopology
  \/ WriteBinding \/ WriteFails \/ Unwrite \/ Undo \/ UndoFails \/ DeleteStep
  \/ Discover \/ Clear \/ TakeBaseline \/ Observe \/ Release \/ ReleaseFails
  \/ ListResidual \/ Sweep \/ CheckRestored
  \/ LoadBinding \/ Inspect \/ Verify \/ RemoveBinding \/ ListingFails \/ Die

LEMMA CommandStepsAreCalm ==
  ASSUME TInv, CommandStep
  PROVE  Calm
  <1> USE DEF Calm, WritesFile, photon, requests
  <1>1. ASSUME NEW step, NEW id, NEW next, DeleteWebhook(step, id, next)
        PROVE  Calm
    BY <1>1 DEF DeleteWebhook, Without
  <1>2. ASSUME NEW step, NEW id \in Ids, NEW next, DeletionFails(step, id, next)
        PROVE  Calm
    BY <1>2 DEF DeletionFails, Abandon
  <1>3. CASE CheckPath \/ CheckOriginal \/ CheckBaseline \/ CheckTopology \/ LoadBinding
              \/ Inspect \/ Verify
    BY <1>3 DEF CheckPath, CheckOriginal, CheckBaseline, CheckTopology, LoadBinding, Inspect,
                Verify, Looks
  <1>4. CASE Readback \/ ReadbackFails \/ Observe \/ ListingFails \/ Die
    BY <1>4 DEF Readback, ReadbackFails, Observe, ListingFails, Die, Looks
  <1>5. CASE Discover \/ TakeBaseline \/ ListResidual \/ CheckRestored \/ Find \/ CheckAbsent
    BY <1>5 DEF Discover, TakeBaseline, ListResidual, CheckRestored, Find, CheckAbsent, Looks
  <1>6. CASE WriteBinding \/ WriteFails \/ Unwrite \/ RemoveBinding
    BY <1>6 DEF WriteBinding, WriteFails, Unwrite, RemoveBinding
  <1>7. CASE Undo \/ Delete \/ Release
    BY <1>1, <1>7 DEF Undo, Delete, Release
  <1>8. CASE UndoFails \/ DeleteFails \/ ReleaseFails
    <2>1. cmd.mine \in Ids
      BY <1>8 DEF UndoFails, DeleteFails, ReleaseFails, DeletionFails, TInv, MineIsAnId
    <2> QED
      BY <1>2, <1>8, <2>1 DEF UndoFails, DeleteFails, ReleaseFails
  <1>9. CASE Clear \/ Sweep
    <2>1. cmd.targets \subseteq Ids
      BY DEF TInv, TypeOK, Command
    <2>2. ASSUME NEW step, NEW then, Purge(step, then)
          PROVE  Calm
      BY <1>1, <1>2, <2>1, <2>2 DEF Purge
    <2> QED
      BY <1>9, <2>2 DEF Clear, Sweep
  <1> QED
    BY <1>3, <1>4, <1>5, <1>6, <1>7, <1>8, <1>9 DEF CommandStep, DeleteStep

(* The kinds of step there are.                                            *)
LEMMA KindsOfStep ==
  ASSUME TInv, Next
  PROVE  \/ Starts
         \/ CommandStep /\ Onward /\ Calm
         \/ (Post \/ Try) /\ Onward
         \/ (PostFails \/ TryFails) /\ Onward
         \/ Upsert \/ UpsertFails
         \/ \E request \in late : Land(request) \/ Lose(request)
  <1>1. BeginRegister \/ BeginDelete \/ BeginProve \/ BeginBind => Starts
    BY CommandsStart DEF TInv
  <1>2. RegisterStep \/ DeleteStep \/ ProveStep => Onward
    BY RegisterOnward, DeleteOnward, ProveOnward
  <1>3. LoadBinding \/ Inspect \/ Verify \/ RemoveBinding \/ ListingFails \/ Die => Onward
    BY BindOnward, FailuresOnward
  <1> QED
    BY <1>1, <1>2, <1>3, CommandStepsAreCalm
    DEF Next, RegisterStep, ProveStep, BindStep, CommandStep
-----------------------------------------------------------------------------
(* The typed invariant is inductive.                                       *)

LEMMA InitialWebhooks ==
  ASSUME Init
  PROVE  \E url \in Urls, bound \in {{}, {2}} :
           /\ webhooks = {[id |-> 1, stage |-> Production, url |-> url]}
                           \cup [id : bound, stage : Stages \ {Production}, url : {url}]
           /\ created = IF bound = {} THEN 1 ELSE 2
           /\ env = [k \in Keys |-> IF bound = {} THEN None ELSE created]
  <1>1. Original = 1 /\ Original + 1 = 2
    BY DEF Original
  <1>2. PICK url \in Urls, bound \in SUBSET {2} :
          /\ webhooks = {[id |-> 1, stage |-> Production, url |-> url]}
                          \cup [id : bound, stage : Stages \ {Production}, url : {url}]
          /\ created = 1 + Cardinality(bound)
          /\ env = [k \in Keys |-> IF bound = {} THEN None ELSE created]
    BY <1>1 DEF Init
  <1>3. bound = {} \/ bound = {2}
    BY <1>2
  <1>4. bound = {} => Cardinality(bound) = 0
    BY FS_EmptySet
  <1>5. bound = {2} => Cardinality(bound) = 1
    BY FS_Singleton
  <1>6. created = IF bound = {} THEN 1 ELSE 2
    BY <1>2, <1>3, <1>4, <1>5
  <1> QED
    BY <1>2, <1>3, <1>6

LEMMA InitTInv == Init => TInv
  <1> SUFFICES ASSUME Init PROVE TInv
    OBVIOUS
  <1>1. PICK url \in Urls, bound \in {{}, {2}} :
          /\ webhooks = {[id |-> 1, stage |-> Production, url |-> url]}
                          \cup [id : bound, stage : Stages \ {Production}, url : {url}]
          /\ created = IF bound = {} THEN 1 ELSE 2
          /\ env = [k \in Keys |-> IF bound = {} THEN None ELSE created]
    BY InitialWebhooks
  <1>3. created \in {1, 2} /\ (bound # {} => created = 2)
    BY <1>1
  <1>4. created \in Ids /\ bound \subseteq Ids /\ 1 \in Ids
    BY <1>1, <1>3, Bounds DEF Ids
  <1>5. webhooks \subseteq Webhook
    <2>1. [id |-> 1, stage |-> Production, url |-> url] \in Webhook
      BY <1>4, Bounds DEF Webhook
    <2>2. [id : bound, stage : Stages \ {Production}, url : {url}] \subseteq Webhook
      BY <1>4 DEF Webhook
    <2> QED
      BY <1>1, <2>1, <2>2
  <1>6. env \in [Keys -> Ids \cup {None}]
    BY <1>1, <1>4
  <1>7. TypeOK
    <2>1. late = {} /\ doubtful = {} /\ files = [p \in Paths |-> None]
      BY DEF Init
    <2>2. cmd \in Command /\ at = "idle" /\ outcome = "none"
      BY RestingTyped DEF Init
    <2>3. commands = 0 /\ faults = 0 /\ cutovers = 0
      BY DEF Init
    <2> QED
      BY <1>4, <1>5, <1>6, <2>1, <2>2, <2>3, Bounds DEF TypeOK
  <1>8. Numbered
    <2>1. late = {} /\ Of("register") = {} /\ at \notin Early /\ commands = 0
      BY DEF Init, Of, Early
    <2>2. Cardinality(Of("register")) = 0 /\ IsFiniteSet(late)
      BY <2>1, FS_EmptySet
    <2> QED
      BY <1>3, <2>1, <2>2 DEF Numbered, One
  <1> QED
    BY <1>7, <1>8 DEF Init, TInv, Running, CutoversAllowed, MineIsAnId, Binding, One

LEMMA AbandonTyped ==
  ASSUME TypeOK, NEW request \in Request, Abandon(request)
  PROVE  late' \subseteq doubtful' /\ doubtful' \subseteq Request /\ faults' \in 0..MaxFaults
  <1>1. faults' \in 0..MaxFaults
    BY Bounds DEF Abandon, Fault, TypeOK
  <1> QED
    BY <1>1 DEF Abandon, TypeOK

LEMMA RegisteredTyped ==
  ASSUME NEW ws, ws \subseteq Webhook, NEW id \in Ids, NEW stage \in Stages,
         NEW url \in Urls \cup {ProofUrl}
  PROVE  Registered(ws, id, stage, url) \subseteq Webhook
  BY DEF Registered, Webhook

LEMMA UpsertedTyped ==
  ASSUME env \in [Keys -> Ids \cup {None}], NEW keys, NEW id \in Ids
  PROVE  Upserted(keys, id) \in [Keys -> Ids \cup {None}]
  BY DEF Upserted

LEMMA StartKeepsTInv == TInv /\ Starts => TInv'
  <1> SUFFICES ASSUME TInv, Starts PROVE TInv'
    OBVIOUS
  <1>1. commands \in Nat /\ commands' = commands + 1 /\ commands' <= MaxCommands /\ commands' \in Nat
    BY Bounds DEF TInv, TypeOK, Starts
  <1>2. UNCHANGED <<webhooks, created, late, doubtful, files, env, faults, cutovers>>
    BY DEF Starts, photon, requests
  <1>3. at' \in {"path", "find", "discover", "load"} /\ at = "idle"
    BY DEF Starts
  <1>4. TypeOK'
    <2>1. cmd' \in Command /\ at' \in Steps /\ outcome' = "none" /\ commands' \in 0..MaxCommands
      BY <1>1, <1>3 DEF Starts, Steps
    <2> QED
      BY <1>2, <2>1 DEF TInv, TypeOK
  <1>5. Numbered'
    <2>1. Of("register")' = Of("register") /\ IsFiniteSet(late')
      BY <1>2 DEF Of, TInv, Numbered
    <2>2. Cardinality(Of("register")) \in Nat
      BY LateTyped DEF TInv, Numbered
    <2>3. created \in Nat
      BY DEF TInv, TypeOK, Ids
    <2>4. created + Cardinality(Of("register")) <= 2 + commands
      BY <1>3, <2>2, <2>3 DEF TInv, Numbered, One, Early
    <2>5. One(at' \in Early) \in {0, 1}
      BY DEF One
    <2> QED
      BY <1>1, <1>2, <2>1, <2>2, <2>3, <2>4, <2>5 DEF Numbered
  <1>6. CutoversAllowed'
    <2>1. cutovers <= commands /\ cutovers \in Nat
      BY <1>3, Bounds DEF TInv, CutoversAllowed, One, TypeOK
    <2>2. One(at' \in {"load", "inspect", "upsert"}) \in {0, 1}
      BY DEF One
    <2> QED
      BY <1>1, <1>2, <2>1, <2>2 DEF CutoversAllowed
  <1>7. Running' /\ MineIsAnId'
    BY <1>1, <1>3 DEF Running, MineIsAnId, Binding
  <1> QED
    BY <1>4, <1>5, <1>6, <1>7 DEF TInv

LEMMA CommandStepKeepsTInv == TInv /\ Onward /\ Calm => TInv'
  <1> SUFFICES ASSUME TInv, Onward, Calm PROVE TInv'
    OBVIOUS
  <1>1. UNCHANGED <<created, env, commands, cutovers>> /\ webhooks' \subseteq webhooks
    BY DEF Onward, Calm
  <1>2. UNCHANGED <<late, doubtful>>
          \/ \E id \in Ids : Abandon([op |-> "delete", id |-> id])
    BY DEF Calm, requests
  <1>3. late' \subseteq doubtful' /\ doubtful' \subseteq Request /\ faults' \in 0..MaxFaults
    <2>1. UNCHANGED faults \/ Fault
      BY DEF Calm
    <2>2. faults' \in 0..MaxFaults
      BY <2>1, Bounds DEF TInv, TypeOK, Fault
    <2>3. \A id \in Ids : [op |-> "delete", id |-> id] \in Request
      BY DEF Request
    <2> QED
      BY <1>2, <2>2, <2>3, AbandonTyped DEF TInv, TypeOK
  <1>4. files' \in [Paths -> Ids \cup {None, Torn}]
    <2>1. files \in [Paths -> Ids \cup {None, Torn}] /\ cmd.mine \in Ids \cup {None}
      BY DEF TInv, TypeOK, Command
    <2> QED
      BY <2>1 DEF Calm, WritesFile
  <1>5. TypeOK'
    BY <1>1, <1>3, <1>4 DEF TInv, TypeOK, Onward, Controlled, Outcomes
  <1>6. Numbered'
    <2>1. IsFiniteSet(late') /\ Of("register")' = Of("register")
      <3>1. CASE UNCHANGED <<late, doubtful>>
        BY <3>1 DEF TInv, Numbered, Of
      <3>2. ASSUME NEW id \in Ids, Abandon([op |-> "delete", id |-> id])
            PROVE  IsFiniteSet(late') /\ Of("register")' = Of("register")
        <4> DEFINE request == [op |-> "delete", id |-> id]
        <4>1. request.op # "register"
          OBVIOUS
        <4>2. IsFiniteSet(late) /\ late' = late \cup {request}
          BY <3>2 DEF TInv, Numbered, Abandon
        <4> HIDE DEF request
        <4> QED
          BY <4>1, <4>2, OtherRequestsDoNotCount
      <3> QED
        BY <1>2, <3>1, <3>2
    <2>2. One(at' \in Early) <= One(at \in Early) /\ One(at' \in Early) \in {0, 1}
            /\ One(at \in Early) \in {0, 1}
      BY DEF One, Onward
    <2>3. Cardinality(Of("register")) \in Nat /\ created \in Nat /\ commands \in Nat
      BY LateTyped, Bounds DEF TInv, Numbered, TypeOK, Ids
    <2> QED
      BY <1>1, <2>1, <2>2, <2>3 DEF TInv, Numbered
  <1>7. CutoversAllowed'
    <2>1. at' \in {"load", "inspect", "upsert"} => at \in {"load", "inspect", "upsert"}
      BY DEF Onward
    <2>2. commands \in Nat /\ cutovers \in Nat
      BY Bounds DEF TInv, TypeOK
    <2> QED
      BY <1>1, <2>1, <2>2 DEF TInv, CutoversAllowed, One
  <1>8. Running' /\ MineIsAnId'
    BY DEF Onward, TInv, Running
  <1> QED
    BY <1>5, <1>6, <1>7, <1>8 DEF TInv

LEMMA RegistrationKeepsTInv == TInv /\ Onward /\ (Post \/ Try) => TInv'
  <1> SUFFICES ASSUME TInv, Onward, Post \/ Try PROVE TInv'
    OBVIOUS
  <1>1. at \in Early /\ at' \notin Early /\ at' \in {"readback", "observe"}
    BY DEF Post, Try, RegisterWebhook, Proceed, Early
  <1>2. /\ created' = created + 1 /\ UNCHANGED <<late, doubtful, files, env, faults>>
        /\ webhooks' = Registered(webhooks, created', cmd.stage, cmd.url)
    BY DEF Post, Try, RegisterWebhook, requests
  <1>3. created' \in Ids
    BY <1>1, <1>2, NextNumber DEF TInv
  <1>4. webhooks' \subseteq Webhook
    BY <1>2, <1>3, RegisteredTyped DEF TInv, TypeOK, Command
  <1>5. TypeOK'
    BY <1>2, <1>3, <1>4 DEF TInv, TypeOK, Onward, Controlled, Outcomes
  <1>6. Numbered'
    <2>1. Of("register")' = Of("register") /\ Cardinality(Of("register")) \in Nat
      BY <1>2, LateTyped DEF Of, TInv, Numbered
    <2>2. One(at \in Early) = 1 /\ One(at' \in Early) = 0
      BY <1>1 DEF One
    <2>3. created \in Nat /\ commands \in Nat /\ commands' = commands
      BY Bounds DEF TInv, TypeOK, Ids, Onward
    <2> QED
      BY <1>2, <2>1, <2>2, <2>3 DEF TInv, Numbered
  <1>7. CutoversAllowed'
    <2>1. at' \notin {"load", "inspect", "upsert"} /\ UNCHANGED <<commands, cutovers>>
      BY <1>1 DEF Onward
    <2>2. commands \in Nat /\ cutovers \in Nat
      BY Bounds DEF TInv, TypeOK
    <2> QED
      BY <2>1, <2>2 DEF TInv, CutoversAllowed, One
  <1>8. Running' /\ MineIsAnId'
    BY DEF Onward, TInv, Running
  <1> QED
    BY <1>5, <1>6, <1>7, <1>8 DEF TInv

LEMMA FailedRegistrationKeepsTInv == TInv /\ Onward /\ (PostFails \/ TryFails) => TInv'
  <1> SUFFICES ASSUME TInv, Onward, PostFails \/ TryFails PROVE TInv'
    OBVIOUS
  <1> DEFINE request == [op |-> "register", stage |-> cmd.stage, url |-> cmd.url, by |-> commands]
  <1>1. at \in Early /\ at' \notin Early /\ at' \in {"readback", "residual"}
    BY DEF PostFails, TryFails, RegistrationFails, Proceed, Early
  <1>2. Abandon(request) /\ UNCHANGED <<webhooks, created, files, env>>
    BY DEF PostFails, TryFails, RegistrationFails, photon
  <1>3. request \in Request
    <2>1. commands \in 1..MaxCommands
      BY Bounds DEF TInv, TypeOK, Running, Onward
    <2>2. cmd.stage \in Stages /\ cmd.url \in Urls \cup {ProofUrl}
      BY DEF TInv, TypeOK, Command
    <2> QED
      BY <2>1, <2>2 DEF Request
  <1>4. TypeOK'
    BY <1>2, <1>3, AbandonTyped DEF TInv, TypeOK, Onward, Controlled, Outcomes
  <1>5. Numbered'
    <2>1. /\ IsFiniteSet(late') /\ Cardinality(Of("register")') \in Nat
          /\ Cardinality(Of("register")') <= Cardinality(Of("register")) + 1
      BY <1>2, AbandonCounts DEF TInv, Numbered, Abandon
    <2>2. One(at \in Early) = 1 /\ One(at' \in Early) = 0
      BY <1>1 DEF One
    <2>3. created \in Nat /\ commands \in Nat /\ commands' = commands
      BY Bounds DEF TInv, TypeOK, Ids, Onward
    <2>4. Cardinality(Of("register")) \in Nat
      BY LateTyped DEF TInv, Numbered
    <2> QED
      BY <1>2, <2>1, <2>2, <2>3, <2>4 DEF TInv, Numbered
  <1>6. CutoversAllowed'
    <2>1. at' \notin {"load", "inspect", "upsert"} /\ UNCHANGED <<commands, cutovers>>
      BY <1>1 DEF Onward
    <2>2. commands \in Nat /\ cutovers \in Nat
      BY Bounds DEF TInv, TypeOK
    <2> QED
      BY <2>1, <2>2 DEF TInv, CutoversAllowed, One
  <1>7. Running' /\ MineIsAnId'
    BY DEF Onward, TInv, Running
  <1> QED
    BY <1>4, <1>5, <1>6, <1>7 DEF TInv

LEMMA UpsertKeepsTInv == TInv /\ (Upsert \/ UpsertFails) => TInv'
  <1> SUFFICES ASSUME TInv, Upsert \/ UpsertFails PROVE TInv'
    OBVIOUS
  <1> DEFINE request == [op |-> "bind", id |-> cmd.mine, by |-> commands]
  <1>1. /\ at = "upsert" /\ at' \in {"verify", "idle"} /\ Controlled' /\ MineIsAnId'
        /\ UNCHANGED commands /\ cutovers' <= cutovers + 1
    BY UpsertControlled
  <1>2. cmd.mine \in Ids /\ commands \in 1..MaxCommands /\ cutovers \in Nat /\ cutovers' \in Nat
    BY <1>1, Bounds DEF TInv, MineIsAnId, Binding, Running, TypeOK, Controlled
  <1>3. request \in Request
    BY <1>2 DEF Request
  <1>4. UNCHANGED <<webhooks, created, files>>
    BY DEF Upsert, UpsertFails, photon
  <1>5. UNCHANGED <<late, doubtful>> \/ Abandon(request)
    BY DEF Upsert, UpsertFails, requests
  <1>6. UNCHANGED faults \/ Fault
    BY DEF Upsert, UpsertFails, Abandon
  <1>7. env' \in [Keys -> Ids \cup {None}]
    BY <1>2, UpsertedTyped DEF Upsert, UpsertFails, TInv, TypeOK
  <1>8. TypeOK'
    <2>1. faults' \in 0..MaxFaults
      BY <1>6, Bounds DEF TInv, TypeOK, Fault
    <2>2. late' \subseteq doubtful' /\ doubtful' \subseteq Request
      BY <1>3, <1>5, AbandonTyped DEF TInv, TypeOK
    <2> QED
      BY <1>1, <1>4, <1>7, <2>1, <2>2 DEF TInv, TypeOK, Controlled, Outcomes
  <1>9. Numbered'
    <2>1. IsFiniteSet(late') /\ Of("register")' = Of("register")
      <3>1. CASE UNCHANGED <<late, doubtful>>
        BY <3>1 DEF TInv, Numbered, Of
      <3>2. CASE Abandon(request)
        <4>1. request.op # "register"
          OBVIOUS
        <4>2. IsFiniteSet(late) /\ late' = late \cup {request}
          BY <3>2 DEF TInv, Numbered, Abandon
        <4> HIDE DEF request
        <4> QED
          BY <4>1, <4>2, OtherRequestsDoNotCount
      <3> QED
        BY <1>5, <3>1, <3>2
    <2>2. One(at \in Early) = 0 /\ One(at' \in Early) = 0
      BY <1>1 DEF One, Early
    <2> QED
      BY <1>1, <1>4, <2>1, <2>2 DEF TInv, Numbered
  <1>10. CutoversAllowed'
    <2>1. cutovers + 1 <= commands
      BY <1>1 DEF TInv, CutoversAllowed, One
    <2>2. One(at' \in {"load", "inspect", "upsert"}) = 0
      BY <1>1 DEF One
    <2> QED
      BY <1>1, <1>2, <2>1, <2>2 DEF CutoversAllowed
  <1>11. Running'
    BY <1>1, <1>2 DEF Running
  <1> QED
    BY <1>1, <1>8, <1>9, <1>10, <1>11 DEF TInv

LEMMA RequestFacts ==
  ASSUME NEW r \in Request
  PROVE  /\ r.op \in {"register", "delete", "bind"}
         /\ r.op = "register" => r.stage \in Stages /\ r.url \in Urls \cup {ProofUrl}
         /\ r.op \in {"delete", "bind"} => r.id \in Ids
  BY DEF Request

(* What a request does that is applied after all, or lost.                 *)
LEMMA SettlementsOfRequests ==
  ASSUME TypeOK, NEW r \in late, Land(r) \/ Lose(r)
  PROVE  /\ r \in Request /\ late' = late \ {r}
         /\ UNCHANGED <<files, cmd, at, outcome, commands, cutovers, faults, doubtful>>
         /\ \/ UNCHANGED <<webhooks, created, env>>
            \/ /\ r.op = "register" /\ created' = created + 1 /\ UNCHANGED env
               /\ webhooks' = Registered(webhooks, created', r.stage, r.url)
            \/ r.op = "delete" /\ webhooks' = Without(webhooks, r.id) /\ UNCHANGED <<created, env>>
            \/ /\ r.op = "bind" /\ UNCHANGED <<webhooks, created>>
               /\ \E keys \in SUBSET Keys : env' = Upserted(keys, r.id)
  <1>1. r \in Request
    BY DEF TypeOK
  <1>2. r.op \in {"register", "delete", "bind"}
    BY <1>1, RequestFacts
  <1>3. CASE Lose(r)
    BY <1>1, <1>3 DEF Lose, photon, local
  <1>4. CASE Land(r)
    <2>1. late' = late \ {r} /\ UNCHANGED <<files, cmd, at, outcome, commands, cutovers, faults, doubtful>>
      BY <1>4 DEF Land, local
    <2>2. CASE r.op = "register"
      BY <1>1, <1>4, <2>1, <2>2 DEF Land
    <2>3. CASE r.op = "delete"
      BY <1>1, <1>4, <2>1, <2>3 DEF Land
    <2>4. CASE r.op = "bind"
      BY <1>1, <1>4, <2>1, <2>4 DEF Land
    <2> QED
      BY <1>2, <2>2, <2>3, <2>4
  <1> QED
    BY <1>3, <1>4

LEMMA SettlementKeepsTInv ==
  ASSUME TInv, NEW r \in late, Land(r) \/ Lose(r)
  PROVE  TInv'
  <1>1. /\ r \in Request /\ late' = late \ {r}
        /\ UNCHANGED <<files, cmd, at, outcome, commands, cutovers, faults, doubtful>>
    BY SettlementsOfRequests DEF TInv
  <1>2. /\ IsFiniteSet(late') /\ Cardinality(Of("register")') \in Nat
        /\ r.op # "register" => Of("register")' = Of("register")
        /\ r.op = "register" => Cardinality(Of("register")') = Cardinality(Of("register")) - 1
    BY <1>1, SettleCounts DEF TInv, Numbered
  <1>3. /\ created \in Nat /\ 1 <= created /\ commands \in Nat /\ commands <= MaxCommands
        /\ Cardinality(Of("register")) \in Nat
        /\ One(at \in Early) \in Nat
    BY Bounds, LateTyped DEF TInv, TypeOK, Ids, Numbered, One
  <1>4. /\ created' + Cardinality(Of("register")') + One(at \in Early) <= 2 + commands
        /\ created' \in Ids
    <2>1. created' = created + (IF r.op = "register" THEN 1 ELSE 0) \/ UNCHANGED created
      BY SettlementsOfRequests DEF TInv
    <2>2. created + Cardinality(Of("register")) + One(at \in Early) <= 2 + commands
      BY DEF TInv, Numbered
    <2>3. CASE r.op = "register"
      <3>1. created' + Cardinality(Of("register")') + One(at \in Early) <= 2 + commands
        BY <1>2, <1>3, <2>1, <2>2, <2>3
      <3>2. created' <= MaxCommands + 2 /\ 1 <= created' /\ created' \in Nat
        BY <1>2, <1>3, <2>1, <3>1, Bounds
      <3> QED
        BY <3>1, <3>2, Bounds DEF Ids
    <2>4. CASE r.op # "register"
      BY <1>2, <2>1, <2>2, <2>4, <1>3 DEF TInv, TypeOK
    <2> QED
      BY <2>3, <2>4
  <1>5. webhooks' \subseteq Webhook
    <2>1. r.op = "register" => r.stage \in Stages /\ r.url \in Urls \cup {ProofUrl}
      BY <1>1, RequestFacts
    <2>2. webhooks \subseteq Webhook
      BY DEF TInv, TypeOK
    <2>3. CASE r.op = "register" /\ webhooks' = Registered(webhooks, created', r.stage, r.url)
      BY <1>4, <2>1, <2>2, <2>3, RegisteredTyped
    <2>4. CASE webhooks' = Without(webhooks, r.id)
      BY <2>2, <2>4 DEF Without
    <2>5. CASE UNCHANGED webhooks
      BY <2>2, <2>5
    <2> QED
      BY <2>3, <2>4, <2>5, SettlementsOfRequests DEF TInv
  <1>6. env' \in [Keys -> Ids \cup {None}]
    <2>1. CASE r.op = "bind"
      BY <1>1, <2>1, RequestFacts, SettlementsOfRequests, UpsertedTyped DEF TInv, TypeOK
    <2>2. CASE r.op # "bind"
      BY <2>2, SettlementsOfRequests DEF TInv, TypeOK
    <2> QED
      BY <2>1, <2>2
  <1>7. TypeOK'
    BY <1>1, <1>4, <1>5, <1>6 DEF TInv, TypeOK
  <1> QED
    BY <1>1, <1>2, <1>4, <1>7 DEF TInv, Numbered, Running, CutoversAllowed, MineIsAnId

LEMMA StepKeepsTInv == TInv /\ [Next]_vars => TInv'
  <1>1. CASE UNCHANGED vars
    BY <1>1 DEF vars, TInv, TypeOK, Running, Numbered, CutoversAllowed, MineIsAnId, Of
  <1>2. TInv /\ Next => TInv'
    BY KindsOfStep, StartKeepsTInv, CommandStepKeepsTInv, RegistrationKeepsTInv,
       FailedRegistrationKeepsTInv, UpsertKeepsTInv, SettlementKeepsTInv
  <1> QED
    BY <1>1, <1>2

LEMMA TypedInvariance == Spec => []TInv
  BY InitTInv, StepKeepsTInv, PTL DEF Spec

(* Every variable keeps its type; the webhooks there can ever be are one   *)
(* for each command, now or late, and those of the beginning.              *)
THEOREM TypeCorrect == Spec => []TypeOK
  <1>1. TInv => TypeOK
    BY DEF TInv
  <1> QED
    BY TypedInvariance, <1>1, PTL
-----------------------------------------------------------------------------
(* What a command knows of the state at each of its steps.                 *)

(* The command goes on with what it has.                                   *)
SameCommand ==
  /\ cmd'.name = cmd.name /\ cmd'.stage = cmd.stage /\ cmd'.url = cmd.url
  /\ cmd'.path = cmd.path /\ cmd'.mine = cmd.mine /\ cmd'.recovery = cmd.recovery

RegisterMoves ==
  /\ SameCommand
  /\ \/ at = "path" /\ at' \in {"original", "baseline"} /\ files[cmd.path] = None /\ UNCHANGED files
     \/ at = "original" /\ at' = "baseline" /\ UNCHANGED files
     \/ at = "baseline" /\ at' = "post" /\ Matching(cmd.url) = {} /\ UNCHANGED <<files, webhooks>>
     \/ /\ at = "readback" /\ at' \in {"readback", "topology", "write"}
        /\ UNCHANGED <<files, webhooks>>
     \/ at = "topology" /\ at' \in {"write", "undo"} /\ UNCHANGED files
     \/ at = "write" /\ at' = "unwrite"
     \/ at = "unwrite" /\ at' = "undo"

LEMMA RegisterTransitions ==
  ASSUME TInv, CommandStep, at' \in Registering
  PROVE  RegisterMoves
  <1> USE DEF Registering
  <1>0. cmd \in Command
    BY DEF TInv, TypeOK
  <1>1. \A result : End(result) => FALSE
    BY DEF End
  <1>2. CASE CheckPath \/ CheckOriginal \/ CheckBaseline
    BY <1>1, <1>2 DEF CheckPath, CheckOriginal, CheckBaseline, Looks, Resolve, Proceed,
                      RegisterMoves, SameCommand, photon
  <1>3. CASE Readback \/ ReadbackFails
    <2>1. at = "readback" /\ UNCHANGED <<files, webhooks>> /\ (Misses \/ Observed)
      BY <1>3 DEF Readback, ReadbackFails, Looks, photon
    <2>2. CASE Misses
      <3>1. at' = "readback" /\ \E n : cmd' = [cmd EXCEPT !.reads = n]
        BY <1>1, <2>2 DEF Misses, Proceed
      <3> QED
        BY <1>0, <2>1, <3>1 DEF RegisterMoves, SameCommand, Command
    <2>3. CASE Observed
      BY <1>1, <2>1, <2>3 DEF Observed, Resolve, Proceed, RegisterMoves, SameCommand
    <2> QED
      BY <2>1, <2>2, <2>3
  <1>4. CASE CheckTopology \/ WriteFails \/ Unwrite
    BY <1>4 DEF CheckTopology, WriteFails, Unwrite, Looks, Resolve, Proceed, RegisterMoves,
                SameCommand
  <1>5. CASE WriteBinding \/ Undo \/ UndoFails \/ CheckRestored \/ RemoveBinding \/ ListingFails \/ Die
    BY <1>1, <1>5 DEF WriteBinding, Undo, UndoFails, CheckRestored, RemoveBinding, ListingFails,
                      Die, DeleteWebhook, DeletionFails
  <1>6. CASE DeleteStep
    BY <1>1, <1>6 DEF DeleteStep, Find, Delete, DeleteFails, CheckAbsent, DeleteWebhook,
                      DeletionFails, Resolve, Proceed
  <1>7. CASE Discover \/ Clear \/ TakeBaseline \/ Observe
    BY <1>1, <1>7 DEF Discover, Clear, TakeBaseline, Observe, Purge, DeleteWebhook,
                      DeletionFails, Resolve, Proceed
  <1>8. CASE Release \/ ReleaseFails \/ ListResidual \/ Sweep
    BY <1>1, <1>8 DEF Release, ReleaseFails, ListResidual, Sweep, Purge, DeleteWebhook,
                      DeletionFails, Resolve, Proceed
  <1>9. CASE LoadBinding \/ Inspect \/ Verify
    BY <1>1, <1>9 DEF LoadBinding, Inspect, Verify, Resolve, Proceed
  <1> QED
    BY <1>2, <1>3, <1>4, <1>5, <1>6, <1>7, <1>8, <1>9 DEF CommandStep

BindMoves ==
  /\ UNCHANGED <<files, late, doubtful, env>> /\ cmd'.path = cmd.path
  /\ \/ at = "load" /\ at' = "inspect" /\ files[cmd.path] \in Ids /\ cmd'.mine = files[cmd.path]
     \/ at = "inspect" /\ at' = "upsert" /\ cmd'.mine = cmd.mine /\ (Initial \/ cmd'.recovery)
     \/ at = "verify" /\ at' = "remove" /\ cmd' = cmd /\ Complete /\ ~cmd.recovery

LEMMA BindTransitions ==
  ASSUME TInv, CommandStep, at' \in Binding
  PROVE  BindMoves
  <1> USE DEF Binding
  <1>0. cmd \in Command
    BY DEF TInv, TypeOK
  <1>1. \A result : End(result) => FALSE
    BY DEF End
  <1>2. CASE LoadBinding \/ Inspect \/ Verify
    <2>1. UNCHANGED <<files, late, doubtful, env>>
      BY <1>2 DEF LoadBinding, Inspect, Verify, Looks, requests
    <2>2. CASE LoadBinding
      <3>1. at = "load" /\ files[cmd.path] \in Ids /\ at' = "inspect"
              /\ cmd' = [cmd EXCEPT !.mine = files[cmd.path]]
        BY <1>1, <2>2 DEF LoadBinding, Looks, Proceed
      <3> QED
        BY <1>0, <2>1, <3>1 DEF BindMoves, Command
    <2>3. CASE Inspect
      <3>1. at = "inspect" /\ at' = "upsert"
              /\ \/ Initial /\ cmd' = [cmd EXCEPT !.recovery = FALSE]
                 \/ cmd.recovery /\ cmd' = cmd
        BY <1>1, <2>3 DEF Inspect, Looks, Resolve, Proceed
      <3> QED
        BY <1>0, <2>1, <3>1 DEF BindMoves, Command
    <2>4. CASE Verify
      BY <1>1, <2>1, <2>4 DEF Verify, Looks, Resolve, Proceed, BindMoves
    <2> QED
      BY <1>2, <2>2, <2>3, <2>4
  <1>3. CASE CheckPath \/ CheckOriginal \/ CheckBaseline
    BY <1>1, <1>3 DEF CheckPath, CheckOriginal, CheckBaseline, Resolve, Proceed
  <1>4. CASE Readback \/ ReadbackFails \/ CheckTopology \/ WriteFails \/ Unwrite
    BY <1>1, <1>4 DEF Readback, ReadbackFails, Observed, Misses, CheckTopology, WriteFails,
                      Unwrite, Resolve, Proceed
  <1>5. CASE WriteBinding \/ Undo \/ UndoFails \/ CheckRestored \/ RemoveBinding \/ ListingFails \/ Die
    BY <1>1, <1>5 DEF WriteBinding, Undo, UndoFails, CheckRestored, RemoveBinding, ListingFails,
                      Die, DeleteWebhook, DeletionFails
  <1>6. CASE DeleteStep
    BY <1>1, <1>6 DEF DeleteStep, Find, Delete, DeleteFails, CheckAbsent, DeleteWebhook,
                      DeletionFails, Resolve, Proceed
  <1>7. CASE Discover \/ Clear \/ TakeBaseline \/ Observe
    BY <1>1, <1>7 DEF Discover, Clear, TakeBaseline, Observe, Purge, DeleteWebhook,
                      DeletionFails, Resolve, Proceed
  <1>8. CASE Release \/ ReleaseFails \/ ListResidual \/ Sweep
    BY <1>1, <1>8 DEF Release, ReleaseFails, ListResidual, Sweep, Purge, DeleteWebhook,
                      DeletionFails, Resolve, Proceed
  <1> QED
    BY <1>2, <1>3, <1>4, <1>5, <1>6, <1>7, <1>8 DEF CommandStep
-----------------------------------------------------------------------------
(* Whose identifiers are where.  An identifier is in a binding file:       *)
Filed(id) == id \in Ids /\ \E p \in Paths : files[p] = id

(* The environment, and what may still be put over it, come from binding   *)
(* files, but for the binding that was completed, if there is one.         *)
Rests(b) ==
  /\ \A k \in Keys : env[k] = b \/ Filed(env[k])
  /\ \A r \in Of("bind") : r.id = b \/ Filed(r.id)

Unbound == Rests(None)

Bound == \E b \in Ids \cup {None} : Rests(b)

UniqueIds ==
  /\ \A v, w \in webhooks : v.id = w.id => v = w
  /\ \A w \in webhooks : w.id <= created

KnownIds ==
  /\ \A p \in Paths : files[p] \in Ids => files[p] <= created
  /\ \A k \in Keys : env[k] <= created
  /\ \A r \in doubtful : r.op = "bind" => r.id <= created

(* What a registration knows of its command and of its path.               *)
RegisterKnows ==
  /\ at \in Registering => cmd.name = "register"
  /\ at \in {"path", "original", "baseline", "post"} => cmd.mine = None
  /\ at \in {"original", "baseline", "post", "readback", "topology", "write"} =>
       files[cmd.path] = None
  /\ at = "unwrite" => files[cmd.path] \in {None, Torn, cmd.mine}

(* The webhook that was just registered is nowhere else yet.               *)
MineIsFresh ==
  at \in Holding /\ cmd.mine # None =>
    /\ cmd.mine <= created
    /\ \A k \in Keys : env[k] # cmd.mine
    /\ \A r \in doubtful : r.op = "bind" => r.id # cmd.mine
    /\ \A p \in Paths : files[p] = cmd.mine => p = cmd.path
    /\ \A w \in webhooks : w.id = cmd.mine => w.stage = cmd.stage /\ w.url = cmd.url

(* What a binding knows: its file is there until the environment has it,   *)
(* and without the operator's authority the environment was empty.         *)
BindKnows ==
  /\ at \in Binding => files[cmd.path] = cmd.mine
  /\ at \in {"upsert", "verify", "remove"} /\ ~cmd.recovery => Unbound
  /\ at = "remove" => ~cmd.recovery /\ Complete
  /\ at \in {"verify", "remove"} =>
       \A k \in Keys : env[k] = cmd.mine \/ \E r \in doubtful : r.op = "bind" /\ r.id = env[k]

KInv ==
  /\ UniqueIds /\ KnownIds /\ RegisterKnows /\ MineIsFresh /\ BindKnows /\ Bound

LEMMA InitKInv == Init => KInv
  <1> SUFFICES ASSUME Init PROVE KInv
    OBVIOUS
  <1>1. TypeOK
    BY InitTInv DEF TInv
  <1>2. PICK url \in Urls, bound \in {{}, {2}} :
          /\ webhooks = {[id |-> 1, stage |-> Production, url |-> url]}
                          \cup [id : bound, stage : Stages \ {Production}, url : {url}]
          /\ created = IF bound = {} THEN 1 ELSE 2
          /\ env = [k \in Keys |-> IF bound = {} THEN None ELSE created]
    BY InitialWebhooks
  <1>3. (bound = {} /\ created = 1) \/ (bound = {2} /\ created = 2)
    BY <1>2
  <1>4. late = {} /\ doubtful = {} /\ files = [p \in Paths |-> None] /\ at = "idle"
    BY DEF Init
  <1>5. UniqueIds
    <2>1. PICK preview \in Stages : preview # Production /\ Stages = {Production, preview}
      BY WebhooksAssumption
    <2>2. ASSUME NEW w \in webhooks
          PROVE  \/ w = [id |-> 1, stage |-> Production, url |-> url]
                 \/ w = [id |-> 2, stage |-> preview, url |-> url] /\ created = 2
      BY <1>2, <1>3, <2>1
    <2> QED
      BY <1>3, <2>2 DEF UniqueIds
  <1>6. KnownIds
    <2>1. \A p \in Paths : files[p] \notin Ids
      BY <1>4, Bounds DEF Ids, None
    <2>2. \A k \in Keys : env[k] <= created
      BY <1>2, <1>3 DEF None
    <2> QED
      BY <1>4, <2>1, <2>2 DEF KnownIds
  <1>7. RegisterKnows /\ MineIsFresh /\ BindKnows
    BY <1>4 DEF RegisterKnows, MineIsFresh, BindKnows, Registering, Holding, Binding
  <1>8. Bound
    <2>1. Of("bind") = {}
      BY <1>4 DEF Of
    <2>2. PICK b \in Ids \cup {None} : \A k \in Keys : env[k] = b
      BY <1>1, <1>2 DEF TypeOK
    <2>3. Rests(b)
      BY <2>1, <2>2 DEF Rests
    <2> QED
      BY <2>3 DEF Bound
  <1> QED
    BY <1>5, <1>6, <1>7, <1>8 DEF KInv
-----------------------------------------------------------------------------
(* Requests that are on their way, after a step.                           *)

(* Only a binding of doubtful outcome adds to the late bindings, and what  *)
(* it would write is in the command's file.                                *)
LEMMA DoubtfulBindings ==
  ASSUME TInv, Next
  PROVE  /\ \A r \in doubtful' : r.op = "bind" =>
              r \in doubtful \/ ((Upsert \/ UpsertFails) /\ r.id = cmd.mine)
         /\ \A r \in Of("bind")' :
              r \in Of("bind") \/ ((Upsert \/ UpsertFails) /\ r.id = cmd.mine)
         /\ \A r \in doubtful : r \in doubtful'
         /\ \A r \in Of("bind") : r \in doubtful
  <1>0. late \subseteq doubtful
    BY DEF TInv, TypeOK
  <1>1. CASE UNCHANGED <<late, doubtful>>
    BY <1>0, <1>1 DEF Of
  <1>2. ASSUME NEW request, request.op # "bind" \/ ((Upsert \/ UpsertFails) /\ request.id = cmd.mine),
               Abandon(request)
        PROVE  /\ \A r \in doubtful' : r.op = "bind" =>
                    r \in doubtful \/ ((Upsert \/ UpsertFails) /\ r.id = cmd.mine)
               /\ \A r \in Of("bind")' :
                    r \in Of("bind") \/ ((Upsert \/ UpsertFails) /\ r.id = cmd.mine)
               /\ \A r \in doubtful : r \in doubtful'
               /\ \A r \in Of("bind") : r \in doubtful
    BY <1>0, <1>2 DEF Abandon, Of
  <1>3. CASE Starts
    BY <1>1, <1>3 DEF Starts, requests
  <1>4. CASE Calm
    <2>1. ASSUME NEW id \in Ids
          PROVE  [op |-> "delete", id |-> id].op # "bind"
      OBVIOUS
    <2> QED
      BY <1>1, <1>2, <1>4, <2>1 DEF Calm, requests
  <1>5. CASE Post \/ Try
    BY <1>1, <1>5 DEF Post, Try, RegisterWebhook, requests
  <1>6. CASE PostFails \/ TryFails
    <2> DEFINE request == [op |-> "register", stage |-> cmd.stage, url |-> cmd.url, by |-> commands]
    <2>1. Abandon(request) /\ request.op # "bind"
      BY <1>6 DEF PostFails, TryFails, RegistrationFails
    <2> HIDE DEF request
    <2> QED
      BY <1>2, <2>1
  <1>7. CASE Upsert \/ UpsertFails
    <2> DEFINE request == [op |-> "bind", id |-> cmd.mine, by |-> commands]
    <2>1. UNCHANGED <<late, doubtful>> \/ Abandon(request)
      BY <1>7 DEF Upsert, UpsertFails, requests
    <2>2. request.id = cmd.mine
      OBVIOUS
    <2> HIDE DEF request
    <2> QED
      BY <1>1, <1>2, <1>7, <2>1, <2>2
  <1>8. ASSUME NEW request \in late, Land(request) \/ Lose(request)
        PROVE  late' \subseteq late /\ UNCHANGED doubtful
    BY <1>8 DEF Land, Lose
  <1>9. CASE late' \subseteq late /\ UNCHANGED doubtful
    BY <1>0, <1>9 DEF Of
  <1> QED
    BY <1>3, <1>4, <1>5, <1>6, <1>7, <1>8, <1>9, KindsOfStep

(* What a step does to the webhooks, to the environment and to the files.  *)
LEMMA WebhookSteps ==
  ASSUME TInv, Next
  PROVE  \/ webhooks' \subseteq webhooks /\ UNCHANGED created
         \/ /\ created' = created + 1
            /\ \E stage, url : webhooks' = webhooks \cup {[id |-> created', stage |-> stage, url |-> url]}
  <1>1. CASE Starts
    BY <1>1 DEF Starts, photon
  <1>2. CASE Calm
    BY <1>2 DEF Calm
  <1>3. CASE Post \/ Try
    BY <1>3 DEF Post, Try, RegisterWebhook, Registered
  <1>4. CASE PostFails \/ TryFails \/ Upsert \/ UpsertFails
    BY <1>4 DEF PostFails, TryFails, RegistrationFails, Upsert, UpsertFails, photon
  <1>5. ASSUME NEW r \in late, Land(r) \/ Lose(r)
        PROVE  \/ webhooks' \subseteq webhooks /\ UNCHANGED created
               \/ /\ created' = created + 1
                  /\ \E stage, url :
                       webhooks' = webhooks \cup {[id |-> created', stage |-> stage, url |-> url]}
    BY <1>5, SettlementsOfRequests DEF TInv, Registered, Without
  <1> QED
    BY <1>1, <1>2, <1>3, <1>4, <1>5, KindsOfStep

LateBindingLands(r) ==
  /\ late' = late \ {r}
  /\ UNCHANGED <<webhooks, created, files, cmd, at, cutovers, faults, doubtful>>

LEMMA EnvironmentSteps ==
  ASSUME TInv, Next
  PROVE  \/ UNCHANGED env
         \/ /\ Upsert \/ UpsertFails
            /\ \A k \in Keys : env'[k] \in {env[k], cmd.mine}
         \/ \E r \in Of("bind") :
              /\ LateBindingLands(r)
              /\ \A k \in Keys : env'[k] \in {env[k], r.id}
  <1>1. \A keys, id : \A k \in Keys : Upserted(keys, id)[k] \in {env[k], id}
    BY DEF Upserted
  <1>2. CASE Starts
    BY <1>2 DEF Starts
  <1>3. CASE Calm
    BY <1>3 DEF Calm
  <1>4. CASE Post \/ Try \/ PostFails \/ TryFails
    BY <1>4 DEF Post, Try, RegisterWebhook, PostFails, TryFails, RegistrationFails
  <1>5. CASE Upsert \/ UpsertFails
    BY <1>1, <1>5 DEF Upsert, UpsertFails
  <1>6. ASSUME NEW r \in late, Land(r) \/ Lose(r)
        PROVE  \/ UNCHANGED env
               \/ /\ r \in Of("bind") /\ LateBindingLands(r)
                  /\ \A k \in Keys : env'[k] \in {env[k], r.id}
    BY <1>1, <1>6, SettlementsOfRequests DEF TInv, Of, LateBindingLands
  <1> QED
    BY <1>2, <1>3, <1>4, <1>5, <1>6, KindsOfStep

LEMMA FileSteps ==
  ASSUME TInv, Next
  PROVE  WritesFile
  <1>1. CASE Starts \/ Post \/ Try \/ PostFails \/ TryFails \/ Upsert \/ UpsertFails
    BY <1>1 DEF Starts, Post, Try, RegisterWebhook, PostFails, TryFails, RegistrationFails,
                Upsert, UpsertFails, WritesFile
  <1>2. ASSUME NEW r \in late, Land(r) \/ Lose(r)
        PROVE  UNCHANGED files
    BY <1>2, SettlementsOfRequests DEF TInv
  <1> QED
    BY <1>1, <1>2, KindsOfStep DEF Calm, WritesFile

LEMMA TypedState ==
  ASSUME TInv
  PROVE  /\ files \in [Paths -> Ids \cup {None, Torn}] /\ env \in [Keys -> Ids \cup {None}]
         /\ cmd \in Command /\ cmd.path \in Paths /\ cmd.mine \in Ids \cup {None}
         /\ cmd.recovery \in BOOLEAN /\ created \in Nat
         /\ \A i \in Ids \cup {None} : i \in Int /\ i # Torn
  BY Bounds DEF TInv, TypeOK, Command, Ids, None

LEMMA KeepsUniqueIds ==
  ASSUME TInv, UniqueIds, Next
  PROVE  UniqueIds'
  <1>1. created \in Nat /\ \A w \in webhooks : w.id \in Nat
    BY Bounds DEF TInv, TypeOK, Webhook, Ids
  <1>2. CASE webhooks' \subseteq webhooks /\ UNCHANGED created
    BY <1>2 DEF UniqueIds
  <1>3. ASSUME NEW stage, NEW url, created' = created + 1,
               webhooks' = webhooks \cup {[id |-> created', stage |-> stage, url |-> url]}
        PROVE  UniqueIds'
    <2>1. \A w \in webhooks' :
            w \in webhooks \/ (w.id = created' /\ w = [id |-> created', stage |-> stage, url |-> url])
      BY <1>3
    <2>2. \A w \in webhooks : w.id < created'
      BY <1>1, <1>3 DEF UniqueIds
    <2> QED
      BY <1>1, <1>3, <2>1, <2>2 DEF UniqueIds
  <1> QED
    BY <1>2, <1>3, WebhookSteps

LEMMA KeepsKnownIds ==
  ASSUME TInv, KInv, Next
  PROVE  KnownIds'
  <1>1. created \in Nat /\ created' \in Nat /\ created <= created'
    BY WebhookSteps, Bounds DEF TInv, TypeOK, Ids
  <1>2. (Upsert \/ UpsertFails) => cmd.mine \in Ids /\ cmd.mine <= created
    <2>1. (Upsert \/ UpsertFails) => at = "upsert"
      BY DEF Upsert, UpsertFails
    <2> QED
      BY <2>1, TypedState DEF TInv, MineIsAnId, KInv, BindKnows, KnownIds, Binding
  <1>3. ASSUME NEW p \in Paths, files'[p] \in Ids
        PROVE  files'[p] <= created'
    <2>1. files'[p] = files[p] \/ (at = "write" /\ files'[p] = cmd.mine)
      <3>1. files \in [Paths -> Ids \cup {None, Torn}] /\ None \notin Ids /\ Torn \notin Ids
        BY TypedState, IdsAreNumbers
      <3> QED
        BY <1>3, <3>1, FileSteps DEF WritesFile
    <2>2. CASE files'[p] = files[p]
      BY <1>1, <1>3, <2>2, TypedState DEF KInv, KnownIds
    <2>3. CASE at = "write" /\ files'[p] = cmd.mine
      <3>1. cmd.mine \in Ids /\ cmd.mine <= created
        BY <2>3, IdsAreNumbers DEF TInv, MineIsAnId, KInv, MineIsFresh, Holding
      <3> QED
        BY <1>1, <2>3, <3>1, TypedState
    <2> QED
      BY <2>1, <2>2, <2>3
  <1>4. ASSUME NEW k \in Keys
        PROVE  env'[k] <= created'
    <2>1. env[k] \in Int /\ env[k] <= created
      BY TypedState DEF KInv, KnownIds
    <2>2. \A r \in Of("bind") : r.id <= created /\ r.id \in Int
      <3>1. \A r \in Of("bind") : r \in doubtful /\ r \in Request /\ r.op = "bind"
        BY DEF Of, TInv, TypeOK
      <3> QED
        BY <3>1, RequestFacts, TypedState DEF KInv, KnownIds
    <2>3. cmd.mine \in Int
      BY TypedState
    <2> QED
      BY <1>1, <1>2, <2>1, <2>2, <2>3, EnvironmentSteps
  <1>5. ASSUME NEW r \in doubtful', r.op = "bind"
        PROVE  r.id <= created'
    <2>1. r \in doubtful => r.id \in Int /\ r.id <= created
      BY <1>5, RequestFacts, TypedState DEF KInv, KnownIds, TInv, TypeOK
    <2> QED
      BY <1>1, <1>2, <1>5, <2>1, DoubtfulBindings, TypedState
  <1> QED
    BY <1>3, <1>4, <1>5 DEF KnownIds

(* The steps that are not a command's, or that only register or bind.      *)
LEMMA RegistrationsGoOn ==
  ASSUME TInv, Post \/ Try \/ PostFails \/ TryFails
  PROVE  /\ at \in {"post", "try"} /\ at' \in {"readback", "observe", "residual"}
         /\ at' = "readback" => at = "post" /\ (Post \/ PostFails)
         /\ UNCHANGED <<files, env>>
         /\ cmd'.name = cmd.name /\ cmd'.stage = cmd.stage /\ cmd'.url = cmd.url
         /\ cmd'.path = cmd.path
  <1>0. cmd \in Command
    BY DEF TInv, TypeOK
  <1>1. CASE Post \/ Try
    <2>1. PICK m : cmd' = [cmd EXCEPT !.mine = m]
      BY <1>1 DEF Post, Try, RegisterWebhook, Proceed
    <2> QED
      BY <1>0, <1>1, <2>1 DEF Post, Try, RegisterWebhook, Proceed, Command
  <1>2. CASE PostFails \/ TryFails
    <2>1. cmd' = [cmd EXCEPT !.good = FALSE]
      BY <1>2 DEF PostFails, TryFails, RegistrationFails, Proceed
    <2> QED
      BY <1>0, <1>2, <2>1 DEF PostFails, TryFails, RegistrationFails, Proceed, Command
  <1> QED
    BY <1>1, <1>2

LEMMA KeepsRegisterKnows ==
  ASSUME TInv, KInv, Next
  PROVE  RegisterKnows'
  <1> USE DEF Registering
  <1>1. CASE at' \notin Registering
    BY <1>1 DEF RegisterKnows
  <1>2. CASE Starts
    BY <1>2 DEF Starts, RegisterKnows
  <1>3. CASE CommandStep /\ Calm /\ at' \in Registering
    <2>1. RegisterMoves
      BY <1>3, RegisterTransitions
    <2>2. cmd.path \in Paths /\ files \in [Paths -> Ids \cup {None, Torn}]
      BY TypedState
    <2>3. at = "write" => files'[cmd.path] \in {None, Torn, cmd.mine}
      BY <1>3, <2>2 DEF Calm, WritesFile, KInv, RegisterKnows
    <2> QED
      BY <2>1, <2>3 DEF RegisterMoves, SameCommand, KInv, RegisterKnows
  <1>4. CASE Post \/ Try \/ PostFails \/ TryFails
    BY <1>4, RegistrationsGoOn DEF KInv, RegisterKnows
  <1>5. CASE Upsert \/ UpsertFails
    BY <1>1, <1>5, UpsertControlled
  <1>6. ASSUME NEW r \in late, Land(r) \/ Lose(r)
        PROVE  RegisterKnows'
    BY <1>6, SettlementsOfRequests DEF TInv, KInv, RegisterKnows
  <1> QED
    BY <1>1, <1>2, <1>3, <1>4, <1>5, <1>6, KindsOfStep

LEMMA KeepsMineFresh ==
  ASSUME TInv, KInv, Next
  PROVE  MineIsFresh'
  <1> USE DEF Holding
  <1>0. /\ created \in Nat /\ cmd.path \in Paths /\ cmd.mine \in Ids \cup {None}
        /\ files \in [Paths -> Ids \cup {None, Torn}] /\ env \in [Keys -> Ids \cup {None}]
    BY TypedState
  <1>1. CASE at' \notin Holding \/ cmd'.mine = None
    BY <1>1 DEF MineIsFresh
  <1>2. CASE CommandStep /\ Calm /\ at' \in Holding /\ cmd'.mine # None
    <2>1. RegisterMoves
      BY <1>2, RegisterTransitions DEF Registering
    <2>2. at \in Holding /\ SameCommand
      BY <1>2, <2>1 DEF RegisterMoves
    <2>3. UNCHANGED <<created, env>> /\ webhooks' \subseteq webhooks
      BY <1>2 DEF Calm
    <2>4. \A r \in doubtful' : r.op = "bind" => r \in doubtful
      <3>1. ~(Upsert \/ UpsertFails)
        BY <2>2 DEF Upsert, UpsertFails
      <3> QED
        BY <3>1, DoubtfulBindings
    <2>5. \A p \in Paths : files'[p] = files[p] \/ p = cmd.path
      BY <1>0, FileSteps DEF WritesFile
    <2> QED
      BY <1>2, <2>2, <2>3, <2>4, <2>5 DEF SameCommand, KInv, MineIsFresh
  <1>3. CASE (Post \/ Try) /\ at' \in Holding
    <2>1. /\ at' = "readback" /\ created' = created + 1 /\ UNCHANGED <<doubtful, files, env>>
          /\ webhooks' = Registered(webhooks, created', cmd.stage, cmd.url)
          /\ cmd' = [cmd EXCEPT !.mine = created']
      BY <1>3 DEF Post, Try, RegisterWebhook, Proceed, requests
    <2>2. cmd'.mine = created + 1 /\ cmd'.stage = cmd.stage /\ cmd'.url = cmd.url
            /\ cmd'.path = cmd.path
      BY <2>1 DEF TInv, TypeOK, Command
    <2>3. created + 1 \in Ids
      BY <1>3, NextNumber DEF Post, Try, RegisterWebhook, Early, TInv
    <2>4. /\ \A k \in Keys : env[k] # created + 1
          /\ \A r \in doubtful : r.op = "bind" => r.id # created + 1
          /\ \A p \in Paths : files[p] # created + 1
          /\ \A w \in webhooks : w.id # created + 1
      BY <1>0, <2>3 DEF KInv, KnownIds, UniqueIds
    <2>5. \A w \in webhooks' : w.id = created + 1 => w.stage = cmd.stage /\ w.url = cmd.url
      BY <2>1, <2>4 DEF Registered
    <2> QED
      BY <1>0, <2>1, <2>2, <2>4, <2>5 DEF MineIsFresh
  <1>4. CASE (PostFails \/ TryFails) /\ at' \in Holding
    <2>1. at = "post" /\ cmd' = [cmd EXCEPT !.good = FALSE]
      BY <1>4 DEF PostFails, TryFails, RegistrationFails, Proceed
    <2>2. cmd'.mine = None
      BY <2>1 DEF TInv, TypeOK, Command, KInv, RegisterKnows
    <2> QED
      BY <1>1, <2>2
  <1>5. CASE Starts \/ Upsert \/ UpsertFails
    BY <1>1, <1>5, UpsertControlled DEF Starts
  <1>6. ASSUME NEW r \in late, Land(r) \/ Lose(r), at' \in Holding, cmd'.mine # None
        PROVE  MineIsFresh'
    <2>1. UNCHANGED <<files, cmd, at, doubtful>> /\ r \in Request /\ r \in doubtful
      BY <1>6, SettlementsOfRequests DEF TInv, TypeOK
    <2>2. MineIsFresh /\ at \in Holding /\ cmd.mine # None
      BY <1>6, <2>1 DEF KInv
    <2>3. \A k \in Keys : env'[k] # cmd.mine
      <3>1. ~(Upsert \/ UpsertFails)
        BY <2>2 DEF Upsert, UpsertFails
      <3>2. \A q \in Of("bind") : q.id # cmd.mine
        BY <2>2, DoubtfulBindings DEF MineIsFresh, Of
      <3> QED
        BY <2>2, <3>1, <3>2, EnvironmentSteps DEF MineIsFresh
    <2>4. \A w \in webhooks' : w.id = cmd.mine => w.stage = cmd.stage /\ w.url = cmd.url
      <3>1. cmd.mine <= created /\ cmd.mine \in Nat
        BY <1>0, <2>2, IdsAreNumbers DEF MineIsFresh
      <3>2. cmd.mine # created + 1
        BY <1>0, <3>1
      <3> QED
        BY <2>2, <3>2, WebhookSteps DEF MineIsFresh
    <2>5. cmd.mine <= created'
      BY <1>0, <2>2, WebhookSteps, IdsAreNumbers DEF MineIsFresh
    <2> QED
      BY <2>1, <2>2, <2>3, <2>4, <2>5 DEF MineIsFresh
  <1> QED
    BY <1>1, <1>2, <1>3, <1>4, <1>5, <1>6, KindsOfStep

(* A binding file that goes was written by the registration that takes it  *)
(* back, or is that of the binding that ends.                              *)
LEMMA FilesGo ==
  ASSUME TInv, KInv, Next, NEW p \in Paths, files[p] \in Ids, files'[p] # files[p]
  PROVE  /\ p = cmd.path /\ files[p] = cmd.mine
         /\ at = "unwrite" \/ at = "remove"
  <1>1. /\ cmd.path \in Paths /\ files \in [Paths -> Ids \cup {None, Torn}]
        /\ None \notin Ids /\ Torn \notin Ids
    BY TypedState, IdsAreNumbers
  <1>2. p = cmd.path /\ at \in {"write", "unwrite", "remove"}
    BY <1>1, FileSteps DEF WritesFile
  <1>3. at # "write"
    BY <1>1, <1>2 DEF KInv, RegisterKnows
  <1>4. files[cmd.path] = cmd.mine
    BY <1>1, <1>2, <1>3 DEF KInv, RegisterKnows, BindKnows, Binding
  <1> QED
    BY <1>2, <1>3, <1>4

(* Where the environment comes from stays, but for the end of a binding.   *)
LEMMA RestsStays ==
  ASSUME TInv, KInv, Next, NEW b, Rests(b), ~(at = "remove" /\ files' # files)
  PROVE  Rests(b)'
  <1>0. files \in [Paths -> Ids \cup {None, Torn}] /\ env \in [Keys -> Ids \cup {None}]
    BY TypedState
  <1>1. ASSUME NEW id, Filed(id), at = "unwrite" => id # cmd.mine
        PROVE  Filed(id)'
    <2>1. PICK p \in Paths : files[p] = id
      BY <1>1 DEF Filed
    <2>2. files'[p] = id
      <3>1. files' = files => files'[p] = files[p]
        OBVIOUS
      <3> QED
        BY <1>1, <2>1, <3>1, FilesGo DEF Filed
    <2> QED
      BY <1>1, <2>2 DEF Filed
  <1>2. Upsert \/ UpsertFails => Filed(cmd.mine) /\ at = "upsert"
    BY TypedState DEF Upsert, UpsertFails, KInv, BindKnows, Binding, Filed, TInv, MineIsAnId
  <1>3. \A k \in Keys : (env[k] = b \/ Filed(env[k])) /\ (at = "unwrite" => env[k] # cmd.mine)
    BY IdsAreNumbers DEF Rests, KInv, MineIsFresh, Holding, TInv, MineIsAnId
  <1>4. \A r \in Of("bind") : (r.id = b \/ Filed(r.id)) /\ (at = "unwrite" => r.id # cmd.mine)
    <2>1. \A r \in Of("bind") : r \in doubtful /\ r.op = "bind"
      BY DoubtfulBindings DEF Of
    <2> QED
      BY <2>1, IdsAreNumbers DEF Rests, KInv, MineIsFresh, Holding, TInv, MineIsAnId
  <1>5. ASSUME NEW k \in Keys
        PROVE  env'[k] = b \/ (env'[k] \in Ids /\ \E p \in Paths : files'[p] = env'[k])
    <2>1. PICK id : id = env'[k]
      OBVIOUS
    <2>2. id = b \/ (Filed(id) /\ (at = "unwrite" => id # cmd.mine))
      BY <1>2, <1>3, <1>4, <2>1, EnvironmentSteps
    <2>3. id = b \/ Filed(id)'
      BY <1>1, <2>2
    <2> QED
      BY <2>1, <2>3 DEF Filed
  <1>6. ASSUME NEW r \in Of("bind")'
        PROVE  r.id = b \/ Filed(r.id)'
    <2>1. r.id = b \/ (Filed(r.id) /\ (at = "unwrite" => r.id # cmd.mine))
      BY <1>2, <1>4, DoubtfulBindings
    <2> QED
      BY <1>1, <2>1
  <1> QED
    BY <1>5, <1>6 DEF Rests, Filed

(* A binding that ends has put into the environment what its file had.     *)
LEMMA KeepsBound ==
  ASSUME TInv, KInv, Next
  PROVE  Bound'
  <1>1. CASE ~(at = "remove" /\ files' # files)
    BY <1>1, RestsStays DEF KInv, Bound
  <1>2. CASE at = "remove" /\ files' # files
    <2>1. PICK mine \in Ids : mine = cmd.mine
      BY <1>2 DEF TInv, MineIsAnId, Binding
    <2>2. Unbound /\ Complete
      BY <1>2 DEF KInv, BindKnows
    <2>3. ~(Upsert \/ UpsertFails) /\ UNCHANGED env
      BY <1>2, EnvironmentSteps DEF Upsert, UpsertFails, LateBindingLands
    <2>4. ASSUME NEW id, Filed(id), id # mine
          PROVE  Filed(id)'
      <3>1. PICK p \in Paths : files[p] = id
        BY <2>4 DEF Filed
      <3>2. files'[p] = files[p]
        BY <2>1, <2>4, <3>1, FilesGo DEF Filed
      <3> QED
        BY <2>4, <3>1, <3>2 DEF Filed
    <2>5. \A k \in Keys : env'[k] = mine \/ (env'[k] \in Ids /\ \E p \in Paths : files'[p] = env'[k])
      <3>1. \A k \in Keys : Filed(env[k])
        BY <2>2 DEF Unbound, Rests, Complete
      <3>2. ASSUME NEW k \in Keys
            PROVE  env'[k] = mine \/ (env'[k] \in Ids /\ \E p \in Paths : files'[p] = env'[k])
        <4>1. PICK id : id = env[k]
          OBVIOUS
        <4>2. id = mine \/ Filed(id)'
          BY <2>4, <3>1, <4>1
        <4> QED
          BY <2>3, <4>1, <4>2 DEF Filed
      <3> QED
        BY <3>2
    <2>6. \A r \in Of("bind")' : r.id = mine \/ Filed(r.id)'
      <3>1. ASSUME NEW r \in Of("bind")'
            PROVE  r.id = mine \/ Filed(r.id)'
        <4>1. r \in Of("bind")
          BY <2>3, <3>1, DoubtfulBindings
        <4>2. r.id # None
          BY <4>1, RequestFacts, IdsAreNumbers DEF Of, TInv, TypeOK
        <4> QED
          BY <2>2, <2>4, <4>1, <4>2 DEF Unbound, Rests
      <3> QED
        BY <3>1
    <2>7. Rests(mine)'
      BY <2>5, <2>6 DEF Rests, Filed
    <2> QED
      BY <2>7 DEF Bound
  <1> QED
    BY <1>1, <1>2

LEMMA KeepsBindKnows ==
  ASSUME TInv, KInv, Next
  PROVE  BindKnows'
  <1> USE DEF Binding
  <1>0. files \in [Paths -> Ids \cup {None, Torn}] /\ env \in [Keys -> Ids \cup {None}]
    BY TypedState
  <1>1. CASE at' \notin Binding
    BY <1>1 DEF BindKnows
  <1>2. Unbound /\ files' = files => Unbound'
    BY RestsStays DEF Unbound
  <1>3. CASE CommandStep /\ at' \in Binding
    <2>1. BindMoves
      BY <1>3, BindTransitions
    <2>2. UNCHANGED <<files, doubtful, env>>
      BY <2>1 DEF BindMoves
    <2>3. Initial => Unbound
      <3>1. ASSUME Initial, NEW b, Rests(b)
            PROVE  Rests(None)
        <4>1. b = None
          BY <3>1, IdsAreNumbers DEF Initial, Rests, Keys, Filed
        <4> QED
          BY <3>1, <4>1
      <3> QED
        BY <3>1 DEF KInv, Bound, Unbound
    <2>4. files'[cmd'.path] = cmd'.mine
      BY <2>1 DEF BindMoves, KInv, BindKnows
    <2>5. at' \in {"upsert", "verify", "remove"} /\ ~cmd'.recovery => Unbound'
      BY <1>2, <2>1, <2>2, <2>3 DEF BindMoves, KInv, BindKnows
    <2>6. at' = "remove" => ~cmd'.recovery /\ Complete'
      BY <2>1 DEF BindMoves, Complete
    <2>7. at' \in {"verify", "remove"} =>
            \A k \in Keys : env'[k] = cmd'.mine \/ \E r \in doubtful' : r.op = "bind" /\ r.id = env'[k]
      BY <2>1, <2>2 DEF BindMoves, KInv, BindKnows
    <2> QED
      BY <2>4, <2>5, <2>6, <2>7 DEF BindKnows
  <1>4. CASE Starts \/ Post \/ Try \/ PostFails \/ TryFails
    BY <1>1, <1>4, RegistrationsGoOn DEF Starts
  <1>5. CASE (Upsert \/ UpsertFails) /\ at' \in Binding
    <2>1. Upsert /\ at = "upsert" /\ at' = "verify" /\ UNCHANGED <<files, cmd>>
      BY <1>5 DEF Upsert, UpsertFails
    <2>2. \A k \in Keys : env'[k] = cmd.mine
      BY <2>1 DEF Upsert, Upserted
    <2> QED
      BY <1>2, <2>1, <2>2 DEF KInv, BindKnows
  <1>6. ASSUME NEW r \in late, Land(r) \/ Lose(r), at' \in Binding
        PROVE  BindKnows'
    <2>1. UNCHANGED <<files, cmd, at, doubtful>>
      BY <1>6, SettlementsOfRequests DEF TInv
    <2>2. \A k \in Keys :
            \/ env'[k] = env[k]
            \/ \E q \in doubtful : q.op = "bind" /\ q.id = env'[k] /\ q.id \in Ids
      <3>1. ASSUME NEW q \in Of("bind")
            PROVE  q \in doubtful /\ q.op = "bind" /\ q.id \in Ids
        BY <3>1, RequestFacts, DoubtfulBindings DEF Of, TInv, TypeOK
      <3>2. (~Upsert /\ ~UpsertFails) \/ UNCHANGED env
        BY <2>1 DEF Upsert, UpsertFails
      <3> QED
        BY <3>1, <3>2, EnvironmentSteps
    <2>3. Complete => Complete'
      BY <2>2, IdsAreNumbers DEF Complete
    <2>4. at \in {"verify", "remove"} =>
            \A k \in Keys : env'[k] = cmd.mine \/ \E q \in doubtful : q.op = "bind" /\ q.id = env'[k]
      BY <2>2 DEF KInv, BindKnows
    <2> QED
      BY <1>2, <2>1, <2>3, <2>4 DEF KInv, BindKnows
  <1> QED
    BY <1>1, <1>3, <1>4, <1>5, <1>6, KindsOfStep

LEMMA StepKeepsKInv == TInv /\ KInv /\ [Next]_vars => KInv'
  <1>1. TInv /\ KInv /\ Next => KInv'
    BY KeepsUniqueIds, KeepsKnownIds, KeepsRegisterKnows, KeepsMineFresh, KeepsBindKnows,
       KeepsBound DEF KInv
  <1>2. KInv /\ UNCHANGED vars => KInv'
    BY DEF vars, KInv, UniqueIds, KnownIds, RegisterKnows, MineIsFresh, BindKnows, Bound, Unbound,
           Rests, Filed, Of, Complete
  <1> QED
    BY <1>1, <1>2

LEMMA KnowledgeInvariance == Spec => []KInv
  BY InitKInv, TypedInvariance, StepKeepsKInv, PTL DEF Spec

(* Of a pair that is mixed, one of the two at least comes from a binding   *)
(* file: at most one binding was ever completed over what was there.       *)
THEOREM MixedBindingsCanBeRepaired == Spec => []MixedBindingsAreRepairable
  <1>1. ASSUME Bound
        PROVE  MixedBindingsAreRepairable
    <2>1. PICK b : Rests(b)
      BY <1>1 DEF Bound
    <2>2. \A k \in Keys : env[k] = b \/ Filed(env[k])
      BY <2>1 DEF Rests
    <2> QED
      BY <2>2, IdsAreNumbers DEF MixedBindingsAreRepairable, Keys, Filed
  <1>2. KInv => MixedBindingsAreRepairable
    BY <1>1 DEF KInv
  <1> QED
    BY <1>2, KnowledgeInvariance, PTL

(* A file that goes was written by the registration that takes it back, or *)
(* is that of a binding that found the environment complete.               *)
THEOREM BindingFilesLeaveHeld == Spec => FilesLeaveHeld
  <1> DEFINE LeavesHeld ==
        \A p \in Paths :
          files[p] \in Ids /\ files'[p] # files[p] =>
            \/ cmd.name = "register" /\ cmd.mine = files[p]
            \/ \A k \in Keys :
                 env[k] = files[p] \/ \E r \in doubtful : r.op = "bind" /\ r.id = env[k]
  <1>1. TInv /\ KInv /\ Next => LeavesHeld
    BY FilesGo DEF KInv, RegisterKnows, Registering, BindKnows
  <1>2. TInv /\ KInv /\ [Next]_vars => [LeavesHeld]_vars
    BY <1>1
  <1> QED
    BY <1>2, TypedInvariance, KnowledgeInvariance, PTL DEF Spec, FilesLeaveHeld
-----------------------------------------------------------------------------
(* What a webhook costs whose secret is lost.                              *)

(* Somebody has the secret and is not about to forget it.                  *)
Fast(id) ==
  \/ \E p \in Paths : files[p] = id
  \/ env["webhookSecret"] = id
  \/ at \in Holding /\ cmd.mine = id

Lost == {w \in webhooks : w.url # ProofUrl /\ w.id # Original /\ ~Fast(w.id)}

(* The readback that comes will find another webhook than the command's.   *)
Spoiled ==
  at \in {"post", "readback"} /\
    \E w \in webhooks : w.stage = cmd.stage /\ w.url = cmd.url /\ w.id # cmd.mine

(* A late binding has replaced the secret that is about to leave its file. *)
Replaced ==
  at \in {"verify", "remove"} /\ ~cmd.recovery /\ env["webhookSecret"] # cmd.mine

(* What is lost, and what the doubtful requests can still lose: two for a  *)
(* registration, which can be orphaned and spoil another's readback, and   *)
(* one for a binding.                                                      *)
Losses ==
  Cardinality(Lost) + 2 * Cardinality(Of("register")) + Cardinality(Of("bind"))
    + One(Spoiled) + One(Replaced)

Proving == {"discover", "clear", "before", "try"}

ProvesOnlyProofs == at \in Proving => cmd.url = ProofUrl

CInv ==
  IsFiniteSet(webhooks) /\ ProvesOnlyProofs /\ Losses <= 2 * faults + cutovers

LEMMA InitCInv == Init => CInv
  <1> SUFFICES ASSUME Init PROVE CInv
    OBVIOUS
  <1>1. PICK url \in Urls, bound \in {{}, {2}} :
          /\ webhooks = {[id |-> 1, stage |-> Production, url |-> url]}
                          \cup [id : bound, stage : Stages \ {Production}, url : {url}]
          /\ created = IF bound = {} THEN 1 ELSE 2
          /\ env = [k \in Keys |-> IF bound = {} THEN None ELSE created]
    BY InitialWebhooks
  <1>2. late = {} /\ at = "idle" /\ faults = 0 /\ cutovers = 0
    BY DEF Init
  <1>3. IsFiniteSet(webhooks)
    <2>1. PICK preview \in Stages : preview # Production /\ Stages = {Production, preview}
      BY WebhooksAssumption
    <2> DEFINE both == {[id |-> 1, stage |-> Production, url |-> url]}
                         \cup {[id |-> 2, stage |-> preview, url |-> url]}
    <2>2. webhooks \subseteq both
      BY <1>1, <2>1
    <2>3. IsFiniteSet(both)
      BY FS_Singleton, FS_Union
    <2> HIDE DEF both
    <2> QED
      BY <2>2, <2>3, FS_Subset
  <1>4. Lost = {}
    <2>1. \A w \in webhooks : w.id = 1 \/ (w.id = 2 /\ env["webhookSecret"] = 2)
      BY <1>1 DEF Keys
    <2> QED
      BY <2>1 DEF Lost, Fast, Original
  <1>5. Of("register") = {} /\ Of("bind") = {}
    BY <1>2 DEF Of
  <1>6. ~Spoiled /\ ~Replaced
    BY <1>2 DEF Spoiled, Replaced
  <1>7. Losses = 0
    BY <1>4, <1>5, <1>6, FS_EmptySet DEF Losses, One
  <1> QED
    BY <1>2, <1>3, <1>7 DEF CInv, ProvesOnlyProofs, Proving

LEMMA ProveTransitions ==
  ASSUME TInv, CommandStep, at' \in Proving
  PROVE  at \in Proving /\ cmd'.url = cmd.url
  <1> USE DEF Proving
  <1>0. cmd \in Command
    BY DEF TInv, TypeOK
  <1>1. \A result : End(result) => FALSE
    BY DEF End
  <1>2. CASE CheckPath \/ CheckOriginal \/ CheckBaseline \/ Readback \/ ReadbackFails \/ CheckTopology
    BY <1>1, <1>2 DEF CheckPath, CheckOriginal, CheckBaseline, Readback, ReadbackFails,
                      CheckTopology, Misses, Observed, Resolve, Proceed
  <1>3. CASE WriteBinding \/ WriteFails \/ Unwrite \/ Undo \/ UndoFails \/ ListingFails \/ Die
    BY <1>1, <1>3 DEF WriteBinding, WriteFails, Unwrite, Undo, UndoFails, ListingFails, Die,
                      DeleteWebhook, DeletionFails, Resolve, Proceed
  <1>4. CASE DeleteStep
    BY <1>1, <1>4 DEF DeleteStep, Find, Delete, DeleteFails, CheckAbsent, DeleteWebhook,
                      DeletionFails, Resolve, Proceed
  <1>5. CASE Discover \/ TakeBaseline
    BY <1>0, <1>5 DEF Discover, TakeBaseline, Looks, Proceed, Command
  <1>6. CASE Clear
    <2>1. at = "clear"
      BY <1>6 DEF Clear, Purge, DeleteWebhook, DeletionFails
    <2>2. cmd' = cmd \/ \E T : cmd' = [cmd EXCEPT !.targets = T]
      BY <1>1, <1>6 DEF Clear, Purge, DeleteWebhook, DeletionFails, Resolve, Proceed
    <2> QED
      BY <1>0, <2>1, <2>2 DEF Command
  <1>7. CASE Observe \/ Release \/ ReleaseFails \/ ListResidual \/ Sweep \/ CheckRestored
    BY <1>1, <1>7 DEF Observe, Release, ReleaseFails, ListResidual, Sweep, CheckRestored, Purge,
                      DeleteWebhook, DeletionFails, Resolve, Proceed
  <1>8. CASE LoadBinding \/ Inspect \/ Verify \/ RemoveBinding
    BY <1>1, <1>8 DEF LoadBinding, Inspect, Verify, RemoveBinding, Resolve, Proceed
  <1> QED
    BY <1>2, <1>3, <1>4, <1>5, <1>6, <1>7, <1>8 DEF CommandStep

LEMMA KeepsProofs ==
  ASSUME TInv, ProvesOnlyProofs, Next
  PROVE  ProvesOnlyProofs'
  <1>1. CASE Starts
    BY <1>1 DEF Starts, ProvesOnlyProofs, Proving
  <1>2. CASE CommandStep
    BY <1>2, ProveTransitions DEF ProvesOnlyProofs
  <1>3. CASE Post \/ Try \/ PostFails \/ TryFails \/ Upsert \/ UpsertFails
    BY <1>3, RegistrationsGoOn, UpsertControlled DEF ProvesOnlyProofs, Proving
  <1>4. ASSUME NEW r \in late, Land(r) \/ Lose(r)
        PROVE  ProvesOnlyProofs'
    BY <1>4, SettlementsOfRequests DEF TInv, ProvesOnlyProofs
  <1> QED
    BY <1>1, <1>2, <1>3, <1>4, KindsOfStep

LEMMA KeepsWebhooksFinite ==
  ASSUME TInv, IsFiniteSet(webhooks), Next
  PROVE  IsFiniteSet(webhooks')
  BY WebhookSteps, FS_Subset, FS_AddElement

(* How many webhooks a step can lose.                                      *)
LEMMA LossesTyped ==
  ASSUME TInv, IsFiniteSet(webhooks)
  PROVE  /\ IsFiniteSet(Lost) /\ Cardinality(Lost) \in Nat
         /\ Cardinality(Of("register")) \in Nat /\ Cardinality(Of("bind")) \in Nat
         /\ One(Spoiled) \in {0, 1} /\ One(Replaced) \in {0, 1}
         /\ faults \in Nat /\ cutovers \in Nat
  <1>1. Lost \in SUBSET webhooks
    BY DEF Lost
  <1>2. IsFiniteSet(Lost) /\ Cardinality(Lost) \in Nat
    BY <1>1, FS_Subset, FS_CardinalityType
  <1>3. faults \in Nat /\ cutovers \in Nat
    BY Bounds DEF TInv, TypeOK
  <1> QED
    BY <1>2, <1>3, LateTyped DEF TInv, Numbered, One

LEMMA NoneIsLost ==
  ASSUME IsFiniteSet(Lost), Lost' \subseteq Lost
  PROVE  Cardinality(Lost') <= Cardinality(Lost)
  BY FS_Subset

LEMMA OneIsLost ==
  ASSUME IsFiniteSet(Lost), IsFiniteSet(Lost'), UniqueIds',
         NEW id, \A w \in Lost' : w \in Lost \/ w.id = id
  PROVE  Cardinality(Lost') <= Cardinality(Lost) + 1
  <1>1. Cardinality(Lost) \in Nat /\ Cardinality(Lost') \in Nat
    BY FS_CardinalityType
  <1>2. CASE Lost' \subseteq Lost
    BY <1>1, <1>2, NoneIsLost
  <1>3. CASE \E w \in Lost' : w \notin Lost
    <2>1. PICK w \in Lost' : w \notin Lost
      BY <1>3
    <2>2. Lost' \subseteq Lost \cup {w}
      BY <2>1 DEF UniqueIds, Lost
    <2>3. IsFiniteSet(Lost \cup {w}) /\ Cardinality(Lost \cup {w}) = Cardinality(Lost) + 1
      BY <2>1, FS_AddElement
    <2>4. Cardinality(Lost') <= Cardinality(Lost \cup {w})
      BY <2>2, <2>3, FS_Subset
    <2> QED
      BY <2>3, <2>4
  <1> QED
    BY <1>2, <1>3
-----------------------------------------------------------------------------
(* Every step pays for what it loses.                                      *)

Paid == Losses' + 2 * faults + cutovers <= Losses + 2 * faults' + cutovers'

LossesAreCounted ==
  /\ IsFiniteSet(Lost) /\ Cardinality(Lost) \in Nat
  /\ Cardinality(Of("register")) \in Nat /\ Cardinality(Of("bind")) \in Nat
  /\ One(Spoiled) \in {0, 1} /\ One(Replaced) \in {0, 1}
  /\ faults \in Nat /\ cutovers \in Nat

LEMMA CountedNow == TInv /\ IsFiniteSet(webhooks) => LossesAreCounted
  BY LossesTyped DEF LossesAreCounted

LEMMA CountedNext == TInv' /\ IsFiniteSet(webhooks)' => LossesAreCounted'
  BY CountedNow, PTL

(* Paying leaves to show what is lost, and by whom it is paid.             *)
LEMMA AfterStep ==
  ASSUME TInv, KInv, CInv, Next
  PROVE  /\ TInv' /\ KInv' /\ IsFiniteSet(webhooks') /\ ProvesOnlyProofs'
         /\ LossesAreCounted /\ LossesAreCounted' /\ UniqueIds'
  <1>1. TInv' /\ KInv' /\ IsFiniteSet(webhooks') /\ ProvesOnlyProofs'
    BY StepKeepsTInv, StepKeepsKInv, KeepsWebhooksFinite, KeepsProofs DEF CInv
  <1> QED
    BY <1>1, CountedNow, CountedNext DEF KInv, CInv

LEMMA Payment ==
  ASSUME LossesAreCounted, LossesAreCounted',
         Cardinality(Lost') + 2 * Cardinality(Of("register")') + Cardinality(Of("bind")')
             + One(Spoiled') + One(Replaced') + 2 * faults + cutovers
           <= Cardinality(Lost) + 2 * Cardinality(Of("register")) + Cardinality(Of("bind"))
                + One(Spoiled) + One(Replaced) + 2 * faults' + cutovers'
  PROVE  Paid
  BY DEF Paid, Losses, LossesAreCounted

LEMMA NoneCounts ==
  ASSUME LossesAreCounted, LossesAreCounted', Lost' \subseteq Lost
  PROVE  Cardinality(Lost') <= Cardinality(Lost)
  BY NoneIsLost DEF LossesAreCounted

LEMMA OneCounts ==
  ASSUME LossesAreCounted, LossesAreCounted', UniqueIds',
         NEW id, \A w \in Lost' : w \in Lost \/ w.id = id
  PROVE  Cardinality(Lost') <= Cardinality(Lost) + 1
  BY OneIsLost DEF LossesAreCounted

LEMMA StartPays ==
  ASSUME TInv, KInv, CInv, Next, Starts
  PROVE  Paid
  <1>1. LossesAreCounted /\ LossesAreCounted'
    BY AfterStep
  <1>2. UNCHANGED <<webhooks, late, files, env, faults, cutovers>>
    BY DEF Starts, photon, requests
  <1>3. at = "idle" /\ at' \in {"path", "find", "discover", "load"}
    BY DEF Starts
  <1>4. Lost' \subseteq Lost
    BY <1>2, <1>3 DEF Lost, Fast, Holding
  <1>5. Cardinality(Lost') <= Cardinality(Lost)
    BY <1>1, <1>4, NoneCounts
  <1>6. Of("register")' = Of("register") /\ Of("bind")' = Of("bind")
    BY <1>2 DEF Of
  <1>7. One(Spoiled') = 0 /\ One(Replaced') = 0
    BY <1>3 DEF Spoiled, Replaced, One
  <1>8. One(Spoiled) \in Nat /\ One(Replaced) \in Nat
    BY DEF One
  <1> QED
    BY <1>1, <1>2, <1>5, <1>6, <1>7, <1>8, Payment DEF LossesAreCounted

LEMMA RegistrationPays ==
  ASSUME TInv, KInv, CInv, Next, Post \/ Try
  PROVE  Paid
  <1>1. LossesAreCounted /\ LossesAreCounted' /\ UniqueIds'
    BY AfterStep
  <1>2. /\ created' = created + 1 /\ UNCHANGED <<late, files, env, faults, cutovers>>
        /\ webhooks' = Registered(webhooks, created', cmd.stage, cmd.url)
        /\ cmd' = [cmd EXCEPT !.mine = created'] /\ at \in {"post", "try"}
        /\ at' = (IF at = "post" THEN "readback" ELSE "observe")
    BY DEF Post, Try, RegisterWebhook, Proceed, requests, history
  <1>3. cmd'.mine = created' /\ cmd'.stage = cmd.stage /\ cmd'.url = cmd.url
    BY <1>2 DEF TInv, TypeOK, Command
  <1>4. Lost' \subseteq Lost
    <2>1. ASSUME NEW w \in Lost'
          PROVE  w \in webhooks
      <3>1. w \in webhooks' /\ w.url # ProofUrl /\ ~Fast(w.id)'
        BY <2>1 DEF Lost
      <3>2. at = "try" => cmd.url = ProofUrl
        BY DEF CInv, ProvesOnlyProofs, Proving
      <3>3. w # [id |-> created', stage |-> cmd.stage, url |-> cmd.url]
        BY <1>2, <1>3, <3>1, <3>2 DEF Fast, Holding
      <3> QED
        BY <1>2, <3>1, <3>3 DEF Registered
    <2>2. ASSUME NEW id, Fast(id)
          PROVE  Fast(id)'
      BY <1>2, <2>2 DEF Fast, Holding
    <2> QED
      BY <2>1, <2>2 DEF Lost
  <1>5. Cardinality(Lost') <= Cardinality(Lost)
    BY <1>1, <1>4, NoneCounts
  <1>6. Of("register")' = Of("register") /\ Of("bind")' = Of("bind")
    BY <1>2 DEF Of
  <1>7. Spoiled' => Spoiled
    <2>1. ASSUME NEW w \in webhooks', at' = "readback",
                 w.stage = cmd.stage, w.url = cmd.url, w.id # created'
          PROVE  Spoiled
      <3>1. w \in webhooks /\ at = "post"
        BY <1>2, <2>1 DEF Registered
      <3>2. cmd.mine = None /\ w.id # None
        BY <3>1, ListedTyped, IdsAreNumbers DEF TInv, KInv, RegisterKnows
      <3> QED
        BY <2>1, <3>1, <3>2 DEF Spoiled
    <2> QED
      BY <1>2, <1>3, <2>1 DEF Spoiled
  <1>8. One(Spoiled') <= One(Spoiled) /\ One(Replaced') = 0
    BY <1>2, <1>7 DEF Replaced, One
  <1>9. One(Spoiled) \in Nat /\ One(Spoiled') \in Nat /\ One(Replaced) \in Nat
    BY DEF One
  <1> QED
    BY <1>1, <1>2, <1>5, <1>6, <1>8, <1>9, Payment DEF LossesAreCounted

LEMMA FailedRegistrationPays ==
  ASSUME TInv, KInv, CInv, Next, PostFails \/ TryFails
  PROVE  Paid
  <1> DEFINE request == [op |-> "register", stage |-> cmd.stage, url |-> cmd.url, by |-> commands]
  <1>1. LossesAreCounted /\ LossesAreCounted'
    BY AfterStep
  <1>2. /\ Abandon(request) /\ UNCHANGED <<webhooks, files, env, cutovers>>
        /\ cmd' = [cmd EXCEPT !.good = FALSE] /\ at \in {"post", "try"}
        /\ at' = (IF at = "post" THEN "readback" ELSE "residual")
    BY DEF PostFails, TryFails, RegistrationFails, Proceed, photon, history
  <1>3. cmd'.mine = cmd.mine /\ cmd'.stage = cmd.stage /\ cmd'.url = cmd.url
    BY <1>2 DEF TInv, TypeOK, Command
  <1>4. Lost' \subseteq Lost
    BY <1>2, <1>3 DEF Lost, Fast, Holding
  <1>5. Cardinality(Lost') <= Cardinality(Lost)
    BY <1>1, <1>4, NoneCounts
  <1>6. /\ Cardinality(Of("register")') <= Cardinality(Of("register")) + 1
        /\ Of("bind")' = Of("bind")
    <2>1. IsFiniteSet(late) /\ late' = late \cup {request}
      BY <1>2 DEF Abandon, TInv, Numbered
    <2>2. request.op = "register"
      OBVIOUS
    <2> HIDE DEF request
    <2> QED
      BY <2>1, <2>2, AbandonCounts
  <1>7. Spoiled' => Spoiled
    BY <1>2, <1>3 DEF Spoiled
  <1>8. One(Spoiled') <= One(Spoiled) /\ One(Replaced') = 0
    BY <1>2, <1>7 DEF Replaced, One
  <1>9. One(Spoiled) \in Nat /\ One(Spoiled') \in Nat /\ One(Replaced) \in Nat
    BY DEF One
  <1>10. faults' = faults + 1
    BY <1>2 DEF Abandon, Fault
  <1> HIDE DEF request
  <1> QED
    BY <1>1, <1>2, <1>5, <1>6, <1>8, <1>9, <1>10, Payment DEF LossesAreCounted

(* An upsert without the operator's authority replaces nothing.            *)
LEMMA UpsertPays ==
  ASSUME TInv, KInv, CInv, Next, Upsert \/ UpsertFails
  PROVE  Paid
  <1> DEFINE request == [op |-> "bind", id |-> cmd.mine, by |-> commands]
  <1>1. LossesAreCounted /\ LossesAreCounted' /\ UniqueIds'
    BY AfterStep
  <1>2. UNCHANGED <<webhooks, files>> /\ at = "upsert" /\ at' \in {"verify", "idle"}
    BY DEF Upsert, UpsertFails, photon
  <1>3. cutovers' = cutovers + One(cmd.recovery) /\ One(cmd.recovery) \in {0, 1}
    BY DEF Upsert, UpsertFails, Counted, One
  <1>4. \A w \in Lost' : w \in Lost \/ w.id = env["webhookSecret"]
    BY <1>2 DEF Lost, Fast, Holding
  <1>5. Cardinality(Lost') <= Cardinality(Lost) + 1
    BY <1>1, <1>4, OneCounts
  <1>6. One(Spoiled') = 0 /\ One(Spoiled) = 0 /\ One(Replaced) = 0
    BY <1>2 DEF Spoiled, Replaced, One
  <1>7. CASE Upsert
    <2>1. UNCHANGED <<late, faults>>
      BY <1>7 DEF Upsert, requests
    <2>2. Of("register")' = Of("register") /\ Of("bind")' = Of("bind")
      BY <2>1 DEF Of
    <2>3. One(Replaced') = 0
      BY <1>7 DEF Upsert, Upserted, Replaced, One, Keys
    <2>4. ~cmd.recovery => Cardinality(Lost') <= Cardinality(Lost)
      <3>1. ~cmd.recovery => env["webhookSecret"] = None \/ Filed(env["webhookSecret"])
        BY <1>2 DEF KInv, BindKnows, Unbound, Rests, Keys
      <3>2. \A w \in Lost' : w.id # None
        BY <1>2, ListedTyped, IdsAreNumbers DEF Lost, TInv
      <3>3. ~cmd.recovery => Lost' \subseteq Lost
        BY <1>2, <1>4, <3>1, <3>2 DEF Lost, Fast, Filed
      <3> QED
        BY <1>1, <3>3, NoneCounts
    <2> QED
      BY <1>1, <1>3, <1>5, <1>6, <2>1, <2>2, <2>3, <2>4, Payment DEF LossesAreCounted, One
  <1>8. CASE UpsertFails
    <2>1. UNCHANGED late \/ late' = late \cup {request}
      BY <1>8 DEF UpsertFails, Abandon, requests
    <2>2. env' = env \/ UNCHANGED late
      BY <1>8 DEF UpsertFails, requests
    <2>3. One(Replaced') = 0 /\ faults' = faults + 1
      BY <1>8 DEF UpsertFails, Replaced, One, Abandon, Fault
    <2>4. /\ Of("register")' = Of("register")
          /\ Cardinality(Of("bind")') <= Cardinality(Of("bind")) + 1
      <3>1. request.op = "bind" /\ IsFiniteSet(late)
        BY DEF TInv, Numbered
      <3>2. CASE UNCHANGED late
        BY <1>1, <3>2 DEF Of, LossesAreCounted
      <3>3. CASE late' = late \cup {request}
        <4> HIDE DEF request
        <4> QED
          BY <3>1, <3>3, AbandonCounts
      <3> QED
        BY <2>1, <3>2, <3>3
    <2> QED
      BY <1>1, <1>3, <1>5, <1>6, <2>3, <2>4, Payment DEF LossesAreCounted
  <1> QED
    BY <1>7, <1>8

(* A request that is applied after all costs what was set aside for it.    *)
LEMMA SettlementPays ==
  ASSUME TInv, KInv, CInv, Next, NEW r \in late, Land(r) \/ Lose(r)
  PROVE  Paid
  <1>1. LossesAreCounted /\ LossesAreCounted' /\ UniqueIds'
    BY AfterStep
  <1>2. /\ r \in Request /\ late' = late \ {r}
        /\ UNCHANGED <<files, cmd, at, cutovers, faults>>
    BY SettlementsOfRequests DEF TInv
  <1>3. /\ \A op : r.op # op => Of(op)' = Of(op)
        /\ \A op : r.op = op => Cardinality(Of(op)') = Cardinality(Of(op)) - 1
    BY <1>2, SettleCounts DEF TInv, Numbered
  <1>4. /\ Cardinality(Of("register")') <= Cardinality(Of("register"))
        /\ Cardinality(Of("bind")') <= Cardinality(Of("bind"))
    BY <1>1, <1>3 DEF LossesAreCounted
  <1>5. ASSUME webhooks' \subseteq webhooks, UNCHANGED env
        PROVE  Paid
    <2>1. Lost' \subseteq Lost
      BY <1>2, <1>5 DEF Lost, Fast
    <2>2. Cardinality(Lost') <= Cardinality(Lost)
      BY <1>1, <2>1, NoneCounts
    <2>3. (Spoiled' => Spoiled) /\ (Replaced' => Replaced)
      BY <1>2, <1>5 DEF Spoiled, Replaced
    <2>4. One(Spoiled') <= One(Spoiled) /\ One(Replaced') <= One(Replaced)
      BY <2>3 DEF One
    <2> QED
      BY <1>1, <1>2, <1>4, <2>2, <2>4, Payment DEF LossesAreCounted
  <1>6. ASSUME r.op = "register", webhooks' = Registered(webhooks, created', r.stage, r.url),
               UNCHANGED env
        PROVE  Paid
    <2>1. \A w \in Lost' : w \in Lost \/ w.id = created'
      BY <1>2, <1>6 DEF Lost, Fast, Registered
    <2>2. Cardinality(Lost') <= Cardinality(Lost) + 1
      BY <1>1, <2>1, OneCounts
    <2>3. Replaced' = Replaced
      BY <1>2, <1>6 DEF Replaced
    <2>4. One(Replaced') = One(Replaced)
      BY <2>3 DEF One
    <2>5. Cardinality(Of("register")') = Cardinality(Of("register")) - 1
      BY <1>3, <1>6
    <2> QED
      BY <1>1, <1>2, <1>4, <2>2, <2>4, <2>5, Payment DEF LossesAreCounted
  <1>7. ASSUME r.op = "bind", UNCHANGED webhooks, NEW keys, env' = Upserted(keys, r.id)
        PROVE  Paid
    <2>1. Cardinality(Of("bind")') = Cardinality(Of("bind")) - 1
      BY <1>3, <1>7
    <2>2. One(Spoiled') = One(Spoiled)
      BY <1>2, <1>7 DEF Spoiled, One
    <2>3. \A w \in Lost' : w \in Lost \/ w.id = env["webhookSecret"]
      BY <1>2, <1>7 DEF Lost, Fast
    <2>4. Cardinality(Lost') <= Cardinality(Lost) + 1
      BY <1>1, <2>3, OneCounts
    <2>5. CASE ~Replaced'
      <3>1. One(Replaced') = 0
        BY <2>5 DEF One
      <3> QED
        BY <1>1, <1>2, <1>4, <2>1, <2>2, <2>4, <3>1, Payment DEF LossesAreCounted
    <2>6. CASE Replaced'
      <3>1. env["webhookSecret"] = None \/ Filed(env["webhookSecret"])
        BY <1>2, <2>6 DEF Replaced, KInv, BindKnows, Unbound, Rests, Keys
      <3>2. \A w \in Lost' : w.id # None
        BY <1>7, ListedTyped, IdsAreNumbers DEF Lost, TInv
      <3>3. Lost' \subseteq Lost
        BY <1>2, <1>7, <2>3, <3>1, <3>2 DEF Lost, Fast, Filed
      <3>4. Cardinality(Lost') <= Cardinality(Lost)
        BY <1>1, <3>3, NoneCounts
      <3> QED
        BY <1>1, <1>2, <1>4, <2>1, <2>2, <3>4, Payment DEF LossesAreCounted
    <2> QED
      BY <2>5, <2>6
  <1> QED
    BY <1>5, <1>6, <1>7, SettlementsOfRequests DEF TInv, Without

(* A registration that ends without its file has failed, or has seen       *)
(* another webhook of its callback.                                        *)
LEMMA HoldingEnds ==
  ASSUME TInv, KInv, CommandStep, at \in Holding, at' \notin Holding
  PROVE  \/ Fault
         \/ at = "readback" /\ Spoiled
         \/ \A w \in webhooks' : w.id = cmd.mine => \E p \in Paths : files'[p] = w.id
  <1> USE DEF Holding
  <1>0. /\ cmd.path \in Paths /\ files \in [Paths -> Ids \cup {None, Torn}]
        /\ \A w \in webhooks : w.id # None
    BY TypedState, ListedTyped, IdsAreNumbers DEF TInv
  <1>1. CASE CheckPath \/ CheckOriginal \/ CheckBaseline
    BY <1>1 DEF CheckPath, CheckOriginal, CheckBaseline, Looks
  <1>2. CASE Readback
    <2>1. at = "readback" /\ UNCHANGED <<webhooks, files>>
      BY <1>2 DEF Readback, Looks, photon
    <2>2. CASE Observed
      <3>1. PICK w \in Matching(cmd.url) : w.id # cmd.mine
        <4>1. IdsOf(Matching(cmd.url)) # {cmd.mine} /\ Matching(cmd.url) # {}
          BY <2>2 DEF Observed, Resolve, Proceed
        <4> QED
          BY <4>1 DEF IdsOf
      <3> QED
        BY <2>1, <3>1 DEF Spoiled, Matching, Listed
    <2>3. CASE Matching(cmd.url) = {}
      <3>1. \A w \in webhooks : w.id # cmd.mine
        BY <1>0, <2>1, <2>3 DEF Matching, Listed, KInv, MineIsFresh
      <3> QED
        BY <2>1, <3>1
    <2> QED
      BY <1>2, <2>2, <2>3 DEF Readback
  <1>3. CASE CheckTopology \/ Unwrite
    BY <1>3 DEF CheckTopology, Unwrite, Looks, Resolve, Proceed
  <1>4. CASE WriteBinding
    BY <1>0, <1>4 DEF WriteBinding
  <1>5. CASE Undo
    BY <1>5 DEF Undo, DeleteWebhook, Without
  <1>6. CASE ReadbackFails \/ WriteFails \/ UndoFails \/ ListingFails \/ Die
    BY <1>6 DEF ReadbackFails, WriteFails, UndoFails, ListingFails, Die, DeletionFails, Abandon
  <1>7. CASE DeleteStep
    BY <1>7 DEF DeleteStep, Find, Delete, DeleteFails, CheckAbsent, DeleteWebhook, DeletionFails,
                Looks
  <1>8. CASE Discover \/ Clear \/ TakeBaseline \/ Observe
    BY <1>8 DEF Discover, Clear, TakeBaseline, Observe, Purge, DeleteWebhook, DeletionFails, Looks
  <1>9. CASE Release \/ ReleaseFails \/ ListResidual \/ Sweep \/ CheckRestored
    BY <1>9 DEF Release, ReleaseFails, ListResidual, Sweep, CheckRestored, Purge, DeleteWebhook,
                DeletionFails, Looks
  <1>10. CASE LoadBinding \/ Inspect \/ Verify \/ RemoveBinding
    BY <1>10 DEF LoadBinding, Inspect, Verify, RemoveBinding, Looks
  <1> QED
    BY <1>1, <1>2, <1>3, <1>4, <1>5, <1>6, <1>7, <1>8, <1>9, <1>10 DEF CommandStep

LEMMA CommandPays ==
  ASSUME TInv, KInv, CInv, Next, CommandStep, Onward, Calm
  PROVE  Paid
  <1>0. /\ cmd.path \in Paths /\ files \in [Paths -> Ids \cup {None, Torn}]
        /\ \A w \in webhooks : w.id \in Ids /\ w.id # None /\ w.id # Torn
    BY TypedState, ListedTyped, IdsAreNumbers DEF TInv
  <1>1. LossesAreCounted /\ LossesAreCounted' /\ UniqueIds'
    BY AfterStep
  <1>2. UNCHANGED <<env, cutovers>> /\ webhooks' \subseteq webhooks
    BY DEF Onward, Calm
  <1>3. faults' = faults \/ (Fault /\ faults' = faults + 1)
    BY DEF Calm, Fault
  <1>4. Of("register")' = Of("register") /\ Of("bind")' = Of("bind")
    <2>1. CASE UNCHANGED requests
      BY <2>1 DEF requests, Of
    <2>2. ASSUME NEW id \in Ids, Abandon([op |-> "delete", id |-> id])
          PROVE  Of("register")' = Of("register") /\ Of("bind")' = Of("bind")
      <3> DEFINE request == [op |-> "delete", id |-> id]
      <3>1. late' = late \cup {request}
        BY <2>2 DEF Abandon
      <3>2. request.op = "delete" /\ IsFiniteSet(late)
        BY DEF TInv, Numbered
      <3> HIDE DEF request
      <3> QED
        BY <3>1, <3>2, AbandonCounts
    <2> QED
      BY <2>1, <2>2 DEF Calm
  <1>5. Spoiled' => Spoiled /\ at = "readback" /\ at' = "readback"
    <2>1. CASE at' \in {"post", "readback"}
      <3>1. RegisterMoves
        BY <2>1, RegisterTransitions DEF Registering
      <3>2. at' = "post" => Matching(cmd.url) = {} /\ UNCHANGED webhooks
        BY <3>1 DEF RegisterMoves
      <3>3. at' = "post" => ~Spoiled'
        BY <3>1, <3>2 DEF RegisterMoves, SameCommand, Spoiled, Matching, Listed
      <3>4. at' = "readback" => at = "readback" /\ UNCHANGED webhooks
        BY <3>1 DEF RegisterMoves
      <3> QED
        BY <2>1, <3>1, <3>3, <3>4 DEF RegisterMoves, SameCommand, Spoiled
    <2> QED
      BY <2>1 DEF Spoiled
  <1>6. Replaced' => Replaced /\ at = "verify"
    <2>1. CASE at' \in {"verify", "remove"}
      BY <1>2, <2>1, BindTransitions DEF Binding, BindMoves, Replaced
    <2> QED
      BY <2>1 DEF Replaced
  <1>7. One(Spoiled') <= One(Spoiled) /\ One(Replaced') <= One(Replaced)
    BY <1>5, <1>6 DEF One
  <1>8. ASSUME Lost' \subseteq Lost
        PROVE  Paid
    <2>1. Cardinality(Lost') <= Cardinality(Lost)
      BY <1>1, <1>8, NoneCounts
    <2> QED
      BY <1>1, <1>2, <1>3, <1>4, <1>7, <2>1, Payment DEF LossesAreCounted
  <1>9. ASSUME \A w \in Lost' : w \in Lost \/ w.id = cmd.mine,
               \/ faults' = faults + 1
               \/ Spoiled /\ ~Spoiled'
               \/ Replaced /\ ~Replaced'
        PROVE  Paid
    <2>1. PICK mine : mine = cmd.mine
      OBVIOUS
    <2>2. Cardinality(Lost') <= Cardinality(Lost) + 1
      BY <1>1, <1>9, <2>1, OneCounts
    <2>3. \/ faults' = faults + 1
          \/ faults' = faults /\ One(Spoiled') + 1 <= One(Spoiled)
          \/ faults' = faults /\ One(Replaced') + 1 <= One(Replaced)
      BY <1>3, <1>9 DEF One
    <2> QED
      BY <1>1, <1>2, <1>3, <1>4, <1>7, <2>2, <2>3, Payment DEF LossesAreCounted
  <1>10. CASE at \notin Holding \cup {"remove"}
    <2>1. UNCHANGED files
      BY <1>10 DEF Calm, WritesFile, Holding
    <2>2. Lost' \subseteq Lost
      BY <1>2, <1>10, <2>1 DEF Lost, Fast
    <2> QED
      BY <1>8, <2>2
  <1>11. CASE at = "remove"
    <2>1. \A p \in Paths : files'[p] = files[p] \/ files[p] = cmd.mine \/ files[p] \notin Ids
      BY FilesGo
    <2>2. \A w \in Lost' : w \in Lost \/ w.id = cmd.mine
      BY <1>0, <1>2, <1>11, <2>1 DEF Lost, Fast, Holding
    <2>3. ~Replaced'
      BY <1>6, <1>11
    <2>4. CASE env["webhookSecret"] = cmd.mine
      <3>1. Lost' \subseteq Lost
        BY <1>2, <2>2, <2>4 DEF Lost, Fast
      <3> QED
        BY <1>8, <3>1
    <2>5. CASE env["webhookSecret"] # cmd.mine
      <3>1. Replaced
        BY <1>11, <2>5 DEF Replaced, KInv, BindKnows
      <3> QED
        BY <1>9, <2>2, <2>3, <3>1
    <2> QED
      BY <2>4, <2>5
  <1>12. CASE at \in Holding
    <2>1. \A p \in Paths : files'[p] = files[p] \/ files[p] = cmd.mine \/ files[p] \notin Ids
      BY FilesGo
    <2>2. \A w \in Lost' : w \in Lost \/ w.id = cmd.mine
      BY <1>0, <1>2, <2>1 DEF Lost, Fast
    <2>3. CASE at' \in Holding
      <3>1. SameCommand
        BY <2>3, RegisterTransitions DEF Registering, Holding, RegisterMoves
      <3>2. Lost' \subseteq Lost
        BY <2>2, <2>3, <3>1 DEF Lost, Fast, SameCommand
      <3> QED
        BY <1>8, <3>2
    <2>4. CASE at' \notin Holding
      <3>1. CASE Fault
        BY <1>9, <2>2, <3>1 DEF Fault
      <3>2. CASE at = "readback" /\ Spoiled
        <4>1. ~Spoiled'
          BY <1>5, <2>4 DEF Holding
        <4> QED
          BY <1>9, <2>2, <3>2, <4>1
      <3>3. CASE \A w \in webhooks' : w.id = cmd.mine => \E p \in Paths : files'[p] = w.id
        <4>1. Lost' \subseteq Lost
          BY <2>2, <3>3 DEF Lost, Fast
        <4> QED
          BY <1>8, <4>1
      <3> QED
        BY <1>12, <2>4, <3>1, <3>2, <3>3, HoldingEnds
    <2> QED
      BY <2>3, <2>4
  <1> QED
    BY <1>10, <1>11, <1>12

LEMMA PaidIsCovered ==
  ASSUME NEW a \in Nat, NEW b \in Nat, NEW f \in Nat, NEW g \in Nat, NEW c \in Nat, NEW d \in Nat,
         a <= 2 * f + c, b + 2 * f + c <= a + 2 * g + d
  PROVE  b <= 2 * g + d
  OBVIOUS

LEMMA StepKeepsCInv == TInv /\ KInv /\ CInv /\ [Next]_vars => CInv'
  <1> SUFFICES ASSUME TInv, KInv, CInv, [Next]_vars PROVE CInv'
    OBVIOUS
  <1>1. CASE UNCHANGED vars
    BY <1>1 DEF vars, CInv, ProvesOnlyProofs, Losses, Lost, Fast, Of, Spoiled, Replaced
  <1>2. CASE Next
    <2>1. Paid
      BY <1>2, KindsOfStep, StartPays, CommandPays, RegistrationPays, FailedRegistrationPays,
         UpsertPays, SettlementPays
    <2>2. IsFiniteSet(webhooks') /\ ProvesOnlyProofs' /\ LossesAreCounted /\ LossesAreCounted'
      BY <1>2, AfterStep
    <2>3. Losses \in Nat /\ Losses' \in Nat
      BY <2>2 DEF Losses, LossesAreCounted
    <2>4. Losses' <= 2 * faults' + cutovers'
      <3>1. Losses <= 2 * faults + cutovers
        BY DEF CInv
      <3>2. faults \in Nat /\ cutovers \in Nat /\ faults' \in Nat /\ cutovers' \in Nat
        BY <2>2 DEF LossesAreCounted
      <3>3. Losses' + 2 * faults + cutovers <= Losses + 2 * faults' + cutovers'
        BY <2>1 DEF Paid
      <3> QED
        BY <2>3, <3>1, <3>2, <3>3, PaidIsCovered
    <2> QED
      BY <2>2, <2>4 DEF CInv
  <1> QED
    BY <1>1, <1>2

LEMMA LossesInvariance == Spec => []CInv
  BY InitCInv, TypedInvariance, KnowledgeInvariance, StepKeepsCInv, PTL DEF Spec

(* However long the commands go on, and whatever the providers do with the *)
(* requests that failed, the webhooks whose secret is lost are two at most *)
(* for each failure, and one for each authorised cutover.                  *)
THEOREM FewOrphans == Spec => []OrphansCostFaults
  <1>1. ASSUME TInv, CInv
        PROVE  OrphansCostFaults
    <2>1. LossesAreCounted
      BY <1>1, CountedNow DEF CInv
    <2>2. Orphans \subseteq Lost
      BY DEF Orphans, Held, Lost, Fast, Holding
    <2>3. IsFiniteSet(Orphans) /\ Cardinality(Orphans) <= Cardinality(Lost)
      BY <2>1, <2>2, FS_Subset DEF LossesAreCounted
    <2>4. Cardinality(Orphans) \in Nat
      BY <2>3, FS_CardinalityType
    <2> QED
      BY <1>1, <2>1, <2>3, <2>4 DEF CInv, Losses, LossesAreCounted, OrphansCostFaults
  <1>2. TInv /\ CInv => OrphansCostFaults
    BY <1>1
  <1> QED
    BY <1>2, TypedInvariance, LossesInvariance, PTL
=============================================================================
