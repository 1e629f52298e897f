# A verification project for bundjil

bundjil is an agent that talks to people over messaging providers (Photon for
iMessage, Sendblue), runs its turns on Eve, and pays for them with a Codex
subscription. Its hard parts are small distributed protocols: at run time
between webhooks, a remote key-value store, Eve, the providers, Codex and an
OAuth server, and in operation between an operator's commands, a workflow,
Vercel, Photon and stored state. All of them may fail, repeat themselves or
answer late. This directory holds TLA+ models of those protocols, the TLC configurations that check them on small
instances, and TLAPS proofs of what matters most for every instance.

The models are translated from the TypeScript source; `PROJECT.json` ("map")
names the lines behind each definition.

## 1. The system

### Components, their state and their operations

| Component | Source | State | Operations |
|---|---|---|---|
| Atomic store | `packages/store/src` | keys with a value and an expiry | `transact` (conditions, then mutations, atomically), `get`, `set`, `clear`, expiry |
| Channel replay | `apps/agent/agent/lib/channel/replay.ts` | replay, continuity and terminal records, in the atomic store | `claim*`, `complete`/`uncertain` (`retain`), `retryable`, `acceptInbound`, `settleSession` |
| Inbound route | `apps/agent/agent/lib/channel/{eve,channel,dispatch,handoff}.ts` | one running request for each delivery | decode, claim, observe, send to Eve under a timeout, accept, converge, settle, answer; interruption finalizer; `session.ended` handler |
| Outbound replies | `channel.ts` (OutboundTextReady), `packages/sendblue`, `packages/photon` | one attempt for each run of `content.completed` | claim, send through the transport, classify the answer, settle |
| Codex credential | `packages/codex/src/auth/service.ts`, `storage/atomic.ts`, `provider/direct.ts` | encrypted profile, clear revision, refresh lock, in the atomic store | `getValidCredential`, `refreshAccessToken`, `recoverAfterUnauthorized`, lock `acquire`/`release`, fenced commits |
| Codex login and import | `packages/codex/src/auth/{login,loopback-callback,local-import}.ts` | one login session, a loopback HTTP server, the subject's profile | start, callback, exchange, commit; import; revoke |
| Codex streaming | `packages/codex/src/provider/{http-client,sse,stream-events,stream-mapper}.ts` | one response body, its owner and its decoder | post, retry, claim the body, split, frame, decode, map |
| Codex proxy | `apps/codex-proxy/src` | a span for each response | authorize, route, stream |
| Production promotion | `packages/infrastructure/src/vercel/production*.ts`, `scripts/automatic-production.ts` | three targets at Vercel, the run's own knowledge of them | observe, stage, promote, verify, roll back, report |
| Preview state migration | `packages/infrastructure/src/state/preview-state-migration.ts` | state rows and a backup file | plan, apply, resume, restore |
| Stable environment | `packages/infrastructure/src/vercel/{providers,stable-environment*}.ts`, `drift.ts`, `adoption-manifest.ts` | Vercel's variables, custody, inventory, manifest, Alchemy's rows | inventory, build and re-admit the manifest, deploy, sync, report drift |
| Photon operator management | `packages/photon/src/{environment-webhook,provider-proof,operator-management}.ts`, `infrastructure/src/photon/webhook-binding*.ts` | webhooks of two Photon projects, binding files, four variables at Vercel | register, delete, prove, bind |
| Preview Vercel configuration spike | `alchemy.preview.run.ts`, `packages/infrastructure/src/vercel/configuration-*.ts`, `preview-configuration-authority.ts` | one setting and one disposable variable of a Preview project | switch, create, delete, report drift, by hand |
| Lint rules, tooling | `lint`, `tools` | none | static analysis |

### How they interact

```
provider --webhook--> inbound route --claim/accept/settle--> atomic store
                          |  send(token)                          ^
                          v                                       |
                         Eve --content.completed--> outbound -----+
                          |                            `--text--> provider
                          `--session.ended--> settleSession ------+
Eve's model calls --> codex provider --> credential service --> atomic store
                                              |--refresh--> OAuth provider
                                              `--login, import, revoke
Eve's model calls --> proxy --> codex provider --stream--> Codex

operator: inventory, manifest, deploy, sync  --> Vercel's variables, Alchemy's state
operator: register, delete, prove, bind      --> Photon's webhooks, files, Vercel
operator: plan, apply, restore               --> state rows, backup file
workflow: promote, roll back, report drift   --> Vercel's targets and variables
```

At run time the atomic store is the only shared state. Everything else is a
running request that interleaves with the others at each `yield*` of a call that leaves
the process. No component holds a lock in memory; mutual exclusion rests on
leases in the store, which expire by the clock. In operation the shared state
belongs to the providers: a request that failed for its caller may still be
carried out later, and the process that made it may be gone.

### What is hard

* A webhook is delivered again while its first delivery is running, dead or
  answered (`channel.ts:86`). A claim names no owner (`replay.ts:86`).
* The send to Eve is awaited under a timeout that abandons the promise and not
  the send (`dispatch.ts:122`).
* A store call may fail after its script has run (`upstash-layer.internal.ts:253`).
* A session may end before the delivery that started it has recorded it
  (`eve.ts:74`).
* A provider may deliver a text and hide it behind an error (`live.layer.ts:336`).
* A token request may outlast the lock it runs under, 30 seconds against 5
  (`service.ts:284`), and refresh tokens are spent by use.
* The tab of a login that is over may answer to the next login on its port
  (`loopback-callback.ts:230`); an import writes a profile and no revision.
* A response body is cut into chunks anywhere (`sse.ts:114`), and its owner
  changes while either owner may be interrupted (`http-client.ts:380`).
* A command of the promotion fails for its caller and is carried out later,
  even after the rollback that followed it (`production.ts:131`).
* Vercel never shows a value that was written, so a drift report has to conclude
  from `updatedAt` alone whether it still stands (`drift.ts:257`).
* Photon shows the signing secret of a webhook once (`environment-webhook.ts:138`).
* The retirement of state rows stops between two deletions, or while it
  overwrites its only backup (`preview-state-migration.ts:565`, `:833`).

`PROJECT.json` ("hazards") lists all of them at their lines, with the
properties that would catch them, or the reason why none does yet.

### What makes each component correct

* Store: a transaction is all or nothing; an expired entry is absent.
* Inbound: one delivery of a message dispatches at a time; a message reaches
  Eve once, and again only as the price of a failure; nothing is acknowledged,
  completed or bound that Eve did not accept; conversations do not fork;
  settled records stay; every request is answered.
* Outbound: one attempt sends at a time; "complete" means delivered; what may
  have been delivered is not sent again.
* Credential: one refresh at a time; no older token replaces a newer one; only
  the profile that was refused is marked; a release removes only its own lock;
  the rotated token is not lost; every call returns.
* Login: a code goes to the login it was issued for; writers of the profile
  replace what they have read; every login ends.
* Streaming: neither the chunks nor the verdict depend on how bytes arrive; a
  finish is earned by a whole body; every body is released.
* Promotion: a receipt is true, a rollback complete, a release whole, and no
  release older than the one before.
* State migration: a stale row leaves the state only under a whole backup, at
  every step of every run, and restoring works in the end.
* Stable environment: a clean drift report is true of values that nobody can
  see; a finished deploy leaves nothing to plan.
* Photon: secrets are lost only to failures; half a binding can be repaired; a
  binding file goes only when its secret is held; proofs recover.

## 2. Modules

```
AtomicKeyValueStore            operators: entries, transactions, ageing
 |-- PersistenceMemory         operators: the memory layer, absolute expiry
 |-- AtomicStoreClient         db, faults; Transact with ambiguous failure
 |-- ChannelReplay             the transactions of replay.ts
 |    |-- ChannelInbound       the webhook route, Eve, session events;
 |    |                        implements ConversationLedger (abstract)
 |    `-- ChannelOutbound      attempts, transports, provider
 `-- CodexProfileCommit        the transactions of storage/atomic.ts
      |-- CodexRefresh         callers, OAuth provider, logins;
      |                        implements CredentialRegister (abstract)
      `-- CodexLogin           callback ports, tabs, imports, revocation
CodexStreamEvents              operators: the events of a stream, their mapping
 |-- CodexSse                  operators: bytes to lines to payloads, by chunks
 |-- CodexBody                 operators: what a whole body says (the reference)
 `-- CodexResponses            one invocation: proxy, request, body, decoder
ReversibleRetirement           what a retirement of rows promises (abstract)
 `-- StateMigration            plan, apply, resume, restore
ProductionPromotion            observe, promote, verify, roll back, report
PhotonWebhooks                 register, delete, prove, bind
StableEnvironment              inventory, manifest, deploy, sync, drift
*_proofs                       theorems about ChannelInbound, ChannelOutbound,
                               CodexRefresh, CodexLogin, StateMigration,
                               ProductionPromotion, PhotonWebhooks and
                               StableEnvironment
MC*                            small instances for TLC
```

### AtomicKeyValueStore and AtomicStoreClient

`db` maps keys to entries `[value, ttl]`. A transaction is a record of two
functions, conditions and mutations; the schema refuses repeated keys, so
functions lose nothing. `Transacted` is the Lua script (and the memory layer's
`Ref.modify`): check all, then write all. Time is kept as what is left of it:
an entry with `ttl = 1` expires with the next tick, which stands for any clock
advance long enough to reach its `expiresAt`.

The code keeps time the other way round: an entry names the time at which it
expires, and every use drops what has expired. `PersistenceMemory` is the memory
layer as it is written, with `expiresAt` and `now`; `Remaining` maps its states to
those of the store, and `MemoryIsTheStore` proves that nobody can tell the two
apart, so that the models' representation of time costs nothing. A call takes
effect at the time it has read just before its `modify`.

`Transact(txn, result)` is a call over the network. It answers `applied` or
`conflict`, or it fails, and then either happened: the store client reports one
error for a script that never ran and for one whose answer was lost. The Redis
client below it is built with its default retries (`upstash.layer.ts:18`) and sends
a request again whose answer it has lost; the caller then gets the answer of the
second run. This is a fault, too: the transaction is applied, and the result is
what its conditions say of the store *after* it. So a claim that was taken can be
reported as a conflict: the delivery is answered 204 as a duplicate and the claim
stays until it lapses; and a refresh that has committed can be told "conflict" and
go on to read the winner, which is itself. The two runs are one step; what another
caller may do between them is not modelled.

### ChannelReplay and ChannelInbound

`ChannelReplay` has one operator for each transaction of `replay.ts`, with the
conditions and mutations of the code. `ChannelInbound` runs them.

| State | In the code |
|---|---|
| `delivery[r].pc` | where the fiber of request `r` is in `eve.ts`'s route |
| `delivery[r].disposition` | the disposition the route logs, which fixes the HTTP status |
| `send[r]` | the promise of Eve's `send`, and what is behind it |
| `session[s]` | Eve's session: its conversation, status, and its `session.ended` handler |
| `holder[m]` | the delivery that last claimed `m`; history, read by one property only |

| Action | In the code |
|---|---|
| `Receive`, `Refuse` | the transport decodes and routes; refusals end before any claim |
| `ClaimInbound` | `prepareInbound`: 204 when the claim conflicts |
| `Prepare`, `Release` | `handoff.prepared`; on failure `retryInbound` and 503 |
| `StartSend`, `RejectSend`, `SendResolves`, `SendFails`, `SendTimesOut` | `EveChannelDispatch.dispatch`, with the timeout as a step that may come at any time |
| `AcceptInboundNew`, `...Resumed`, `...Fork` | the three transactions `acceptInbound` tries in turn, each a step |
| `Converge`, `ConvergeFork` | `handoff.converged` and `handoff.settled` |
| `RetryInbound`, `QuarantineInbound`, `UncertainInbound` | the settlements after a failed dispatch; the last swallows its own error |
| `Respond`, `RespondUncertain` | `handoff.response`, then 202 or 503 |
| `Interrupt`, `FinalizeInterrupt`, `Crash` | the exit finalizer of the dispatch; the death of the process |
| `EveAccepts`, `EveRefuses`, `SessionEnds` | Eve, external: it resumes the live session of a token or starts one, and may, as a fault, fork |
| `StopPresence`, `SettleSession` | the `session.ended` handler: the typing indicator is stopped first, and a failure there skips the settlement |
| `Tick` | the clock |

Eve is modelled from how `dispatch.ts` and `eve.ts` use it. An abandoned send
stays `inflight` and may still be accepted.

`ConversationLedger` says what all of this is for, without deliveries, store or
failures: Eve accepts messages into sessions and ends sessions; a message is
claimed and then released, left in doubt or completed; it is completed only for
a session that took it, in the step that makes that session the conversation's;
a conversation loses a session that is over, in the step that notes its failure;
records may lapse. `Ledger` maps the accepted sends to its facts and the three
kinds of keys to its records, and `KeepsLedger` is the refinement.

### ChannelOutbound

An attempt claims the event, posts through a transport and settles by what the
transport reports: a message identity completes; a timeout or transport error
keeps the claim as `uncertain`; a refusal (an error status, an `ERROR` body, a
body that does not decode, an SDK result without identity) makes it retryable.
A refusal proves nothing about the delivery when it is a 5xx or a body that does
not decode: `AnswerRejected` may come to a text that the provider has delivered,
or still will, which is a fault. `answer` is what an attempt has heard from its
provider, an identity or an error, kept as history: `NeverBlindRetry` lets a text
that has gone out be sent again only by leave of an error answer, and
`ResendsCostFaults` counts the times when that was wrong.

### CodexProfileCommit and CodexRefresh

The profile and its revision are two keys written by one transaction;
commits compare the revision. `CodexRefresh` has callers (`getValidCredential`,
`refreshAccessToken`, and `recoverAfterUnauthorized` after a 401), the OAuth
provider with the refresh tokens it still takes, revocation, and logins that
commit against the profile they started from. Revisions are random in the code
and numbers here: they are only compared for equality there, and numbering them
in the order of their writes keeps the same ones apart. `timer[c]` is what is
left of a holder's lease or of a contender's wait. A release is two calls in the
code, a check of the lease and a removal of the lock, and two actions here
(`CheckLease`, `ReleaseRefreshLock`): another caller can take the lapsed lock in
between. `outlasted` is history: it records that a lease has run out under its
holder, after which exclusion cannot be expected.

`CredentialRegister` says what is promised to those who write the credential,
without keys, revisions compared in the clear, locks, time or failures: a renewal or
a login begins from the profile it reads, is granted a token or denied, and
replaces or marks the profile only while that is still the one it read. `Register`
maps an exchange with the provider to a renewal and a running login to a login;
everything that fails is a writer that gives up, a call that failed and was applied
a writer that did not. `KeepsRegister` is the refinement. It does not mention the
lock: the lock saves refresh tokens (`LiveGrantIsStored`), the fence alone keeps the
register.

### CodexLogin

Logins bind the first free port (`BindPort`), open a tab (`OpenBrowser`) and are
settled by the first request that their port receives, whoever sends it
(`ReceiveRequest`). A tab outlives its login and keeps the port it was opened
for, so a late answer reaches whichever login listens there now; `DecodeRequest`
is the comparison of `state` that stands against this. The commit is one of three
transactions, by what the login found when it started. Beside the logins run
`ImportProfile` (a plain write without a revision), `RevokeToken` and
`RemoveProfile`, and a refresh reduced to what it read and its commit. The
cipher is a nonce: two encryptions of one profile differ. No OAuth client of the
repository supports `revoke` (`client.ts:57`, `refresh-client.ts:23`), so
`revokeToken` never reaches `removeProfile` today; the two actions stand for the
service with a client that does.

### CodexStreamEvents, CodexSse, CodexBody and CodexResponses

Bytes are records by kind. `CodexSse` is the decoder of `sse.ts` with its pending
carriage return and its four limits, one chunk at a time; `CodexStreamEvents` the
order of events and the mapper. `CodexBody` says what a body means when it is
read as a whole, without chunks, pending state or limits, and shares with the
decoder only the order and the mapping of events. `CodexResponses` runs them in
one invocation: the proxy's route, the request and its single retry after a 401,
the watchdog that closes a body nobody claims, reading, the host that pulls or
cancels, and the span. The upstream writes any of the frames of
`MCCodexResponses`, skips sequence numbers, and may break off anywhere.

### ReversibleRetirement and StateMigration

`ReversibleRetirement` has two variables, the stale rows in the state and those
an archive can give back, and three steps: archive while nothing is missing,
remove while everything is archived, return. `StateMigration` implements it with
`live <- Stale \cap DOMAIN rows, kept <- Stale \cap DOMAIN file.rows`
(`Reversible`). It has the code's control: rows are listed, then read one by one;
`PrepareRetirement` decides between saving, resuming and refusing; the backup is
truncated, then written (`TruncateBackup`, `SaveBackup`); deletions come one by
one; a readback earns the receipt. `Stop` ends a run at any step and `Deploy`
changes rows in between.

### ProductionPromotion

The provider accepts a request into `queue[t]` and carries it out later or drops
it; the run polls `serving[t]`. A target becomes eligible for rollback before its
request is made (`Post`); any exit but success compensates in the order callback,
agent, proxy. That the provider carries out the requests for one target in their
order (`CarryOut`) is an assumption about it: the code neither enforces nor checks
it, and `RollbackIsComplete` needs it. The workflow's concurrency group
(`production.yml:11`) lets one run go at a time, so runs are serial; a run may be
for any commit that main has had.
`accepted`, `uncertain`, `dropped` and `died` are history for the properties.
`minutes` adds up the allowances of the commands: twelve commands before the
first mutation (24 minutes), 8 for the promotion and 12 for the rollback make 44
of the 45 minutes of the workflow's step (`production.yml:71`).

### PhotonWebhooks

The operator runs one command at a time with any arguments, and every command may
die at each step. `late` holds requests that failed for their caller and may still
be applied; `doubtful` remembers them all. A webhook's secret is named by its id,
and `env` has the revisions of the bound variables. `Held` says who still has a
secret: a file, the environment, or the command that runs.

### StableEnvironment

| State | In the code |
|---|---|
| `live` | Vercel's variables: metadata, the value nobody can read, `updatedAt` |
| `custody` | the value in the stage's configuration, by age |
| `inventory`, `manifest` | the operator's artifacts |
| `row` | Alchemy's state: the props and attributes of each resource |
| `deploy` | the deploy or sync that runs: plan, wanted props, custody, PATCH under way |
| `drift` | the drift report that runs, with the rows and the manifest of its start |
| `late` | PATCH requests that failed for their caller and may still land |

`Planned` is `diff`, which compares neither values nor `updatedAt`. `Reconcile`,
`PatchAnswered`, `PatchFails`, `Readback` are `reconcile` with its two retry
policies; what it records is `Recorded`. A managed variable is named by the
revision of the inventory's source, and its value is the custody of the process
that writes it: a sync writes the current custody under the row's revision, which
may be older (a listed hazard). `Classify` is the category and disposition of one
observation. `drift.stale` is history: some managed variable held, when it was
read, a value from elsewhere or one older than the manifest's revision. One
deploy or sync runs at a time (they are the operator's commands), and drift
reports of the workflow overlap with it; the dashboard and Photon's binding write
beside both. `updatedAt` is taken to grow with every write. A report reads plan and
rows in one step (`StartDrift`), while the code reads the state twice
(`report-drift.ts:487`, `:552`).

## 3. Runs

| Run | Instance | Shows |
|---|---|---|
| `inbound_punctual` | 3 deliveries of 1 message, 2 sessions, 1 fault, punctual, fair | `ExclusiveDispatch`, `RepeatsCostFaults`, `NoSendAfterAcknowledgement`, `EveryDeliveryEnds` |
| `inbound_conversation` | 2 messages of 1 conversation, 2 deliveries, 2 sessions, 1 fault, leases lapse at will | `RecordsAreEarned`, `ContinuityNeverForks`, and that the channel implements `ConversationLedger` (`KeepsLedger`) |
| `outbound_punctual` | 3 attempts at 2 events, 2 faults, punctual; error answers may hide a delivery | `CompleteIsDelivered`, `ExclusiveSend`, `ResendsCostFaults`, `NeverBlindRetry`; its module also compares the memory layer with the store on two keys (`MemoryIsTheStoreInSmall`) |
| `refresh_lapses` | 2 callers, 1 login, 1 fault, one 401, leases lapse at will | `ExclusiveRefresh` and `LiveGrantIsStored` until a lease is outlasted; always `RevisionFencesProfile`, `OnlyOwnersRelease`, and that the stored profile implements `CredentialRegister` (`KeepsRegister`) |
| `refresh_fair` | 2 callers, 1 fault, two 401s, fair | `EveryCallReturns` |
| `refresh_rejected_again` | 2 callers, fair | ends in a counterexample, section 5 |
| `codex_stream` | any 3 of 20 frames, chunks of 1 to 3 bytes, every limit in reach, fair | `CutsDoNotMatter`, `VerdictsAreTheBodys`, `FinishIsEarned`, `EveryBodyIsReleased` |
| `codex_login` | 2 logins over 2 ports, 2 profiles from elsewhere, 1 fault, fair | `CodesBelongToTheirLogin`, `SubscriptionsAreFenced`, `WritersReplaceWhatTheyRead`, `EveryLoginEnds` |
| `state_migration` | 2 stale and up to 2 other rows, 3 manifests, 2 runs that stop, 2 deployments, fair | `NothingIsLost`, `Reversible`, `ReceiptsAreTrue`, `DesiredRowsSurvive`, `RestoringWorks` |
| `production_promotion` | 2 runs, 2 commits, failures without a bound | `ReceiptsAreTrue`, `RollbackIsComplete`, `AllOrNothing`, `ReleasesNeverRegress` |
| `photon_webhooks` | 3 commands, 2 projects, 2 URLs, 2 paths, 2 faults, fair | `OrphansCostFaults`, `MixedBindingsAreRepairable`, `FilesLeaveHeld`, `ProofsRecover` |
| `stable_environment` | 1 managed and 1 observed variable, 2 sources, 1 rotation, 1 foreign write, 1 fault | `CleanReportsAreTrue`, `DeploysConverge` |

The type invariant of each module documents its variables. It is proved for the
inbound and the outbound channel, the credential refresh, the login, the
migration, the promotion, Photon's webhooks and the stable environment; no run
spends its time on it.

### Bounds

Faults (failing calls whose effect may have happened, crashes, deaths) are bounded
by `MaxFaults`, in `StateMigration` by `MaxStops`; in `ProductionPromotion` every
command may fail and every run may die, without a bound. `MaxRejected` bounds the
answers of 401, `MaxProfiles` the profiles of imports and refreshes, `MaxCommands`,
`MaxRuns`, `MaxDeploys`, `MaxSha`, `MaxRevision`, `MaxCustody` and `MaxWrites` what
operators, workflows, main, sources and strangers do, and `MaxFrames`, `MaxChunk`,
`MaxVersion` the data. `LeaseTtl`, `RetentionTtl`, `LockTtl`, `Lifetime`, `Skew` and
`CallbackTimeout` are lengths in ticks, and what matters is their order. The code's
retries are two around a PATCH and three around its readback, one each in the
instance; the observations after a registration are three in the code and two
in the instance. `LineMax`, `FragmentMax`, `EventMax`, `FieldMax`, `MaxBody` and
`MaxEvents` are the code's limits, made small enough that the frames of the
instance stay below, meet and pass them.

Why these bounds are enough to be worth running: a foreign settlement needs two
deliveries of one message, a third to claim in between; a fork needs two
sessions and two messages of one conversation; a stale commit needs two
refreshes or a refresh and a login; an ambiguous store failure and the crash of
whoever relied on it are two faults. A misdelivered code needs two logins and one
port. A cut changes what a decoder carries over only at a carriage return, in a
line, in an event or at a limit, and three frames have all of these. An
interrupted retirement needs a run that stops and one that follows; a lost row
needs a second stop in the second run's backup. A regression needs two runs, a
stray request one that died or gave up. A spoiled readback needs a registration
that failed, one that follows, and a command between them. A false "clean" needs
a late request of a first deploy, a second deploy and a report. All of these
happen in the instances, and each property is checked against a plausible bug
("mutants") that breaks it there. The safety of `PhotonWebhooks` was also checked
once with four commands (11 million states); there the bound of
`OrphansCostFaults` is tight. Where the proofs cover a property the bounds no
longer matter.

### Punctual deployments

`Punctual` says that time does not overtake handlers: no lease runs out under a
delivery that is still dispatching or settling, and no retained record while
the provider still repeats its message. For the channels this is what the
configuration aims at: leases of 60 seconds (`config.ts`) over a handoff timeout
of 15 and a transport timeout of 30, retention of seven days. It is not enforced: a
paused process or a slow settlement can outlive its lease, so everything that
should hold anyway is checked with `Punctual = FALSE`.

For the Codex credential it is *not* what the defaults give. The lock lasts 5
seconds and the token request may take 30. `ExclusiveRefresh` and
`LiveGrantIsStored` are therefore stated until some lease has been outlasted
(`outlasted`); the fences of the other properties hold without it. So what an
overlong token request does to refresh tokens is not bounded by any property; what
it cannot do to the stored profile is (`KeepsRegister`).

### Fairness

`FairSpec` gives each running request weak fairness: the JavaScript runtime
resumes a fiber whose call has settled, and every call either settles or has a
timer (the acceptance timeout is one of the actions of `Handle`). Eve gets none:
a send may stay in flight for ever, and a session may never end. Session
handlers and the clock are fair. For `CodexRefresh` the provider's answer is
fair because the HTTP client times the request; the body that follows it has no
timeout of its own (a listed hazard). Crashes and interrupts are never fair.

`CodexLogin`: running logins and the clock are fair, the operator in the browser
is not. `CodexResponses`: the request's timers, the watchdog and the idle timeout
are fair; of the host only that it either reads on or cancels. `StateMigration`: a
run goes on, and an operator who can again and again restore does (strong
fairness of `Restore`, which a stopped run disables for a time).
`ProductionPromotion` states fairness of its steps (every command is killed in
time) but checks only safety. `PhotonWebhooks`: calls to Photon are timed
(`operator-management.ts:219`), so register, delete and prove go on; calls to Vercel
are not, so bind has no fairness. `StableEnvironment` has none: its properties are
about what is true when a command ends.

## 4. Proofs

Checked by TLAPS for all constants that satisfy the named assumptions
(`TtlAssumption`: leases and retention are positive; `ChannelAssumption`,
`OutboundAssumption`: every message has a conversation, and `Nil` is none of
the values; `UnansweredAssumption`, `UnreportedAssumption`, `NilAssumption`: nor is
it a disposition, a report, a profile or the owner of a lock; `LockTtlAssumption`,
`RefreshAssumption`: locks last, and the limits are numbers).

* The proofs about users of the atomic store start from the same lemmas: a call
  leaves the store as it was or writes all mutations under all conditions
  (`TransactionIsAtomic`, `WrittenAt`); well-formed entries stay so under
  transactions and time (`WrittenIsTyped`, `AgedIsTyped`); time changes a value
  only by expiry (`AgingKeepsValues`).
* `ChannelInbound_proofs`
  * `TypeCorrect`, `AcknowledgementsAreEarned`: from `Inv`. The properties are
    not inductive by themselves. `Inv` adds `Causal(r)`: a delivery that has
    passed "idle" has a message, one that has not started to send has sent
    nothing, one at "acceptNew", "acceptResumed", "converge" or "respond" was
    accepted, and the session that accepted it belongs to its conversation; and
    `EndsAreReal`: a session that is being settled has ended. Without the first
    a late answer could be read as an acceptance; without the second a
    retirement could remove the record of a live session.
  * `SettledForGood`, `ConversationsNeverFork` (action properties),
    `RecordsEarned`: `StepsOfTheStore` shows that every step of the system does
    one of five things to the store; `EffectsOnReplay`, `EffectsOnContinuity`
    and `EffectsOnTerminal` say what each does to one record; `CausesPersist`
    says that what earned a record is never undone. None of them assumes
    punctuality: they hold when leases lapse and claims are settled by others.
    (`SettledRecordsAreFinal` is sharper than the ledger in one point, that a
    settled record lapses on its last tick only; no run repeats it.)
  * `LedgerIsKept`, the refinement of `ConversationLedger`, which does not assume
    punctuality either. A step moves Eve's facts and leaves the store alone
    (`AcceptancesAreFacts`, `EndsAreFacts`), or the facts stand still and it is
    one of the five steps on the store, each of which is a step of the ledger
    (`SettlementsAreLedgerSteps`, `CompletionsAreLedgerSteps`,
    `RetirementsAreLedgerSteps`, `AgingIsLapse`). A completion needs that the
    session which accepted the message is the one of its own send (`Causal`); a
    retirement needs that a session which ended serves a conversation
    (`SessionsServe`, which the types do not say).
  * `DispatchIsExclusive`: assuming `Punctual`. `Exclusion` strengthens the
    property to everyone who may dispatch *or release*: such a delivery is alone
    with its message, and the message has a record as long as another delivery
    may still come. The argument: only a claim on an absent record lets a
    delivery in (`OnlyClaimsEnter`), and a record goes only by its last tick or
    by the release of a delivery that leaves (`OnlyReleasesRemove`).
  * `RepeatsAreCounted`, `AcknowledgedIsSentOnce`: assuming `Punctual`. `Guard` extends
    `Exclusion` to a delivery that has sent and not yet settled, although it only
    settles and answers: until then the message's record is its only protection.
    A message is `Sealed` when it is settled, its record outlives every delivery
    that may still come, and nobody holds it unsent; it stays so
    (`SealedForGood`), and what has converged is sealed. That excludes a send after
    an acknowledgement. For the count, `Counted(m)` bounds the sends that Eve took
    or may still take by the faults, plus one while the last of them is guarded or
    the message is sealed (`Spent`): a new send needs a message that is not spent,
    and only a fault, or a refusal by Eve, which takes a send back, makes a spent
    message one again.
  * `RequestsEndInElevenSteps`: `StepsLeft` falls with each step of a request's own
    (`HandlersAdvance`), an interrupt, a crash or a refusal only takes away from it
    (`CutsShorten`), and all else leaves it alone. This is the safety half of
    `EveryDeliveryEnds`: what is left to fairness is only that a request which
    can step does.
* `ChannelOutbound_proofs`
  * `TypeCorrect`, and `CompletionsAreDelivered` also for deployments that are not
    punctual, which no run covers.
  * `SendIsExclusive`, `ResendsAreCounted`: assuming `Punctual`, by an `Exclusion` that
    reaches from the claim to the settlement (an attempt there is alone, and the
    record "claimed" is its own) and a count like that of the inbound channel.
    `RetriesAreNotBlind`, again assuming only `Punctual`, with error answers that
    hide deliveries. `Kept(a)` says that a release follows an error answer, and that
    an attempt which told Eve "accepted" or "delivery error", whose text has gone to
    the provider without an error answer (`Unanswered`), has closed its event for
    good: nobody claims it again. `Moves` says how an attempt may change in a step.
  * `MemoryIsTheStore`, `NativeWritesAreTransactions`, about `PersistenceMemory`
    for all keys, values and times, from the schemas' positive time to live: a key
    is `Live` exactly if something is left of its entry (`RemainingAt`), which is
    all that conditions look at (`MemoryChecksWhatHolds`); what a mutation writes
    is due `now + ttl` and has `ttl` left (`MemoryWrites`); and an entry leaves
    `Live` when its last tick is `Aged` away (`ClockAges`).
* `CodexRefresh_proofs`, from `RefreshAssumption`, `NilAssumption` and
  `LockTtlAssumption`
  * `TypeCorrect`, `RevisionsFence`, `MarksHit`, `OwnersRelease`: whatever fails and
    however long a refresh outlasts its lock. `Inv` adds `Based(c)`: a request
    asks the provider on behalf of a profile of the store, and as long as the
    stored revision is that of its base, the stored profile is its base
    (`ProfilesSucceed`: whatever replaces a profile, a mark included, has the next
    revision). Without it a mark could hit a profile that somebody else has
    stored under the same revision. `StepsOfTheStore` says what a step does to
    the store, `StepsOfAsks` what it does to an exchange with the provider.
  * `RegisterIsKept`, the refinement of `CredentialRegister`. `Registered` adds to
    `Inv` that a login, too, works on a profile of the store (`Drafted`), and that
    every token in use has been issued (`Issued`). Every commit leaves the profile or
    writes its own under its conditions (`CommitsReplace`), and then the revision
    compared stands for the profile read (`RevisionsStandForProfiles`) and the next
    one is of no profile anybody works from (`NextRevisionIsUnknown`). That `Issued`
    is kept is read off the register's own steps (`StepsKeepIssued`).
  * `RefreshIsExclusive`, from `Leased(c)`: until a lease runs out under its holder,
    who is under the lock has time left, and the lock names it for at least as
    long.
  * `GrantsStayLive`: a second invariant, `Live`, under the condition that nothing
    has gone wrong (no fault, no lapsed lease, no revocation). Refresh tokens are
    spent by use, so it has to say whose token is whose: the one that asks holds
    a token the provider takes, which is the stored one unless a login has
    replaced its base (`LiveAsk`); a login's token is nobody else's until it is
    stored (`LiveLogin`). Exclusion is what makes it inductive: with two under the
    lock one of them would spend the other's token.
  * `CallsEndInNineSteps`, the safety half of `EveryCallReturns`: each step of a
    call's own brings it nearer to its answer, and only a new call or the one
    recovery starts it afresh. It polls, exchanges and reads the winner once, so that
    what is left to fairness is that the runtime runs it, the provider or its
    timeout answers, and the clock moves.
* `CodexLogin_proofs`, from `LoginAssumption` and `NilAssumption`:
  `TypeCorrect`, `CodesStayHome`, `Fenced`, `WritersHaveRead`. `Answered(l)` says that a login
  was answered with its own code or a refusal, and has its own code once it has
  left the wait. `Typed` keeps every known subscription among `Subscribed`, where
  the revision says which profile it is; with `SubscriptionsAreFenced` a commit
  fenced by the revision it has read therefore replaces the profile it has read.
  `PortsAreReleased`: a login listens on the port of its redirect from its bind to
  its end and holds no other, so that no way to end leaves a port taken; a bind
  takes a free port or none (`BindsTakeFreePorts`), and an end frees only its own
  (`EndsFreePorts`). `LoginsEndSoon`: a login makes five steps and one for each port,
  the safety half of `EveryLoginEnds`.
* `ProductionPromotion_proofs`: `RollbacksComplete`, `NeverRegresses`, `ReceiptsTrue`,
  `PromotionIsWhole`, for all commits and runs, and `TypeCorrect`, from
  `PromotionAssumption` (twelve commands, the promotion and three restorations fit
  into the workflow's step): its bound on `minutes` says that what a run allows its
  commands and its rollback never exceeds the step, which would kill it in between
  (`Timely` gives each point of a run its allowance). `Untouched`: what is or will be
  on a target that the run has not touched is of an earlier run, so that what it
  stages is nobody else's; `Returned`: what the rollback has passed ends at what the
  run found, unless the provider drops a request; `Ahead`: main is never behind a
  release. For the other two, a target is `Heading` for a deployment when it serves
  it for good once it does; the requests under way head for the `Goal` of the run as
  long as nothing is uncertain (`Quiet`), and those for a staged deployment do so
  whatever earlier runs have left (`Reached`). That is why the poll may believe what
  it sees, and where `AllOrNothing` needs `uncertain = {}`.
* `StateMigration_proofs`, from `MigrationAssumption`: `NoRowIsLost`,
  `OnlyObsoleteRowsAreRemoved`, and `MigrationIsReversible`, the refinement of
  `ReversibleRetirement`: `InitInv` maps initial states, and every step maps to
  one of its steps or to a stutter. `IInv` says what a command knows at each
  point: stale rows never change (`FilesAreFresh`), a backup holds all of them or
  nothing is missing (`BackupIsWhole`), what "apply" has read of them is still
  there (`ReadIsThere`), and what retires, restores, removes or sets holds a
  backup that covers it. Without `ReadIsThere` a backup could be overwritten by
  a smaller one.
  `TypeCorrect`, and `ReceiptsClaimWhatIsSo`, which needs what a run has seen to be
  so still: `RInv` says of each step what the command has read (`ReadsRows`),
  what the file has of what is retired (`RetiresBackedUp`, `VerifiesFile`) and
  that no stale row is left once all are retired (`RetirementLeavesNoStale`).
* `PhotonWebhooks_proofs`, from `WebhooksAssumption`. The lemmas `KindsOfStep`,
  `CommandStepsAreCalm` and `SettlementsOfRequests` reduce the thirty-odd actions
  to six kinds of step; everything else is proved over those.
  * `TypeCorrect`. That an identifier stays in range is a count: a command
    registers one webhook at most, and one that has failed to be registered may
    still come (`Numbered`).
  * `MixedBindingsCanBeRepaired`, `BindingFilesLeaveHeld`, from `KInv`. All that is
    in the environment, or may still be put over it by a late binding, is in a
    file, but for *one* binding at most (`Bound`). The step that could break it
    is the removal of the file at the end of a bind. There the environment was
    empty when the bind began, so all of it is in files (`BindKnows`), and
    the file that goes becomes the one exception. Taking a registration back
    breaks nothing, since its identifier is nowhere yet (`MineIsFresh`).
  * `FewOrphans`: a count is not inductive unless it also has what can still be
    lost. `Losses` charges two for each registration that may still land (it can
    be lost itself, and be what another's readback finds), one for each
    binding that may still land, one where a readback is already spoiled, and
    one where the secret that a bind is about to drop from its file is no
    longer in the environment. Every step pays for what it adds (`Paid`), with
    a fault or a cutover or out of what was set aside. `HoldingEnds` is the
    crux: a registration ends with its file, without its webhook, by a fault, or
    by a spoiled readback, and in no other way.
* `StableEnvironment_proofs`, from `StableAssumption`: `TypeCorrect`,
  `CleanReports`, `Converge`. The argument for `CleanReports`: custody is at least
  as new as every source (`CustodyIsNewest`); an acknowledged `updatedAt` that
  still stands belongs to this command's own value (`AcksAreOwn`), since every
  write raises it; so a row that names its value and has Vercel's `updatedAt`
  vouches for a value no older than its revision (`RowsVouch`); a report that is
  still clean has the rows and the revisions of its manifest (`ReportIsClean`), and
  accepts of a managed variable only what its row vouches for
  (`AcceptedIsNotStale`). `Good` is the name for "no older than the revision, for
  everybody who knows when its source was new": inventory, manifest and report
  learn it at different times. For `Converge`, `PlanIsAhead`: what a deploy has not
  reached is all that is left of its plan. `DeploySteps` and `DriftSteps` say field
  by field what a step does; all other lemmas start from them.

Only model-checked: the three invariants of `CodexResponses`
(`CutsDoNotMatter`, `VerdictsAreTheBodys`, `FinishIsEarned`), whose decoder folds
over data, which needs induction that the provers cannot instantiate; and all
liveness (`EveryDeliveryEnds`, `EveryCallReturns`, `EveryBodyIsReleased`,
`RestoringWorks`, `EveryLoginEnds`, `ProofsRecover`), which is out of the prover's
reach but for the bounds on steps above. Every other safety invariant and action property of the passing runs is a theorem.

## 5. Where the code and its documents differ

One run ends in a counterexample to what a document says:

* `refresh_rejected_again`, `RecoveryChangesCredential`: a recovery should use
  the winner only if the revision changed
  (`codex-hosted-live-oauth-storage.md:434`); one that finds the lock taken
  accepts any unexpired profile, so also the credential that was just rejected
  (`service.ts:376`).

Other divergences that were met while modelling, which the models contain and no
run is spent on:

* The design says that a release is owner-fenced
  (`docs/product-specs/effect-persistence.md:592`); `retryable` compares with a
  constant and removes any claim (`replay.ts:167`).
* After a failure between claim and send the same identity should stay safely
  retryable (`hosted-eve-runtime-qualification-and-durability.md:187`); a
  redelivery that finds the dead claim is answered 204 (`eve.ts:177`), after which
  the provider stops repeating it. So is the redelivery of a message whose dispatch
  was uncertain and was answered 503. `NoSendAfterAcknowledgement` is about
  acknowledged acceptances only; what bounds these cases is `RepeatsCostFaults`.
* Accepted work that fails should keep a terminal state (HEQ-REQ-012); a session
  that fails before `acceptInbound` has run settles as "stale" and leaves none.
* Uncertain sends are never blindly retried (`docs/architecture/eve-agent.md:287`);
  a delivery behind an answer that does not decode, or behind a 5xx, is taken for
  a rejection and the next attempt sends it again (`live.layer.ts:336`). The model
  contains it as a fault of `AnswerRejected`; `NeverBlindRetry` therefore says what
  the code does keep, that nothing but an error answer leads to another send, and
  `ResendsCostFaults` bounds the texts that are delivered twice.
* `docs/product-specs/automatic-production-and-operational-closeout.md:243` counts
  eleven commands and 22 minutes before the first mutation of a promotion, 42
  minutes in all; the code has twelve, and 44.
* The same document (`:610`) accepts an observed variable only when native sync is
  unchanged *and* the accepted manifest records its baseline;
  `hasAcceptedWriteOnlyBaseline` (`drift.ts:257`) accepts one that is unchanged
  whatever the manifest says, and a changed one whose new `updatedAt` the manifest
  has.

## 6. Not modelled

* Provider webhook decoding (signatures, schemas, filters): one pure decision
  for each request; it appears as the refusals of `ChannelInbound`.
* The plain commands of the Upstash store, and `clear`, `size` and the scans
  behind them, which only a probe script calls.
* What others do between the first and the repeated run of a request that the Redis
  client sends again: the model has both runs in one step.
* A row that a deploy records between the two readings of the state in one drift
  report.
* The profile cipher and its key rotation: cryptography.
* The mapping of requests to Codex, the proof-only `postResponses`, the proxy's
  health route: pure, or without state.
* Deployments, domains and Photon resources of the stable infrastructure: they
  are only observed; and the storage of Alchemy's state in R2.
* Photon's shared user and the read-only inventory of candidates.
* Fingerprints of reports and receipts, schemas, console output.
* The Preview Vercel configuration spike: a finished trial on one disposable
  variable, run by hand; its provider observes, writes and reads back as that of
  the stable environment does.
* Lint rules and repository tooling: no state of the running system.
* Presence (typing indicators): it keeps no state, and is modelled only where
  its failure gates the settlement of a session.

## 7. Plan

What could come next:

* the reconciliation of Photon's shared user;
* several managed variables bound to one source, with deployments that read them.
