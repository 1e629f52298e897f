----------------------------- MODULE CodexRefresh -----------------------------
(***************************************************************************)
(* The credential of one Codex subject, used and refreshed by concurrent   *)
(* requests and replaced by a trusted login.                               *)
(* Source: packages/codex/src/auth/service.ts, auth/refresh-client.ts,     *)
(* auth/login.ts, profiles/refresh-lock.ts, storage/atomic.ts and, for the *)
(* request that meets a 401, provider/direct.ts.                           *)
(*                                                                         *)
(* A request interleaves with the others at every call to the store and to *)
(* the OAuth provider.  A fault is a store call that fails, whether or not *)
(* it was applied; an answer of the provider that is lost or unusable; a   *)
(* dead process.                                                           *)
(***************************************************************************)
EXTENDS CodexProfileCommit, AtomicStoreClient, FiniteSets

CONSTANTS
  Caller,       \* requests that need a credential
  Login,        \* trusted logins
  Lifetime,     \* of an access token
  Skew,         \* refreshPolicy.refreshSkewMillis
  MaxRejected   \* bound on the requests that meet a 401

ASSUME RefreshAssumption ==
  /\ Lifetime \in Nat \ {0}
  /\ Skew \in Nat
  /\ MaxRejected \in Nat
  /\ MaxFaults \in Nat
  /\ Nil \notin Nat

VARIABLES
  life,       \* what is left of the stored access token
  caller,     \* where each request is
  timer,      \* what is left of its lease, or of its wait for a winner
  ask,        \* its refresh request, and the profile that request began from
  login,      \* where each login is
  provider,   \* the refresh tokens the provider has issued and still takes
  outlasted   \* a lease has run out under its holder

vars == <<db, faults, life, caller, timer, ask, login, provider, outlasted>>

-----------------------------------------------------------------------------

Key == {ProfileKey, RevisionKey, LockKey}

(* Under the lock, from its acquisition to its release.                    *)
Locked == {"locked", "refreshing", "commit", "mark", "reread", "release", "unlock"}

Point == Locked \cup {"idle", "read", "acquire", "wait", "done", "dead"}

ProfileType == [kind : {"subscription"}, revision : Nat, refreshToken : Nat,
                requiresReauthentication : BOOLEAN]

(* No value, told from every profile and from every owner of the lock.     *)
ASSUME NilAssumption ==
  Nil \notin ProfileType /\ Nil \notin Caller \X (Nat \cup {Nil})

NoAsk == [status |-> "none", base |-> Nil, refreshToken |-> Nil]

TypeOK ==
  /\ DOMAIN db = Key
  /\ db[ProfileKey] \in [value : ProfileType \cup {Nil}, ttl : {Nil}]
  /\ db[RevisionKey] \in [value : Nat \cup {Nil}, ttl : {Nil}]
  /\ \/ db[LockKey] = Gone
     \/ db[LockKey] \in [value : Caller \X (Nat \cup {Nil}), ttl : 1..LockTtl]
  /\ life \in 0..Lifetime
  /\ caller \in [Caller -> [pc : Point,
                            rejected : Nat \cup {Nil},
                            credential : Nat \cup {Nil}]]
  /\ timer \in [Caller -> 0..LockTtl]
  /\ ask \in [Caller -> [status : {"none", "inflight", "granted", "denied"},
                         base : ProfileType \cup {Nil},
                         refreshToken : Nat \cup {Nil}]]
  /\ login \in [Login -> [pc : {"idle", "exchange", "commit", "stored", "failed"},
                          base : ProfileType \cup {Nil},
                          refreshToken : Nat \cup {Nil}]]
  /\ provider \in [issued : Nat, valid : SUBSET Nat, revoked : BOOLEAN]
  /\ faults \in 0..MaxFaults
  /\ outlasted \in BOOLEAN

(* Before any login, or with one profile stored.                           *)
Init ==
  /\ \E profile \in {Nil, Profile(1, 1, FALSE)} :
       db = [k \in Key |->
               CASE k = ProfileKey -> Put(profile, Nil)
                 [] k = RevisionKey -> Put(IF profile = Nil THEN Nil ELSE 1, Nil)
                 [] k = LockKey -> Gone]
  /\ faults = 0 /\ outlasted = FALSE
  /\ life = Lifetime
  /\ caller = [c \in Caller |-> [pc |-> "idle", rejected |-> Nil, credential |-> Nil]]
  /\ timer = [c \in Caller |-> 0]
  /\ ask = [c \in Caller |-> NoAsk]
  /\ login = [l \in Login |-> [pc |-> "idle", base |-> Nil, refreshToken |-> Nil]]
  /\ provider = [issued |-> 1, valid |-> {1}, revoked |-> FALSE]

-----------------------------------------------------------------------------
(* Reading and writing the profile.                                        *)

stored == Read(db, ProfileKey)

(* requireSubscriptionProfile.                                             *)
Subscribed == stored # Nil /\ ~stored.requiresReauthentication

Unexpired == life > 0

BeyondSkew == life > Skew

(* Revisions are random and never repeat; numbering them in the order in   *)
(* which they reach the store tells the same ones apart.                   *)
NextRevision == IF stored = Nil THEN 1 ELSE stored.revision + 1

(* A commit of new tokens; their access token may have aged on its way.    *)
CommitTokens(txn, result) ==
  /\ Transact(txn, result)
  /\ IF db' = db THEN UNCHANGED life ELSE life' \in 0..Lifetime

-----------------------------------------------------------------------------
(* A request.  It is over at "done", with a credential, named by its       *)
(* revision, or with a typed failure and none.                             *)

At(c, point) == caller[c].pc = point

Go(c, point) == caller' = [caller EXCEPT ![c].pc = point]

Use(c, point) ==
  caller' = [caller EXCEPT ![c].pc = point, ![c].credential = stored.revision]

(* The lease, or the wait, counts from here; or it no longer matters.      *)
Start(c) == timer' = [timer EXCEPT ![c] = LockTtl]

Stop(c) == timer' = [timer EXCEPT ![c] = 0]

Forget(c) == ask' = [ask EXCEPT ![c] = NoAsk]

(* requireSubscriptionProfile fails: the store does, or the profile is not *)
(* one that may be used.                                                   *)
Unreadable == Fault \/ (~Subscribed /\ UNCHANGED faults)

Readable == Subscribed /\ UNCHANGED faults

GetValidCredential(c) ==
  /\ At(c, "idle")
  /\ Go(c, "read")
  /\ UNCHANGED <<db, faults, life, timer, ask, login, provider, outlasted>>

RefreshAccessToken(c) ==
  /\ At(c, "idle")
  /\ Go(c, "acquire")
  /\ Start(c)
  /\ UNCHANGED <<db, faults, life, ask, login, provider, outlasted>>

ReadCredential(c) ==
  /\ At(c, "read")
  /\ \/ Unreadable /\ Go(c, "done") /\ UNCHANGED timer
     \/ Readable /\ BeyondSkew /\ Use(c, "done") /\ UNCHANGED timer
     \/ Readable /\ ~BeyondSkew /\ Go(c, "acquire") /\ Start(c)
  /\ UNCHANGED <<db, life, ask, login, provider, outlasted>>

(* The upstream answers 401 to the credential: recoverAfterUnauthorized    *)
(* with the rejected revision, once.                                       *)
RecoverAfterUnauthorized(c) ==
  /\ At(c, "done")
  /\ caller[c].credential # Nil
  /\ caller[c].rejected = Nil
  /\ Cardinality({d \in Caller : caller[d].rejected # Nil}) < MaxRejected
  /\ caller' = [caller EXCEPT ![c] = [pc |-> "acquire", credential |-> Nil,
                                      rejected |-> caller[c].credential]]
  /\ Start(c)
  /\ UNCHANGED <<db, faults, life, ask, login, provider, outlasted>>

(* The owner of a lease is random: another one for each acquisition.       *)
Owner(c) == <<c, caller[c].rejected>>

AcquireRefreshLock(c) ==
  /\ At(c, "acquire")
  /\ \E result \in Result :
       /\ Transact(Acquire(Owner(c)), result)
       /\ \/ result = "applied"  /\ Go(c, "locked") /\ UNCHANGED timer
          \/ result = "conflict" /\ Go(c, "wait") /\ Start(c)
          \/ result = "error"    /\ Go(c, "done") /\ Stop(c)
  /\ UNCHANGED <<life, ask, login, provider, outlasted>>

(* Mutant of AwaitWinner: it has no deadline.                              *)
AwaitWinnerForEver(c) ==
  /\ At(c, "wait")
  /\ \/ Unreadable /\ Go(c, "done")
     \/ Readable /\ Unexpired /\ Use(c, "done")
  /\ Stop(c)
  /\ UNCHANGED <<db, life, ask, login, provider, outlasted>>

(* awaitContendedRefreshWinner: polls until a profile has not expired, or  *)
(* until the deadline.  A poll that finds neither sleeps on.               *)
AwaitWinner(c) ==
  /\ At(c, "wait")
  /\ \/ Unreadable /\ Go(c, "done")
     \/ Readable /\ Unexpired /\ Use(c, "done")
     \/ Readable /\ ~Unexpired /\ timer[c] = 0 /\ Go(c, "done")
  /\ Stop(c)
  /\ UNCHANGED <<db, life, ask, login, provider, outlasted>>

(* Under the lock: a winner's credential, or the exchange of the stored    *)
(* refresh token.                                                          *)
WinnerFound(c) ==
  IF caller[c].rejected = Nil
  THEN BeyondSkew
  ELSE stored.revision # caller[c].rejected /\ Unexpired

ReadUnderLock(c) ==
  /\ At(c, "locked")
  /\ \/ Unreadable /\ Go(c, "release") /\ UNCHANGED ask
     \/ Readable /\ WinnerFound(c) /\ Use(c, "release") /\ UNCHANGED ask
     \/ /\ Readable
        /\ ~WinnerFound(c)
        /\ Go(c, "refreshing")
        /\ ask' = [ask EXCEPT ![c] = [status |-> "inflight", base |-> stored,
                                      refreshToken |-> stored.refreshToken]]
  /\ UNCHANGED <<db, life, timer, login, provider, outlasted>>

(* The provider's answer: tokens or a permanent refusal; or an answer that *)
(* does not arrive, asks to try later, or cannot be used.                  *)
RefreshAnswered(c) ==
  /\ At(c, "refreshing")
  /\ \/ ask[c].status = "granted" /\ Go(c, "commit")
     \/ ask[c].status = "denied"  /\ Go(c, "mark")
  /\ UNCHANGED <<db, faults, life, timer, ask, login, provider, outlasted>>

RefreshUnanswered(c) ==
  /\ At(c, "refreshing")
  /\ Fault
  /\ Go(c, "release")
  /\ IF ask[c].status = "inflight" THEN UNCHANGED ask ELSE Forget(c)
  /\ UNCHANGED <<db, life, timer, login, provider, outlasted>>

(* Mutant of CommitRefresh: it keeps the refresh token it has spent.       *)
CommitSpentToken(c) ==
  /\ At(c, "commit")
  /\ \E result \in Result :
       /\ CommitTokens(Commit(ask[c].base.revision,
                              Profile(NextRevision, ask[c].base.refreshToken, FALSE)), result)
       /\ caller' = [caller EXCEPT
                       ![c].pc = IF result = "conflict" THEN "reread" ELSE "release",
                       ![c].credential =
                         IF result = "applied" /\ life' > 0 THEN NextRevision ELSE Nil]
  /\ Forget(c)
  /\ UNCHANGED <<timer, login, provider, outlasted>>

CommitRefresh(c) ==
  /\ At(c, "commit")
  /\ \E result \in Result :
       /\ CommitTokens(Commit(ask[c].base.revision,
                              Profile(NextRevision, ask[c].refreshToken, FALSE)), result)
       /\ caller' = [caller EXCEPT
                       ![c].pc = IF result = "conflict" THEN "reread" ELSE "release",
                       ![c].credential =
                         IF result = "applied" /\ life' > 0 THEN NextRevision ELSE Nil]
  /\ Forget(c)
  /\ UNCHANGED <<timer, login, provider, outlasted>>

(* readRefreshWinner.                                                      *)
ReadRefreshWinner(c) ==
  /\ At(c, "reread")
  /\ \/ Unreadable /\ Go(c, "release")
     \/ Readable /\ Unexpired /\ Use(c, "release")
     \/ Readable /\ ~Unexpired /\ Go(c, "release")
  /\ UNCHANGED <<db, life, timer, ask, login, provider, outlasted>>

(* markReauthenticationRequired: a conflict is as good as a mark.          *)
(* Mutant of MarkReauthenticationRequired: it marks what it finds.         *)
MarkWhatIsStored(c) ==
  /\ At(c, "mark")
  /\ \E result \in Result :
       Transact(Commit(stored.revision,
                       Profile(NextRevision, stored.refreshToken, TRUE)), result)
  /\ Go(c, "release")
  /\ Forget(c)
  /\ UNCHANGED <<life, timer, login, provider, outlasted>>

MarkReauthenticationRequired(c) ==
  /\ At(c, "mark")
  /\ \E result \in Result :
       Transact(Commit(ask[c].base.revision,
                       Profile(NextRevision, ask[c].base.refreshToken, TRUE)), result)
  /\ Go(c, "release")
  /\ Forget(c)
  /\ UNCHANGED <<life, timer, login, provider, outlasted>>

(* The release looks at its lease by the local clock first: one that has   *)
(* expired fails and removes nothing.                                      *)
CheckLease(c) ==
  /\ At(c, "release")
  /\ \/ timer[c] > 0 /\ Go(c, "unlock")
     \/ timer[c] = 0 /\ caller' = [caller EXCEPT ![c].pc = "done", ![c].credential = Nil]
  /\ UNCHANGED <<db, faults, life, timer, ask, login, provider, outlasted>>

(* Then it removes the lock, if it still is this request's; a release that *)
(* fails takes the credential with it.                                     *)
ReleaseRefreshLock(c) ==
  /\ At(c, "unlock")
  /\ \E result \in Result :
       /\ Transact(ReleaseLock(Owner(c)), result)
       /\ caller' = [caller EXCEPT ![c].pc = "done",
                      ![c].credential = IF result = "applied" THEN @ ELSE Nil]
  /\ Stop(c)
  /\ UNCHANGED <<life, ask, login, provider, outlasted>>

Crash(c) ==
  /\ caller[c].pc \notin {"idle", "done", "dead"}
  /\ Fault
  /\ caller' = [caller EXCEPT ![c].pc = "dead", ![c].credential = Nil]
  /\ Stop(c)
  /\ IF ask[c].status = "inflight" THEN UNCHANGED ask ELSE Forget(c)
  /\ UNCHANGED <<db, life, login, provider, outlasted>>

-----------------------------------------------------------------------------
(* The OAuth provider, as the service uses it.                             *)

(* It exchanges a refresh token it still takes, for itself or for the next *)
(* one, also when nobody waits for the answer any more.                    *)
ExchangeRefreshToken(c) ==
  /\ ask[c].status = "inflight"
  /\ ask[c].refreshToken \in provider.valid
  /\ \E token \in {ask[c].refreshToken, provider.issued + 1} :
       /\ provider' = [provider EXCEPT
                         !.issued = IF token > @ THEN token ELSE @,
                         !.valid = (@ \ {ask[c].refreshToken}) \cup {token}]
       /\ ask' = [ask EXCEPT ![c] =
                    IF At(c, "refreshing")
                    THEN [@ EXCEPT !.status = "granted", !.refreshToken = token]
                    ELSE NoAsk]
  /\ UNCHANGED <<db, faults, life, caller, timer, login, outlasted>>

RefuseRefreshToken(c) ==
  /\ ask[c].status = "inflight"
  /\ ask[c].refreshToken \notin provider.valid
  /\ ask' = [ask EXCEPT ![c] = IF At(c, "refreshing")
                               THEN [@ EXCEPT !.status = "denied"] ELSE NoAsk]
  /\ UNCHANGED <<db, faults, life, caller, timer, login, provider, outlasted>>

RevokeGrants ==
  /\ ~provider.revoked
  /\ provider' = [provider EXCEPT !.valid = {}, !.revoked = TRUE]
  /\ UNCHANGED <<db, faults, life, caller, timer, ask, login, outlasted>>

-----------------------------------------------------------------------------
(* A trusted login: it reads the stored profile, sends its operator        *)
(* through the browser, and commits against what it read.                  *)

LoginStarts(l) ==
  /\ login[l].pc = "idle"
  /\ login' = [login EXCEPT ![l].pc = "exchange", ![l].base = stored]
  /\ UNCHANGED <<db, faults, life, caller, timer, ask, provider, outlasted>>

ExchangeAuthorizationCode(l) ==
  /\ login[l].pc = "exchange"
  /\ login' = [login EXCEPT ![l].pc = "commit", ![l].refreshToken = provider.issued + 1]
  /\ provider' = [provider EXCEPT !.issued = @ + 1, !.valid = @ \cup {provider.issued + 1}]
  /\ UNCHANGED <<db, faults, life, caller, timer, ask, outlasted>>

LoginFails(l) ==
  /\ login[l].pc \in {"exchange", "commit"}
  /\ Fault
  /\ login' = [login EXCEPT ![l] = [pc |-> "failed", base |-> Nil, refreshToken |-> Nil]]
  /\ UNCHANGED <<db, life, caller, timer, ask, provider, outlasted>>

LoginCommits(l) ==
  /\ login[l].pc = "commit"
  /\ LET profile == Profile(NextRevision, login[l].refreshToken, FALSE)
         txn == IF login[l].base = Nil THEN InitialWrite(profile)
                                       ELSE Commit(login[l].base.revision, profile)
     IN  \E result \in Result :
           /\ CommitTokens(txn, result)
           /\ login' = [login EXCEPT ![l] =
                          [pc |-> IF result = "applied" THEN "stored" ELSE "failed",
                           base |-> Nil, refreshToken |-> Nil]]
  /\ UNCHANGED <<caller, timer, ask, provider, outlasted>>

-----------------------------------------------------------------------------

(* Time passes, and a lease may run out under its holder.                  *)
Early == \E c \in Caller : caller[c].pc \in Locked \cup {"acquire"} /\ timer[c] = 1

Less(n) == IF n = 0 THEN 0 ELSE n - 1

Tick ==
  /\ db' = Aged(db)
  /\ timer' = [c \in Caller |-> Less(timer[c])]
  /\ life' = Less(life)
  /\ outlasted' = (outlasted \/ Early)
  /\ UNCHANGED <<faults, caller, ask, login, provider>>

Advance(c) ==
  \/ ReadCredential(c) \/ AcquireRefreshLock(c) \/ AwaitWinner(c)
  \/ ReadUnderLock(c)
  \/ RefreshAnswered(c) \/ RefreshUnanswered(c)
  \/ CommitRefresh(c) \/ ReadRefreshWinner(c) \/ MarkReauthenticationRequired(c)
  \/ CheckLease(c) \/ ReleaseRefreshLock(c)

Answer(c) == ExchangeRefreshToken(c) \/ RefuseRefreshToken(c)

Next ==
  \/ \E c \in Caller :
       \/ GetValidCredential(c) \/ RefreshAccessToken(c)
       \/ RecoverAfterUnauthorized(c)
       \/ Advance(c)
       \/ Answer(c)
       \/ Crash(c)
  \/ RevokeGrants
  \/ \E l \in Login :
       LoginStarts(l) \/ ExchangeAuthorizationCode(l) \/ LoginFails(l) \/ LoginCommits(l)
  \/ Tick

Spec == Init /\ [][Next]_vars

(* The runtime keeps running a request, the provider or the HTTP timeout   *)
(* behind it answers, and the clock moves.                                 *)
FairSpec ==
  /\ Spec
  /\ \A c \in Caller : WF_vars(Advance(c)) /\ WF_vars(Answer(c))
  /\ WF_vars(Tick)

-----------------------------------------------------------------------------
(* Properties.                                                             *)

(* The revision that commits compare is always the one of the profile they *)
(* replace, whoever wrote last and whatever failed in between (the two     *)
(* mutations of transactProfileCommit).                                    *)
RevisionFencesProfile ==
  Read(db, RevisionKey) = IF stored = Nil THEN Nil ELSE stored.revision

(* A profile is marked only by a request whose own refresh token, the one  *)
(* the profile holds, was refused: a late failure never marks a newer      *)
(* login or refresh (markReauthenticationRequired).                        *)
MarksHitTheDeniedProfile ==
  [][/\ stored # Nil /\ ~stored.requiresReauthentication
     /\ stored'.requiresReauthentication
     => \E c \in Caller :
          /\ ask[c].status = "denied"
          /\ ask[c].base = stored
          /\ ask[c].refreshToken = stored.refreshToken]_vars

(* The logins as writers of the register.                                  *)
LoginDraft ==
  [l \in Login |->
     CASE login[l].pc = "exchange" -> [status |-> "inflight", base |-> login[l].base,
                                       refreshToken |-> Nil]
       [] login[l].pc = "commit"   -> [status |-> "granted", base |-> login[l].base,
                                       refreshToken |-> login[l].refreshToken]
       [] OTHER                    -> NoAsk]

Register == INSTANCE CredentialRegister
              WITH Renewal <- Caller, profile <- stored, renewal <- ask,
                   login <- LoginDraft, issued <- provider.issued

(* The stored credential is replaced, or marked, only by a request or a    *)
(* login that read that very profile and with what the provider made of    *)
(* it: the compared revision is as good as a comparison of the profiles,   *)
(* however the lock lapses, whatever fails and whoever is late             *)
(* (transactProfileCommit of storage/atomic.ts).                           *)
KeepsRegister == Register!Spec

(* Nobody removes the lock of another request, even when its own lease has *)
(* run out between the look at it and the removal (the owner of the lease, *)
(* compared by release).                                                   *)
OnlyOwnersRelease ==
  [][db[LockKey] # Gone /\ db'[LockKey] = Gone =>
       \/ Tick /\ db[LockKey].ttl = 1
       \/ \E c \in Caller : At(c, "unlock") /\ db[LockKey].value = Owner(c)]_vars

(* Until a refresh outlasts its lease, one request at most is under the    *)
(* lock.                                                                   *)
ExclusiveRefresh ==
  ~outlasted => \A c, d \in Caller : caller[c].pc \in Locked /\ caller[d].pc \in Locked => c = d

(* Until a refresh outlasts its lease or something fails, the stored       *)
(* refresh token is one the provider still takes, or its successor is on   *)
(* its way to the store: rotation never loses the only valid token, and no *)
(* profile is marked unless its grant was revoked.                         *)
LiveGrantIsStored ==
  stored # Nil /\ ~outlasted /\ faults = 0 /\ ~provider.revoked =>
    /\ ~stored.requiresReauthentication
    /\ \/ stored.refreshToken \in provider.valid
       \/ \E c \in Caller : /\ caller[c].pc \in {"refreshing", "commit"}
                            /\ ask[c].base = stored
                            /\ ask[c].status = "granted"
                            /\ ask[c].refreshToken \in provider.valid

(* Every call of the service returns: a contended one waits no longer than *)
(* a lease, and a lock left by a dead request goes with its lease          *)
(* (awaitContendedRefreshWinner).                                          *)
EveryCallReturns ==
  \A c \in Caller : caller[c].pc # "idle" ~> caller[c].pc \in {"done", "dead"}

(* docs/product-specs/codex-hosted-live-oauth-storage.md:434-437:          *)
(* recoverAfterUnauthorized "uses the winner if the revision changed, or   *)
(* forces a refresh regardless of JWT expiry when the rejected revision is *)
(* still current": it never answers with the rejected credential.          *)
RecoveryChangesCredential ==
  \A c \in Caller :
    caller[c].rejected # Nil => caller[c].credential # caller[c].rejected

=============================================================================
