------------------------- MODULE CodexRefresh_proofs -------------------------
(***************************************************************************)
(* Proofs about CodexRefresh, for any number of requests, logins, faults   *)
(* and rejections, and any lifetimes of locks and tokens.                  *)
(***************************************************************************)
EXTENDS CodexRefresh, TLAPS

(* Whatever a transaction answers, the store is as it was, or all of the   *)
(* conditions held and all of the mutations were written; an answer        *)
(* "applied" means the latter, any other one may hide either (transact of  *)
(* upstash-layer.internal.ts).                                             *)
LEMMA TransactionIsAtomic ==
  ASSUME NEW txn, NEW result, Transact(txn, result)
  PROVE  /\ db' = db \/ (Holds(db, txn) /\ db' = Written(db, txn))
         /\ result = "applied"  => Holds(db, txn) /\ db' = Written(db, txn)
BY DEF Transact, Outcome, Transacted

(* What a transaction leaves under one key.                                *)
LEMMA WrittenAt ==
  ASSUME NEW txn, NEW key \in DOMAIN db
  PROVE  Written(db, txn)[key] =
           IF key \in DOMAIN txn.mutations THEN txn.mutations[key] ELSE db[key]
BY DEF Written

(* What a request has asked the provider for began from a profile of the   *)
(* store; as long as its revision is the stored one, it is the stored one. *)
(* It commits only what was granted, and marks only what was denied.       *)
Based(c) ==
  /\ ask[c].status # "none" =>
       /\ ask[c].base \in ProfileType
       /\ ask[c].refreshToken \in Nat
       /\ stored # Nil
       /\ ask[c].base.revision <= stored.revision
       /\ ask[c].base.revision = stored.revision => ask[c].base = stored
  /\ ask[c].status \in {"inflight", "denied"} =>
       ask[c].refreshToken = ask[c].base.refreshToken
  /\ At(c, "commit") => ask[c].status = "granted"
  /\ At(c, "mark") => ask[c].status = "denied"

(* A login that commits has tokens.                                        *)
Granted(l) == login[l].pc = "commit" => login[l].refreshToken \in Nat

(* Until a lease has run out under its holder, a request under the lock    *)
(* has time left, and the lock is in the store, its own, for that long.    *)
Leased(c) ==
  ~outlasted =>
    /\ caller[c].pc \in Locked \cup {"acquire"} => timer[c] > 0
    /\ caller[c].pc \in Locked =>
         /\ db[LockKey] # Gone
         /\ db[LockKey].value = Owner(c)
         /\ timer[c] <= db[LockKey].ttl

Inv ==
  /\ TypeOK
  /\ RevisionFencesProfile
  /\ \A c \in Caller : Based(c) /\ Leased(c)
  /\ \A l \in Login : Granted(l)

LEMMA KeysAreDistinct ==
  ProfileKey # RevisionKey /\ ProfileKey # LockKey /\ RevisionKey # LockKey
BY DEF ProfileKey, RevisionKey, LockKey

LEMMA NilIsNeither ==
  /\ Nil \notin Nat
  /\ Nil \notin ProfileType
  /\ Nil \notin Caller \X (Nat \cup {Nil})
BY RefreshAssumption, NilAssumption

LEMMA Initially == Init => Inv
<1> SUFFICES ASSUME Init PROVE Inv
  OBVIOUS
<1>1. PICK profile \in {Nil, Profile(1, 1, FALSE)} :
        db = [k \in Key |->
               CASE k = ProfileKey -> Put(profile, Nil)
                 [] k = RevisionKey -> Put(IF profile = Nil THEN Nil ELSE 1, Nil)
                 [] k = LockKey -> Gone]
  BY DEF Init
<1>2. /\ DOMAIN db = Key
      /\ db[ProfileKey] = Put(profile, Nil)
      /\ db[RevisionKey] = Put(IF profile = Nil THEN Nil ELSE 1, Nil)
      /\ db[LockKey] = Gone
  BY <1>1, KeysAreDistinct DEF Key
<1>3. profile \in ProfileType \cup {Nil} /\ (profile # Nil => profile.revision = 1)
  <2>1. Profile(1, 1, FALSE) \in ProfileType /\ Profile(1, 1, FALSE).revision = 1
    BY DEF ProfileType, Profile
  <2> QED
    BY <2>1
<1>4. TypeOK
  <2>1. /\ db[ProfileKey] \in [value : ProfileType \cup {Nil}, ttl : {Nil}]
        /\ db[RevisionKey] \in [value : Nat \cup {Nil}, ttl : {Nil}]
    BY <1>2, <1>3 DEF Put
  <2>2. /\ life \in 0..Lifetime
        /\ timer \in [Caller -> 0..LockTtl]
        /\ faults \in 0..MaxFaults
        /\ outlasted \in BOOLEAN
    <3>1. Lifetime \in 0..Lifetime /\ 0 \in 0..LockTtl /\ 0 \in 0..MaxFaults
      BY RefreshAssumption, LockTtlAssumption
    <3> QED
      BY <3>1 DEF Init
  <2>4. provider \in [issued : Nat, valid : SUBSET Nat, revoked : BOOLEAN]
    <3>1. {1} \in SUBSET Nat
      OBVIOUS
    <3> QED
      BY <3>1 DEF Init
  <2>3. /\ caller \in [Caller -> [pc : Point, rejected : Nat \cup {Nil},
                                  credential : Nat \cup {Nil}]]
        /\ ask \in [Caller -> [status : {"none", "inflight", "granted", "denied"},
                               base : ProfileType \cup {Nil},
                               refreshToken : Nat \cup {Nil}]]
        /\ login \in [Login -> [pc : {"idle", "exchange", "commit", "stored", "failed"},
                                base : ProfileType \cup {Nil},
                                refreshToken : Nat \cup {Nil}]]
    BY DEF Init, NoAsk, Point
  <2> QED
    BY <1>2, <2>1, <2>2, <2>3, <2>4 DEF TypeOK
<1>5. RevisionFencesProfile
  BY <1>2, <1>3, NilIsNeither DEF RevisionFencesProfile, stored, Read, Put
<1>6. ASSUME NEW c \in Caller
      PROVE  Based(c) /\ Leased(c)
  BY <1>6 DEF Init, NoAsk, Based, Leased, At, Locked
<1>7. ASSUME NEW l \in Login
      PROVE  Granted(l)
  BY <1>7 DEF Init, Granted
<1> QED
  BY <1>4, <1>5, <1>6, <1>7 DEF Inv

-----------------------------------------------------------------------------
(* The store.                                                              *)

(* A commit: profile and revision change together, the lock stays.         *)
Saves(profile) ==
  /\ profile \in ProfileType
  /\ profile.revision = NextRevision
  /\ DOMAIN db' = Key
  /\ db'[ProfileKey] = Put(profile, Nil)
  /\ db'[RevisionKey] = Put(profile.revision, Nil)
  /\ db'[LockKey] = db[LockKey]

(* The lock changes, the profile stays.                                    *)
Locks(entry) ==
  /\ DOMAIN db' = Key
  /\ db'[ProfileKey] = db[ProfileKey]
  /\ db'[RevisionKey] = db[RevisionKey]
  /\ db'[LockKey] = entry

LEMMA CommitsSave ==
  ASSUME TypeOK, NEW txn, NEW profile \in ProfileType,
         profile.revision = NextRevision,
         txn.mutations = Stored(profile),
         db' = Written(db, txn)
  PROVE  Saves(profile)
<1>1. DOMAIN txn.mutations = {ProfileKey, RevisionKey}
  BY DEF Stored
<1>2. DOMAIN db = Key
  BY DEF TypeOK
<1> QED
  BY <1>1, <1>2, WrittenAt, KeysAreDistinct DEF Saves, Stored, Key, Written

LEMMA LocksLock ==
  ASSUME TypeOK, NEW entry, NEW txn,
         txn.mutations = [k \in {LockKey} |-> entry],
         db' = Written(db, txn)
  PROVE  Locks(entry)
<1>1. DOMAIN db = Key
  BY DEF TypeOK
<1> QED
  BY <1>1, WrittenAt, KeysAreDistinct DEF Locks, Key, Written

LEMMA TypesOfTheStore ==
  ASSUME TypeOK
  PROVE  /\ stored \in ProfileType \cup {Nil}
         /\ Read(db, RevisionKey) \in Nat \cup {Nil}
         /\ NextRevision \in Nat \ {0}
         /\ stored # Nil => stored \in ProfileType /\ stored.revision \in Nat
                            /\ stored.refreshToken \in Nat
                            /\ NextRevision = stored.revision + 1
<1>1. /\ db[ProfileKey] \in [value : ProfileType \cup {Nil}, ttl : {Nil}]
      /\ db[RevisionKey] \in [value : Nat \cup {Nil}, ttl : {Nil}]
  BY DEF TypeOK
<1>2. stored \in ProfileType \cup {Nil} /\ Read(db, RevisionKey) \in Nat \cup {Nil}
  BY <1>1 DEF stored, Read
<1>3. ASSUME stored # Nil
      PROVE  stored \in ProfileType /\ stored.revision \in Nat /\ stored.refreshToken \in Nat
  BY <1>2, <1>3 DEF ProfileType
<1> QED
  BY <1>2, <1>3 DEF NextRevision

(* What a step does to the store: nothing, an ageing, a lock taken where   *)
(* there is none, a lock removed by its owner, or a commit.  Only a commit *)
(* after a denial marks, and it marks the profile the denial was about.    *)
Marks(c) ==
  /\ ask[c].status = "denied"
  /\ ask[c].base = stored
  /\ ask[c].refreshToken = stored.refreshToken

StoreStep ==
  \/ UNCHANGED db
  \/ Tick
  \/ \E c \in Caller :
       /\ At(c, "acquire")
       /\ Read(db, LockKey) = Nil
       /\ caller'[c].pc \in {"locked", "wait", "done"}
       /\ Locks(Put(Owner(c), LockTtl))
  \/ \E c \in Caller :
       /\ At(c, "unlock")
       /\ Read(db, LockKey) = Owner(c)
       /\ caller'[c].pc = "done"
       /\ Locks(Gone)
  \/ \E profile \in ProfileType :
       /\ Saves(profile)
       /\ profile.requiresReauthentication => \E c \in Caller : Marks(c)

LEMMA StepsOfTheStore ==
  ASSUME Inv, [Next]_vars
  PROVE  StoreStep
<1>1. /\ TypeOK /\ RevisionFencesProfile
      /\ \A c \in Caller : Based(c)
      /\ \A l \in Login : Granted(l)
  BY DEF Inv
<1>2. ASSUME NEW c \in Caller, AcquireRefreshLock(c)
      PROVE  StoreStep
  <2>1. PICK result \in Result : Transact(Acquire(Owner(c)), result)
    BY <1>2 DEF AcquireRefreshLock
  <2>2. CASE db' = db
    BY <2>2 DEF StoreStep
  <2>3. CASE Holds(db, Acquire(Owner(c))) /\ db' = Written(db, Acquire(Owner(c)))
    <3>1. Locks(Put(Owner(c), LockTtl))
      BY <1>1, <2>3, LocksLock DEF Acquire, Transaction
    <3>2. Read(db, LockKey) = Nil
      BY <2>3 DEF Holds, Acquire, Transaction
    <3>3. caller'[c].pc \in {"locked", "wait", "done"}
      BY <1>1, <1>2 DEF AcquireRefreshLock, Go, TypeOK
    <3> QED
      BY <1>2, <3>1, <3>2, <3>3 DEF StoreStep, AcquireRefreshLock
  <2> QED
    BY <2>1, <2>2, <2>3, TransactionIsAtomic
<1>3. ASSUME NEW c \in Caller, ReleaseRefreshLock(c)
      PROVE  StoreStep
  <2>1. PICK result \in Result : Transact(ReleaseLock(Owner(c)), result)
    BY <1>3 DEF ReleaseRefreshLock
  <2>2. CASE db' = db
    BY <2>2 DEF StoreStep
  <2>3. CASE Holds(db, ReleaseLock(Owner(c))) /\ db' = Written(db, ReleaseLock(Owner(c)))
    <3>1. Locks(Gone)
      BY <1>1, <2>3, LocksLock DEF ReleaseLock, Transaction
    <3>2. Read(db, LockKey) = Owner(c)
      BY <2>3 DEF Holds, ReleaseLock, Transaction
    <3>3. caller'[c].pc = "done"
      BY <1>1, <1>3 DEF ReleaseRefreshLock, TypeOK
    <3> QED
      BY <1>3, <3>1, <3>2, <3>3 DEF StoreStep, ReleaseRefreshLock
  <2> QED
    BY <2>1, <2>2, <2>3, TransactionIsAtomic
<1>4. ASSUME NEW profile \in ProfileType, NEW txn, NEW result, Transact(txn, result),
             profile.revision = NextRevision,
             txn.mutations = Stored(profile),
             Holds(db, txn) /\ profile.requiresReauthentication =>
               \E c \in Caller : Marks(c)
      PROVE  StoreStep
  <2>1. CASE db' = db
    BY <2>1 DEF StoreStep
  <2>2. CASE Holds(db, txn) /\ db' = Written(db, txn)
    BY <1>1, <1>4, <2>2, CommitsSave DEF StoreStep
  <2> QED
    BY <1>4, <2>1, <2>2, TransactionIsAtomic
<1>5. ASSUME NEW token \in Nat, NEW mark \in BOOLEAN
      PROVE  /\ Profile(NextRevision, token, mark) \in ProfileType
             /\ Profile(NextRevision, token, mark).revision = NextRevision
             /\ Profile(NextRevision, token, mark).requiresReauthentication = mark
  BY <1>1, TypesOfTheStore DEF Profile, ProfileType
<1>6. ASSUME NEW revision, NEW profile
      PROVE  /\ Commit(revision, profile).mutations = Stored(profile)
             /\ InitialWrite(profile).mutations = Stored(profile)
  BY DEF Commit, InitialWrite, Transaction
<1>7. ASSUME NEW c \in Caller, CommitRefresh(c)
      PROVE  StoreStep
  <2> DEFINE profile == Profile(NextRevision, ask[c].refreshToken, FALSE)
  <2>1. ask[c].refreshToken \in Nat
    BY <1>1, <1>7 DEF CommitRefresh, Based
  <2>2. PICK result \in Result : Transact(Commit(ask[c].base.revision, profile), result)
    BY <1>7 DEF CommitRefresh, CommitTokens
  <2>3. /\ profile \in ProfileType
        /\ profile.revision = NextRevision
        /\ ~profile.requiresReauthentication
    BY <1>5, <2>1
  <2> HIDE DEF profile
  <2> QED
    BY <1>4, <1>6, <2>2, <2>3
<1>8. ASSUME NEW c \in Caller, MarkReauthenticationRequired(c)
      PROVE  StoreStep
  <2> DEFINE profile == Profile(NextRevision, ask[c].base.refreshToken, TRUE)
             txn == Commit(ask[c].base.revision, profile)
  <2>1. /\ ask[c].status = "denied"
        /\ ask[c].base \in ProfileType
        /\ ask[c].refreshToken = ask[c].base.refreshToken
        /\ stored # Nil
        /\ ask[c].base.revision = stored.revision => ask[c].base = stored
    BY <1>1, <1>8 DEF MarkReauthenticationRequired, Based
  <2>2. PICK result \in Result : Transact(txn, result)
    BY <1>8 DEF MarkReauthenticationRequired
  <2>3. profile \in ProfileType /\ profile.revision = NextRevision
    BY <1>5, <2>1 DEF ProfileType
  <2>4. Holds(db, txn) => Marks(c)
    <3>1. SUFFICES ASSUME Holds(db, txn) PROVE Marks(c)
      OBVIOUS
    <3>2. Read(db, RevisionKey) = ask[c].base.revision
      BY <3>1 DEF Holds, Commit, Transaction
    <3> QED
      BY <1>1, <2>1, <3>2 DEF RevisionFencesProfile, Marks
  <2>5. txn.mutations = Stored(profile)
    BY <1>6
  <2> HIDE DEF profile, txn
  <2> QED
    BY <1>4, <2>2, <2>3, <2>4, <2>5
<1>9. ASSUME NEW l \in Login, LoginCommits(l)
      PROVE  StoreStep
  <2> DEFINE profile == Profile(NextRevision, login[l].refreshToken, FALSE)
             txn == IF login[l].base = Nil THEN InitialWrite(profile)
                    ELSE Commit(login[l].base.revision, profile)
  <2>1. login[l].refreshToken \in Nat
    BY <1>1, <1>9 DEF LoginCommits, Granted
  <2>2. PICK result \in Result : Transact(txn, result)
    BY <1>9 DEF LoginCommits, CommitTokens
  <2>3. /\ profile \in ProfileType
        /\ profile.revision = NextRevision
        /\ ~profile.requiresReauthentication
    BY <1>5, <2>1
  <2>4. txn.mutations = Stored(profile)
    BY <1>6
  <2> HIDE DEF profile, txn
  <2> QED
    BY <1>4, <2>2, <2>3, <2>4
<1>10. ASSUME NEW c \in Caller,
              \/ GetValidCredential(c) \/ RefreshAccessToken(c)
              \/ RecoverAfterUnauthorized(c) \/ ReadCredential(c) \/ AwaitWinner(c)
              \/ ReadUnderLock(c) \/ RefreshAnswered(c) \/ RefreshUnanswered(c)
              \/ ReadRefreshWinner(c) \/ CheckLease(c) \/ Answer(c) \/ Crash(c)
       PROVE  UNCHANGED db
  BY <1>10 DEF GetValidCredential, RefreshAccessToken, RecoverAfterUnauthorized,
       ReadCredential, AwaitWinner, ReadUnderLock, RefreshAnswered, RefreshUnanswered,
       ReadRefreshWinner, CheckLease, Answer, ExchangeRefreshToken, RefuseRefreshToken,
       Crash
<1>11. ASSUME NEW l \in Login,
              LoginStarts(l) \/ ExchangeAuthorizationCode(l) \/ LoginFails(l)
       PROVE  UNCHANGED db
  BY <1>11 DEF LoginStarts, ExchangeAuthorizationCode, LoginFails
<1>12. CASE RevokeGrants \/ UNCHANGED vars
  BY <1>12 DEF RevokeGrants, vars, StoreStep
<1>13. CASE Tick
  BY <1>13 DEF StoreStep
<1> QED
  BY <1>2, <1>3, <1>7, <1>8, <1>9, <1>10, <1>11, <1>12, <1>13
  DEF Next, Advance, StoreStep

-----------------------------------------------------------------------------
(* Types.                                                                  *)

CallerType == [Caller -> [pc : Point, rejected : Nat \cup {Nil},
                          credential : Nat \cup {Nil}]]

AskType == [Caller -> [status : {"none", "inflight", "granted", "denied"},
                       base : ProfileType \cup {Nil},
                       refreshToken : Nat \cup {Nil}]]

LoginType == [Login -> [pc : {"idle", "exchange", "commit", "stored", "failed"},
                        base : ProfileType \cup {Nil},
                        refreshToken : Nat \cup {Nil}]]

ProviderType == [issued : Nat, valid : SUBSET Nat, revoked : BOOLEAN]

LEMMA StoreStaysTyped ==
  ASSUME Inv, [Next]_vars
  PROVE  /\ DOMAIN db' = Key
         /\ db'[ProfileKey] \in [value : ProfileType \cup {Nil}, ttl : {Nil}]
         /\ db'[RevisionKey] \in [value : Nat \cup {Nil}, ttl : {Nil}]
         /\ \/ db'[LockKey] = Gone
            \/ db'[LockKey] \in [value : Caller \X (Nat \cup {Nil}), ttl : 1..LockTtl]
<1>1. TypeOK /\ StoreStep
  BY StepsOfTheStore DEF Inv
<1>2. CASE UNCHANGED db
  BY <1>1, <1>2 DEF TypeOK
<1>3. CASE Tick
  <2>1. /\ DOMAIN db' = Key
        /\ \A key \in Key : db'[key] =
             IF db[key].ttl = Nil THEN db[key]
             ELSE IF db[key].ttl = 1 THEN Gone
             ELSE Put(db[key].value, db[key].ttl - 1)
    BY <1>1, <1>3 DEF Tick, Aged, TypeOK
  <2>2. CASE db[LockKey] = Gone
    BY <1>1, <2>1, <2>2 DEF TypeOK, Gone, Put, Key
  <2>3. CASE db[LockKey] \in [value : Caller \X (Nat \cup {Nil}), ttl : 1..LockTtl]
    BY <1>1, <2>1, <2>3, LockTtlAssumption, NilIsNeither DEF TypeOK, Put, Key
  <2> QED
    BY <1>1, <2>2, <2>3 DEF TypeOK
<1>4. ASSUME NEW c \in Caller, Locks(Put(Owner(c), LockTtl)) \/ Locks(Gone)
      PROVE  /\ DOMAIN db' = Key
             /\ db'[ProfileKey] = db[ProfileKey]
             /\ db'[RevisionKey] = db[RevisionKey]
             /\ \/ db'[LockKey] = Gone
                \/ db'[LockKey] \in [value : Caller \X (Nat \cup {Nil}), ttl : 1..LockTtl]
  BY <1>1, <1>4, LockTtlAssumption DEF Locks, Put, Owner, TypeOK
<1>5. ASSUME NEW profile \in ProfileType, Saves(profile)
      PROVE  /\ DOMAIN db' = Key
             /\ db'[ProfileKey] \in [value : ProfileType \cup {Nil}, ttl : {Nil}]
             /\ db'[RevisionKey] \in [value : Nat \cup {Nil}, ttl : {Nil}]
             /\ db'[LockKey] = db[LockKey]
  BY <1>5 DEF Saves, Put, ProfileType
<1> QED
  BY <1>1, <1>2, <1>3, <1>4, <1>5 DEF StoreStep, TypeOK

(* The steps of a request, and what each may change.                       *)
LEMMA RequestsStayTyped ==
  ASSUME Inv, NEW c \in Caller,
         \/ GetValidCredential(c) \/ RefreshAccessToken(c)
         \/ RecoverAfterUnauthorized(c) \/ Advance(c) \/ Crash(c)
  PROVE  caller' \in CallerType /\ timer' \in [Caller -> 0..LockTtl]
<1>1. caller \in CallerType /\ timer \in [Caller -> 0..LockTtl] /\ TypeOK
  BY DEF Inv, TypeOK, CallerType
<1>2. LockTtl \in 0..LockTtl /\ 0 \in 0..LockTtl
  BY LockTtlAssumption
<1>3. ASSUME NEW point \in Point, Go(c, point) \/ (Subscribed /\ Use(c, point))
      PROVE  caller' \in CallerType
  BY <1>1, <1>3, TypesOfTheStore DEF Go, Use, Subscribed, CallerType
<1>18. ASSUME NEW point \in Point, NEW credential \in Nat \cup {Nil},
              caller' = [caller EXCEPT ![c].pc = point, ![c].credential = credential]
       PROVE  caller' \in CallerType
  BY <1>1, <1>18 DEF CallerType
<1>4. Start(c) \/ Stop(c) \/ UNCHANGED timer => timer' \in [Caller -> 0..LockTtl]
  BY <1>1, <1>2 DEF Start, Stop
<1>5. CASE GetValidCredential(c) \/ RefreshAccessToken(c)
  BY <1>3, <1>4, <1>5 DEF GetValidCredential, RefreshAccessToken, Point
<1>6. CASE RecoverAfterUnauthorized(c)
  BY <1>1, <1>4, <1>6 DEF RecoverAfterUnauthorized, CallerType, Point
<1>7. CASE ReadCredential(c)
  BY <1>3, <1>4, <1>7 DEF ReadCredential, Readable, Point
<1>8. CASE AcquireRefreshLock(c)
  BY <1>3, <1>4, <1>8 DEF AcquireRefreshLock, Point, Locked
<1>9. CASE AwaitWinner(c)
  BY <1>3, <1>4, <1>9 DEF AwaitWinner, Readable, Point
<1>10. CASE ReadUnderLock(c)
  BY <1>3, <1>4, <1>10 DEF ReadUnderLock, Readable, Point, Locked
<1>11. CASE RefreshAnswered(c) \/ RefreshUnanswered(c)
  BY <1>3, <1>4, <1>11 DEF RefreshAnswered, RefreshUnanswered, Point, Locked
<1>12. CASE CommitRefresh(c)
  <2>1. PICK point \in {"reread", "release"}, credential \in {NextRevision, Nil} :
          caller' = [caller EXCEPT ![c].pc = point, ![c].credential = credential]
    BY <1>12 DEF CommitRefresh
  <2> QED
    BY <1>1, <1>4, <1>12, <1>18, <2>1, TypesOfTheStore DEF CommitRefresh, Point, Locked
<1>13. CASE ReadRefreshWinner(c)
  BY <1>3, <1>4, <1>13 DEF ReadRefreshWinner, Readable, Point, Locked
<1>14. CASE MarkReauthenticationRequired(c)
  BY <1>3, <1>4, <1>14 DEF MarkReauthenticationRequired, Point, Locked
<1>15. CASE CheckLease(c)
  BY <1>3, <1>4, <1>15, <1>18 DEF CheckLease, Point, Locked
<1>16. CASE ReleaseRefreshLock(c)
  <2>1. PICK credential \in {caller[c].credential, Nil} :
          caller' = [caller EXCEPT ![c].pc = "done", ![c].credential = credential]
    BY <1>16 DEF ReleaseRefreshLock
  <2>2. caller[c].credential \in Nat \cup {Nil}
    BY <1>1 DEF CallerType
  <2> QED
    BY <1>4, <1>16, <1>18, <2>1, <2>2 DEF ReleaseRefreshLock, Point
<1>17. CASE Crash(c)
  BY <1>4, <1>17, <1>18 DEF Crash, Point
<1> QED
  BY <1>5, <1>6, <1>7, <1>8, <1>9, <1>10, <1>11, <1>12, <1>13, <1>14, <1>15, <1>16, <1>17
  DEF Advance

Answered(c, status, token) ==
  [status |-> status, base |-> ask[c].base, refreshToken |-> token]

(* What a step leaves of the request of c to the provider: the same, none, *)
(* a new one from the stored profile, or an answer to it.                  *)
AskStep(c) ==
  \/ ask'[c] = ask[c]
  \/ ask'[c] = NoAsk
  \/ /\ At(c, "locked") /\ Subscribed
     /\ ask'[c] = [status |-> "inflight", base |-> stored,
                   refreshToken |-> stored.refreshToken]
  \/ /\ ask[c].status = "inflight"
     /\ \/ \E token \in Nat : ask'[c] = Answered(c, "granted", token)
        \/ ask'[c] = Answered(c, "denied", ask[c].refreshToken)

(* An answered request as a record.                                        *)
LEMMA AnswersAreRecords ==
  ASSUME NEW S, NEW B, NEW T, NEW request \in [status : S, base : B, refreshToken : T],
         NEW status, NEW token, NEW answered,
         answered = [request EXCEPT !.status = status, !.refreshToken = token]
  PROVE  answered = [status |-> status, base |-> request.base, refreshToken |-> token]
<1>1. DOMAIN answered = {"status", "base", "refreshToken"}
  OBVIOUS
<1>2. answered = [field \in DOMAIN answered |-> answered[field]]
  OBVIOUS
<1>3. answered.status = status
  OBVIOUS
<1>4. answered.base = request.base
  OBVIOUS
<1>5. answered.refreshToken = token
  OBVIOUS
<1> QED
  BY <1>1, <1>2, <1>3, <1>4, <1>5

LEMMA StepsOfAsks ==
  ASSUME Inv, [Next]_vars
  PROVE  ask' \in AskType /\ \A c \in Caller : AskStep(c)
<1>1. ask \in AskType /\ TypeOK
  BY DEF Inv, TypeOK, AskType
<1>2. NoAsk \in [status : {"none", "inflight", "granted", "denied"},
                 base : ProfileType \cup {Nil}, refreshToken : Nat \cup {Nil}]
  BY DEF NoAsk
<1>3. CASE UNCHANGED ask
  BY <1>1, <1>3 DEF AskStep
<1>4. ASSUME NEW c \in Caller, Forget(c)
      PROVE  ask' \in AskType /\ \A d \in Caller : AskStep(d)
  BY <1>1, <1>2, <1>4 DEF Forget, AskType, AskStep
<1>5. ASSUME NEW c \in Caller, ReadUnderLock(c)
      PROVE  ask' \in AskType /\ \A d \in Caller : AskStep(d)
  <2>1. CASE UNCHANGED ask
    BY <1>3, <2>1
  <2>2. CASE /\ Readable
             /\ ask' = [ask EXCEPT ![c] = [status |-> "inflight", base |-> stored,
                                           refreshToken |-> stored.refreshToken]]
    <3>1. stored \in ProfileType /\ stored.refreshToken \in Nat /\ At(c, "locked") /\ Subscribed
      BY <1>1, <1>5, <2>2, TypesOfTheStore DEF Readable, Subscribed, ReadUnderLock
    <3> QED
      BY <1>1, <2>2, <3>1 DEF AskType, AskStep
  <2> QED
    BY <1>5, <2>1, <2>2 DEF ReadUnderLock
<1>6. ASSUME NEW c \in Caller, NEW answered,
             ask[c].status = "inflight",
             ask' = [ask EXCEPT ![c] = answered],
             \/ answered = NoAsk
             \/ answered = Answered(c, "denied", ask[c].refreshToken)
             \/ \E token \in Nat : answered = Answered(c, "granted", token)
      PROVE  ask' \in AskType /\ \A d \in Caller : AskStep(d)
  <2>1. answered \in [status : {"none", "inflight", "granted", "denied"},
                      base : ProfileType \cup {Nil}, refreshToken : Nat \cup {Nil}]
    BY <1>1, <1>2, <1>6 DEF AskType, Answered
  <2>2. \A d \in Caller : ask'[d] = IF d = c THEN answered ELSE ask[d]
    BY <1>1, <1>6 DEF AskType
  <2> QED
    BY <1>1, <1>6, <2>1, <2>2 DEF AskType, AskStep
<1>7. ASSUME NEW c \in Caller, ExchangeRefreshToken(c)
      PROVE  ask' \in AskType /\ \A d \in Caller : AskStep(d)
  <2>1. PICK token \in {ask[c].refreshToken, provider.issued + 1} :
          ask' = [ask EXCEPT ![c] =
                    IF At(c, "refreshing")
                    THEN [ask[c] EXCEPT !.status = "granted", !.refreshToken = token]
                    ELSE NoAsk]
    BY <1>7 DEF ExchangeRefreshToken
  <2>2. ask[c].refreshToken \in Nat /\ provider.issued + 1 \in Nat
    BY <1>1, <1>7 DEF ExchangeRefreshToken, TypeOK
  <2>3. [ask[c] EXCEPT !.status = "granted", !.refreshToken = token]
          = Answered(c, "granted", token)
    <3>1. ask[c] \in [status : {"none", "inflight", "granted", "denied"},
                      base : ProfileType \cup {Nil}, refreshToken : Nat \cup {Nil}]
      BY <1>1 DEF AskType
    <3>2. ASSUME NEW answered,
                 answered = [ask[c] EXCEPT !.status = "granted", !.refreshToken = token]
          PROVE  answered = [status |-> "granted", base |-> ask[c].base,
                             refreshToken |-> token]
      BY <3>1, <3>2, AnswersAreRecords, Zenon
    <3> QED
      BY <3>2 DEF Answered
  <2>4. CASE At(c, "refreshing")
    <3>1. ask' = [ask EXCEPT ![c] = Answered(c, "granted", token)]
      BY <2>1, <2>3, <2>4
    <3>2. token \in Nat
      BY <2>2
    <3> QED
      BY <1>6, <1>7, <3>1, <3>2 DEF ExchangeRefreshToken
  <2>5. CASE ~At(c, "refreshing")
    BY <1>6, <1>7, <2>1, <2>5 DEF ExchangeRefreshToken
  <2> QED
    BY <2>4, <2>5
<1>8. ASSUME NEW c \in Caller, RefuseRefreshToken(c)
      PROVE  ask' \in AskType /\ \A d \in Caller : AskStep(d)
  <2>1. [ask[c] EXCEPT !.status = "denied"] = Answered(c, "denied", ask[c].refreshToken)
    BY <1>1 DEF AskType, Answered
  <2> QED
    BY <1>6, <1>8, <2>1 DEF RefuseRefreshToken
<1>9. ASSUME NEW c \in Caller,
             \/ GetValidCredential(c) \/ RefreshAccessToken(c)
             \/ RecoverAfterUnauthorized(c) \/ Advance(c) \/ Crash(c)
      PROVE  UNCHANGED ask \/ Forget(c) \/ ReadUnderLock(c)
  BY <1>9 DEF GetValidCredential, RefreshAccessToken, RecoverAfterUnauthorized, Advance,
       ReadCredential, AcquireRefreshLock, AwaitWinner, RefreshAnswered,
       RefreshUnanswered, CommitRefresh, ReadRefreshWinner, MarkReauthenticationRequired,
       CheckLease, ReleaseRefreshLock, Crash
<1>10. ASSUME NEW l \in Login,
              \/ LoginStarts(l) \/ ExchangeAuthorizationCode(l)
              \/ LoginFails(l) \/ LoginCommits(l)
       PROVE  UNCHANGED ask
  BY <1>10 DEF LoginStarts, ExchangeAuthorizationCode, LoginFails, LoginCommits
<1>11. CASE RevokeGrants \/ Tick \/ UNCHANGED vars
  BY <1>3, <1>11 DEF RevokeGrants, Tick, vars
<1> QED
  BY <1>3, <1>4, <1>5, <1>7, <1>8, <1>9, <1>10, <1>11 DEF Next, Answer

(* The logins and the provider.                                            *)
LEMMA LoginsStayTyped ==
  ASSUME Inv, [Next]_vars
  PROVE  /\ login' \in LoginType
         /\ provider' \in ProviderType
         /\ \A l \in Login : Granted(l)'
<1>1. /\ login \in LoginType /\ provider \in ProviderType /\ TypeOK
      /\ \A l \in Login : Granted(l)
  BY DEF Inv, TypeOK, LoginType, ProviderType
<1>2. UNCHANGED login => \A l \in Login : Granted(l)'
  BY <1>1 DEF Granted
<1>3. ASSUME NEW l \in Login, LoginStarts(l)
      PROVE  login' \in LoginType /\ \A m \in Login : Granted(m)'
  <2>1. stored \in ProfileType \cup {Nil}
    BY <1>1, TypesOfTheStore
  <2> QED
    BY <1>1, <1>3, <2>1 DEF LoginStarts, LoginType, Granted
<1>4. ASSUME NEW l \in Login, ExchangeAuthorizationCode(l)
      PROVE  login' \in LoginType /\ provider' \in ProviderType /\ \A m \in Login : Granted(m)'
  <2>1. provider.issued + 1 \in Nat
    BY <1>1 DEF ProviderType
  <2>2. login' \in LoginType
    BY <1>1, <1>4, <2>1 DEF ExchangeAuthorizationCode, LoginType
  <2>3. provider' \in ProviderType
    BY <1>1, <1>4, <2>1 DEF ExchangeAuthorizationCode, ProviderType
  <2>4. ASSUME NEW m \in Login
        PROVE  Granted(m)'
    BY <1>1, <1>4, <2>1 DEF ExchangeAuthorizationCode, LoginType, Granted
  <2> QED
    BY <2>2, <2>3, <2>4
<1>5. ASSUME NEW l \in Login, NEW point \in {"stored", "failed"},
             login' = [login EXCEPT ![l] = [pc |-> point, base |-> Nil, refreshToken |-> Nil]]
      PROVE  login' \in LoginType /\ \A m \in Login : Granted(m)'
  BY <1>1, <1>5 DEF LoginType, Granted
<1>6. ASSUME NEW l \in Login, LoginFails(l) \/ LoginCommits(l)
      PROVE  /\ \E point \in {"stored", "failed"} :
                  login' = [login EXCEPT ![l] = [pc |-> point, base |-> Nil, refreshToken |-> Nil]]
             /\ UNCHANGED provider
  <2>1. CASE LoginFails(l)
    BY <2>1 DEF LoginFails
  <2>2. CASE LoginCommits(l)
    BY <2>2 DEF LoginCommits
  <2> QED
    BY <1>6, <2>1, <2>2
<1>7. ASSUME NEW c \in Caller, ExchangeRefreshToken(c)
      PROVE  provider' \in ProviderType /\ UNCHANGED login
  <2>1. PICK token \in {ask[c].refreshToken, provider.issued + 1} :
          provider' = [provider EXCEPT
                         !.issued = IF token > provider.issued THEN token ELSE provider.issued,
                         !.valid = (provider.valid \ {ask[c].refreshToken}) \cup {token}]
    BY <1>7 DEF ExchangeRefreshToken
  <2>2. token \in Nat
    BY <1>1, <1>7 DEF ExchangeRefreshToken, ProviderType
  <2> QED
    BY <1>1, <1>7, <2>1, <2>2 DEF ExchangeRefreshToken, ProviderType
<1>8. CASE RevokeGrants
  BY <1>1, <1>2, <1>8 DEF RevokeGrants, ProviderType
<1>9. ASSUME NEW c \in Caller,
             \/ GetValidCredential(c) \/ RefreshAccessToken(c) \/ RecoverAfterUnauthorized(c)
             \/ Advance(c) \/ RefuseRefreshToken(c) \/ Crash(c)
      PROVE  UNCHANGED <<login, provider>>
  BY <1>9 DEF GetValidCredential, RefreshAccessToken, RecoverAfterUnauthorized, Advance,
       ReadCredential, AcquireRefreshLock, AwaitWinner, ReadUnderLock, RefreshAnswered,
       RefreshUnanswered, CommitRefresh, ReadRefreshWinner, MarkReauthenticationRequired,
       CheckLease, ReleaseRefreshLock, RefuseRefreshToken, Crash
<1>10. CASE Tick \/ UNCHANGED vars
  BY <1>1, <1>2, <1>10 DEF Tick, vars
<1>11. ASSUME NEW l \in Login, LoginStarts(l)
       PROVE  UNCHANGED provider
  BY <1>11 DEF LoginStarts
<1> QED
  BY <1>1, <1>2, <1>3, <1>4, <1>5, <1>6, <1>7, <1>8, <1>9, <1>10, <1>11 DEF Next, Answer

LEMMA StepsKeepTypes ==
  ASSUME Inv, [Next]_vars
  PROVE  TypeOK'
<1>1. TypeOK /\ caller \in CallerType /\ timer \in [Caller -> 0..LockTtl]
  BY DEF Inv, TypeOK, CallerType
<1>2. caller' \in CallerType /\ timer' \in [Caller -> 0..LockTtl]
  <2>1. ASSUME NEW c \in Caller, Answer(c)
        PROVE  UNCHANGED <<caller, timer>>
    BY <2>1 DEF Answer, ExchangeRefreshToken, RefuseRefreshToken
  <2>2. ASSUME NEW l \in Login,
               \/ LoginStarts(l) \/ ExchangeAuthorizationCode(l)
               \/ LoginFails(l) \/ LoginCommits(l)
        PROVE  UNCHANGED <<caller, timer>>
    BY <2>2 DEF LoginStarts, ExchangeAuthorizationCode, LoginFails, LoginCommits
  <2>3. CASE Tick
    BY <1>1, <2>3, LockTtlAssumption DEF Tick, Less
  <2>4. CASE RevokeGrants \/ UNCHANGED vars
    BY <1>1, <2>4 DEF RevokeGrants, vars
  <2> QED
    BY <1>1, <2>1, <2>2, <2>3, <2>4, RequestsStayTyped DEF Next
<1>3. life' \in 0..Lifetime /\ outlasted' \in BOOLEAN
  <2>1. UNCHANGED life \/ life' \in 0..Lifetime
    <3>1. CASE Tick
      BY <1>1, <3>1, RefreshAssumption DEF Tick, Less, TypeOK
    <3> QED
      BY <3>1 DEF Next, vars, GetValidCredential, RefreshAccessToken,
        RecoverAfterUnauthorized, Advance,
        ReadCredential, AcquireRefreshLock, AwaitWinner, ReadUnderLock, RefreshAnswered,
        RefreshUnanswered, CommitRefresh, ReadRefreshWinner, MarkReauthenticationRequired,
        CheckLease, ReleaseRefreshLock, Answer, ExchangeRefreshToken, RefuseRefreshToken,
        Crash, RevokeGrants, LoginStarts, ExchangeAuthorizationCode, LoginFails,
        LoginCommits, CommitTokens
  <2>2. UNCHANGED outlasted \/ outlasted' = (outlasted \/ Early)
    BY DEF Next, vars, GetValidCredential, RefreshAccessToken, RecoverAfterUnauthorized,
        Advance,
        ReadCredential, AcquireRefreshLock, AwaitWinner, ReadUnderLock, RefreshAnswered,
        RefreshUnanswered, CommitRefresh, ReadRefreshWinner, MarkReauthenticationRequired,
        CheckLease, ReleaseRefreshLock, Answer, ExchangeRefreshToken, RefuseRefreshToken,
        Crash, RevokeGrants, LoginStarts, ExchangeAuthorizationCode, LoginFails,
        LoginCommits, Tick
  <2> QED
    BY <1>1, <2>1, <2>2 DEF TypeOK, Early
<1>4. faults' \in 0..MaxFaults
  <2>1. \/ UNCHANGED faults
        \/ Fault
        \/ \E txn, result : Transact(txn, result)
    BY DEF Next, vars, GetValidCredential, RefreshAccessToken, RecoverAfterUnauthorized,
        Advance, Unreadable, Readable,
        ReadCredential, AcquireRefreshLock, AwaitWinner, ReadUnderLock, RefreshAnswered,
        RefreshUnanswered, CommitRefresh, ReadRefreshWinner, MarkReauthenticationRequired,
        CheckLease, ReleaseRefreshLock, Answer, ExchangeRefreshToken, RefuseRefreshToken,
        Crash, RevokeGrants, LoginStarts, ExchangeAuthorizationCode, LoginFails,
        LoginCommits, CommitTokens, Tick
  <2> QED
    BY <1>1, <2>1, RefreshAssumption DEF TypeOK, Transact, Fault
<1> QED
  BY <1>2, <1>3, <1>4, StoreStaysTyped, StepsOfAsks, LoginsStayTyped
  DEF TypeOK, CallerType, AskType, LoginType, ProviderType

-----------------------------------------------------------------------------
(* The fence.                                                              *)

(* The stored profile stays, or another of the next revision takes its     *)
(* place together with the revision key.                                   *)
LEMMA ProfilesSucceed ==
  ASSUME Inv, [Next]_vars
  PROVE  \/ stored' = stored /\ Read(db', RevisionKey) = Read(db, RevisionKey)
         \/ /\ stored' \in ProfileType
            /\ stored'.revision = NextRevision
            /\ Read(db', RevisionKey) = NextRevision
            /\ \E profile \in ProfileType : Saves(profile) /\ stored' = profile
<1>1. StoreStep /\ TypeOK
  BY StepsOfTheStore DEF Inv
<1>2. CASE Tick
  <2>1. db[ProfileKey].ttl = Nil /\ db[RevisionKey].ttl = Nil
    BY <1>1 DEF TypeOK
  <2>2. db'[ProfileKey] = db[ProfileKey] /\ db'[RevisionKey] = db[RevisionKey]
    BY <1>1, <1>2, <2>1 DEF Tick, Aged, TypeOK, Key
  <2> QED
    BY <2>2 DEF stored, Read
<1>3. ASSUME NEW profile \in ProfileType, Saves(profile)
      PROVE  /\ stored' = profile
             /\ Read(db', RevisionKey) = NextRevision
             /\ profile.revision = NextRevision
  BY <1>3 DEF Saves, stored, Read, Put
<1>4. ASSUME NEW entry, Locks(entry)
      PROVE  stored' = stored /\ Read(db', RevisionKey) = Read(db, RevisionKey)
  BY <1>4 DEF Locks, stored, Read
<1>5. CASE UNCHANGED db
  BY <1>5 DEF stored, Read
<1> QED
  BY <1>1, <1>2, <1>3, <1>4, <1>5 DEF StoreStep

LEMMA StepsKeepFence ==
  ASSUME Inv, [Next]_vars
  PROVE  RevisionFencesProfile'
<1>1. RevisionFencesProfile
  BY DEF Inv
<1>2. RevisionFencesProfile' =
        (Read(db', RevisionKey) = IF stored' = Nil THEN Nil ELSE stored'.revision)
  BY DEF RevisionFencesProfile
<1> QED
  BY <1>1, <1>2, ProfilesSucceed, NilIsNeither DEF RevisionFencesProfile

(* A request commits after a grant, and marks after a denial.              *)
LEMMA StepsKeepPoints ==
  ASSUME Inv, [Next]_vars, NEW c \in Caller
  PROVE  /\ At(c, "commit")' => ask'[c].status = "granted"
         /\ At(c, "mark")' => ask'[c].status = "denied"
<1> DEFINE Settled == /\ At(c, "commit")' => ask'[c].status = "granted"
                      /\ At(c, "mark")' => ask'[c].status = "denied"
<1>1. caller \in CallerType /\ ask \in AskType /\ Based(c)
  BY DEF Inv, TypeOK, CallerType, AskType
<1>2. CASE UNCHANGED <<caller, ask>>
  BY <1>1, <1>2 DEF Based, At
<1>3. ASSUME NEW d \in Caller, d # c,
             \/ GetValidCredential(d) \/ RefreshAccessToken(d)
             \/ RecoverAfterUnauthorized(d) \/ Advance(d) \/ Crash(d) \/ Answer(d)
      PROVE  caller'[c] = caller[c] /\ ask'[c] = ask[c]
  BY <1>1, <1>3 DEF GetValidCredential, RefreshAccessToken, RecoverAfterUnauthorized,
    Advance, ReadCredential, AcquireRefreshLock, AwaitWinner, ReadUnderLock,
    RefreshAnswered, RefreshUnanswered, CommitRefresh, ReadRefreshWinner,
    MarkReauthenticationRequired, CheckLease, ReleaseRefreshLock, Crash, Answer,
    ExchangeRefreshToken, RefuseRefreshToken, Go, Use, Forget, CallerType, AskType
<1>4. CASE RefreshAnswered(c)
  BY <1>1, <1>4 DEF RefreshAnswered, Go, At, CallerType
<1>5. CASE Answer(c)
  BY <1>1, <1>5 DEF Answer, ExchangeRefreshToken, RefuseRefreshToken, Based, At, AskType
<1>6. CASE \/ GetValidCredential(c) \/ RefreshAccessToken(c)
           \/ RecoverAfterUnauthorized(c) \/ Crash(c)
           \/ ReadCredential(c) \/ AcquireRefreshLock(c) \/ AwaitWinner(c)
           \/ ReadUnderLock(c) \/ RefreshUnanswered(c)
           \/ CommitRefresh(c) \/ ReadRefreshWinner(c) \/ MarkReauthenticationRequired(c)
           \/ CheckLease(c) \/ ReleaseRefreshLock(c)
  <2>1. CASE GetValidCredential(c) \/ RefreshAccessToken(c) \/ RecoverAfterUnauthorized(c)
    BY <1>1, <2>1 DEF GetValidCredential, RefreshAccessToken, RecoverAfterUnauthorized, Go,
      At, CallerType
  <2>2. CASE ReadCredential(c) \/ AwaitWinner(c) \/ ReadUnderLock(c) \/ ReadRefreshWinner(c)
    BY <1>1, <2>2 DEF ReadCredential, AwaitWinner, ReadUnderLock, ReadRefreshWinner, Go, Use,
      At, CallerType
  <2>3. CASE AcquireRefreshLock(c) \/ RefreshUnanswered(c) \/ MarkReauthenticationRequired(c)
    BY <1>1, <2>3 DEF AcquireRefreshLock, RefreshUnanswered, MarkReauthenticationRequired,
      Go, At, CallerType
  <2>4. CASE CommitRefresh(c)
    BY <1>1, <2>4 DEF CommitRefresh, At, CallerType
  <2>5. CASE CheckLease(c) \/ ReleaseRefreshLock(c) \/ Crash(c)
    BY <1>1, <2>5 DEF CheckLease, ReleaseRefreshLock, Crash, Go, At, CallerType
  <2> QED
    BY <1>6, <2>1, <2>2, <2>3, <2>4, <2>5
<1>7. ASSUME NEW l \in Login,
             \/ LoginStarts(l) \/ ExchangeAuthorizationCode(l)
             \/ LoginFails(l) \/ LoginCommits(l)
      PROVE  UNCHANGED <<caller, ask>>
  BY <1>7 DEF LoginStarts, ExchangeAuthorizationCode, LoginFails, LoginCommits
<1>8. CASE RevokeGrants \/ Tick \/ UNCHANGED vars
  BY <1>2, <1>8 DEF RevokeGrants, Tick, vars
<1>9. ASSUME NEW d \in Caller, d # c,
             \/ GetValidCredential(d) \/ RefreshAccessToken(d)
             \/ RecoverAfterUnauthorized(d) \/ Advance(d) \/ Crash(d) \/ Answer(d)
      PROVE  Settled
  BY <1>1, <1>3, <1>9 DEF Based, At
<1> QED
  BY <1>2, <1>4, <1>5, <1>6, <1>7, <1>8, <1>9 DEF Next, Advance

LEMMA StepsKeepBased ==
  ASSUME Inv, [Next]_vars, NEW c \in Caller
  PROVE  Based(c)'
<1>1. ask \in AskType /\ Based(c) /\ TypeOK
  BY DEF Inv, TypeOK, AskType
<1>2. AskStep(c)
  BY StepsOfAsks
<1>3. ASSUME ask'[c].status # "none"
      PROVE  /\ ask'[c].base \in ProfileType
             /\ ask'[c].refreshToken \in Nat
             /\ stored # Nil
             /\ ask'[c].base.revision <= stored.revision
             /\ ask'[c].base.revision = stored.revision => ask'[c].base = stored
  <2>1. CASE ask'[c] = ask[c]
    BY <1>1, <1>3, <2>1 DEF Based
  <2>2. CASE /\ Subscribed
             /\ ask'[c] = [status |-> "inflight", base |-> stored,
                           refreshToken |-> stored.refreshToken]
    BY <1>1, <2>2, TypesOfTheStore DEF Subscribed
  <2>3. ASSUME ask[c].status = "inflight", NEW status, NEW token \in Nat,
               ask'[c] = Answered(c, status, token)
        PROVE  /\ ask'[c].base \in ProfileType
               /\ ask'[c].refreshToken \in Nat
               /\ stored # Nil
               /\ ask'[c].base.revision <= stored.revision
               /\ ask'[c].base.revision = stored.revision => ask'[c].base = stored
    BY <1>1, <2>3 DEF Based, Answered
  <2>4. ask[c].status = "inflight" => ask[c].refreshToken \in Nat
    BY <1>1 DEF Based
  <2> QED
    BY <1>2, <1>3, <2>1, <2>2, <2>3, <2>4 DEF AskStep, NoAsk
<1>4. ask'[c].status \in {"inflight", "denied"} =>
        ask'[c].refreshToken = ask'[c].base.refreshToken
  <2>1. CASE ask'[c] = ask[c]
    BY <1>1, <2>1 DEF Based
  <2>2. ASSUME NEW token, ask'[c] = Answered(c, "granted", token)
        PROVE  ask'[c].status = "granted"
    BY <2>2 DEF Answered
  <2>3. CASE ask[c].status = "inflight" /\ ask'[c] = Answered(c, "denied", ask[c].refreshToken)
    BY <1>1, <2>3 DEF Based, Answered
  <2> QED
    BY <1>2, <2>1, <2>2, <2>3 DEF AskStep, NoAsk
<1>5. ASSUME ask'[c].status # "none"
      PROVE  /\ stored' # Nil
             /\ ask'[c].base.revision <= stored'.revision
             /\ ask'[c].base.revision = stored'.revision => ask'[c].base = stored'
  <2>1. ask'[c].base.revision \in Nat
    BY <1>3, <1>5 DEF ProfileType
  <2> QED
    BY <1>1, <1>3, <1>5, <2>1, ProfilesSucceed, TypesOfTheStore, NilIsNeither
<1> QED
  BY <1>3, <1>4, <1>5, StepsKeepPoints DEF Based

-----------------------------------------------------------------------------
(* The leases.                                                             *)

(* What a step other than a Tick does to the lease of c.                   *)
LeaseStep(c) ==
  \/ caller'[c].pc \notin Locked \cup {"acquire"}
  \/ caller'[c].pc = "acquire" /\ timer'[c] = LockTtl
  \/ /\ caller[c].pc \in Locked
     /\ caller'[c].pc \in Locked
     /\ timer'[c] = timer[c] /\ caller'[c].rejected = caller[c].rejected
  \/ /\ caller'[c].pc = caller[c].pc
     /\ timer'[c] = timer[c] /\ caller'[c].rejected = caller[c].rejected
  \/ /\ At(c, "acquire") /\ caller'[c].pc = "locked"
     /\ timer'[c] = timer[c] /\ caller'[c].rejected = caller[c].rejected
     /\ db'[LockKey] = Put(Owner(c), LockTtl)

LEMMA StepsOfLeases ==
  ASSUME Inv, [Next]_vars, NEW c \in Caller
  PROVE  LeaseStep(c) \/ Tick
<1>1. caller \in CallerType /\ timer \in [Caller -> 0..LockTtl] /\ TypeOK
  BY DEF Inv, TypeOK, CallerType
<1>2. CASE UNCHANGED <<caller, timer>>
  BY <1>2 DEF LeaseStep
<1>3. ASSUME NEW d \in Caller, d # c,
             \/ GetValidCredential(d) \/ RefreshAccessToken(d)
             \/ RecoverAfterUnauthorized(d) \/ Advance(d) \/ Crash(d)
      PROVE  LeaseStep(c)
  <2>1. caller'[c] = caller[c]
    BY <1>1, <1>3 DEF GetValidCredential, RefreshAccessToken, RecoverAfterUnauthorized,
      Advance, ReadCredential, AcquireRefreshLock, AwaitWinner, ReadUnderLock,
      RefreshAnswered, RefreshUnanswered, CommitRefresh, ReadRefreshWinner,
      MarkReauthenticationRequired, CheckLease, ReleaseRefreshLock, Crash,
      Go, Use, CallerType
  <2>2. timer'[c] = timer[c]
    BY <1>1, <1>3 DEF GetValidCredential, RefreshAccessToken, RecoverAfterUnauthorized,
      Advance, ReadCredential, AcquireRefreshLock, AwaitWinner, ReadUnderLock,
      RefreshAnswered, RefreshUnanswered, CommitRefresh, ReadRefreshWinner,
      MarkReauthenticationRequired, CheckLease, ReleaseRefreshLock, Crash,
      Start, Stop
  <2> QED
    BY <2>1, <2>2 DEF LeaseStep
<1>4. CASE GetValidCredential(c) \/ RefreshAccessToken(c) \/ RecoverAfterUnauthorized(c)
  BY <1>1, <1>4 DEF GetValidCredential, RefreshAccessToken, RecoverAfterUnauthorized, Go,
    Start, CallerType, LeaseStep, Locked
<1>5. CASE ReadCredential(c) \/ AwaitWinner(c)
  BY <1>1, <1>5 DEF ReadCredential, AwaitWinner, Go, Use, Start, CallerType, LeaseStep, Locked
<1>6. CASE AcquireRefreshLock(c)
  <2>1. PICK result \in Result :
          /\ Transact(Acquire(Owner(c)), result)
          /\ \/ result = "applied"  /\ Go(c, "locked") /\ UNCHANGED timer
             \/ result = "conflict" /\ Go(c, "wait") /\ Start(c)
             \/ result = "error"    /\ Go(c, "done") /\ Stop(c)
    BY <1>6 DEF AcquireRefreshLock
  <2>2. CASE result = "applied"
    <3>1. db' = Written(db, Acquire(Owner(c)))
      BY <2>1, <2>2, TransactionIsAtomic
    <3>2. Locks(Put(Owner(c), LockTtl))
      BY <1>1, <3>1, LocksLock DEF Acquire, Transaction
    <3>3. At(c, "acquire") /\ Go(c, "locked") /\ UNCHANGED timer
      BY <1>6, <2>1, <2>2 DEF AcquireRefreshLock
    <3> QED
      BY <1>1, <3>2, <3>3 DEF Go, CallerType, LeaseStep, Locks
  <2>3. CASE result \in {"conflict", "error"}
    BY <1>1, <2>1, <2>3 DEF Go, CallerType, LeaseStep, Locked
  <2> QED
    BY <2>1, <2>2, <2>3
<1>7. CASE ReadUnderLock(c) \/ ReadRefreshWinner(c)
  BY <1>1, <1>7 DEF ReadUnderLock, ReadRefreshWinner, At, Go, Use, CallerType, LeaseStep, Locked
<1>8. CASE RefreshAnswered(c) \/ RefreshUnanswered(c) \/ MarkReauthenticationRequired(c)
  BY <1>1, <1>8 DEF RefreshAnswered, RefreshUnanswered, MarkReauthenticationRequired, At, Go,
    CallerType, LeaseStep, Locked
<1>9. CASE CommitRefresh(c)
  BY <1>1, <1>9 DEF CommitRefresh, At, CallerType, LeaseStep, Locked
<1>10. CASE CheckLease(c) \/ ReleaseRefreshLock(c) \/ Crash(c)
  BY <1>1, <1>10 DEF CheckLease, ReleaseRefreshLock, Crash, At, Go, CallerType, LeaseStep, Locked
<1>11. ASSUME NEW d \in Caller, Answer(d)
       PROVE  UNCHANGED <<caller, timer>>
  BY <1>11 DEF Answer, ExchangeRefreshToken, RefuseRefreshToken
<1>12. ASSUME NEW l \in Login,
              \/ LoginStarts(l) \/ ExchangeAuthorizationCode(l)
              \/ LoginFails(l) \/ LoginCommits(l)
       PROVE  UNCHANGED <<caller, timer>>
  BY <1>12 DEF LoginStarts, ExchangeAuthorizationCode, LoginFails, LoginCommits
<1>13. CASE RevokeGrants \/ UNCHANGED vars
  BY <1>2, <1>13 DEF RevokeGrants, vars
<1> QED
  BY <1>2, <1>3, <1>4, <1>5, <1>6, <1>7, <1>8, <1>9, <1>10, <1>11, <1>12, <1>13
  DEF Next, Advance

(* Time that has run out stays so.                                         *)
LEMMA OutlastedForGood ==
  ASSUME [Next]_vars
  PROVE  outlasted' = outlasted \/ (Tick /\ outlasted' = (outlasted \/ Early))
BY DEF Next, vars, GetValidCredential, RefreshAccessToken, RecoverAfterUnauthorized, Advance,
  ReadCredential, AcquireRefreshLock, AwaitWinner, ReadUnderLock, RefreshAnswered,
  RefreshUnanswered, CommitRefresh, ReadRefreshWinner, MarkReauthenticationRequired,
  CheckLease, ReleaseRefreshLock, Answer, ExchangeRefreshToken, RefuseRefreshToken,
  Crash, RevokeGrants, LoginStarts, ExchangeAuthorizationCode, LoginFails, LoginCommits, Tick

LEMMA StepsKeepLeases ==
  ASSUME Inv, [Next]_vars, NEW c \in Caller
  PROVE  Leased(c)'
<1> SUFFICES ASSUME ~outlasted'
    PROVE  /\ caller'[c].pc \in Locked \cup {"acquire"} => timer'[c] > 0
           /\ caller'[c].pc \in Locked =>
                /\ db'[LockKey] # Gone
                /\ db'[LockKey].value = Owner(c)'
                /\ timer'[c] <= db'[LockKey].ttl
  BY DEF Leased
<1>1. /\ TypeOK
      /\ timer[c] \in 0..LockTtl
      /\ ~outlasted
      /\ caller[c].pc \in Locked \cup {"acquire"} => timer[c] > 0
      /\ caller[c].pc \in Locked =>
           /\ db[LockKey] # Gone
           /\ db[LockKey].value = Owner(c)
           /\ timer[c] <= db[LockKey].ttl
  BY OutlastedForGood DEF Inv, Leased, TypeOK
<1>2. db[LockKey] # Gone =>
        db[LockKey] \in [value : Caller \X (Nat \cup {Nil}), ttl : 1..LockTtl]
  BY <1>1 DEF TypeOK
<1>3. CASE Tick
  <2>1. ~Early /\ UNCHANGED caller /\ timer'[c] = Less(timer[c])
    BY <1>3 DEF Tick
  <2>2. ASSUME caller[c].pc \in Locked \cup {"acquire"}
        PROVE  timer[c] > 1 /\ timer'[c] = timer[c] - 1
    BY <1>1, <2>1, <2>2, LockTtlAssumption DEF Early, Less
  <2>3. ASSUME caller[c].pc \in Locked
        PROVE  db'[LockKey] = Put(db[LockKey].value, db[LockKey].ttl - 1)
    <3>1. db[LockKey].ttl # 1 /\ db[LockKey].ttl # Nil
      BY <1>1, <1>2, <2>2, <2>3, LockTtlAssumption, NilIsNeither
    <3> QED
      BY <1>1, <1>3, <3>1 DEF Tick, Aged, TypeOK, Key
  <2>4. ASSUME caller[c].pc \in Locked
        PROVE  /\ db'[LockKey] # Gone
               /\ db'[LockKey].value = Owner(c)
               /\ timer'[c] <= db'[LockKey].ttl
    <3>1. db[LockKey].ttl - 1 \in Nat /\ timer[c] - 1 <= db[LockKey].ttl - 1
      BY <1>1, <1>2, <2>4, LockTtlAssumption
    <3> QED
      BY <1>1, <2>2, <2>3, <2>4, <3>1, NilIsNeither DEF Put, Gone
  <2> QED
    BY <1>1, <2>1, <2>2, <2>4, LockTtlAssumption DEF Owner
<1>4. CASE ~Tick /\ caller[c].pc \in Locked /\ caller'[c].pc \in Locked
  <2>1. db'[LockKey] = db[LockKey]
    <3>1. StoreStep
      BY StepsOfTheStore
    <3>2. Read(db, LockKey) = Owner(c) /\ Owner(c) # Nil
      BY <1>1, <1>2, <1>4, NilIsNeither DEF Read
    <3>3. ASSUME NEW d \in Caller, Read(db, LockKey) = Owner(d), caller'[d].pc = "done"
          PROVE  FALSE
      BY <1>4, <3>2, <3>3 DEF Owner, Locked
    <3> QED
      BY <1>4, <3>1, <3>2, <3>3 DEF StoreStep, Saves
  <2>2. timer'[c] = timer[c] /\ caller'[c].rejected = caller[c].rejected
    BY <1>4, StepsOfLeases DEF LeaseStep, At, Locked
  <2> QED
    BY <1>1, <1>4, <2>1, <2>2 DEF Owner
<1>5. CASE ~Tick /\ ~(caller[c].pc \in Locked /\ caller'[c].pc \in Locked)
  <2>1. LeaseStep(c)
    BY <1>5, StepsOfLeases
  <2>2. CASE caller'[c].pc \in Locked
    <3>1. /\ At(c, "acquire")
          /\ timer'[c] = timer[c] /\ caller'[c].rejected = caller[c].rejected
          /\ db'[LockKey] = Put(Owner(c), LockTtl)
      BY <1>5, <2>1, <2>2 DEF LeaseStep, Locked
    <3> QED
      BY <1>1, <3>1, LockTtlAssumption, NilIsNeither DEF At, Owner, Put, Gone
  <2>3. CASE caller'[c].pc = "acquire"
    BY <1>1, <2>1, <2>3, LockTtlAssumption DEF LeaseStep, Locked
  <2> QED
    BY <2>2, <2>3
<1> QED
  BY <1>3, <1>4, <1>5

LEMMA StepsKeepInv == Inv /\ [Next]_vars => Inv'
BY StepsKeepTypes, StepsKeepFence, StepsKeepBased, StepsKeepLeases, LoginsStayTyped DEF Inv

LEMMA Invariance == Spec => []Inv
BY Initially, StepsKeepInv, PTL DEF Spec

-----------------------------------------------------------------------------
(* What follows from it.                                                   *)

(* The records, the requests, the logins and the provider keep their       *)
(* types, for any number of them and any faults.                           *)
THEOREM TypeCorrect == Spec => []TypeOK
<1>1. Inv => TypeOK
  BY DEF Inv
<1> QED
  BY <1>1, Invariance, PTL

(* The clear revision is always the one of the encrypted profile           *)
(* (transactProfileCommit writes the two together).                        *)
THEOREM RevisionsFence == Spec => []RevisionFencesProfile
<1>1. Inv => RevisionFencesProfile
  BY DEF Inv
<1> QED
  BY <1>1, Invariance, PTL

(* A mark hits the profile whose own refresh token was refused, however    *)
(* late it comes (markReauthenticationRequired).                           *)
THEOREM MarksHit == Spec => MarksHitTheDeniedProfile
<1>1. ASSUME Inv, [Next]_vars,
             stored # Nil, ~stored.requiresReauthentication,
             stored'.requiresReauthentication
      PROVE  \E c \in Caller : Marks(c)
  <2>1. StoreStep
    BY <1>1, StepsOfTheStore
  <2>2. PICK profile \in ProfileType : Saves(profile) /\ stored' = profile
    BY <1>1, ProfilesSucceed
  <2>3. ~Tick /\ ~UNCHANGED db
    <3>1. NextRevision # stored.revision /\ stored.revision \in Nat
      BY <1>1, TypesOfTheStore DEF Inv
    <3>2. stored'.revision = NextRevision
      BY <2>2 DEF Saves
    <3>3. UNCHANGED db => stored' = stored
      BY DEF stored, Read
    <3>4. CASE Tick
      <4>1. stored' = stored
        BY <1>1, <3>4 DEF Inv, TypeOK, Key, Tick, Aged, stored, Read
      <4> QED
        BY <3>1, <3>2, <4>1
    <3> QED
      BY <3>1, <3>2, <3>3, <3>4
  <2>4. ASSUME NEW entry, Locks(entry)
        PROVE  FALSE
    BY <1>1, <2>2, <2>4 DEF Locks, stored, Read
  <2>5. ASSUME NEW other \in ProfileType, Saves(other)
        PROVE  other = stored'
    BY <2>5 DEF Saves, stored, Read, Put
  <2> QED
    BY <1>1, <2>1, <2>3, <2>4, <2>5 DEF StoreStep
<1>2. Inv /\ [Next]_vars =>
        [stored # Nil /\ ~stored.requiresReauthentication
           /\ stored'.requiresReauthentication
         => \E c \in Caller : Marks(c)]_vars
  BY <1>1
<1>3. Inv /\ [Next]_vars =>
        [stored # Nil /\ ~stored.requiresReauthentication
           /\ stored'.requiresReauthentication
         => \E c \in Caller :
              /\ ask[c].status = "denied"
              /\ ask[c].base = stored
              /\ ask[c].refreshToken = stored.refreshToken]_vars
  BY <1>2 DEF Marks
<1> QED
  BY <1>3, Invariance, PTL DEF Spec, MarksHitTheDeniedProfile

(* A lock goes by its expiry or by the release of the request that owns    *)
(* it, whether or not that request still has a lease (release compares).   *)
THEOREM OwnersRelease == Spec => OnlyOwnersRelease
<1>1. ASSUME Inv, [Next]_vars, db[LockKey] # Gone, db'[LockKey] = Gone
      PROVE  \/ Tick /\ db[LockKey].ttl = 1
             \/ \E c \in Caller : At(c, "unlock") /\ db[LockKey].value = Owner(c)
  <2>1. StoreStep /\ TypeOK
    BY <1>1, StepsOfTheStore DEF Inv
  <2>2. db[LockKey] \in [value : Caller \X (Nat \cup {Nil}), ttl : 1..LockTtl]
    BY <1>1, <2>1 DEF TypeOK
  <2>3. CASE Tick
    <3>1. ASSUME db[LockKey].ttl # 1
          PROVE  FALSE
      <4>1. db'[LockKey] = Put(db[LockKey].value, db[LockKey].ttl - 1)
        BY <2>1, <2>2, <2>3, <3>1, LockTtlAssumption, NilIsNeither DEF Tick, Aged, TypeOK, Key
      <4>2. db[LockKey].ttl - 1 \in Nat
        BY <2>2, LockTtlAssumption
      <4> QED
        BY <1>1, <4>1, <4>2, NilIsNeither DEF Put, Gone
    <3> QED
      BY <2>3, <3>1
  <2>4. ASSUME NEW c \in Caller, Locks(Put(Owner(c), LockTtl))
        PROVE  FALSE
    BY <1>1, <2>4, LockTtlAssumption, NilIsNeither DEF Locks, Put, Gone
  <2>5. ASSUME NEW c \in Caller, At(c, "unlock"), Read(db, LockKey) = Owner(c)
        PROVE  \E d \in Caller : At(d, "unlock") /\ db[LockKey].value = Owner(d)
    BY <2>5 DEF Read
  <2>6. ASSUME NEW profile, Saves(profile)
        PROVE  FALSE
    BY <1>1, <2>6 DEF Saves
  <2> QED
    BY <1>1, <2>1, <2>3, <2>4, <2>5, <2>6 DEF StoreStep
<1>2. Inv /\ [Next]_vars =>
        [db[LockKey] # Gone /\ db'[LockKey] = Gone =>
           \/ Tick /\ db[LockKey].ttl = 1
           \/ \E c \in Caller : At(c, "unlock") /\ db[LockKey].value = Owner(c)]_vars
  BY <1>1
<1> QED
  BY <1>2, Invariance, PTL DEF Spec, OnlyOwnersRelease

(* Whoever is under the lock finds its own name in it, so that no two are. *)
LEMMA LeasesExclude ==
  ASSUME Inv
  PROVE  ExclusiveRefresh
<1> SUFFICES ASSUME ~outlasted, NEW c \in Caller, NEW d \in Caller,
                    caller[c].pc \in Locked, caller[d].pc \in Locked
             PROVE  c = d
  BY DEF ExclusiveRefresh
<1>1. db[LockKey].value = Owner(c) /\ db[LockKey].value = Owner(d)
  BY DEF Inv, Leased
<1> QED
  BY <1>1 DEF Owner

(* Until a refresh outlasts its lease, one request at most is under the    *)
(* lock, for any number of requests and logins (acquireRefreshLock).       *)
THEOREM RefreshIsExclusive == Spec => []ExclusiveRefresh
BY LeasesExclude, Invariance, PTL

-----------------------------------------------------------------------------
(* The live grant.                                                         *)

Unspoiled == ~outlasted /\ faults = 0 /\ ~provider.revoked

Asking(c) == ask[c].status # "none"

(* As long as nothing goes wrong, the one request that asks the provider   *)
(* holds a token the provider takes, and no other than the stored one      *)
(* unless a login has replaced the profile it began from.                  *)
LiveAsk(c) ==
  Asking(c) =>
    /\ caller[c].pc \in {"refreshing", "commit"}
    /\ ask[c].status # "denied"
    /\ ask[c].refreshToken \in provider.valid
    /\ ask[c].refreshToken <= provider.issued
    /\ ask[c].base # stored => ask[c].refreshToken # stored.refreshToken

(* The stored token is one the provider takes, or has just been exchanged. *)
LiveProfile ==
  stored # Nil =>
    /\ ~stored.requiresReauthentication
    /\ stored.refreshToken <= provider.issued
    /\ \/ stored.refreshToken \in provider.valid
       \/ \E c \in Caller : ask[c].status = "granted" /\ ask[c].base = stored

(* A login's token is its own until it is stored.                          *)
LiveLogin(l) ==
  login[l].pc = "commit" =>
    /\ login[l].refreshToken \in provider.valid
    /\ login[l].refreshToken <= provider.issued
    /\ stored # Nil => login[l].refreshToken # stored.refreshToken
    /\ \A c \in Caller : Asking(c) => login[l].refreshToken # ask[c].refreshToken
    /\ \A m \in Login \ {l} :
         login[m].pc = "commit" => login[l].refreshToken # login[m].refreshToken

Live ==
  Unspoiled =>
    /\ \A c \in Caller : LiveAsk(c)
    /\ LiveProfile
    /\ \A l \in Login : LiveLogin(l)

LEMMA LiveInitially == Init => Live
<1> SUFFICES ASSUME Init PROVE Live
  OBVIOUS
<1>1. PICK profile \in {Nil, Profile(1, 1, FALSE)} :
        db = [k \in Key |->
               CASE k = ProfileKey -> Put(profile, Nil)
                 [] k = RevisionKey -> Put(IF profile = Nil THEN Nil ELSE 1, Nil)
                 [] k = LockKey -> Gone]
  BY DEF Init
<1>2. stored = profile
  BY <1>1, KeysAreDistinct DEF Key, stored, Read, Put
<1>3. LiveProfile
  BY <1>1, <1>2 DEF Init, LiveProfile, Profile
<1>4. ASSUME NEW c \in Caller
      PROVE  LiveAsk(c)
  BY <1>4 DEF Init, LiveAsk, Asking, NoAsk
<1>5. ASSUME NEW l \in Login
      PROVE  LiveLogin(l)
  BY <1>5 DEF Init, LiveLogin
<1> QED
  BY <1>3, <1>4, <1>5 DEF Live

(* What has gone wrong stays wrong.                                        *)
LEMMA UnspoiledBefore ==
  ASSUME Inv, [Next]_vars, Unspoiled'
  PROVE  Unspoiled /\ UNCHANGED faults /\ ~provider'.revoked
<1>1. faults \in Nat /\ provider \in ProviderType
  BY RefreshAssumption DEF Inv, TypeOK, ProviderType
<1>2. faults' = faults \/ faults' = faults + 1
  BY DEF Next, vars, GetValidCredential, RefreshAccessToken, RecoverAfterUnauthorized,
    Advance, Unreadable, Readable, Fault, Transact,
    ReadCredential, AcquireRefreshLock, AwaitWinner, ReadUnderLock, RefreshAnswered,
    RefreshUnanswered, CommitRefresh, ReadRefreshWinner, MarkReauthenticationRequired,
    CheckLease, ReleaseRefreshLock, Answer, ExchangeRefreshToken, RefuseRefreshToken,
    Crash, RevokeGrants, LoginStarts, ExchangeAuthorizationCode, LoginFails,
    LoginCommits, CommitTokens, Tick
<1>3. provider.revoked => provider'.revoked
  <2>1. CASE \E c \in Caller : ExchangeRefreshToken(c)
    BY <1>1, <2>1 DEF ExchangeRefreshToken, ProviderType
  <2>2. CASE \E l \in Login : ExchangeAuthorizationCode(l)
    BY <1>1, <2>2 DEF ExchangeAuthorizationCode, ProviderType
  <2> QED
    BY <2>1, <2>2 DEF Next, vars, GetValidCredential, RefreshAccessToken,
      RecoverAfterUnauthorized, Advance,
      ReadCredential, AcquireRefreshLock, AwaitWinner, ReadUnderLock, RefreshAnswered,
      RefreshUnanswered, CommitRefresh, ReadRefreshWinner, MarkReauthenticationRequired,
      CheckLease, ReleaseRefreshLock, Answer, RefuseRefreshToken,
      Crash, RevokeGrants, LoginStarts, LoginFails, LoginCommits, Tick
<1>4. ~outlasted' /\ faults' = 0 /\ ~provider'.revoked
  BY DEF Unspoiled
<1>5. faults = 0
  BY <1>1, <1>2, <1>4
<1>6. ~outlasted
  BY <1>4, OutlastedForGood
<1> QED
  BY <1>3, <1>4, <1>5, <1>6 DEF Unspoiled

(* A commit that is not lost is made whole or refused by the fence.        *)
LEMMA CommitsAreDecided ==
  ASSUME TypeOK, UNCHANGED faults, NEW txn, NEW result, NEW profile \in ProfileType,
         Transact(txn, result),
         profile.revision = NextRevision,
         txn.mutations = Stored(profile)
  PROVE  \/ Holds(db, txn) /\ stored' = profile
         \/ ~Holds(db, txn) /\ stored' = stored
<1>1. \/ Holds(db, txn) /\ db' = Written(db, txn)
      \/ ~Holds(db, txn) /\ db' = db
  <2>1. faults' # faults + 1
    BY RefreshAssumption DEF TypeOK
  <2> QED
    BY <2>1 DEF Transact, Fault, Transacted
<1>2. CASE Holds(db, txn) /\ db' = Written(db, txn)
  <2>1. Saves(profile)
    BY <1>2, CommitsSave
  <2> QED
    BY <1>2, <2>1 DEF Saves, stored, Read, Put
<1>3. CASE ~Holds(db, txn) /\ db' = db
  BY <1>3 DEF stored, Read
<1> QED
  BY <1>1, <1>2, <1>3

(* What is assumed of a step, and what is shown of it, action by action.   *)
Lives ==
  /\ Inv /\ Unspoiled /\ UNCHANGED faults
  /\ \A c \in Caller : LiveAsk(c)
  /\ LiveProfile
  /\ \A l \in Login : LiveLogin(l)

StaysLive ==
  /\ \A c \in Caller : LiveAsk(c)'
  /\ LiveProfile'
  /\ \A l \in Login : LiveLogin(l)'

LEMMA OneAsks ==
  ASSUME Lives, NEW c \in Caller, NEW d \in Caller,
         Asking(c) \/ caller[c].pc \in Locked, Asking(d) \/ caller[d].pc \in Locked
  PROVE  c = d
<1>1. caller[c].pc \in Locked /\ caller[d].pc \in Locked
  BY DEF Lives, LiveAsk, Locked
<1> QED
  BY <1>1, LeasesExclude DEF Lives, ExclusiveRefresh, Unspoiled

(* Steps that leave profile, tokens and logins alone.                      *)
LEMMA QuietSteps ==
  ASSUME Lives, stored' = stored, UNCHANGED <<ask, login, provider>>,
         \A c \in Caller : Asking(c) => caller'[c].pc \in {"refreshing", "commit"}
  PROVE  StaysLive
BY DEF Lives, StaysLive, LiveAsk, LiveProfile, LiveLogin, Asking

(* The steps of a request that concern neither profile nor provider.       *)
LEMMA RequestsLeaveProfile ==
  ASSUME Inv, NEW d \in Caller,
         \/ GetValidCredential(d) \/ RefreshAccessToken(d)
         \/ RecoverAfterUnauthorized(d) \/ ReadCredential(d) \/ AcquireRefreshLock(d)
         \/ AwaitWinner(d) \/ RefreshAnswered(d) \/ ReadRefreshWinner(d)
         \/ CheckLease(d) \/ ReleaseRefreshLock(d)
         \/ ReadUnderLock(d) /\ UNCHANGED ask
  PROVE  stored' = stored /\ UNCHANGED <<ask, login, provider>>
<1>1. UNCHANGED <<ask, login, provider>>
  BY DEF GetValidCredential, RefreshAccessToken, RecoverAfterUnauthorized, ReadCredential,
    AcquireRefreshLock, AwaitWinner, RefreshAnswered, ReadRefreshWinner, CheckLease,
    ReleaseRefreshLock, ReadUnderLock
<1>2. stored' = stored
  <2>1. CASE AcquireRefreshLock(d)
    <3>1. PICK result : Transact(Acquire(Owner(d)), result)
      BY <2>1 DEF AcquireRefreshLock
    <3>2. db' = db \/ Locks(Put(Owner(d), LockTtl))
      <4>1. CASE db' = Written(db, Acquire(Owner(d)))
        BY <4>1, LocksLock DEF Acquire, Transaction, Inv
      <4> QED
        BY <3>1, <4>1, TransactionIsAtomic
    <3> QED
      BY <3>2 DEF Locks, stored, Read
  <2>2. CASE ReleaseRefreshLock(d)
    <3>1. PICK result : Transact(ReleaseLock(Owner(d)), result)
      BY <2>2 DEF ReleaseRefreshLock
    <3>2. db' = db \/ Locks(Gone)
      <4>1. CASE db' = Written(db, ReleaseLock(Owner(d)))
        BY <4>1, LocksLock DEF ReleaseLock, Transaction, Inv
      <4> QED
        BY <3>1, <4>1, TransactionIsAtomic
    <3> QED
      BY <3>2 DEF Locks, stored, Read
  <2> QED
    BY <2>1, <2>2 DEF GetValidCredential, RefreshAccessToken, RecoverAfterUnauthorized,
      ReadCredential, AwaitWinner, RefreshAnswered, ReadRefreshWinner, CheckLease,
      ReadUnderLock, stored, Read
<1> QED
  BY <1>1, <1>2

LEMMA RequestsAreQuiet ==
  ASSUME Lives, [Next]_vars, NEW d \in Caller,
         \/ GetValidCredential(d) \/ RefreshAccessToken(d)
         \/ RecoverAfterUnauthorized(d) \/ ReadCredential(d) \/ AcquireRefreshLock(d)
         \/ AwaitWinner(d) \/ RefreshAnswered(d) \/ ReadRefreshWinner(d)
         \/ CheckLease(d) \/ ReleaseRefreshLock(d)
         \/ ReadUnderLock(d) /\ UNCHANGED ask
  PROVE  StaysLive
<1>1. caller \in CallerType /\ Inv
  BY DEF Lives, Inv, TypeOK, CallerType
<1>2. stored' = stored /\ UNCHANGED <<ask, login, provider>>
  BY <1>1, RequestsLeaveProfile
<1>4. ASSUME NEW c \in Caller, Asking(c)
      PROVE  caller'[c].pc \in {"refreshing", "commit"}
  <2>1. /\ caller[c].pc \in {"refreshing", "commit"} /\ ask[c].status # "denied"
    BY <1>4 DEF Lives, LiveAsk
  <2>2. CASE RefreshAnswered(d)
    BY <1>1, <2>1, <2>2 DEF RefreshAnswered, Go, CallerType
  <2>3. CASE ~RefreshAnswered(d)
    <3>1. caller[d].pc \notin {"refreshing", "commit"}
      BY <2>3 DEF GetValidCredential, RefreshAccessToken, RecoverAfterUnauthorized,
        ReadCredential, AcquireRefreshLock, AwaitWinner, ReadRefreshWinner, CheckLease,
        ReleaseRefreshLock, ReadUnderLock, At
    <3>2. c # d
      BY <2>1, <3>1
    <3>3. caller'[c] = caller[c]
      BY <1>1, <2>3, <3>2 DEF GetValidCredential, RefreshAccessToken, RecoverAfterUnauthorized,
        ReadCredential, AcquireRefreshLock, AwaitWinner, ReadRefreshWinner, CheckLease,
        ReleaseRefreshLock, ReadUnderLock, Go, Use, CallerType
    <3> QED
      BY <2>1, <3>3
  <2> QED
    BY <2>2, <2>3
<1> QED
  BY <1>2, <1>4, QuietSteps

(* A request that begins has the stored token, which is live.              *)
LEMMA RequestsBeginLive ==
  ASSUME Lives, NEW c \in Caller, ReadUnderLock(c)
  PROVE  StaysLive \/ UNCHANGED ask
<1> SUFFICES ASSUME ask' # ask
             PROVE  StaysLive
  OBVIOUS
<1>1. /\ caller \in CallerType /\ ask \in AskType /\ login \in LoginType /\ TypeOK
  BY DEF Lives, Inv, TypeOK, CallerType, AskType, LoginType
<1>2. /\ At(c, "locked") /\ Subscribed /\ Go(c, "refreshing")
      /\ ask' = [ask EXCEPT ![c] = [status |-> "inflight", base |-> stored,
                                    refreshToken |-> stored.refreshToken]]
      /\ UNCHANGED <<db, login, provider>>
  BY DEF ReadUnderLock, Readable
<1>3. stored' = stored /\ stored # Nil
  BY <1>2 DEF stored, Read, Subscribed
<1>4. \A d \in Caller : ~Asking(d)
  <2>1. caller[c].pc \in Locked /\ ~Asking(c)
    BY <1>2 DEF At, Locked, Lives, LiveAsk
  <2> QED
    BY <2>1, OneAsks
<1>5. \A d \in Caller : Asking(d)' => d = c
  BY <1>1, <1>2, <1>4 DEF AskType, Asking
<1>6. /\ ask'[c].status = "inflight" /\ ask'[c].base = stored
      /\ ask'[c].refreshToken = stored.refreshToken
      /\ caller'[c].pc = "refreshing"
  BY <1>1, <1>2 DEF AskType, CallerType, Go
<1>7. stored.refreshToken \in provider.valid /\ stored.refreshToken <= provider.issued
  BY <1>3, <1>4 DEF Lives, LiveProfile, Asking
<1>8. ASSUME NEW d \in Caller
      PROVE  LiveAsk(d)'
  BY <1>2, <1>3, <1>5, <1>6, <1>7 DEF LiveAsk
<1>9. LiveProfile'
  BY <1>2, <1>3, <1>7 DEF Lives, LiveProfile
<1>10. ASSUME NEW l \in Login
       PROVE  LiveLogin(l)'
  BY <1>2, <1>3, <1>5, <1>6 DEF Lives, LiveLogin
<1> QED
  BY <1>8, <1>9, <1>10 DEF StaysLive

(* A rotation in time reaches the store, or a login came first.            *)
LEMMA CommitsStayLive ==
  ASSUME Lives, NEW c \in Caller, CommitRefresh(c)
  PROVE  StaysLive
<1>1. /\ caller \in CallerType /\ ask \in AskType /\ TypeOK
      /\ Based(c) /\ LiveAsk(c) /\ LiveProfile /\ RevisionFencesProfile
      /\ \A l \in Login : LiveLogin(l)
  BY DEF Lives, Inv, TypeOK, CallerType, AskType
<1> DEFINE profile == Profile(NextRevision, ask[c].refreshToken, FALSE)
           txn == Commit(ask[c].base.revision, profile)
<1>2. /\ ask[c].status = "granted" /\ Asking(c) /\ stored # Nil
      /\ ask[c].refreshToken \in Nat
      /\ ask[c].refreshToken \in provider.valid
      /\ ask[c].refreshToken <= provider.issued
  BY <1>1 DEF CommitRefresh, Based, LiveAsk, Asking
<1>3. UNCHANGED <<login, provider>> /\ ask' = [ask EXCEPT ![c] = NoAsk]
  BY DEF CommitRefresh, Forget
<1>4. \A d \in Caller : ~Asking(d)'
  <2>1. \A d \in Caller : Asking(d) => d = c
    BY <1>2, OneAsks
  <2> QED
    BY <1>1, <1>3, <2>1 DEF Asking, NoAsk, AskType
<1>5. \/ Holds(db, txn) /\ stored' = profile
      \/ ~Holds(db, txn) /\ stored' = stored
  <2>1. PICK result \in Result : Transact(txn, result)
    BY DEF CommitRefresh, CommitTokens
  <2>2. profile \in ProfileType /\ profile.revision = NextRevision
    BY <1>1, <1>2, TypesOfTheStore DEF Profile, ProfileType
  <2>3. txn.mutations = Stored(profile)
    BY DEF Commit, Transaction
  <2>4. UNCHANGED faults
    BY DEF Lives
  <2> HIDE DEF profile, txn
  <2> QED
    BY <1>1, <2>1, <2>2, <2>3, <2>4, CommitsAreDecided
<1>6. CASE Holds(db, txn) /\ stored' = profile
  <2>1. /\ stored'.refreshToken = ask[c].refreshToken
        /\ ~stored'.requiresReauthentication
    BY <1>6 DEF Profile
  <2>2. LiveProfile'
    BY <1>2, <1>3, <2>1 DEF LiveProfile
  <2>3. ASSUME NEW l \in Login
        PROVE  LiveLogin(l)'
    BY <1>1, <1>2, <1>3, <1>4, <2>1 DEF LiveLogin
  <2> QED
    BY <1>4, <2>2, <2>3 DEF StaysLive, LiveAsk
<1>7. CASE ~Holds(db, txn) /\ stored' = stored
  <2>1. ask[c].base # stored
    <3>1. Read(db, RevisionKey) # ask[c].base.revision
      BY <1>7 DEF Holds, Commit, Transaction
    <3> QED
      BY <1>1, <1>2, <3>1 DEF RevisionFencesProfile
  <2>2. stored.refreshToken \in provider.valid
    <3>1. \A d \in Caller : ask[d].status = "granted" => d = c
      BY <1>2, OneAsks DEF Asking
    <3> QED
      BY <1>1, <1>2, <2>1, <3>1 DEF LiveProfile
  <2>3. LiveProfile'
    BY <1>1, <1>3, <1>7, <2>2 DEF LiveProfile
  <2>4. ASSUME NEW l \in Login
        PROVE  LiveLogin(l)'
    BY <1>1, <1>3, <1>4, <1>7 DEF LiveLogin
  <2> QED
    BY <1>4, <2>3, <2>4 DEF StaysLive, LiveAsk
<1> QED
  BY <1>5, <1>6, <1>7

(* An exchange takes the token away and gives another, or the same.        *)
LEMMA ExchangesStayLive ==
  ASSUME Lives, NEW c \in Caller, ExchangeRefreshToken(c)
  PROVE  StaysLive
<1>1. /\ caller \in CallerType /\ ask \in AskType /\ provider \in ProviderType
      /\ TypeOK /\ Based(c) /\ LiveAsk(c) /\ LiveProfile
      /\ \A l \in Login : LiveLogin(l) /\ Granted(l)
  BY DEF Lives, Inv, TypeOK, CallerType, AskType, ProviderType
<1> DEFINE old == ask[c].refreshToken
<1>2. /\ ask[c].status = "inflight" /\ Asking(c)
      /\ stored # Nil /\ stored.refreshToken \in Nat
      /\ old \in Nat /\ old \in provider.valid /\ old <= provider.issued
      /\ ask[c].base # stored => old # stored.refreshToken
      /\ At(c, "refreshing")
  BY <1>1, TypesOfTheStore DEF ExchangeRefreshToken, Asking, Based, LiveAsk, At
<1>3. PICK token \in {old, provider.issued + 1} :
        /\ provider' = [provider EXCEPT
                          !.issued = IF token > provider.issued THEN token ELSE provider.issued,
                          !.valid = (provider.valid \ {old}) \cup {token}]
        /\ ask' = [ask EXCEPT ![c] =
                     [ask[c] EXCEPT !.status = "granted", !.refreshToken = token]]
  BY <1>2 DEF ExchangeRefreshToken
<1>4. /\ provider'.issued >= provider.issued /\ provider'.issued >= token
      /\ provider'.valid = (provider.valid \ {old}) \cup {token}
      /\ token \in Nat /\ provider.issued \in Nat /\ provider'.issued \in Nat
  BY <1>1, <1>2, <1>3 DEF ProviderType
<1>5. UNCHANGED <<caller, login>> /\ stored' = stored
  BY DEF ExchangeRefreshToken, stored, Read
<1>6. /\ ask'[c].status = "granted" /\ ask'[c].base = ask[c].base
      /\ ask'[c].refreshToken = token
  <2>1. ask'[c] = [ask[c] EXCEPT !.status = "granted", !.refreshToken = token]
    BY <1>1, <1>3 DEF AskType
  <2>2. ask[c] \in [status : {"none", "inflight", "granted", "denied"},
                    base : ProfileType \cup {Nil}, refreshToken : Nat \cup {Nil}]
    BY <1>1 DEF AskType
  <2> QED
    BY <2>1, <2>2
<1>7. \A d \in Caller : Asking(d)' => d = c
  <2>1. \A d \in Caller : Asking(d) => d = c
    BY <1>2, OneAsks
  <2> QED
    BY <1>1, <1>3, <2>1 DEF Asking, AskType
<1>8. ASSUME NEW d \in Caller, Asking(d)'
      PROVE  LiveAsk(d)'
  <2>1. token = provider.issued + 1 => token # stored.refreshToken
    BY <1>1, <1>2, <1>4 DEF LiveProfile
  <2>2. /\ caller'[c].pc = "refreshing"
        /\ ask'[c].refreshToken \in provider'.valid
        /\ ask'[c].refreshToken <= provider'.issued
        /\ ask'[c].base # stored' => ask'[c].refreshToken # stored'.refreshToken
    BY <1>2, <1>4, <1>5, <1>6, <2>1 DEF At
  <2> QED
    BY <1>6, <1>7, <1>8, <2>2 DEF LiveAsk
<1>9. LiveProfile'
  <2>1. stored.refreshToken <= provider'.issued
    BY <1>1, <1>2, <1>4 DEF LiveProfile
  <2>2. CASE ask[c].base = stored
    BY <1>1, <1>2, <1>5, <1>6, <2>1, <2>2 DEF LiveProfile
  <2>3. CASE ask[c].base # stored
    <3>1. \A d \in Caller : ask[d].status = "granted" => d = c
      BY <1>2, OneAsks DEF Asking
    <3>2. stored.refreshToken \in provider.valid
      BY <1>1, <1>2, <3>1 DEF LiveProfile
    <3> QED
      BY <1>1, <1>2, <1>4, <1>5, <2>1, <2>3, <3>2 DEF LiveProfile
  <2> QED
    BY <2>2, <2>3
<1>10. ASSUME NEW l \in Login, login[l].pc = "commit"
       PROVE  LiveLogin(l)'
  <2> DEFINE rt == login[l].refreshToken
  <2>1. /\ rt \in Nat /\ rt \in provider.valid /\ rt <= provider.issued
        /\ rt # stored.refreshToken /\ rt # old
        /\ \A m \in Login \ {l} : login[m].pc = "commit" => rt # login[m].refreshToken
    BY <1>1, <1>2, <1>10 DEF LiveLogin, Granted
  <2>2. rt # token /\ rt \in provider'.valid /\ rt <= provider'.issued
    BY <1>4, <2>1
  <2>3. \A d \in Caller : Asking(d)' => rt # ask'[d].refreshToken
    BY <1>6, <1>7, <2>2
  <2> QED
    BY <1>5, <2>1, <2>2, <2>3 DEF LiveLogin
<1> QED
  BY <1>5, <1>8, <1>9, <1>10 DEF StaysLive, LiveAsk, LiveLogin

(* A login gets a token that nobody has.                                   *)
LEMMA LoginsGetFreshTokens ==
  ASSUME Lives, NEW l \in Login, ExchangeAuthorizationCode(l)
  PROVE  StaysLive
<1>1. /\ login \in LoginType /\ provider \in ProviderType /\ TypeOK
      /\ \A c \in Caller : LiveAsk(c) /\ Based(c)
      /\ LiveProfile
      /\ \A m \in Login : LiveLogin(m) /\ Granted(m)
  BY DEF Lives, Inv, TypeOK, LoginType, ProviderType
<1> DEFINE new == provider.issued + 1
<1>2. /\ provider'.issued = new
      /\ provider'.valid = provider.valid \cup {new}
      /\ provider.issued \in Nat
  BY <1>1 DEF ExchangeAuthorizationCode, ProviderType
<1>3. UNCHANGED <<caller, ask>> /\ stored' = stored
  BY DEF ExchangeAuthorizationCode, stored, Read
<1>4. /\ login'[l].pc = "commit" /\ login'[l].refreshToken = new
      /\ \A m \in Login \ {l} : login'[m] = login[m]
  BY <1>1 DEF ExchangeAuthorizationCode, LoginType
<1>5. ASSUME NEW c \in Caller
      PROVE  LiveAsk(c)' /\ (Asking(c) => ask[c].refreshToken # new)
  BY <1>1, <1>2, <1>3 DEF LiveAsk, Asking, Based
<1>6. LiveProfile' /\ (stored # Nil => stored.refreshToken # new)
  BY <1>1, <1>2, <1>3, TypesOfTheStore DEF LiveProfile
<1>7. ASSUME NEW m \in Login, m # l, login[m].pc = "commit"
      PROVE  login[m].refreshToken # new /\ login[m].refreshToken <= new
  BY <1>1, <1>2, <1>7 DEF LiveLogin, Granted
<1>8. ASSUME NEW m \in Login
      PROVE  LiveLogin(m)'
  <2>1. CASE m = l
    BY <1>2, <1>3, <1>4, <1>5, <1>6, <1>7, <2>1 DEF LiveLogin, Asking
  <2>2. CASE m # l
    BY <1>1, <1>2, <1>3, <1>4, <1>7, <2>2 DEF LiveLogin, Asking
  <2> QED
    BY <2>1, <2>2
<1> QED
  BY <1>5, <1>6, <1>8 DEF StaysLive

(* What a login stores nobody else has.                                    *)
LEMMA LoginsStoreLiveTokens ==
  ASSUME Lives, NEW l \in Login, LoginCommits(l)
  PROVE  StaysLive
<1>1. /\ login \in LoginType /\ TypeOK
      /\ \A c \in Caller : LiveAsk(c)
      /\ LiveProfile
      /\ \A m \in Login : LiveLogin(m) /\ Granted(m)
  BY DEF Lives, Inv, TypeOK, LoginType
<1> DEFINE profile == Profile(NextRevision, login[l].refreshToken, FALSE)
           txn == IF login[l].base = Nil THEN InitialWrite(profile)
                  ELSE Commit(login[l].base.revision, profile)
<1>2. login[l].pc = "commit" /\ login[l].refreshToken \in Nat
  BY <1>1 DEF LoginCommits, Granted
<1>3. stored' = profile \/ stored' = stored
  <2>1. PICK result \in Result : Transact(txn, result)
    BY DEF LoginCommits, CommitTokens
  <2>2. profile \in ProfileType /\ profile.revision = NextRevision
    BY <1>1, <1>2, TypesOfTheStore DEF Profile, ProfileType
  <2>3. txn.mutations = Stored(profile)
    BY DEF InitialWrite, Commit, Transaction
  <2>4. UNCHANGED faults
    BY DEF Lives
  <2> HIDE DEF profile, txn
  <2> QED
    BY <1>1, <2>1, <2>2, <2>3, <2>4, CommitsAreDecided
<1>4. /\ UNCHANGED <<caller, ask, provider>>
      /\ login'[l].pc # "commit"
      /\ \A m \in Login \ {l} : login'[m] = login[m]
  BY <1>1 DEF LoginCommits, LoginType
<1>5. CASE stored' = stored
  BY <1>1, <1>4, <1>5 DEF StaysLive, LiveAsk, LiveProfile, LiveLogin, Asking
<1>6. CASE stored' = profile
  <2>1. /\ stored'.refreshToken = login[l].refreshToken
        /\ ~stored'.requiresReauthentication
    BY <1>6 DEF Profile
  <2> QED
    BY <1>1, <1>2, <1>4, <2>1 DEF StaysLive, LiveAsk, LiveProfile, LiveLogin, Asking
<1> QED
  BY <1>3, <1>5, <1>6

LEMMA StepsKeepLive ==
  ASSUME Inv, Live, [Next]_vars
  PROVE  Live'
<1> SUFFICES ASSUME Unspoiled'
             PROVE  StaysLive
  BY DEF Live, StaysLive
<1>1. Unspoiled /\ UNCHANGED faults /\ ~provider'.revoked
  BY UnspoiledBefore
<1>2. Lives
  BY <1>1 DEF Live, Lives
<1>3. ~Fault
  BY <1>1, RefreshAssumption DEF Fault, Inv, TypeOK
<1>4. login \in LoginType /\ provider \in ProviderType
  BY DEF Inv, TypeOK, LoginType, ProviderType
<1>5. ASSUME NEW c \in Caller, MarkReauthenticationRequired(c)
      PROVE  FALSE
  <2>1. ask[c].status = "denied"
    BY <1>5 DEF MarkReauthenticationRequired, Inv, Based
  <2> QED
    BY <1>2, <2>1 DEF Lives, LiveAsk, Asking
<1>6. ASSUME NEW c \in Caller, RefuseRefreshToken(c)
      PROVE  FALSE
  BY <1>2, <1>6 DEF RefuseRefreshToken, Lives, LiveAsk, Asking
<1>7. CASE RevokeGrants
  BY <1>1, <1>4, <1>7 DEF RevokeGrants, ProviderType
<1>8. ASSUME NEW l \in Login, LoginStarts(l)
      PROVE  StaysLive
  <2>1. /\ UNCHANGED <<caller, ask, provider>> /\ stored' = stored
        /\ login'[l].pc # "commit"
        /\ \A m \in Login \ {l} : login'[m] = login[m]
    BY <1>4, <1>8 DEF LoginStarts, LoginType, stored, Read
  <2> QED
    BY <1>2, <2>1 DEF Lives, StaysLive, LiveAsk, LiveProfile, LiveLogin, Asking
<1>9. CASE Tick \/ UNCHANGED vars
  <2>1. stored' = stored
    BY <1>9 DEF Inv, TypeOK, Key, Tick, Aged, vars, stored, Read
  <2>2. UNCHANGED <<caller, ask, login, provider>>
    BY <1>9 DEF Tick, vars
  <2>3. \A c \in Caller : Asking(c) => caller'[c].pc \in {"refreshing", "commit"}
    BY <1>2, <2>2 DEF Lives, LiveAsk
  <2> QED
    BY <1>2, <2>1, <2>2, <2>3, QuietSteps
<1>10. ASSUME NEW c \in Caller, RefreshUnanswered(c) \/ Crash(c)
       PROVE  FALSE
  BY <1>3, <1>10 DEF RefreshUnanswered, Crash
<1>11. ASSUME NEW l \in Login, LoginFails(l)
       PROVE  FALSE
  BY <1>3, <1>11 DEF LoginFails
<1>12. ASSUME NEW c \in Caller, ReadUnderLock(c)
       PROVE  StaysLive
  BY <1>2, <1>12, RequestsBeginLive, RequestsAreQuiet
<1>13. ASSUME NEW c \in Caller,
              \/ GetValidCredential(c) \/ RefreshAccessToken(c)
              \/ RecoverAfterUnauthorized(c) \/ ReadCredential(c) \/ AcquireRefreshLock(c)
              \/ AwaitWinner(c) \/ RefreshAnswered(c) \/ ReadRefreshWinner(c)
              \/ CheckLease(c) \/ ReleaseRefreshLock(c)
       PROVE  StaysLive
  BY <1>2, <1>13, RequestsAreQuiet
<1> QED
  BY <1>2, <1>5, <1>6, <1>7, <1>8, <1>9, <1>10, <1>11, <1>12, <1>13,
     CommitsStayLive, ExchangesStayLive, LoginsGetFreshTokens, LoginsStoreLiveTokens
  DEF Next, Advance, Answer

(* As long as nothing fails, no lease runs out and the grant is not        *)
(* revoked, the stored refresh token is one the provider takes, or its     *)
(* successor is on its way to the store (refreshAccessToken under the      *)
(* lock, and the fenced commits of refreshes and logins).                  *)
THEOREM GrantsStayLive == Spec => []LiveGrantIsStored
<1>1. Inv /\ Live => LiveGrantIsStored
  BY DEF Live, LiveAsk, LiveProfile, Asking, Unspoiled, LiveGrantIsStored
<1>2. Spec => []Live
  <2>1. Inv /\ Live /\ [Next]_vars => Live'
    BY StepsKeepLive
  <2> QED
    BY <2>1, LiveInitially, Invariance, PTL DEF Spec
<1> QED
  BY <1>1, <1>2, Invariance, PTL

-----------------------------------------------------------------------------
(* The register of the credential.                                         *)

(* A login works on a profile of the store, like a request: as long as its *)
(* revision is the stored one, it is the stored one.                       *)
Drafted(l) ==
  login[l].pc \in {"exchange", "commit"} /\ login[l].base # Nil =>
    /\ login[l].base \in ProfileType
    /\ stored # Nil
    /\ login[l].base.revision <= stored.revision
    /\ login[l].base.revision = stored.revision => login[l].base = stored

(* Every refresh token in use has been issued.                             *)
Issued ==
  /\ stored # Nil => stored.refreshToken <= provider.issued
  /\ \A c \in Caller : ask[c].status # "none" => ask[c].refreshToken <= provider.issued
  /\ \A l \in Login : login[l].pc = "commit" => login[l].refreshToken <= provider.issued

Registered ==
  /\ \A c \in Caller : ask[c].status = "none" => ask[c] = NoAsk
  /\ \A l \in Login : Drafted(l)
  /\ Issued

LEMMA ExceptAt ==
  ASSUME NEW S, NEW f, NEW g, NEW a \in S, NEW v,
         f = [x \in S |-> f[x]], g = [x \in S |-> g[x]],
         g[a] = v, \A x \in S \ {a} : g[x] = f[x]
  PROVE  g = [f EXCEPT ![a] = v]
OBVIOUS

(* What a login works on, point by point.                                  *)
LEMMA Drafts ==
  /\ LoginDraft = [l \in Login |-> LoginDraft[l]]
  /\ \A l \in Login :
       /\ login[l].pc = "exchange" =>
            LoginDraft[l] = [status |-> "inflight", base |-> login[l].base, refreshToken |-> Nil]
       /\ login[l].pc = "commit" =>
            LoginDraft[l] = [status |-> "granted", base |-> login[l].base,
                             refreshToken |-> login[l].refreshToken]
       /\ login[l].pc \notin {"exchange", "commit"} => LoginDraft[l] = NoAsk
BY DEF LoginDraft

LEMMA DraftsNext ==
  /\ LoginDraft' = [l \in Login |-> LoginDraft'[l]]
  /\ \A l \in Login :
       /\ login'[l].pc = "exchange" =>
            LoginDraft'[l] = [status |-> "inflight", base |-> login'[l].base, refreshToken |-> Nil]
       /\ login'[l].pc = "commit" =>
            LoginDraft'[l] = [status |-> "granted", base |-> login'[l].base,
                              refreshToken |-> login'[l].refreshToken]
       /\ login'[l].pc \notin {"exchange", "commit"} => LoginDraft'[l] = NoAsk
       /\ login'[l] = login[l] => LoginDraft'[l] = LoginDraft[l]
BY DEF LoginDraft

LEMMA DraftsStay == UNCHANGED login => UNCHANGED LoginDraft
BY DEF LoginDraft

(* A step of one login is a step of its draft.                             *)
LEMMA DraftChanges ==
  ASSUME NEW l \in Login, \A m \in Login \ {l} : login'[m] = login[m]
  PROVE  LoginDraft' = [LoginDraft EXCEPT ![l] = LoginDraft'[l]]
<1>1. \A m \in Login \ {l} : LoginDraft'[m] = LoginDraft[m]
  BY DraftsNext
<1>2. LoginDraft = [m \in Login |-> LoginDraft[m]]
  BY Drafts
<1>3. LoginDraft' = [m \in Login |-> LoginDraft'[m]]
  BY DraftsNext
<1> HIDE DEF LoginDraft
<1> QED
  BY <1>1, <1>2, <1>3, ExceptAt

(* The next revision is of no profile that anyone has read.                *)
LEMMA NextRevisionIsUnknown ==
  ASSUME Inv, Registered
  PROVE  NextRevision \notin Register!Known
<1>1. ASSUME NEW p \in ({stored} \cup {ask[c].base : c \in Caller}
                                 \cup {LoginDraft[l].base : l \in Login}) \ {Nil}
      PROVE  stored # Nil /\ p.revision \in Nat /\ p.revision <= stored.revision
  <2>1. CASE p = stored
    BY <1>1, <2>1, TypesOfTheStore DEF Inv
  <2>2. ASSUME NEW c \in Caller, p = ask[c].base
        PROVE  stored # Nil /\ p.revision \in Nat /\ p.revision <= stored.revision
    <3>1. ask[c].status # "none"
      BY <1>1, <2>2 DEF Registered, NoAsk
    <3> QED
      BY <2>2, <3>1 DEF Inv, Based, ProfileType
  <2>3. ASSUME NEW l \in Login, p = LoginDraft[l].base
        PROVE  stored # Nil /\ p.revision \in Nat /\ p.revision <= stored.revision
    <3>1. login[l].pc \in {"exchange", "commit"} /\ login[l].base = p
      BY <1>1, <2>3, Drafts DEF NoAsk
    <3> QED
      BY <1>1, <3>1 DEF Registered, Drafted, ProfileType
  <2> QED
    BY <1>1, <2>1, <2>2, <2>3
<1>2. ASSUME NEW p \in ({stored} \cup {ask[c].base : c \in Caller}
                                 \cup {LoginDraft[l].base : l \in Login}) \ {Nil}
      PROVE  p.revision # NextRevision
  BY <1>1, <1>2, TypesOfTheStore DEF Inv
<1> QED
  BY <1>2 DEF Register!Known

(* A commit, lost or not, leaves the profile or replaces it by its own, if *)
(* its conditions hold.                                                    *)
LEMMA CommitsReplace ==
  ASSUME TypeOK, NEW txn, NEW result, NEW profile \in ProfileType,
         Transact(txn, result),
         profile.revision = NextRevision,
         txn.mutations = Stored(profile)
  PROVE  stored' = stored \/ (Holds(db, txn) /\ stored' = profile)
<1>1. CASE db' = db
  BY <1>1 DEF stored, Read
<1>2. CASE Holds(db, txn) /\ db' = Written(db, txn)
  <2>1. Saves(profile)
    BY <1>2, CommitsSave
  <2> QED
    BY <1>2, <2>1 DEF Saves, stored, Read, Put
<1> QED
  BY <1>1, <1>2, TransactionIsAtomic

(* The revision compared in the clear stands for the profile read.         *)
LEMMA RevisionsStandForProfiles ==
  ASSUME Inv, NEW base \in ProfileType, NEW profile,
         Holds(db, Commit(base.revision, profile)),
         stored # Nil /\ (base.revision = stored.revision => base = stored)
  PROVE  base = stored
<1>1. Read(db, RevisionKey) = base.revision
  BY DEF Holds, Commit, Transaction
<1> QED
  BY <1>1 DEF Inv, RevisionFencesProfile

(* The steps of a request.                                                 *)
LEMMA RefreshesReplaceTheirOwn ==
  ASSUME Inv, Registered, NEW c \in Caller, CommitRefresh(c)
  PROVE  Register!Renew(c) \/ Register!GiveUpRenewal(c)
<1>1. TypeOK /\ Based(c)
  BY DEF Inv
<1> DEFINE profile == Profile(NextRevision, ask[c].refreshToken, FALSE)
           txn == Commit(ask[c].base.revision, profile)
<1>2. /\ ask[c].status = "granted" /\ ask[c].refreshToken \in Nat
      /\ ask[c].base \in ProfileType
      /\ stored # Nil /\ (ask[c].base.revision = stored.revision => ask[c].base = stored)
  BY <1>1 DEF CommitRefresh, Based
<1>3. profile \in ProfileType /\ profile.revision = NextRevision
  BY <1>1, <1>2, TypesOfTheStore DEF Profile, ProfileType
<1>4. stored' = stored \/ (Holds(db, txn) /\ stored' = profile)
  <2>1. PICK result \in Result : Transact(txn, result)
    BY DEF CommitRefresh, CommitTokens
  <2>2. txn.mutations = Stored(profile)
    BY DEF Commit, Transaction
  <2> HIDE DEF profile, txn
  <2> QED
    BY <1>1, <1>3, <2>1, <2>2, CommitsReplace
<1>5. /\ ask' = [ask EXCEPT ![c] = Register!Nothing]
      /\ UNCHANGED LoginDraft /\ UNCHANGED provider
  BY DraftsStay DEF CommitRefresh, Forget, NoAsk, Register!Nothing
<1>6. CASE stored' = stored
  BY <1>5, <1>6 DEF Register!GiveUpRenewal
<1>7. CASE Holds(db, txn) /\ stored' = profile
  <2>1. ask[c].base = stored
    BY <1>2, <1>7, RevisionsStandForProfiles
  <2>2. /\ stored' # Nil
        /\ stored'.refreshToken = ask[c].refreshToken
        /\ stored'.requiresReauthentication = FALSE
        /\ stored'.revision \notin Register!Known
    BY <1>3, <1>7, NilIsNeither, NextRevisionIsUnknown DEF Profile
  <2> QED
    BY <1>2, <1>5, <2>1, <2>2 DEF Register!Renew, Register!Become
<1> QED
  BY <1>4, <1>6, <1>7

LEMMA DenialsMarkTheirOwn ==
  ASSUME Inv, Registered, NEW c \in Caller, MarkReauthenticationRequired(c)
  PROVE  Register!Mark(c) \/ Register!GiveUpRenewal(c)
<1>1. TypeOK /\ Based(c)
  BY DEF Inv
<1> DEFINE profile == Profile(NextRevision, ask[c].base.refreshToken, TRUE)
           txn == Commit(ask[c].base.revision, profile)
<1>2. /\ ask[c].status = "denied"
      /\ ask[c].base \in ProfileType
      /\ stored # Nil /\ (ask[c].base.revision = stored.revision => ask[c].base = stored)
  BY <1>1 DEF MarkReauthenticationRequired, Based
<1>3. profile \in ProfileType /\ profile.revision = NextRevision
  BY <1>1, <1>2, TypesOfTheStore DEF Profile, ProfileType
<1>4. stored' = stored \/ (Holds(db, txn) /\ stored' = profile)
  <2>1. PICK result \in Result : Transact(txn, result)
    BY DEF MarkReauthenticationRequired
  <2>2. txn.mutations = Stored(profile)
    BY DEF Commit, Transaction
  <2> HIDE DEF profile, txn
  <2> QED
    BY <1>1, <1>3, <2>1, <2>2, CommitsReplace
<1>5. /\ ask' = [ask EXCEPT ![c] = Register!Nothing]
      /\ UNCHANGED LoginDraft /\ UNCHANGED provider
  BY DraftsStay DEF MarkReauthenticationRequired, Forget, NoAsk, Register!Nothing
<1>6. CASE stored' = stored
  BY <1>5, <1>6 DEF Register!GiveUpRenewal
<1>7. CASE Holds(db, txn) /\ stored' = profile
  <2>1. ask[c].base = stored
    BY <1>2, <1>7, RevisionsStandForProfiles
  <2>2. /\ stored' # Nil
        /\ stored'.refreshToken = stored.refreshToken
        /\ stored'.requiresReauthentication = TRUE
        /\ stored'.revision \notin Register!Known
    BY <1>3, <1>7, <2>1, NilIsNeither, NextRevisionIsUnknown DEF Profile
  <2> QED
    BY <1>2, <1>5, <2>1, <2>2 DEF Register!Mark, Register!Become
<1> QED
  BY <1>4, <1>6, <1>7

(* An exchange nobody waits for is wasted.                                 *)
LEMMA ExchangesGrant ==
  ASSUME Inv, Registered, NEW c \in Caller, ExchangeRefreshToken(c)
  PROVE  Register!GrantRenewal(c) \/ Register!GiveUpRenewal(c)
<1>1. /\ ask \in AskType /\ provider \in ProviderType /\ Based(c)
      /\ ask[c].status = "inflight"
      /\ ask[c].refreshToken <= provider.issued
  BY DEF Inv, TypeOK, AskType, ProviderType, Registered, Issued, ExchangeRefreshToken
<1>2. PICK token \in {ask[c].refreshToken, provider.issued + 1} :
        /\ provider' = [provider EXCEPT
                          !.issued = IF token > provider.issued THEN token ELSE provider.issued,
                          !.valid = (provider.valid \ {ask[c].refreshToken}) \cup {token}]
        /\ ask' = [ask EXCEPT ![c] =
                     IF At(c, "refreshing")
                     THEN [ask[c] EXCEPT !.status = "granted", !.refreshToken = token]
                     ELSE NoAsk]
  BY DEF ExchangeRefreshToken
<1>3. provider'.issued = IF token > provider.issued THEN token ELSE provider.issued
  BY <1>1, <1>2 DEF ProviderType
<1>4. stored' = stored /\ UNCHANGED LoginDraft
  BY DraftsStay DEF ExchangeRefreshToken, stored, Read
<1>5. CASE At(c, "refreshing")
  BY <1>1, <1>2, <1>3, <1>4, <1>5 DEF Register!GrantRenewal, Register!Issue
<1>6. CASE ~At(c, "refreshing")
  <2>1. ask' = [ask EXCEPT ![c] = Register!Nothing]
    BY <1>2, <1>6 DEF NoAsk, Register!Nothing
  <2>2. provider'.issued \in {provider.issued, provider.issued + 1}
    BY <1>1, <1>2, <1>3 DEF Based, ProviderType
  <2> QED
    BY <1>4, <2>1, <2>2 DEF Register!GiveUpRenewal
<1> QED
  BY <1>5, <1>6

LEMMA RefusalsDeny ==
  ASSUME NEW c \in Caller, RefuseRefreshToken(c)
  PROVE  Register!DenyRenewal(c) \/ Register!GiveUpRenewal(c)
<1>1. stored' = stored /\ UNCHANGED LoginDraft /\ UNCHANGED provider
  BY DraftsStay DEF RefuseRefreshToken, stored, Read
<1>2. CASE At(c, "refreshing")
  BY <1>1, <1>2 DEF RefuseRefreshToken, Register!DenyRenewal
<1>3. CASE ~At(c, "refreshing")
  BY <1>1, <1>3 DEF RefuseRefreshToken, NoAsk, Register!GiveUpRenewal, Register!Nothing
<1> QED
  BY <1>2, <1>3

LEMMA ReadsBegin ==
  ASSUME NEW c \in Caller, ReadUnderLock(c)
  PROVE  Register!BeginRenewal(c) \/ UNCHANGED ask
<1>1. stored' = stored /\ UNCHANGED LoginDraft /\ UNCHANGED provider
  BY DraftsStay DEF ReadUnderLock, stored, Read
<1> QED
  BY <1>1 DEF ReadUnderLock, Readable, Subscribed, Register!BeginRenewal

LEMMA FailuresGiveUp ==
  ASSUME NEW c \in Caller, RefreshUnanswered(c) \/ Crash(c)
  PROVE  Register!GiveUpRenewal(c) \/ UNCHANGED Register!register
<1>1. stored' = stored /\ UNCHANGED LoginDraft /\ UNCHANGED provider
  BY DraftsStay DEF RefreshUnanswered, Crash, stored, Read
<1>2. UNCHANGED ask \/ Forget(c)
  BY DEF RefreshUnanswered, Crash
<1> QED
  BY <1>1, <1>2 DEF Forget, NoAsk, Register!GiveUpRenewal, Register!Nothing,
    Register!register

(* The steps of a login.                                                   *)
LEMMA LoginsReplaceTheirOwn ==
  ASSUME Inv, Registered, NEW l \in Login, LoginCommits(l)
  PROVE  Register!Replace(l) \/ Register!GiveUpLogin(l)
<1>1. TypeOK /\ login \in LoginType /\ Granted(l) /\ Drafted(l)
  BY DEF Inv, TypeOK, LoginType, Registered
<1> DEFINE profile == Profile(NextRevision, login[l].refreshToken, FALSE)
           txn == IF login[l].base = Nil THEN InitialWrite(profile)
                  ELSE Commit(login[l].base.revision, profile)
<1>2. login[l].pc = "commit" /\ login[l].refreshToken \in Nat
  BY <1>1 DEF LoginCommits, Granted
<1>3. LoginDraft[l] = [status |-> "granted", base |-> login[l].base,
                       refreshToken |-> login[l].refreshToken]
  BY <1>2, Drafts
<1>4. profile \in ProfileType /\ profile.revision = NextRevision
  BY <1>1, <1>2, TypesOfTheStore DEF Profile, ProfileType
<1>5. stored' = stored \/ (Holds(db, txn) /\ stored' = profile)
  <2>1. PICK result \in Result : Transact(txn, result)
    BY DEF LoginCommits, CommitTokens
  <2>2. txn.mutations = Stored(profile)
    BY DEF InitialWrite, Commit, Transaction
  <2> HIDE DEF profile, txn
  <2> QED
    BY <1>1, <1>4, <2>1, <2>2, CommitsReplace
<1>6. /\ LoginDraft' = [LoginDraft EXCEPT ![l] = Register!Nothing]
      /\ UNCHANGED ask /\ UNCHANGED provider
  <2>1. /\ login'[l].pc \in {"stored", "failed"}
        /\ \A m \in Login \ {l} : login'[m] = login[m]
    BY <1>1 DEF LoginCommits, LoginType
  <2>2. LoginDraft'[l] = Register!Nothing
    BY <2>1, DraftsNext DEF NoAsk, Register!Nothing
  <2> QED
    BY <2>1, <2>2, DraftChanges DEF LoginCommits
<1>7. CASE stored' = stored
  BY <1>6, <1>7 DEF Register!GiveUpLogin
<1>8. CASE Holds(db, txn) /\ stored' = profile
  <2>1. login[l].base = stored
    <3>1. CASE login[l].base = Nil
      <4>1. Holds(db, InitialWrite(profile))
        BY <1>8, <3>1
      <4>2. Read(db, ProfileKey) = Nil
        BY <4>1 DEF Holds, InitialWrite, Transaction
      <4> QED
        BY <3>1, <4>2 DEF stored
    <3>2. CASE login[l].base # Nil
      <4>1. /\ login[l].base \in ProfileType
            /\ stored # Nil
            /\ login[l].base.revision = stored.revision => login[l].base = stored
        BY <1>1, <1>2, <3>2 DEF Drafted
      <4>2. Holds(db, Commit(login[l].base.revision, profile))
        BY <1>8, <3>2
      <4> QED
        BY <4>1, <4>2, RevisionsStandForProfiles
    <3> QED
      BY <3>1, <3>2
  <2>2. /\ stored' # Nil
        /\ stored'.refreshToken = login[l].refreshToken
        /\ stored'.requiresReauthentication = FALSE
        /\ stored'.revision \notin Register!Known
    BY <1>4, <1>8, NilIsNeither, NextRevisionIsUnknown DEF Profile
  <2> QED
    BY <1>3, <1>6, <2>1, <2>2 DEF Register!Replace, Register!Become
<1> QED
  BY <1>5, <1>7, <1>8

LEMMA LoginsBegin ==
  ASSUME Inv, NEW l \in Login, LoginStarts(l)
  PROVE  Register!BeginLogin(l)
<1>1. login \in LoginType
  BY DEF Inv, TypeOK, LoginType
<1>2. /\ login'[l].pc = "exchange" /\ login'[l].base = stored
      /\ \A m \in Login \ {l} : login'[m] = login[m]
  BY <1>1 DEF LoginStarts, LoginType
<1>3. LoginDraft' = [LoginDraft EXCEPT ![l] = [status |-> "inflight", base |-> stored,
                                               refreshToken |-> Nil]]
  BY <1>2, DraftsNext, DraftChanges
<1>4. stored' = stored /\ UNCHANGED ask /\ UNCHANGED provider
  BY DEF LoginStarts, stored, Read
<1> QED
  BY <1>3, <1>4 DEF Register!BeginLogin

LEMMA LoginsAreGranted ==
  ASSUME Inv, NEW l \in Login, ExchangeAuthorizationCode(l)
  PROVE  Register!GrantLogin(l)
<1>1. login \in LoginType /\ provider \in ProviderType
  BY DEF Inv, TypeOK, LoginType, ProviderType
<1>2. /\ login[l].pc = "exchange"
      /\ login'[l].pc = "commit" /\ login'[l].base = login[l].base
      /\ login'[l].refreshToken = provider.issued + 1
      /\ \A m \in Login \ {l} : login'[m] = login[m]
  BY <1>1 DEF ExchangeAuthorizationCode, LoginType
<1>3. /\ LoginDraft[l] = [status |-> "inflight", base |-> login[l].base, refreshToken |-> Nil]
      /\ LoginDraft'[l] = [status |-> "granted", base |-> login[l].base,
                           refreshToken |-> provider.issued + 1]
  BY <1>2, Drafts, DraftsNext
<1>4. LoginDraft' = [LoginDraft EXCEPT ![l].status = "granted",
                                       ![l].refreshToken = provider.issued + 1]
  <2>1. LoginDraft' = [LoginDraft EXCEPT ![l] = LoginDraft'[l]]
    BY <1>2, DraftChanges
  <2>2. LoginDraft'[l] = [LoginDraft[l] EXCEPT !.status = "granted",
                                               !.refreshToken = provider.issued + 1]
    <3> DEFINE granted == [LoginDraft[l] EXCEPT !.status = "granted",
                                                !.refreshToken = provider.issued + 1]
    <3>1. LoginDraft[l] \in [status : {"inflight"}, base : {login[l].base}, refreshToken : {Nil}]
      BY <1>3
    <3>2. granted = [status |-> "granted", base |-> LoginDraft[l].base,
                     refreshToken |-> provider.issued + 1]
      <4>1. ASSUME NEW draft \in [status : {"inflight"}, base : {login[l].base},
                                  refreshToken : {Nil}],
                   NEW answered,
                   answered = [draft EXCEPT !.status = "granted",
                                            !.refreshToken = provider.issued + 1]
            PROVE  answered = [status |-> "granted", base |-> draft.base,
                               refreshToken |-> provider.issued + 1]
        BY <4>1, AnswersAreRecords, Zenon
      <4> HIDE DEF LoginDraft
      <4> QED
        BY <3>1, <4>1, Zenon
    <3>3. LoginDraft[l].base = login[l].base
      BY <1>3
    <3> HIDE DEF granted
    <3>4. LoginDraft'[l] = granted
      BY <1>3, <3>2, <3>3
    <3> QED
      BY <3>4 DEF granted
  <2>3. LoginDraft = [m \in Login |-> LoginDraft[m]]
    BY Drafts
  <2> HIDE DEF LoginDraft
  <2> QED
    BY <2>1, <2>2, <2>3
<1>5. stored' = stored /\ UNCHANGED ask /\ provider'.issued = provider.issued + 1
  BY <1>1 DEF ExchangeAuthorizationCode, ProviderType, stored, Read
<1> QED
  BY <1>3, <1>4, <1>5 DEF Register!GrantLogin

LEMMA LoginsGiveUp ==
  ASSUME Inv, NEW l \in Login, LoginFails(l)
  PROVE  Register!GiveUpLogin(l)
<1>1. login \in LoginType
  BY DEF Inv, TypeOK, LoginType
<1>2. /\ login'[l].pc = "failed"
      /\ \A m \in Login \ {l} : login'[m] = login[m]
  BY <1>1 DEF LoginFails, LoginType
<1>3. LoginDraft' = [LoginDraft EXCEPT ![l] = Register!Nothing]
  BY <1>2, DraftsNext, DraftChanges DEF NoAsk, Register!Nothing
<1>4. stored' = stored /\ UNCHANGED ask /\ UNCHANGED provider
  BY DEF LoginFails, stored, Read
<1> QED
  BY <1>3, <1>4 DEF Register!GiveUpLogin

LEMMA OthersStutter ==
  ASSUME Inv, RevokeGrants \/ Tick \/ UNCHANGED vars
  PROVE  UNCHANGED Register!register
<1>1. stored' = stored
  BY DEF Inv, TypeOK, Key, RevokeGrants, Tick, Aged, vars, stored, Read
<1>2. UNCHANGED <<ask, login>> /\ provider'.issued = provider.issued
  BY DEF Inv, TypeOK, RevokeGrants, Tick, vars
<1> QED
  BY <1>1, <1>2, DraftsStay DEF Register!register

LEMMA RegisterSteps ==
  ASSUME Inv, Registered, [Next]_vars
  PROVE  [Register!Next]_Register!register
<1>1. ASSUME NEW c \in Caller,
             \/ Register!BeginRenewal(c) \/ Register!GrantRenewal(c)
             \/ Register!DenyRenewal(c) \/ Register!GiveUpRenewal(c)
             \/ Register!Renew(c) \/ Register!Mark(c)
      PROVE  Register!Next
  BY <1>1 DEF Register!Next
<1>2. ASSUME NEW l \in Login,
             \/ Register!BeginLogin(l) \/ Register!GrantLogin(l)
             \/ Register!GiveUpLogin(l) \/ Register!Replace(l)
      PROVE  Register!Next
  BY <1>2 DEF Register!Next
<1>3. ASSUME NEW c \in Caller,
             \/ GetValidCredential(c) \/ RefreshAccessToken(c)
             \/ RecoverAfterUnauthorized(c) \/ ReadCredential(c) \/ AcquireRefreshLock(c)
             \/ AwaitWinner(c) \/ RefreshAnswered(c) \/ ReadRefreshWinner(c)
             \/ CheckLease(c) \/ ReleaseRefreshLock(c)
             \/ ReadUnderLock(c) /\ UNCHANGED ask
      PROVE  UNCHANGED Register!register
  <2>1. stored' = stored /\ UNCHANGED <<ask, login, provider>>
    BY <1>3, RequestsLeaveProfile
  <2> QED
    BY <2>1, DraftsStay DEF Register!register
<1>4. ASSUME NEW c \in Caller, Advance(c) \/ Answer(c) \/ Crash(c)
      PROVE  [Register!Next]_Register!register
  BY <1>1, <1>3, <1>4, ReadsBegin, FailuresGiveUp, RefreshesReplaceTheirOwn,
     DenialsMarkTheirOwn, ExchangesGrant, RefusalsDeny DEF Advance, Answer
<1>5. ASSUME NEW l \in Login,
             \/ LoginStarts(l) \/ ExchangeAuthorizationCode(l)
             \/ LoginFails(l) \/ LoginCommits(l)
      PROVE  Register!Next
  BY <1>2, <1>5, LoginsBegin, LoginsAreGranted, LoginsGiveUp, LoginsReplaceTheirOwn
<1> QED
  BY <1>3, <1>4, <1>5, OthersStutter DEF Next

(* The register's own step says what becomes of the tokens in use.         *)
LEMMA StepsKeepIssued ==
  ASSUME Inv, Registered, [Next]_vars
  PROVE  Issued'
<1>1. /\ Inv' /\ ask \in AskType /\ provider.issued \in Nat
      /\ ask' \in AskType /\ provider'.issued \in Nat
  BY StepsKeepInv DEF Inv, TypeOK, AskType
<1>2. /\ stored # Nil => stored.refreshToken \in Nat /\ stored.refreshToken <= provider.issued
      /\ \A c \in Caller : ask[c].status # "none" =>
           ask[c].refreshToken \in Nat /\ ask[c].refreshToken <= provider.issued
      /\ \A l \in Login : LoginDraft[l].status = "granted" =>
           LoginDraft[l].refreshToken \in Nat /\ LoginDraft[l].refreshToken <= provider.issued
  <2>1. /\ stored # Nil => stored.refreshToken \in Nat
        /\ \A c \in Caller : ask[c].status # "none" => ask[c].refreshToken \in Nat
    BY TypesOfTheStore DEF Inv, Based
  <2>2. ASSUME NEW l \in Login, LoginDraft[l].status = "granted"
        PROVE  login[l].pc = "commit" /\ LoginDraft[l].refreshToken = login[l].refreshToken
    BY <2>2, Drafts DEF NoAsk
  <2> QED
    BY <2>1, <2>2 DEF Inv, Granted, Registered, Issued
<1>3. /\ provider'.issued >= provider.issued
      /\ stored' # Nil => stored'.refreshToken <= provider'.issued
      /\ \A c \in Caller : ask'[c].status # "none" => ask'[c].refreshToken <= provider'.issued
      /\ \A l \in Login : LoginDraft'[l].status = "granted" =>
           LoginDraft'[l].refreshToken <= provider'.issued
  <2> DEFINE Goal == /\ provider'.issued >= provider.issued
                     /\ stored' # Nil => stored'.refreshToken <= provider'.issued
                     /\ \A c \in Caller : ask'[c].status # "none" =>
                          ask'[c].refreshToken <= provider'.issued
                     /\ \A l \in Login : LoginDraft'[l].status = "granted" =>
                          LoginDraft'[l].refreshToken <= provider'.issued
  <2>1. LoginDraft = [l \in Login |-> LoginDraft[l]]
    BY Drafts
  <2>2. Register!Nothing.status = "none"
    BY DEF Register!Nothing
  <2> HIDE DEF LoginDraft
  <2>3. CASE UNCHANGED Register!register
    BY <1>1, <1>2, <2>3 DEF Register!register
  <2>4. ASSUME NEW c \in Caller, Register!BeginRenewal(c)
        PROVE  Goal
    BY <1>1, <1>2, <2>4 DEF Register!BeginRenewal, AskType
  <2>5. ASSUME NEW c \in Caller, Register!GrantRenewal(c)
        PROVE  Goal
    <3>1. PICK token \in {ask[c].refreshToken, provider.issued + 1} :
            /\ ask' = [ask EXCEPT ![c].status = "granted", ![c].refreshToken = token]
            /\ provider'.issued = IF token > provider.issued THEN token ELSE provider.issued
      BY <2>5 DEF Register!GrantRenewal, Register!Issue
    <3>2. token \in Nat
      BY <1>1, <1>2, <2>5 DEF Register!GrantRenewal
    <3>3. ask'[c].refreshToken = token /\ \A d \in Caller \ {c} : ask'[d] = ask[d]
      BY <1>1, <3>1 DEF AskType
    <3>4. provider'.issued >= provider.issued /\ token <= provider'.issued
      BY <1>1, <3>1, <3>2
    <3>5. stored' = stored /\ LoginDraft' = LoginDraft
      BY <2>5 DEF Register!GrantRenewal
    <3>6. \A t \in Nat : t <= provider.issued => t <= provider'.issued
      BY <1>1, <3>4
    <3> QED
      BY <1>2, <3>3, <3>4, <3>5, <3>6
  <2>6. ASSUME NEW c \in Caller, Register!DenyRenewal(c)
        PROVE  Goal
    BY <1>1, <1>2, <2>6 DEF Register!DenyRenewal, AskType
  <2>7. ASSUME NEW c \in Caller, Register!GiveUpRenewal(c)
        PROVE  Goal
    BY <1>1, <1>2, <2>2, <2>7 DEF Register!GiveUpRenewal, AskType
  <2>8. ASSUME NEW c \in Caller, Register!Renew(c)
        PROVE  Goal
    BY <1>1, <1>2, <2>2, <2>8 DEF Register!Renew, Register!Become, AskType
  <2>9. ASSUME NEW c \in Caller, Register!Mark(c)
        PROVE  Goal
    <3>1. stored # Nil
      BY <2>9 DEF Register!Mark, Inv, Based
    <3> QED
      BY <1>1, <1>2, <2>2, <2>9, <3>1 DEF Register!Mark, Register!Become, AskType
  <2>10. ASSUME NEW l \in Login, Register!BeginLogin(l)
         PROVE  Goal
    BY <1>1, <1>2, <2>1, <2>10 DEF Register!BeginLogin
  <2>11. ASSUME NEW l \in Login, Register!GrantLogin(l)
         PROVE  Goal
    BY <1>1, <1>2, <2>1, <2>11 DEF Register!GrantLogin
  <2>12. ASSUME NEW l \in Login, Register!GiveUpLogin(l)
         PROVE  Goal
    BY <1>1, <1>2, <2>1, <2>2, <2>12 DEF Register!GiveUpLogin
  <2>13. ASSUME NEW l \in Login, Register!Replace(l)
         PROVE  Goal
    BY <1>1, <1>2, <2>1, <2>2, <2>13 DEF Register!Replace, Register!Become
  <2> QED
    BY <2>3, <2>4, <2>5, <2>6, <2>7, <2>8, <2>9, <2>10, <2>11, <2>12, <2>13, RegisterSteps
    DEF Register!Next
<1>4. ASSUME NEW l \in Login, login'[l].pc = "commit"
      PROVE  login'[l].refreshToken <= provider'.issued
  <2>1. /\ LoginDraft'[l].status = "granted"
        /\ LoginDraft'[l].refreshToken = login'[l].refreshToken
    BY <1>4, DraftsNext
  <2> QED
    BY <1>3, <2>1
<1> QED
  BY <1>3, <1>4 DEF Issued

(* What a step leaves of a login: the same, its end, a beginning from the  *)
(* stored profile, or the same base.                                       *)
LEMMA StepsOfLogins ==
  ASSUME Inv, [Next]_vars, NEW l \in Login
  PROVE  \/ login'[l].pc \notin {"exchange", "commit"}
         \/ login'[l].base = stored
         \/ /\ login[l].pc \in {"exchange", "commit"}
            /\ login'[l].base = login[l].base
         \/ login'[l] = login[l]
<1>1. login \in LoginType
  BY DEF Inv, TypeOK, LoginType
<1>2. ASSUME NEW m \in Login,
             \/ LoginStarts(m) \/ ExchangeAuthorizationCode(m)
             \/ LoginFails(m) \/ LoginCommits(m)
      PROVE  \/ login'[l] = login[l]
             \/ login'[l].pc \in {"stored", "failed"}
             \/ login'[l].base = stored
             \/ login[l].pc = "exchange" /\ login'[l].base = login[l].base
  <2>1. CASE m # l
    BY <1>1, <1>2, <2>1 DEF LoginStarts, ExchangeAuthorizationCode, LoginFails, LoginCommits,
      LoginType
  <2>2. CASE m = l /\ LoginStarts(l)
    BY <1>1, <2>2 DEF LoginStarts, LoginType
  <2>3. CASE m = l /\ ExchangeAuthorizationCode(l)
    BY <1>1, <2>3 DEF ExchangeAuthorizationCode, LoginType
  <2>4. CASE m = l /\ LoginFails(l)
    BY <1>1, <2>4 DEF LoginFails, LoginType
  <2>5. CASE m = l /\ LoginCommits(l)
    BY <1>1, <2>5 DEF LoginCommits, LoginType
  <2> QED
    BY <1>2, <2>1, <2>2, <2>3, <2>4, <2>5
<1> QED
  BY <1>2 DEF Next, vars, GetValidCredential, RefreshAccessToken, RecoverAfterUnauthorized,
    Advance, ReadCredential, AcquireRefreshLock, AwaitWinner, ReadUnderLock, RefreshAnswered,
    RefreshUnanswered, CommitRefresh, ReadRefreshWinner, MarkReauthenticationRequired,
    CheckLease, ReleaseRefreshLock, Answer, ExchangeRefreshToken, RefuseRefreshToken,
    Crash, RevokeGrants, Tick

LEMMA StepsKeepRegistered ==
  ASSUME Inv, Registered, [Next]_vars
  PROVE  Registered'
<1>1. ASSUME NEW c \in Caller, ask'[c].status = "none"
      PROVE  ask'[c] = NoAsk
  <2>1. AskStep(c)
    BY StepsOfAsks
  <2>2. ASSUME NEW status, NEW token, ask'[c] = Answered(c, status, token)
        PROVE  ask'[c].status = status
    BY <2>2 DEF Answered
  <2>3. CASE ask'[c] = ask[c]
    BY <1>1, <2>3 DEF Registered
  <2> QED
    BY <1>1, <2>1, <2>2, <2>3 DEF AskStep
<1>2. ASSUME NEW l \in Login, login'[l].pc \in {"exchange", "commit"}, login'[l].base # Nil
      PROVE  /\ login'[l].base \in ProfileType
             /\ stored' # Nil
             /\ login'[l].base.revision <= stored'.revision
             /\ login'[l].base.revision = stored'.revision => login'[l].base = stored'
  <2>1. /\ login'[l].base \in ProfileType /\ login'[l].base.revision \in Nat
        /\ stored # Nil
        /\ login'[l].base.revision <= stored.revision
        /\ login'[l].base.revision = stored.revision => login'[l].base = stored
    <3>1. CASE login'[l].base = stored
      <4>1. stored \in ProfileType /\ stored.revision \in Nat
        BY <1>2, <3>1, TypesOfTheStore DEF Inv
      <4> QED
        BY <1>2, <3>1, <4>1
    <3>2. CASE login[l].pc \in {"exchange", "commit"} /\ login'[l].base = login[l].base
      BY <1>2, <3>2 DEF Registered, Drafted, ProfileType
    <3> QED
      BY <1>2, <3>1, <3>2, StepsOfLogins
  <2> QED
    BY <2>1, ProfilesSucceed, TypesOfTheStore, NilIsNeither DEF Inv
<1> QED
  BY <1>1, <1>2, StepsKeepIssued DEF Registered, Drafted

LEMMA RegisteredInitially ==
  ASSUME Init
  PROVE  Registered /\ Register!Init
<1>1. PICK profile \in {Nil, Profile(1, 1, FALSE)} :
        db = [k \in Key |->
               CASE k = ProfileKey -> Put(profile, Nil)
                 [] k = RevisionKey -> Put(IF profile = Nil THEN Nil ELSE 1, Nil)
                 [] k = LockKey -> Gone]
  BY DEF Init
<1>2. stored = profile
  BY <1>1, KeysAreDistinct DEF Key, stored, Read, Put
<1>3. provider.issued = 1 /\ (stored # Nil => /\ stored.refreshToken = 1
                                              /\ ~stored.requiresReauthentication)
  BY <1>2 DEF Init, Profile
<1>4. \A l \in Login : login[l].pc = "idle"
  BY DEF Init
<1>5. LoginDraft = [l \in Login |-> Register!Nothing]
  BY <1>4 DEF LoginDraft, NoAsk, Register!Nothing
<1>6. \A c \in Caller : ask[c] = NoAsk
  BY DEF Init
<1>7. Registered
  BY <1>3, <1>4, <1>6 DEF Registered, Drafted, Issued, NoAsk
<1>8. ask = [c \in Caller |-> Register!Nothing]
  BY DEF Init, NoAsk, Register!Nothing
<1> QED
  BY <1>3, <1>5, <1>7, <1>8 DEF Register!Init

(* Refreshes and logins keep the register: the stored credential is        *)
(* replaced, or marked, only by one that read that very profile, with what *)
(* the provider made of it, and no profile anybody has read comes back,    *)
(* for any number of requests, logins and faults and however leases lapse  *)
(* (transactProfileCommit and markReauthenticationRequired).               *)
THEOREM RegisterIsKept == Spec => KeepsRegister
<1>1. Init => Registered /\ Register!Init
  BY RegisteredInitially
<1>2. Inv /\ Registered /\ [Next]_vars => Registered' /\ [Register!Next]_Register!register
  BY StepsKeepRegistered, RegisterSteps
<1> QED
  BY <1>1, <1>2, Invariance, PTL DEF Spec, KeepsRegister, Register!Spec

-----------------------------------------------------------------------------
(* The end of a call.                                                      *)

(* How many steps a call of the service may still make.                    *)
StepsFrom(point) ==
  CASE point = "read" -> 9
    [] point = "acquire" -> 8
    [] point = "locked" -> 7
    [] point = "refreshing" -> 6
    [] point \in {"commit", "mark"} -> 5
    [] point = "reread" -> 4
    [] point = "release" -> 3
    [] point = "unlock" -> 2
    [] point = "wait" -> 1
    [] point \in {"idle", "done", "dead"} -> 0

StepsLeft(c) == StepsFrom(caller[c].pc)

Starts(c) == GetValidCredential(c) \/ RefreshAccessToken(c) \/ RecoverAfterUnauthorized(c)

(* A call makes nine steps at most: each of its own brings it nearer to    *)
(* its answer, it polls, refreshes and reads the winner once, and nothing  *)
(* that other calls, logins, the provider or the clock do sends it back    *)
(* (refreshAccessToken and recoverAfterUnauthorized of service.ts).        *)
CallsAreShort ==
  [][\A c \in Caller :
       /\ Advance(c) => StepsLeft(c)' < StepsLeft(c)
       /\ StepsLeft(c)' > StepsLeft(c) => Starts(c)]_vars

LEMMA StepsFromAreCounted ==
  ASSUME NEW point \in Point
  PROVE  StepsFrom(point) \in 0..9
BY DEF StepsFrom, Point, Locked

LEMMA FewerIsNotMore ==
  ASSUME NEW n \in 0..9, NEW k \in 0..9
  PROVE  /\ k < n => ~(k > n)
         /\ ~(n > n)
         /\ ~(0 > n)
OBVIOUS

LEMMA CallersAdvance ==
  ASSUME Inv, NEW c \in Caller, Advance(c)
  PROVE  /\ StepsLeft(c)' < StepsLeft(c)
         /\ \A d \in Caller \ {c} : caller'[d] = caller[d]
<1>1. caller \in CallerType
  BY DEF Inv, TypeOK, CallerType
<1>2. CASE ReadCredential(c)
  BY <1>1, <1>2 DEF ReadCredential, At, Go, Use, CallerType, StepsLeft, StepsFrom
<1>3. CASE AcquireRefreshLock(c)
  BY <1>1, <1>3 DEF AcquireRefreshLock, At, Go, CallerType, StepsLeft, StepsFrom
<1>4. CASE AwaitWinner(c)
  BY <1>1, <1>4 DEF AwaitWinner, At, Go, Use, CallerType, StepsLeft, StepsFrom
<1>5. CASE ReadUnderLock(c)
  BY <1>1, <1>5 DEF ReadUnderLock, At, Go, Use, CallerType, StepsLeft, StepsFrom
<1>6. CASE RefreshAnswered(c) \/ RefreshUnanswered(c)
  BY <1>1, <1>6 DEF RefreshAnswered, RefreshUnanswered, At, Go, CallerType, StepsLeft, StepsFrom
<1>7. CASE CommitRefresh(c)
  <2>1. PICK result \in Result :
          caller' = [caller EXCEPT
                       ![c].pc = IF result = "conflict" THEN "reread" ELSE "release",
                       ![c].credential =
                         IF result = "applied" /\ life' > 0 THEN NextRevision ELSE Nil]
    BY <1>7 DEF CommitRefresh
  <2>2. At(c, "commit")
    BY <1>7 DEF CommitRefresh
  <2>3. /\ caller'[c].pc \in {"reread", "release"}
        /\ \A d \in Caller \ {c} : caller'[d] = caller[d]
    BY <1>1, <2>1 DEF CallerType
  <2> QED
    BY <2>2, <2>3 DEF At, StepsLeft, StepsFrom
<1>8. CASE ReadRefreshWinner(c)
  BY <1>1, <1>8 DEF ReadRefreshWinner, At, Go, Use, CallerType, StepsLeft, StepsFrom
<1>9. CASE MarkReauthenticationRequired(c)
  BY <1>1, <1>9 DEF MarkReauthenticationRequired, At, Go, CallerType, StepsLeft, StepsFrom
<1>10. CASE CheckLease(c)
  BY <1>1, <1>10 DEF CheckLease, At, Go, CallerType, StepsLeft, StepsFrom
<1>11. CASE ReleaseRefreshLock(c)
  <2>1. PICK credential :
          caller' = [caller EXCEPT ![c].pc = "done", ![c].credential = credential]
    BY <1>11 DEF ReleaseRefreshLock
  <2>2. At(c, "unlock")
    BY <1>11 DEF ReleaseRefreshLock
  <2> QED
    BY <1>1, <2>1, <2>2 DEF At, CallerType, StepsLeft, StepsFrom
<1> QED
  BY <1>2, <1>3, <1>4, <1>5, <1>6, <1>7, <1>8, <1>9, <1>10, <1>11 DEF Advance

LEMMA OthersStandStill ==
  ASSUME Inv, NEW c \in Caller, Starts(c) \/ Crash(c)
  PROVE  \A d \in Caller \ {c} : caller'[d] = caller[d]
<1>1. caller \in CallerType
  BY DEF Inv, TypeOK, CallerType
<1>2. CASE GetValidCredential(c) \/ RefreshAccessToken(c)
  BY <1>1, <1>2 DEF GetValidCredential, RefreshAccessToken, Go, CallerType
<1>3. CASE RecoverAfterUnauthorized(c)
  BY <1>1, <1>3 DEF RecoverAfterUnauthorized, CallerType
<1>4. CASE Crash(c)
  BY <1>1, <1>4 DEF Crash, CallerType
<1> QED
  BY <1>2, <1>3, <1>4 DEF Starts

LEMMA CrashesEndCalls ==
  ASSUME Inv, NEW c \in Caller, Crash(c)
  PROVE  caller'[c].pc = "dead"
<1>1. caller \in CallerType
  BY DEF Inv, TypeOK, CallerType
<1> QED
  BY <1>1 DEF Crash, CallerType

LEMMA RestLeavesCallers ==
  ASSUME RevokeGrants \/ Tick \/ UNCHANGED vars
         \/ (\E c \in Caller : Answer(c))
         \/ (\E l \in Login : LoginStarts(l) \/ ExchangeAuthorizationCode(l)
                              \/ LoginFails(l) \/ LoginCommits(l))
  PROVE  caller' = caller
<1>1. CASE RevokeGrants \/ Tick \/ UNCHANGED vars
  BY <1>1 DEF RevokeGrants, Tick, vars
<1>2. ASSUME NEW c \in Caller, Answer(c)
      PROVE  caller' = caller
  BY <1>2 DEF Answer, ExchangeRefreshToken, RefuseRefreshToken
<1>3. ASSUME NEW l \in Login,
             \/ LoginStarts(l) \/ ExchangeAuthorizationCode(l)
             \/ LoginFails(l) \/ LoginCommits(l)
      PROVE  caller' = caller
  <2>1. CASE LoginStarts(l) \/ ExchangeAuthorizationCode(l) \/ LoginFails(l)
    BY <2>1 DEF LoginStarts, ExchangeAuthorizationCode, LoginFails
  <2>2. CASE LoginCommits(l)
    BY <2>2 DEF LoginCommits
  <2> QED
    BY <1>3, <2>1, <2>2
<1> QED
  BY <1>1, <1>2, <1>3

(* No call goes round in circles: with a runtime that keeps running it and *)
(* a clock that moves (EveryCallReturns) this is what its end rests on,    *)
(* for any number of calls, logins and faults.                             *)
THEOREM CallsEndInNineSteps == Spec => CallsAreShort
<1> DEFINE Short == \A c \in Caller :
                      /\ Advance(c) => StepsLeft(c)' < StepsLeft(c)
                      /\ StepsLeft(c)' > StepsLeft(c) => Starts(c)
<1>1. ASSUME Inv, [Next]_vars, NEW c \in Caller
      PROVE  /\ Advance(c) => StepsLeft(c)' < StepsLeft(c)
             /\ StepsLeft(c)' > StepsLeft(c) => Starts(c)
  <2>1. PICK was : was = StepsLeft(c)
    OBVIOUS
  <2>2. PICK now : now = StepsFrom(caller'[c].pc)
    OBVIOUS
  <2>3. /\ was \in 0..9 /\ now \in 0..9
        /\ StepsLeft(c)' = now
    <3>1. Inv'
      BY <1>1, StepsKeepInv
    <3>2. caller'[c].pc \in Point /\ caller[c].pc \in Point
      BY <1>1, <3>1 DEF Inv, TypeOK
    <3>3. StepsLeft(c)' = StepsFrom(caller'[c].pc)
      BY DEF StepsLeft
    <3>4. StepsLeft(c) = StepsFrom(caller[c].pc)
      BY DEF StepsLeft
    <3> QED
      BY <2>1, <2>2, <3>2, <3>3, <3>4, StepsFromAreCounted
  <2> SUFFICES (Advance(c) => now < was) /\ (now > was => Starts(c))
    BY <2>1, <2>3
  <2>same. ASSUME caller'[c] = caller[c]
           PROVE  ~(now > was)
    <3>1. now = was
      BY <2>same, <2>1, <2>2 DEF StepsLeft
    <3> QED
      BY <3>1, <2>3, FewerIsNotMore
  <2>4. Advance(c) => now < was
    BY <1>1, <2>1, <2>3, CallersAdvance
  <2>5. ASSUME NEW d \in Caller, Starts(d) \/ Advance(d) \/ Crash(d), ~Starts(c)
        PROVE  ~(now > was)
    <3>1. CASE d # c
      <4>1. caller'[c] = caller[c]
        BY <1>1, <2>5, <3>1, CallersAdvance, OthersStandStill
      <4> QED
        BY <2>same, <4>1
    <3>2. CASE d = c /\ Advance(c)
      BY <2>3, <2>4, <3>2, FewerIsNotMore
    <3>3. CASE d = c /\ Crash(c)
      <4>1. now = 0
        BY <1>1, <2>2, <3>3, CrashesEndCalls DEF StepsFrom
      <4> QED
        BY <2>3, <4>1, FewerIsNotMore
    <3> QED
      BY <2>5, <3>1, <3>2, <3>3
  <2>6. caller' = caller => ~(now > was)
    BY <2>same
  <2>7. \/ caller' = caller
        \/ \E d \in Caller : Starts(d) \/ Advance(d) \/ Crash(d)
    BY <1>1, RestLeavesCallers DEF Next, Starts
  <2>8. now > was => Starts(c)
    BY <2>5, <2>6, <2>7
  <2> QED
    BY <2>4, <2>8
<1>2. Inv /\ [Next]_vars => [Short]_vars
  BY <1>1
<1> QED
  BY <1>2, Invariance, PTL DEF Spec, CallsAreShort

=============================================================================
