-------------------------- MODULE CodexLogin_proofs --------------------------
(***************************************************************************)
(* Proofs about CodexLogin, for any number of logins, ports, profiles and  *)
(* faults, and whatever the browser, imports, revocations and refreshes do *)
(* meanwhile.                                                              *)
(***************************************************************************)
EXTENDS CodexLogin, TLAPS

(* Whatever a transaction answers, the store is as it was, or all of the   *)
(* conditions held and all of the mutations were written; an answer        *)
(* "applied" means the latter, any other one may hide either (transact of  *)
(* upstash-layer.internal.ts).                                             *)
LEMMA TransactionIsAtomic ==
  ASSUME NEW txn, NEW result, Transact(txn, result)
  PROVE  /\ db' = db \/ (Holds(db, txn) /\ db' = Written(db, txn))
         /\ result = "applied"  => Holds(db, txn) /\ db' = Written(db, txn)
BY DEF Transact, Outcome, Transacted

(* What a transaction leaves under one key.                                *)
LEMMA WrittenAt ==
  ASSUME NEW txn, NEW key \in DOMAIN db
  PROVE  Written(db, txn)[key] =
           IF key \in DOMAIN txn.mutations THEN txn.mutations[key] ELSE db[key]
BY DEF Written

(* The profiles that come to be: the revision of a subscription says which *)
(* one it is.                                                              *)
Subscribed == {Profile(n, n, FALSE) : n \in Nat}

Known == Subscribed \cup {Imported(n) : n \in Nat}

State == [pc : {"idle", "stored", "failed"} \cup Running,
          base : Known \cup {Nil},
          redirect : Port \cup {Nil},
          tab : BOOLEAN,
          answer : Login \cup {Nil, "refused"},
          timer : 0..CallbackTimeout]

LoginType == [Login -> State]

Typed ==
  /\ DOMAIN db = {ProfileKey, RevisionKey}
  /\ stored \in Known \cup {Nil}
  /\ made \in Nat
  /\ refresh \in Subscribed \cup {Nil}
  /\ login \in LoginType

(* What a login was answered is the code of its own session, or a refusal; *)
(* past the wait it has a code.  While it binds it has a port to try.      *)
Answered(l) ==
  /\ login[l].pc = "bind" => login[l].redirect \in Port
  /\ login[l].answer \in {Nil, "refused", l}
  /\ login[l].pc \in {"exchange", "fence", "commit"} => login[l].answer = l

Inv ==
  /\ Typed
  /\ SubscriptionsAreFenced
  /\ \A l \in Login : Answered(l)

(* What is known is typed.                                                 *)
LEMMA TypedIsTyped ==
  /\ \A profile \in Subscribed : profile \in Subscription
  /\ \A profile \in Known : profile \in ProfileType
  /\ \A state \in State :
       state \in [pc : {"idle", "stored", "failed"} \cup Running,
                 base : ProfileType \cup {Nil},
                 redirect : Port \cup {Nil},
                 tab : BOOLEAN,
                 answer : Login \cup {Nil, "refused"},
                 timer : 0..CallbackTimeout]
<1>1. ASSUME NEW n \in Nat
      PROVE  Profile(n, n, FALSE) \in Subscription
  BY <1>1 DEF Profile, Subscription
<1>2. ASSUME NEW n \in Nat
      PROVE  Imported(n) \in [kind : {"access-token-import"}, nonce : Nat]
  BY <1>2 DEF Imported
<1>3. /\ Subscribed \subseteq Subscription
      /\ Known \subseteq ProfileType
  BY <1>1, <1>2 DEF Subscribed, Known, ProfileType
<1>4. Known \cup {Nil} \subseteq ProfileType \cup {Nil}
  BY <1>3
<1> QED
  BY <1>3, <1>4 DEF State

LEMMA KindsOfProfiles ==
  /\ Nil \notin Known
  /\ Kind(Nil) = "none"
  /\ \A profile \in Subscribed :
       /\ profile # Nil
       /\ Kind(profile) = "subscription"
       /\ profile.revision \in Nat
       /\ \A other \in Subscribed : profile.revision = other.revision => profile = other
  /\ \A n \in Nat : Kind(Imported(n)) = "access-token-import"
<1>2. Nil \notin Known
  BY TypedIsTyped, NilAssumption
<1>3. ASSUME NEW n \in Nat
      PROVE  Kind(Profile(n, n, FALSE)) = "subscription"
  BY <1>2, <1>3 DEF Kind, Known, Subscribed, Profile
<1>4. ASSUME NEW n \in Nat
      PROVE  Kind(Imported(n)) = "access-token-import"
  BY <1>2, <1>4 DEF Kind, Known, Imported
<1>5. ASSUME NEW n \in Nat
      PROVE  Profile(n, n, FALSE).revision = n /\ Profile(n, n, FALSE) # Nil
  BY <1>2, <1>5 DEF Profile, Known, Subscribed
<1>6. Kind(Nil) = "none"
  BY DEF Kind
<1> QED
  BY <1>2, <1>3, <1>4, <1>5, <1>6 DEF Subscribed

LEMMA Initially == Init => Inv
<1> SUFFICES ASSUME Init PROVE Inv
  OBVIOUS
<1>1. /\ DOMAIN db = {ProfileKey, RevisionKey}
      /\ stored = Nil
  BY DEF Init, stored, Read, Gone, Put
<1>2. NoLogin \in State
  BY LoginAssumption DEF NoLogin, State
<1>3. Typed
  BY <1>1, <1>2 DEF Init, Typed, LoginType
<1>4. SubscriptionsAreFenced
  BY <1>1, KindsOfProfiles DEF SubscriptionsAreFenced
<1> QED
  BY <1>3, <1>4 DEF Init, Inv, Answered, NoLogin

-----------------------------------------------------------------------------
(* The writes of the profile.                                              *)

(* A commit leaves the store, or writes a subscription with its revision.  *)
Committed(profile) ==
  /\ DOMAIN db' = DOMAIN db
  /\ \/ db' = db
     \/ /\ db'[ProfileKey] = Put(profile, Nil)
        /\ db'[RevisionKey] = Put(profile.revision, Nil)

LEMMA CommitsAreWhole ==
  ASSUME Typed, NEW profile, NEW conditions, NEW result,
         Transact(Transaction(conditions, Stored(profile)), result)
  PROVE  Committed(profile)
<1> DEFINE txn == Transaction(conditions, Stored(profile))
<1>1. db' = db \/ db' = Written(db, txn)
  BY TransactionIsAtomic
<1>2. CASE db' = Written(db, txn)
  <2>1. DOMAIN txn.mutations = {ProfileKey, RevisionKey}
    BY DEF Transaction, Stored
  <2>2. ProfileKey \in DOMAIN db /\ RevisionKey \in DOMAIN db
    BY DEF Typed
  <2>3. /\ db'[ProfileKey] = txn.mutations[ProfileKey]
        /\ db'[RevisionKey] = txn.mutations[RevisionKey]
    BY <1>2, <2>1, <2>2, WrittenAt
  <2>4. /\ txn.mutations[ProfileKey] = Put(profile, Nil)
        /\ txn.mutations[RevisionKey] = Put(profile.revision, Nil)
    BY DEF Transaction, Stored, ProfileKey, RevisionKey
  <2>5. DOMAIN db' = DOMAIN db
    BY <1>2 DEF Written
  <2> QED
    BY <2>3, <2>4, <2>5 DEF Committed
<1> QED
  BY <1>1, <1>2 DEF Committed

(* What a step does to the store.                                          *)
StoreSteps ==
  \/ db' = db
  \/ \E n \in Nat : Committed(Profile(n, n, FALSE))
  \/ /\ DOMAIN db' = DOMAIN db
     /\ db'[RevisionKey] = db[RevisionKey]
     /\ \/ db'[ProfileKey] = Gone
        \/ \E n \in Nat : db'[ProfileKey] = Put(Imported(n), Nil)

LEMMA WritesOfProfiles ==
  ASSUME Typed, NEW entry, WriteProfile(entry)
  PROVE  \/ db' = db
         \/ /\ DOMAIN db' = DOMAIN db
            /\ db'[RevisionKey] = db[RevisionKey]
            /\ db'[ProfileKey] = entry
BY DEF Typed, WriteProfile, ProfileKey, RevisionKey

(* The profile that a step leaves in the store.                            *)
LEMMA StoredAfter ==
  ASSUME StoreSteps
  PROVE  \/ db' = db
         \/ \E n \in Nat : stored' = Profile(n, n, FALSE) /\ Read(db', RevisionKey) = n
         \/ stored' = Nil
         \/ \E n \in Nat : stored' = Imported(n)
<1>1. ASSUME NEW n \in Nat, Committed(Profile(n, n, FALSE)), db' # db
      PROVE  stored' = Profile(n, n, FALSE) /\ Read(db', RevisionKey) = n
  <2>1. Profile(n, n, FALSE).revision = n
    BY DEF Profile
  <2>2. db'[ProfileKey] = Put(Profile(n, n, FALSE), Nil) /\ db'[RevisionKey] = Put(n, Nil)
    BY <1>1, <2>1 DEF Committed
  <2> QED
    BY <2>2 DEF stored, Read, Put
<1>2. ASSUME NEW n \in Nat, db'[ProfileKey] = Put(Imported(n), Nil)
      PROVE  stored' = Imported(n)
  BY <1>2 DEF stored, Read, Put
<1>3. db'[ProfileKey] = Gone => stored' = Nil
  BY DEF stored, Read, Gone, Put
<1>4. \/ db' = db
      \/ \E n \in Nat : Committed(Profile(n, n, FALSE))
      \/ db'[ProfileKey] = Gone
      \/ \E n \in Nat : db'[ProfileKey] = Put(Imported(n), Nil)
  BY DEF StoreSteps
<1> QED
  BY <1>1, <1>2, <1>3, <1>4

LEMMA StepsOfTheStore ==
  ASSUME Inv, [Next]_vars
  PROVE  StoreSteps
<1>1. Typed /\ Fresh \in Nat
  BY DEF Inv, Typed, Fresh
<1>2. ASSUME NEW l \in Login, CommitProfile(l)
      PROVE  StoreSteps
  <2> DEFINE profile == Profile(Fresh, Fresh, FALSE)
  <2>1. PICK result \in Result : Transact(CommitOf(l, profile), result)
    BY <1>2 DEF CommitProfile
  <2>2. \E conditions : CommitOf(l, profile) = Transaction(conditions, Stored(profile))
    BY DEF CommitOf, InitialWrite, Commit, ReplaceLegacy
  <2>3. Committed(profile)
    BY <1>1, <2>1, <2>2, CommitsAreWhole
  <2> QED
    BY <1>1, <2>3 DEF StoreSteps
<1>3. CASE CommitRefresh
  <2>1. PICK result \in Result :
          Transact(Commit(refresh.revision, Profile(Fresh, Fresh, FALSE)), result)
    BY <1>3 DEF CommitRefresh
  <2>2. Committed(Profile(Fresh, Fresh, FALSE))
    BY <1>1, <2>1, CommitsAreWhole DEF Commit
  <2> QED
    BY <1>1, <2>2 DEF StoreSteps
<1>4. CASE ImportProfile
  <2>1. WriteProfile(Put(Imported(Fresh), Nil))
    BY <1>4 DEF ImportProfile
  <2> QED
    BY <1>1, <2>1, WritesOfProfiles DEF StoreSteps
<1>5. CASE RemoveProfile
  <2>1. WriteProfile(Gone) \/ UNCHANGED db
    BY <1>5 DEF RemoveProfile
  <2> QED
    BY <1>1, <2>1, WritesOfProfiles DEF StoreSteps
<1> QED
  BY <1>2, <1>3, <1>4, <1>5
  DEF Next, vars, StoreSteps, ReadExistingProfile, ReceiveRequest, Advance, Fail, BindPort,
      OpenBrowser, AwaitCallback, ExchangeAuthorizationCode, CompareLegacy, RevokeToken,
      BeginRefresh, Tick

-----------------------------------------------------------------------------
(* The invariant is inductive.                                             *)

(* A login that is typed and answered after a step makes the step typed.   *)
LEMMA OneLoginMoves ==
  ASSUME Inv, NEW l \in Login, NEW new \in State,
         login' = [login EXCEPT ![l] = new],
         new.pc = "bind" => new.redirect \in Port,
         new.answer \in {Nil, "refused", l},
         new.pc \in {"exchange", "fence", "commit"} => new.answer = l
  PROVE  login' \in LoginType /\ \A k \in Login : Answered(k)'
BY DEF Inv, Typed, LoginType, Answered

(* What a step does to a login.                                            *)
LEMMA StepsOfLogins ==
  ASSUME Inv, [Next]_vars
  PROVE  login' \in LoginType /\ \A l \in Login : Answered(l)'
<1> DEFINE Goal == login' \in LoginType /\ \A l \in Login : Answered(l)'
<1>1. /\ login \in LoginType
      /\ stored \in Known \cup {Nil}
      /\ 1 \in Port
      /\ CallbackTimeout \in 0..CallbackTimeout
      /\ 0 \in 0..CallbackTimeout
      /\ \A l \in Login : login[l] \in State
      /\ \A l \in Login : Answered(l)
  BY LoginAssumption DEF Inv, Typed, Port, LoginType
<1>2. CASE UNCHANGED login
  BY <1>1, <1>2 DEF Answered
<1>3. ASSUME NEW l \in Login, ReadExistingProfile(l)
      PROVE  Goal
  <2> DEFINE new == [login[l] EXCEPT !.pc = "bind", !.base = stored, !.redirect = 1]
  <2>1. login' = [login EXCEPT ![l] = new]
    BY <1>3 DEF ReadExistingProfile
  <2>2. new \in State /\ new.pc = "bind" /\ new.redirect = 1 /\ new.answer = login[l].answer
    BY <1>1 DEF State, Running
  <2> HIDE DEF new
  <2> QED
    BY <1>1, <2>1, <2>2, OneLoginMoves DEF Answered
<1>4. ASSUME NEW l \in Login, ReceiveRequest(l)
      PROVE  Goal
  <2>1. /\ login[l].answer = Nil
        /\ \E answer \in {"refused", l} : login' = [login EXCEPT ![l].answer = answer]
    BY <1>4 DEF ReceiveRequest, DecodeRequest
  <2>2. l # Nil
    BY LoginAssumption
  <2> QED
    BY <1>1, <2>1, <2>2 DEF LoginType, State, Answered
<1>5. ASSUME NEW l \in Login, NEW outcome \in {"stored", "failed"}, End(l, outcome)
      PROVE  Goal
  <2>1. login' = [login EXCEPT ![l] = [NoLogin EXCEPT !.pc = outcome,
                                                     !.tab = login[l].tab,
                                                     !.redirect = login[l].redirect]]
    BY <1>5 DEF End
  <2> QED
    BY <1>1, <2>1 DEF LoginType, State, NoLogin, Answered
<1>6. ASSUME NEW l \in Login, NEW point \in Running, Go(l, point),
             point # "bind",
             point \in {"exchange", "fence", "commit"} =>
               login[l].pc \in {"exchange", "fence", "commit"}
      PROVE  Goal
  BY <1>1, <1>6 DEF Go, LoginType, State, Answered
<1>7. ASSUME NEW l \in Login, BindPort(l)
      PROVE  Goal
  <2>1. login[l].pc = "bind" /\ login[l].redirect \in Port
    BY <1>1, <1>7 DEF BindPort, At, Answered
  <2>2. ASSUME login' = [login EXCEPT ![l].redirect = login[l].redirect + 1],
               MorePorts(login[l].redirect)
        PROVE  Goal
    <3>1. login[l].redirect + 1 \in Port
      BY <2>1, <2>2, LoginAssumption DEF MorePorts, Port
    <3> QED
      BY <1>1, <2>2, <3>1 DEF LoginType, State, Answered
  <2> QED
    BY <1>5, <1>6, <1>7, <2>2 DEF BindPort, Running, Listening
<1>8. ASSUME NEW l \in Login, OpenBrowser(l)
      PROVE  Goal
  <2> DEFINE new == [login[l] EXCEPT !.pc = "await", !.tab = TRUE,
                                     !.timer = CallbackTimeout]
  <2>1. login' = [login EXCEPT ![l] = new]
    BY <1>8 DEF OpenBrowser
  <2>2. new \in State /\ new.pc = "await" /\ new.answer = login[l].answer
    BY <1>1 DEF State, Running, Listening
  <2> HIDE DEF new
  <2> QED
    BY <1>1, <2>1, <2>2, OneLoginMoves DEF Answered
<1>9. ASSUME NEW l \in Login, AwaitCallback(l)
      PROVE  Goal
  <2>1. CASE login[l].answer \in Login /\ Proceed(l)
    <3>1. login[l].answer = l
      BY <1>1, <2>1, LoginAssumption DEF Answered
    <3> DEFINE new == [login[l] EXCEPT !.pc = "exchange", !.timer = 0]
    <3>2. login' = [login EXCEPT ![l] = new]
      BY <2>1 DEF Proceed
    <3>3. new \in State /\ new.pc = "exchange" /\ new.answer = l
      BY <1>1, <3>1 DEF State, Running, Listening
    <3> HIDE DEF new
    <3> QED
      BY <3>2, <3>3, OneLoginMoves
  <2> QED
    BY <1>5, <1>9, <2>1 DEF AwaitCallback
<1>10. ASSUME NEW l \in Login,
              ExchangeAuthorizationCode(l) \/ CompareLegacy(l) \/ CommitProfile(l) \/ Fail(l)
       PROVE  Goal
  BY <1>5, <1>6, <1>10
  DEF ExchangeAuthorizationCode, CompareLegacy, CommitProfile, Fail, At, Running, Listening
<1>11. CASE Tick
  <2>1. login' = [l \in Login |->
                    [login[l] EXCEPT !.timer = IF @ = 0 THEN 0 ELSE @ - 1]]
    BY <1>11 DEF Tick
  <2>2. \A t \in 0..CallbackTimeout : (IF t = 0 THEN 0 ELSE t - 1) \in 0..CallbackTimeout
    BY LoginAssumption
  <2> QED
    BY <1>1, <2>1, <2>2 DEF LoginType, State, Answered
<1> QED
  BY <1>2, <1>3, <1>4, <1>7, <1>8, <1>9, <1>10, <1>11
  DEF Next, vars, Advance, ImportProfile, RevokeToken, RemoveProfile, BeginRefresh,
      CommitRefresh

LEMMA StepsKeepInv == Inv /\ [Next]_vars => Inv'
<1> SUFFICES ASSUME Inv, [Next]_vars PROVE Inv'
  OBVIOUS
<1>1. Typed /\ StoreSteps
  BY StepsOfTheStore DEF Inv
<1>2. /\ DOMAIN db' = {ProfileKey, RevisionKey}
      /\ stored' \in Known \cup {Nil}
  <2>1. DOMAIN db' = {ProfileKey, RevisionKey}
    BY <1>1 DEF Typed, StoreSteps, Committed
  <2>2. db' = db => stored' = stored
    BY DEF stored
  <2> QED
    BY <1>1, <2>1, <2>2, StoredAfter DEF Typed, Known, Subscribed
<1>3. made' \in Nat
  <2>1. made' \in {made, Fresh}
    BY DEF Next, vars, ReadExistingProfile, ReceiveRequest, Advance, Fail, BindPort,
           OpenBrowser, AwaitCallback, ExchangeAuthorizationCode, CompareLegacy,
           CommitProfile, ImportProfile, RevokeToken, RemoveProfile, BeginRefresh,
           CommitRefresh, Tick
  <2> QED
    BY <1>1, <2>1 DEF Typed, Fresh
<1>4. refresh' \in Subscribed \cup {Nil}
  <2>1. CASE BeginRefresh
    BY <1>1, <2>1, KindsOfProfiles DEF BeginRefresh, Typed, Known
  <2>2. CASE UNCHANGED refresh \/ refresh' = Nil
    BY <1>1, <2>2 DEF Typed
  <2> QED
    BY <2>1, <2>2
    DEF Next, vars, ReadExistingProfile, ReceiveRequest, Advance, Fail, BindPort,
        OpenBrowser, AwaitCallback, ExchangeAuthorizationCode, CompareLegacy,
        CommitProfile, ImportProfile, RevokeToken, RemoveProfile, CommitRefresh, Tick
<1>5. SubscriptionsAreFenced'
  <2>1. CASE db' = db
    BY <2>1 DEF Inv, SubscriptionsAreFenced, stored
  <2>2. CASE \E n \in Nat : stored' = Profile(n, n, FALSE) /\ Read(db', RevisionKey) = n
    BY <2>2 DEF SubscriptionsAreFenced, Profile
  <2>3. CASE stored' = Nil \/ \E n \in Nat : stored' = Imported(n)
    BY <2>3, KindsOfProfiles DEF SubscriptionsAreFenced
  <2> QED
    BY <1>1, <2>1, <2>2, <2>3, StoredAfter
<1> QED
  BY <1>2, <1>3, <1>4, <1>5, StepsOfLogins DEF Inv, Typed

LEMMA Invariance == Spec => []Inv
BY Initially, StepsKeepInv, PTL DEF Spec

(* Store, logins, ports, refresh and revocation keep their types.          *)
THEOREM TypeCorrect == Spec => []TypeOK
<1>1. Init => TypeOK
  <2> SUFFICES ASSUME Init PROVE TypeOK
    OBVIOUS
  <2>1. Typed
    BY Initially DEF Inv
  <2>2. db[ProfileKey] = Gone /\ db[RevisionKey] = Gone
    BY DEF Init
  <2>3. port \in [Port -> Login \cup {"free", "foreign"}]
    <3>1. {"free", "foreign"} \subseteq Login \cup {"free", "foreign"}
      OBVIOUS
    <3>2. port \in [Port -> {"free", "foreign"}]
      BY DEF Init
    <3> QED
      BY <3>1, <3>2
  <2>4. revoking \in BOOLEAN
    BY DEF Init
  <2>5. faults \in 0..MaxFaults
    BY LoginAssumption DEF Init
  <2>6. /\ db[ProfileKey] \in [value : ProfileType \cup {Nil}, ttl : {Nil}]
        /\ db[RevisionKey] \in [value : Nat \cup {Nil}, ttl : {Nil}]
    BY <2>2 DEF Gone, Put
  <2> QED
    BY <2>1, <2>3, <2>4, <2>5, <2>6, TypedIsTyped DEF TypeOK, Typed, LoginType
<1>2. Inv /\ TypeOK /\ [Next]_vars => TypeOK'
  <2> SUFFICES ASSUME Inv, TypeOK, [Next]_vars PROVE TypeOK'
    OBVIOUS
  <2>1. Typed' /\ StoreSteps
    BY StepsKeepInv, StepsOfTheStore DEF Inv
  <2>2. /\ db'[ProfileKey] \in [value : ProfileType \cup {Nil}, ttl : {Nil}]
        /\ db'[RevisionKey] \in [value : Nat \cup {Nil}, ttl : {Nil}]
    <3> DEFINE Profiles == [value : ProfileType \cup {Nil}, ttl : {Nil}]
               Revisions == [value : Nat \cup {Nil}, ttl : {Nil}]
    <3>1. ASSUME NEW n \in Nat
          PROVE  /\ Put(Profile(n, n, FALSE), Nil) \in Profiles
                 /\ Put(Profile(n, n, FALSE).revision, Nil) \in Revisions
                 /\ Put(Imported(n), Nil) \in Profiles
      <4>1. Profile(n, n, FALSE) \in Known /\ Imported(n) \in Known
        BY DEF Known, Subscribed
      <4>2. Profile(n, n, FALSE).revision = n
        BY DEF Profile
      <4> QED
        BY <4>1, <4>2, TypedIsTyped DEF Put
    <3>2. Gone \in Profiles
      BY DEF Gone, Put
    <3>3. db[ProfileKey] \in Profiles /\ db[RevisionKey] \in Revisions
      BY DEF TypeOK
    <3> HIDE DEF Profiles, Revisions
    <3>4. db'[ProfileKey] \in Profiles /\ db'[RevisionKey] \in Revisions
      BY <2>1, <3>1, <3>2, <3>3 DEF StoreSteps, Committed
    <3> QED
      BY <3>4 DEF Profiles, Revisions
  <2>3. port' \in [Port -> Login \cup {"free", "foreign"}]
    <3> DEFINE Ports == [Port -> Login \cup {"free", "foreign"}]
    <3>1. port \in Ports
      BY DEF TypeOK
    <3>2. ASSUME NEW l \in Login, NEW outcome, End(l, outcome)
          PROVE  port' \in Ports
      BY <3>1, <3>2 DEF End
    <3>3. ASSUME NEW l \in Login, BindPort(l)
          PROVE  port' \in Ports
      <4>1. CASE port' = [port EXCEPT ![login[l].redirect] = l]
        BY <3>1, <4>1
      <4>2. CASE UNCHANGED port
        BY <3>1, <4>2
      <4> QED
        BY <3>2, <3>3, <4>1, <4>2 DEF BindPort
    <3>4. ASSUME NEW l \in Login,
                 AwaitCallback(l) \/ CompareLegacy(l) \/ CommitProfile(l) \/ Fail(l)
          PROVE  port' \in Ports
      BY <3>1, <3>2, <3>4 DEF AwaitCallback, CompareLegacy, CommitProfile, Fail
    <3>5. \/ \E l \in Login : BindPort(l) \/ AwaitCallback(l) \/ CompareLegacy(l) \/ CommitProfile(l) \/ Fail(l)
          \/ UNCHANGED port
      BY DEF Next, vars, ReadExistingProfile, ReceiveRequest, Advance, OpenBrowser,
             ExchangeAuthorizationCode, ImportProfile, RevokeToken, RemoveProfile,
             BeginRefresh, CommitRefresh, Tick
    <3>6. port' \in Ports
      BY <3>1, <3>3, <3>4, <3>5
    <3> QED
      BY <3>6 DEF Ports
  <2>4. revoking' \in BOOLEAN
    BY DEF TypeOK, Next, vars, ReadExistingProfile, ReceiveRequest, Advance, Fail, BindPort,
           OpenBrowser, AwaitCallback, ExchangeAuthorizationCode, CompareLegacy,
           CommitProfile, ImportProfile, RevokeToken, RemoveProfile, BeginRefresh,
           CommitRefresh, Tick
  <2>5. faults' \in 0..MaxFaults
    <3>1. \/ UNCHANGED faults
          \/ Fault
          \/ \E txn, result : Transact(txn, result)
      BY DEF Next, vars, ReadExistingProfile, ReceiveRequest, Advance, Fail, BindPort,
             OpenBrowser, AwaitCallback, ExchangeAuthorizationCode, CompareLegacy,
             CommitProfile, ImportProfile, RevokeToken, RemoveProfile, BeginRefresh,
             CommitRefresh, Tick, WriteProfile
    <3> QED
      BY <3>1, LoginAssumption DEF TypeOK, Transact, Fault
  <2> QED
    BY <2>1, <2>2, <2>3, <2>4, <2>5, TypedIsTyped DEF TypeOK, Typed, LoginType
<1> QED
  BY <1>1, <1>2, Invariance, PTL DEF Spec

(* A login goes on only with the code of its own authorization session,    *)
(* whatever the tabs of other logins send to its port (decodeRequest and   *)
(* awaitCallback of loopback-callback.ts).                                 *)
THEOREM CodesStayHome == Spec => []CodesBelongToTheirLogin
<1>1. Inv => CodesBelongToTheirLogin
  BY DEF Inv, Answered, CodesBelongToTheirLogin
<1> QED
  BY <1>1, Invariance, PTL

(* A stored subscription is the one its clear revision names, whatever     *)
(* imports and revocations leave behind (storage/atomic.ts).               *)
THEOREM Fenced == Spec => []SubscriptionsAreFenced
<1>1. Inv => SubscriptionsAreFenced
  BY DEF Inv
<1> QED
  BY <1>1, Invariance, PTL

-----------------------------------------------------------------------------
(* Who replaces a profile has read it.                                     *)

(* A commit fenced by a revision replaces the subscription of that         *)
(* revision, which is what was read, or an import that left it standing.   *)
LEMMA FencedCommitsReplaceTheirRead ==
  ASSUME Inv, NEW read \in Subscribed, NEW profile, NEW result,
         Transact(Commit(read.revision, profile), result),
         stored # Nil, stored' # stored
  PROVE  \/ read = stored
         \/ /\ Kind(stored) = "access-token-import"
            /\ Kind(read) = "subscription"
            /\ read.revision = Read(db, RevisionKey)
<1>1. Holds(db, Commit(read.revision, profile))
  BY TransactionIsAtomic DEF stored
<1>2. Read(db, RevisionKey) = read.revision
  BY <1>1 DEF Holds, Commit, Transaction
<1>3. CASE stored \in Subscribed
  BY <1>2, <1>3, KindsOfProfiles DEF Inv, SubscriptionsAreFenced
<1>4. CASE \E n \in Nat : stored = Imported(n)
  BY <1>2, <1>4, KindsOfProfiles
<1> QED
  BY <1>3, <1>4 DEF Inv, Typed, Known

(* The other two commits compare the whole profile.                        *)
LEMMA WholeConditions ==
  ASSUME NEW profile
  PROVE  /\ Holds(db, InitialWrite(profile)) => stored = Nil
         /\ \A base : Holds(db, ReplaceLegacy(base, profile)) => stored = base
BY DEF Holds, InitialWrite, ReplaceLegacy, Transaction, stored, ProfileKey, RevisionKey

(* A subscription is replaced only by a writer that has read that very     *)
(* subscription, or by an import; an imported profile, by the login that   *)
(* read it, by another import, or by a writer that read the subscription   *)
(* whose revision still stands (the conditions of storage/atomic.ts).      *)
THEOREM WritersHaveRead == Spec => WritersReplaceWhatTheyRead
<1> DEFINE Reads == {refresh} \cup {login[l].base : l \in {k \in Login : At(k, "commit")}}
           Replaced(read) ==
             \/ read = stored
             \/ /\ Kind(stored) = "access-token-import"
                /\ Kind(read) = "subscription"
                /\ read.revision = Read(db, RevisionKey)
<1>1. ASSUME Inv, [Next]_vars, stored # Nil, Kind(stored') = "subscription", stored' # stored
      PROVE  \E read \in Reads : Replaced(read)
  <2>1. db' # db
    BY <1>1 DEF stored
  <2>2. Typed /\ Fresh \in Nat
    BY <1>1 DEF Inv, Typed, Fresh
  <2>3. ASSUME NEW l \in Login, CommitProfile(l)
        PROVE  \E read \in Reads : Replaced(read)
    <3> DEFINE base == login[l].base
               profile == Profile(Fresh, Fresh, FALSE)
    <3>1. base \in Reads /\ base \in Known \cup {Nil}
      BY <2>2, <2>3 DEF CommitProfile, Typed, LoginType, State
    <3>2. PICK result \in Result : Transact(CommitOf(l, profile), result)
      BY <2>3 DEF CommitProfile
    <3>3. Holds(db, CommitOf(l, profile))
      BY <2>1, <3>2, TransactionIsAtomic
    <3>4. CASE base \in Subscribed
      <4>1. CommitOf(l, profile) = Commit(base.revision, profile)
        BY <3>4, KindsOfProfiles DEF CommitOf
      <4>2. Replaced(base)
        BY <1>1, <3>2, <3>4, <4>1, FencedCommitsReplaceTheirRead
      <4> QED
        BY <3>1, <4>2
    <3>5. CASE base = Nil
      <4>1. CommitOf(l, profile) = InitialWrite(profile)
        BY <3>5, KindsOfProfiles DEF CommitOf
      <4>2. stored = Nil
        BY <3>3, <4>1, WholeConditions
      <4> QED
        BY <1>1, <4>2
    <3>6. CASE \E n \in Nat : base = Imported(n)
      <4>1. CommitOf(l, profile) = ReplaceLegacy(base, profile)
        BY <3>6, KindsOfProfiles DEF CommitOf
      <4>2. stored = base
        BY <3>3, <4>1, WholeConditions
      <4> QED
        BY <3>1, <4>2
    <3> QED
      BY <3>1, <3>4, <3>5, <3>6 DEF Known
  <2>4. CASE CommitRefresh
    <3>1. refresh \in Subscribed
      BY <2>2, <2>4 DEF CommitRefresh, Typed
    <3>2. PICK result \in Result :
            Transact(Commit(refresh.revision, Profile(Fresh, Fresh, FALSE)), result)
      BY <2>4 DEF CommitRefresh
    <3>3. Replaced(refresh)
      BY <1>1, <3>1, <3>2, FencedCommitsReplaceTheirRead
    <3> QED
      BY <3>3
  <2>5. CASE ImportProfile
    <3>1. stored' = Imported(Fresh)
      BY <2>1, <2>2, <2>5, WritesOfProfiles DEF ImportProfile, Put, stored, Read
    <3> QED
      BY <1>1, <2>2, <3>1, KindsOfProfiles
  <2>6. CASE RemoveProfile
    <3>1. stored' = Nil
      BY <2>1, <2>2, <2>6, WritesOfProfiles DEF RemoveProfile, Gone, Put, stored, Read
    <3> QED
      BY <1>1, <3>1, KindsOfProfiles
  <2> QED
    BY <1>1, <2>1, <2>3, <2>4, <2>5, <2>6
    DEF Next, vars, ReadExistingProfile, ReceiveRequest, Advance, Fail, BindPort,
        OpenBrowser, AwaitCallback, ExchangeAuthorizationCode, CompareLegacy, RevokeToken,
        BeginRefresh, Tick
<1> DEFINE Fencing == stored # Nil /\ Kind(stored') = "subscription" /\ stored' # stored =>
                        \E read \in Reads : Replaced(read)
<1>2. Inv /\ [Next]_vars => [Fencing]_vars
  BY <1>1
<1> QED
  BY <1>2, Invariance, PTL DEF Spec, WritersReplaceWhatTheyRead

-----------------------------------------------------------------------------
(* The callback ports.                                                     *)

Listens(l, p) == login[l].pc \in Listening /\ login[l].redirect = p

(* A login listens on the port of its redirect from its bind to its end,   *)
(* and holds no other port: one that is over, however it ended, holds none *)
(* (the scope around the server of bindFirstAvailablePort).                *)
PortsAreListenedOn ==
  \A p \in Port : \A l \in Login : port[p] = l <=> Listens(l, p)

PortType == [Port -> Login \cup {"free", "foreign"}]

(* A login that ends leaves its port, and nobody else's.                   *)
LEMMA EndsFreePorts ==
  ASSUME Inv, port \in PortType, PortsAreListenedOn,
         NEW l \in Login, NEW outcome \in {"stored", "failed"}, End(l, outcome)
  PROVE  PortsAreListenedOn'
<1>1. login \in LoginType
  BY DEF Inv, Typed
<1>2. /\ login'[l].pc = outcome
      /\ \A k \in Login \ {l} : login'[k] = login[k]
  BY <1>1 DEF End, LoginType, NoLogin
<1>3. \A p \in Port : port'[p] = IF port[p] = l THEN "free" ELSE port[p]
  BY DEF End
<1>4. ~(login'[l].pc \in Listening)
  BY <1>2 DEF Listening
<1>5. ASSUME NEW p \in Port, NEW k \in Login
      PROVE  port'[p] = k <=> login'[k].pc \in Listening /\ login'[k].redirect = p
  <2>1. CASE k = l
    <3>1. port'[p] # l
      BY <1>3, LoginAssumption
    <3> QED
      BY <1>4, <2>1, <3>1
  <2>2. CASE k # l
    <3>1. port'[p] = k <=> port[p] = k
      BY <1>3, <2>2, LoginAssumption
    <3>2. login'[k] = login[k]
      BY <1>2, <2>2
    <3> QED
      BY <3>1, <3>2 DEF PortsAreListenedOn, Listens
  <2> QED
    BY <2>1, <2>2
<1> QED
  BY <1>5 DEF PortsAreListenedOn, Listens

(* A login that binds takes a port that is free, or none.                  *)
LEMMA BindsTakeFreePorts ==
  ASSUME Inv, port \in PortType, PortsAreListenedOn, NEW l \in Login, BindPort(l)
  PROVE  PortsAreListenedOn'
<1>1. login \in LoginType
  BY DEF Inv, Typed
<1>2. login[l].pc = "bind" /\ login[l].redirect \in Port
  BY DEF BindPort, At, Inv, Answered
<1>3. ~(login[l].pc \in Listening)
  BY <1>2 DEF Listening
<1>4. \A p \in Port : port[p] # l
  BY <1>3 DEF PortsAreListenedOn, Listens
<1>5. CASE End(l, "failed")
  BY <1>5, EndsFreePorts
<1>6. CASE /\ port[login[l].redirect] = "free"
           /\ port' = [port EXCEPT ![login[l].redirect] = l]
           /\ Go(l, "browse")
  <2>1. /\ login'[l].pc = "browse" /\ login'[l].redirect = login[l].redirect
        /\ \A k \in Login \ {l} : login'[k] = login[k]
    BY <1>1, <1>6 DEF Go, LoginType, State
  <2>2. \A p \in Port : port'[p] = IF p = login[l].redirect THEN l ELSE port[p]
    BY <1>2, <1>6 DEF PortType
  <2>3. ASSUME NEW p \in Port, NEW k \in Login
        PROVE  port'[p] = k <=> login'[k].pc \in Listening /\ login'[k].redirect = p
    <3>1. CASE k = l
      BY <1>4, <2>1, <2>2, <3>1 DEF Listening
    <3>2. CASE k # l
      <4>1. port'[p] = k <=> port[p] = k
        BY <1>6, <2>2, <3>2, LoginAssumption
      <4>2. login'[k] = login[k]
        BY <2>1, <3>2
      <4> QED
        BY <4>1, <4>2 DEF PortsAreListenedOn, Listens
    <3> QED
      BY <3>1, <3>2
  <2> QED
    BY <2>3 DEF PortsAreListenedOn, Listens
<1>7. CASE /\ login' = [login EXCEPT ![l].redirect = login[l].redirect + 1]
           /\ UNCHANGED port
  <2>1. /\ login'[l].pc = "bind"
        /\ \A k \in Login \ {l} : login'[k] = login[k]
    BY <1>1, <1>2, <1>7 DEF LoginType, State
  <2>2. ASSUME NEW p \in Port, NEW k \in Login
        PROVE  port'[p] = k <=> login'[k].pc \in Listening /\ login'[k].redirect = p
    BY <1>4, <1>7, <2>1 DEF PortsAreListenedOn, Listens, Listening
  <2> QED
    BY <2>2 DEF PortsAreListenedOn, Listens
<1> QED
  BY <1>5, <1>6, <1>7 DEF BindPort

(* All else leaves the ports, and who listens where.                       *)
LEMMA ListenersStay ==
  ASSUME Inv, PortsAreListenedOn, UNCHANGED port,
         \A k \in Login : /\ login'[k].pc \in Listening <=> login[k].pc \in Listening
                          /\ login[k].pc \in Listening => login'[k].redirect = login[k].redirect
  PROVE  PortsAreListenedOn'
BY DEF PortsAreListenedOn, Listens

LEMMA StepsKeepListeners ==
  ASSUME Inv, port \in PortType, PortsAreListenedOn, [Next]_vars
  PROVE  PortsAreListenedOn'
<1>1. login \in LoginType
  BY DEF Inv, Typed
<1> DEFINE Stays == \A k \in Login :
                      /\ login'[k].pc \in Listening <=> login[k].pc \in Listening
                      /\ login[k].pc \in Listening => login'[k].redirect = login[k].redirect
<1>2. ASSUME NEW l \in Login, AwaitCallback(l) \/ CompareLegacy(l) \/ CommitProfile(l) \/ Fail(l)
      PROVE  PortsAreListenedOn'
  <2>1. CASE \E outcome \in {"stored", "failed"} : End(l, outcome)
    BY <2>1, EndsFreePorts
  <2>2. CASE At(l, "await") /\ Proceed(l) /\ UNCHANGED port
    <3>1. Stays
      BY <1>1, <2>2 DEF At, Proceed, LoginType, State, Listening
    <3> QED
      BY <2>2, <3>1, ListenersStay
  <2>3. CASE At(l, "fence") /\ Go(l, "commit") /\ UNCHANGED port
    <3>1. Stays
      BY <1>1, <2>3 DEF At, Go, LoginType, State, Listening
    <3> QED
      BY <2>3, <3>1, ListenersStay
  <2> QED
    BY <1>2, <2>1, <2>2, <2>3 DEF AwaitCallback, CompareLegacy, CommitProfile, Fail
<1>3. ASSUME NEW l \in Login, BindPort(l)
      PROVE  PortsAreListenedOn'
  BY <1>3, BindsTakeFreePorts
<1>4. ASSUME NEW l \in Login,
             \/ ReadExistingProfile(l) \/ ReceiveRequest(l) \/ OpenBrowser(l)
             \/ ExchangeAuthorizationCode(l)
      PROVE  PortsAreListenedOn'
  <2>1. UNCHANGED port
    BY <1>4 DEF ReadExistingProfile, ReceiveRequest, OpenBrowser, ExchangeAuthorizationCode
  <2>2. CASE ReadExistingProfile(l)
    <3>1. Stays
      BY <1>1, <2>2 DEF ReadExistingProfile, At, LoginType, State, Listening
    <3> QED
      BY <2>1, <3>1, ListenersStay
  <2>3. CASE ReceiveRequest(l)
    <3>1. PICK request \in Request :
            login' = [login EXCEPT ![l].answer = DecodeRequest(l, request)]
      BY <2>3 DEF ReceiveRequest
    <3>2. Stays
      BY <1>1, <3>1 DEF LoginType, State
    <3> QED
      BY <2>1, <3>2, ListenersStay
  <2>4. CASE OpenBrowser(l)
    <3>1. Stays
      BY <1>1, <2>4 DEF OpenBrowser, At, LoginType, State, Listening
    <3> QED
      BY <2>1, <3>1, ListenersStay
  <2>5. CASE ExchangeAuthorizationCode(l)
    <3>1. Stays
      BY <1>1, <2>5 DEF ExchangeAuthorizationCode, At, Go, LoginType, State, Listening
    <3> QED
      BY <2>1, <3>1, ListenersStay
  <2> QED
    BY <1>4, <2>2, <2>3, <2>4, <2>5
<1>5. CASE UNCHANGED <<login, port>>
  BY <1>5, ListenersStay
<1>6. CASE Tick
  <2>1. Stays /\ UNCHANGED port
    BY <1>1, <1>6 DEF Tick, LoginType, State
  <2> QED
    BY <2>1, ListenersStay
<1> QED
  BY <1>2, <1>3, <1>4, <1>5, <1>6
  DEF Next, vars, Advance, ImportProfile, RevokeToken, RemoveProfile, BeginRefresh,
      CommitRefresh

(* No login keeps a callback port beyond its end, whether it stores a      *)
(* profile, is refused, runs out of time, or fails anywhere; and none      *)
(* loses its port to another before.                                       *)
THEOREM PortsAreReleased == Spec => []PortsAreListenedOn
<1>1. Init => PortsAreListenedOn
  BY LoginAssumption DEF Init, PortsAreListenedOn, Listens, NoLogin, Listening
<1>2. Inv /\ TypeOK /\ PortsAreListenedOn /\ [Next]_vars => PortsAreListenedOn'
  BY StepsKeepListeners DEF TypeOK, PortType
<1> QED
  BY <1>1, <1>2, Invariance, TypeCorrect, PTL DEF Spec

-----------------------------------------------------------------------------
(* The end of a login.                                                     *)

(* How many steps a login may still make: it may try the ports that are    *)
(* left, and then it has five more.                                        *)
StepsFrom(state) ==
  CASE state.pc = "bind" -> 6 + (LastPort - state.redirect)
    [] state.pc = "browse" -> 5
    [] state.pc = "await" -> 4
    [] state.pc = "exchange" -> 3
    [] state.pc = "fence" -> 2
    [] state.pc = "commit" -> 1
    [] state.pc \in {"idle", "stored", "failed"} -> 0

StepsLeft(l) == StepsFrom(login[l])

(* Each step of a login's own brings it nearer to its end, no port and no  *)
(* answer is waited for twice, and nothing that other logins, the browser  *)
(* or the other writers do sends it back (login of login.ts and            *)
(* bindFirstAvailablePort).                                                *)
LoginsAreShort ==
  [][\A l \in Login :
       /\ Advance(l) => StepsLeft(l)' < StepsLeft(l)
       /\ StepsLeft(l)' > StepsLeft(l) => ReadExistingProfile(l)]_vars

Bounded(state) == state \in State /\ (state.pc = "bind" => state.redirect \in Port)

LEMMA StepsAreCounted ==
  ASSUME NEW state, Bounded(state)
  PROVE  StepsFrom(state) \in Nat
<1>1. state.pc \in {"idle", "stored", "failed"} \cup Running
  BY DEF Bounded, State
<1>2. CASE state.pc = "bind"
  <2>1. state.redirect \in 1..LastPort
    BY <1>2 DEF Bounded, Port
  <2>2. 6 + (LastPort - state.redirect) \in Nat
    BY <2>1, LoginAssumption
  <2> QED
    BY <1>2, <2>2 DEF StepsFrom
<1>3. CASE state.pc # "bind"
  BY <1>1, <1>3 DEF StepsFrom, Running, Listening
<1> QED
  BY <1>2, <1>3

LEMMA FewerIsNotMore ==
  ASSUME NEW n \in Nat, NEW k \in Nat
  PROVE  /\ k < n => ~(k > n)
         /\ ~(n > n)
         /\ ~(0 > n)
OBVIOUS

(* A login that is over has no steps left, one past its bind some.         *)
LEMMA EndsHaveNone ==
  ASSUME NEW state, NEW after, Bounded(state), state.pc \in Running,
         after.pc \in {"stored", "failed"}
  PROVE  StepsFrom(after) = 0 /\ StepsFrom(after) < StepsFrom(state)
<1>1. StepsFrom(after) = 0
  BY DEF StepsFrom
<1>2. CASE state.pc = "bind"
  <2>1. state.redirect \in 1..LastPort
    BY <1>2 DEF Bounded, Port
  <2>2. 6 + (LastPort - state.redirect) > 0
    BY <2>1, LoginAssumption
  <2> QED
    BY <1>1, <1>2, <2>2 DEF StepsFrom
<1>3. CASE state.pc # "bind"
  BY <1>1, <1>3 DEF StepsFrom, Running, Listening
<1> QED
  BY <1>2, <1>3

LEMMA EndsMoveOne ==
  ASSUME Inv, NEW l \in Login, NEW outcome \in {"stored", "failed"}, End(l, outcome)
  PROVE  /\ login'[l].pc = outcome
         /\ \A k \in Login \ {l} : login'[k] = login[k]
<1>1. login \in LoginType
  BY DEF Inv, Typed
<1> QED
  BY <1>1 DEF End, LoginType, NoLogin

LEMMA LoginsAdvance ==
  ASSUME Inv, NEW l \in Login, Advance(l)
  PROVE  /\ StepsFrom(login'[l]) < StepsFrom(login[l])
         /\ \A k \in Login \ {l} : login'[k] = login[k]
<1> DEFINE Goal == /\ StepsFrom(login'[l]) < StepsFrom(login[l])
                   /\ \A k \in Login \ {l} : login'[k] = login[k]
<1>1. login \in LoginType /\ Bounded(login[l])
  BY DEF Inv, Typed, Bounded, LoginType, Answered
<1>2. ASSUME login[l].pc \in Running, NEW outcome \in {"stored", "failed"}, End(l, outcome)
      PROVE  Goal
  BY <1>1, <1>2, EndsMoveOne, EndsHaveNone
<1>3. ASSUME NEW point, Go(l, point)
      PROVE  /\ login'[l].pc = point
             /\ \A k \in Login \ {l} : login'[k] = login[k]
  BY <1>1, <1>3 DEF Go, LoginType, State
<1>4. CASE BindPort(l)
  <2>1. login[l].pc = "bind"
    BY <1>4 DEF BindPort, At
  <2>2. PICK p \in 1..LastPort : p = login[l].redirect
    BY <1>1, <2>1 DEF Bounded, Port
  <2>3. StepsFrom(login[l]) = 6 + (LastPort - p)
    BY <2>1, <2>2 DEF StepsFrom
  <2>4. CASE Go(l, "browse")
    <3>1. StepsFrom(login'[l]) = 5
      BY <1>3, <2>4 DEF StepsFrom
    <3>2. 5 < 6 + (LastPort - p)
      BY <2>2, LoginAssumption
    <3> QED
      BY <1>3, <2>3, <2>4, <3>1, <3>2
  <2>5. CASE login' = [login EXCEPT ![l].redirect = p + 1]
    <3>1. /\ login'[l].pc = "bind" /\ login'[l].redirect = p + 1
          /\ \A k \in Login \ {l} : login'[k] = login[k]
      BY <1>1, <2>1, <2>5 DEF LoginType, State
    <3>2. StepsFrom(login'[l]) = 6 + (LastPort - (p + 1))
      BY <3>1 DEF StepsFrom
    <3>3. 6 + (LastPort - (p + 1)) < 6 + (LastPort - p)
      BY <2>2, LoginAssumption
    <3> QED
      BY <2>3, <3>1, <3>2, <3>3
  <2>6. CASE End(l, "failed")
    BY <1>2, <2>1, <2>6 DEF Running
  <2> QED
    BY <1>4, <2>2, <2>4, <2>5, <2>6 DEF BindPort
<1>5. CASE OpenBrowser(l)
  <2>1. /\ login[l].pc = "browse" /\ login'[l].pc = "await"
        /\ \A k \in Login \ {l} : login'[k] = login[k]
    BY <1>1, <1>5 DEF OpenBrowser, At, LoginType, State
  <2> QED
    BY <2>1 DEF StepsFrom
<1>6. CASE AwaitCallback(l)
  <2>1. login[l].pc = "await"
    BY <1>6 DEF AwaitCallback, At
  <2>2. CASE Proceed(l)
    <3>1. /\ login'[l].pc = "exchange"
          /\ \A k \in Login \ {l} : login'[k] = login[k]
      BY <1>1, <2>2 DEF Proceed, LoginType, State
    <3> QED
      BY <2>1, <3>1 DEF StepsFrom
  <2>3. CASE End(l, "failed")
    BY <1>2, <2>1, <2>3 DEF Running, Listening
  <2> QED
    BY <1>6, <2>2, <2>3 DEF AwaitCallback
<1>7. CASE ExchangeAuthorizationCode(l)
  <2>1. PICK point \in {"fence", "commit"} : Go(l, point)
    BY <1>7 DEF ExchangeAuthorizationCode
  <2>2. login[l].pc = "exchange"
    BY <1>7 DEF ExchangeAuthorizationCode, At
  <2> QED
    BY <1>3, <2>1, <2>2 DEF StepsFrom
<1>8. CASE CompareLegacy(l)
  <2>1. login[l].pc = "fence"
    BY <1>8 DEF CompareLegacy, At
  <2>2. CASE Go(l, "commit")
    BY <1>3, <2>1, <2>2 DEF StepsFrom
  <2>3. CASE End(l, "failed")
    BY <1>2, <2>1, <2>3 DEF Running, Listening
  <2> QED
    BY <1>8, <2>2, <2>3 DEF CompareLegacy
<1>9. CASE CommitProfile(l)
  <2>1. PICK outcome \in {"stored", "failed"} : End(l, outcome)
    BY <1>9 DEF CommitProfile
  <2>2. login[l].pc = "commit"
    BY <1>9 DEF CommitProfile, At
  <2> QED
    BY <1>2, <2>1, <2>2 DEF Running, Listening
<1> QED
  BY <1>4, <1>5, <1>6, <1>7, <1>8, <1>9 DEF Advance

LEMMA RestLeavesSteps ==
  ASSUME Inv, NEW l \in Login,
         \/ \E k \in Login : ReceiveRequest(k)
         \/ Tick
         \/ UNCHANGED login
  PROVE  StepsFrom(login'[l]) = StepsFrom(login[l])
<1>1. login \in LoginType
  BY DEF Inv, Typed
<1>2. login'[l].pc = login[l].pc /\ login'[l].redirect = login[l].redirect
  <2>1. ASSUME NEW k \in Login, ReceiveRequest(k)
        PROVE  login'[l].pc = login[l].pc /\ login'[l].redirect = login[l].redirect
    <3>1. PICK request \in Request :
            login' = [login EXCEPT ![k].answer = DecodeRequest(k, request)]
      BY <2>1 DEF ReceiveRequest
    <3> QED
      BY <1>1, <3>1 DEF LoginType, State
  <2>2. CASE Tick
    BY <1>1, <2>2 DEF Tick, LoginType, State
  <2> QED
    BY <2>1, <2>2
<1> QED
  BY <1>2 DEF StepsFrom

(* A login ends after five steps and one for each callback port: with a    *)
(* runtime that keeps running it and a clock that moves (EveryLoginEnds)   *)
(* this is what its end rests on, for any number of logins and faults.     *)
THEOREM LoginsEndSoon == Spec => LoginsAreShort
<1> DEFINE Short == \A l \in Login :
                      /\ Advance(l) => StepsLeft(l)' < StepsLeft(l)
                      /\ StepsLeft(l)' > StepsLeft(l) => ReadExistingProfile(l)
<1>1. ASSUME Inv, [Next]_vars, NEW l \in Login
      PROVE  /\ Advance(l) => StepsLeft(l)' < StepsLeft(l)
             /\ StepsLeft(l)' > StepsLeft(l) => ReadExistingProfile(l)
  <2>1. PICK was : was = StepsFrom(login[l])
    OBVIOUS
  <2>2. PICK now : now = StepsFrom(login'[l])
    OBVIOUS
  <2>3. StepsLeft(l) = was /\ StepsLeft(l)' = now
    BY <2>1, <2>2 DEF StepsLeft
  <2>4. was \in Nat /\ now \in Nat
    <3>1. Inv'
      BY <1>1, StepsKeepInv
    <3>2. Bounded(login[l])
      BY <1>1 DEF Inv, Typed, LoginType, Answered, Bounded
    <3>3. Bounded(login'[l])
      BY <3>1 DEF Inv, Typed, LoginType, Answered, Bounded
    <3> QED
      BY <2>1, <2>2, <3>2, <3>3, StepsAreCounted
  <2> SUFFICES (Advance(l) => now < was) /\ (now > was => ReadExistingProfile(l))
    BY <2>3
  <2>5. Advance(l) => now < was
    BY <1>1, <2>1, <2>2, LoginsAdvance
  <2>6. ASSUME NEW k \in Login, Advance(k), k # l
        PROVE  login'[l] = login[l]
    BY <1>1, <2>6, LoginsAdvance
  <2>7. ASSUME NEW k \in Login, Fail(k)
        PROVE  ~(now > was)
    <3>1. PICK outcome \in {"stored", "failed"} : End(k, outcome)
      BY <2>7 DEF Fail
    <3>2. CASE k = l
      <4>1. login'[l].pc = outcome
        BY <1>1, <3>1, <3>2, EndsMoveOne
      <4>2. now = 0
        BY <2>2, <4>1 DEF StepsFrom
      <4> QED
        BY <2>4, <4>2, FewerIsNotMore
    <3>3. CASE k # l
      <4>1. login'[l] = login[l]
        BY <1>1, <3>1, <3>3, EndsMoveOne
      <4>2. now = was
        BY <2>1, <2>2, <4>1
      <4> QED
        BY <2>4, <4>2, FewerIsNotMore
    <3> QED
      BY <3>2, <3>3
  <2>8. ASSUME NEW k \in Login, ReadExistingProfile(k), k # l
        PROVE  login'[l] = login[l]
    BY <1>1, <2>8 DEF ReadExistingProfile, Inv, Typed, LoginType
  <2>9. CASE (\E k \in Login : ReceiveRequest(k)) \/ Tick \/ UNCHANGED login
    <3>1. now = was
      BY <1>1, <2>1, <2>2, <2>9, RestLeavesSteps
    <3> QED
      BY <2>4, <2>5, <3>1, FewerIsNotMore
  <2>10. ASSUME login'[l] = login[l]
         PROVE  ~(now > was)
    <3>1. now = was
      BY <2>1, <2>2, <2>10
    <3> QED
      BY <2>4, <3>1, FewerIsNotMore
  <2>11. \/ \E k \in Login : Advance(k) \/ Fail(k) \/ ReadExistingProfile(k)
         \/ (\E k \in Login : ReceiveRequest(k)) \/ Tick \/ UNCHANGED login
    BY <1>1 DEF Next, vars, ImportProfile, RevokeToken, RemoveProfile, BeginRefresh,
                CommitRefresh
  <2>12. now > was => ReadExistingProfile(l)
    BY <2>4, <2>5, <2>6, <2>7, <2>8, <2>9, <2>10, <2>11, FewerIsNotMore
  <2> QED
    BY <2>5, <2>12
<1>2. Inv /\ [Next]_vars => [Short]_vars
  BY <1>1
<1> QED
  BY <1>2, Invariance, PTL DEF Spec, LoginsAreShort

=============================================================================
