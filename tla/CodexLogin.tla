------------------------------ MODULE CodexLogin ------------------------------
(***************************************************************************)
(* Trusted logins of one Codex subject, and what else writes its profile.  *)
(* Source: packages/codex/src/auth/login.ts, auth/loopback-callback.ts,    *)
(* auth/local-import.ts, auth/service.ts (revokeToken), storage/atomic.ts  *)
(* and the encrypted profile store of runtime.ts.                          *)
(*                                                                         *)
(* A login binds the first free callback port, opens a browser tab on its  *)
(* authorization session, and is settled by the first request its port     *)
(* receives, whoever sends it.  Its tab outlives it: an answer given late  *)
(* goes to the same port, where another login may be listening by then.    *)
(***************************************************************************)
EXTENDS CodexProfileCommit, AtomicStoreClient

CONSTANTS
  Login,            \* runs of the login command
  LastPort,         \* protocol.callbackPorts, as 1..LastPort
  CallbackTimeout,  \* input.callbackTimeoutMillis
  MaxProfiles       \* bound on the profiles that imports and refreshes make

ASSUME LoginAssumption ==
  /\ LastPort \in Nat \ {0}
  /\ CallbackTimeout \in Nat \ {0}
  /\ MaxProfiles \in Nat
  /\ MaxFaults \in Nat
  /\ Nil \notin Nat \cup Login \cup {"refused"}
  /\ Login \cap {"refused", "free", "foreign"} = {}

VARIABLES
  made,       \* how many profiles were made: revisions and nonces are fresh
  login,      \* where each login is
  port,       \* who listens on each callback port
  refresh,    \* the profile a refresh under way has read
  revoking    \* whether a revocation has read its profile

vars == <<db, faults, made, login, port, refresh, revoking>>

-----------------------------------------------------------------------------

Port == 1..LastPort

(* From the bind to the end of the login's scope, and all of a login.      *)
Listening == {"browse", "await", "exchange", "fence", "commit"}

Running == {"bind"} \cup Listening

Subscription == [kind : {"subscription"}, revision : Nat, refreshToken : Nat,
                 requiresReauthentication : BOOLEAN]

ProfileType == Subscription \cup [kind : {"access-token-import"}, nonce : Nat]

(* No value, told from every profile.                                      *)
ASSUME NilAssumption == Nil \notin ProfileType

TypeOK ==
  /\ DOMAIN db = {ProfileKey, RevisionKey}
  /\ db[ProfileKey] \in [value : ProfileType \cup {Nil}, ttl : {Nil}]
  /\ db[RevisionKey] \in [value : Nat \cup {Nil}, ttl : {Nil}]
  /\ made \in Nat
  /\ login \in [Login -> [pc : {"idle", "stored", "failed"} \cup Running,
                          base : ProfileType \cup {Nil},
                          redirect : Port \cup {Nil},
                          tab : BOOLEAN,
                          answer : Login \cup {Nil, "refused"},
                          timer : 0..CallbackTimeout]]
  /\ port \in [Port -> Login \cup {"free", "foreign"}]
  /\ refresh \in Subscription \cup {Nil}
  /\ revoking \in BOOLEAN
  /\ faults \in 0..MaxFaults

NoLogin == [pc |-> "idle", base |-> Nil, redirect |-> Nil, tab |-> FALSE,
            answer |-> Nil, timer |-> 0]

Init ==
  /\ db = [k \in {ProfileKey, RevisionKey} |-> Gone]
  /\ faults = 0
  /\ made = 0
  /\ login = [l \in Login |-> NoLogin]
  /\ port \in [Port -> {"free", "foreign"}]
  /\ refresh = Nil
  /\ revoking = FALSE

stored == Read(db, ProfileKey)

Kind(profile) == IF profile = Nil THEN "none" ELSE profile.kind

Fresh == made + 1

-----------------------------------------------------------------------------
(* The login command.                                                      *)

At(l, point) == login[l].pc = point

Go(l, point) == login' = [login EXCEPT ![l].pc = point]

(* The end of the scope closes the server; the tab stays.                  *)
End(l, outcome) ==
  /\ login' = [login EXCEPT ![l] = [NoLogin EXCEPT !.pc = outcome,
                                                   !.tab = login[l].tab,
                                                   !.redirect = login[l].redirect]]
  /\ port' = [p \in Port |-> IF port[p] = l THEN "free" ELSE port[p]]

ReadExistingProfile(l) ==
  /\ At(l, "idle")
  /\ login' = [login EXCEPT ![l].pc = "bind", ![l].base = stored, ![l].redirect = 1]
  /\ UNCHANGED <<db, faults, made, port, refresh, revoking>>

MorePorts(p) == p < LastPort

(* bindFirstAvailablePort: only a port in use lets it try the next one.    *)
BindPort(l) ==
  /\ At(l, "bind")
  /\ LET p == login[l].redirect
     IN  \/ /\ port[p] = "free"
            /\ port' = [port EXCEPT ![p] = l]
            /\ Go(l, "browse")
         \/ /\ port[p] # "free"
            /\ MorePorts(p)
            /\ login' = [login EXCEPT ![l].redirect = p + 1]
            /\ UNCHANGED port
         \/ port[p] # "free" /\ ~MorePorts(p) /\ End(l, "failed")
  /\ UNCHANGED <<db, faults, made, refresh, revoking>>

OpenBrowser(l) ==
  /\ At(l, "browse")
  /\ login' = [login EXCEPT ![l].pc = "await", ![l].tab = TRUE,
                            ![l].timer = CallbackTimeout]
  /\ UNCHANGED <<db, faults, made, port, refresh, revoking>>

(* A request of the browser: the answer of the operator in a tab, which    *)
(* carries the state of the tab's session and, when granted, its code; or  *)
(* anything else the loopback interface sends.                             *)
Request == [kind : {"granted", "denied"}, session : {l \in Login : login[l].tab}]
             \cup [kind : {"stray"}, session : {Nil}]

(* Mutant of DecodeRequest: it does not compare the state.                 *)
DecodeAnyState(l, request) ==
  IF request.kind = "granted" THEN request.session ELSE "refused"

(* decodeRequest: the code of its own session, or one of its refusals.     *)
DecodeRequest(l, request) ==
  IF request.kind = "granted" /\ request.session = l
  THEN request.session ELSE "refused"

(* handleCodexOAuthCallback: the first request settles the login.          *)
ReceiveRequest(l) ==
  /\ login[l].pc \in Listening
  /\ login[l].answer = Nil
  /\ \E request \in Request :
       /\ request.session # Nil => port[login[request.session].redirect] = l
       /\ login' = [login EXCEPT ![l].answer = DecodeRequest(l, request)]
  /\ UNCHANGED <<db, faults, made, port, refresh, revoking>>

Proceed(l) == login' = [login EXCEPT ![l].pc = "exchange", ![l].timer = 0]

(* Mutant of AwaitCallback: it has no timeout.                             *)
AwaitCallbackForEver(l) ==
  /\ At(l, "await")
  /\ \/ login[l].answer \in Login /\ Proceed(l) /\ UNCHANGED port
     \/ login[l].answer = "refused" /\ End(l, "failed")
  /\ UNCHANGED <<db, faults, made, refresh, revoking>>

AwaitCallback(l) ==
  /\ At(l, "await")
  /\ \/ login[l].answer \in Login /\ Proceed(l) /\ UNCHANGED port
     \/ login[l].answer = "refused" /\ End(l, "failed")
     \/ login[l].answer = Nil /\ login[l].timer = 0 /\ End(l, "failed")
  /\ UNCHANGED <<db, faults, made, refresh, revoking>>

(* exchangeAuthorizationCode; an imported profile is fenced by reading it. *)
ExchangeAuthorizationCode(l) ==
  /\ At(l, "exchange")
  /\ Go(l, IF Kind(login[l].base) = "access-token-import" THEN "fence" ELSE "commit")
  /\ UNCHANGED <<db, faults, made, port, refresh, revoking>>

(* replaceLegacy reads the profile again, and compares.                    *)
CompareLegacy(l) ==
  /\ At(l, "fence")
  /\ \/ stored = login[l].base /\ Go(l, "commit") /\ UNCHANGED port
     \/ stored # login[l].base /\ End(l, "failed")
  /\ UNCHANGED <<db, faults, made, refresh, revoking>>

CommitOf(l, profile) ==
  CASE Kind(login[l].base) = "none"         -> InitialWrite(profile)
    [] Kind(login[l].base) = "subscription" -> Commit(login[l].base.revision, profile)
    [] OTHER                                -> ReplaceLegacy(login[l].base, profile)

CommitProfile(l) ==
  /\ At(l, "commit")
  /\ \E result \in Result :
       /\ Transact(CommitOf(l, Profile(Fresh, Fresh, FALSE)), result)
       /\ End(l, IF result = "applied" THEN "stored" ELSE "failed")
  /\ made' = Fresh
  /\ UNCHANGED <<refresh, revoking>>

(* The store, the browser or the provider fails, the tokens are unusable,  *)
(* or the process dies.                                                    *)
Fail(l) ==
  /\ login[l].pc \in Running
  /\ Fault
  /\ End(l, "failed")
  /\ UNCHANGED <<db, made, refresh, revoking>>

-----------------------------------------------------------------------------
(* The other writers of the subject's profile.                             *)

(* A write of the plain store: it fails with or without its effect.        *)
WriteProfile(entry) ==
  LET written == [db EXCEPT ![ProfileKey] = entry]
  IN  \/ db' = written /\ UNCHANGED faults
      \/ db' \in {db, written} /\ Fault

(* importProfile: putProfile looks at nothing, and writes no revision.     *)
ImportProfile ==
  /\ made < MaxProfiles
  /\ WriteProfile(Put(Imported(Fresh), Nil))
  /\ made' = Fresh
  /\ UNCHANGED <<login, port, refresh, revoking>>

(* revokeToken: getProfile, the client's revoke, then removeProfile,       *)
(* which leaves the revision where it is.  The OAuth clients of the        *)
(* repository do not support revoke (client.ts:57, refresh-client.ts:23),  *)
(* so removeProfile waits for one that does; these two actions stand for   *)
(* the service with such a client.                                         *)
RevokeToken ==
  /\ ~revoking
  /\ stored # Nil
  /\ revoking' = TRUE
  /\ UNCHANGED <<db, faults, made, login, port, refresh>>

RemoveProfile ==
  /\ revoking
  /\ revoking' = FALSE
  /\ \/ WriteProfile(Gone)
     \/ Fault /\ UNCHANGED db
  /\ UNCHANGED <<made, login, port, refresh>>

(* A refresh of CodexRefresh, reduced to the profile it reads and its      *)
(* commit.                                                                 *)
BeginRefresh ==
  /\ refresh = Nil
  /\ Kind(stored) = "subscription"
  /\ refresh' = stored
  /\ UNCHANGED <<db, faults, made, login, port, revoking>>

CommitRefresh ==
  /\ refresh # Nil
  /\ made < MaxProfiles
  /\ \E result \in Result :
       Transact(Commit(refresh.revision, Profile(Fresh, Fresh, FALSE)), result)
  /\ made' = Fresh
  /\ refresh' = Nil
  /\ UNCHANGED <<login, port, revoking>>

-----------------------------------------------------------------------------

Tick ==
  /\ \E l \in Login : login[l].timer > 0
  /\ login' = [l \in Login |->
                 [login[l] EXCEPT !.timer = IF @ = 0 THEN 0 ELSE @ - 1]]
  /\ UNCHANGED <<db, faults, made, port, refresh, revoking>>

Advance(l) ==
  \/ BindPort(l) \/ OpenBrowser(l) \/ AwaitCallback(l)
  \/ ExchangeAuthorizationCode(l) \/ CompareLegacy(l) \/ CommitProfile(l)

Next ==
  \/ \E l \in Login :
       ReadExistingProfile(l) \/ ReceiveRequest(l) \/ Advance(l) \/ Fail(l)
  \/ ImportProfile \/ RevokeToken \/ RemoveProfile
  \/ BeginRefresh \/ CommitRefresh
  \/ Tick

Spec == Init /\ [][Next]_vars

(* The runtime runs the logins, HTTP timeouts stand behind the exchange,   *)
(* and the clock moves.                                                    *)
FairSpec ==
  /\ Spec
  /\ \A l \in Login : WF_vars(Advance(l))
  /\ WF_vars(Tick)

-----------------------------------------------------------------------------
(* Properties.                                                             *)

(* A login goes on only with the code of its own authorization session,    *)
(* although late answers for a login that is over reach the next login on  *)
(* the same port (the state compared by decodeRequest).                    *)
CodesBelongToTheirLogin ==
  \A l \in Login : login[l].pc \in {"exchange", "fence", "commit"} => login[l].answer = l

(* Whatever imports and revocations leave behind, a stored subscription is *)
(* the one its revision names, so that a commit fenced by it replaces what *)
(* was read (transactProfileCommit's two mutations, putProfile's one).     *)
SubscriptionsAreFenced ==
  Kind(stored) = "subscription" => Read(db, RevisionKey) = stored.revision

(* A subscription is replaced only by a writer that has read that very     *)
(* subscription, or by an import; an imported profile, by the login that   *)
(* read it, by another import, or by a writer that read the subscription   *)
(* whose revision still stands (the conditions of storage/atomic.ts).      *)
WritersReplaceWhatTheyRead ==
  [][stored # Nil /\ Kind(stored') = "subscription" /\ stored' # stored =>
       \E read \in {refresh} \cup {login[l].base : l \in {k \in Login : At(k, "commit")}} :
         \/ read = stored
         \/ /\ Kind(stored) = "access-token-import"
            /\ Kind(read) = "subscription"
            /\ read.revision = Read(db, RevisionKey)]_vars

(* Every login ends: the callback timeout bounds the wait for an operator  *)
(* who never answers (awaitCallback).                                      *)
EveryLoginEnds ==
  \A l \in Login : At(l, "bind") ~> login[l].pc \in {"stored", "failed"}

=============================================================================
