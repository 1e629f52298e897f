-------------------------- MODULE CredentialRegister --------------------------
(***************************************************************************)
(* What the stored credential promises to those who write it.  A writer    *)
(* begins from the profile it reads: a renewal, with that profile's        *)
(* refresh token, or a login.  The provider grants it a token, or denies   *)
(* the renewal.  It replaces the profile only while that is still the one  *)
(* it read, with the very token it was granted; a denied renewal marks the *)
(* profile, under the same condition.  A writer may give up at any time,   *)
(* and a grant may be wasted; nothing else changes the profile, and no     *)
(* profile that anyone has read or replaced ever comes back.               *)
(***************************************************************************)
EXTENDS Naturals

CONSTANTS Renewal, Login, Nil

VARIABLES
  profile,   \* the stored profile
  renewal,   \* what each renewal works on
  login,     \* what each login works on
  issued     \* how many refresh tokens there have been

register == <<profile, renewal, login, issued>>

Nothing == [status |-> "none", base |-> Nil, refreshToken |-> Nil]

Init ==
  /\ profile # Nil => ~profile.requiresReauthentication
  /\ renewal = [r \in Renewal |-> Nothing]
  /\ login = [l \in Login |-> Nothing]
  /\ issued = 1

-----------------------------------------------------------------------------

BeginRenewal(r) ==
  /\ profile # Nil /\ ~profile.requiresReauthentication
  /\ renewal' = [renewal EXCEPT ![r] = [status |-> "inflight", base |-> profile,
                                        refreshToken |-> profile.refreshToken]]
  /\ UNCHANGED <<profile, login, issued>>

BeginLogin(l) ==
  /\ login' = [login EXCEPT ![l] = [status |-> "inflight", base |-> profile,
                                    refreshToken |-> Nil]]
  /\ UNCHANGED <<profile, renewal, issued>>

(* A renewal is granted its own token again, or the next one; a login the  *)
(* next one.                                                               *)
Issue(token) == issued' = IF token > issued THEN token ELSE issued

GrantRenewal(r) ==
  /\ renewal[r].status = "inflight"
  /\ \E token \in {renewal[r].refreshToken, issued + 1} :
       /\ renewal' = [renewal EXCEPT ![r].status = "granted", ![r].refreshToken = token]
       /\ Issue(token)
  /\ UNCHANGED <<profile, login>>

DenyRenewal(r) ==
  /\ renewal[r].status = "inflight"
  /\ renewal' = [renewal EXCEPT ![r].status = "denied"]
  /\ UNCHANGED <<profile, login, issued>>

GrantLogin(l) ==
  /\ login[l].status = "inflight"
  /\ login' = [login EXCEPT ![l].status = "granted", ![l].refreshToken = issued + 1]
  /\ issued' = issued + 1
  /\ UNCHANGED <<profile, renewal>>

GiveUpRenewal(r) ==
  /\ renewal' = [renewal EXCEPT ![r] = Nothing]
  /\ issued' \in {issued, issued + 1}
  /\ UNCHANGED <<profile, login>>

GiveUpLogin(l) ==
  /\ login' = [login EXCEPT ![l] = Nothing]
  /\ UNCHANGED <<profile, renewal, issued>>

-----------------------------------------------------------------------------

(* The revisions of the profiles that are stored or being worked on.       *)
Known ==
  {p.revision : p \in ({profile} \cup {renewal[r].base : r \in Renewal}
                                 \cup {login[l].base : l \in Login}) \ {Nil}}

Become(token, marked) ==
  /\ profile' # Nil
  /\ profile'.refreshToken = token
  /\ profile'.requiresReauthentication = marked
  /\ profile'.revision \notin Known
  /\ UNCHANGED issued

Renew(r) ==
  /\ renewal[r].status = "granted"
  /\ renewal[r].base = profile
  /\ Become(renewal[r].refreshToken, FALSE)
  /\ renewal' = [renewal EXCEPT ![r] = Nothing]
  /\ UNCHANGED login

Mark(r) ==
  /\ renewal[r].status = "denied"
  /\ renewal[r].base = profile
  /\ Become(profile.refreshToken, TRUE)
  /\ renewal' = [renewal EXCEPT ![r] = Nothing]
  /\ UNCHANGED login

Replace(l) ==
  /\ login[l].status = "granted"
  /\ login[l].base = profile
  /\ Become(login[l].refreshToken, FALSE)
  /\ login' = [login EXCEPT ![l] = Nothing]
  /\ UNCHANGED renewal

Next ==
  \/ \E r \in Renewal : \/ BeginRenewal(r) \/ GrantRenewal(r) \/ DenyRenewal(r)
                        \/ GiveUpRenewal(r) \/ Renew(r) \/ Mark(r)
  \/ \E l \in Login : BeginLogin(l) \/ GrantLogin(l) \/ GiveUpLogin(l) \/ Replace(l)

Spec == Init /\ [][Next]_register
=============================================================================
