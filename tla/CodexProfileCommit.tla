-------------------------- MODULE CodexProfileCommit --------------------------
(***************************************************************************)
(* The records of one Codex subject in the atomic store, and the           *)
(* transactions that change them: the fenced profile commits and the       *)
(* refresh lock of packages/codex/src/storage/atomic.ts.                   *)
(*                                                                         *)
(* A subscription profile is stored encrypted under one key and its        *)
(* credential revision in clear under another, so that a commit can        *)
(* compare the revision without reading the profile.                       *)
(***************************************************************************)
EXTENDS AtomicKeyValueStore

CONSTANT LockTtl    \* refreshPolicy.lockTtlMillis

ASSUME LockTtlAssumption == LockTtl \in Nat \ {0}

ProfileKey  == "profile"
RevisionKey == "revision"
LockKey     == "lock"

Profile(revision, refreshToken, requiresReauthentication) ==
  [kind |-> "subscription", revision |-> revision, refreshToken |-> refreshToken,
   requiresReauthentication |-> requiresReauthentication]

(* The access-token-import profile: its encrypted form, told from others   *)
(* by the nonce, is all that fences it.  It has no revision.               *)
Imported(nonce) == [kind |-> "access-token-import", nonce |-> nonce]

(* Mutant of Stored: the revision stays behind.                            *)
StoredProfileOnly(profile) == [k \in {ProfileKey} |-> Put(profile, Nil)]

(* The mutations of every commit: profile and revision change together.    *)
Stored(profile) ==
  [k \in {ProfileKey, RevisionKey} |->
     Put(IF k = ProfileKey THEN profile ELSE profile.revision, Nil)]

InitialWrite(profile) ==
  Transaction([k \in {ProfileKey, RevisionKey} |-> Nil], Stored(profile))

(* Mutant of ReplaceLegacy: it does not look for what it replaces.         *)
ReplaceLegacyUnfenced(expectedLegacyProfile, profile) ==
  Transaction([k \in {RevisionKey} |-> Nil], Stored(profile))

(* replaceLegacy, over an imported profile.                                *)
ReplaceLegacy(expectedLegacyProfile, profile) ==
  Transaction([k \in {ProfileKey, RevisionKey} |->
                 IF k = ProfileKey THEN expectedLegacyProfile ELSE Nil],
              Stored(profile))

(* replace, refresh and markReauthenticationRequired.                      *)
Commit(expectedRevision, profile) ==
  Transaction([k \in {RevisionKey} |-> expectedRevision], Stored(profile))

(* Mutants of the lock's two: taken whoever has it, removed whoever has it. *)
AcquireUnguarded(owner) ==
  Transaction(<<>>, [k \in {LockKey} |-> Put(owner, LockTtl)])

ReleaseUnowned(owner) == Transaction(<<>>, [k \in {LockKey} |-> Gone])

Acquire(owner) ==
  Transaction([k \in {LockKey} |-> Nil], [k \in {LockKey} |-> Put(owner, LockTtl)])

ReleaseLock(owner) ==
  Transaction([k \in {LockKey} |-> owner], [k \in {LockKey} |-> Gone])

=============================================================================
