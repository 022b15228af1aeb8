------------------------------- MODULE SignIn -------------------------------
(***************************************************************************)
(* Signing in to the console (internal/admin): invitations, passkeys and   *)
(* sessions.  A phone is let in by a ceremony of two requests: the first   *)
(* stores a challenge, the second takes it, reads what it needs, asks the  *)
(* passkey library and writes in a transaction of its own.  A ceremony     *)
(* names the account, the passkey and the session it creates.              *)
(*                                                                         *)
(* The challenge, the token and the signature stand for themselves: a      *)
(* request knows the ceremony or the session it belongs to, or it does     *)
(* nothing.  A session that has run out is a session no longer live.       *)
(***************************************************************************)
EXTENDS Integers, FiniteSets

CONSTANTS
  Invitations,     \* enrollments there can be
  MaxCeremonies,   \* bound: ceremonies begun
  Revocations,     \* requests to revoke a passkey, one at a time each
  Nobody           \* no account, no passkey

VARIABLES
  users,        \* the accounts
  passkeys,     \* user_passkeys: [id, user]
  sessions,     \* user_sessions: [id, user, key, live, crossed]
  invited,      \* user_enrollments
  ceremonies,   \* webauthn_ceremonies, and the requests that took one
  revoking,     \* the transactions of RevokePasskey
  overlapped    \* accounts two revocations of which were open at once

signInVars == <<users, passkeys, sessions, invited, ceremonies, revoking, overlapped>>

ASSUME CeremonyAssumption == MaxCeremonies \in Nat /\ Nobody \notin Nat

Ceremonies == 1..MaxCeremonies
Unborn     == [phase |-> "unborn"]
Idle       == [phase |-> "idle"]
NotMinted  == [minted |-> FALSE, used |-> FALSE, expired |-> FALSE, user |-> Nobody]

SignInInit ==
  /\ users = {} /\ passkeys = {} /\ sessions = {}
  /\ invited = [i \in Invitations |-> NotMinted]
  /\ ceremonies = [c \in Ceremonies |-> Unborn]
  /\ revoking = [r \in Revocations |-> Idle]
  /\ overlapped = {}

-----------------------------------------------------------------------------
(* Statements.                                                             *)

GetFirstUser == IF users = {} THEN Nobody ELSE CHOOSE u \in users : \A w \in users : u <= w

GetUserByHandle(handle) == IF handle \in users THEN handle ELSE Nobody
CreateUser(handle)      == users' = users \union {handle}

ListPasskeys(u)      == {k \in passkeys : k.user = u}
CountPasskeys(u)     == Cardinality(ListPasskeys(u))
CreatePasskey(id, u) == passkeys' = passkeys \union {[id |-> id, user |-> u]}

(* GetLiveSession: what is asked of every request to the console.          *)
GetLiveSession(x)   == x \in sessions /\ x.live
ListLiveSessions(u) == {x \in sessions : x.user = u /\ x.live}

CreateEnrollment(i, u) == invited' = [invited EXCEPT ![i].minted = TRUE, ![i].user = u]

(* UPDATE ... WHERE used_at IS NULL AND expires_at > now(): one claimant.  *)
ClaimEnrollment(i) ==
  /\ invited[i].minted /\ ~invited[i].used /\ ~invited[i].expired
  /\ invited' = [invited EXCEPT ![i].used = TRUE]

ReleaseEnrollment(i) == invited' = [invited EXCEPT ![i].used = FALSE]

CreateCeremony(c, record) ==
  /\ ceremonies[c] = Unborn
  /\ \A d \in Ceremonies : d < c => ceremonies[d] # Unborn
  /\ ceremonies' = [ceremonies EXCEPT ![c] = record]

Becomes(c, record) == ceremonies' = [ceremonies EXCEPT ![c] = record]

(* Mutant: the challenge is read and left where it is.                     *)
KeepCeremony(c, purpose, record) ==
  /\ ceremonies[c].phase = "stored" /\ ceremonies[c].purpose = purpose
  /\ ceremonies' = [ceremonies EXCEPT
       ![c] = record,
       ![c + 1] = IF c < MaxCeremonies /\ @ = Unborn THEN ceremonies[c] ELSE @]

(* DELETE ... WHERE id AND expires_at > now() RETURNING: a challenge is    *)
(* answered once, whatever becomes of the answer.                          *)
ConsumeCeremony(c, purpose, record) ==
  /\ ceremonies[c].phase = "stored" /\ ceremonies[c].purpose = purpose
  /\ Becomes(c, record)

SweepExpiredAuth(c) == ceremonies[c].phase = "stored" /\ Becomes(c, [phase |-> "done"])

(* `crossed': a revocation had by then looked for the passkey's sessions.  *)
CreateSession(id, u, key) ==
  sessions' = sessions \union
    {[id |-> id, user |-> u, key |-> key, live |-> TRUE,
      crossed |-> \E r \in Revocations : revoking[r].phase = "revoked" /\ revoking[r].key = key]}

Revoke(them) == sessions' = {[x EXCEPT !.live = @ /\ x \notin them] : x \in sessions}

RevokeSession(x)            == Revoke({x})
RevokeAllSessionsForUser(u) == Revoke(ListLiveSessions(u))

-----------------------------------------------------------------------------
(* Invitations: from the command line of the server, or from the console.  *)

MintEnrollment(i) ==
  /\ ~invited[i].minted
  /\ CreateEnrollment(i, GetFirstUser)
  /\ UNCHANGED <<users, passkeys, sessions, ceremonies, revoking, overlapped>>

(* A request with the session's cookie is let through while it is live;     *)
(* that its expiry is put off by it is left out.                            *)
Authenticate(x) == GetLiveSession(x)

requireAdmin(x) == Authenticate(x)

enroll(i)         == MintEnrollment(i)
adminInvite(x, i) == requireAdmin(x) /\ MintEnrollment(i)

InvitationExpires(i) ==
  /\ invited[i].minted /\ ~invited[i].expired
  /\ invited' = [invited EXCEPT ![i].expired = TRUE]
  /\ UNCHANGED <<users, passkeys, sessions, ceremonies, revoking, overlapped>>

(* The invitation is claimed, and the challenge stored beside it; or the   *)
(* server dies between the two and the invitation is spent for nothing.    *)
BeginEnrollment(c, i) ==
  /\ ClaimEnrollment(i)
  /\ CreateCeremony(c, [phase |-> "stored", purpose |-> "register", invite |-> i])
       \/ UNCHANGED ceremonies
  /\ UNCHANGED <<users, passkeys, sessions, revoking, overlapped>>

(* The account the invitation names, or the one with the handle of this    *)
(* very ceremony, or none yet.                                             *)
enrollingAccountFrom(c, i) ==
  IF invited[i].user # Nobody THEN invited[i].user ELSE GetUserByHandle(c)

(* FinishEnrollment up to its transaction: the phone's answer is good ...  *)
AnswerEnrollment(c) ==
  /\ LET i == ceremonies[c].invite
     IN  ConsumeCeremony(c, "register",
           [phase |-> "answered", purpose |-> "register", invite |-> i,
            user |-> enrollingAccountFrom(c, i)])
  /\ UNCHANGED <<users, passkeys, sessions, invited, revoking, overlapped>>

(* ... or it is not, and the invitation can be used again.                 *)
RefuseEnrollment(c) ==
  /\ ConsumeCeremony(c, "register", [phase |-> "done"])
  /\ ReleaseEnrollment(ceremonies[c].invite)
  /\ UNCHANGED <<users, passkeys, sessions, revoking, overlapped>>

(* The account if there is none, the passkey and the session, in one       *)
(* transaction.                                                            *)
FinishEnrollment(c) ==
  /\ ceremonies[c].phase = "answered" /\ ceremonies[c].purpose = "register"
  /\ LET u == IF ceremonies[c].user = Nobody THEN c ELSE ceremonies[c].user
     IN  CreateUser(u) /\ CreatePasskey(c, u) /\ CreateSession(c, u, c)
  /\ Becomes(c, [phase |-> "enrolled", invite |-> ceremonies[c].invite])
  /\ UNCHANGED <<invited, revoking, overlapped>>

-----------------------------------------------------------------------------
(* Signing in with a passkey.                                              *)

BeginLogin(c) ==
  /\ CreateCeremony(c, [phase |-> "stored", purpose |-> "login"])
  /\ UNCHANGED <<users, passkeys, sessions, invited, revoking, overlapped>>

(* FinishLogin up to its transaction: the passkey that answers is read with *)
(* its account and its signature found good.                               *)
AnswerLogin(c, key) ==
  /\ ConsumeCeremony(c, "login", [phase |-> "answered", purpose |-> "login", key |-> key])
  /\ GetUserByHandle(key.user) # Nobody /\ key \in ListPasskeys(key.user)
  /\ UNCHANGED <<users, passkeys, sessions, invited, revoking, overlapped>>

(* user_sessions.passkey_id REFERENCES user_passkeys.                      *)
KeyExists(key) == key.id \in {k.id : k \in passkeys}

FinishLogin(c) ==
  /\ ceremonies[c].phase = "answered" /\ ceremonies[c].purpose = "login"
  /\ LET key == ceremonies[c].key
     IN  IF KeyExists(key) THEN CreateSession(c, key.user, key.id) ELSE UNCHANGED sessions
  /\ Becomes(c, [phase |-> "done"])
  /\ UNCHANGED <<users, passkeys, invited, revoking, overlapped>>

(* The answer never comes and is swept, is for the other purpose, or the   *)
(* server dies holding it.                                                 *)
LoseCeremony(c) ==
  /\ SweepExpiredAuth(c) \/ (ceremonies[c].phase = "answered" /\ Becomes(c, [phase |-> "done"]))
  /\ UNCHANGED <<users, passkeys, sessions, invited, revoking, overlapped>>

-----------------------------------------------------------------------------
(* Signing out.  A session that has run out is one that was signed out.    *)

SignOut(x) ==
  /\ x.live
  /\ RevokeSession(x)
  /\ UNCHANGED <<users, passkeys, invited, ceremonies, revoking, overlapped>>

SignOutEverywhere(u) ==
  /\ RevokeAllSessionsForUser(u)
  /\ UNCHANGED <<users, passkeys, invited, ceremonies, revoking, overlapped>>

adminLogout(x)            == SignOut(x)
adminRevokeAllSessions(x) == requireAdmin(x) /\ SignOutEverywhere(x.user)

(* Revoking a passkey: three statements of one READ COMMITTED transaction. *)
(* The sessions found by the second are signed out when it commits.        *)

OpenFor(u) == {r \in Revocations : revoking[r] # Idle /\ revoking[r].user = u}

(* Mutant: the last passkey can be revoked.                                *)
Enough(u) == CountPasskeys(u) >= 1

Removable(u) == CountPasskeys(u) > 1

RevokePasskey(r, u, id) ==
  /\ revoking[r] = Idle
  /\ Removable(u)
  /\ revoking' = [revoking EXCEPT ![r] =
                    [phase |-> "counted", user |-> u, key |-> id, out |-> {}]]
  /\ overlapped' = IF OpenFor(u) = {} THEN overlapped ELSE overlapped \union {u}
  /\ UNCHANGED <<users, passkeys, sessions, invited, ceremonies>>

adminRevokePasskey(r, x, id) == requireAdmin(x) /\ RevokePasskey(r, x.user, id)

(* Mutant: the passkey goes and its sessions stay.                         *)
RevokeNoSessions(r) ==
  /\ revoking[r].phase = "counted"
  /\ revoking' = [revoking EXCEPT ![r].phase = "revoked"]
  /\ UNCHANGED <<users, passkeys, sessions, invited, ceremonies, overlapped>>

RevokeSessionsForPasskey(r) ==
  /\ revoking[r].phase = "counted"
  /\ revoking' = [revoking EXCEPT ![r].phase = "revoked",
       ![r].out = {x.id : x \in {y \in ListLiveSessions(revoking[r].user) :
                                   y.key = revoking[r].key}}]
  /\ UNCHANGED <<users, passkeys, sessions, invited, ceremonies, overlapped>>

(* DELETE of the passkey, ON DELETE SET NULL in its sessions, and commit;  *)
(* a passkey that is gone or another account's rolls everything back.      *)
DeletePasskey(r) ==
  /\ revoking[r].phase = "revoked"
  /\ LET v == revoking[r]
         k == [id |-> v.key, user |-> v.user]
     IN  IF k \in passkeys
         THEN /\ passkeys' = passkeys \ {k}
              /\ sessions' = {[x EXCEPT !.live = @ /\ x.id \notin v.out,
                                        !.key = IF @ = v.key THEN Nobody ELSE @] : x \in sessions}
         ELSE UNCHANGED <<passkeys, sessions>>
  /\ revoking' = [revoking EXCEPT ![r] = Idle]
  /\ UNCHANGED <<users, invited, ceremonies, overlapped>>

AbandonRevoke(r) ==
  /\ revoking[r] # Idle
  /\ revoking' = [revoking EXCEPT ![r] = Idle]
  /\ UNCHANGED <<users, passkeys, sessions, invited, ceremonies, overlapped>>

(* What the console lists: the phones signed in, by their passkey, and the *)
(* phones that can sign in.                                                *)
Devices(u)  == {[session |-> x.id, passkey |-> x.key] : x \in ListLiveSessions(u)}
Passkeys(u) == {k.id : k \in ListPasskeys(u)}

-----------------------------------------------------------------------------
Enroll ==
  \/ \E i \in Invitations :
       enroll(i) \/ (\E x \in sessions : adminInvite(x, i)) \/ InvitationExpires(i)
  \/ \E c \in Ceremonies, i \in Invitations : BeginEnrollment(c, i)
  \/ \E c \in Ceremonies : AnswerEnrollment(c) \/ RefuseEnrollment(c) \/ FinishEnrollment(c)

Login ==
  \E c \in Ceremonies :
    \/ BeginLogin(c) \/ FinishLogin(c) \/ LoseCeremony(c)
    \/ \E key \in passkeys : AnswerLogin(c, key)

Account ==
  \/ \E x \in sessions : adminLogout(x) \/ adminRevokeAllSessions(x)
  \/ \E r \in Revocations, x \in sessions, id \in Ceremonies : adminRevokePasskey(r, x, id)
  \/ \E r \in Revocations : RevokeSessionsForPasskey(r) \/ DeletePasskey(r) \/ AbandonRevoke(r)

SignInNext == Enroll \/ Login \/ Account

SignInSpec == SignInInit /\ [][SignInNext]_signInVars

-----------------------------------------------------------------------------
(* user_enrollments: "single use, claimed atomically".  However a claim, a  *)
(* release, a second try and a death interleave, at most one passkey ever   *)
(* comes of an invitation.                                                  *)
SingleUse ==
  \A c, d \in Ceremonies :
    ceremonies[c].phase = "enrolled" /\ ceremonies[d].phase = "enrolled"
      /\ ceremonies[c].invite = ceremonies[d].invite => c = d

(* RevokePasskey: a revocation that left a session working "revokes         *)
(* nothing".  A phone listed as signed in, whose passkey is not among those *)
(* that can sign in, is one that signed in after the revocation had looked  *)
(* for its sessions and before it committed.                                *)
RevokedIsOut ==
  \A u \in users : \A phone \in Devices(u) :
    phone.passkey \notin Passkeys(u) => \E x \in sessions : x.id = phone.session /\ x.crossed

(* ErrLastPasskey: the last passkey of an account is never removed, unless  *)
(* two revocations counted before either had committed.                     *)
WayIn == \A u \in users \ overlapped : Passkeys(u) # {}
=============================================================================
