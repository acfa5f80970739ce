------------------------------ MODULE Accounts ------------------------------
(***************************************************************************)
(* Accounts, sign-in and invites.  A request that needs more than one      *)
(* statement stops between them, so that others commit in between: the     *)
(* password is checked and the session inserted, the sign-up mode is read  *)
(* and the account created, the invites are counted and a new one is made. *)
(* Passwords are the numbers of their hashes (a salt makes each new).      *)
(***************************************************************************)
EXTENDS Requests

CONSTANTS
  People,       \* e-mail addresses
  EnvMode,      \* CATO_SIGNUP
  MaxIds,       \* bound: accounts ever made
  MaxTokens,    \* bound: sessions, invites and reset links ever made, each
  OpenLimit     \* open invites of one who is not an admin (MaxOpenInvites)

ASSUME AccountsAssumption == {MaxIds, MaxTokens, OpenLimit} \subseteq Nat

VARIABLES
  users,        \* e-mail -> account, or None
  sessions,     \* rows of sessions
  invites,      \* rows of invites
  resets,       \* rows of reset_tokens
  inviteFollows, \* accepted follows an invite made, as pairs of account ids
  override,     \* the admin's sign-up mode, "" when the environment decides
  made,         \* how many ids, passwords, sessions, invites, resets were made
  wasOpen       \* history: sign-up was open at some time

accountVars == <<users, sessions, invites, resets, inviteFollows, override, req, made, begun, wasOpen>>

Modes == {"open", "invite", "closed"}
None == [id |-> 0]
Kinds == {"id", "pass", "session", "invite", "reset"}
Account == [id : 1..MaxIds, pass : Nat, google : BOOLEAN, admin : BOOLEAN,
            disabled : BOOLEAN, invite : 0..MaxTokens]
Session == [n : 1..MaxTokens, id : 1..MaxIds, pass : Nat, expired : BOOLEAN]
Invite == [n : 1..MaxTokens, by : 1..MaxIds, usedBy : 0..MaxIds, used : BOOLEAN,
           revoked : BOOLEAN, expired : BOOLEAN]
Reset == [n : 1..MaxTokens, id : 1..MaxIds, used : BOOLEAN, expired : BOOLEAN]

\* An edit of someone's role and state; a value left as it is stays out of it.
Edits == [admin : BOOLEAN, disabled : BOOLEAN]

\* What a request has read when it stops.
Served ==
  [op : {"signup"}, who : People, pass : Nat, invite : Nat, mode : Modes]
  \cup [op : {"issue"}, id : 1..MaxIds, pass : Nat]
  \cup [op : {"change"}, id : 1..MaxIds, n : Nat, pass : Nat, new : Nat]
  \cup [op : {"reset", "delete", "invite"}, id : 1..MaxIds]
  \cup [op : {"edit"}, id : 1..MaxIds, edit : Edits]

Emails == {p \in People : users[p] # None}
Has(id) == \E p \in Emails : users[p].id = id
Who(id) == CHOOSE p \in Emails : users[p].id = id
Of(id) == users[Who(id)]
Enabled(id) == Has(id) /\ ~Of(id).disabled
IsAdmin(id) == Has(id) /\ Of(id).admin /\ ~Of(id).disabled
EffectiveSignup == IF override # "" THEN override ELSE IF EnvMode \in {"open", "invite"} THEN EnvMode ELSE "closed"

----------------------------------------------------------------------------
(* Sessions.                                                               *)

\* Ids and tokens are never handed out twice.
Mint(kind) == made[kind] + 1
Minted(kinds) == made' = [k \in Kinds |-> IF k \in kinds THEN made[k] + 1 ELSE made[k]]

\* GetSession: only an unexpired session of an enabled account signs in.
GetSession(s) == s \in sessions /\ ~s.expired /\ Enabled(s.id)

\* Presenting an expired session's cookie deletes it.
RefuseExpired(s) ==
  /\ s \in sessions /\ s.expired /\ Enabled(s.id)
  /\ sessions' = sessions \ {s}
  /\ UNCHANGED <<users, invites, resets, inviteFollows, override, req, made, begun, wasOpen>>

AdminOnly(s) == GetSession(s) /\ IsAdmin(s.id)
----------------------------------------------------------------------------
(* Signing up.                                                             *)

\* Slip: an invite that was used lets someone in again.
CanInviteAgain(i, mode) ==
  /\ ~i.revoked /\ ~i.expired
  /\ Enabled(i.by) /\ (mode = "closed" => IsAdmin(i.by))

\* The invites that let someone in, as the transaction reads them.
CanInvite(i, mode) ==
  /\ i.usedBy = 0 /\ ~i.revoked /\ ~i.expired
  /\ Enabled(i.by) /\ (mode = "closed" => IsAdmin(i.by))

\* handleSignup hashes the password; CreateUser reads the mode before its
\* transaction begins.
Signup(r, p, i) ==
  /\ Begin(r, [op |-> "signup", who |-> p, pass |-> Mint("pass"), invite |-> i, mode |-> EffectiveSignup])
  /\ Minted({"pass"})
  /\ UNCHANGED <<users, sessions, invites, resets, inviteFollows, override, wasOpen>>

\* findOrCreateGoogleUser: a known subject signs in, a known e-mail of
\* another account is refused, anyone else signs up.
GoogleCallback(r, p, i) ==
  /\ users[p] # None => users[p].google /\ ~users[p].disabled
  /\ Begin(r, IF users[p] # None THEN [op |-> "issue", id |-> users[p].id, pass |-> 0]
              ELSE [op |-> "signup", who |-> p, pass |-> 0, invite |-> i, mode |-> EffectiveSignup])
  /\ UNCHANGED <<users, sessions, invites, resets, inviteFollows, override, made, wasOpen>>

\* Slip: any code that was sent along lets its bearer in.
MayJoinByCode(q) == Emails = {} \/ q.mode = "open" \/ q.invite # 0

\* What the transaction decides: who invites, and whether there may be one more.
Inviter(q) == {i \in invites : i.n = q.invite /\ CanInvite(i, q.mode)}
MayJoin(q) == Emails = {} \/ q.mode = "open" \/ Inviter(q) # {}

CreateUser(r) ==
  LET q == req[r]
      id == Mint("id")
      by == {i.by : i \in Inviter(q)}
  IN  /\ q.op = "signup" /\ users[q.who] = None /\ MayJoin(q) /\ id <= MaxIds
      /\ users' = [users EXCEPT ![q.who] =
           [id |-> id, pass |-> q.pass, google |-> q.pass = 0, admin |-> Emails = {},
            disabled |-> FALSE, invite |-> IF by = {} THEN 0 ELSE q.invite]]
      /\ invites' = {IF i \in Inviter(q) THEN [i EXCEPT !.usedBy = id, !.used = TRUE] ELSE i : i \in invites}
      /\ inviteFollows' = inviteFollows \cup {<<id, b>> : b \in by} \cup {<<b, id>> : b \in by}
      /\ Minted({"id"})
      /\ Then(r, [op |-> "issue", id |-> id, pass |-> 0])
      /\ UNCHANGED <<sessions, resets, override, wasOpen>>

\* Refused: sign-up is closed to it, or the e-mail won the race; then a
\* Google sign-in continues with the account of its own subject.
SignupRefused(r) ==
  LET q == req[r]
      mine == users[q.who] # None /\ q.pass = 0 /\ users[q.who].google /\ ~users[q.who].disabled
  IN  /\ q.op = "signup" /\ (~MayJoin(q) \/ users[q.who] # None)
      /\ IF MayJoin(q) /\ mine THEN Then(r, [op |-> "issue", id |-> users[q.who].id, pass |-> 0])
                               ELSE End(r)
      /\ UNCHANGED <<users, sessions, invites, resets, inviteFollows, override, made, wasOpen>>

----------------------------------------------------------------------------
(* Signing in.                                                             *)

\* The row is read and the password verified against the hash it holds.
Login(r, p) ==
  /\ users[p] # None /\ users[p].pass # 0 /\ ~users[p].disabled
  /\ Begin(r, [op |-> "issue", id |-> users[p].id, pass |-> users[p].pass])
  /\ UNCHANGED <<users, sessions, invites, resets, inviteFollows, override, made, wasOpen>>

\* Slip: the account is looked at, the verified hash is not.
MayHaveSessionByNow(q) == Enabled(q.id)

\* createSession: one INSERT ... SELECT, bound to the verified hash if there
\* was one.
MayHaveSession(q) == Enabled(q.id) /\ (q.pass # 0 => Of(q.id).pass = q.pass)

CreateSession(r) ==
  LET q == req[r]
  IN  /\ q.op = "issue" /\ Mint("session") <= MaxTokens
      /\ IF MayHaveSession(q)
         THEN /\ sessions' = sessions \cup {[n |-> Mint("session"), id |-> q.id, pass |-> q.pass, expired |-> FALSE]}
              /\ Minted({"session"})
         ELSE UNCHANGED <<sessions, made>>
      /\ End(r)
      /\ UNCHANGED <<users, invites, resets, inviteFollows, override, wasOpen>>

Logout(r, s) ==
  /\ s \in sessions /\ Once(r)
  /\ sessions' = sessions \ {s}
  /\ UNCHANGED <<users, invites, resets, inviteFollows, override, made, wasOpen>>

\* One of the person's devices, or all but this one.
RevokeDevice(r, s, t) ==
  /\ GetSession(s) /\ t \in sessions /\ t.id = s.id /\ Once(r)
  /\ sessions' = sessions \ {t}
  /\ UNCHANGED <<users, invites, resets, inviteFollows, override, made, wasOpen>>

RevokeOtherDevices(r, s) ==
  /\ GetSession(s) /\ Once(r)
  /\ sessions' = {t \in sessions : t.id = s.id => t = s}
  /\ UNCHANGED <<users, invites, resets, inviteFollows, override, made, wasOpen>>

----------------------------------------------------------------------------
(* Credentials.                                                            *)

\* The current password was verified against the hash read here.
AskChangePassword(r, s) ==
  /\ GetSession(s) /\ Of(s.id).pass # 0
  /\ Begin(r, [op |-> "change", id |-> s.id, n |-> s.n, pass |-> Of(s.id).pass, new |-> Mint("pass")])
  /\ Minted({"pass"})
  /\ UNCHANGED <<users, sessions, invites, resets, inviteFollows, override, wasOpen>>

\* One transaction: the hash must still be the verified one and the session
\* alive; every other session goes.  The one kept has proved the password.
ChangePassword(r) ==
  LET q == req[r]
      kept == {s \in sessions : s.n = q.n /\ s.id = q.id /\ ~s.expired}
  IN  /\ q.op = "change"
      /\ IF Enabled(q.id) /\ Of(q.id).pass = q.pass /\ kept # {}
         THEN /\ users' = [users EXCEPT ![Who(q.id)].pass = q.new]
              /\ sessions' = {s \in sessions : s.id # q.id}
                             \cup {[s EXCEPT !.pass = IF s.pass = 0 THEN 0 ELSE q.new] : s \in kept}
         ELSE UNCHANGED <<users, sessions>>
      /\ End(r)
      /\ UNCHANGED <<invites, resets, inviteFollows, override, made, wasOpen>>

\* CreateResetLink: the admin's request deletes the open links, then makes one.
AskResetLink(r, s, p) ==
  /\ AdminOnly(s) /\ users[p] # None
  /\ Begin(r, [op |-> "reset", id |-> users[p].id])
  /\ resets' = {t \in resets : t.id = users[p].id => t.used}
  /\ UNCHANGED <<users, sessions, invites, inviteFollows, override, made, wasOpen>>

CreateResetLink(r) ==
  LET q == req[r]
  IN  /\ q.op = "reset" /\ Mint("reset") <= MaxTokens
      /\ IF Has(q.id)
         THEN /\ resets' = resets \cup {[n |-> Mint("reset"), id |-> q.id, used |-> FALSE, expired |-> FALSE]}
              /\ Minted({"reset"})
         ELSE UNCHANGED <<resets, made>>
      /\ End(r)
      /\ UNCHANGED <<users, sessions, invites, inviteFollows, override, wasOpen>>

\* UseResetToken: a new password, and the account is signed out everywhere;
\* handleReset then signs this browser in.
UseResetToken(r, t) ==
  /\ t \in resets /\ ~t.used /\ ~t.expired
  /\ Begin(r, [op |-> "issue", id |-> t.id, pass |-> Mint("pass")])
  /\ resets' = (resets \ {t}) \cup {[t EXCEPT !.used = TRUE]}
  /\ users' = [users EXCEPT ![Who(t.id)].pass = Mint("pass")]
  /\ sessions' = {s \in sessions : s.id # t.id}
  /\ Minted({"pass"})
  /\ UNCHANGED <<invites, inviteFollows, override, wasOpen>>

\* deleteMe: re-authenticated, then one DELETE that cascades.
AskDeleteMe(r, s) ==
  /\ GetSession(s)
  /\ Begin(r, [op |-> "delete", id |-> s.id])
  /\ UNCHANGED <<users, sessions, invites, resets, inviteFollows, override, made, wasOpen>>

\* ON DELETE: what the account made goes, who used an invite is forgotten.
Cascade(id) ==
  /\ sessions' = {s \in sessions : s.id # id}
  /\ invites' = {[i EXCEPT !.usedBy = IF i.usedBy = id THEN 0 ELSE i.usedBy] : i \in {j \in invites : j.by # id}}
  /\ resets' = {t \in resets : t.id # id}
  /\ inviteFollows' = {e \in inviteFollows : id \notin {e[1], e[2]}}

DeleteMe(r) ==
  LET q == req[r]
  IN  /\ q.op = "delete"
      /\ IF Has(q.id) THEN users' = [users EXCEPT ![Who(q.id)] = None] /\ Cascade(q.id)
                      ELSE UNCHANGED <<users, sessions, invites, resets, inviteFollows>>
      /\ End(r)
      /\ UNCHANGED <<override, made, wasOpen>>

----------------------------------------------------------------------------
(* Invites and administration.                                             *)

OpenInvites(id) == {i \in invites : i.by = id /\ i.usedBy = 0 /\ ~i.revoked /\ ~i.expired}

\* The mode and the maker's open invites are read; the row comes later.
AskInvite(r, s) ==
  /\ GetSession(s)
  /\ EffectiveSignup = "closed" => IsAdmin(s.id)
  /\ Cardinality(OpenInvites(s.id)) < OpenLimit \/ IsAdmin(s.id)
  /\ Begin(r, [op |-> "invite", id |-> s.id])
  /\ UNCHANGED <<users, sessions, invites, resets, inviteFollows, override, made, wasOpen>>

CreateInvite(r) ==
  LET q == req[r]
  IN  /\ q.op = "invite" /\ Mint("invite") <= MaxTokens
      /\ IF Has(q.id)
         THEN /\ invites' = invites \cup {[n |-> Mint("invite"), by |-> q.id, usedBy |-> 0, used |-> FALSE,
                                           revoked |-> FALSE, expired |-> FALSE]}
              /\ Minted({"invite"})
         ELSE UNCHANGED <<invites, made>>
      /\ End(r)
      /\ UNCHANGED <<users, sessions, resets, inviteFollows, override, wasOpen>>

RevokeInvite(r, s, i) ==
  /\ GetSession(s) /\ i \in invites /\ i.usedBy = 0 /\ (i.by = s.id \/ IsAdmin(s.id)) /\ Once(r)
  /\ invites' = (invites \ {i}) \cup {[i EXCEPT !.revoked = TRUE]}
  /\ UNCHANGED <<users, sessions, resets, inviteFollows, override, made, wasOpen>>

Admins == {p \in Emails : users[p].admin /\ ~users[p].disabled}

AskEditUser(r, s, p, e) ==
  /\ AdminOnly(s) /\ users[p] # None
  /\ Begin(r, [op |-> "edit", id |-> users[p].id, edit |-> e])
  /\ UNCHANGED <<users, sessions, invites, resets, inviteFollows, override, made, wasOpen>>

\* Slip: the last admin is looked for before the transaction only.
AdminEditUserUnguarded(r) ==
  LET q == req[r]
  IN  /\ q.op = "edit"
      /\ IF Has(q.id)
         THEN /\ users' = [users EXCEPT ![Who(q.id)].admin = q.edit.admin, ![Who(q.id)].disabled = q.edit.disabled]
              /\ sessions' = IF q.edit.disabled THEN {s \in sessions : s.id # q.id} ELSE sessions
         ELSE UNCHANGED <<users, sessions>>
      /\ End(r)
      /\ UNCHANGED <<invites, resets, inviteFollows, override, made, wasOpen>>

\* AdminEditUser: the last admin is protected inside the transaction, and
\* disabling signs the account out everywhere.
AdminEditUser(r) ==
  LET q == req[r]
      losing == IsAdmin(q.id) /\ (~q.edit.admin \/ q.edit.disabled)
  IN  /\ q.op = "edit"
      /\ IF Has(q.id) /\ (losing => Cardinality(Admins) > 1)
         THEN /\ users' = [users EXCEPT ![Who(q.id)].admin = q.edit.admin, ![Who(q.id)].disabled = q.edit.disabled]
              /\ sessions' = IF q.edit.disabled THEN {s \in sessions : s.id # q.id} ELSE sessions
         ELSE UNCHANGED <<users, sessions>>
      /\ End(r)
      /\ UNCHANGED <<invites, resets, inviteFollows, override, made, wasOpen>>

SetSignupMode(r, s, mode) ==
  /\ AdminOnly(s) /\ Once(r)
  /\ override' = mode
  /\ wasOpen' = (wasOpen \/ EffectiveSignup' = "open")
  /\ UNCHANGED <<users, sessions, invites, resets, inviteFollows, made>>

----------------------------------------------------------------------------
(* Time.                                                                   *)

Passes == begun < MaxRequests /\ begun' = begun + 1 /\ UNCHANGED req

SessionExpires(s) ==
  /\ ~s.expired /\ Passes
  /\ sessions' = (sessions \ {s}) \cup {[s EXCEPT !.expired = TRUE]}
  /\ UNCHANGED <<users, invites, resets, inviteFollows, override, made, wasOpen>>

InviteExpires(i) ==
  /\ ~i.expired /\ Passes
  /\ invites' = (invites \ {i}) \cup {[i EXCEPT !.expired = TRUE]}
  /\ UNCHANGED <<users, sessions, resets, inviteFollows, override, made, wasOpen>>

ResetExpires(t) ==
  /\ ~t.expired /\ Passes
  /\ resets' = (resets \ {t}) \cup {[t EXCEPT !.expired = TRUE]}
  /\ UNCHANGED <<users, sessions, invites, inviteFollows, override, made, wasOpen>>

CleanupExpiredSessions ==
  /\ \E s \in sessions : s.expired
  /\ sessions' = {s \in sessions : ~s.expired}
  /\ UNCHANGED <<users, invites, resets, inviteFollows, override, req, made, begun, wasOpen>>

----------------------------------------------------------------------------
AccountsInit ==
  /\ users = [p \in People |-> None]
  /\ sessions = {} /\ invites = {} /\ resets = {} /\ inviteFollows = {}
  /\ override = ""
  /\ req = [r \in Reqs |-> Idle]
  /\ made = [k \in Kinds |-> 0]
  /\ begun = 0
  /\ wasOpen = (EnvMode = "open")

MyRequests(r, s) ==
  \/ Logout(r, s) \/ RevokeOtherDevices(r, s)
  \/ \E t \in sessions : RevokeDevice(r, s, t)
  \/ AskChangePassword(r, s) \/ AskDeleteMe(r, s)
  \/ AskInvite(r, s) \/ \E i \in invites : RevokeInvite(r, s, i)
  \/ \E p \in People : AskResetLink(r, s, p) \/ \E e \in Edits : AskEditUser(r, s, p, e)
  \/ \E mode \in Modes \cup {""} : SetSignupMode(r, s, mode)

AccountsNext ==
  \/ \E r \in Reqs :
       \/ Room(r) /\ \E p \in People : Login(r, p) \/ \E i \in 0..made["invite"] : Signup(r, p, i) \/ GoogleCallback(r, p, i)
       \/ CreateUser(r) \/ SignupRefused(r) \/ CreateSession(r) \/ ChangePassword(r)
       \/ CreateResetLink(r) \/ DeleteMe(r) \/ CreateInvite(r) \/ AdminEditUser(r)
       \/ Room(r) /\ \E s \in sessions : MyRequests(r, s)
       \/ \E t \in resets : UseResetToken(r, t)
  \/ \E s \in sessions : SessionExpires(s) \/ RefuseExpired(s)
  \/ \E i \in invites : InviteExpires(i)
  \/ \E t \in resets : ResetExpires(t)
  \/ CleanupExpiredSessions

AccountsSpec == AccountsInit /\ [][AccountsNext]_accountVars
----------------------------------------------------------------------------
(* Properties.                                                             *)

\* The tables and the requests hold values of their own shape.
AccountsTypeOK ==
  /\ users \in [People -> Account \cup {None}]
  /\ sessions \subseteq Session /\ invites \subseteq Invite /\ resets \subseteq Reset
  /\ inviteFollows \subseteq (1..MaxIds) \X (1..MaxIds)
  /\ override \in Modes \cup {""} /\ wasOpen \in BOOLEAN
  /\ req \in [Reqs -> Served \cup {Idle}]
  /\ made \in [Kinds -> Nat] /\ begun \in Nat

\* Whatever a sign-in, a password change, a reset, a disabling and a deletion
\* do to each other: every session row belongs to an enabled account, and one
\* that a password opened (createSession binds it to the verified hash) is
\* not older than the password the account has now.
SessionsAreGranted ==
  \A s \in sessions : Enabled(s.id) /\ s.pass \in {0, Of(s.id).pass}

\* "two racing first sign-ups can't both win" (handler_auth.go, createUser):
\* on a server that was never open, everyone but one came by an invite.
OneFounder ==
  wasOpen \/ Cardinality({p \in Emails : users[p].invite = 0}) <= 1

\* "The last admin can't be demoted or disabled": admins who edit each other
\* at once never leave the server without one; only a deletion can.
AdminsStep == Admins # {} /\ Admins' = {} => \E p \in Emails : users'[p] = None
AdminsStay == [][AdminsStep]_accountVars

\* "Invites are single-use" (docs/agents/features.md): however sign-ups, its
\* withdrawal and its expiry race, no two accounts there are came by one
\* invite.  (Deleting an account frees the invite it came by, see Cascade.)
InviteUsedOnce ==
  \A p, q \in Emails : users[p].invite = users[q].invite /\ users[p].invite # 0 => p = q

\* Racing sign-ups neither found the server twice nor use an invite twice.
SignupsHold == OneFounder /\ InviteUsedOnce
=============================================================================
