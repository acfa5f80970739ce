--------------------------- MODULE AccountsProofs ---------------------------
(***************************************************************************)
(* Sessions, sign-ups and administrators are sound for any number of       *)
(* people, requests served at once and tokens.  A passkey's challenge      *)
(* opens one session, and a cloned authenticator is found out, for any     *)
(* number of sign-ins, challenges and counts.                              *)
(***************************************************************************)
EXTENDS Accounts, Passkeys, FiniteSetTheorems, SequenceTheorems, TLAPS

----------------------------------------------------------------------------
(* Type correctness.                                                       *)

LEMMA RequestTypes ==
  ASSUME AccountsTypeOK, NEW r \in Reqs
  PROVE  /\ \A what \in Served : Begin(r, what) \/ Then(r, what) =>
              req' \in [Reqs -> Served \cup {Idle}] /\ begun' \in Nat
         /\ End(r) \/ Once(r) \/ Passes => req' \in [Reqs -> Served \cup {Idle}] /\ begun' \in Nat
  <1>1. req \in [Reqs -> Served \cup {Idle}] /\ begun \in Nat
    BY DEF AccountsTypeOK
  <1>2. ASSUME NEW what \in Served \cup {Idle}, Begin(r, what) \/ Then(r, what)
        PROVE  req' \in [Reqs -> Served \cup {Idle}] /\ begun' \in Nat
    BY <1>1, <1>2 DEF Begin, Then
  <1>3. Once(r) \/ Passes => req' \in [Reqs -> Served \cup {Idle}] /\ begun' \in Nat
    BY <1>1 DEF Once, Passes
  <1>. QED  BY <1>2, <1>3 DEF End

LEMMA MintType ==
  ASSUME AccountsTypeOK, NEW kinds, Minted(kinds)
  PROVE  made' \in [Kinds -> Nat]
  <1>1. made \in [Kinds -> Nat]
    BY DEF AccountsTypeOK
  <1>. QED  BY <1>1 DEF Minted

LEMMA MintNat ==
  ASSUME AccountsTypeOK, NEW k \in Kinds
  PROVE  Mint(k) \in Nat /\ Mint(k) > 0 /\ made[k] \in Nat
  <1>1. made \in [Kinds -> Nat]
    BY DEF AccountsTypeOK
  <1>. QED  BY <1>1 DEF Mint

LEMMA ServedFields ==
  ASSUME AccountsTypeOK, NEW r \in Reqs
  PROVE  /\ req[r].op = "signup" => /\ req[r].who \in People /\ req[r].pass \in Nat
                                    /\ req[r].invite \in Nat /\ req[r].mode \in Modes
         /\ req[r].op \in {"issue", "change", "reset", "delete", "invite", "edit"} => req[r].id \in 1..MaxIds
         /\ req[r].op \in {"issue", "change"} => req[r].pass \in Nat
         /\ req[r].op = "change" => req[r].new \in Nat
         /\ req[r].op = "edit" => req[r].edit \in Edits
  <1>1. req[r] \in Served \cup {Idle}
    BY DEF AccountsTypeOK
  <1>. QED  BY <1>1 DEF Served, Idle

LEMMA SignupMode == AccountsTypeOK => EffectiveSignup \in Modes
  BY DEF AccountsTypeOK, EffectiveSignup, Modes

\* The account an id stands for.
LEMMA Holder ==
  ASSUME AccountsTypeOK
  PROVE  /\ \A p \in Emails : users[p] \in Account /\ p \in People
         /\ \A p \in People : users[p] = None \/ p \in Emails
         /\ \A id : Has(id) => Who(id) \in Emails /\ users[Who(id)].id = id
         /\ \A p \in People \ Emails : users[p].id = 0
  <1>1. ASSUME NEW id, Has(id) PROVE Who(id) \in Emails /\ users[Who(id)].id = id
    BY <1>1 DEF Has, Who
  <1>2. users \in [People -> Account \cup {None}]
    BY DEF AccountsTypeOK
  <1>3. \A p \in Emails : users[p] \in Account /\ p \in People
    BY <1>2 DEF Emails
  <1>4. \A p \in People : users[p] = None \/ p \in Emails
    BY DEF Emails
  <1>. QED  BY <1>1, <1>3, <1>4 DEF None

LEMMA AccountsTypeInit == AccountsInit => AccountsTypeOK
  <1>. SUFFICES ASSUME AccountsInit PROVE AccountsTypeOK
    OBVIOUS
  <1>1. made \in [Kinds -> Nat] /\ users \in [People -> Account \cup {None}] /\ req \in [Reqs -> Served \cup {Idle}]
    BY DEF AccountsInit
  <1>. QED  BY <1>1 DEF AccountsInit, AccountsTypeOK

\* What an update of one row leaves.
LEMMA RowTypes ==
  /\ \A i \in Invite : /\ [i EXCEPT !.revoked = TRUE] \in Invite
                       /\ [i EXCEPT !.expired = TRUE] \in Invite
                       /\ \A id \in 0..MaxIds : /\ [i EXCEPT !.usedBy = id] \in Invite
                                               /\ [i EXCEPT !.usedBy = id, !.used = TRUE] \in Invite
  /\ \A t \in Reset : [t EXCEPT !.used = TRUE] \in Reset /\ [t EXCEPT !.expired = TRUE] \in Reset
  /\ \A t \in Session : /\ [t EXCEPT !.expired = TRUE] \in Session
                        /\ \A k \in Nat : [t EXCEPT !.pass = k] \in Session
  /\ \A u \in Account : /\ \A k \in Nat : [u EXCEPT !.pass = k] \in Account
                        /\ \A a, d \in BOOLEAN : [u EXCEPT !.admin = a, !.disabled = d] \in Account
  BY DEF Invite, Reset, Session, Account

\* A reset link's account exists.
Linked == \A t \in resets : Has(t.id)

LEMMA AccountsTypeStep == AccountsTypeOK /\ Linked /\ [AccountsNext]_accountVars => AccountsTypeOK'
  <1>. SUFFICES ASSUME AccountsTypeOK, Linked, [AccountsNext]_accountVars PROVE AccountsTypeOK'
    OBVIOUS
  <1> DEFINE UserType == users \in [People -> Account \cup {None}]
             ReqType == req \in [Reqs -> Served \cup {Idle}] /\ begun \in Nat
             MadeType == made \in [Kinds -> Nat]
  <1>0. /\ UserType /\ ReqType /\ MadeType
        /\ sessions \subseteq Session /\ invites \subseteq Invite /\ resets \subseteq Reset
        /\ inviteFollows \subseteq (1..MaxIds) \X (1..MaxIds)
        /\ override \in Modes \cup {""} /\ wasOpen \in BOOLEAN
    BY DEF AccountsTypeOK
  <1>u. UserType
    BY <1>0
  <1>b. ReqType
    BY <1>0
  <1>s. sessions \subseteq Session
    BY <1>0
  <1>i. invites \subseteq Invite
    BY <1>0
  <1>r. resets \subseteq Reset
    BY <1>0
  <1>a. \A k \in Kinds : Mint(k) \in Nat /\ Mint(k) > 0
    BY MintNat
  <1>1. CASE UNCHANGED accountVars
    BY <1>1 DEF AccountsTypeOK, accountVars
  <1>2. ASSUME NEW r \in Reqs, NEW p \in People, NEW i \in 0..made["invite"], Signup(r, p, i)
        PROVE  AccountsTypeOK'
    <2>1. i \in Nat /\ Mint("pass") \in Nat /\ EffectiveSignup \in Modes
      BY MintNat, SignupMode DEF Kinds
    <2>2. [op |-> "signup", who |-> p, pass |-> Mint("pass"), invite |-> i, mode |-> EffectiveSignup] \in Served
      BY <2>1 DEF Served
    <2>4. ReqType'
      BY <1>2, <2>2, RequestTypes DEF Signup
    <2>3. MadeType'
      BY <1>2, MintType DEF Signup
    <2>. QED  BY <1>0, <1>2, <2>4, <2>3 DEF AccountsTypeOK, Signup
  <1>3. ASSUME NEW r \in Reqs, NEW p \in People, NEW i \in 0..made["invite"], GoogleCallback(r, p, i)
        PROVE  AccountsTypeOK'
    <2>1. i \in Nat /\ EffectiveSignup \in Modes
      BY MintNat, SignupMode DEF Kinds
    <2>2. users[p] # None => users[p].id \in 1..MaxIds
      BY <1>0 DEF Account
    <2>3. CASE users[p] # None
      <3>1. [op |-> "issue", id |-> users[p].id, pass |-> 0] \in Served
        BY <2>2, <2>3 DEF Served
      <3>2. ReqType'
        BY <1>3, <2>3, <3>1, RequestTypes DEF GoogleCallback
      <3>. QED  BY <1>0, <1>3, <3>2 DEF AccountsTypeOK, GoogleCallback
    <2>4. CASE users[p] = None
      <3>1. [op |-> "signup", who |-> p, pass |-> 0, invite |-> i, mode |-> EffectiveSignup] \in Served
        BY <2>1 DEF Served
      <3>2. ReqType'
        BY <1>3, <2>4, <3>1, RequestTypes DEF GoogleCallback
      <3>. QED  BY <1>0, <1>3, <3>2 DEF AccountsTypeOK, GoogleCallback
    <2>. QED  BY <2>3, <2>4
  <1>4. ASSUME NEW r \in Reqs, CreateUser(r) PROVE AccountsTypeOK'
    <2> DEFINE q == req[r]
               by == {i.by : i \in Inviter(q)}
               id == Mint("id")
    <2>1. q.who \in People /\ q.pass \in Nat /\ q.invite \in Nat /\ id \in 1..MaxIds
      <3>1. id \in Nat /\ id > 0 /\ id <= MaxIds /\ q.op = "signup"
        BY <1>4, MintNat DEF CreateUser, Kinds
      <3>. QED  BY <3>1, ServedFields, AccountsAssumption
    <2>2. by \subseteq 1..MaxIds /\ (by # {} => q.invite \in 1..MaxTokens)
      <3>1. \A i \in invites : i.by \in 1..MaxIds /\ i.n \in 1..MaxTokens
        BY <1>0 DEF Invite
      <3>. QED  BY <3>1 DEF Inviter
    <2>3. [id |-> id, pass |-> q.pass, google |-> q.pass = 0, admin |-> Emails = {},
            disabled |-> FALSE, invite |-> IF by = {} THEN 0 ELSE q.invite] \in Account
      BY <2>1, <2>2, AccountsAssumption DEF Account
    <2>4. UserType'
      BY <1>0, <1>4, <2>3 DEF CreateUser
    <2>5. invites' \subseteq Invite
      <3>1. ASSUME NEW i \in Invite PROVE [i EXCEPT !.usedBy = id, !.used = TRUE] \in Invite
        <4>1. id \in 0..MaxIds
          BY <2>1
        <4>. QED  BY <4>1, RowTypes
      <3>. QED  BY <1>0, <1>4, <3>1 DEF CreateUser
    <2>6. inviteFollows' \subseteq (1..MaxIds) \X (1..MaxIds)
      <3>1. inviteFollows' = inviteFollows \cup {<<id, b>> : b \in by} \cup {<<b, id>> : b \in by}
        BY <1>4 DEF CreateUser
      <3>2. \A b \in by : <<id, b>> \in (1..MaxIds) \X (1..MaxIds) /\ <<b, id>> \in (1..MaxIds) \X (1..MaxIds)
        BY <2>1, <2>2
      <3>3. inviteFollows \subseteq (1..MaxIds) \X (1..MaxIds)
        BY <1>0
      <3> HIDE DEF by, id
      <3>. QED  BY <3>1, <3>2, <3>3
    <2>7. ReqType'
      <3>1. [op |-> "issue", id |-> id, pass |-> 0] \in Served
        BY <2>1 DEF Served
      <3>. QED  BY <1>4, <3>1, RequestTypes DEF CreateUser
    <2>8. MadeType'
      BY <1>4, MintType DEF CreateUser
    <2>. QED  BY <1>0, <1>4, <2>4, <2>5, <2>6, <2>7, <2>8 DEF AccountsTypeOK, CreateUser
  <1>5. ASSUME NEW r \in Reqs, SignupRefused(r) PROVE AccountsTypeOK'
    <2>1. ReqType'
      <3>1. CASE End(r)
        BY <3>1, RequestTypes
      <3>2. CASE users[req[r].who] # None /\ Then(r, [op |-> "issue", id |-> users[req[r].who].id, pass |-> 0])
        <4>1. users[req[r].who].id \in 1..MaxIds
          BY <1>0, <1>5, <3>2, ServedFields DEF SignupRefused, Account
        <4>2. [op |-> "issue", id |-> users[req[r].who].id, pass |-> 0] \in Served
          BY <4>1 DEF Served
        <4>. QED  BY <3>2, <4>2, RequestTypes
      <3>. QED  BY <1>5, <3>1, <3>2 DEF SignupRefused
    <2>. QED  BY <1>0, <1>5, <2>1 DEF AccountsTypeOK, SignupRefused
  <1>6. ASSUME NEW r \in Reqs, NEW p \in People, Login(r, p) PROVE AccountsTypeOK'
    <2>1. users[p].id \in 1..MaxIds /\ users[p].pass \in Nat
      BY <1>0, <1>6 DEF Login, Account
    <2>2. [op |-> "issue", id |-> users[p].id, pass |-> users[p].pass] \in Served
      BY <2>1 DEF Served
    <2>3. ReqType'
      BY <1>6, <2>2, RequestTypes DEF Login
    <2>. QED  BY <1>0, <1>6, <2>3 DEF AccountsTypeOK, Login
  <1>7. ASSUME NEW r \in Reqs, CreateSession(r) PROVE AccountsTypeOK'
    <2>1. ReqType'
      BY <1>7, RequestTypes DEF CreateSession
    <2>2. [n |-> Mint("session"), id |-> req[r].id, pass |-> req[r].pass, expired |-> FALSE] \in Session
      BY <1>7, <1>a, ServedFields DEF CreateSession, Session, Kinds
    <2>3. sessions' \subseteq Session /\ MadeType'
      BY <1>0, <1>7, <2>2, MintType DEF CreateSession
    <2>. QED  BY <1>0, <1>7, <2>1, <2>3 DEF AccountsTypeOK, CreateSession
  <1>8. ASSUME NEW r \in Reqs, NEW s \in sessions, MyRequests(r, s) PROVE AccountsTypeOK'
    <2>1. CASE Logout(r, s) \/ RevokeOtherDevices(r, s) \/ \E t \in sessions : RevokeDevice(r, s, t)
      <3>1. ReqType'
        BY <2>1, RequestTypes DEF Logout, RevokeOtherDevices, RevokeDevice
      <3>. QED  BY <1>0, <2>1, <3>1 DEF AccountsTypeOK, Logout, RevokeOtherDevices, RevokeDevice
    <2>2. CASE AskChangePassword(r, s)
      <3>1. s.id \in 1..MaxIds /\ s.n \in Nat /\ Of(s.id).pass \in Nat /\ Mint("pass") \in Nat
        <4>1. s.id \in 1..MaxIds /\ s.n \in Nat
          BY <1>s DEF Session
        <4>2. Of(s.id) \in Account
          BY <2>2, Holder DEF AskChangePassword, GetSession, Enabled, Of
        <4>. QED  BY <4>1, <4>2, MintNat DEF Account, Kinds
      <3>2. [op |-> "change", id |-> s.id, n |-> s.n, pass |-> Of(s.id).pass, new |-> Mint("pass")] \in Served
        BY <3>1 DEF Served
      <3>3. ReqType' /\ MadeType'
        BY <2>2, <3>2, RequestTypes, MintType DEF AskChangePassword
      <3>. QED  BY <1>0, <2>2, <3>3 DEF AccountsTypeOK, AskChangePassword
    <2>3. CASE AskDeleteMe(r, s) \/ AskInvite(r, s)
      <3>1. s.id \in 1..MaxIds
        BY <1>0 DEF Session
      <3>2. [op |-> "delete", id |-> s.id] \in Served /\ [op |-> "invite", id |-> s.id] \in Served
        BY <3>1 DEF Served
      <3>3. ReqType'
        BY <2>3, <3>2, RequestTypes DEF AskDeleteMe, AskInvite
      <3>. QED  BY <1>0, <2>3, <3>3 DEF AccountsTypeOK, AskDeleteMe, AskInvite
    <2>4. ASSUME NEW i \in invites, RevokeInvite(r, s, i) PROVE AccountsTypeOK'
      <3>1. [i EXCEPT !.revoked = TRUE] \in Invite
        BY <1>0, RowTypes
      <3>2. ReqType'
        BY <2>4, RequestTypes DEF RevokeInvite
      <3>. QED  BY <1>0, <2>4, <3>1, <3>2 DEF AccountsTypeOK, RevokeInvite
    <2>5. ASSUME NEW p \in People, NEW e \in Edits, AskResetLink(r, s, p) \/ AskEditUser(r, s, p, e)
          PROVE  AccountsTypeOK'
      <3>1. users[p].id \in 1..MaxIds
        BY <1>0, <2>5 DEF AskResetLink, AskEditUser, Account
      <3>2. [op |-> "reset", id |-> users[p].id] \in Served /\ [op |-> "edit", id |-> users[p].id, edit |-> e] \in Served
        BY <3>1 DEF Served
      <3>3. ReqType'
        BY <2>5, <3>2, RequestTypes DEF AskResetLink, AskEditUser
      <3>. QED  BY <1>0, <2>5, <3>3 DEF AccountsTypeOK, AskResetLink, AskEditUser
    <2>6. ASSUME NEW mode \in Modes \cup {""}, SetSignupMode(r, s, mode) PROVE AccountsTypeOK'
      <3>1. ReqType'
        BY <2>6, RequestTypes DEF SetSignupMode
      <3>. QED  BY <1>0, <2>6, <3>1 DEF AccountsTypeOK, SetSignupMode
    <2>7. [admin |-> FALSE, disabled |-> FALSE] \in Edits
      BY DEF Edits
    <2>. QED  BY <1>8, <2>1, <2>2, <2>3, <2>4, <2>5, <2>6, <2>7 DEF MyRequests
  <1>9. ASSUME NEW r \in Reqs, ChangePassword(r) PROVE AccountsTypeOK'
    <2>1. ReqType'
      BY <1>9, RequestTypes DEF ChangePassword
    <2>2. req[r].new \in Nat
      BY <1>9, ServedFields DEF ChangePassword
    <2>3. UserType'
      <3>1. \A u \in Account : [u EXCEPT !.pass = req[r].new] \in Account
        BY <2>2, RowTypes
      <3>2. CASE Enabled(req[r].id) /\ users' = [users EXCEPT ![Who(req[r].id)].pass = req[r].new]
        <4>1. users[Who(req[r].id)] \in Account /\ Who(req[r].id) \in People
          BY <3>2, Holder DEF Enabled
        <4>. QED  BY <1>0, <3>1, <3>2, <4>1
      <3>. QED  BY <1>0, <1>9, <3>2 DEF ChangePassword
    <2>4. sessions' \subseteq Session
      <3>1. \A t \in Session : [t EXCEPT !.pass = req[r].new] \in Session /\ [t EXCEPT !.pass = 0] \in Session
        BY <2>2, RowTypes
      <3>2. \A t \in Session : [t EXCEPT !.pass = IF t.pass = 0 THEN 0 ELSE req[r].new] \in Session
        BY <3>1
      <3>3. \A t \in sessions' : t \in sessions \/
              \E u \in sessions : t = [u EXCEPT !.pass = IF u.pass = 0 THEN 0 ELSE req[r].new]
        BY <1>9 DEF ChangePassword
      <3>. QED  BY <1>0, <3>2, <3>3
    <2>. QED  BY <1>0, <1>9, <2>1, <2>3, <2>4 DEF AccountsTypeOK, ChangePassword
  <1>10. ASSUME NEW r \in Reqs, CreateResetLink(r) \/ CreateInvite(r) PROVE AccountsTypeOK'
    <2>1. ReqType' /\ MadeType'
      BY <1>0, <1>10, RequestTypes, MintType DEF CreateResetLink, CreateInvite
    <2>2. CASE CreateResetLink(r)
      <3>1. [n |-> Mint("reset"), id |-> req[r].id, used |-> FALSE, expired |-> FALSE] \in Reset
        BY <1>a, <2>2, ServedFields DEF CreateResetLink, Reset, Kinds
      <3>. QED  BY <1>0, <2>1, <2>2, <3>1 DEF AccountsTypeOK, CreateResetLink
    <2>3. CASE CreateInvite(r)
      <3>1. [n |-> Mint("invite"), by |-> req[r].id, usedBy |-> 0, used |-> FALSE,
              revoked |-> FALSE, expired |-> FALSE] \in Invite
        BY <1>a, <2>3, ServedFields, AccountsAssumption DEF CreateInvite, Invite, Kinds
      <3>. QED  BY <1>0, <2>1, <2>3, <3>1 DEF AccountsTypeOK, CreateInvite
    <2>. QED  BY <1>10, <2>2, <2>3
  <1>11. ASSUME NEW r \in Reqs, DeleteMe(r) PROVE AccountsTypeOK'
    <2>1. ReqType'
      BY <1>11, RequestTypes DEF DeleteMe
    <2>2. UserType'
      BY <1>0, <1>11 DEF DeleteMe
    <2>3. invites' \subseteq Invite
      <3>1. \A i \in Invite : [i EXCEPT !.usedBy = IF i.usedBy = req[r].id THEN 0 ELSE i.usedBy] \in Invite
        <4>1. \A i \in Invite : (IF i.usedBy = req[r].id THEN 0 ELSE i.usedBy) \in 0..MaxIds
          BY AccountsAssumption DEF Invite
        <4>. QED  BY <4>1, RowTypes
      <3>2. \A j \in invites' : j \in invites \/
              \E i \in invites : j = [i EXCEPT !.usedBy = IF i.usedBy = req[r].id THEN 0 ELSE i.usedBy]
        BY <1>11 DEF DeleteMe, Cascade
      <3>. QED  BY <1>0, <3>1, <3>2
    <2>4. sessions' \subseteq Session /\ resets' \subseteq Reset /\ inviteFollows' \subseteq (1..MaxIds) \X (1..MaxIds)
      BY <1>0, <1>11 DEF DeleteMe, Cascade
    <2>. QED  BY <1>0, <1>11, <2>1, <2>2, <2>3, <2>4 DEF AccountsTypeOK, DeleteMe
  <1>12. ASSUME NEW r \in Reqs, AdminEditUser(r) PROVE AccountsTypeOK'
    <2>1. ReqType'
      BY <1>12, RequestTypes DEF AdminEditUser
    <2>2. req[r].edit.admin \in BOOLEAN /\ req[r].edit.disabled \in BOOLEAN
      BY <1>12, ServedFields DEF AdminEditUser, Edits
    <2>3. UserType'
      <3> DEFINE w == Who(req[r].id)
      <3>1. CASE Has(req[r].id) /\ users' = [users EXCEPT ![w].admin = req[r].edit.admin, ![w].disabled = req[r].edit.disabled]
        <4>1. users[w] \in Account /\ w \in People
          BY <3>1, Holder
        <4>2. [users[w] EXCEPT !.admin = req[r].edit.admin, !.disabled = req[r].edit.disabled] \in Account
          BY <2>2, <4>1, RowTypes
        <4>3. users' = [users EXCEPT ![w] = [users[w] EXCEPT !.admin = req[r].edit.admin, !.disabled = req[r].edit.disabled]]
          BY <1>0, <3>1, <4>1
        <4>. QED  BY <1>0, <4>1, <4>2, <4>3
      <3>. QED  BY <1>0, <1>12, <3>1 DEF AdminEditUser
    <2>4. sessions' \subseteq Session
      BY <1>0, <1>12 DEF AdminEditUser
    <2>. QED  BY <1>0, <1>12, <2>1, <2>3, <2>4 DEF AccountsTypeOK, AdminEditUser
  <1>13. ASSUME NEW r \in Reqs, NEW t \in resets, UseResetToken(r, t) PROVE AccountsTypeOK'
    <2>1. t.id \in 1..MaxIds /\ Mint("pass") \in Nat
      BY <1>0, <1>a DEF Reset, Kinds
    <2>2. [op |-> "issue", id |-> t.id, pass |-> Mint("pass")] \in Served
      BY <2>1 DEF Served
    <2>3. ReqType' /\ MadeType'
      BY <1>13, <2>2, RequestTypes, MintType DEF UseResetToken
    <2>4. resets' \subseteq Reset
      BY <1>0, <1>13, RowTypes DEF UseResetToken
    <2>5. UserType'
      <3>1. users' = [users EXCEPT ![Who(t.id)].pass = Mint("pass")]
        BY <1>13 DEF UseResetToken
      <3>2. Who(t.id) \in People /\ users[Who(t.id)] \in Account
        BY Holder DEF Linked
      <3>. QED  BY <1>u, <2>1, <3>1, <3>2, RowTypes
    <2>6. sessions' \subseteq Session
      BY <1>0, <1>13 DEF UseResetToken
    <2>. QED  BY <1>0, <1>13, <2>3, <2>4, <2>5, <2>6 DEF AccountsTypeOK, UseResetToken
  <1>14. ASSUME NEW s \in sessions, SessionExpires(s) \/ RefuseExpired(s) PROVE AccountsTypeOK'
    <2>1. ReqType'
      <3>1. Passes \/ UNCHANGED <<req, begun>>
        BY <1>14 DEF SessionExpires, RefuseExpired
      <3>. QED  BY <1>b, <3>1 DEF Passes
    <2>2. sessions' \subseteq Session
      BY <1>0, <1>14, RowTypes DEF SessionExpires, RefuseExpired
    <2>. QED  BY <1>0, <1>14, <2>1, <2>2 DEF AccountsTypeOK, SessionExpires, RefuseExpired
  <1>15. ASSUME NEW i \in invites, InviteExpires(i) PROVE AccountsTypeOK'
    <2>1. ReqType' /\ [i EXCEPT !.expired = TRUE] \in Invite
      <3>1. Passes
        BY <1>15 DEF InviteExpires
      <3>2. ReqType'
        BY <1>b, <3>1 DEF Passes
      <3>3. [i EXCEPT !.expired = TRUE] \in Invite
        BY <1>i, RowTypes
      <3>. QED  BY <3>2, <3>3
    <2>. QED  BY <1>0, <1>15, <2>1 DEF AccountsTypeOK, InviteExpires
  <1>16. ASSUME NEW t \in resets, ResetExpires(t) PROVE AccountsTypeOK'
    <2>1. ReqType' /\ [t EXCEPT !.expired = TRUE] \in Reset
      <3>1. Passes
        BY <1>16 DEF ResetExpires
      <3>2. ReqType'
        BY <1>b, <3>1 DEF Passes
      <3>3. [t EXCEPT !.expired = TRUE] \in Reset
        BY <1>r, RowTypes
      <3>. QED  BY <3>2, <3>3
    <2>. QED  BY <1>0, <1>16, <2>1 DEF AccountsTypeOK, ResetExpires
  <1>17. CASE CleanupExpiredSessions
    BY <1>0, <1>17 DEF AccountsTypeOK, CleanupExpiredSessions
  <1>. QED  BY <1>1, <1>2, <1>3, <1>4, <1>5, <1>6, <1>7, <1>8, <1>9, <1>10, <1>11, <1>12,
               <1>13, <1>14, <1>15, <1>16, <1>17
            DEF AccountsNext

----------------------------------------------------------------------------
(* Sessions.                                                               *)

\* Ids stand for one account each and are never reused.
Unique == \A p, q \in Emails : users[p].id = users[q].id => p = q
Counted == \A p \in Emails : users[p].id <= made["id"]

\* The account a session row signs in.
Holds(p, s) == users[p].id = s.id /\ ~users[p].disabled /\ s.pass \in {0, users[p].pass}
Granted == \A s \in sessions : \E p \in Emails : Holds(p, s)

SessionInv == Unique /\ Counted /\ Linked /\ Granted

LEMMA WhoIs ==
  ASSUME Unique, NEW p \in Emails
  PROVE  Has(users[p].id) /\ Who(users[p].id) = p
  BY DEF Unique, Has, Who

LEMMA GrantedSuffices == AccountsTypeOK /\ SessionInv => SessionsAreGranted
  <1>. SUFFICES ASSUME AccountsTypeOK, SessionInv, NEW s \in sessions
                PROVE  Enabled(s.id) /\ s.pass \in {0, Of(s.id).pass}
    BY DEF SessionsAreGranted
  <1>1. PICK p \in Emails : Holds(p, s)
    BY DEF SessionInv, Granted
  <1>2. Has(s.id) /\ Who(s.id) = p
    BY <1>1, WhoIs DEF SessionInv, Holds
  <1>. QED  BY <1>1, <1>2 DEF Enabled, Of, Holds

\* Steps that leave the accounts alone.
LEMMA QuietStep ==
  ASSUME SessionInv, UNCHANGED users, made'["id"] = made["id"],
         \A t \in resets' : Has(t.id),
         \A s \in sessions' : \E p \in Emails : Holds(p, s)
  PROVE  SessionInv'
  BY DEF SessionInv, Unique, Counted, Linked, Granted, Holds, Emails, Has

\* Steps that change one account, and end the sessions the change concerns.
LEMMA OneAccountStep ==
  ASSUME AccountsTypeOK, SessionInv, made'["id"] = made["id"],
         NEW w \in Emails, NEW new \in Account, new.id = users[w].id,
         users' = [users EXCEPT ![w] = new],
         \A t \in resets' : Has(t.id),
         \A s \in sessions' : IF s.id = new.id THEN ~new.disabled /\ s.pass \in {0, new.pass}
                               ELSE \E u \in sessions : u.id = s.id /\ u.pass = s.pass
  PROVE  SessionInv'
  <1>1. users \in [People -> Account \cup {None}] /\ w \in People
    BY DEF AccountsTypeOK, Emails
  <1>2. new # None /\ users'[w] = new /\ \A p \in People \ {w} : users'[p] = users[p]
    BY <1>1 DEF Account, None
  <1>3. Emails' = Emails /\ \A p \in Emails : users'[p].id = users[p].id
    BY <1>1, <1>2 DEF Emails
  <1>4. Unique' /\ Counted' /\ Linked'
    BY <1>3 DEF SessionInv, Unique, Counted, Linked, Has
  <1>5. ASSUME NEW s \in sessions' PROVE \E p \in Emails : Holds(p, s)'
    <2>1. CASE s.id = new.id
      BY <1>2, <2>1 DEF Holds
    <2>2. CASE s.id # new.id
      <3>1. PICK u \in sessions : u.id = s.id /\ u.pass = s.pass
        BY <2>2
      <3>2. PICK p \in Emails : Holds(p, u)
        BY DEF SessionInv, Granted
      <3>3. p # w /\ p \in People
        BY <2>2, <3>1, <3>2 DEF Holds, Emails
      <3>. QED  BY <1>2, <3>1, <3>2, <3>3 DEF Holds
    <2>. QED  BY <2>1, <2>2
  <1>6. Granted'
    BY <1>3, <1>5 DEF Granted
  <1>. QED  BY <1>4, <1>6 DEF SessionInv

LEMMA SessionStep ==
  AccountsTypeOK /\ AccountsTypeOK' /\ SessionInv /\ [AccountsNext]_accountVars => SessionInv'
  <1>. SUFFICES ASSUME AccountsTypeOK, AccountsTypeOK', SessionInv, [AccountsNext]_accountVars PROVE SessionInv'
    OBVIOUS
  <1>0. /\ \A t \in resets : Has(t.id)
        /\ \A s \in sessions : \E p \in Emails : Holds(p, s)
    BY DEF SessionInv, Linked, Granted
  <1>a. ASSUME NEW kinds, Minted(kinds), "id" \notin kinds PROVE made'["id"] = made["id"]
    BY <1>a DEF Minted, Kinds
  \* A step that only drops sessions and reset links, or marks them.
  <1>q. ASSUME UNCHANGED users, made'["id"] = made["id"],
               \A t \in resets' : \E u \in resets : t.id = u.id,
               \A s \in sessions' : \E u \in sessions : s.id = u.id /\ s.pass = u.pass
        PROVE  SessionInv'
    BY <1>0, <1>q, QuietStep DEF Holds
  <1>1. CASE UNCHANGED <<users, sessions, resets>> /\ made'["id"] = made["id"]
    BY <1>1, <1>q
  <1>2. ASSUME NEW r \in Reqs, NEW p \in People, NEW i, Signup(r, p, i) \/ GoogleCallback(r, p, i) \/ Login(r, p)
        PROVE  SessionInv'
    BY <1>1, <1>2, <1>a DEF Signup, GoogleCallback, Login
  <1>3. ASSUME NEW r \in Reqs, CreateUser(r) PROVE SessionInv'
    <2>1. PICK w \in People : w = req[r].who
      BY <1>3, ServedFields DEF CreateUser
    <2>2. PICK new : users' = [users EXCEPT ![w] = new] /\ new.id = Mint("id")
      <3> DEFINE by == {i.by : i \in Inviter(req[r])}
                 u == [id |-> Mint("id"), pass |-> req[r].pass, google |-> req[r].pass = 0,
                       admin |-> Emails = {}, disabled |-> FALSE,
                       invite |-> IF by = {} THEN 0 ELSE req[r].invite]
      <3>1. users' = [users EXCEPT ![w] = u]
        BY <1>3, <2>1 DEF CreateUser
      <3>2. u.id = Mint("id")
        OBVIOUS
      <3> HIDE DEF u
      <3>. QED  BY <3>1, <3>2
    <2>3. users \in [People -> Account \cup {None}] /\ made["id"] \in Nat /\ Mint("id") = made["id"] + 1
      BY MintNat DEF AccountsTypeOK, Mint, Kinds
    <2>4. made'["id"] = made["id"] + 1
      BY <1>3 DEF CreateUser, Minted, Kinds
    <2>5. users'[w] = new /\ new # None /\ \A p \in People \ {w} : users'[p] = users[p]
      BY <2>2, <2>3 DEF None
    <2>6. w \notin Emails /\ Emails' = Emails \cup {w}
      BY <1>3, <2>1, <2>5 DEF CreateUser, Emails
    <2>7. \A p \in Emails : p # w /\ users'[p] = users[p] /\ users[p].id \in Nat /\ users[p].id <= made["id"]
      BY <2>5, <2>6, Holder DEF Emails, SessionInv, Counted, Account
    <2>8. Unique' /\ Counted'
      BY <2>2, <2>3, <2>4, <2>5, <2>6, <2>7 DEF SessionInv, Unique, Counted
    <2>9. UNCHANGED <<sessions, resets>>
      BY <1>3 DEF CreateUser
    <2>10. Linked' /\ Granted'
      BY <1>0, <2>6, <2>7, <2>9 DEF Linked, Granted, Holds, Has
    <2>. QED  BY <2>8, <2>10 DEF SessionInv
  <1>4. ASSUME NEW r \in Reqs, SignupRefused(r) PROVE SessionInv'
    BY <1>1, <1>4 DEF SignupRefused
  <1>5. ASSUME NEW r \in Reqs, CreateSession(r) PROVE SessionInv'
    <2>1. CASE ~MayHaveSession(req[r])
      BY <1>1, <1>5, <2>1 DEF CreateSession
    <2>2. CASE MayHaveSession(req[r])
      <3>1. Who(req[r].id) \in Emails /\ users[Who(req[r].id)].id = req[r].id
        BY <2>2, Holder DEF MayHaveSession, Enabled
      <3>2. Holds(Who(req[r].id), [n |-> Mint("session"), id |-> req[r].id, pass |-> req[r].pass, expired |-> FALSE])
        BY <2>2, <3>1 DEF MayHaveSession, Enabled, Of, Holds
      <3>3. \A s \in sessions' : \E p \in Emails : Holds(p, s)
        BY <1>0, <1>5, <2>2, <3>1, <3>2 DEF CreateSession
      <3>4. UNCHANGED <<users, resets>> /\ made'["id"] = made["id"]
        BY <1>5, <1>a, <2>2 DEF CreateSession
      <3>. QED  BY <1>0, <3>3, <3>4, QuietStep
    <2>. QED  BY <2>1, <2>2
  <1>6. ASSUME NEW r \in Reqs, NEW s \in sessions, MyRequests(r, s) PROVE SessionInv'
    <2>1. CASE Logout(r, s) \/ RevokeOtherDevices(r, s) \/ \E t \in sessions : RevokeDevice(r, s, t)
      BY <1>q, <2>1 DEF Logout, RevokeOtherDevices, RevokeDevice
    <2>2. CASE AskChangePassword(r, s)
      BY <1>1, <1>a, <2>2 DEF AskChangePassword
    <2>3. CASE AskDeleteMe(r, s) \/ AskInvite(r, s) \/ \E i \in invites : RevokeInvite(r, s, i)
      BY <1>1, <2>3 DEF AskDeleteMe, AskInvite, RevokeInvite
    <2>4. ASSUME NEW p \in People, AskResetLink(r, s, p) PROVE SessionInv'
      BY <1>q, <2>4 DEF AskResetLink
    <2>5. ASSUME NEW p \in People, NEW e \in Edits, AskEditUser(r, s, p, e) PROVE SessionInv'
      BY <1>1, <2>5 DEF AskEditUser
    <2>6. ASSUME NEW mode, SetSignupMode(r, s, mode) PROVE SessionInv'
      BY <1>1, <2>6 DEF SetSignupMode
    <2>. QED  BY <1>6, <2>1, <2>2, <2>3, <2>4, <2>5, <2>6 DEF MyRequests
  <1>7. ASSUME NEW r \in Reqs, ChangePassword(r) PROVE SessionInv'
    <2> DEFINE q == req[r]
               w == Who(q.id)
               kept == {s \in sessions : s.n = q.n /\ s.id = q.id /\ ~s.expired}
    <2>1. CASE UNCHANGED <<users, sessions>>
      BY <1>1, <1>7, <2>1 DEF ChangePassword
    <2>2. CASE /\ Enabled(q.id) /\ users' = [users EXCEPT ![w].pass = q.new]
               /\ sessions' = {s \in sessions : s.id # q.id}
                              \cup {[s EXCEPT !.pass = IF s.pass = 0 THEN 0 ELSE q.new] : s \in kept}
      <3>1. w \in Emails /\ users[w].id = q.id /\ users[w] \in Account /\ ~users[w].disabled
        BY <2>2, Holder DEF Enabled, Of
      <3>2. q.new \in Nat
        BY <1>7, ServedFields DEF ChangePassword
      <3>3. PICK new \in Account : new = [users[w] EXCEPT !.pass = q.new]
        BY <3>1, <3>2, RowTypes
      <3>4. new.id = users[w].id /\ new.pass = q.new /\ ~new.disabled
        BY <3>1, <3>3 DEF Account
      <3>5. users' = [users EXCEPT ![w] = new]
        BY <2>2, <3>3
      <3>6. ASSUME NEW s \in sessions'
            PROVE  IF s.id = new.id THEN s.pass \in {0, new.pass}
                   ELSE \E u \in sessions : u.id = s.id /\ u.pass = s.pass
        <4>1. CASE s \in sessions /\ s.id # q.id
          BY <3>1, <3>4, <4>1
        <4>2. ASSUME NEW u \in kept, s = [u EXCEPT !.pass = IF u.pass = 0 THEN 0 ELSE q.new]
              PROVE  s.id = q.id /\ s.pass \in {0, q.new}
          <5>1. u \in Session /\ u.id = q.id
            BY DEF AccountsTypeOK
          <5>. QED  BY <4>2, <5>1 DEF Session
        <4>. QED  BY <2>2, <3>1, <3>4, <4>1, <4>2
      <3>7. UNCHANGED <<resets, made>>
        BY <1>7 DEF ChangePassword
      <3> HIDE DEF w, q
      <3>. QED  BY <1>0, <3>1, <3>4, <3>5, <3>6, <3>7, OneAccountStep
    <2>. QED  BY <1>7, <2>1, <2>2 DEF ChangePassword
  <1>8. ASSUME NEW r \in Reqs, CreateResetLink(r) PROVE SessionInv'
    <2>1. \A t \in resets' : Has(t.id)
      BY <1>0, <1>8 DEF CreateResetLink
    <2>2. UNCHANGED <<users, sessions>> /\ made'["id"] = made["id"]
      BY <1>8, <1>a DEF CreateResetLink
    <2>. QED  BY <1>0, <2>1, <2>2, QuietStep
  <1>9. ASSUME NEW r \in Reqs, CreateInvite(r) PROVE SessionInv'
    BY <1>1, <1>9, <1>a DEF CreateInvite
  <1>10. ASSUME NEW r \in Reqs, DeleteMe(r) PROVE SessionInv'
    <2>1. CASE ~Has(req[r].id)
      BY <1>1, <1>10, <2>1 DEF DeleteMe
    <2>2. CASE Has(req[r].id)
      <3>1. PICK w \in Emails : w = Who(req[r].id) /\ users[w].id = req[r].id
        BY <2>2, Holder
      <3>2. users' = [users EXCEPT ![w] = None] /\ Cascade(req[r].id) /\ UNCHANGED made
        BY <1>10, <2>2, <3>1 DEF DeleteMe
      <3>3. users \in [People -> Account \cup {None}]
        BY DEF AccountsTypeOK
      <3>4. Emails' = Emails \ {w} /\ \A p \in Emails \ {w} : users'[p] = users[p]
        BY <3>2, <3>3 DEF Emails
      <3>5. \A p \in Emails : users[p].id # req[r].id => p \in Emails'
        BY <3>1, <3>4
      <3>6. Unique' /\ Counted'
        BY <3>2, <3>4 DEF SessionInv, Unique, Counted
      <3>7. Linked'
        BY <1>0, <3>2, <3>4, <3>5 DEF Cascade, Linked, Has
      <3>8. Granted'
        BY <1>0, <3>2, <3>4, <3>5 DEF Cascade, Granted, Holds
      <3>. QED  BY <3>6, <3>7, <3>8 DEF SessionInv
    <2>. QED  BY <2>1, <2>2
  <1>11. ASSUME NEW r \in Reqs, AdminEditUser(r) PROVE SessionInv'
    <2> DEFINE q == req[r]
               w == Who(q.id)
    <2>1. CASE UNCHANGED <<users, sessions>>
      BY <1>1, <1>11, <2>1 DEF AdminEditUser
    <2>2. CASE /\ Has(q.id)
               /\ users' = [users EXCEPT ![w].admin = q.edit.admin, ![w].disabled = q.edit.disabled]
               /\ sessions' = IF q.edit.disabled THEN {s \in sessions : s.id # q.id} ELSE sessions
      <3>1. w \in Emails /\ users[w].id = q.id /\ users[w] \in Account
        BY <2>2, Holder
      <3>2. q.edit.admin \in BOOLEAN /\ q.edit.disabled \in BOOLEAN
        BY <1>11, ServedFields DEF AdminEditUser, Edits
      <3>3. PICK new \in Account : new = [users[w] EXCEPT !.admin = q.edit.admin, !.disabled = q.edit.disabled]
        BY <3>1, <3>2, RowTypes
      <3>4. new.id = users[w].id /\ new.pass = users[w].pass /\ new.disabled = q.edit.disabled
        BY <3>1, <3>3 DEF Account
      <3>5. users' = [users EXCEPT ![w] = new]
        BY <2>2, <3>1, <3>3 DEF AccountsTypeOK
      <3>6. ASSUME NEW s \in sessions'
            PROVE  IF s.id = new.id THEN ~new.disabled /\ s.pass \in {0, new.pass}
                   ELSE \E u \in sessions : u.id = s.id /\ u.pass = s.pass
        <4>1. s \in sessions /\ (new.disabled => s.id # q.id)
          BY <2>2, <3>4, <3>6
        <4>2. PICK p \in Emails : Holds(p, s)
          BY <1>0, <4>1
        <4>3. s.id = q.id => p = w
          BY <3>1, <4>2 DEF Holds, SessionInv, Unique
        <4>. QED  BY <3>1, <3>4, <4>1, <4>2, <4>3 DEF Holds
      <3>7. UNCHANGED <<resets, made>>
        BY <1>11 DEF AdminEditUser
      <3> HIDE DEF w, q
      <3>. QED  BY <1>0, <3>1, <3>4, <3>5, <3>6, <3>7, OneAccountStep
    <2>. QED  BY <1>11, <2>1, <2>2 DEF AdminEditUser
  <1>12. ASSUME NEW r \in Reqs, NEW t \in resets, UseResetToken(r, t) PROVE SessionInv'
    <2>1. PICK w \in Emails : w = Who(t.id) /\ users[w].id = t.id /\ users[w] \in Account
      BY <1>0, Holder
    <2>2. Mint("pass") \in Nat
      BY MintNat DEF Kinds
    <2>3. PICK new \in Account : new = [users[w] EXCEPT !.pass = Mint("pass")]
      BY <2>1, <2>2, RowTypes
    <2>4. new.id = users[w].id
      BY <2>1, <2>3 DEF Account
    <2>5. users' = [users EXCEPT ![w] = new]
      BY <1>12, <2>1, <2>3 DEF UseResetToken
    <2>6. \A s \in sessions' : s \in sessions /\ s.id # new.id
      BY <1>12, <2>1, <2>4 DEF UseResetToken
    <2>7. made'["id"] = made["id"]
      BY <1>12, <1>a DEF UseResetToken
    <2>8. ASSUME NEW v \in resets' PROVE Has(v.id)
      <3>1. CASE v \in resets
        BY <1>0, <3>1
      <3>2. CASE v = [t EXCEPT !.used = TRUE]
        <4>1. t \in Reset
          BY DEF AccountsTypeOK
        <4>2. v.id = t.id
          BY <3>2, <4>1 DEF Reset
        <4>. QED  BY <1>0, <4>2
      <3>. QED  BY <1>12, <3>1, <3>2 DEF UseResetToken
    <2>. QED  BY <2>4, <2>5, <2>6, <2>7, <2>8, OneAccountStep
  <1>13. ASSUME NEW s \in sessions, SessionExpires(s) \/ RefuseExpired(s) PROVE SessionInv'
    <2>1. s \in Session
      BY DEF AccountsTypeOK
    <2>2. [s EXCEPT !.expired = TRUE].id = s.id /\ [s EXCEPT !.expired = TRUE].pass = s.pass
      BY <2>1 DEF Session
    <2>3. \A u \in sessions' : u \in sessions \/ u = [s EXCEPT !.expired = TRUE]
      BY <1>13 DEF SessionExpires, RefuseExpired
    <2>4. UNCHANGED <<users, made, resets>>
      BY <1>13 DEF SessionExpires, RefuseExpired
    <2>. QED  BY <1>q, <2>2, <2>3, <2>4
  <1>14. ASSUME NEW i \in invites, InviteExpires(i) PROVE SessionInv'
    BY <1>1, <1>14 DEF InviteExpires
  <1>15. ASSUME NEW t \in resets, ResetExpires(t) PROVE SessionInv'
    <2>1. t \in Reset
      BY DEF AccountsTypeOK
    <2>2. [t EXCEPT !.expired = TRUE].id = t.id
      BY <2>1 DEF Reset
    <2>3. \A u \in resets' : u \in resets \/ u = [t EXCEPT !.expired = TRUE]
      BY <1>15 DEF ResetExpires
    <2>4. UNCHANGED <<users, made, sessions>>
      BY <1>15 DEF ResetExpires
    <2>. QED  BY <1>q, <2>2, <2>3, <2>4
  <1>16. CASE CleanupExpiredSessions
    BY <1>q, <1>16 DEF CleanupExpiredSessions
  <1>17. CASE UNCHANGED accountVars
    BY <1>1, <1>17 DEF accountVars
  <1>. QED  BY <1>2, <1>3, <1>4, <1>5, <1>6, <1>7, <1>8, <1>9, <1>10, <1>11, <1>12, <1>13,
               <1>14, <1>15, <1>16, <1>17
            DEF AccountsNext

LEMMA SessionsInvariant == AccountsSpec => [](AccountsTypeOK /\ SessionInv)
  <1>1. AccountsInit => AccountsTypeOK /\ SessionInv
    <2>1. AccountsInit => Emails = {} /\ resets = {} /\ sessions = {}
      BY DEF AccountsInit, Emails
    <2>. QED  BY <2>1, AccountsTypeInit DEF SessionInv, Unique, Counted, Linked, Granted
  <1>2. AccountsTypeOK /\ SessionInv /\ [AccountsNext]_accountVars => (AccountsTypeOK /\ SessionInv)'
    BY AccountsTypeStep, SessionStep DEF SessionInv
  <1>. QED  BY <1>1, <1>2, PTL DEF AccountsSpec

\* The tables and the requests keep their shape.
THEOREM AccountsTyped == AccountsSpec => []AccountsTypeOK
  BY SessionsInvariant, PTL

\* However sign-ins, password changes, resets, disablings and deletions
\* interleave, a session signs in an enabled account whose password it has.
THEOREM SessionsGranted == AccountsSpec => []SessionsAreGranted
  BY SessionsInvariant, GrantedSuffices, PTL

----------------------------------------------------------------------------
(* Signing up.                                                             *)

\* Accounts keep the id and the invite they began with.
Kept == \A p \in Emails' : p \in Emails /\ users'[p].id = users[p].id /\ users'[p].invite = users[p].invite

LEMMA KeptRow ==
  ASSUME AccountsTypeOK, NEW w \in Emails, NEW new \in Account \cup {None},
         new = None \/ (new.id = users[w].id /\ new.invite = users[w].invite),
         users' = [users EXCEPT ![w] = new]
  PROVE  Kept
  <1>1. users \in [People -> Account \cup {None}]
    BY DEF AccountsTypeOK
  <1>. QED  BY <1>1 DEF Emails, Kept

LEMMA AccountWriters ==
  ASSUME [AccountsNext]_accountVars
  PROVE  \/ UNCHANGED users
         \/ \E r \in Reqs : \/ CreateUser(r) \/ ChangePassword(r) \/ DeleteMe(r) \/ AdminEditUser(r)
                            \/ \E t \in resets : UseResetToken(r, t)
  <1>1. ASSUME NEW r \in Reqs, NEW s \in sessions, MyRequests(r, s) PROVE UNCHANGED users
    BY <1>1 DEF MyRequests, Logout, RevokeOtherDevices, RevokeDevice, AskChangePassword, AskDeleteMe,
                AskInvite, RevokeInvite, AskResetLink, AskEditUser, SetSignupMode
  <1>2. ASSUME NEW r \in Reqs,
               \/ SignupRefused(r) \/ CreateSession(r) \/ CreateResetLink(r) \/ CreateInvite(r)
               \/ \E p \in People, i \in Nat : Login(r, p) \/ Signup(r, p, i) \/ GoogleCallback(r, p, i)
        PROVE UNCHANGED users
    BY <1>2 DEF SignupRefused, CreateSession, CreateResetLink, CreateInvite, Login, Signup, GoogleCallback
  <1>3. ASSUME \/ \E s \in sessions : SessionExpires(s) \/ RefuseExpired(s)
               \/ \E i \in invites : InviteExpires(i)
               \/ \E t \in resets : ResetExpires(t)
               \/ CleanupExpiredSessions \/ UNCHANGED accountVars
        PROVE UNCHANGED users
    BY <1>3 DEF SessionExpires, RefuseExpired, InviteExpires, ResetExpires, CleanupExpiredSessions, accountVars
  <1>4. \A i \in 0..made["invite"] : i \in Nat
    OBVIOUS
  <1>. QED  BY <1>1, <1>2, <1>3, <1>4 DEF AccountsNext

LEMMA KeptUsers ==
  ASSUME AccountsTypeOK, Linked, [AccountsNext]_accountVars
  PROVE  Kept \/ \E r \in Reqs : CreateUser(r)
  <1>1. ASSUME UNCHANGED users PROVE Kept
    BY <1>1 DEF Kept, Emails
  <1>2. ASSUME NEW w \in Emails, NEW k \in Nat, users' = [users EXCEPT ![w].pass = k] PROVE Kept
    <2>1. users[w] \in Account
      BY Holder
    <2>2. PICK new \in Account : new = [users[w] EXCEPT !.pass = k]
      BY <2>1, RowTypes
    <2>3. new.id = users[w].id /\ new.invite = users[w].invite
      BY <2>1, <2>2 DEF Account
    <2>. QED  BY <1>2, <2>2, <2>3, KeptRow
  <1>3. ASSUME NEW r \in Reqs, ChangePassword(r) PROVE Kept
    <2>1. CASE Enabled(req[r].id) /\ users' = [users EXCEPT ![Who(req[r].id)].pass = req[r].new]
      <3>1. Who(req[r].id) \in Emails /\ req[r].new \in Nat
        BY <1>3, <2>1, Holder, ServedFields DEF Enabled, ChangePassword
      <3>. QED  BY <1>2, <2>1, <3>1
    <2>2. CASE UNCHANGED <<users, sessions>>
      BY <1>1, <2>2
    <2>. QED  BY <1>3, <2>1, <2>2 DEF ChangePassword
  <1>4. ASSUME NEW r \in Reqs, NEW t \in resets, UseResetToken(r, t) PROVE Kept
    <2>1. Who(t.id) \in Emails /\ Mint("pass") \in Nat
      BY Holder, MintNat DEF Linked, Kinds
    <2>. QED  BY <1>2, <1>4, <2>1 DEF UseResetToken
  <1>5. ASSUME NEW r \in Reqs, DeleteMe(r) PROVE Kept
    <2>1. CASE Has(req[r].id)
      BY <1>5, <2>1, Holder, KeptRow DEF DeleteMe
    <2>2. CASE UNCHANGED users
      BY <1>1, <2>2
    <2>. QED  BY <1>5, <2>1, <2>2 DEF DeleteMe
  <1>6. ASSUME NEW r \in Reqs, AdminEditUser(r) PROVE Kept
    <2> DEFINE e == req[r].edit
               w == Who(req[r].id)
    <2>1. CASE Has(req[r].id) /\ users' = [users EXCEPT ![w].admin = e.admin, ![w].disabled = e.disabled]
      <3>1. w \in Emails /\ users[w] \in Account /\ e.admin \in BOOLEAN /\ e.disabled \in BOOLEAN
        BY <1>6, <2>1, Holder, ServedFields DEF AdminEditUser, Edits
      <3>2. PICK new \in Account : new = [users[w] EXCEPT !.admin = e.admin, !.disabled = e.disabled]
        BY <3>1, RowTypes
      <3>3. new.id = users[w].id /\ new.invite = users[w].invite
        BY <3>1, <3>2 DEF Account
      <3>4. users' = [users EXCEPT ![w] = new]
        BY <2>1, <3>1, <3>2 DEF AccountsTypeOK
      <3>. QED  BY <3>1, <3>3, <3>4, KeptRow
    <2>2. CASE UNCHANGED <<users, sessions>>
      BY <1>1, <2>2
    <2>. QED  BY <1>6, <2>1, <2>2 DEF AdminEditUser
  <1>. QED  BY <1>1, <1>3, <1>4, <1>5, <1>6, AccountWriters

\* Whoever may join because sign-up is open, or was when the request read
\* the mode, leaves a trace.
ModeInv ==
  /\ EffectiveSignup = "open" => wasOpen
  /\ \A r \in Reqs : req[r].op = "signup" /\ req[r].mode = "open" => wasOpen

\* Two accounts that came by no invite.
Founders == wasOpen \/ \A p, q \in Emails : users[p].invite = 0 /\ users[q].invite = 0 => p = q

LEMMA ModeStep ==
  ASSUME AccountsTypeOK, ModeInv, [AccountsNext]_accountVars
  PROVE  ModeInv' /\ (wasOpen => wasOpen')
  <1>0. req \in [Reqs -> Served \cup {Idle}] /\ wasOpen \in BOOLEAN
    BY DEF AccountsTypeOK
  \* A request that reads the mode now, or none.
  <1>a. ASSUME NEW r \in Reqs, NEW what, what.op # "signup" \/ what.mode = EffectiveSignup,
               req' = [req EXCEPT ![r] = what], UNCHANGED <<override, wasOpen>>
        PROVE  ModeInv' /\ (wasOpen => wasOpen')
    BY <1>0, <1>a DEF ModeInv, EffectiveSignup
  <1>b. ASSUME UNCHANGED <<req, override, wasOpen>>
        PROVE  ModeInv' /\ (wasOpen => wasOpen')
    BY <1>b DEF ModeInv, EffectiveSignup
  <1>c. ASSUME NEW r \in Reqs, End(r), UNCHANGED <<override, wasOpen>>
        PROVE  ModeInv' /\ (wasOpen => wasOpen')
    <2>1. Idle.op # "signup"
      BY DEF Idle
    <2>. QED  BY <1>a, <1>c, <2>1 DEF End, Then
  <1>1. ASSUME NEW r \in Reqs, NEW p \in People, NEW i, Signup(r, p, i) \/ GoogleCallback(r, p, i) \/ Login(r, p)
        PROVE  ModeInv' /\ (wasOpen => wasOpen')
    <2>1. PICK what : (what.op # "signup" \/ what.mode = EffectiveSignup) /\ Begin(r, what)
      BY <1>1 DEF Signup, GoogleCallback, Login
    <2>. QED  BY <1>1, <1>a, <2>1 DEF Begin, Signup, GoogleCallback, Login
  <1>2. ASSUME NEW r \in Reqs, CreateUser(r) \/ SignupRefused(r)
        PROVE  ModeInv' /\ (wasOpen => wasOpen')
    <2>1. PICK what : what.op # "signup" /\ Then(r, what)
      BY <1>2 DEF CreateUser, SignupRefused, End, Idle
    <2>. QED  BY <1>2, <1>a, <2>1 DEF Then, CreateUser, SignupRefused
  <1>3. ASSUME NEW r \in Reqs,
               \/ CreateSession(r) \/ ChangePassword(r) \/ CreateResetLink(r) \/ DeleteMe(r)
               \/ CreateInvite(r) \/ AdminEditUser(r)
        PROVE  ModeInv' /\ (wasOpen => wasOpen')
    BY <1>3, <1>c DEF CreateSession, ChangePassword, CreateResetLink, DeleteMe, CreateInvite, AdminEditUser
  <1>4. ASSUME NEW r \in Reqs, NEW s \in sessions, MyRequests(r, s)
        PROVE  ModeInv' /\ (wasOpen => wasOpen')
    <2>1. CASE Logout(r, s) \/ RevokeOtherDevices(r, s) \/ (\E t \in sessions : RevokeDevice(r, s, t))
               \/ \E i \in invites : RevokeInvite(r, s, i)
      BY <1>b, <2>1 DEF Logout, RevokeOtherDevices, RevokeDevice, RevokeInvite, Once
    <2>2. CASE AskChangePassword(r, s) \/ AskDeleteMe(r, s) \/ AskInvite(r, s)
      BY <1>a, <2>2 DEF AskChangePassword, AskDeleteMe, AskInvite, Begin
    <2>3. ASSUME NEW p \in People, NEW e \in Edits, AskResetLink(r, s, p) \/ AskEditUser(r, s, p, e)
          PROVE  ModeInv' /\ (wasOpen => wasOpen')
      BY <1>a, <2>3 DEF AskResetLink, AskEditUser, Begin
    <2>4. ASSUME NEW mode, SetSignupMode(r, s, mode)
          PROVE  ModeInv' /\ (wasOpen => wasOpen')
      BY <2>4, <1>0 DEF SetSignupMode, Once, ModeInv
    <2>5. Edits # {}
      BY [admin |-> TRUE, disabled |-> TRUE] \in Edits DEF Edits
    <2>. QED  BY <1>4, <2>1, <2>2, <2>3, <2>4, <2>5 DEF MyRequests
  <1>5. ASSUME NEW r \in Reqs, NEW t \in resets, UseResetToken(r, t)
        PROVE  ModeInv' /\ (wasOpen => wasOpen')
    BY <1>a, <1>5 DEF UseResetToken, Begin
  <1>6. ASSUME \/ \E s \in sessions : SessionExpires(s) \/ RefuseExpired(s)
               \/ \E i \in invites : InviteExpires(i)
               \/ \E t \in resets : ResetExpires(t)
               \/ CleanupExpiredSessions \/ UNCHANGED accountVars
        PROVE  ModeInv' /\ (wasOpen => wasOpen')
    BY <1>b, <1>6 DEF SessionExpires, RefuseExpired, InviteExpires, ResetExpires, CleanupExpiredSessions,
                      Passes, accountVars
  <1>. QED  BY <1>1, <1>2, <1>3, <1>4, <1>5, <1>6 DEF AccountsNext

LEMMA FoundersStep ==
  ASSUME AccountsTypeOK, Linked, ModeInv, Founders, [AccountsNext]_accountVars
  PROVE  Founders'
  <1>1. wasOpen => wasOpen'
    BY ModeStep
  <1>2. CASE Kept
    BY <1>1, <1>2 DEF Kept, Founders
  <1>3. ASSUME NEW r \in Reqs, CreateUser(r), ~wasOpen PROVE Founders'
    <2> DEFINE q == req[r]
               by == {i.by : i \in Inviter(q)}
               u == [id |-> Mint("id"), pass |-> q.pass, google |-> q.pass = 0, admin |-> Emails = {},
                     disabled |-> FALSE, invite |-> IF by = {} THEN 0 ELSE q.invite]
    <2>1. q.op = "signup" /\ users[q.who] = None /\ MayJoin(q) /\ users' = [users EXCEPT ![q.who] = u]
      BY <1>3 DEF CreateUser
    <2>2. q.who \in People /\ users \in [People -> Account \cup {None}]
      BY <2>1, ServedFields DEF AccountsTypeOK
    <2>3. users'[q.who] = u /\ \A p \in People \ {q.who} : users'[p] = users[p]
      BY <2>1, <2>2
    <2>4. Emails' \subseteq Emails \cup {q.who} /\ q.who \notin Emails /\ Emails \subseteq People
      BY <2>1, <2>3 DEF Emails
    <2>5. Emails = {} \/ Inviter(q) # {}
      BY <1>3, <2>1 DEF MayJoin, ModeInv
    <2>6. Inviter(q) # {} => u.invite # 0
      <3> SUFFICES ASSUME NEW i \in Inviter(q) PROVE u.invite # 0
        OBVIOUS
      <3>1. i \in Invite /\ i.n = q.invite
        BY DEF Inviter, AccountsTypeOK
      <3>2. q.invite # 0
        BY <3>1 DEF Invite
      <3>3. by # {}
        OBVIOUS
      <3>. QED  BY <3>2, <3>3
    <2> HIDE DEF u, q
    <2>7. CASE Emails = {}
      BY <2>4, <2>7 DEF Founders
    <2>8. CASE Inviter(q) # {}
      BY <1>3, <2>3, <2>4, <2>6, <2>8 DEF Founders
    <2>. QED  BY <2>5, <2>7, <2>8
  <1>. QED  BY <1>1, <1>2, <1>3, KeptUsers DEF Founders

\* Invites are numbered, and an account's invite was used by that account.
Numbered == \A i \in invites : i.n <= made["invite"] /\ \A j \in invites : i.n = j.n => i = j
Traced ==
  \A p \in Emails : /\ users[p].invite <= made["invite"]
                    /\ \A i \in invites : i.n = users[p].invite => i.usedBy = users[p].id
InviteInv == Unique /\ Numbered /\ Traced /\ InviteUsedOnce

\* Steps that make no invite: each invite left is one there was, and it is
\* free again only if the account that used it is gone.
LEMMA InvitesStep ==
  ASSUME AccountsTypeOK, AccountsTypeOK', InviteInv, Kept, made'["invite"] = made["invite"],
         \A j \in invites' : \E i \in invites : /\ j.n = i.n
                                                /\ j.usedBy = i.usedBy \/ \A p \in Emails' : users[p].id # i.usedBy,
         \A j, k \in invites' : j.n = k.n => j = k
  PROVE  InviteInv'
  <1>1. \A p \in Emails' : p \in Emails /\ users'[p].id = users[p].id /\ users'[p].invite = users[p].invite
    BY DEF Kept
  <1>2. Unique' /\ InviteUsedOnce'
    BY <1>1 DEF InviteInv, Unique, InviteUsedOnce
  <1>3. Numbered'
    BY DEF InviteInv, Numbered
  <1>4. Traced'
    BY <1>1 DEF InviteInv, Traced
  <1>. QED  BY <1>2, <1>3, <1>4 DEF InviteInv

LEMMA InviteInvStep ==
  ASSUME AccountsTypeOK, AccountsTypeOK', Linked, Unique', InviteInv, [AccountsNext]_accountVars
  PROVE  InviteInv'
  <1>0. /\ \A i \in invites : i \in Invite /\ i.n \in Nat /\ i.n > 0
        /\ \A i, j \in invites : i.n = j.n => i = j
        /\ \A p \in Emails : users[p] \in Account /\ p \in People
        /\ made["invite"] \in Nat
    <2>1. \A i \in invites : i \in Invite /\ i.n \in Nat /\ i.n > 0
      <3>1. \A i \in Invite : i.n \in Nat /\ i.n > 0
        BY DEF Invite
      <3>. QED  BY <3>1 DEF AccountsTypeOK
    <2>2. \A i, j \in invites : i.n = j.n => i = j
      BY DEF InviteInv, Numbered
    <2>3. made["invite"] \in Nat
      BY DEF AccountsTypeOK, Kinds
    <2>. QED  BY <2>1, <2>2, <2>3, Holder
  <1>a. ASSUME NEW kinds, Minted(kinds), "invite" \notin kinds PROVE made'["invite"] = made["invite"]
    BY <1>a DEF Minted, Kinds
  <1>b. ASSUME Kept, UNCHANGED invites, made'["invite"] = made["invite"] PROVE InviteInv'
    BY <1>0, <1>b, InvitesStep
  \* One invite is marked.
  <1>c. ASSUME Kept, UNCHANGED made, NEW i \in invites, NEW j, j.n = i.n, j.usedBy = i.usedBy,
               invites' = (invites \ {i}) \cup {j}
        PROVE  InviteInv'
    BY <1>0, <1>c, InvitesStep
  <1>1. ASSUME NEW r \in Reqs, CreateUser(r) PROVE InviteInv'
    <2> DEFINE q == req[r]
               id == Mint("id")
               by == {i.by : i \in Inviter(q)}
               u == [id |-> id, pass |-> q.pass, google |-> q.pass = 0, admin |-> Emails = {},
                     disabled |-> FALSE, invite |-> IF by = {} THEN 0 ELSE q.invite]
               mark(i) == [i EXCEPT !.usedBy = id, !.used = TRUE]
    <2>1. /\ q.op = "signup" /\ users[q.who] = None /\ users' = [users EXCEPT ![q.who] = u]
          /\ invites' = {IF i \in Inviter(q) THEN mark(i) ELSE i : i \in invites}
      BY <1>1 DEF CreateUser
    <2>2. made'["invite"] = made["invite"]
      BY <1>1, <1>a DEF CreateUser
    <2>3. q.who \in People /\ users \in [People -> Account \cup {None}]
      BY <2>1, ServedFields DEF AccountsTypeOK
    <2>4. users'[q.who] = u /\ \A p \in People \ {q.who} : users'[p] = users[p]
      BY <2>1, <2>3
    <2>5. Emails' \subseteq Emails \cup {q.who} /\ q.who \notin Emails
      BY <2>1, <2>4 DEF Emails
    <2>6. \A i \in Inviter(q) : i \in invites /\ i.n = q.invite /\ i.usedBy = 0
      BY DEF Inviter, CanInvite
    <2>7. \A i \in invites : mark(i).n = i.n /\ mark(i).usedBy = id
      BY <1>0 DEF Invite
    <2>8. u.id = id /\ (Inviter(q) = {} => u.invite = 0) /\ (Inviter(q) # {} => u.invite = q.invite)
      OBVIOUS
    <2>9. \A j \in invites' : \E i \in invites : j.n = i.n /\ (IF i \in Inviter(q) THEN j = mark(i) ELSE j = i)
      BY <2>1, <2>7
    <2> HIDE DEF u, q, id, mark
    <2>10. Numbered'
      BY <1>0, <2>2, <2>9 DEF InviteInv, Numbered
    \* Nobody came by an invite that still lets someone in.
    <2>11. \A p \in Emails, i \in Inviter(q) : users[p].invite # i.n
      BY <1>0, <2>6 DEF InviteInv, Traced, Account
    <2>12. ASSUME NEW p \in Emails'
           PROVE  /\ users'[p].invite <= made'["invite"]
                  /\ \A j \in invites' : j.n = users'[p].invite => j.usedBy = users'[p].id
      <3>1. CASE p = q.who
        <4>1. CASE Inviter(q) = {}
          BY <1>0, <2>2, <2>4, <2>8, <2>9, <3>1, <4>1
        <4>2. CASE Inviter(q) # {}
          <5>1. PICK i \in Inviter(q) : u.invite = i.n /\ i \in invites
            BY <2>6, <2>8, <4>2
          <5>2. i.n <= made["invite"]
            BY <5>1 DEF InviteInv, Numbered
          <5>3. \A j \in invites' : j.n = i.n => j = mark(i)
            BY <1>0, <2>9, <5>1
          <5>. QED  BY <2>2, <2>4, <2>7, <2>8, <3>1, <5>1, <5>2, <5>3
        <4>. QED  BY <4>1, <4>2
      <3>2. CASE p # q.who
        <4>1. p \in Emails /\ users'[p] = users[p]
          BY <1>0, <2>4, <2>5, <3>2
        <4>. QED  BY <2>2, <2>9, <2>11, <4>1 DEF InviteInv, Traced
      <3>. QED  BY <3>1, <3>2
    <2>13. InviteUsedOnce'
      <3>1. \A p \in Emails' : p = q.who \/ (p \in Emails /\ users'[p] = users[p])
        BY <1>0, <2>4, <2>5
      <3>2. \A p \in Emails : users[p].invite = u.invite => u.invite = 0
        BY <2>6, <2>8, <2>11
      <3>. QED  BY <2>4, <3>1, <3>2 DEF InviteInv, InviteUsedOnce
    <2>. QED  BY <2>10, <2>12, <2>13 DEF InviteInv, Traced
  <1>2. ASSUME Kept, NEW r \in Reqs, DeleteMe(r) PROVE InviteInv'
    <2> DEFINE id == req[r].id
    <2>1. CASE ~Has(id)
      BY <1>2, <1>b, <2>1 DEF DeleteMe
    <2>2. CASE Has(id)
      <3>1. PICK w \in Emails : w = Who(id) /\ users[w].id = id
        BY <2>2, Holder
      <3>2. users' = [users EXCEPT ![w] = None] /\ Cascade(id) /\ UNCHANGED made
        BY <1>2, <2>2, <3>1 DEF DeleteMe
      <3>3. \A p \in Emails' : users[p].id # id
        <4>1. users \in [People -> Account \cup {None}]
          BY DEF AccountsTypeOK
        <4>2. w \notin Emails' /\ Emails' \subseteq Emails
          BY <1>0, <3>2, <4>1 DEF Emails
        <4>. QED  BY <3>1, <4>2 DEF InviteInv, Unique
      <3> DEFINE freed(i) == [i EXCEPT !.usedBy = IF i.usedBy = id THEN 0 ELSE i.usedBy]
      <3>4. \A i \in invites : freed(i).n = i.n /\ (freed(i).usedBy = i.usedBy \/ i.usedBy = id)
        BY <1>0 DEF Invite
      <3>5. \A j \in invites' : \E i \in invites : j = freed(i)
        BY <3>2 DEF Cascade
      <3> HIDE DEF freed, id
      <3>6. \A j \in invites' : \E i \in invites : /\ j.n = i.n
                                                   /\ j.usedBy = i.usedBy \/ \A p \in Emails' : users[p].id # i.usedBy
        BY <3>3, <3>4, <3>5
      <3>7. \A j, k \in invites' : j.n = k.n => j = k
        BY <1>0, <3>4, <3>5
      <3>. QED  BY <1>2, <3>2, <3>6, <3>7, InvitesStep
    <2>. QED  BY <2>1, <2>2
  <1>3. ASSUME Kept, NEW r \in Reqs, CreateInvite(r) PROVE InviteInv'
    <2>1. CASE UNCHANGED <<invites, made>>
      BY <1>3, <1>b, <2>1
    <2>2. CASE Minted({"invite"}) /\ \E i : i.n = Mint("invite") /\ invites' = invites \cup {i}
      <3>1. PICK i : i.n = Mint("invite") /\ invites' = invites \cup {i}
        BY <2>2
      <3>2. made'["invite"] = made["invite"] + 1 /\ i.n = made["invite"] + 1
        BY <2>2, <3>1 DEF Minted, Mint, Kinds
      <3>3. Numbered'
        BY <1>0, <3>1, <3>2 DEF InviteInv, Numbered
      <3>4. \A p \in Emails' : p \in Emails /\ users'[p].id = users[p].id /\ users'[p].invite = users[p].invite
        BY <1>3 DEF Kept
      <3>5. Traced'
        BY <1>0, <3>1, <3>2, <3>4 DEF InviteInv, Traced, Account
      <3>6. InviteUsedOnce'
        BY <3>4 DEF InviteInv, InviteUsedOnce
      <3>. QED  BY <3>3, <3>5, <3>6 DEF InviteInv
    <2>3. Has(req[r].id) =>
            Minted({"invite"}) /\ \E i : i.n = Mint("invite") /\ invites' = invites \cup {i}
      <3> DEFINE i == [n |-> Mint("invite"), by |-> req[r].id, usedBy |-> 0, used |-> FALSE,
                       revoked |-> FALSE, expired |-> FALSE]
      <3>1. Has(req[r].id) => Minted({"invite"}) /\ invites' = invites \cup {i}
        BY <1>3 DEF CreateInvite
      <3>2. i.n = Mint("invite")
        OBVIOUS
      <3> HIDE DEF i
      <3>. QED  BY <3>1, <3>2
    <2>. QED  BY <1>3, <2>1, <2>2, <2>3 DEF CreateInvite
  <1>4. ASSUME Kept, NEW r \in Reqs,
               \/ SignupRefused(r) \/ CreateSession(r) \/ ChangePassword(r) \/ CreateResetLink(r) \/ AdminEditUser(r)
               \/ \E p \in People, i \in Nat : Login(r, p) \/ Signup(r, p, i) \/ GoogleCallback(r, p, i)
               \/ \E t \in resets : UseResetToken(r, t)
        PROVE  InviteInv'
    <2>1. UNCHANGED invites
      BY <1>4 DEF SignupRefused, CreateSession, ChangePassword, CreateResetLink, AdminEditUser, Login, Signup,
                  GoogleCallback, UseResetToken
    <2>2. UNCHANGED made \/ Minted({"pass"}) \/ Minted({"session"}) \/ Minted({"reset"})
      BY <1>4 DEF SignupRefused, CreateSession, ChangePassword, CreateResetLink, AdminEditUser, Login, Signup,
                  GoogleCallback, UseResetToken
    <2>. QED  BY <1>4, <1>a, <1>b, <2>1, <2>2
  <1>5. ASSUME Kept, NEW r \in Reqs, NEW s \in sessions, MyRequests(r, s) PROVE InviteInv'
    <2>1. ASSUME NEW i \in invites, RevokeInvite(r, s, i) PROVE InviteInv'
      <3>1. [i EXCEPT !.revoked = TRUE].n = i.n /\ [i EXCEPT !.revoked = TRUE].usedBy = i.usedBy
        BY <1>0 DEF Invite
      <3>. QED  BY <1>5, <1>c, <2>1, <3>1 DEF RevokeInvite
    <2>2. (\E i \in invites : RevokeInvite(r, s, i)) \/ (UNCHANGED invites /\ (UNCHANGED made \/ Minted({"pass"})))
      BY <1>5 DEF MyRequests, Logout, RevokeOtherDevices, RevokeDevice, AskChangePassword, AskDeleteMe,
                  AskInvite, AskResetLink, AskEditUser, SetSignupMode
    <2>. QED  BY <1>5, <1>a, <1>b, <2>1, <2>2
  <1>6. ASSUME Kept, NEW i \in invites, InviteExpires(i) PROVE InviteInv'
    <2>1. [i EXCEPT !.expired = TRUE].n = i.n /\ [i EXCEPT !.expired = TRUE].usedBy = i.usedBy
      BY <1>0 DEF Invite
    <2>. QED  BY <1>6, <1>c, <2>1 DEF InviteExpires
  <1>7. ASSUME Kept,
               \/ \E s \in sessions : SessionExpires(s) \/ RefuseExpired(s)
               \/ \E t \in resets : ResetExpires(t)
               \/ CleanupExpiredSessions \/ UNCHANGED accountVars
        PROVE  InviteInv'
    BY <1>7, <1>b DEF SessionExpires, RefuseExpired, ResetExpires, CleanupExpiredSessions, accountVars
  <1>8. \A i \in 0..made["invite"] : i \in Nat
    OBVIOUS
  <1>. QED  BY <1>1, <1>2, <1>3, <1>4, <1>5, <1>6, <1>7, <1>8, KeptUsers DEF AccountsNext

SignupInv == ModeInv /\ Founders /\ InviteInv

LEMMA SignupSuffices == SignupInv => SignupsHold
  <1>. SUFFICES ASSUME SignupInv PROVE OneFounder
    BY DEF SignupsHold, SignupInv, InviteInv
  <1>. DEFINE F == {p \in Emails : users[p].invite = 0}
  <1>1. CASE wasOpen
    BY <1>1 DEF OneFounder
  <1>2. CASE F = {}
    BY <1>2, FS_EmptySet DEF OneFounder
  <1>3. ASSUME ~wasOpen, NEW p \in F PROVE OneFounder
    <2>1. F = {p}
      BY <1>3 DEF SignupInv, Founders
    <2>2. Cardinality(F) = 1
      BY <2>1, FS_Singleton
    <2>. QED  BY <2>2 DEF OneFounder
  <1>. QED  BY <1>1, <1>2, <1>3

LEMMA SignupInvariant == AccountsSpec => []SignupInv
  <1>1. AccountsInit => SignupInv
    <2> SUFFICES ASSUME AccountsInit PROVE SignupInv
      OBVIOUS
    <2>1. Emails = {} /\ invites = {}
      BY DEF AccountsInit, Emails
    <2>2. ModeInv
      BY DEF AccountsInit, ModeInv, EffectiveSignup, Idle
    <2>3. Founders /\ InviteInv
      BY <2>1 DEF Founders, InviteInv, Unique, Numbered, Traced, InviteUsedOnce
    <2>. QED  BY <2>2, <2>3 DEF SignupInv
  <1>2. /\ AccountsTypeOK /\ SessionInv /\ (AccountsTypeOK /\ SessionInv)'
        /\ SignupInv /\ [AccountsNext]_accountVars
        => SignupInv'
    BY ModeStep, FoundersStep, InviteInvStep DEF SignupInv, SessionInv
  <1>. QED  BY <1>1, <1>2, SessionsInvariant, PTL DEF AccountsSpec

\* However sign-ups, invites, their withdrawal and changes of the mode race:
\* a server that was never open has one founder, and an invite lets one in.
THEOREM SignupsAreSound == AccountsSpec => []SignupsHold
  BY SignupInvariant, SignupSuffices, PTL

----------------------------------------------------------------------------
(* Administrators.                                                         *)

LEMMA LastAdminStays ==
  ASSUME AccountsTypeOK, SessionInv, [AccountsNext]_accountVars
  PROVE  AdminsStep
  <1>. SUFFICES ASSUME Admins # {}, Admins' = {}, \A p \in Emails : users'[p] # None PROVE FALSE
    BY DEF AdminsStep
  <1>0. users \in [People -> Account \cup {None}] /\ \A p \in Emails : p \in People /\ users[p] \in Account
    BY Holder DEF AccountsTypeOK
  \* An administrator whom the step left alone.
  <1>a. ASSUME NEW a \in Admins, users'[a] = users[a] \/ (users'[a].admin /\ ~users'[a].disabled) PROVE FALSE
    BY <1>0, <1>a DEF Admins, Emails
  <1>1. ASSUME UNCHANGED users PROVE FALSE
    BY <1>1, <1>a
  <1>2. ASSUME NEW w \in Emails, NEW k \in Nat, users' = [users EXCEPT ![w].pass = k] PROVE FALSE
    <2>1. PICK a \in Admins : TRUE
      OBVIOUS
    <2>2. users'[a] = users[a] \/ users'[a] = [users[a] EXCEPT !.pass = k]
      BY <1>0, <1>2 DEF Admins
    <2>3. users'[a] = users[a] \/ (users'[a].admin /\ ~users'[a].disabled)
      BY <1>0, <2>2 DEF Admins, Account
    <2>. QED  BY <1>a, <2>3
  <1>3. ASSUME NEW r \in Reqs, CreateUser(r) PROVE FALSE
    <2>1. PICK w : users[w] = None /\ \E u : users' = [users EXCEPT ![w] = u]
      BY <1>3 DEF CreateUser
    <2>2. \A p \in Emails : users'[p] = users[p]
      BY <1>0, <2>1 DEF Emails
    <2>. QED  BY <1>a, <2>2 DEF Admins
  <1>4. ASSUME NEW r \in Reqs, DeleteMe(r) PROVE FALSE
    <2>1. Has(req[r].id) => Who(req[r].id) \in Emails
      BY Holder
    <2>2. Has(req[r].id) => users' = [users EXCEPT ![Who(req[r].id)] = None]
      BY <1>4 DEF DeleteMe
    <2>3. ~Has(req[r].id) => UNCHANGED users
      BY <1>4 DEF DeleteMe
    <2>. QED  BY <1>0, <1>1, <2>1, <2>2, <2>3
  <1>5. ASSUME NEW r \in Reqs, ChangePassword(r) PROVE FALSE
    <2>1. CASE Enabled(req[r].id) /\ users' = [users EXCEPT ![Who(req[r].id)].pass = req[r].new]
      <3>1. Who(req[r].id) \in Emails /\ req[r].new \in Nat
        BY <1>5, <2>1, Holder, ServedFields DEF Enabled, ChangePassword
      <3>. QED  BY <1>2, <2>1, <3>1
    <2>2. CASE UNCHANGED <<users, sessions>>
      BY <1>1, <2>2
    <2>. QED  BY <1>5, <2>1, <2>2 DEF ChangePassword
  <1>6. ASSUME NEW r \in Reqs, NEW t \in resets, UseResetToken(r, t) PROVE FALSE
    <2>1. Who(t.id) \in Emails /\ Mint("pass") \in Nat
      BY Holder, MintNat DEF SessionInv, Linked, Kinds
    <2>. QED  BY <1>2, <1>6, <2>1 DEF UseResetToken
  <1>7. ASSUME NEW r \in Reqs, AdminEditUser(r) PROVE FALSE
    <2> DEFINE q == req[r]
               w == Who(q.id)
               losing == IsAdmin(q.id) /\ (~q.edit.admin \/ q.edit.disabled)
    <2>1. CASE UNCHANGED <<users, sessions>>
      BY <1>1, <2>1
    <2>2. CASE /\ Has(q.id) /\ (losing => Cardinality(Admins) > 1)
               /\ users' = [users EXCEPT ![w].admin = q.edit.admin, ![w].disabled = q.edit.disabled]
      <3>1. w \in Emails /\ users[w].id = q.id /\ users[w] \in Account /\ w \in People
        BY <2>2, Holder
      <3>2. \A p \in People \ {w} : users'[p] = users[p]
        BY <1>0, <2>2
      <3>3. \A a \in Admins : a = w
        BY <1>0, <1>a, <3>2 DEF Admins
      <3>4. Admins = {w}
        BY <3>3
      <3>5. Cardinality(Admins) = 1
        BY <3>4, FS_Singleton
      <3>6. ~losing
        BY <2>2, <3>5
      <3>7. IsAdmin(q.id)
        BY <3>1, <3>4, <2>2 DEF IsAdmin, Of, Admins
      <3>8. users'[w].admin = q.edit.admin /\ users'[w].disabled = q.edit.disabled
        BY <1>0, <2>2, <3>1 DEF Account
      <3>. QED  BY <1>a, <3>4, <3>6, <3>7, <3>8
    <2>. QED  BY <1>7, <2>1, <2>2 DEF AdminEditUser
  <1>. QED  BY <1>1, <1>3, <1>4, <1>5, <1>6, <1>7, AccountWriters

\* Administrators who edit each other at once never leave the server without
\* one: only the deletion of an account can.
THEOREM LastAdminIsKept == AccountsSpec => AdminsStay
  <1>1. AccountsTypeOK /\ SessionInv /\ [AccountsNext]_accountVars => [AdminsStep]_accountVars
    BY LastAdminStays
  <1>. QED  BY <1>1, SessionsInvariant, PTL DEF AccountsSpec, AdminsStay

----------------------------------------------------------------------------
(* Passkeys: type correctness.                                             *)

LEMMA PasskeysTypeInit == PasskeysInit => PasskeysTypeOK
  <1>. SUFFICES ASSUME PasskeysInit PROVE PasskeysTypeOK
    OBVIOUS
  <1>1. stored \in [user : Users, count : 0..MaxCount] \cup {NoKey}
    BY PasskeysAssumption DEF PasskeysInit
  <1>2. issued \in Seq(Users \cup {""}) /\ Len(issued) <= MaxChallenges
    BY PasskeysAssumption DEF PasskeysInit
  <1>3. counter \in [Twins -> 0..MaxCount]
    BY PasskeysAssumption DEF PasskeysInit
  <1>. QED  BY <1>1, <1>2, <1>3 DEF PasskeysInit, PasskeysTypeOK

\* What a sign-in being served holds.
LEMMA LoginFields ==
  ASSUME PasskeysTypeOK, NEW l \in Logins
  PROVE  /\ login[l] = Free => login[l].at = "free"
         /\ login[l].at = "free" => login[l] = Free
         /\ login[l].at \in {"taken", "verified", "stored"} =>
              login[l] \in Serving /\ login[l].n \in 1..MaxChallenges /\ login[l].count \in 0..MaxCount
         /\ login[l].at \in {"free", "taken", "verified", "stored"}
  <1>1. login[l] \in Serving \cup {Free}
    BY DEF PasskeysTypeOK
  <1>. QED  BY <1>1 DEF Serving, Free

\* A sign-in goes one step further.
LEMMA LoginMoves ==
  ASSUME PasskeysTypeOK, NEW l \in Logins, login[l].at \in {"taken", "verified", "stored"},
         NEW at \in {"taken", "verified", "stored"}, login' = [login EXCEPT ![l].at = at]
  PROVE  /\ login' \in [Logins -> Serving \cup {Free}]
         /\ login'[l].at = at /\ login'[l].n = login[l].n /\ login'[l].count = login[l].count
         /\ \A k \in Logins \ {l} : login'[k] = login[k]
  <1>1. login \in [Logins -> Serving \cup {Free}] /\ login[l] \in Serving
    BY LoginFields DEF PasskeysTypeOK
  <1>2. PICK new : new = [login[l] EXCEPT !.at = at]
    OBVIOUS
  <1>3. new \in Serving /\ new.at = at /\ new.n = login[l].n /\ new.count = login[l].count
    BY <1>1, <1>2 DEF Serving
  <1>4. login' = [login EXCEPT ![l] = new]
    BY <1>1, <1>2
  <1>. QED  BY <1>1, <1>3, <1>4

LEMMA PasskeysTypeStep ==
  ASSUME PasskeysTypeOK, [PasskeysNext]_passkeysVars
  PROVE  PasskeysTypeOK'
  <1>0. /\ challenges \subseteq [n : 1..MaxChallenges, user : Users \cup {""}, old : BOOLEAN]
        /\ issued \in Seq(Users \cup {""}) /\ Len(issued) <= MaxChallenges
        /\ stored \in [user : Users, count : 0..MaxCount] \cup {NoKey}
        /\ counter \in [Twins -> 0..MaxCount]
        /\ signed \subseteq [n : 1..MaxChallenges, count : 0..MaxCount]
        /\ login \in [Logins -> Serving \cup {Free}]
        /\ opened \in [1..MaxChallenges -> Nat]
        /\ accepted \subseteq 1..MaxCount
        /\ enabled \in BOOLEAN /\ repeated \in BOOLEAN /\ overlap \in BOOLEAN
    BY DEF PasskeysTypeOK
  <1>m. MaxChallenges \in Nat /\ MaxCount \in Nat
    BY PasskeysAssumption
  <1>c. challenges \subseteq [n : 1..MaxChallenges, user : Users \cup {""}, old : BOOLEAN]
    BY <1>0
  <1>i. issued \in Seq(Users \cup {""}) /\ Len(issued) <= MaxChallenges /\ Len(issued) \in Nat /\ DOMAIN issued = 1..Len(issued)
    BY <1>0, LenProperties
  <1>j. /\ Len(issued) < MaxChallenges => Len(issued) + 1 \in 1..MaxChallenges /\ Len(issued) + 1 <= MaxChallenges
        /\ DOMAIN issued \subseteq 1..MaxChallenges
    <2>1. \A k \in Nat : k <= MaxChallenges => 1..k \subseteq 1..MaxChallenges
      BY <1>m
    <2>2. \A k \in Nat : k < MaxChallenges => k + 1 \in 1..MaxChallenges /\ k + 1 <= MaxChallenges
      BY <1>m
    <2>. QED  BY <1>i, <2>1, <2>2
  <1>k. counter \in [Twins -> 0..MaxCount] /\ signed \subseteq [n : 1..MaxChallenges, count : 0..MaxCount]
    BY <1>0
  <1>1. ASSUME NEW u \in Users \cup {""}, New(u) PROVE PasskeysTypeOK'
    <2>1. issued' \in Seq(Users \cup {""}) /\ Len(issued') = Len(issued) + 1 /\ Len(issued) \in Nat
      BY <1>i, <1>1, AppendProperties DEF New
    <2>2. [n |-> Len(issued) + 1, user |-> u, old |-> FALSE] \in [n : 1..MaxChallenges, user : Users \cup {""}, old : BOOLEAN]
      BY <1>j, <1>1 DEF New
    <2>3. challenges' \subseteq [n : 1..MaxChallenges, user : Users \cup {""}, old : BOOLEAN]
      BY <1>c, <1>1, <2>2 DEF New
    <2>4. Len(issued') <= MaxChallenges
      BY <1>j, <1>1, <2>1 DEF New
    <2>5. UNCHANGED <<stored, enabled, counter, signed, login, opened, accepted, repeated, overlap>>
      BY <1>1 DEF New
    <2>. QED  BY <1>0, <2>1, <2>3, <2>4, <2>5 DEF PasskeysTypeOK
  <1>2. ASSUME NEW c \in challenges, Old(c) PROVE PasskeysTypeOK'
    <2>1. [c EXCEPT !.old = TRUE] \in [n : 1..MaxChallenges, user : Users \cup {""}, old : BOOLEAN]
      BY <1>0
    <2>2. challenges' \subseteq [n : 1..MaxChallenges, user : Users \cup {""}, old : BOOLEAN]
      BY <1>0, <1>2, <2>1 DEF Old
    <2>. QED  BY <1>0, <1>2, <2>2 DEF Old, PasskeysTypeOK
  <1>3. ASSUME NEW u \in Users, NEW n, AddPasskey(u, n) PROVE PasskeysTypeOK'
    <2>1. challenges' \subseteq challenges
      BY <1>3 DEF AddPasskey, Take
    <2>2. UNCHANGED <<issued, enabled, counter, signed, login, opened>>
      BY <1>3 DEF AddPasskey
    <2>3. CASE UNCHANGED <<stored, accepted, repeated, overlap>>
      BY <1>0, <2>1, <2>2, <2>3 DEF PasskeysTypeOK
    <2>4. ASSUME NEW count \in {0, counter["own"]},
                 stored' = [user |-> u, count |-> count],
                 accepted' = (IF count = 0 THEN {} ELSE {count}), repeated' = FALSE,
                 overlap' = \E l \in Logins : login[l].at = "verified"
          PROVE  PasskeysTypeOK'
      <3>1. count \in 0..MaxCount
        BY <1>k, <1>m DEF Twins
      <3>2. accepted' \subseteq 1..MaxCount /\ overlap' \in BOOLEAN /\ repeated' \in BOOLEAN
        <4>1. count = 0 \/ count \in 1..MaxCount
          BY <1>m, <3>1
        <4>. QED  BY <2>4, <4>1
      <3>3. stored' \in [user : Users, count : 0..MaxCount]
        BY <2>4, <3>1
      <3>. QED  BY <1>0, <2>1, <2>2, <3>2, <3>3 DEF PasskeysTypeOK
    <2>. QED  BY <1>3, <2>3, <2>4 DEF AddPasskey
  <1>4. CASE DeletePasskey \/ Disable
    BY <1>0, <1>4 DEF DeletePasskey, Disable, PasskeysTypeOK
  <1>5. ASSUME NEW twin \in Twins, NEW n \in DOMAIN issued, NEW counts \in BOOLEAN, Sign(twin, n, counts)
        PROVE  PasskeysTypeOK'
    <2>1. n \in 1..MaxChallenges
      BY <1>j
    <2>2. counter[twin] + 1 \in 0..MaxCount
      BY <1>k, <1>m, <1>5 DEF Sign
    <2>3. counter' \in [Twins -> 0..MaxCount]
      BY <1>k, <1>5, <2>2 DEF Sign
    <2>4. signed' \subseteq [n : 1..MaxChallenges, count : 0..MaxCount]
      <3>1. \A k \in 0..MaxCount : [n |-> n, count |-> k] \in [n : 1..MaxChallenges, count : 0..MaxCount]
        BY <2>1
      <3>2. 0 \in 0..MaxCount
        BY <1>m
      <3>. QED  BY <1>k, <1>5, <2>2, <3>1, <3>2 DEF Sign
    <2>. QED  BY <1>0, <1>5, <2>3, <2>4 DEF Sign, PasskeysTypeOK
  <1>6. ASSUME NEW l \in Logins, NEW s \in signed, Finish(l, s) PROVE PasskeysTypeOK'
    <2>1. [at |-> "taken", n |-> s.n, count |-> s.count] \in Serving
      BY <1>0 DEF Serving
    <2>2. login' \in [Logins -> Serving \cup {Free}]
      BY <1>0, <1>6, <2>1 DEF Finish
    <2>3. challenges' \subseteq challenges
      BY <1>6 DEF Finish, Take
    <2>. QED  BY <1>0, <1>6, <2>2, <2>3 DEF Finish, PasskeysTypeOK
  <1>7. ASSUME NEW l \in Logins, Verify(l) PROVE PasskeysTypeOK'
    <2>1. login[l].count \in 0..MaxCount
      BY <1>7, LoginFields DEF Verify
    <2>2. login' \in [Logins -> Serving \cup {Free}]
      <3>1. CASE login' = [login EXCEPT ![l].at = "verified"]
        BY <1>7, <3>1, LoginMoves DEF Verify
      <3>2. CASE login' = [login EXCEPT ![l] = Free]
        BY <1>0, <3>2
      <3>. QED  BY <1>7, <3>1, <3>2 DEF Verify
    <2>3. accepted' \subseteq 1..MaxCount
      <3>1. accepted' \subseteq accepted \cup ({login[l].count} \ {0})
        BY <1>7 DEF Verify
      <3>2. login[l].count = 0 \/ login[l].count \in 1..MaxCount
        BY <1>m, <2>1
      <3>3. accepted \subseteq 1..MaxCount
        BY <1>0
      <3>. QED  BY <3>1, <3>2, <3>3
    <2>4. repeated' \in BOOLEAN /\ overlap' \in BOOLEAN
      BY <1>0, <1>7 DEF Verify
    <2>. QED  BY <1>0, <1>7, <2>2, <2>3, <2>4 DEF Verify, PasskeysTypeOK
  <1>8. ASSUME NEW l \in Logins, NEW saved \in BOOLEAN, StoreCount(l, saved) PROVE PasskeysTypeOK'
    <2>1. login[l].count \in 0..MaxCount /\ login' \in [Logins -> Serving \cup {Free}]
      BY <1>8, LoginFields, LoginMoves DEF StoreCount
    <2>2. stored' \in [user : Users, count : 0..MaxCount] \cup {NoKey}
      BY <1>0, <1>8, <2>1 DEF StoreCount
    <2>3. overlap' \in BOOLEAN
      BY <1>0, <1>8 DEF StoreCount
    <2>. QED  BY <1>0, <1>8, <2>1, <2>2, <2>3 DEF StoreCount, PasskeysTypeOK
  <1>9. ASSUME NEW l \in Logins, OpenSession(l) PROVE PasskeysTypeOK'
    <2>1. login[l].n \in 1..MaxChallenges
      BY <1>9, LoginFields DEF OpenSession
    <2>2. opened' \in [1..MaxChallenges -> Nat] /\ login' \in [Logins -> Serving \cup {Free}]
      <3>1. opened \in [1..MaxChallenges -> Nat] /\ login \in [Logins -> Serving \cup {Free}]
        BY <1>0
      <3>. QED  BY <1>9, <2>1, <3>1 DEF OpenSession
    <2>. QED  BY <1>0, <1>9, <2>2 DEF OpenSession, PasskeysTypeOK
  <1>10. CASE Restart
    BY <1>0, <1>10 DEF Restart, PasskeysTypeOK
  <1>11. CASE UNCHANGED passkeysVars
    BY <1>0, <1>11 DEF passkeysVars, PasskeysTypeOK
  <1>. QED  BY <1>1, <1>2, <1>3, <1>4, <1>5, <1>6, <1>7, <1>8, <1>9, <1>10, <1>11 DEF PasskeysNext

----------------------------------------------------------------------------
(* Challenges.                                                             *)

\* A challenge is outstanding, or with one sign-in, or has opened a session,
\* and what is not outstanding never is again.
Busy(l) == login[l].at # "free"
Outstanding ==
  \A c \in challenges : /\ c.n \in DOMAIN issued /\ c.user = issued[c.n] /\ opened[c.n] = 0
                        /\ \A l \in Logins : Busy(l) => login[l].n # c.n
WithOne ==
  \A l \in Logins : Busy(l) => /\ login[l].n \in DOMAIN issued /\ issued[login[l].n] = "" /\ opened[login[l].n] = 0
                               /\ \A k \in Logins : Busy(k) /\ login[k].n = login[l].n => k = l
Opened ==
  \A n \in 1..MaxChallenges : opened[n] = 0 \/ (opened[n] = 1 /\ n \in DOMAIN issued /\ issued[n] = "")
ChallengeInv == Outstanding /\ WithOne /\ Opened

LEMMA Appended ==
  ASSUME NEW S, NEW seq \in Seq(S), NEW e \in S, NEW M \in Nat, Len(seq) < M
  PROVE  /\ Append(seq, e)[Len(seq) + 1] = e
         /\ Len(seq) + 1 \in DOMAIN Append(seq, e) /\ Len(seq) + 1 \in 1..M /\ Len(seq) + 1 \notin DOMAIN seq
         /\ \A n \in DOMAIN seq : n \in DOMAIN Append(seq, e) /\ Append(seq, e)[n] = seq[n]
  <1>1. /\ Append(seq, e) \in Seq(S) /\ Len(Append(seq, e)) = Len(seq) + 1 /\ Append(seq, e)[Len(seq) + 1] = e
        /\ \A n \in 1..Len(seq) : Append(seq, e)[n] = seq[n]
    BY AppendProperties
  <1>2. DOMAIN Append(seq, e) = 1..(Len(seq) + 1) /\ DOMAIN seq = 1..Len(seq) /\ Len(seq) \in Nat
    BY <1>1, LenProperties
  <1>3. ASSUME NEW k \in Nat, k < M
        PROVE  k + 1 \in 1..(k + 1) /\ k + 1 \in 1..M /\ k + 1 \notin 1..k /\ \A n \in 1..k : n \in 1..(k + 1)
    BY <1>3
  <1>. QED  BY <1>1, <1>2, <1>3

LEMMA ChallengeStep ==
  ASSUME PasskeysTypeOK, PasskeysTypeOK', ChallengeInv, [PasskeysNext]_passkeysVars
  PROVE  ChallengeInv'
  <1>l. login \in [Logins -> Serving \cup {Free}] /\ opened \in [1..MaxChallenges -> Nat]
    BY DEF PasskeysTypeOK
  <1>i. issued \in Seq(Users \cup {""}) /\ Len(issued) \in Nat /\ DOMAIN issued = 1..Len(issued)
    BY LenProperties DEF PasskeysTypeOK
  <1>c. \A c \in challenges : /\ c.n \in DOMAIN issued /\ c.user = issued[c.n] /\ opened[c.n] = 0
                              /\ \A l \in Logins : Busy(l) => login[l].n # c.n
    BY DEF ChallengeInv, Outstanding
  <1>w. \A l \in Logins : Busy(l) => /\ login[l].n \in DOMAIN issued /\ issued[login[l].n] = "" /\ opened[login[l].n] = 0
                                     /\ \A k \in Logins : Busy(k) /\ login[k].n = login[l].n => k = l
    BY DEF ChallengeInv, WithOne
  <1>f. Free.at = "free"
    BY DEF Free
  \* Steps that drop challenges and let sign-ins go on or give up.
  <1>a. ASSUME challenges' \subseteq challenges, UNCHANGED <<issued, opened>>,
               \A k \in Logins : Busy(k)' => Busy(k) /\ login'[k].n = login[k].n
        PROVE  ChallengeInv'
    <2>1. Outstanding'
      BY <1>a DEF ChallengeInv, Outstanding
    <2>2. WithOne'
      BY <1>a DEF ChallengeInv, WithOne
    <2>. QED  BY <1>a, <2>1, <2>2 DEF ChallengeInv, Opened
  <1>1. ASSUME NEW u, u \in Users \cup {""}, New(u) PROVE ChallengeInv'
    <2> DEFINE S == Users \cup {""}
               new == Len(issued) + 1
    <2>0. issued' = Append(issued, u) /\ Len(issued) < MaxChallenges /\ MaxChallenges \in Nat
      BY <1>1, PasskeysAssumption DEF New
    <2>1. /\ issued'[new] = u /\ new \in DOMAIN issued' /\ new \in 1..MaxChallenges /\ new \notin DOMAIN issued
          /\ \A n \in DOMAIN issued : n \in DOMAIN issued' /\ issued'[n] = issued[n]
      <3>1. u \in S /\ issued \in Seq(S)
        BY <1>1, <1>i
      <3> HIDE DEF S
      <3>. QED  BY <2>0, <3>1, Appended
    <2> HIDE DEF S, new
    <2>5. opened[new] = 0 /\ \A l \in Logins : Busy(l) => login[l].n # new
      BY <1>w, <2>1 DEF ChallengeInv, Opened
    <2>6. UNCHANGED <<opened, login>>
      BY <1>1 DEF New
    <2>7. \A c \in challenges' : c \in challenges \/ (c.n = new /\ c.user = u)
      <3> DEFINE row == [n |-> new, user |-> u, old |-> FALSE]
      <3>1. challenges' \subseteq challenges \cup {row}
        BY <1>1 DEF New, new
      <3>2. row.n = new /\ row.user = u
        OBVIOUS
      <3> HIDE DEF row
      <3>. QED  BY <3>1, <3>2
    <2>8. Outstanding'
      <3>1. ASSUME NEW c \in challenges', c \in challenges
            PROVE  /\ c.n \in DOMAIN issued' /\ c.user = issued'[c.n] /\ opened'[c.n] = 0
                   /\ \A l \in Logins : Busy(l)' => login'[l].n # c.n
        BY <1>c, <2>1, <2>6, <3>1 DEF Busy
      <3>2. ASSUME NEW c \in challenges', c.n = new, c.user = u
            PROVE  /\ c.n \in DOMAIN issued' /\ c.user = issued'[c.n] /\ opened'[c.n] = 0
                   /\ \A l \in Logins : Busy(l)' => login'[l].n # c.n
        BY <2>1, <2>5, <2>6, <3>2 DEF Busy
      <3>. QED  BY <2>7, <3>1, <3>2 DEF Outstanding
    <2>9. WithOne' /\ Opened'
      BY <2>1, <2>6 DEF ChallengeInv, WithOne, Opened, Busy
    <2>. QED  BY <2>8, <2>9 DEF ChallengeInv
  <1>2. ASSUME NEW c \in challenges, Old(c) PROVE ChallengeInv'
    <2>1. c \in [n : 1..MaxChallenges, user : Users \cup {""}, old : BOOLEAN]
      BY DEF PasskeysTypeOK
    <2>2. [c EXCEPT !.old = TRUE].n = c.n /\ [c EXCEPT !.old = TRUE].user = c.user
      BY <2>1
    <2>3. \A d \in challenges' : \E e \in challenges : d.n = e.n /\ d.user = e.user
      BY <1>2, <2>2 DEF Old
    <2>4. UNCHANGED <<issued, opened, login>>
      BY <1>2 DEF Old
    <2>5. Outstanding'
      BY <1>c, <2>3, <2>4 DEF Outstanding, Busy
    <2>6. WithOne' /\ Opened'
      BY <2>4 DEF ChallengeInv, WithOne, Opened, Busy
    <2>. QED  BY <2>5, <2>6 DEF ChallengeInv
  <1>3. ASSUME NEW u, NEW n, AddPasskey(u, n) PROVE ChallengeInv'
    BY <1>3, <1>a DEF AddPasskey, Take, Busy
  <1>4. ASSUME \/ DeletePasskey \/ Disable \/ UNCHANGED passkeysVars
               \/ \E twin, n, counts : Sign(twin, n, counts)
        PROVE  ChallengeInv'
    BY <1>4, <1>a DEF DeletePasskey, Disable, Sign, passkeysVars, Busy
  <1>5. ASSUME NEW l \in Logins, NEW s \in signed, Finish(l, s) PROVE ChallengeInv'
    <2>1. challenges' \subseteq challenges /\ (\A c \in challenges' : c.n # s.n) /\ UNCHANGED <<issued, opened>>
      BY <1>5 DEF Finish, Take
    <2>2. CASE ~Good(s.n, "")
      BY <1>5, <1>a, <2>1, <2>2 DEF Finish, Busy
    <2>3. CASE Good(s.n, "")
      <3>1. PICK c \in challenges : c.n = s.n /\ c.user = ""
        BY <2>3 DEF Good
      <3>2. /\ s.n \in DOMAIN issued /\ issued[s.n] = "" /\ opened[s.n] = 0
            /\ \A k \in Logins : Busy(k) => login[k].n # s.n
        <4>1. /\ c.n \in DOMAIN issued /\ c.user = issued[c.n] /\ opened[c.n] = 0
              /\ \A k \in Logins : Busy(k) => login[k].n # c.n
          BY <1>c
        <4>. QED  BY <3>1, <4>1
      <3>3. PICK new : login' = [login EXCEPT ![l] = new] /\ new.n = s.n
        <4> DEFINE new == [at |-> "taken", n |-> s.n, count |-> s.count]
        <4>1. login' = [login EXCEPT ![l] = new] /\ new.n = s.n
          BY <1>5, <2>3 DEF Finish
        <4> HIDE DEF new
        <4>. QED  BY <4>1
      <3>4. login'[l].n = s.n /\ \A k \in Logins \ {l} : login'[k] = login[k]
        BY <1>l, <3>3
      <3>5. \A k \in Logins \ {l} : Busy(k)' => Busy(k) /\ login'[k].n = login[k].n
        BY <3>4 DEF Busy
      <3>6. Outstanding'
        BY <1>c, <2>1, <3>4, <3>5 DEF Outstanding
      <3>7. WithOne'
        <4>1. ASSUME NEW k \in Logins, Busy(k)'
              PROVE  login'[k].n \in DOMAIN issued' /\ issued'[login'[k].n] = "" /\ opened'[login'[k].n] = 0
          BY <1>w, <2>1, <3>2, <3>4, <3>5, <4>1
        <4>2. ASSUME NEW k \in Logins, Busy(k)', NEW j \in Logins, Busy(j)', login'[j].n = login'[k].n
              PROVE  j = k
          <5>1. \A i \in Logins \ {l} : Busy(i)' => Busy(i) /\ login'[i].n = login[i].n /\ login'[i].n # s.n
            BY <3>2, <3>5
          <5>2. CASE j # l /\ k # l
            BY <1>w, <4>2, <5>1, <5>2
          <5>3. CASE j = l \/ k = l
            BY <3>4, <4>2, <5>1, <5>3
          <5>. QED  BY <5>2, <5>3
        <4>. QED  BY <4>1, <4>2 DEF WithOne
      <3>8. Opened'
        BY <2>1 DEF ChallengeInv, Opened
      <3>. QED  BY <3>6, <3>7, <3>8 DEF ChallengeInv
    <2>. QED  BY <2>2, <2>3
  <1>6. ASSUME NEW l \in Logins, Verify(l) \/ \E saved \in BOOLEAN : StoreCount(l, saved) PROVE ChallengeInv'
    <2>1. login[l].at \in {"taken", "verified"}
      BY <1>6 DEF Verify, StoreCount
    <2>2. \/ login' = [login EXCEPT ![l] = Free]
          \/ \E at \in {"verified", "stored"} : login' = [login EXCEPT ![l].at = at]
      BY <1>6 DEF Verify, StoreCount
    <2>3. \A k \in Logins : Busy(k)' => Busy(k) /\ login'[k].n = login[k].n
      <3>1. CASE login' = [login EXCEPT ![l] = Free]
        BY <1>f, <1>l, <3>1 DEF Busy
      <3>2. ASSUME NEW at \in {"verified", "stored"}, login' = [login EXCEPT ![l].at = at]
            PROVE  \A k \in Logins : Busy(k)' => Busy(k) /\ login'[k].n = login[k].n
        BY <2>1, <3>2, LoginMoves DEF Busy
      <3>. QED  BY <2>2, <3>1, <3>2
    <2>. QED  BY <1>6, <1>a, <2>3 DEF Verify, StoreCount
  <1>7. ASSUME NEW l \in Logins, OpenSession(l) PROVE ChallengeInv'
    <2> DEFINE n == login[l].n
    <2>1. Busy(l) /\ n \in 1..MaxChallenges /\ UNCHANGED <<challenges, issued>>
      BY <1>7, LoginFields DEF OpenSession, Busy
    <2>2. n \in DOMAIN issued /\ issued[n] = "" /\ opened[n] = 0
          /\ \A k \in Logins \ {l} : Busy(k) => login[k].n # n
      BY <2>1 DEF ChallengeInv, WithOne
    <2>3. ~Busy(l)' /\ \A k \in Logins \ {l} : login'[k] = login[k]
      BY <1>7, <1>f, <1>l DEF OpenSession, Busy
    <2>4. opened'[n] \in {0, 1} /\ \A m \in (1..MaxChallenges) \ {n} : opened'[m] = opened[m]
      <3>1. UNCHANGED opened \/ opened' = [opened EXCEPT ![n] = 0 + 1]
        BY <1>7, <2>2 DEF OpenSession
      <3>2. opened[n] = 0
        BY <2>2
      <3>3. n \in 1..MaxChallenges
        BY <2>1
      <3> HIDE DEF n
      <3>4. CASE UNCHANGED opened
        BY <3>2, <3>4
      <3>5. CASE opened' = [opened EXCEPT ![n] = 0 + 1]
        BY <1>l, <3>3, <3>5
      <3>. QED  BY <3>1, <3>4, <3>5
    <2>5. \A c \in challenges : c.n # n /\ c.n \in 1..MaxChallenges
      BY <2>1 DEF ChallengeInv, Outstanding, PasskeysTypeOK
    <2>6. \A k \in Logins : Busy(k)' => k # l /\ Busy(k) /\ login'[k] = login[k] /\ login[k].n \in 1..MaxChallenges
      <3>1. \A k \in Logins : Busy(k) => login[k].n \in 1..MaxChallenges
        BY LoginFields DEF Busy
      <3>. QED  BY <2>3, <3>1 DEF Busy
    <2> HIDE DEF n
    <2>7. Outstanding'
      BY <2>1, <2>4, <2>5, <2>6 DEF ChallengeInv, Outstanding
    <2>8. WithOne'
      <3>1. ASSUME NEW k \in Logins, Busy(k)'
            PROVE  login'[k].n \in DOMAIN issued' /\ issued'[login'[k].n] = "" /\ opened'[login'[k].n] = 0
        <4>1. k # l /\ Busy(k) /\ login'[k] = login[k] /\ login[k].n \in 1..MaxChallenges
          BY <2>6, <3>1
        <4>2. login[k].n # n /\ opened'[login[k].n] = opened[login[k].n]
          BY <2>2, <2>4, <4>1
        <4>. QED  BY <1>w, <2>1, <4>1, <4>2
      <3>2. ASSUME NEW k \in Logins, Busy(k)', NEW j \in Logins, Busy(j)', login'[j].n = login'[k].n
            PROVE  j = k
        BY <1>w, <2>6, <3>2
      <3>. QED  BY <3>1, <3>2 DEF WithOne
    <2>9. Opened'
      BY <2>1, <2>2, <2>4 DEF ChallengeInv, Opened
    <2>. QED  BY <2>7, <2>8, <2>9 DEF ChallengeInv
  <1>8. CASE Restart
    BY <1>8, <1>a, <1>f DEF Restart, Busy
  <1>. QED  BY <1>1, <1>2, <1>3, <1>4, <1>5, <1>6, <1>7, <1>8 DEF PasskeysNext

----------------------------------------------------------------------------
(* Counters.                                                               *)

\* Unless sign-ins ran side by side, no counter was repeated, and what is
\* stored, or about to be, is as far on as anything accepted.
Pending == {l \in Logins : login[l].at = "verified"}
InTurn ==
  /\ ~repeated
  /\ \A l \in Pending : \A c \in accepted : c <= login[l].count
  /\ stored # NoKey /\ Pending = {} => \A c \in accepted : c <= stored.count
CountInv == overlap \/ InTurn

LEMMA CountStep ==
  ASSUME PasskeysTypeOK, PasskeysTypeOK', CountInv, [PasskeysNext]_passkeysVars
  PROVE  CountInv'
  <1>l. login \in [Logins -> Serving \cup {Free}]
    BY DEF PasskeysTypeOK
  <1>n. /\ \A c \in accepted : c \in Nat /\ c > 0
        /\ stored.count \in Nat /\ NoKey.count = 0
        /\ \A l \in Pending : l \in Logins /\ login[l].count \in Nat
    <2>1. \A c \in 1..MaxCount : c \in Nat /\ c > 0
      OBVIOUS
    <2>2. \A c \in 0..MaxCount : c \in Nat
      OBVIOUS
    <2>3. stored \in [user : Users, count : 0..MaxCount] \cup {NoKey} /\ accepted \subseteq 1..MaxCount
      BY DEF PasskeysTypeOK
    <2>4. stored.count \in Nat /\ NoKey.count = 0
      <3>1. NoKey.count = 0
        BY DEF NoKey
      <3>2. CASE stored = NoKey
        BY <3>1, <3>2
      <3>3. CASE stored \in [user : Users, count : 0..MaxCount]
        <4>1. stored.count \in 0..MaxCount
          BY <3>3
        <4>. QED  BY <2>2, <3>1, <4>1
      <3>. QED  BY <2>3, <3>2, <3>3
    <2>5. \A l \in Pending : l \in Logins /\ login[l].count \in Nat
      BY <2>2, LoginFields DEF Pending
    <2>. QED  BY <2>1, <2>3, <2>4, <2>5
  <1>f. Free.at = "free"
    BY DEF Free
  <1>a. ASSUME UNCHANGED <<stored, login, accepted, repeated, overlap>> PROVE CountInv'
    BY <1>a DEF CountInv, InTurn, Pending
  \* A sign-in that is not between its check and its storing goes on.
  <1>b. ASSUME UNCHANGED <<stored, accepted, repeated, overlap>>, Pending' = Pending,
               \A l \in Pending : login'[l] = login[l]
        PROVE  CountInv'
    BY <1>b DEF CountInv, InTurn
  <1>1. CASE \/ Disable \/ UNCHANGED passkeysVars \/ (\E u : New(u)) \/ (\E c : Old(c))
             \/ \E twin, n, counts : Sign(twin, n, counts)
    BY <1>1, <1>a DEF Disable, New, Old, Sign, passkeysVars
  <1>2. ASSUME NEW u, NEW n, AddPasskey(u, n) PROVE CountInv'
    <2>1. CASE UNCHANGED <<stored, accepted, repeated, overlap>>
      BY <1>2, <1>a, <2>1 DEF AddPasskey
    <2>2. ASSUME NEW count, stored' = [user |-> u, count |-> count],
                 accepted' = (IF count = 0 THEN {} ELSE {count}), repeated' = FALSE,
                 overlap' = (\E l \in Logins : login[l].at = "verified"), UNCHANGED login
          PROVE  CountInv'
      <3>1. overlap' = (Pending # {}) /\ Pending' = Pending
        BY <2>2 DEF Pending
      <3>2. \A c \in accepted' : c = stored'.count
        BY <2>2
      <3>3. \A c \in accepted' : c <= c
        <4>1. \A c \in 1..MaxCount : c <= c
          OBVIOUS
        <4>. QED  BY <4>1 DEF PasskeysTypeOK
      <3>. QED  BY <2>2, <3>1, <3>2, <3>3 DEF CountInv, InTurn
    <2>. QED  BY <1>2, <2>1, <2>2 DEF AddPasskey
  <1>3. CASE DeletePasskey
    BY <1>3 DEF DeletePasskey, CountInv, InTurn, Pending
  <1>4. ASSUME NEW l \in Logins, NEW s \in signed, Finish(l, s) PROVE CountInv'
    <2>1. \A k \in Logins \ {l} : login'[k] = login[k]
      BY <1>4, <1>l DEF Finish
    <2>2. login[l].at = "free" /\ login'[l].at \in {"free", "taken"}
      BY <1>4, <1>f, <1>l DEF Finish
    <2>. QED  BY <1>4, <1>b, <2>1, <2>2 DEF Finish, Pending
  \* The counter goes on from what is stored, which is as far as any.
  <1>5. ASSUME NEW l \in Logins, Verify(l) PROVE CountInv'
    <2> DEFINE q == login[l]
    <2>1. q.at = "taken" /\ q.count \in 0..MaxCount /\ q.count \in Nat
      BY <1>5, LoginFields DEF Verify
    <2>2. CASE login' = [login EXCEPT ![l] = Free] /\ UNCHANGED <<stored, accepted, repeated, overlap>>
      <3>1. l \notin Pending /\ Pending' = Pending /\ \A k \in Pending : login'[k] = login[k]
        BY <1>f, <1>l, <2>1, <2>2 DEF Pending
      <3>. QED  BY <1>b, <2>2, <3>1
    <2>3. CASE /\ stored # NoKey /\ Verifies(q.count)
               /\ login' = [login EXCEPT ![l].at = "verified"]
               /\ accepted' = accepted \cup ({q.count} \ {0})
               /\ repeated' = (repeated \/ \E c \in accepted : q.count # 0 /\ q.count <= c)
               /\ overlap' = (overlap \/ q.count = 0 \/ \E k \in Logins : login[k].at = "verified")
      <3>. SUFFICES ASSUME ~overlap' PROVE InTurn'
        BY DEF CountInv
      <3>1. ~overlap /\ q.count # 0 /\ Pending = {}
        BY <2>3 DEF Pending
      <3>2. ~repeated /\ \A c \in accepted : c <= stored.count
        BY <2>3, <3>1 DEF CountInv, InTurn
      <3>3. stored.count = 0 \/ stored.count < q.count
        BY <1>n, <2>1, <2>3, <3>1 DEF Verifies
      <3>4. \A c \in accepted : c < q.count
        BY <1>n, <2>1, <3>2, <3>3
      <3>5. ~repeated'
        <4>1. \A c \in accepted : ~(q.count <= c)
          BY <1>n, <2>1, <3>4
        <4>. QED  BY <2>3, <3>2, <4>1
      <3>6. \A c \in accepted' : c <= q.count
        BY <1>n, <2>1, <2>3, <3>4
      <3>7. Pending' = {l} /\ login'[l].count = q.count
        BY <2>1, <2>3, <3>1, LoginMoves DEF Pending
      <3>. QED  BY <3>5, <3>6, <3>7 DEF InTurn
    <2>. QED  BY <1>5, <2>2, <2>3 DEF Verify
  <1>6. ASSUME NEW l \in Logins, NEW saved \in BOOLEAN, StoreCount(l, saved) PROVE CountInv'
    <2>0. CASE ~saved
      BY <1>6, <2>0 DEF StoreCount, CountInv
    <2>1. l \in Pending /\ UNCHANGED <<accepted, repeated>> /\ overlap' = (overlap \/ ~saved)
      BY <1>6 DEF StoreCount, Pending
    <2>2. \A k \in Pending' : k \in Pending /\ login'[k] = login[k]
      BY <1>6, LoginMoves DEF StoreCount, Pending
    <2>3. ASSUME saved PROVE stored' # NoKey => stored'.count = login[l].count
      <3>1. stored \in [user : Users, count : 0..MaxCount] \cup {NoKey}
        BY DEF PasskeysTypeOK
      <3>. QED  BY <1>6, <2>3, <3>1 DEF StoreCount
    <2>4. CASE saved
      BY <2>1, <2>2, <2>3, <2>4 DEF CountInv, InTurn
    <2>. QED  BY <2>0, <2>4
  <1>7. ASSUME NEW l \in Logins, OpenSession(l) PROVE CountInv'
    <2>1. Pending' = Pending /\ \A k \in Pending : login'[k] = login[k]
      BY <1>7, <1>f, <1>l DEF OpenSession, Pending
    <2>. QED  BY <1>7, <1>b, <2>1 DEF OpenSession
  <1>8. CASE Restart
    <2>1. overlap' = (overlap \/ Pending # {}) /\ Pending' = {}
      BY <1>8, <1>f DEF Restart, Pending
    <2>2. UNCHANGED <<stored, accepted, repeated>>
      BY <1>8 DEF Restart
    <2>. QED  BY <2>1, <2>2 DEF CountInv, InTurn
  <1>. QED  BY <1>1, <1>2, <1>3, <1>4, <1>5, <1>6, <1>7, <1>8 DEF PasskeysNext

LEMMA PasskeysInvariant == PasskeysSpec => [](PasskeysTypeOK /\ ChallengeInv /\ CountInv)
  <1>1. PasskeysInit => PasskeysTypeOK /\ ChallengeInv /\ CountInv
    <2> SUFFICES ASSUME PasskeysInit PROVE ChallengeInv /\ CountInv
      BY PasskeysTypeInit
    <2>1. ChallengeInv
      BY DEF PasskeysInit, ChallengeInv, Outstanding, WithOne, Opened, Busy, Free
    <2>2. CountInv
      BY DEF PasskeysInit, CountInv, InTurn, Pending, Free
    <2>. QED  BY <2>1, <2>2
  <1>2. /\ PasskeysTypeOK /\ ChallengeInv /\ CountInv /\ [PasskeysNext]_passkeysVars
        => (PasskeysTypeOK /\ ChallengeInv /\ CountInv)'
    BY PasskeysTypeStep, ChallengeStep, CountStep
  <1>. QED  BY <1>1, <1>2, PTL DEF PasskeysSpec

\* What is outstanding, signed and served keeps its shape.
THEOREM PasskeysTyped == PasskeysSpec => []PasskeysTypeOK
  BY PasskeysInvariant, PTL

\* However often answers are sent, and across restarts: a challenge opens one
\* session, and a counter that does not go on is found out unless sign-ins
\* overlap or leave it at 0.
THEOREM PasskeysAreSound == PasskeysSpec => []PasskeysHold
  <1>1. ChallengeInv /\ CountInv => PasskeysHold
    <2>1. CountInv => (repeated => overlap)
      BY DEF CountInv, InTurn
    <2>2. ChallengeInv => \A n \in 1..MaxChallenges : opened[n] <= IF n \in DOMAIN issued /\ issued[n] = "" THEN 1 ELSE 0
      <3> SUFFICES ASSUME ChallengeInv, NEW n \in 1..MaxChallenges
                   PROVE  opened[n] <= IF n \in DOMAIN issued /\ issued[n] = "" THEN 1 ELSE 0
        OBVIOUS
      <3> DEFINE forSigningIn == n \in DOMAIN issued /\ issued[n] = ""
      <3>1. opened[n] = 0 \/ (opened[n] = 1 /\ forSigningIn)
        BY DEF ChallengeInv, Opened
      <3> HIDE DEF forSigningIn
      <3>2. opened[n] <= IF forSigningIn THEN 1 ELSE 0
        BY <3>1
      <3>. QED  BY <3>2 DEF forSigningIn
    <2>. QED  BY <2>1, <2>2 DEF PasskeysHold
  <1>. QED  BY <1>1, PasskeysInvariant, PTL

=============================================================================
