------------------------------- MODULE Passkeys -------------------------------
(***************************************************************************)
(* Passkeys: challenges in memory, each taken at most once, and the        *)
(* counter that gives a cloned authenticator away.  A sign-in takes its    *)
(* challenge, reads the credential, verifies it, stores the new counter    *)
(* and opens the session in steps of their own.                            *)
(*                                                                         *)
(* External: the authenticator.  It signs a challenge with its counter,    *)
(* which it increments, or with 0 when it keeps none; a clone has a        *)
(* counter of its own.  Signatures of other keys are refused (left out).   *)
(***************************************************************************)
EXTENDS Integers, Sequences, FiniteSets

CONSTANTS
  Users,
  Logins,         \* sign-ins being served at once
  MaxChallenges,  \* bound: challenges ever issued
  MaxPending,     \* the code: 10,000 outstanding challenges
  MaxCount        \* bound: the counters

ASSUME PasskeysAssumption == {MaxChallenges, MaxPending, MaxCount} \subseteq Nat

VARIABLES
  challenges,     \* outstanding: [n, user, old]
  issued,         \* whom each challenge was issued for, "" for signing in
  stored,         \* the credential's owner and sign_count, or NoKey
  enabled,        \* the account is not disabled
  counter,        \* "own", "clone" -> the counter of that authenticator
  signed,         \* assertions made: [n, count], any number of times sent
  login,          \* sign-in -> how far it is
  opened,         \* history: challenge -> the sessions it opened
  accepted,       \* history: counters verified since the key was registered
  repeated,       \* history: one of them did not go on from those before
  overlap         \* history: a sign-in was verified while the counter of
                  \* another was not stored, a counter could not be stored,
                  \* or one of 0 was accepted

passkeysVars == <<challenges, issued, stored, enabled, counter, signed, login, opened, accepted, repeated, overlap>>

NoKey == [user |-> "", count |-> 0]
Free == [at |-> "free"]
Twins == {"own", "clone"}
Serving == [at : {"taken", "verified", "stored"}, n : 1..MaxChallenges, count : 0..MaxCount]

\* Challenges.New: what is old goes; too many are refused.
New(u) ==
  LET alive == {c \in challenges : ~c.old}
  IN  /\ Len(issued) < MaxChallenges
      /\ Cardinality(alive) <= MaxPending
      /\ issued' = Append(issued, u)
      /\ challenges' = alive \cup {[n |-> Len(issued) + 1, user |-> u, old |-> FALSE]}
      /\ UNCHANGED <<stored, enabled, counter, signed, login, opened, accepted, repeated, overlap>>

\* Slip: the challenge is looked up and not deleted.
TakeAndKeep(n) == challenges

\* Challenges.Take: it goes, whoever names it and whether it was any use.
Take(n) == {c \in challenges : c.n # n}
Good(n, u) == \E c \in challenges : c.n = n /\ c.user = u /\ ~c.old

Old(c) ==
  /\ ~c.old
  /\ challenges' = (challenges \ {c}) \cup {[c EXCEPT !.old = TRUE]}
  /\ UNCHANGED <<issued, stored, enabled, counter, signed, login, opened, accepted, repeated, overlap>>

\* addPasskey: the challenge of this person, then one INSERT.
AddPasskey(u, n) ==
  /\ enabled
  /\ challenges' = Take(n)
  /\ IF Good(n, u) /\ stored = NoKey
     THEN \E count \in {0, counter["own"]} :
            /\ stored' = [user |-> u, count |-> count]
            /\ accepted' = IF count = 0 THEN {} ELSE {count}
            /\ repeated' = FALSE
            /\ overlap' = \E l \in Logins : login[l].at = "verified"
     ELSE UNCHANGED <<stored, accepted, repeated, overlap>>
  /\ UNCHANGED <<issued, enabled, counter, signed, login, opened>>

DeletePasskey ==
  /\ stored # NoKey /\ enabled
  /\ stored' = NoKey
  /\ UNCHANGED <<challenges, issued, enabled, counter, signed, login, opened, accepted, repeated, overlap>>

Disable ==
  /\ enabled' = ~enabled
  /\ UNCHANGED <<challenges, issued, stored, counter, signed, login, opened, accepted, repeated, overlap>>

\* The authenticator, or its clone, signs a challenge.
Sign(twin, n, counts) ==
  /\ counter[twin] < MaxCount
  /\ counter' = IF counts THEN [counter EXCEPT ![twin] = @ + 1] ELSE counter
  /\ signed' = signed \cup {[n |-> n, count |-> IF counts THEN counter[twin] + 1 ELSE 0]}
  /\ UNCHANGED <<challenges, issued, stored, enabled, login, opened, accepted, repeated, overlap>>

\* handlePasskeyFinish.
Finish(l, s) ==
  /\ login[l] = Free /\ s \in signed
  /\ challenges' = Take(s.n)
  /\ login' = IF Good(s.n, "") THEN [login EXCEPT ![l] = [at |-> "taken", n |-> s.n, count |-> s.count]] ELSE login
  /\ UNCHANGED <<issued, stored, enabled, counter, signed, opened, accepted, repeated, overlap>>

\* A counter that does not go on means a clone; 0 is always let through.
Verifies(count) == ~(stored.count > 0 /\ count # 0 /\ count <= stored.count)

\* Credential and account are read, the signature and its counter verified.
Verify(l) ==
  LET q == login[l]
  IN  /\ q.at = "taken"
      /\ IF stored # NoKey /\ enabled /\ Verifies(q.count)
         THEN /\ login' = [login EXCEPT ![l].at = "verified"]
              /\ accepted' = accepted \cup ({q.count} \ {0})
              /\ repeated' = (repeated \/ \E c \in accepted : q.count # 0 /\ q.count <= c)
              /\ overlap' = (overlap \/ q.count = 0 \/ \E k \in Logins : login[k].at = "verified")
         ELSE /\ login' = [login EXCEPT ![l] = Free]
              /\ UNCHANGED <<accepted, repeated, overlap>>
      /\ UNCHANGED <<challenges, issued, stored, enabled, counter, signed, opened>>

\* Slip: the counter is not written back.
StoreNothing(l, saved) ==
  /\ login[l].at = "verified"
  /\ login' = [login EXCEPT ![l].at = "stored"]
  /\ UNCHANGED <<challenges, issued, stored, enabled, counter, signed, opened, accepted, repeated, overlap>>

\* The UPDATE's error is ignored: when it fails the sign-in goes on.
StoreCount(l, saved) ==
  /\ login[l].at = "verified"
  /\ stored' = IF saved /\ stored # NoKey THEN [stored EXCEPT !.count = login[l].count] ELSE stored
  /\ overlap' = (overlap \/ ~saved)
  /\ login' = [login EXCEPT ![l].at = "stored"]
  /\ UNCHANGED <<challenges, issued, enabled, counter, signed, opened, accepted, repeated>>

\* CreateSession inserts nothing for a disabled account.
OpenSession(l) ==
  /\ login[l].at = "stored"
  /\ opened' = IF enabled THEN [opened EXCEPT ![login[l].n] = @ + 1] ELSE opened
  /\ login' = [login EXCEPT ![l] = Free]
  /\ UNCHANGED <<challenges, issued, stored, enabled, counter, signed, accepted, repeated, overlap>>

\* "In memory: a restart just means trying again."
Restart ==
  /\ challenges' = {}
  /\ login' = [l \in Logins |-> Free]
  /\ overlap' = (overlap \/ \E l \in Logins : login[l].at = "verified")
  /\ UNCHANGED <<issued, stored, enabled, counter, signed, opened, accepted, repeated>>

----------------------------------------------------------------------------
PasskeysInit ==
  /\ challenges = {} /\ issued = <<>> /\ enabled = TRUE
  /\ stored \in {NoKey} \cup [user : Users, count : {0}]
  /\ counter = [t \in Twins |-> 0] /\ signed = {}
  /\ login = [l \in Logins |-> Free]
  /\ opened = [n \in 1..MaxChallenges |-> 0]
  /\ accepted = {} /\ repeated = FALSE /\ overlap = FALSE

PasskeysNext ==
  \/ \E u \in Users \cup {""} : New(u)
  \/ \E c \in challenges : Old(c)
  \/ \E n \in DOMAIN issued :
       \/ \E u \in Users : AddPasskey(u, n)
       \/ \E twin \in Twins, counts \in BOOLEAN : Sign(twin, n, counts)
  \/ DeletePasskey \/ Disable \/ Restart
  \/ \E l \in Logins : \/ Verify(l) \/ OpenSession(l)
                       \/ \E saved \in BOOLEAN : StoreCount(l, saved)
                       \/ \E s \in signed : Finish(l, s)

PasskeysSpec == PasskeysInit /\ [][PasskeysNext]_passkeysVars
----------------------------------------------------------------------------
(* Properties.                                                             *)

\* What is outstanding, signed and served has its shape.
PasskeysTypeOK ==
  /\ challenges \subseteq [n : 1..MaxChallenges, user : Users \cup {""}, old : BOOLEAN]
  /\ issued \in Seq(Users \cup {""}) /\ Len(issued) <= MaxChallenges
  /\ stored \in [user : Users, count : 0..MaxCount] \cup {NoKey}
  /\ counter \in [Twins -> 0..MaxCount]
  /\ signed \subseteq [n : 1..MaxChallenges, count : 0..MaxCount]
  /\ login \in [Logins -> Serving \cup {Free}]
  /\ opened \in [1..MaxChallenges -> Nat]
  /\ accepted \subseteq 1..MaxCount
  /\ {enabled, repeated, overlap} \subseteq BOOLEAN

\* "each can be used once" (webauthn.go, Challenges): however often an answer
\* is sent again, and across restarts, a challenge opens one session at most,
\* and only if it was issued for signing in.  And "A counter that goes
\* backwards means a cloned authenticator": none is accepted twice, unless
\* two sign-ins were verified side by side, or a counter of 0, or one that was
\* not stored, came between.
PasskeysHold ==
  /\ \A n \in 1..MaxChallenges : opened[n] <= IF n \in DOMAIN issued /\ issued[n] = "" THEN 1 ELSE 0
  /\ repeated => overlap
=============================================================================
