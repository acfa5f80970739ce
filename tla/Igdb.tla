-------------------------------- MODULE Igdb --------------------------------
(***************************************************************************)
(* The IGDB client: one access token shared by every request, fetched when *)
(* it is missing or about to expire, and dropped when IGDB answers 401;    *)
(* 429 is retried after a delay.  IGDB is external: it may revoke a token  *)
(* and may answer anything to a token it accepts.                          *)
(***************************************************************************)
EXTENDS Integers, FiniteSets

CONSTANTS
  Requests,        \* calls of do at once
  Max429Retries,   \* 3
  MaxTokens,       \* bound: tokens ever issued
  MaxLosses        \* bound: tokens revoked or expired

VARIABLES
  accessToken,     \* c.accessToken, or None
  expiring,        \* now is past tokenExpiry less five minutes
  issued,          \* tokens IGDB has issued: 1..issued
  accepted,        \* the ones it still accepts
  calls,           \* request -> where do is
  losses           \* history: revocations of accepted tokens and expiries

igdbVars == <<accessToken, expiring, issued, accepted, calls, losses>>

None == 0
Resting == [pc |-> "idle"]
Answers == {"ok", "busy", "denied", "broken"}   \* 200, 429, 401, 5xx or no answer

\* Another turn of do's loop, which authenticates first: c.mu is held over the
\* token request, so that callers who wait for it find the new token.
Authenticate(r, attempt, retried401) ==
  IF accessToken # None /\ ~expiring
  THEN /\ calls' = [calls EXCEPT ![r] = [pc |-> "post", token |-> accessToken, attempt |-> attempt, retried401 |-> retried401]]
       /\ UNCHANGED <<accessToken, expiring, issued, accepted>>
  ELSE \/ /\ issued < MaxTokens
          /\ issued' = issued + 1 /\ accessToken' = issued + 1
          /\ accepted' = accepted \cup {issued + 1} /\ expiring' = FALSE
          /\ calls' = [calls EXCEPT ![r] = [pc |-> "post", token |-> issued + 1, attempt |-> attempt, retried401 |-> retried401]]
       \/ /\ calls' = [calls EXCEPT ![r] = Resting]
          /\ UNCHANGED <<accessToken, expiring, issued, accepted>>

Do(r) ==
  /\ calls[r] = Resting
  /\ Authenticate(r, 0, FALSE)
  /\ UNCHANGED losses

Again(r) ==
  /\ calls[r].pc = "again"
  /\ Authenticate(r, calls[r].attempt + 1, calls[r].retried401)
  /\ UNCHANGED losses

\* Slip: whatever token is cached now is dropped.
DropAny(token) == None

\* invalidateToken, "unless another request already replaced it".
InvalidateToken(token) == IF accessToken = token THEN None ELSE accessToken

\* Slip: a 429 is retried for ever.
MayRetryAlways(attempt) == TRUE
MayRetry(attempt) == attempt < Max429Retries

\* A token IGDB no longer accepts gets a 401, one it accepts does not.
Answer(r, answer) ==
  /\ calls[r].pc = "post"
  /\ (answer = "denied") <=> calls[r].token \notin accepted
  /\ accessToken' = IF answer = "denied" THEN InvalidateToken(calls[r].token) ELSE accessToken
  /\ calls' = [calls EXCEPT ![r] =
                 IF answer = "denied" /\ ~calls[r].retried401 THEN [@ EXCEPT !.pc = "again", !.retried401 = TRUE]
                 ELSE IF answer = "busy" /\ MayRetry(calls[r].attempt) THEN [@ EXCEPT !.pc = "again"]
                 ELSE Resting]
  /\ UNCHANGED <<expiring, issued, accepted, losses>>

\* The caller's context ends while it waits for an answer or a retry.
GiveUp(r) ==
  /\ calls[r] # Resting
  /\ calls' = [calls EXCEPT ![r] = Resting]
  /\ UNCHANGED <<accessToken, expiring, issued, accepted, losses>>

Revoke(token) ==
  /\ token \in accepted /\ losses < MaxLosses
  /\ accepted' = accepted \ {token} /\ losses' = losses + 1
  /\ UNCHANGED <<accessToken, expiring, issued, calls>>

Lapse ==
  /\ accessToken # None /\ ~expiring /\ losses < MaxLosses
  /\ expiring' = TRUE /\ losses' = losses + 1
  /\ UNCHANGED <<accessToken, issued, accepted, calls>>

IgdbInit ==
  /\ accessToken = None /\ expiring = FALSE /\ issued = 0 /\ accepted = {}
  /\ calls = [r \in Requests |-> Resting] /\ losses = 0

IgdbNext ==
  \/ \E r \in Requests : Do(r) \/ Again(r) \/ GiveUp(r) \/ \E answer \in Answers : Answer(r, answer)
  \/ \E token \in 1..MaxTokens : Revoke(token)
  \/ Lapse
----------------------------------------------------------------------------
(* Properties.                                                             *)

IgdbTypeOK ==
  /\ accessToken \in 0..issued /\ issued \in 0..MaxTokens /\ accepted \subseteq 1..issued
  /\ losses \in 0..MaxLosses /\ expiring \in BOOLEAN
  /\ \A r \in Requests : calls[r] # Resting =>
       calls[r].pc \in {"post", "again"} /\ calls[r].token \in 1..issued /\ calls[r].attempt \in 0..(Max429Retries + 1)

\* However many requests were on when IGDB dropped the token, and in whatever
\* order their refusals come in, one of them fetches the next: a token is
\* fetched once at the start and once for each that was lost.
TokensAreShared == issued <= 1 + losses
----------------------------------------------------------------------------
(* What the steps preserve.                                                *)

\* The cached token serves the next request.
Usable == accessToken # None /\ ~expiring /\ accessToken \in accepted

Calls == [pc : {"post", "again"}, token : Nat, attempt : Nat, retried401 : BOOLEAN]

\* A call goes round once more for each 429 it may retry, and once for a 401;
\* and a token is issued only for one that was lost and not replaced yet.
IgdbInv ==
  /\ IgdbTypeOK
  /\ calls \in [Requests -> {Resting} \cup Calls]
  /\ \A r \in Requests : calls[r] # Resting =>
       calls[r].attempt + (IF calls[r].pc = "again" THEN 1 ELSE 0)
         <= Max429Retries + (IF calls[r].retried401 THEN 1 ELSE 0)
  /\ issued <= losses + (IF Usable THEN 1 ELSE 0)
=============================================================================
