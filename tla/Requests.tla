------------------------------ MODULE Requests ------------------------------
(***************************************************************************)
(* Requests being served at once, each stopped between two statements with *)
(* what it has read so far.                                                *)
(***************************************************************************)
EXTENDS Integers, FiniteSets

CONSTANTS
  Reqs,         \* requests being served at once
  MaxRequests   \* bound: requests begun, and expiries

ASSUME MaxRequestsAssumption == MaxRequests \in Nat

VARIABLES
  req,          \* request -> what it has read so far
  begun         \* requests begun and expiries passed

Idle == [op |-> "idle"]

\* There is a request to begin.
Room(r) == req[r] = Idle /\ begun < MaxRequests

\* The request reads `what` and goes on later.
Begin(r, what) ==
  /\ Room(r)
  /\ begun' = begun + 1
  /\ req' = [req EXCEPT ![r] = what]

Then(r, what) == req' = [req EXCEPT ![r] = what] /\ UNCHANGED begun
End(r) == Then(r, Idle)

\* A request of one statement: it begins and ends.
Once(r) == Room(r) /\ begun' = begun + 1 /\ UNCHANGED req
=============================================================================
