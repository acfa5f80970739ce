--------------------------- MODULE SharedLibrary ---------------------------
(***************************************************************************)
(* What the delta sync promises, with no revision, tombstone or delta in   *)
(* sight: one published library, replaced as a whole by each transaction,  *)
(* and devices that now and then take all of it as it is at that moment.   *)
(***************************************************************************)
CONSTANTS
  Libraries,  \* every library there can be
  Nothing,    \* the one with no game in it
  Devices     \* browsers that keep a copy

VARIABLES
  truth,      \* the library as published
  seen        \* device -> the library it shows

sharedVars == <<truth, seen>>

Init == truth = Nothing /\ seen = [d \in Devices |-> Nothing]

Publish(l) ==
  /\ truth' = l
  /\ UNCHANGED seen

Refresh(d) ==
  /\ seen' = [seen EXCEPT ![d] = truth]
  /\ UNCHANGED truth

Next ==
  \/ \E l \in Libraries : Publish(l)
  \/ \E d \in Devices : Refresh(d)

Spec == Init /\ [][Next]_sharedVars
=============================================================================
