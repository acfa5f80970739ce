--------------------------- MODULE MCDeviceStore ---------------------------
(* A device's library on small instances. *)
EXTENDS DeviceStore

CONSTANTS g1, c1, c2

\* A game added, changed and removed, by this device or another.
OneGameWrites ==
  {[kind |-> "put", game |-> g1, content |-> c1],
   [kind |-> "patch", game |-> g1, content |-> c2],
   [kind |-> "remove", game |-> g1, content |-> Absent]}
=============================================================================
