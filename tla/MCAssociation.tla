---------------------------- MODULE MCAssociation ----------------------------
(***************************************************************************)
(* Model checking of Association in two scenes: two sockets that compete   *)
(* for the connection slots and exchange everything but confirmed requests, *)
(* and one association with several confirmed requests outstanding.        *)
(***************************************************************************)
EXTENDS Association

CONSTANT FirstConn  \* the connection of the second scene

VARIABLE scene

AsInit == Init /\ scene \in {"sockets", "requests"}

(* The scenes limit what clients and application start, which no fairness promises. *)
AsNext ==
  /\ Next
  /\ scene = "sockets" => asked' = asked
  /\ scene = "requests" => /\ \A c \in Conns \ {FirstConn} : at'[c] = "none"
                           /\ stopping' = stopping /\ quiet' = {}
  /\ UNCHANGED scene

AsSpec == AsInit /\ [][AsNext]_<<vars, scene>> /\ Fairness
=============================================================================
