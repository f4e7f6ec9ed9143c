------------------------- MODULE MCBufferedReporting --------------------------
(* Model checking of BufferedReporting.  The liveness run has two scenes: one   *)
(* client that receives what is buffered, and two clients that reserve and      *)
(* enable the control block with nothing to report.                             *)
EXTENDS BufferedReporting

CONSTANTS c1, c2, ip1, ip2
IpOfConst == [c \in Conns |-> IF c = c1 THEN ip1 ELSE ip2]

VARIABLE scene

BrInit == Init /\ scene = "all"
BrNext == Next /\ UNCHANGED scene
BrSpec == BrInit /\ [][BrNext]_<<vars, scene>>

(* The scenes limit what clients and application ask for, which no fairness     *)
(* promises.                                                                    *)
LvInit == Init /\ scene \in {"transmit", "reserve"}
LvNext ==
    /\ Next
    /\ scene = "transmit" =>
         /\ link'[c2] = "up" /\ w'[c2] = IdleW
         /\ w'[c1].req \notin {"Reserve", "Release"}
    /\ scene = "reserve" =>
         events' = 0 /\ \A c \in Conns : w'[c].req \notin {"DatSet", "GI"}
    /\ UNCHANGED scene
LvSpec == LvInit /\ [][LvNext]_<<vars, scene>> /\ Fairness
================================================================================
