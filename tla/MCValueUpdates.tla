--------------------------- MODULE MCValueUpdates ---------------------------
(* Two updating threads and the ticking one, over two attributes. *)
EXTENDS ValueUpdates, TLC

CONSTANTS a, b, t1, t2, t3

MCDeclared == [c \in Cells |-> IF c = a THEN {"dchg", "dupd"} ELSE {"dchg"}]

=============================================================================
