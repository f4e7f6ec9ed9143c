---------------------------- MODULE AttributeFeed ----------------------------
(***************************************************************************)
(* What the reports and the log may rely on: stores draw commit numbers,   *)
(* and batches of triggers reach them one at a time, each attribute's in   *)
(* the order its values were stored, none for a store yet to come.         *)
(***************************************************************************)
EXTENDS Naturals

CONSTANT Cells

VARIABLES clock,   \* stores so far
          feed,    \* the batches that were raised, by their number
          count    \* how many they are

feedVars == <<clock, feed, count>>

FeedInit ==
  /\ clock = 0 /\ count = 0
  /\ feed = [i \in 1 .. 0 |-> 0]

Store ==
  /\ clock' = clock + 1
  /\ UNCHANGED <<feed, count>>

(* A batch maps each cell to its trigger, of number 0 when it has none. *)
InOrder(batch) ==
  \A c \in Cells : batch[c].seq # 0 =>
    /\ batch[c].seq <= clock
    /\ \A i \in 1 .. count : feed[i][c].seq < batch[c].seq

Announce ==
  /\ count' = count + 1
  /\ DOMAIN feed' = 1 .. count'
  /\ \A i \in 1 .. count : feed'[i] = feed[i]
  /\ InOrder(feed'[count'])
  /\ UNCHANGED clock

FeedNext == Store \/ Announce

FeedSpec == FeedInit /\ [][FeedNext]_feedVars
=============================================================================
