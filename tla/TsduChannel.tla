---------------------------- MODULE TsduChannel ----------------------------
(***************************************************************************)
(* What the transport promises in one direction: messages arrive whole,    *)
(* once, in order, and nothing arrives that was not sent. A direction may  *)
(* end with messages undelivered.                                          *)
(***************************************************************************)
EXTENDS Naturals, Sequences

CONSTANT Tsdus

VARIABLES sentTsdus, gotTsdus

ChannelInit == sentTsdus = <<>> /\ gotTsdus = <<>>

Send(m) == sentTsdus' = Append(sentTsdus, m) /\ UNCHANGED gotTsdus

Arrive ==
  /\ Len(gotTsdus) < Len(sentTsdus)
  /\ gotTsdus' = Append(gotTsdus, sentTsdus[Len(gotTsdus) + 1])
  /\ UNCHANGED sentTsdus

ChannelSpec ==
  ChannelInit /\ [][Arrive \/ \E m \in Tsdus : Send(m)]_<<sentTsdus, gotTsdus>>
=============================================================================
