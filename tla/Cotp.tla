------------------------------- MODULE Cotp -------------------------------
(***************************************************************************)
(* COTP class 0 over TPKT: src/crates/iec61850-mms/src/iso/cotp.rs and     *)
(* tpkt.rs. Two ends exchange octets; a read takes any number of those     *)
(* that have arrived, and a caller may drop a receive between two reads.   *)
(*                                                                         *)
(* Octets are the octets of the code. The encoded TPDU sizes and the       *)
(* buffer scale down with MinEncoded and MaxEncoded.                       *)
(***************************************************************************)
EXTENDS Absence, Naturals, Sequences, FiniteSets, SequencesExt

CONSTANTS CotpPlans,              \* scenarios
          MinEncoded, MaxEncoded, \* the encoded TPDU sizes
          Tsdus,                  \* the messages, sequences of octets
          ForeignPackets          \* what another implementation may send

Ends == {"calling", "called"}
PeerOf(e) == IF e = "calling" THEN "called" ELSE "calling"

VARIABLES ctPlan,
          end,      \* the connection of each end
          stream,   \* the octets on their way to each end
          eof,      \* whether each end's peer has closed
          sending,  \* the segments each end has still to write
          sent, got \* history: messages given to, and returned by each end

ctVars == <<ctPlan, end, stream, eof, sending, sent, got>>

-----------------------------------------------------------------------------
(* TPKT and TPDUs. *)

CR == 224
CC == 208
DT == 240
DR == 128
DC == 192

HeaderLen == 4
DataHeader == 3
TpduBytes(enc) == 2 ^ enc
MaxBuffer == TpduBytes(MaxEncoded) + HeaderLen

U16(n) == <<n \div 256, n % 256>>

(* TpktHeader::encode of a packet. *)
Tpkt(tpdu) == <<3, 0>> \o U16(HeaderLen + Len(tpdu)) \o tpdu

(* TpktHeader::decode: the length of the TPDU, or no header. *)
TpktBody(h) ==
  LET len == h[3] * 256 + h[4]
  IN IF h[1] # 3 \/ h[2] # 0 \/ len <= HeaderLen THEN None ELSE len - HeaderLen

(* encode_options. *)
EncodeOptions(o) ==
  <<192, 1, o.size>> \o (IF o.dst = <<>> THEN <<>> ELSE <<194, Len(o.dst)>> \o o.dst)
                     \o (IF o.src = <<>> THEN <<>> ELSE <<193, Len(o.src)>> \o o.src)

(* TpduSize::from_encoded, with the default for what is out of its range. *)
SizeOption(enc) ==
  IF enc > MaxEncoded THEN MaxEncoded ELSE IF enc < MinEncoded THEN MinEncoded ELSE enc

(* parse_options from position i on, given what the options before it say. *)
RECURSIVE ParseOptionsFrom(_, _, _)
ParseOptionsFrom(b, i, o) ==
  IF o = None \/ i > Len(b) THEN o
  ELSE IF i = Len(b) \/ b[i + 1] > Len(b) - i - 1 THEN None
  ELSE LET data == SubSeq(b, i + 2, i + 1 + b[i + 1])
           next == CASE b[i] = 192 -> IF Len(data) # 1 THEN None ELSE [o EXCEPT !.size = SizeOption(data[1])]
                     [] b[i] = 193 -> IF Len(data) >= 5 THEN None ELSE [o EXCEPT !.src = data]
                     [] b[i] = 194 -> IF Len(data) >= 5 THEN None ELSE [o EXCEPT !.dst = data]
                     [] OTHER -> o
       IN ParseOptionsFrom(b, i + 2 + b[i + 1], next)

(* Options that are absent: the smallest size, no selectors. *)
ParseOptions(b) == ParseOptionsFrom(b, 1, [size |-> MinEncoded, src |-> <<>>, dst |-> <<>>])

(* encode_cr and encode_cc. *)
EncodeConnect(type, dstRef, srcRef, o) ==
  LET var == EncodeOptions(o) IN <<6 + Len(var), type>> \o U16(dstRef) \o U16(srcRef) \o <<0>> \o var

(* parse_cr and parse_cc. *)
ParseConnect(type, b) ==
  LET li == b[1]
      var == IF li < 6 THEN 0 ELSE li - 6
  IN IF Len(b) < 7 \/ li > Len(b) - 1 \/ b[2] # type \/ b[7] \div 16 # 0 THEN None
     ELSE LET o == ParseOptions(SubSeq(b, 8, 7 + var))
          IN IF o = None THEN None ELSE [ref |-> b[5] * 256 + b[6], options |-> o]

(* encode_dt, encode_dr and encode_dc. *)
EncodeDt(payload, last) == <<2, DT, IF last THEN 128 ELSE 0>> \o payload
EncodeDr(dstRef, srcRef) == <<6, DR>> \o U16(dstRef) \o U16(srcRef) \o <<0>>
EncodeDc(dstRef, srcRef) == <<5, DC>> \o U16(dstRef) \o U16(srcRef)

(* parse_dt: a segment has a payload. *)
ParseDt(b) ==
  IF Len(b) < 4 \/ b[1] # 2 \/ b[2] # DT THEN None
  ELSE [payload |-> SubSeq(b, 4, Len(b)), last |-> b[3] >= 128]

(* parse_dc. *)
ParseDc(b) == IF Len(b) < 2 \/ b[1] > Len(b) - 1 \/ b[2] # DC THEN None ELSE TRUE

-----------------------------------------------------------------------------
(* The connections. *)

NoRead == [phase |-> "idle", have |-> <<>>, len |-> 0]

(* CotpConnection::new. *)
NewEnd(o, limit) ==
  [state |-> "closed", options |-> o, ref |-> 1, remoteRef |-> 0, read |-> NoRead,
   payload |-> <<>>, limit |-> limit, call |-> "none", failed |-> FALSE]

CtInit ==
  /\ ctPlan \in CotpPlans
  /\ end = [e \in Ends |-> NewEnd(ctPlan.options[e], ctPlan.limit)]
  /\ stream = [e \in Ends |-> <<>>]
  /\ eof = [e \in Ends |-> FALSE]
  /\ sending = [e \in Ends |-> <<>>]
  /\ sent = [e \in Ends |-> <<>>] /\ got = [e \in Ends |-> <<>>]

Free(e) == end[e].call = "none" /\ sending[e] = <<>> /\ ~end[e].failed

(* write_tpkt. *)
Write(e, tpdu) == stream' = [stream EXCEPT ![PeerOf(e)] = @ \o Tpkt(tpdu)]

(* connect: send_cr, and then recv_cc. *)
SendCr(e) ==
  /\ e = "calling" /\ ctPlan.foreign = None /\ Free(e) /\ end[e].state = "closed"
  /\ Write(e, EncodeConnect(CR, 0, end[e].ref, end[e].options))
  /\ end' = [end EXCEPT ![e].state = "connectSent", ![e].call = "cc"]
  /\ UNCHANGED <<ctPlan, eof, sending, sent, got>>

(* accept: recv_cr_and_send_cc. *)
AwaitCr(e) ==
  /\ e = "called" /\ Free(e) /\ end[e].state = "closed"
  /\ end' = [end EXCEPT ![e].call = "cr"]
  /\ UNCHANGED <<ctPlan, stream, eof, sending, sent, got>>

(* What a TPDU leaves for the payload. *)
SegmentLen(enc) == TpduBytes(enc) - DataHeader

(* The segments of a message, the last one marked. *)
Segments(m, max) ==
  LET n == (Len(m) + max - 1) \div max
  IN [i \in 1 .. n |-> EncodeDt(SubSeq(m, (i - 1) * max + 1, IF i = n THEN Len(m) ELSE i * max), i = n)]

(* send_data, which writes one segment after another ... *)
SendData(e, m) ==
  /\ Free(e) /\ end[e].state = "connected"
  /\ Len(sent[e]) < Len(ctPlan.messages[e]) /\ m = ctPlan.messages[e][Len(sent[e]) + 1]
  /\ sending' = [sending EXCEPT ![e] = Segments(m, SegmentLen(end[e].options.size))]
  /\ sent' = [sent EXCEPT ![e] = Append(@, m)]
  /\ UNCHANGED <<ctPlan, end, stream, eof, got>>

(* ... each write awaited. *)
WriteSegment(e) ==
  /\ sending[e] # <<>>
  /\ Write(e, Head(sending[e]))
  /\ sending' = [sending EXCEPT ![e] = Tail(@)]
  /\ UNCHANGED <<ctPlan, end, eof, sent, got>>

(* The caller starts to receive; a header that was refused is refused again. *)
RecvData(e) ==
  /\ Free(e) /\ end[e].state = "connected"
  /\ end' = IF end[e].read.phase = "header" /\ Len(end[e].read.have) = HeaderLen
            THEN [end EXCEPT ![e].failed = TRUE]
            ELSE [end EXCEPT ![e].call = "data"]
  /\ UNCHANGED <<ctPlan, stream, eof, sending, sent, got>>

(* Mutant: the segments received go with the future. *)
DroppedPayloadLost(c) == [c EXCEPT !.call = "none", !.payload = <<>>]

(* A dropped future leaves the connection as it is. *)
Dropped(c) == [c EXCEPT !.call = "none"]

(* The caller drops a receive, at a timeout or for another event. *)
CancelRecv(e) ==
  /\ end[e].call = "data" /\ ctPlan.cancels
  /\ end' = [end EXCEPT ![e] = Dropped(@)]
  /\ UNCHANGED <<ctPlan, stream, eof, sending, sent, got>>

(* send_dr, and recv_dc. *)
SendDr(e) ==
  /\ ctPlan.releases /\ Free(e) /\ end[e].state = "connected"
  /\ Write(e, EncodeDr(end[e].remoteRef, end[e].ref))
  /\ end' = [end EXCEPT ![e].state = "closing", ![e].call = "dc"]
  /\ UNCHANGED <<ctPlan, eof, sending, sent, got>>

(* A caller that met an error drops the connection, and with it the stream. *)
Close(e) ==
  /\ end[e].failed /\ ~eof[PeerOf(e)]
  /\ eof' = [eof EXCEPT ![PeerOf(e)] = TRUE]
  /\ UNCHANGED <<ctPlan, end, stream, sending, sent, got>>

(* Another implementation at the calling end. *)
Foreign(p) ==
  /\ ctPlan.foreign # None /\ ctPlan.foreign > 0
  /\ ctPlan' = [ctPlan EXCEPT !.foreign = @ - 1]
  /\ stream' = [stream EXCEPT !["called"] = @ \o p]
  /\ UNCHANGED <<end, eof, sending, sent, got>>

-----------------------------------------------------------------------------
(* Receiving. *)

SmallerSize(a, b) == IF a <= b THEN a ELSE b

OverLimit(c, x) == c.limit # None /\ Len(c.payload) + Len(x.payload) > c.limit

Fail(c) == [c EXCEPT !.call = "none", !.failed = TRUE]

(* recv_cr_and_send_cc and recv_cc: the smaller size is agreed on. *)
Connected(c, x) ==
  [c EXCEPT !.remoteRef = x.ref, !.options.size = SmallerSize(@, x.options.size),
            !.options.dst = IF c.call = "cr" THEN x.options.src ELSE @,
            !.state = "connected", !.call = "none"]

(* recv_data with one more segment. *)
Reassembled(c, x) ==
  IF OverLimit(c, x) THEN [Fail(c) EXCEPT !.payload = <<>>, !.state = "closed"]
  ELSE IF x.last THEN [c EXCEPT !.payload = <<>>, !.call = "none"]
  ELSE [c EXCEPT !.payload = @ \o x.payload]

(* The call that was reading takes a whole TPDU. *)
Take(e, c, tpdu, rest) ==
  LET x == CASE c.call = "cr" -> ParseConnect(CR, tpdu)
             [] c.call = "cc" -> ParseConnect(CC, tpdu)
             [] c.call = "data" -> ParseDt(tpdu)
             [] c.call = "dc" -> ParseDc(tpdu)
      whole == c.call = "data" /\ x # None /\ ~OverLimit(c, x) /\ x.last
      next == CASE x = None -> Fail(c)
                [] x # None /\ c.call \in {"cr", "cc"} -> Connected(c, x)
                [] x # None /\ c.call = "data" -> Reassembled(c, x)
                [] x # None /\ c.call = "dc" -> [c EXCEPT !.state = "closed", !.call = "none"]
      reply == IF c.call = "cr" /\ x # None
               THEN Tpkt(EncodeConnect(CC, next.remoteRef, c.ref, next.options)) ELSE <<>>
  IN /\ end' = [end EXCEPT ![e] = next]
     /\ got' = IF whole THEN [got EXCEPT ![e] = Append(@, c.payload \o x.payload)] ELSE got
     /\ stream' = [rest EXCEPT ![PeerOf(e)] = @ \o reply]

(* One read of read_tpkt, and all that follows without another. *)
Read(e, n) ==
  LET c == end[e]
      header == c.read.phase # "body"
      have == c.read.have \o SubSeq(stream[e], 1, n)
      missing == (IF header THEN HeaderLen ELSE c.read.len) - Len(c.read.have)
      body == TpktBody(have)
      rest == [stream EXCEPT ![e] = SubSeq(@, n + 1, Len(@))]
      partial == [phase |-> IF header THEN "header" ELSE "body", have |-> have, len |-> c.read.len]
  IN /\ c.call # "none" /\ n <= missing /\ n <= Len(stream[e])
     /\ IF n < missing
        THEN end' = [end EXCEPT ![e].read = partial] /\ stream' = rest /\ UNCHANGED got
        ELSE IF header
        THEN /\ end' = [end EXCEPT ![e] =
                  IF body = None THEN [Fail(c) EXCEPT !.read = partial]
                  ELSE IF body + HeaderLen > MaxBuffer THEN [Fail(c) EXCEPT !.read = NoRead]
                  ELSE [c EXCEPT !.read = [phase |-> "body", have |-> <<>>, len |-> body]]]
             /\ stream' = rest /\ UNCHANGED got
        ELSE Take(e, [c EXCEPT !.read = NoRead], have, rest)
     /\ UNCHANGED <<ctPlan, eof, sending, sent>>

(* The peer has closed. *)
ReadEof(e) ==
  /\ end[e].call # "none" /\ stream[e] = <<>> /\ eof[e]
  /\ end' = [end EXCEPT ![e] = Fail(@)]
  /\ UNCHANGED <<ctPlan, stream, eof, sending, sent, got>>

CtNext ==
  \/ \E e \in Ends :
       \/ SendCr(e) \/ AwaitCr(e) \/ RecvData(e) \/ CancelRecv(e) \/ SendDr(e) \/ Close(e)
       \/ \E m \in Tsdus : SendData(e, m)
       \/ WriteSegment(e)
       \/ \E n \in 1 .. MaxBuffer : Read(e, n)
       \/ ReadEof(e)
  \/ \E p \in ForeignPackets : Foreign(p)

(* The callers go on sending what they have and receiving, and leave a     *)
(* receive now and then; a read of octets that are there is not put off    *)
(* for ever, since a receive is polled before it is dropped.               *)
CtFairness ==
  \A e \in Ends :
    /\ WF_ctVars(SendCr(e)) /\ WF_ctVars(AwaitCr(e)) /\ WF_ctVars(RecvData(e))
    /\ WF_ctVars(CancelRecv(e)) /\ WF_ctVars(WriteSegment(e))
    /\ SF_ctVars(\E m \in Tsdus : SendData(e, m))
    /\ SF_ctVars(\E n \in 1 .. MaxBuffer : Read(e, n))

CtSpec == CtInit /\ [][CtNext]_ctVars /\ CtFairness

-----------------------------------------------------------------------------
(* Properties. *)

Octet == 0 .. 255
Own == ctPlan.foreign = None

Up == INSTANCE TsduChannel WITH sentTsdus <- sent["calling"],
                                gotTsdus <- IF Own THEN got["called"] ELSE <<>>
Down == INSTANCE TsduChannel WITH sentTsdus <- sent["called"], gotTsdus <- got["calling"]
AllArrives ==
  Own /\ ~ctPlan.releases /\ ctPlan.limit = None
    => <>(\A e \in Ends : got[e] = ctPlan.messages[PeerOf(e)])

(* Each direction delivers the messages whole, once and in order, whatever *)
(* the sizes of the segments and of the reads, and whichever receives are  *)
(* dropped half way (send_data, recv_data, read_tpkt); and everything that *)
(* is sent arrives, unless the connection is released or bounded.          *)
ImplementsChannel == Up!ChannelSpec /\ Down!ChannelSpec /\ AllArrives

=============================================================================
