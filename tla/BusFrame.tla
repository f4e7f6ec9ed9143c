------------------------------ MODULE BusFrame ------------------------------
(***************************************************************************)
(* The Ethernet frames of GOOSE (iec61850-goose/src/frame.rs) and of        *)
(* sampled values (iec61850-sv/src/frame.rs).  Octets are counted, not      *)
(* spelled out: a frame is its header, the length its header announces, its *)
(* payload with the payload's size, and the octets that have arrived.       *)
(***************************************************************************)
EXTENDS Naturals

CONSTANTS NoVlan,    \* the header has no 802.1Q tag
          BadFrame,  \* what a decoder refuses
          LengthMax  \* the largest length a header can announce (u16)

\* APPID, length, and the two reserved fields.
PduHeaderSize == 8

EthernetHeader(vlan) == IF vlan = NoVlan THEN 14 ELSE 18

Frame(type, comm, sim, pdu, size) ==
    [dst    |-> comm.dst, vlan |-> comm.vlan, type |-> type, app |-> comm.app, sim |-> sim,
     length |-> (size + PduHeaderSize) % (LengthMax + 1), pdu |-> pdu, size |-> size,
     octets |-> EthernetHeader(comm.vlan) + PduHeaderSize + size]

EncodeGooseFrame(comm, sim, pdu, size) == Frame("goose", comm, sim, pdu, size)

\* Sampled values refuse a length that does not fit.
EncodeSvFrame(comm, sim, pdu, size) ==
    IF size + PduHeaderSize > LengthMax THEN BadFrame ELSE Frame("sv", comm, sim, pdu, size)

\* What follows the announced length is padding.  A payload of which some is
\* missing, or that is longer than announced, is cut.
Payload(f, least) ==
    LET start == EthernetHeader(f.vlan) + PduHeaderSize
    IN  IF \/ f.octets < least \/ f.octets < start \/ f.length < PduHeaderSize
           \/ start + (f.length - PduHeaderSize) > f.octets
        THEN BadFrame
        ELSE [dst |-> f.dst, vlan |-> f.vlan, app |-> f.app, sim |-> f.sim,
              pdu |-> IF f.length = f.size + PduHeaderSize THEN f.pdu ELSE BadFrame]

DecodeGooseFrame(f) == IF f.type # "goose" THEN BadFrame ELSE Payload(f, 14)

DecodeSvFrame(f) == IF f.type # "sv" THEN BadFrame ELSE Payload(f, 14 + PduHeaderSize)

=============================================================================
