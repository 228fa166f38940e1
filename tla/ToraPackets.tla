----------------------------- MODULE ToraPackets -----------------------------
(***************************************************************************)
(* The packets of TORA as bytes (tora-packet.cc and .h, tora-height.cc and .h): *)
(* a header of one byte names the type, the header of the type follows.        *)
(* A byte has B values, so that numbers of 4 and 8 bytes fit into TLC's own.   *)
(***************************************************************************)
EXTENDS Integers, SequencesExt

CONSTANT B       \* values of a byte, 256

U32 == B ^ 4
U64 == B ^ 8

\* ns-3's buffer: the lowest byte of a number first, the highest first in an address.
Bytes(n, v) == [k \in 1 .. n |-> (v \div B ^ (k - 1)) % B]
Value(bytes) == FoldRight(LAMBDA b, v : b + B * v, bytes, 0)
WriteTo(a) == Reverse(Bytes(4, a))
ReadFrom(bytes) == Value(Reverse(bytes))

\* The enumeration MessageType.
TORATYPE_QRY == 1
TORATYPE_UPD == 2
TORATYPE_CLR == 3
TORATYPE_HLO == 4
MessageType == TORATYPE_QRY .. TORATYPE_HLO

Height(tao, oid, r, delta, i) == [tao |-> tao, oid |-> oid, r |-> r, delta |-> delta, i |-> i]

QryHeader(dst) == [type |-> TORATYPE_QRY, dst |-> dst]
UpdHeader(dst, h) == [type |-> TORATYPE_UPD, dst |-> dst, height |-> h]
ClrHeader(dst, tao, oid) == [type |-> TORATYPE_CLR, dst |-> dst, tao |-> tao, oid |-> oid]
HelloHeader(src) == [type |-> TORATYPE_HLO, src |-> src]

-----------------------------------------------------------------------------
(* Serialize() and Deserialize() of the headers *)

Invalid == 0
SerializeType(type) == Bytes(1, type)
DeserializeType(bytes) == IF Value(bytes) \in MessageType THEN Value(bytes) ELSE Invalid

SerializeHello(p) == WriteTo(p.src)
DeserializeHello(bytes) == HelloHeader(ReadFrom(bytes))

SerializeQry(p) == WriteTo(p.dst)
DeserializeQry(bytes) == QryHeader(ReadFrom(bytes))

\* The flag r is the highest bit of the word that holds delta.
RBit == U32 \div 2

\* Mutant: r is the highest bit but one, which is a bit of delta.
SerializeHeightUnmasked(h) ==
  Bytes(8, h.tao % U64) \o Bytes(4, h.oid)
    \o Bytes(4, (IF h.r THEN RBit \div 2 ELSE 0) + (h.delta % RBit)) \o Bytes(4, h.i)

SerializeHeight(h) ==
  Bytes(8, h.tao % U64) \o Bytes(4, h.oid)
    \o Bytes(4, (IF h.r THEN RBit ELSE 0) + (h.delta % RBit)) \o Bytes(4, h.i)

\* A time is signed.
Time(v) == IF v >= U64 \div 2 THEN v - U64 ELSE v

DeserializeHeight(bytes) ==
  LET multiplexed == Value(SubSeq(bytes, 13, 16)) IN
  Height(Time(Value(SubSeq(bytes, 1, 8))), Value(SubSeq(bytes, 9, 12)),
         multiplexed >= RBit, multiplexed % RBit, Value(SubSeq(bytes, 17, 20)))

SerializeUpd(p) == WriteTo(p.dst) \o SerializeHeight(p.height)
DeserializeUpd(bytes) ==
  UpdHeader(ReadFrom(SubSeq(bytes, 1, 4)), DeserializeHeight(SubSeq(bytes, 5, 24)))

Over(buffer, at, bytes) ==
  [k \in DOMAIN buffer |-> IF k \in at .. at + Len(bytes) - 1 THEN bytes[k - at + 1] ELSE buffer[k]]

\* The time is written where the destination is already, and the last bytes stay as they were.
SerializeClr(c, buffer) ==
  Over(Over(Over(buffer, 1, WriteTo(c.dst)), 1, Bytes(8, c.tao % U64)), 9, Bytes(4, c.oid))

DeserializeClr(bytes) ==
  ClrHeader(ReadFrom(SubSeq(bytes, 1, 4)), Time(Value(SubSeq(bytes, 5, 12))),
            Value(SubSeq(bytes, 13, 16)))

-----------------------------------------------------------------------------
\* What SendQry(), SendUpd() and SendHello() hand to BroadcastMsg().
Sent(p) ==
  SerializeType(p.type) \o
    (CASE p.type = TORATYPE_QRY -> SerializeQry(p)
       [] p.type = TORATYPE_UPD -> SerializeUpd(p)
       [] p.type = TORATYPE_HLO -> SerializeHello(p))

\* An unknown type and CLR fail an assertion.
NotHandled == [type |-> Invalid]

RecvTora(bytes) ==
  LET type == DeserializeType(<<bytes[1]>>)
      header == Tail(bytes) IN
  CASE type = TORATYPE_QRY -> DeserializeQry(header)
    [] type = TORATYPE_UPD -> DeserializeUpd(header)
    [] type = TORATYPE_HLO -> DeserializeHello(header)
    [] OTHER -> NotHandled

-----------------------------------------------------------------------------
(* Properties *)

\* Who receives a packet reads what was written: the type, the node, and a height with a
\* time before the start of the simulation, a flag, and a delta of 31 bits (tora-packet.cc,
\* tora-height.cc).
Arrives(p) == RecvTora(Sent(p)) = p

\* The least and the greatest values of each field.
Words == {0, 1, U32 - 1}
Heights == {Height(tao, oid, r, delta, i) :
              tao \in {-1, 0, 1, -(U64 \div 2), U64 \div 2 - 1}, oid \in Words,
              r \in BOOLEAN, delta \in {0, 1, RBit - 1}, i \in Words}
LimitsArrive ==
  /\ \A a \in Words : Arrives(QryHeader(a)) /\ Arrives(HelloHeader(a))
  /\ \A a \in Words, h \in Heights : Arrives(UpdHeader(a, h))

\* A CLR packet is read as it was written.  It is not, but nothing sends one.
ClrArrives == \A dst, oid \in Words : LET c == ClrHeader(dst, 1, oid) IN
  DeserializeClr(SerializeClr(c, [k \in 1 .. 16 |-> 0])) = c
=============================================================================
