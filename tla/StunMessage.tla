------------------------------ MODULE StunMessage ------------------------------
(***************************************************************************)
(* STUN messages as src/src/stun.c writes, finishes, parses and validates  *)
(* them.  A buffer is its header's type and length and the attributes in   *)
(* it; an attribute is its type, its length field and its value.  A digest *)
(* is the key and the bytes it was computed over, so that two digests are  *)
(* equal exactly when both are.                                            *)
(***************************************************************************)
EXTENDS Integers, Sequences, FiniteSets

HeaderSize == 20       \* sizeof(StunHeader)
AttrHeaderSize == 4    \* sizeof(StunAttribute)

\* enum StunClass and StunMethod
REQUEST == 0
RESPONSE == 256
ERROR == 272
BINDING == 1
ALLOCATE == 3

\* The class bits are 0x0110 of the type, tested from the fullest mask down.
Bit(type, weight) == (type \div weight) % 2 = 1

ClassOf(type) ==
  CASE Bit(type, 256) /\ Bit(type, 16)  -> "ERROR"
    [] Bit(type, 16) /\ ~Bit(type, 256) -> "INDICATION"
    [] Bit(type, 256) /\ ~Bit(type, 16) -> "RESPONSE"
    [] OTHER                            -> "REQUEST"

MethodOf(type) ==
  CASE Bit(type, 1) /\ Bit(type, 2)  -> "ALLOCATE"
    [] Bit(type, 1) /\ ~Bit(type, 2) -> "BINDING"
    [] OTHER                         -> "OTHER"

-----------------------------------------------------------------------------
(* Writing *)
PaddedNever(len) == len                \* mutant: no padding
Padded(len) == 4 * ((len + 3) \div 4)

AttrSize(a) == AttrHeaderSize + Padded(a.len)

AttrsSize(attrs) ==
  LET upTo[n \in 0 .. Len(attrs)] ==
        IF n = 0 THEN 0 ELSE upTo[n - 1] + AttrSize(attrs[n])
  IN  upTo[Len(attrs)]

Text(t) == [text |-> t]

Create(type) ==
  [type |-> type, length |-> 0, attrs |-> << >>, size |-> HeaderSize,
   username |-> "", realm |-> ""]

WriteAttr(msg, type, len, text) ==
  LET attr == [type |-> type, len |-> len, value |-> Text(text)]
  IN  [msg EXCEPT !.attrs = Append(@, attr),
                  !.length = @ + AttrSize(attr),
                  !.size = @ + AttrSize(attr),
                  !.username = IF type = "USERNAME" THEN text ELSE @,
                  !.realm = IF type = "REALM" THEN text ELSE @]

\* The bytes of a buffer from its header, with that length field, on.
Bytes(type, length, attrs) == [type |-> type, length |-> length, attrs |-> attrs]

IntegritySize == AttrHeaderSize + 20
FingerprintSize == AttrHeaderSize + 4

ShortTerm(msg, password) == <<password>>
LongTerm(msg, password) == <<msg.username, msg.realm, password>>

Integrity(key, bytes) ==
  [type |-> "MESSAGE_INTEGRITY", len |-> 20, value |-> [key |-> key, over |-> bytes]]
Fingerprint(bytes) ==
  [type |-> "FINGERPRINT", len |-> 4, value |-> [over |-> bytes]]

\* Each digest is computed with the header's length already counting it.
FinishLengthAfter(msg, key) ==         \* mutant: digest before the length
  LET signed  == Append(msg.attrs, Integrity(key, Bytes(msg.type, msg.length, msg.attrs)))
      length  == msg.length + IntegritySize + FingerprintSize
  IN  [msg EXCEPT !.length = length,
                  !.attrs = Append(signed, Fingerprint(Bytes(msg.type, length, signed))),
                  !.size = @ + IntegritySize + FingerprintSize]
Finish(msg, key) ==
  LET first   == msg.length + IntegritySize
      length  == first + FingerprintSize
      signed  == Append(msg.attrs, Integrity(key, Bytes(msg.type, first, msg.attrs)))
  IN  [msg EXCEPT !.length = length,
                  !.attrs = Append(signed, Fingerprint(Bytes(msg.type, length, signed))),
                  !.size = @ + IntegritySize + FingerprintSize]

-----------------------------------------------------------------------------
(* The wire: size bytes of the buffer. *)
AttrsWithin(attrs, bytes) ==
  LET whole == {n \in 0 .. Len(attrs) : AttrsSize(SubSeq(attrs, 1, n)) <= bytes}
  IN  SubSeq(attrs, 1, CHOOSE n \in whole : \A k \in whole : k <= n)

Wire(msg) ==
  [type |-> msg.type, length |-> msg.length, size |-> msg.size,
   attrs |-> AttrsWithin(msg.attrs, msg.size - HeaderSize)]

-----------------------------------------------------------------------------
(* Parsing: the walk stops at the header's length; the last one counts. *)
WalkedWithoutHeader(buf) ==            \* mutant: length without the header's
  {i \in DOMAIN buf.attrs :
     HeaderSize + AttrsSize(SubSeq(buf.attrs, 1, i - 1)) < buf.length}
Walked(buf) ==
  {i \in DOMAIN buf.attrs : AttrsSize(SubSeq(buf.attrs, 1, i - 1)) < buf.length}

WalkEndsAt(buf) ==
  HeaderSize + AttrsSize(SubSeq(buf.attrs, 1, Cardinality(Walked(buf))))

Absent == Text("none")

Read(buf, types) ==
  LET found == {i \in Walked(buf) : buf.attrs[i].type \in types}
  IN  IF found = {} THEN Absent
      ELSE buf.attrs[CHOOSE i \in found : \A k \in found : k <= i].value

MappedAddr(buf) == Read(buf, {"MAPPED_ADDRESS", "XOR_MAPPED_ADDRESS"}).text
RelayedAddr(buf) == Read(buf, {"XOR_RELAYED_ADDRESS"}).text

\* stun_msg_is_valid: FINGERPRINT is taken to be last and MESSAGE_INTEGRITY
\* before it.  Without one of them the code compares with memory it never
\* wrote; such a message is taken to be refused.
IsValid(buf, password) ==
  LET unprinted == buf.size - HeaderSize - FingerprintSize
      unsigned  == unprinted - IntegritySize
  IN  /\ unsigned >= 0
      /\ Read(buf, {"FINGERPRINT"}) =
           [over |-> Bytes(buf.type, buf.length, AttrsWithin(buf.attrs, unprinted))]
      /\ Read(buf, {"MESSAGE_INTEGRITY"}) =
           [key |-> <<password>>,
            over |-> Bytes(buf.type, buf.length - FingerprintSize,
                           AttrsWithin(buf.attrs, unsigned))]

=============================================================================
