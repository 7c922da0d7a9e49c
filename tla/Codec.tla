-------------------------------- MODULE Codec --------------------------------
(***************************************************************************)
(* Nanopb at work: a message, what it is encoded to, what may become of    *)
(* that on the way, and what it is decoded to; and a word that the varint  *)
(* functions are tried on.                                                 *)
(***************************************************************************)
EXTENDS Integers, Sequences, FiniteSets

CONSTANTS
  encode_nested(_, _, _), is_default_nested(_, _), defaults_nested(_), decode_nested(_, _, _),
  RobotMessages,               \* requests and responses, with their descriptors
  OtherMessages,               \* messages with descriptors of any other kind
  UnknownFields,               \* what a newer encoder may add: tag, wire type, value
  MaxSwaps, MaxForeign,        \* bounds: fields that change places, that are added
  WordBits                     \* the bits that may be set at once

INSTANCE Nanopb

Has(v) == [size |-> TRUE, data |-> v]

\* A bool holds 0 or 1, a float any 32 bits.
FieldValues(f) == IF f.ltype = "VARINT" THEN {{}, {0}} ELSE SUBSET Word32

\* A request or response whose fields are set or as RequestMessage_init_default
\* and ResponseMessage_init_default leave them.
IsRobotMessage(m) ==
  /\ m.fields \in {RequestMessage_fields, ResponseMessage_fields}
  /\ m.msg = [x \in Slots(m.fields) |-> m.msg[x]]
  /\ \A i \in DOMAIN m.fields :
       LET f    == m.fields[i]
           cell == m.msg[f.slot]
       IN  cell = Default(f) \/ (cell = Has(cell.data) /\ cell.data \in FieldValues(f))

IsUnknownField(u) ==
  /\ u.tag \in 16..(2^12 - 1)
  /\ \/ u.wire = WT_VARINT /\ u.value \in SUBSET Word64
     \/ u.wire = WT_64BIT /\ u.value \in Seq(SUBSET Word8) /\ Len(u.value) = 8
     \/ u.wire = WT_32BIT /\ u.value \in Seq(SUBSET Word8) /\ Len(u.value) = 4
     \/ u.wire = WT_STRING /\ u.value \in Seq(SUBSET Word8) /\ Len(u.value) < Huge

ASSUME CodecAssumption ==
  /\ \A m \in RobotMessages : IsRobotMessage(m)
  /\ \A m \in OtherMessages : m.fields \notin {RequestMessage_fields, ResponseMessage_fields}
  /\ \A u \in UnknownFields : IsUnknownField(u)
  /\ MaxSwaps \in Nat /\ MaxForeign \in Nat
  /\ WordBits \subseteq SUBSET Word64

VARIABLES
  fields, msg,                 \* a message and its descriptor
  wire,                        \* the bytes under way, a sequence per field
  cut,                         \* the bytes have lost their end
  swapped, added,              \* fields that changed places, that were added
  word                         \* a value for the varint functions

codecVars == <<fields, msg, wire, cut, swapped, added>>

\* The bytes of a field that its reader does not know.
Foreign(u) ==
  VarintBytes(Shl(Bits(u.tag), 3, Word64) \cup u.wire)
    \o CASE u.wire = WT_VARINT -> VarintBytes(u.value)
         [] u.wire \in {WT_64BIT, WT_32BIT} -> u.value
         [] u.wire = WT_STRING -> VarintBytes(Bits(Len(u.value))) \o u.value

Flat(pieces) ==
  LET upTo[n \in 0..Len(pieces)] == IF n = 0 THEN <<>> ELSE upTo[n-1] \o pieces[n]
  IN  upTo[Len(pieces)]

Buffer(size) == pb_ostream_from_buffer(size)
MessageSize == CASE fields = RequestMessage_fields -> RequestMessage_size
                 [] fields = ResponseMessage_fields -> ResponseMessage_size
                 [] OTHER -> pb_get_encoded_size(fields, msg)
Encoded == pb_encode(Buffer(MessageSize), fields, msg)
Decoded == pb_decode(pb_istream_from_buffer(Flat(wire)), fields)

CodecInit ==
  /\ \/ \E m \in RobotMessages : fields = m.fields /\ msg = m.msg
     \/ \E m \in OtherMessages : fields = m.fields /\ msg = m.msg
  /\ wire = <<>> /\ cut = FALSE
  /\ swapped = 0 /\ added = 0

\* One field after the other, as pb_encode does.
Encode ==
  /\ wire = <<>>
  /\ wire' = [i \in DOMAIN fields |->
               encode_field(Buffer(256), fields[i], msg[fields[i].slot]).out]
  /\ UNCHANGED <<fields, msg, cut, swapped, added>>

\* Another encoder may write the fields in another order, or more of them.
SwapFields ==
  /\ wire # <<>> /\ ~cut /\ swapped < MaxSwaps
  /\ \E i \in 1..(Len(wire) - 1) :
       /\ wire[i] # wire[i+1]
       /\ wire' = [wire EXCEPT ![i] = wire[i+1], ![i+1] = wire[i]]
  /\ swapped' = swapped + 1
  /\ UNCHANGED <<fields, msg, cut, added>>

AddForeignField ==
  /\ wire # <<>> /\ ~cut /\ added < MaxForeign
  /\ \E i \in 0..Len(wire), u \in UnknownFields :
       wire' = SubSeq(wire, 1, i) \o <<Foreign(u)>> \o SubSeq(wire, i + 1, Len(wire))
  /\ added' = added + 1
  /\ UNCHANGED <<fields, msg, cut, swapped>>

\* The end of the bytes is lost: TCP keeps no message boundaries.
LoseEnd ==
  /\ wire # <<>> /\ ~cut /\ Flat(wire) = Encoded.out
  /\ \E n \in 0..(Len(Encoded.out) - 1) : wire' = <<SubSeq(Encoded.out, 1, n)>>
  /\ cut' = TRUE
  /\ UNCHANGED <<fields, msg, swapped, added>>

CodecNext == Encode \/ SwapFields \/ AddForeignField \/ LoseEnd
CodecSpec == CodecInit /\ [][CodecNext]_codecVars

WordInit == word = {}
SetBits ==
  \E bits \in WordBits : ~(bits \subseteq word) /\ word' = word \cup bits
WordSpec == WordInit /\ [][SetBits]_word

-----------------------------------------------------------------------------
\* What the decoder makes of the encoder's bytes is the message, whatever the
\* order of the fields and whatever unknown fields are among them; delimited by
\* a length or by a zero, it also finds the end.  The buffer is of the size that
\* igvc.pb.h states, and that is enough.
RoundTrip ==
  LET length == pb_istream_from_buffer(pb_encode_delimited(Buffer(256), fields, msg).out \o <<{3}>>)
      zero   == pb_istream_from_buffer(pb_encode_nullterminated(Buffer(256), fields, msg).out \o <<{3}>>)
      behind == pb_istream(TRUE, <<{3}>>, 1)
  IN  IF wire = <<>>
      THEN /\ pb_decode_delimited(length, fields) = Read(behind, msg)
           /\ pb_decode(zero, fields) = Read(behind, msg)
      ELSE ~cut => Encoded.ok /\ Decoded.s.ok /\ Decoded.v = msg

\* A message that lost its end is noticed, or what is left is a message of its
\* own: the decoder never accepts part of a field.
TruncationNoticed ==
  (cut /\ Decoded.s.ok) => pb_encode(Buffer(256), fields, Decoded.v).out = Flat(wire)

\* The varint functions undo each other.  The one for 32 bits, which reads tags
\* and lengths, accepts what is a number of 32 bits, with or without sign, and
\* notices a number that is too large if it has no bit 31: with it, groups of
\* bits above may be the sign's or not.
VarintsAgree ==
  LET s == pb_istream_from_buffer(VarintBytes(word))
      z == pb_istream_from_buffer(VarintBytes(ZigZag(word)))
      r == pb_decode_varint32(s)
      fits == word \subseteq Word32 \/ word = SignExtend(word \cap Word32, 32)
  IN  /\ pb_decode_varint(s).s.ok /\ pb_decode_varint(s).v = word
      /\ pb_decode_svarint(z).s.ok /\ pb_decode_svarint(z).v = word
      /\ fits => r.s.ok
      /\ r.s.ok => r.v = word \cap Word32 /\ (fits \/ 31 \in word)
=============================================================================
