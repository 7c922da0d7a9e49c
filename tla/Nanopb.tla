------------------------------- MODULE Nanopb -------------------------------
(***************************************************************************)
(* The protocol buffer codec the motor controller and its board talk       *)
(* through (igvc_platform/nanopb: pb.h, pb_common.c, pb_encode.c and       *)
(* pb_decode.c), and the two messages they exchange (igvc.pb.c).           *)
(*                                                                         *)
(* A word of 8, 32 or 64 bits is the set of the positions of its one bits: *)
(* | is \cup, & is \cap, ~ is the complement and a shift adds to every     *)
(* position.  That keeps the width of every C integer, whatever TLC's is.  *)
(*                                                                         *)
(* Every function of the library returns false at its first error, and so  *)
(* does its caller.  Here a stream carries ok, which stays FALSE once it   *)
(* is: what follows an error leaves such a stream alone.                   *)
(*                                                                         *)
(* Left out: pointer fields (the build does not define PB_ENABLE_MALLOC),  *)
(* extensions and user callbacks (no message declares any), and streams    *)
(* that are not memory buffers.                                            *)
(*                                                                         *)
(* A message within a message is the business of the four constants, which *)
(* are this module's own operators one level further down: who uses the    *)
(* module instantiates it once per level.                                  *)
(***************************************************************************)
EXTENDS Integers, Sequences, FiniteSets

CONSTANTS
  encode_nested(_, _, _),         \* pb_encode
  is_default_nested(_, _),        \* pb_check_proto3_default_value
  defaults_nested(_),             \* pb_message_set_to_defaults
  decode_nested(_, _, _)          \* pb_decode_noinit

Word8 == 0..7
Word32 == 0..31
Word64 == 0..63

Shl(w, k, width) == {b + k : b \in w} \cap width
Shr(w, k) == {b - k : b \in {x \in w : x >= k}}

\* The bits of a number below 2^16, and the number of a word.  A word above
\* 2^16 is longer than every stream here: Huge stands for all of them.
Bits(n) == {b \in 0..15 : (n \div 2^b) % 2 = 1}
Huge == 2^16
NumberOf(w) ==
  LET sum[k \in 0..16] == IF k = 0 THEN 0
                          ELSE sum[k-1] + IF k - 1 \in w THEN 2^(k-1) ELSE 0
  IN  IF \E b \in w : b > 15 THEN Huge ELSE sum[16]

\* Two's complement: the word w of n bits as one of 64 bits.
SignExtend(w, n) == IF n - 1 \in w THEN w \cup (n..63) ELSE w

-----------------------------------------------------------------------------
(* Field types of pb.h, and the descriptors that igvc.pb.c is made of.     *)

Packable == {"VARINT", "UVARINT", "SVARINT", "FIXED32", "FIXED64"}
LTYPE == Packable \cup {"BYTES", "STRING", "SUBMESSAGE", "FIXED_LENGTH_BYTES"}
HTYPE == {"REQUIRED", "OPTIONAL", "REPEATED", "ONEOF"}
ATYPE == {"STATIC", "CALLBACK"}

PB_SIZE_MAX == 255            \* pb_size_t is a byte in this build
PB_MAX_REQUIRED_FIELDS == 64

WT_VARINT == {}
WT_64BIT  == {0}
WT_STRING == {1}
WT_32BIT  == {0, 2}

\* slot: the member of the struct (the members of a union share theirs).
\* counted: there is a has_, _count or which_ member next to it.
\* size: bytes of one item.  max: array_size.  ptr: the fields of a
\* submessage, or a default value.
PB_FIELD(tag, ltype, rules, slot, size, ptr) ==
  [tag |-> tag, ltype |-> ltype, htype |-> rules, atype |-> "STATIC",
   slot |-> slot, counted |-> rules # "REQUIRED", size |-> size, max |-> 0, ptr |-> ptr]
PB_SINGULAR_STATIC(f) == [f EXCEPT !.counted = FALSE]
PB_REPEATED_STATIC(f, max) == [f EXCEPT !.max = max]
PB_REPEATED_FIXED_COUNT(f, max) == [f EXCEPT !.max = max, !.counted = FALSE]

Float(tag, name) == PB_FIELD(tag, "FIXED32", "OPTIONAL", name, 4, {})
Bool(tag, name) == PB_FIELD(tag, "VARINT", "OPTIONAL", name, 1, {})

RequestMessage_fields ==
  << Float(1, "p_l"), Float(2, "p_r"), Float(3, "i_l"), Float(4, "i_r"), Float(5, "d_l"),
     Float(6, "d_r"), Float(7, "speed_l"), Float(8, "speed_r"), Float(9, "kv_l"),
     Float(10, "kv_r") >>

ResponseMessage_fields ==
  << Float(1, "p_l"), Float(2, "p_r"), Float(3, "i_l"), Float(4, "i_r"), Float(5, "d_l"),
     Float(6, "d_r"), Float(7, "speed_l"), Float(8, "speed_r"), Float(9, "dt_sec"),
     Float(10, "voltage"), Bool(11, "estop"), Float(12, "kv_l"), Float(13, "kv_r") >>

RequestMessage_size == 50
ResponseMessage_size == 62

Slots(fields) == {fields[i].slot : i \in DOMAIN fields}

\* pb_field_iter_find: the field with that tag, 0 if there is none.
FieldWithTag(fields, tag) ==
  IF \E i \in DOMAIN fields : fields[i].tag = tag
  THEN CHOOSE i \in DOMAIN fields : fields[i].tag = tag ELSE 0

-----------------------------------------------------------------------------
(* Output streams.  A sizing stream has no limit; its bytes are counted    *)
(* and thrown away, here: kept, and only their number is used.             *)

pb_ostream(ok, out, sizing, max) == [ok |-> ok, out |-> out, sizing |-> sizing, max |-> max]
pb_ostream_from_buffer(bufsize) == pb_ostream(TRUE, <<>>, FALSE, bufsize)
PB_OSTREAM_SIZING == pb_ostream(TRUE, <<>>, TRUE, 0)
FailedO(o) == pb_ostream(FALSE, o.out, o.sizing, o.max)

pb_write(o, buf) ==
  IF o.ok /\ (o.sizing \/ Len(o.out) + Len(buf) <= o.max)
  THEN pb_ostream(TRUE, o.out \o buf, o.sizing, o.max) ELSE FailedO(o)

\* pb_encode_varint_32 joins two halves of 32 bits; what it writes is the
\* value in groups of seven bits, the lowest first, and no empty group at
\* the end but the first.
VarintBytes(value) ==
  LET groups == {1} \cup {b \div 7 + 1 : b \in value}
      last == CHOOSE g \in groups : \A h \in groups : h <= g
  IN  [i \in 1..last |-> {b - 7 * (i-1) : b \in {x \in value : x \div 7 = i - 1}}
                         \cup IF i < last THEN {7} ELSE {}]
pb_encode_varint(o, value) == pb_write(o, VarintBytes(value))

\* Variant: the bits of a negative value are not inverted.
ZigZag_KeepsSign(value) == IF 63 \in value THEN Shl(value, 1, Word64) \cup {0} ELSE Shl(value, 1, Word64)

ZigZag(value) == IF 63 \in value THEN Word64 \ Shl(value, 1, Word64) ELSE Shl(value, 1, Word64)

pb_encode_svarint(o, value) == pb_encode_varint(o, ZigZag(value))

\* pb_encode_fixed32 and pb_encode_fixed64: n bytes, the lowest first.
pb_encode_fixed(o, value, n) ==
  pb_write(o, [i \in 1..n |-> {b - 8 * (i-1) : b \in {x \in value : x \div 8 = i - 1}}])

pb_encode_tag(o, wiretype, tag) ==
  pb_encode_varint(o, Shl(Bits(tag), 3, Word64) \cup wiretype)
pb_encode_tag_for_field(o, f) ==
  pb_encode_tag(o, CASE f.ltype \in {"VARINT", "UVARINT", "SVARINT"} -> WT_VARINT
                     [] f.ltype = "FIXED32" -> WT_32BIT
                     [] f.ltype = "FIXED64" -> WT_64BIT
                     [] OTHER -> WT_STRING, f.tag)
pb_encode_string(o, buf) == pb_write(pb_encode_varint(o, Bits(Len(buf))), buf)

\* pb_enc_string: up to the terminator, which must be within the field.
TextOf(chars) ==
  IF \E i \in DOMAIN chars : chars[i] = {}
  THEN SubSeq(chars, 1, (CHOOSE i \in DOMAIN chars :
                           chars[i] = {} /\ \A j \in 1..(i-1) : chars[j] # {}) - 1)
  ELSE chars
pb_enc_string(o, f, src) ==
  LET text == TextOf(src)
  IN  IF f.size = 0 \/ Len(text) > f.size - 1 THEN FailedO(o) ELSE pb_encode_string(o, text)

\* The size of a bytes field includes its length, which is a byte.
pb_enc_bytes(o, f, src) ==
  IF Len(src) + 1 > f.size THEN FailedO(o) ELSE pb_encode_string(o, src)

\* pb_check_proto3_default_value: what an optional field without has_ holds
\* when it is not worth sending.
pb_check_proto3_default_value(f, cell) ==
  CASE f.htype = "REQUIRED" -> FALSE
    [] f.htype = "REPEATED" -> cell.data = <<>>
    [] f.htype = "ONEOF" -> cell.size = 0
    [] f.htype = "OPTIONAL" /\ f.counted -> ~cell.size
    [] OTHER ->
         CASE f.ltype = "BYTES" -> cell.data = <<>>
           [] f.ltype = "STRING" -> TextOf(cell.data) = <<>>
           [] f.ltype = "FIXED_LENGTH_BYTES" -> f.size = 0
           [] f.ltype = "SUBMESSAGE" ->
                \A i \in DOMAIN f.ptr :
                   is_default_nested(f.ptr[i], cell.data[f.ptr[i].slot])
           [] OTHER -> cell.data = {}

-----------------------------------------------------------------------------
(* pb_encode: the fields of a message in the order of their descriptors.   *)

\* pb_encode_submessage: the size is found with a sizing stream, written, and
\* then kept to.
KeptTo(o, sized) == pb_ostream(TRUE, <<>>, o.sizing, Len(sized.out))
Framed(o, sized, sub) ==
  IF ~sized.ok \/ ~sub.ok \/ Len(sub.out) # Len(sized.out) THEN FailedO(o)
  ELSE pb_write(pb_encode_varint(o, Bits(Len(sized.out))), sub.out)
pb_encode_submessage(o, fields, msg) ==
  LET sized == encode_nested(PB_OSTREAM_SIZING, fields, msg)
  IN  Framed(o, sized, encode_nested(KeptTo(o, sized), fields, msg))

\* PB_ENCODERS: the encoder of one item, by the type of its field.
EncodeItem(o, f, src) ==
  CASE f.ltype = "VARINT" -> pb_encode_varint(o, SignExtend(src, 8 * f.size))
    [] f.ltype = "UVARINT" -> pb_encode_varint(o, src)
    [] f.ltype = "SVARINT" -> pb_encode_svarint(o, SignExtend(src, 8 * f.size))
    [] f.ltype = "FIXED32" -> pb_encode_fixed(o, src, 4)
    [] f.ltype = "FIXED64" -> pb_encode_fixed(o, src, 8)
    [] f.ltype = "BYTES" -> pb_enc_bytes(o, f, src)
    [] f.ltype = "STRING" -> pb_enc_string(o, f, src)
    [] f.ltype = "SUBMESSAGE" -> pb_encode_submessage(o, f.ptr, src)
    [] f.ltype = "FIXED_LENGTH_BYTES" -> pb_encode_string(o, src)

EncodeItems(o, f, items, tagged) ==
  LET Item(to, i) == EncodeItem(IF tagged THEN pb_encode_tag_for_field(to, f) ELSE to, f, items[i])
      upTo[n \in 0..Len(items)] == IF n = 0 THEN o ELSE Item(upTo[n-1], n)
  IN  upTo[Len(items)]

\* Arrays are packed, after their size in bytes, if their type allows it.
encode_array(o, f, items) ==
  LET sized == EncodeItems(PB_OSTREAM_SIZING, f, items, FALSE)
      head  == pb_encode_varint(pb_encode_tag(o, WT_STRING, f.tag), Bits(Len(sized.out)))
  IN  CASE items = <<>> -> o
        [] Len(items) > f.max -> FailedO(o)
        [] OTHER -> IF f.ltype \in Packable THEN EncodeItems(head, f, items, FALSE)
                    ELSE EncodeItems(o, f, items, TRUE)

\* encode_field: encode_basic_field, and nothing for a field without callback.
encode_field(o, f, cell) ==
  LET present == CASE f.htype = "REQUIRED" -> TRUE
                   [] f.htype = "OPTIONAL" /\ f.counted -> cell.size
                   [] f.htype = "OPTIONAL" /\ ~f.counted -> ~pb_check_proto3_default_value(f, cell)
                   [] f.htype = "ONEOF" -> cell.size = f.tag
                   [] OTHER -> FALSE
  IN  CASE f.atype = "CALLBACK" -> o
        [] f.atype = "STATIC" /\ f.htype = "REPEATED" -> encode_array(o, f, cell.data)
        [] f.atype = "STATIC" /\ present -> EncodeItem(pb_encode_tag_for_field(o, f), f, cell.data)
        [] OTHER -> o

pb_encode(o, fields, msg) ==
  LET upTo[n \in 0..Len(fields)] ==
        IF n = 0 THEN o ELSE encode_field(upTo[n-1], fields[n], msg[fields[n].slot])
  IN  upTo[Len(fields)]

pb_encode_delimited(o, fields, msg) ==
  LET sized == pb_encode(PB_OSTREAM_SIZING, fields, msg)
  IN  Framed(o, sized, pb_encode(KeptTo(o, sized), fields, msg))
pb_encode_nullterminated(o, fields, msg) == pb_write(pb_encode(o, fields, msg), <<{}>>)
pb_get_encoded_size(fields, msg) == Len(pb_encode(PB_OSTREAM_SIZING, fields, msg).out)

-----------------------------------------------------------------------------
(* Input streams: the bytes from the read position on, of which a          *)
(* substream may read only the first `left'.                               *)

pb_istream(ok, at, left) == [ok |-> ok, at |-> at, left |-> left]
pb_istream_from_buffer(buf) == pb_istream(TRUE, buf, Len(buf))
FailedI(s) == pb_istream(FALSE, s.at, s.left)
Dropped(s, n) == pb_istream(s.ok, SubSeq(s.at, n + 1, Len(s.at)), s.left - n)

\* The results of a read: the stream behind it and the value.
Read(s, v) == [s |-> s, v |-> v]

pb_read(s, count) ==
  IF s.ok /\ count <= s.left THEN Read(Dropped(s, count), SubSeq(s.at, 1, count))
  ELSE Read(FailedI(s), <<>>)

\* How many bytes a varint takes: up to the first without the high bit, 0 if
\* the stream ends before it.
VarintLength(s) ==
  LET ends == {n \in 1..s.left : 7 \notin s.at[n]}
  IN  IF ends = {} THEN 0 ELSE CHOOSE n \in ends : \A m \in ends : n <= m

\* The groups are put together from the lowest; what is shifted out of the
\* word is lost.  bitpos is a byte.
bitpos(i) == (7 * (i - 1)) % 256
Joined(s, I, width) == UNION {Shl(s.at[i] \ {7}, bitpos(i), width) : i \in I}

pb_decode_varint(s) ==
  LET Of(n) == IF ~s.ok \/ n \notin 1..10 THEN Read(FailedI(s), {})
               ELSE Read(Dropped(s, n), Joined(s, 1..n, Word64))
  IN  Of(VarintLength(s))

\* Bytes beyond the 32 bits must be empty or go on with the sign.
Low(k) == {i \in 1..k : bitpos(i) < 32}
\* Variant: the upper bits of the fifth byte are not looked at.
Overflow32_NotInLastByte(s, n) ==
  \E i \in (1..n) \ Low(n) :
    /\ s.at[i] \ {7} # {}
    /\ \/ 31 \notin Joined(s, Low(i), Word32)
       \/ s.at[i] # IF bitpos(i) < 63 THEN Word8 ELSE {0}

Overflow32(s, n) ==
  \/ \E i \in (1..n) \ Low(n) :
       /\ s.at[i] \ {7} # {}
       /\ \/ 31 \notin Joined(s, Low(i), Word32)
          \/ s.at[i] # IF bitpos(i) < 63 THEN Word8 ELSE {0}
  \/ n > 1 /\ (7 * n) % 256 = 35 /\ s.at[n] \cap (4..6) # {}

pb_decode_varint32(s) ==
  LET Of(n) == IF ~s.ok \/ n = 0 \/ Overflow32(s, n) THEN Read(FailedI(s), {})
               ELSE Read(Dropped(s, n), Joined(s, Low(n), Word32))
  IN  Of(VarintLength(s))

pb_decode_svarint(s) ==
  LET Of(r) == Read(r.s, IF 0 \in r.v THEN Word64 \ Shr(r.v, 1) ELSE Shr(r.v, 1))
  IN  Of(pb_decode_varint(s))

\* Variant: the end of the stream ends the value.
pb_decode_fixed_WhatIsLeft(s, n) ==
  LET Of(r) == Read(r.s, UNION {Shl(r.v[i], 8 * (i-1), Word64) : i \in DOMAIN r.v})
  IN  Of(pb_read(s, IF n > s.left THEN s.left ELSE n))

pb_decode_fixed(s, n) ==
  LET Of(r) == Read(r.s, UNION {Shl(r.v[i], 8 * (i-1), Word64) : i \in DOMAIN r.v})
  IN  Of(pb_read(s, n))

\* A tag of zero ends the message without an error.
pb_decode_tag(s) ==
  LET Of(r) == [s |-> r.s, eof |-> r.s.ok /\ r.v = {}, tag |-> NumberOf(Shr(r.v, 3)),
                wire |-> r.v \cap (0..2)]
  IN  Of(pb_decode_varint32(s))

pb_skip_string(s) ==
  LET Of(r) == pb_read(r.s, NumberOf(r.v)).s IN Of(pb_decode_varint32(s))
pb_skip_varint(s) ==
  LET Of(n) == IF s.ok /\ n > 0 THEN Dropped(s, n) ELSE FailedI(s) IN Of(VarintLength(s))
pb_skip_field(s, wire) ==
  CASE wire = WT_VARINT -> pb_skip_varint(s)
    [] wire = WT_64BIT -> pb_read(s, 8).s
    [] wire = WT_STRING -> pb_skip_string(s)
    [] wire = WT_32BIT -> pb_read(s, 4).s
    [] OTHER -> FailedI(s)

\* A substream of the given length, and the parent behind it: on closing,
\* what the substream has not read is skipped.
pb_make_string_substream(s) ==
  LET Of(r, n) == IF r.s.ok /\ n <= r.s.left
                  THEN [parent |-> Dropped(r.s, n), sub |-> pb_istream(TRUE, r.s.at, n)]
                  ELSE [parent |-> FailedI(r.s), sub |-> FailedI(r.s)]
      With(r) == Of(r, NumberOf(r.v))
  IN  With(pb_decode_varint32(s))
pb_close_string_substream(parent, sub) ==
  pb_istream(parent.ok /\ sub.ok, parent.at, parent.left)

-----------------------------------------------------------------------------
(* pb_decode: field by field, in the order they arrive.                    *)

Default(f) ==
  CASE f.htype \in {"REPEATED", "ONEOF"} -> [size |-> 0, data |-> <<>>]
    [] OTHER -> [size |-> FALSE,
                 data |-> CASE f.ltype = "SUBMESSAGE" -> defaults_nested(f.ptr)
                            [] f.ltype \in {"BYTES", "STRING"} -> <<>>
                            [] f.ltype = "FIXED_LENGTH_BYTES" -> [i \in 1..f.size |-> {}]
                            [] OTHER -> f.ptr]
pb_message_set_to_defaults(fields) ==
  [x \in Slots(fields) |-> Default(fields[CHOOSE i \in DOMAIN fields : fields[i].slot = x])]

\* The integer decoders cast to the size of the field and compare; pb_dec_varint
\* casts to 32 bits before it does so for the smaller fields.
Clamped(r, size, signed) ==
  LET Of(kept) == IF r.v = IF signed THEN SignExtend(kept, 8 * size) ELSE kept
                  THEN Read(r.s, kept) ELSE Read(FailedI(r.s), kept)
  IN  Of({b \in r.v : b < 8 * size})
pb_dec_varint(s, f) ==
  LET Of(r) == Clamped(Read(r.s, IF f.size = 8 THEN r.v ELSE SignExtend(r.v \cap Word32, 32)), f.size, TRUE)
  IN  Of(pb_decode_varint(s))
pb_dec_uvarint(s, f) == Clamped(pb_decode_varint(s), f.size, FALSE)
pb_dec_svarint(s, f) == Clamped(pb_decode_svarint(s), f.size, TRUE)

pb_dec_bytes(s, f) ==
  LET Of(r, n) == IF n > PB_SIZE_MAX \/ n + 1 > f.size THEN Read(FailedI(r.s), <<>>)
                  ELSE pb_read(r.s, n)
      With(r) == Of(r, NumberOf(r.v))
  IN  With(pb_decode_varint32(s))
pb_dec_string(s, f) ==
  LET Of(r, n) == IF n + 1 > f.size THEN Read(FailedI(r.s), <<>>) ELSE pb_read(r.s, n)
      With(r) == Of(r, NumberOf(r.v))
  IN  With(pb_decode_varint32(s))
pb_dec_fixed_length_bytes(s, f) ==
  LET Of(r, n) == CASE n = 0 -> Read(r.s, [i \in 1..f.size |-> {}])
                    [] n # 0 /\ n = f.size -> pb_read(r.s, n)
                    [] OTHER -> Read(FailedI(r.s), <<>>)
      With(r) == Of(r, NumberOf(r.v))
  IN  With(pb_decode_varint32(s))

\* A submessage is merged into what the field holds; an array entry is new.
pb_dec_submessage(s, f, old) ==
  LET Close(parent, r) == Read(pb_close_string_substream(parent, r.s), r.v)
      Of(st) == Close(st.parent, decode_nested(st.sub, f.ptr,
                  IF f.htype = "REPEATED" THEN pb_message_set_to_defaults(f.ptr) ELSE old))
  IN  Of(pb_make_string_substream(s))

\* PB_DECODERS: the decoder of one item.  None looks at the wire type.
DecodeItem(s, f, old) ==
  CASE f.ltype = "VARINT" -> pb_dec_varint(s, f)
    [] f.ltype = "UVARINT" -> pb_dec_uvarint(s, f)
    [] f.ltype = "SVARINT" -> pb_dec_svarint(s, f)
    [] f.ltype = "FIXED32" -> pb_decode_fixed(s, 4)
    [] f.ltype = "FIXED64" -> pb_decode_fixed(s, 8)
    [] f.ltype = "BYTES" -> pb_dec_bytes(s, f)
    [] f.ltype = "STRING" -> pb_dec_string(s, f)
    [] f.ltype = "SUBMESSAGE" -> pb_dec_submessage(s, f, old)
    [] f.ltype = "FIXED_LENGTH_BYTES" -> pb_dec_fixed_length_bytes(s, f)

\* The items of a packed array, until the substream ends or the array is full.
PackedItems(s, f, items) ==
  LET Add(r, read) == Read(read.s, Append(r.v, read.v))
      Item(r) == IF r.s.ok /\ r.s.left > 0 /\ Len(r.v) < f.max
                 THEN Add(r, DecodeItem(r.s, f, {})) ELSE r
      upTo[n \in 0..f.max] == IF n = 0 THEN Read(s, items) ELSE Item(upTo[n-1])
  IN  upTo[f.max]
decode_packed(s, f, cell) ==
  LET Close(parent, r) ==
        Read(IF r.s.left # 0 THEN FailedI(parent) ELSE pb_close_string_substream(parent, r.s),
             [cell EXCEPT !.data = r.v])
      Of(st) == Close(st.parent, PackedItems(st.sub, f, cell.data))
  IN  Of(pb_make_string_substream(s))

\* What the item is decoded over, and what becomes of the field with it.
Before(f, cell) ==
  CASE f.htype = "ONEOF" /\ f.ltype = "SUBMESSAGE" -> pb_message_set_to_defaults(f.ptr)
    [] f.htype = "REPEATED" -> <<>>
    [] OTHER -> cell.data
Stored(f, cell, r) ==
  CASE f.htype = "REQUIRED" -> Read(r.s, [cell EXCEPT !.data = r.v])
    [] f.htype = "OPTIONAL" -> Read(r.s, [size |-> f.counted, data |-> r.v])
    [] f.htype = "ONEOF" -> Read(r.s, [size |-> f.tag, data |-> r.v])
    [] f.htype = "REPEATED" ->
         Read(IF Len(cell.data) >= f.max THEN FailedI(r.s) ELSE r.s,
              [cell EXCEPT !.data = Append(@, r.v)])

decode_static_field(s, wire, f, cell) ==
  IF f.htype = "REPEATED" /\ wire = WT_STRING /\ f.ltype \in Packable
  THEN decode_packed(s, f, cell)
  ELSE Stored(f, cell, DecodeItem(s, f, Before(f, cell)))

decode_field(s, wire, f, cell) ==
  IF f.atype = "CALLBACK" THEN Read(pb_skip_field(s, wire), cell)
  ELSE decode_static_field(s, wire, f, cell)

\* Fields of a fixed count have no _count: the decoder counts the items of the
\* last of them itself, and it must be complete before another one starts.
FixedCount(f) == f.htype = "REPEATED" /\ ~f.counted
Complete(fields, fixed, msg) == fixed = 0 \/ Len(msg[fields[fixed].slot].data) = fields[fixed].max

\* The required fields, as far as the decoder's bits for them go.
Required(fields) ==
  {i \in DOMAIN fields : /\ fields[i].htype = "REQUIRED"
                         /\ Cardinality({j \in 1..(i-1) : fields[j].htype = "REQUIRED"})
                              < PB_MAX_REQUIRED_FIELDS}

\* How far pb_decode_noinit is: the stream, the message so far, the fields that
\* have arrived, the last one of a fixed count, and whether the loop goes on.
Progress(s, msg, seen, fixed, more) ==
  [s |-> s, msg |-> msg, seen |-> seen, fixed |-> fixed, more |-> more]

\* A round of its loop.
DecodeField(fields, d) ==
  LET Stop(s) == Progress(s, d.msg, d.seen, d.fixed, FALSE)
      Go(i, r) == Progress(r.s, [d.msg EXCEPT ![fields[i].slot] = r.v], d.seen \cup {i},
                           IF FixedCount(fields[i]) THEN i ELSE d.fixed, TRUE)
      Begins(i) == FixedCount(fields[i]) /\ d.fixed # i
      Cell(i) == IF Begins(i) THEN [d.msg[fields[i].slot] EXCEPT !.data = <<>>]
                 ELSE d.msg[fields[i].slot]
      Field(t, i) ==
        CASE t.eof \/ ~t.s.ok -> Stop(t.s)
          [] ~t.eof /\ t.s.ok /\ i = 0 ->
               Progress(pb_skip_field(t.s, t.wire), d.msg, d.seen, d.fixed, TRUE)
          [] ~t.eof /\ t.s.ok /\ i # 0 ->
               IF Begins(i) /\ ~Complete(fields, d.fixed, d.msg) THEN Stop(FailedI(t.s))
               ELSE Go(i, decode_field(t.s, t.wire, fields[i], Cell(i)))
      With(t) == Field(t, FieldWithTag(fields, t.tag))
  IN  IF d.more /\ d.s.ok /\ d.s.left > 0 THEN With(pb_decode_tag(d.s)) ELSE d

\* The loop, which takes a byte in every round, and the checks behind it.
pb_decode_noinit(s, fields, msg) ==
  LET after[n \in 0..s.left] ==
        IF n = 0 THEN Progress(s, msg, {}, 0, TRUE)
        ELSE DecodeField(fields, after[n-1])
      End(d) == IF Complete(fields, d.fixed, d.msg) /\ Required(fields) \subseteq d.seen
                THEN Read(d.s, d.msg) ELSE Read(FailedI(d.s), d.msg)
  IN  End(after[s.left])
pb_decode(s, fields) == pb_decode_noinit(s, fields, pb_message_set_to_defaults(fields))
pb_decode_delimited(s, fields) ==
  LET Close(parent, r) == Read(pb_close_string_substream(parent, r.s), r.v)
      Of(st) == Close(st.parent, pb_decode(st.sub, fields))
  IN  Of(pb_make_string_substream(s))
=============================================================================
