----------------------------- MODULE ByteCodec -----------------------------
(***************************************************************************)
(* The value encodings of ByteArray, src/mumu/bytearray.cc, as pure        *)
(* operators on bytes (naturals below 256).                                *)
(*                                                                         *)
(* The code has a 32-bit and a 64-bit copy of each varint and zigzag       *)
(* routine, identical up to the width; here the width W is a parameter so  *)
(* that TLC's integers can hold 2^W.  Fixed-width values go through        *)
(* byteswap when m_endian differs from the host order (x86: little), so    *)
(* with the default MUHUI_BIG_ENDIAN the bytes are big-endian.             *)
(***************************************************************************)
EXTENDS Integers, Sequences, Bitwise

\* A W-bit unsigned integer read as two's complement.
Signed(u, W) == IF u >= 2^(W - 1) THEN u - 2^W ELSE u

\* EncodeZigzag32/64: negative v maps to 2 * -v - 1, the rest to 2 * v,
\* both in W-bit unsigned arithmetic (-INT_MIN wraps).
EncodeZigzagUnbiased(v, W) ==
    IF v < 0 THEN (((-v) % 2^W) * 2) % 2^W ELSE (v * 2) % 2^W
EncodeZigzag(v, W) ==
    IF v < 0 THEN ((((-v) % 2^W) * 2) - 1) % 2^W ELSE (v * 2) % 2^W

\* DecodeZigzag32/64: (v >> 1) ^ -(v & 1), then read as signed.
DecodeZigzag(u, W) ==
    Signed(shiftR(u, 1) ^^ ((2^W - (u % 2)) % 2^W), W)

\* writeUint32/64: low seven bits first, 0x80 set on all but the last.
EncodeVarintHeadNoFlag(value) == value & 127
EncodeVarintHead(value) == (value & 127) | 128
RECURSIVE EncodeVarint(_)
EncodeVarint(value) ==
    IF value >= 128
      THEN <<EncodeVarintHead(value)>> \o EncodeVarint(shiftR(value, 7))
      ELSE <<value>>

\* std::out_of_range thrown by read when too few bytes are left.
Thrown == [thrown |-> "out_of_range"]

\* readUint32/64 over the bytes bs: for (i = 0; i < W; i += 7) one
\* readFuint8, stop at a byte below 0x80.  The result is the value and
\* the number of bytes consumed, or Thrown when readFuint8 runs
\* out of bytes (the bytes read before it stay consumed).
DecodeVarintLastDropped(result, b, i, W) == result
DecodeVarintLast(result, b, i, W) == (result | (b * 2^i)) % 2^W
RECURSIVE DecodeVarintFrom(_, _, _, _)
DecodeVarintFrom(bs, i, result, W) ==
    IF i >= W THEN [value |-> result, used |-> i \div 7]
    ELSE IF i \div 7 >= Len(bs) THEN Thrown
    ELSE LET b == bs[i \div 7 + 1]
         IN  IF b < 128
               THEN [value |-> DecodeVarintLast(result, b, i, W), used |-> i \div 7 + 1]
               ELSE DecodeVarintFrom(bs, i + 7, (result | ((b & 127) * 2^i)) % 2^W, W)
DecodeVarint(bs, W) == DecodeVarintFrom(bs, 0, 0, W)

\* writeFuint16/32/64 of a k-byte value in the ByteArray's byte order;
\* readFuint16/32/64 undo it.
RECURSIVE LittleBytes(_, _)
LittleBytes(v, k) == IF k = 0 THEN <<>> ELSE <<v % 256>> \o LittleBytes(v \div 256, k - 1)
RECURSIVE Reverse(_)
Reverse(s) == IF s = <<>> THEN <<>> ELSE Reverse(Tail(s)) \o <<Head(s)>>
EncodeFixed(v, k, bigEndian) ==
    IF bigEndian THEN Reverse(LittleBytes(v, k)) ELSE LittleBytes(v, k)
RECURSIVE LittleValue(_)
LittleValue(bs) == IF bs = <<>> THEN 0 ELSE Head(bs) + 256 * LittleValue(Tail(bs))
DecodeFixed(bs, bigEndian) ==
    IF bigEndian THEN LittleValue(Reverse(bs)) ELSE LittleValue(bs)

\* writeStringVint: the length as writeUint64, then the bytes.
EncodeStringVint(s, W) == EncodeVarint(Len(s) % 2^W) \o s

\* readStringVint: the length as readFuint64 (eight fixed bytes), then
\* that many bytes; Thrown when there are not enough.
DecodeStringVint(bs, bigEndian) ==
    IF Len(bs) < 8 THEN Thrown
    ELSE LET n == DecodeFixed(SubSeq(bs, 1, 8), bigEndian)
         IN  IF Len(bs) - 8 < n THEN Thrown ELSE [str |-> SubSeq(bs, 9, 8 + n)]
=============================================================================
