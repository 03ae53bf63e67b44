------------------------------ MODULE Address ------------------------------
(***************************************************************************)
(* The address arithmetic of src/mumu/address.cc as pure operators: the    *)
(* masks of IPv4Address and IPv6Address, the prefix length that            *)
(* GetInterfaceAddresses derives from a netmask, the ports, the ordering   *)
(* Address::operator< and the host/service split of Address::Lookup.       *)
(*                                                                         *)
(* An address is the bytes of its sockaddr in memory order, so             *)
(* byteswapOnLittleEndian (host to network order) is the choice of the     *)
(* big-endian bytes of a value.  The hosts are x86, little-endian.         *)
(***************************************************************************)
EXTENDS Integers, Sequences, Bitwise

Clamp(x, lo, hi) == IF x < lo THEN lo ELSE IF x > hi THEN hi ELSE x

\* The nbytes big-endian bytes of 2^h - 1: the value with the h low bits set.
LowBitsBytes(nbytes, h) ==
    [k \in 1..nbytes |-> 2^Clamp(h - 8 * (nbytes - k), 0, 8) - 1]

\* CreateMask<uint32_t>(bits) == (1 << (32 - bits)) - 1, as the bytes
\* byteswapOnLittleEndian makes of it.  At bits = 0 the shift by 32 is
\* undefined: x86 masks the count to 0 and yields 0 ("x86"); a constant-
\* folding compiler may yield the mathematical 2^32 - 1 ("math").  At
\* bits = 1, 1 << 31 is INT_MIN and INT_MIN - 1 wraps to 2^31 - 1.
CreateMask32(bits, ub) ==
    IF bits = 0 /\ ub = "x86" THEN LowBitsBytes(4, 0)
    ELSE LowBitsBytes(4, 32 - bits)

\* CreateMask<uint8_t>(bits), bits < 8: computed in int, no overflow.
CreateMask8(bits) == 2^(8 - bits) - 1

BytesOr(a, m)  == [k \in DOMAIN a |-> a[k] | m[k]]
BytesAnd(a, m) == [k \in DOMAIN a |-> a[k] & m[k]]
BytesNot(m)    == [k \in DOMAIN m |-> 255 - m[k]]

-----------------------------------------------------------------------------
\* CountBytes: for (; value; ++result) value &= value - 1.
RECURSIVE CountBytes(_)
CountBytes(value) == IF value = 0 THEN 0 ELSE 1 + CountBytes(value & (value - 1))

\* The bits set in a word, counted over its bytes.
RECURSIVE CountWord(_)
CountWord(bs) == IF bs = <<>> THEN 0 ELSE CountBytes(Head(bs)) + CountWord(Tail(bs))

\* GetInterfaceAddresses: prefix_len = CountBytes(netmask) for AF_INET, the
\* sum of CountBytes(s6_addr[i]) over the 16 bytes for AF_INET6.
PrefixLen(netmask) == CountWord(netmask)

-----------------------------------------------------------------------------
\* IPv4Address: s_addr as 4 bytes.  nullptr is Null.
Null == "nullptr"

V4BroadcastAddress(a, p, ub) ==
    IF p > 32 THEN Null ELSE BytesOr(a, CreateMask32(p, ub))

V4NetwordAddress(a, p, ub) ==
    IF p > 32 THEN Null ELSE BytesAnd(a, CreateMask32(p, ub))

\* No check of prefix_len: callers pass 0..32.
V4SubnetMask(p, ub) == BytesNot(CreateMask32(p, ub))

\* IPv6Address: s6_addr as 16 bytes followed by the first byte of
\* sin6_scope_id, which s6_addr[16] writes.  The result is the 17 bytes.
\* Mutant: the bytes after the partial one start a byte late.
V6BroadcastAddressSkip(a, p) ==
    [k \in 1..17 |-> CASE k = p \div 8 + 1 -> a[k] | CreateMask8(p % 8)
                       [] k > p \div 8 + 2 /\ k <= 16 -> 255
                       [] OTHER -> a[k]]

V6BroadcastAddress(a, p) ==
    [k \in 1..17 |-> CASE k = p \div 8 + 1 -> a[k] | CreateMask8(p % 8)
                       [] k > p \div 8 + 1 /\ k <= 16 -> 255
                       [] OTHER -> a[k]]

V6NetwordAddress(a, p) ==
    [k \in 1..17 |-> CASE k = p \div 8 + 1 -> a[k] & CreateMask8(p % 8)
                       [] k > p \div 8 + 1 /\ k <= 16 -> 0
                       [] OTHER -> a[k]]

\* Mutant: the partial byte of the prefix left zero.
V6SubnetMaskWholeBytes(p) ==
    [k \in 1..17 |-> IF k <= p \div 8 THEN 255 ELSE 0]

\* The sockaddr_in6 is memset to zero first.
V6SubnetMask(p) ==
    [k \in 1..17 |-> CASE k = p \div 8 + 1 -> 255 - CreateMask8(p % 8)
                       [] k <= p \div 8 -> 255
                       [] OTHER -> 0]

\* Ports: sin_port / sin6_port hold the network-order bytes of the port.
Swap16(v) == (v % 256) * 256 + v \div 256
SetPort(v) == Swap16(v)             \* m_addr.sin_port = byteswap(v)
V4GetPort(raw) == Swap16(raw)       \* return byteswap(m_addr.sin_port)
V6GetPort(raw) == raw               \* return m_addr.sin6_port

-----------------------------------------------------------------------------
\* Address::operator< over the getAddr() bytes and getAddrLen(): memcmp of
\* the common prefix, then the shorter first.
RECURSIVE Memcmp(_, _, _)
Memcmp(x, y, n) ==
    IF n = 0 THEN 0
    ELSE IF Head(x) < Head(y) THEN -1
    ELSE IF Head(x) > Head(y) THEN 1
    ELSE Memcmp(Tail(x), Tail(y), n - 1)

\* Mutant: the length tiebreak dropped.
LessNoLength(x, y) ==
    Memcmp(x, y, IF Len(x) < Len(y) THEN Len(x) ELSE Len(y)) < 0

Less(x, y) ==
    LET r == Memcmp(x, y, IF Len(x) < Len(y) THEN Len(x) ELSE Len(y))
    IN  r < 0 \/ (r = 0 /\ Len(x) < Len(y))

Equal(x, y) == Len(x) = Len(y) /\ Memcmp(x, y, Len(x)) = 0

-----------------------------------------------------------------------------
\* Address::Lookup's split of host into node and service.  Strings are
\* sequences of characters; a service is the string service points to, or
\* NoService for service == NULL.
Service(str) == [null |-> FALSE, str |-> str]
NoService    == [null |-> TRUE, str |-> <<>>]

\* Index of the first c in s from position from, 0 if none (memchr).
FirstFrom(s, c, from) ==
    IF \E k \in from..Len(s) : s[k] = c
      THEN CHOOSE k \in from..Len(s) : s[k] = c /\ \A j \in from..(k - 1) : s[j] # c
      ELSE 0

\* Mutant: the service of "[node]:service" taken from the ':'.
LookupSplitColonKept(host) ==
    LET L     == Len(host)
        close == IF L > 0 /\ host[1] = "[" THEN FirstFrom(host, "]", 2) ELSE 0
        v6Node == IF close > 0 THEN SubSeq(host, 2, close - 1) ELSE <<>>
        v6Serv == IF close > 0 /\ close < L /\ host[close + 1] = ":"
                    THEN Service(SubSeq(host, close + 1, L)) ELSE NoService
        colon  == FirstFrom(host, ":", 1)
        single == colon > 0 /\ FirstFrom(host, ":", colon + 1) = 0
        node   == IF v6Node # <<>> THEN v6Node
                  ELSE IF single THEN SubSeq(host, 1, colon - 1) ELSE <<>>
        serv   == IF v6Node # <<>> THEN v6Serv
                  ELSE IF colon = 0 THEN NoService
                  ELSE IF single THEN Service(SubSeq(host, colon + 1, L))
                  ELSE Service(SubSeq(host, colon, L))
    IN  [node |-> IF node = <<>> THEN host ELSE node, service |-> serv]

LookupSplit(host) ==
    LET L     == Len(host)
        close == IF L > 0 /\ host[1] = "[" THEN FirstFrom(host, "]", 2) ELSE 0
        \* the '[' branch; *(endipv6 + 1) past the end reads the '\0'
        v6Node == IF close > 0 THEN SubSeq(host, 2, close - 1) ELSE <<>>
        v6Serv == IF close > 0 /\ close < L /\ host[close + 1] = ":"
                    THEN Service(SubSeq(host, close + 2, L)) ELSE NoService
        colon  == FirstFrom(host, ":", 1)
        single == colon > 0 /\ FirstFrom(host, ":", colon + 1) = 0
        node   == IF v6Node # <<>> THEN v6Node
                  ELSE IF single THEN SubSeq(host, 1, colon - 1) ELSE <<>>
        serv   == IF v6Node # <<>> THEN v6Serv
                  ELSE IF colon = 0 THEN NoService
                  ELSE IF single THEN Service(SubSeq(host, colon + 1, L))
                  ELSE Service(SubSeq(host, colon, L))
    IN  [node |-> IF node = <<>> THEN host ELSE node, service |-> serv]
=============================================================================
