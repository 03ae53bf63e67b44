--------------------------- MODULE MCAlgorithms ---------------------------
(***************************************************************************)
(* Checks the pure operators of the library against reference            *)
(* definitions over bounded inputs: the ByteArray codecs (ByteCodec), the  *)
(* address arithmetic and host split (Address) and the log pattern parser  *)
(* (LogFormat), and the HTTP receive loop (HttpSession).  The state is one input u, a record tagged with the        *)
(* operator it is for, so every input is a distinct state and each        *)
(* property constrains the inputs of its own tag.                          *)
(***************************************************************************)
EXTENDS ByteCodec, Address, LogFormat, HttpSession, FiniteSets

CONSTANTS
    W, BigEndian,   \* word width of the codec inputs, byte order
    V4Prefixes,     \* prefix lengths given to the IPv4 masks
    V6Prefixes,     \* prefix lengths given to the IPv6 masks
    PatAlphabet,    \* characters of the log patterns
    PatLen,         \* longest pattern
    HostChars,      \* characters of the node names given to Lookup
    MaxHeader,      \* longest request header, in bytes
    MaxBody         \* longest request body

VARIABLE u

-----------------------------------------------------------------------------
CodecInputs ==
    (0..300) \cup {2^14 - 1, 2^14, 2^14 + 1, 2^(W - 1) - 1, 2^(W - 1),
                   2^(W - 1) + 1, 2^W - 2, 2^W - 1}

V4Addrs == {<<192, 168, 1, 77>>, <<10, 0, 0, 1>>, <<255, 0, 255, 0>>}
\* s6_addr followed by a zero first byte of sin6_scope_id
V6Addrs == {[k \in 1..17 |-> IF k = 1 THEN 254 ELSE IF k = 16 THEN 1 ELSE 0],
            [k \in 1..17 |-> IF k < 17 THEN (37 * k) % 256 ELSE 0]}

\* getAddr() images: family (little-endian) then the rest of the sockaddr.
SockIn(port, a)  == <<2, 0>> \o <<port \div 256, port % 256>> \o a \o [k \in 1..8 |-> 0]
SockIn6(port, a) == <<10, 0>> \o <<port \div 256, port % 256>> \o <<0, 0, 0, 0>>
                        \o SubSeq(a, 1, 16) \o <<0, 0, 0, 0>>
SockUn(path)     == <<1, 0>> \o path
SockAddrs ==
    {SockIn(80, <<10, 0, 0, 1>>), SockIn(8080, <<10, 0, 0, 1>>),
     SockIn6(80, [k \in 1..17 |-> 0]), SockUn(<<47, 97>>), SockUn(<<47, 97, 98>>),
     SockUn(<<0, 97>>)}

Patterns == UNION {[1..n -> PatAlphabet] : n \in 0..PatLen}

\* Services appended to them: none, empty, a port.
Services == {NoService, Service(<<>>), Service(<<"8">>)}

Nodes == UNION {[1..n -> HostChars] : n \in 1..3}

\* LogDefines with every level, with and without a formatter, and with a
\* file and a stdout appender of level UNKONW or ERROR.
Defines ==
    {[name |-> "system", level |-> l, formatter |-> f,
      appenders |-> apps] :
        l \in 0..5, f \in {<<>>, <<"%", "m">>},
        apps \in {<<>>} \cup {<<[type |-> 1, level |-> al, formatter |-> <<>>, file |-> "a.log"],
                               [type |-> 2, level |-> al, formatter |-> <<"%", "m">>, file |-> ""]>> :
                               al \in {0, 4}}}

\* A request: hlen header bytes, the first malformed if bad, the last
\* carrying the content-length blen and the close flag; then the body.
Body(r, blen) == [i \in 1..blen |-> BodyByte(r, i)]
Request(r, hlen, blen, cls, bad) ==
    [i \in 1..(hlen - 1) |-> IF bad /\ i = 1 THEN BadByte(r) ELSE HdrByte(r)]
        \o <<HdrEnd(r, blen, cls)>> \o Body(r, blen)

\* Every way of cutting n bytes into segments.
RECURSIVE Segmentations(_)
Segmentations(n) ==
    IF n = 0 THEN {<<>>}
    ELSE UNION {{<<k>> \o s : s \in Segmentations(n - k)} : k \in 1..n}

\* One request on a connection, all of it sent or its last byte missing,
\* in every segmentation, with the peer then waiting, closing or
\* resetting, to a server with keep-alive off or on.
HttpSamples ==
    UNION {{[k |-> "http", hlen |-> hl, blen |-> bl, cls |-> c, bad |-> b,
             cut |-> cut, keepalive |-> ka, fin |-> fin,
             net |-> Net(SubSeq(Request(1, hl, bl, c, b), 1, hl + bl - cut), sg, fin)] :
              sg \in IF b /\ hl = 1 THEN {} ELSE Segmentations(hl + bl - cut)} :
           hl \in 1..MaxHeader, bl \in 0..MaxBody, c \in BOOLEAN,
           b \in BOOLEAN, cut \in 0..1,
           ka \in BOOLEAN, fin \in {"wait", "close", "reset"}}

Samples ==
       {[k |-> "codec", x |-> x] : x \in CodecInputs}
  \cup {[k |-> "v4", a |-> a, p |-> p, ub |-> ub] :
            a \in V4Addrs, p \in V4Prefixes, ub \in {"x86", "math"}}
  \cup {[k |-> "v6", a |-> a, p |-> p] : a \in V6Addrs, p \in V6Prefixes}
  \cup {[k |-> "cmp", x |-> x, y |-> y, z |-> z] : x, y, z \in SockAddrs}
  \cup {[k |-> "host", n |-> n, s |-> s] : n \in Nodes, s \in Services}
  \cup {[k |-> "pattern", pat |-> p] : p \in Patterns}
  \cup {[k |-> "define", d |-> d] : d \in Defines}
  \cup HttpSamples
  \cup {[k |-> "port", fam |-> f, x |-> x] : f \in {"v4", "v6"}, x \in {80, 8080, 65535}}

Init == u \in Samples
Next == u' \in Samples
Spec == Init /\ [][Next]_u

-----------------------------------------------------------------------------
\* Reference definitions.

\* The base-128 form the varint is meant to be: the fewest 7-bit groups,
\* low group first, 0x80 on every group but the last.
RefVarint(x) ==
    LET L == CHOOSE n \in 1..10 : x < 128^n /\ (n = 1 \/ x >= 128^(n - 1))
    IN  [i \in 1..L |-> ((x \div 128^(i - 1)) % 128) + (IF i < L THEN 128 ELSE 0)]

\* Bytes that happen to follow a value in the buffer.
Trailer == <<255, 1>>

\* A short string whose length depends on the input.
Str(x) == [i \in 1..(x % 4) |-> 65 + i]

\* The n-byte word whose first p bits are ones and the rest zeros.
LeadingOnes(n, p) == [k \in 1..n |-> 256 - 2^(8 - Clamp(p - 8 * (k - 1), 0, 8))]

\* Address a with every bit from p on set (broadcast) or cleared (network).
RefBroadcast(a, n, p) == [k \in 1..n |-> a[k] | (255 - LeadingOnes(n, p)[k])]
RefNetwork(a, n, p)   == [k \in 1..n |-> a[k] & LeadingOnes(n, p)[k]]

\* A host string as a caller writes it: "[node]" / "[node]:service" when
\* the node has a ':' (an IPv6 literal), "node" / "node:service" otherwise.
Join(n, s) ==
    LET bare == IF \E k \in DOMAIN n : n[k] = ":" THEN <<"[">> \o n \o <<"]">> ELSE n
    IN  IF s = NoService THEN bare ELSE bare \o <<":">> \o s.str

\* The pattern grammar: "%%" is a '%'; "%name" or "%name{fmt}" a
\* directive, name the letters after the '%'; a '}' right after the name
\* or a '{' with no '}' is malformed; anything else is literal text.
RECURSIVE RefParse(_)
RefParse(s) ==
    LET Lit(c, rest) == LET r == RefParse(rest)
                        IN  [r EXCEPT !.toks = <<Text(<<c>>)>> \o @]
    IN
    IF s = <<>> THEN [toks |-> <<>>, error |-> FALSE]
    ELSE IF s[1] = "%" /\ Len(s) >= 2 /\ s[2] = "%" THEN Lit("%", SubSeq(s, 3, Len(s)))
    ELSE IF s[1] = "%"
      THEN LET nameLen == CHOOSE m \in 0..(Len(s) - 1) :
                             /\ \A j \in 2..(m + 1) : s[j] \in Letters
                             /\ (m + 2 > Len(s) \/ s[m + 2] \notin Letters)
               name    == SubSeq(s, 2, nameLen + 1)
               rest    == SubSeq(s, nameLen + 2, Len(s))
               close   == FirstFrom(rest, "}", 1)
               bad     == Len(name) # 1 \/ name[1] \notin FormatItems
           IN  IF rest # <<>> /\ rest[1] = "}" THEN [toks |-> <<>>, error |-> TRUE]
               ELSE IF rest # <<>> /\ rest[1] = "{"
                 THEN IF close = 0 THEN [toks |-> <<>>, error |-> TRUE]
                      ELSE LET r == RefParse(SubSeq(rest, close + 1, Len(rest)))
                           IN  [toks  |-> <<Item(name, SubSeq(rest, 2, close - 1))>> \o r.toks,
                                error |-> r.error \/ bad]
               ELSE LET r == RefParse(rest)
                    IN  [toks |-> <<Item(name, <<>>)>> \o r.toks, error |-> r.error \/ bad]
    ELSE Lit(s[1], Tail(s))

\* Adjacent literal texts joined, as nstr accumulates them.
RECURSIVE MergeText(_)
MergeText(ts) ==
    IF Len(ts) < 2 THEN ts
    ELSE IF ts[1].k = "text" /\ ts[2].k = "text"
      THEN MergeText(<<Text(ts[1].s \o ts[2].s)>> \o SubSeq(ts, 3, Len(ts)))
      ELSE <<ts[1]>> \o MergeText(Tail(ts))

HasEscape(p) == \E j \in 1..(Len(p) - 1) : p[j] = "%" /\ p[j + 1] = "%"
-----------------------------------------------------------------------------
\* writeInt32 then readInt32 gives back every signed value, INT_MIN and
\* INT_MAX included (EncodeZigzag32 / DecodeZigzag32).
ZigzagRoundTrip ==
    u.k = "codec" =>
        DecodeZigzag(EncodeZigzag(Signed(u.x, W), W), W) = Signed(u.x, W)

\* writeUint32 emits the canonical base-128 varint of every value.
VarintReference == u.k = "codec" => EncodeVarint(u.x) = RefVarint(u.x)

\* readUint32 over what writeUint32 wrote returns the value and consumes
\* exactly the bytes written, whatever follows them, so the next field is
\* read from the right position.
VarintRoundTrip ==
    u.k = "codec" =>
        DecodeVarint(EncodeVarint(u.x) \o Trailer, W)
            = [value |-> u.x, used |-> Len(EncodeVarint(u.x))]

\* readStringVint reads back the string writeStringVint wrote.
StringVintRoundTrip ==
    u.k = "codec" =>
        DecodeStringVint(EncodeStringVint(Str(u.x), W) \o Trailer, BigEndian)
            = [str |-> Str(u.x)]

\* subnetMask(p) of IPv4Address and IPv6Address is the mask of p leading
\* ones, and the prefix length GetInterfaceAddresses counts in that mask
\* (CountBytes over the netmask) is p again.
SubnetPrefixRoundTrip ==
    /\ u.k = "v4" =>
          /\ V4SubnetMask(u.p, u.ub) = LeadingOnes(4, u.p)
          /\ PrefixLen(V4SubnetMask(u.p, u.ub)) = u.p
    /\ u.k = "v6" =>
          /\ SubSeq(V6SubnetMask(u.p), 1, 16) = LeadingOnes(16, u.p)
          /\ PrefixLen(SubSeq(V6SubnetMask(u.p), 1, 16)) = u.p

\* broadcastAddress(p) sets exactly the host bits, from bit p on, and
\* leaves the rest of the sockaddr (sin6_scope_id) alone.
BroadcastReference ==
    /\ u.k = "v4" => V4BroadcastAddress(u.a, u.p, u.ub) = RefBroadcast(u.a, 4, u.p)
    /\ u.k = "v6" =>
          V6BroadcastAddress(u.a, u.p) = RefBroadcast(u.a, 16, u.p) \o <<u.a[17]>>

\* networdAddress(p) clears exactly the host bits.
NetworkReference ==
    /\ u.k = "v4" => V4NetwordAddress(u.a, u.p, u.ub) = RefNetwork(u.a, 4, u.p)
    /\ u.k = "v6" =>
          V6NetwordAddress(u.a, u.p) = RefNetwork(u.a, 16, u.p) \o <<u.a[17]>>

\* Address::operator< is a strict total order whose equivalence is
\* operator==, over IPv4, IPv6 and Unix addresses of different lengths:
\* std::map and std::set of addresses rely on it.
AddressOrder ==
    u.k = "cmp" =>
        LET x == u.x  y == u.y  z == u.z
        IN  /\ Cardinality({i \in 1..3 : \/ (i = 1 /\ Less(x, y))
                                          \/ (i = 2 /\ Equal(x, y))
                                          \/ (i = 3 /\ Less(y, x))}) = 1
            /\ (Less(x, y) /\ Less(y, z)) => Less(x, z)

\* Address::Lookup hands getaddrinfo the node and the service the caller
\* wrote, for "[v6]:port", "[v6]", "host:port" and "host".
LookupSplitRoundTrip ==
    u.k = "host" => LookupSplit(Join(u.n, u.s)) = [node |-> u.n, service |-> u.s]

\* A host with several ':' and no brackets is an IPv6 literal with no
\* service (the comment of Lookup: only a single ':' introduces a port).
LookupBareV6 ==
    u.k = "host" /\ u.s = NoService
        /\ Cardinality({j \in DOMAIN u.n : u.n[j] = ":"}) >= 2 =>
        LookupSplit(u.n) = [node |-> u.n, service |-> NoService]

\* getPort() returns the port setPort() stored, for IPv4 and IPv6.
PortRoundTrip ==
    u.k = "port" =>
        (IF u.fam = "v4" THEN V4GetPort(SetPort(u.x)) ELSE V6GetPort(SetPort(u.x))) = u.x

\* A LogDefine written to YAML by LexcalCast<LogDefine, std::string> and
\* read back by LexcalCast<std::string, LogDefine> is the same definition
\* (ConfigVar::toString then fromString).
DefineRoundTrip == u.k = "define" => ParseDefine(DefineToYaml(u.d)) = u.d

\* LogFormatter::init accepts exactly the well-formed patterns and builds
\* their items (literal text, directives with their format) in order;
\* patterns with a "%%" escape aside.
PatternReference ==
    u.k = "pattern" /\ ~HasEscape(u.pat) =>
        LET c == FormatterInit(u.pat)
            r == RefParse(u.pat)
        IN  /\ c.error = r.error
            /\ ~c.error => c.items = MergeText(r.toks)

\* The same for every pattern: "%%" stands for a literal '%'.
PatternReferenceAll ==
    u.k = "pattern" =>
        LET c == FormatterInit(u.pat)
            r == RefParse(u.pat)
        IN  /\ c.error = r.error
            /\ ~c.error => c.items = MergeText(r.toks)

\* With keep-alive off, or a request that asks to close, handleClient
\* answers one complete request with exactly the body the client sent,
\* however the network cuts it and whatever the peer does next; it
\* answers none when the header is malformed or larger than the buffer
\* (recvRequest: parse, keep the unparsed bytes, copy the buffered part of
\* the body, readFixSize the rest).
HttpBodyReference ==
    u.k = "http" /\ u.cut = 0 /\ (~u.keepalive \/ u.cls) =>
        HandleClient(u.net, u.keepalive, <<>>)
            = [served |-> IF u.bad \/ u.hlen > BuffSize THEN <<>> ELSE <<Body(1, u.blen)>>,
               end    |-> "close"]

\* When the peer closes the connection, handleClient returns and closes
\* the session (SocketStream::read documents 0 as "closed by the remote").
ConnectionEnds ==
    u.k = "http" /\ u.fin = "close" => HandleClient(u.net, u.keepalive, <<>>).end # "spin"
=============================================================================
