\* 16-bit words stand for the code's 32- and 64-bit ones.  Prefix 0 of
\* CreateMask<uint32_t> is undefined and prefix 128 of the IPv6 broadcast
\* writes past s6_addr; both are in AlgorithmsMaskEdge.cfg.
CONSTANTS
    W = 16
    BigEndian = TRUE
    V4Prefixes = {1, 2, 7, 8, 9, 15, 16, 17, 23, 24, 25, 31, 32}
    V6Prefixes = {0, 1, 7, 8, 9, 63, 64, 65, 119, 120, 121, 127}
    Letters = {"m", "d", "x"}
    PatAlphabet = {"%", "m", "x", "{", "}", " "}
    PatLen = 4
    HostChars = {"a", ":"}
    MaxHeader = 4
    MaxBody = 2
    BuffSize = 3
SPECIFICATION Spec
INVARIANTS
    ZigzagRoundTrip
    VarintReference
    VarintRoundTrip
    SubnetPrefixRoundTrip
    BroadcastReference
    AddressOrder
    LookupSplitRoundTrip
    PatternReference
    HttpBodyReference
