\* The pattern parser over every pattern, "%%" escapes included.
CONSTANTS
    W = 16
    BigEndian = TRUE
    V4Prefixes = {1, 2, 7, 8, 9, 15, 16, 17, 23, 24, 25, 31, 32}
    V6Prefixes = {0, 1, 7, 8, 9, 63, 64, 65, 119, 120, 121, 127}
    Letters = {"m", "d", "x"}
    PatAlphabet = {"%", "m", "x", "{", "}", " "}
    PatLen = 4
    HostChars = {"a", ":"}
    MaxHeader = 4
    MaxBody = 2
    BuffSize = 3
SPECIFICATION Spec
INVARIANTS
    PatternReferenceAll
