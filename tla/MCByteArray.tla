---------------------------- MODULE MCByteArray ----------------------------
(* Model-checking instance of ByteArray: two byte values, and the byte    *)
(* strings callers pass, up to a length.                                   *)
EXTENDS ByteArray, TLC

CONSTANTS a, b

MCBytes == {a, b}
ByteSymmetry == Permutations(MCBytes)
StringsUpTo(n) == UNION {[1..k -> MCBytes] : k \in 1..n}
MCBufs2 == StringsUpTo(2)
MCBufs3 == StringsUpTo(3)
MCEchoBufs5 == StringsUpTo(5)
MCEchoBufs2 == StringsUpTo(2)
MCEchoBufs3 == StringsUpTo(3)
=============================================================================
