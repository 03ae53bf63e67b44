----------------------------- MODULE ByteBuffer -----------------------------
(***************************************************************************)
(* What ByteArray promises its callers, by the @post and @exception        *)
(* comments of src/mumu/bytearray.cc: a string of bytes with a cursor.     *)
(*                                                                         *)
(*   write(buf, n)     overwrites n bytes at the cursor, growing the       *)
(*                     string, and moves the cursor past them;             *)
(*   read(buf, n)      returns the n bytes at the cursor and moves past    *)
(*                     them, or throws out_of_range when fewer are left;   *)
(*   setPosition(v)    moves the cursor, growing the string to v (with     *)
(*                     bytes of unspecified value) when v is past its end, *)
(*                     or throws;                                          *)
(*   toString()        returns the bytes from the cursor to the end;       *)
(*   clear()           empties the string.                                 *)
(*                                                                         *)
(* A call that throws changes nothing, so it is a stuttering step.  out is *)
(* the last result returned to the caller, in the last bytes passed in.    *)
(***************************************************************************)
EXTENDS Integers, Sequences

CONSTANTS
    Bufs,       \* byte strings callers write
    AnyBytes,   \* every value a byte of the buffer may hold
    MaxLen      \* bound on positions

VARIABLES data, pos, out, in

bufVars == <<data, pos, out, in>>

Init == data = <<>> /\ pos = 0 /\ out = <<>> /\ in = <<>>

Write(buf) ==
    /\ data' = SubSeq(data, 1, pos) \o buf \o SubSeq(data, pos + Len(buf) + 1, Len(data))
    /\ pos' = pos + Len(buf)
    /\ in' = buf
    /\ UNCHANGED out

Read(n) ==
    /\ n <= Len(data) - pos
    /\ out' = SubSeq(data, pos + 1, pos + n)
    /\ pos' = pos + n
    /\ UNCHANGED <<data, in>>

SetPosition(v) ==
    /\ pos' = v
    /\ IF v > Len(data)
         THEN \E fill \in [1..(v - Len(data)) -> AnyBytes] : data' = data \o fill
         ELSE UNCHANGED data
    /\ UNCHANGED <<out, in>>

ToStringCall ==
    /\ out' = SubSeq(data, pos + 1, Len(data))
    /\ UNCHANGED <<data, pos, in>>

Clear ==
    /\ data' = <<>> /\ pos' = 0
    /\ UNCHANGED <<out, in>>

Next ==
    \/ \E buf \in Bufs : pos + Len(buf) <= MaxLen /\ Write(buf)
    \/ \E n \in 1..MaxLen : Read(n)
    \/ \E v \in 0..MaxLen : SetPosition(v)
    \/ ToStringCall
    \/ Clear

Spec == Init /\ [][Next]_bufVars
=============================================================================
