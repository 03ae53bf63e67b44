\* Nodes of two bytes, writes of up to two bytes, positions up to five:
\* writes cross Nodes and end on their boundaries.  Reads are of one byte,
\* as readFuint8 and the varint readers make them.  The two byte values are
\* interchangeable.
CONSTANTS
    a = a
    b = b
    Junk = Junk
    BaseSize = 2
    Bytes <- MCBytes
    Bufs <- MCBufs2
    ReadLens = {1}
    SendLens = {2}
    EchoBufs = {}
    EchoLen = 0
    MaxCap = 5
SPECIFICATION Spec
INVARIANT CurAtPosition
PROPERTY BufferRefinement
SYMMETRY ByteSymmetry
