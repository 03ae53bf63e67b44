\* As ByteArray.cfg, with two-byte reads (readFint16, readStringF16's
\* body): a read from the middle of a Node into the next.  A crash through
\* a null m_cur stops the program.
CONSTANTS
    a = a
    b = b
    Junk = Junk
    BaseSize = 2
    Bytes <- MCBytes
    Bufs <- MCBufs2
    ReadLens = {2}
    SendLens = {1}
    EchoBufs = {}
    EchoLen = 0
    MaxCap = 4
SPECIFICATION Spec
PROPERTY BufferRefinement
CHECK_DEADLOCK FALSE
