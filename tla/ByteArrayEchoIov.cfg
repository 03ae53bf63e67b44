\* The echo server's loop with a request longer than one Node: recv fills
\* more than one iovec.
CONSTANTS
    a = a
    b = b
    Junk = Junk
    BaseSize = 2
    Bytes <- MCBytes
    Bufs = {}
    ReadLens = {}
    SendLens = {}
    EchoBufs <- MCEchoBufs3
    EchoLen = 3
    MaxCap = 4
SPECIFICATION EchoSpec
INVARIANT EchoedAsReceived
