\* bind to two addresses (retrying), start(), stop() on a single-thread
\* IOManager, with two clients.
CONSTANTS
    a1 = a1
    a2 = a2
    Addrs = {a1, a2}
    Calls = 2
    Threads = 1
    MaxClients = 2
    MaxBindFails = 1
SPECIFICATION Spec
INVARIANT TypeOK
PROPERTY AcceptLoopsEnd
PROPERTY ClientsServed
