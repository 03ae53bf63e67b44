\* start(), stop(), start() on a single-thread IOManager: the second start()
\* can come before the close task, which closes the Sockets under it.
CONSTANTS
    a1 = a1
    a2 = a2
    Addrs = {a1, a2}
    Calls = 3
    Threads = 1
    MaxClients = 2
    MaxBindFails = 1
SPECIFICATION Spec
PROPERTY AcceptLoopsEnd
