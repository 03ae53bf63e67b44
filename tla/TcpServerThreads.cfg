\* bind, start(), stop() on an IOManager with two threads, as in the
\* examples (IOManager iom(2)).
CONSTANTS
    a1 = a1
    a2 = a2
    Addrs = {a1, a2}
    Calls = 2
    Threads = 2
    MaxClients = 2
    MaxBindFails = 1
SPECIFICATION Spec
PROPERTY AcceptLoopsEnd
