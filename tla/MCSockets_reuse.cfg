\* Two tcp_listen calls for one address on Windows.
CONSTANTS
    Backends = {"windows"}
    Thread = {t1, t2}
    Slots = {1, 2}
    Inet <- SomeInet
    Paths <- SomePaths
    Names <- SomeNames
    SunPath = 3
    Durations <- SomeDurations
    Micro = 2
    Milli = 4
    MaxMillis = 3
    Datagrams = {1, 2}
    Buffer = 1
SPECIFICATION Spec
CHECK_DEADLOCK FALSE
INVARIANT OneListenerPerAddress
