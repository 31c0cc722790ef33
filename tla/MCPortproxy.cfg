SPECIFICATION Spec
CONSTANTS
    b1 = b1
    b2 = b2
    ip1 = ip1
    ip2 = ip2
    t1 = t1
    t2 = t2
    Bridge = {b1, b2}
    Order <- MCOrder
    Address = {ip1, ip2}
    Address6 = {ip6}
    Port = {1}
    Target = {t1, t2}
    Sentinel = Sentinel
    NoIP = NoIP
    Declared <- MCDeclared
    MaxEvents = 2
INVARIANTS TypeOK ParseRoundTrip OperationsConverge
PROPERTIES BystandersKept
