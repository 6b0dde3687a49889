SPECIFICATION Spec
CONSTANTS
    Task = {t1, t2}
    Main = main
    Host = {h1, h2}
    Secure = {h1}
    Proxied = {h2}
    Conn = {c1, c2, c3}
    NoConn = NoConn
    MaxIdle = 2
    MaxRedirects = 1
SYMMETRY Symmetry
INVARIANTS
    OneOwner
    HeldIsOpen
    OnlyReusedLeak
    PoolBounded
    RedirectsBounded
PROPERTIES
    TransferProgresses
CHECK_DEADLOCK FALSE
