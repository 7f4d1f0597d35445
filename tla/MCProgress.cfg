SPECIFICATION Spec
CONSTANTS
    Calls = {c1, c2, c3}
    Request = r1
    Bindings = {b1, b2}
    Turns = {t1, t2}
    Threads = {a, b}
    Processes = {p, q}
    Receipt = r1
    Columns = {c, d}
    None = None
PROPERTIES
    CallsAreAnswered
    ServesAgain
    TurnsEnd
    Opens
CHECK_DEADLOCK FALSE
