SPECIFICATION Spec
CONSTANTS
    p1 = p1
    p2 = p2
    None = None
    Calls = {p1, p2}
INVARIANT Released
CHECK_DEADLOCK FALSE
