\* The placeholder session of a process and one explicit session.
SPECIFICATION Spec
CONSTANTS
    p = p
    s1 = s1
    s2 = s2
    r1 = r1
    r2 = r2
    r3 = r3
    m1 = m1
    m2 = m2
    None = None
    Session <- TwoSessions
    Request <- Requests
    Model <- Models
    MaxSessions = 2
    Placeholder = p
    MaxNotices = 0
SYMMETRY Symmetry
INVARIANTS
    NeverHijacked
CHECK_DEADLOCK FALSE
