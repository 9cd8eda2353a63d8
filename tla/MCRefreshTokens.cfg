SPECIFICATION Spec
CONSTANTS
    c1 = c1
    c2 = c2
    c3 = c3
    f1 = f1
    f2 = f2
    j1 = j1
    j2 = j2
    j3 = j3
    j4 = j4
    NoToken = NoToken
    NoFamily = NoFamily
    Clients = {c1, c2, c3}
    Families = {f1, f2}
    Jtis = {j1, j2, j3, j4}
SYMMETRY Symmetry
INVARIANTS
    LinearFamily
    SessionKept
    EndedUnlessOvertaken
CHECK_DEADLOCK FALSE
