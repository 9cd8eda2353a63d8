SPECIFICATION Spec
CONSTANTS
    Requests = {r1, r2}
    Resumes = {x1, x2}
INVARIANT AtMostOneMaster
CHECK_DEADLOCK FALSE
