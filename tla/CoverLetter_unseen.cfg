SPECIFICATION Spec
CONSTANTS
    NoText = NoText
    EmptyText = x0
    NoThread = NoThread
    Clients = {c1}
    Threads = {t1}
    Texts = {x0, x1}
INVARIANT
    ApprovedWasSeen
CHECK_DEADLOCK FALSE
