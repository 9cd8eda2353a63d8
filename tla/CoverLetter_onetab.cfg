SPECIFICATION FairSpecWithoutCrash
CONSTANTS
    NoText = NoText
    EmptyText = x0
    NoThread = NoThread
    Clients = {c1}
    Threads = {t1, t2}
    Texts = {x0, x1}
INVARIANTS
    ResumeIsOwn
PROPERTIES
    ReviewHolds
    ImplementsGate
    ApprovalRecorded
