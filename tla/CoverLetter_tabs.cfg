SPECIFICATION FairSpec
CONSTANTS
    NoText = NoText
    EmptyText = x0
    NoThread = NoThread
    Clients = {c1, c2}
    Threads = {t1}
    Texts = {x0, x1}
INVARIANTS
    ReviewReturnsDraft
    EndWasPresented
PROPERTY
    DraftArrives
