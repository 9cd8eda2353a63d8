SPECIFICATION Spec
CONSTANTS
    Clients = {c1}
    Threads = {t1}
    NoThread = NoThread
    MaxAnswers = 3
INVARIANT AnswerIsAnswered
CHECK_DEADLOCK FALSE
