SPECIFICATION FairSpec
CONSTANTS
    a = a
    b = b
    c = c
    Processes = {p1, p2}
    Workflows = {a, b}
    Program <- Conversation
    Receiver = b
    Source = b
    Tasks = {t1, t2}
    None = None
    Unit = Unit
    Timeout = Timeout
    MaxStarts = 3
    MaxDisruptions = 1
INVARIANTS
    DeliveredExactlyOnce
    SentExactlyOnce
    EventIsLatest
    ResultsAgree
PROPERTIES
    RecvNotStuck
