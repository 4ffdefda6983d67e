SPECIFICATION FairSpec
CONSTANTS
    c1 = c1
    c2 = c2
    c3 = c3
    Commands = {c1, c2, c3}
    AudioMessages = 2
    Tasks = 1
    Task = Task
    None = None
INVARIANT NotSleptOver
PROPERTY ImplementsCommandQueue
