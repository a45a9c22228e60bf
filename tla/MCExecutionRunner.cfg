SPECIFICATION FairSpec
CONSTANTS
    Child = child
    Helpers = {h1, h2}
    Endless = {child}
    MaxOutput = 1
    PipeSize = 1
    MaxWritten = 2
INVARIANTS TypeOK OutputComplete DrainedWhileHeld NoOrphans
PROPERTY EventuallyAnswered
CHECK_DEADLOCK FALSE
