SPECIFICATION FairSpec
CONSTANTS
    Child = child
    Helpers = {h1}
    Endless = {h1}
    MaxOutput = 1
    PipeSize = 1
    MaxWritten = 2
PROPERTY EventuallyAnswered
CHECK_DEADLOCK FALSE
