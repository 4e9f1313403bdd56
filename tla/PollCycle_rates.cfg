SPECIFICATION Spec
CONSTANTS
    Ifaces = {1, 2}
    Workers = {1, 2}
    None = None
    Replies <- MCReplies
    Width = 3
    MaxBytes = 3
    MaxResets = 1
PROPERTIES
    SampleIsTrue
    SampleIsComplete
CHECK_DEADLOCK FALSE
VIEW Live
