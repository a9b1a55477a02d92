SPECIFICATION FairServerSpec
CONSTANTS
    threadnum_ = 2
    None = None
    anyLine = anyLine
    StopLine = StopLine
    Messages <- MCMessages
    Author <- MCAuthor
    Quiet = {}
CHECK_DEADLOCK FALSE
PROPERTY
    StopEndsTheProcess
