SPECIFICATION FairSpec
CONSTANT MAX_SOCKETS = 1
INVARIANTS JoinedBeforeReturn
PROPERTIES StopsWhenAsked
CHECK_DEADLOCK FALSE
