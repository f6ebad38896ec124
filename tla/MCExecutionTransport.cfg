SPECIFICATION Spec
CONSTANT None = None
INVARIANT CleanupIsHonest
PROPERTY CleanupEnds
\* The call returns once, and nothing follows.
CHECK_DEADLOCK FALSE
