SPECIFICATION FairSpec
CONSTANT Builds <- AllBuilds
INVARIANT WindowLearnsOfWriting
INVARIANT StopsOnlyWhenAsked
PROPERTY RefusedNeverBelieved
PROPERTY ImplementsContract
PROPERTY CancelEnds
CHECK_DEADLOCK FALSE
