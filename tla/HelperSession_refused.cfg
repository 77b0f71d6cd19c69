SPECIFICATION FairSpec
CONSTANT Builds <- OtherBuilds
INVARIANT RefusedHelperTouchesNothing
CHECK_DEADLOCK FALSE
