\* The script's twenty tries.
CONSTANT Tries = 20
SPECIFICATION FairSpec
INVARIANT TypeOK
INVARIANT ZeroIsEarned
PROPERTY RefusesToStart
PROPERTY DeadChildEndsContainer
\* The container ends.
CHECK_DEADLOCK FALSE
