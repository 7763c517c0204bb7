SPECIFICATION Spec
CONSTANTS
    near = near
    far = far
    Blocks <- JustNear
    Dist <- NearDistance
    Order <- OnlyNear
    FullD = 3
    MaxSimul = 1
    MaxTotal = 1
    MaxEvents = 3
INVARIANT SentIsCurrent
CHECK_DEADLOCK FALSE
