SPECIFICATION FairSpec
CONSTANTS
    near = near
    far = far
    Blocks <- NearAndFar
    Dist <- Distances
    Order <- NearThenFar
    FullD = 3
    MaxSimul = 1
    MaxTotal = 1
    MaxEvents = 2
INVARIANTS SentReaches 
 
CHECK_DEADLOCK FALSE
