SPECIFICATION FairSpec
CONSTANTS
    p1 = p1
    p2 = p2
    p3 = p3
    anna = anna
    bert = bert
    Peers = {p1, p2, p3}
    Names = {anna}
    NoPeer = NoPeer
    MaxUsers = 2
    MaxProgress = 1
 
PROPERTIES ImplementsSessions PasswordIsTheOwners NobodyLingers
CHECK_DEADLOCK FALSE
