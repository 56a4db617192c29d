\* Three connections open at once, two changes of the entity.
SPECIFICATION FairSpec
CONSTANTS
    s1 = s1
    s2 = s2
    s3 = s3
    Socket = {s1, s2, s3}
    NoSocket = NoSocket
    MaxState = 3
 
PROPERTIES NeverGoesBack StopEndsTask GetsConnected
