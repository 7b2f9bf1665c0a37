\* Queues with room for one, two connections, two requests; the constants of the other components
\* are in MCEndpoints.
CONSTANTS
    ClientIDs = {"c1"}
    MaxServerUnprocessedPackets = 1
    MaxAcceptQueueSize = 1
    Max0RTTQueues = 1
    Max0RTTQueueLen = 1
    ReplyQueueSize = 1
    Max0RTTQueueingDuration = 0
    MaxArrivals = 2
    MaxConns = 2
    MaxSrvTime = 2
    SingleUse = FALSE
    Collisions = FALSE
    Requests = {"r1", "r2"}
    Kinds <- MCKinds
    MaxClients = 2
SPECIFICATION MCSpec
INVARIANTS NoConnForgotten FailedClientIsRemoved
PROPERTIES CallsReturn HandshakeIsConfirmed
CHECK_DEADLOCK FALSE
