\* Two openers and one accepter; two endpoints that update their keys; connection IDs up to the
\* limit, and RetirePriorTo of another implementation; a send stream with two frames' worth of
\* data, and a receive stream of four bytes, framed in every way.  The constants of the other components are in MCConnection.
CONSTANTS
    Openers = {"o1", "o2"}
    maxNumStreams = 2
    MaxStreamCount = 4
    MaxCalls = 2
    LateCancel = FALSE
    Accepters = {"a1"}
    Endpoints = {"client", "server"}
    MaxPhase = 3
    MaxSealed <- MCMaxSealed
    MaxActiveConnectionIDs = 3
    MaxIssuedConnectionIDs = 6
    MaxSeq = 4
    MaxOnPath = 1
    RetirePriorTos = {0, 3}
    WriteSizes = {1, 3}
    MaxWritten = 4
    MaxPacketBufferSize = 2
    MaxDataLen = 2
    SendWindows = {2, 4}
    MaxLost = 1
    MaxByteCount = 100
    MaxStreamFrameSorterGaps = 3
    FinalSize = 4
    ReadSizes = {1, 3}
    ResetAfterFin = FALSE
SPECIFICATION MCSpec
INVARIANTS ReadInOrder WaitingCallsAreBlocked StreamsEndOnce SendableIsActive LimitsAgree PacketsAreRouted KeysAreFound HandshakeHasNoError BodyArrives EndpointStateIsKept ContainersKeepContent
CHECK_DEADLOCK FALSE
