\* Two goroutines in Receive.
CONSTANTS
    Adders = {}
    Receivers = {r1, r2}
    maxDatagramSendQueueLen = 2
    maxDatagramRcvQueueLen = 2
    MaxAdds = 0
    MaxRcvd = 2
    MayCancel = FALSE
SPECIFICATION DatagramSpec
INVARIANT BlockedReceiverIsWoken
CHECK_DEADLOCK FALSE
