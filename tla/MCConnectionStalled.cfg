CONSTANTS
    MaxMessages = 1
    MaxPackets = 1
SPECIFICATION TimedSpec
PROPERTY SocketsClose
CHECK_DEADLOCK FALSE
