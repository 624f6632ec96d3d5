SPECIFICATION Spec
CONSTANTS
    ServerId <- McServerId
    MaxConn = 2
    MaxClients = 1
    MaxReq = 2
INVARIANTS
    ChannelsLive
    TakenOnce
CHECK_DEADLOCK FALSE
