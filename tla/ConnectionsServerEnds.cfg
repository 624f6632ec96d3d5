SPECIFICATION Spec
CONSTANTS
    ServerId <- McServerId
    MaxConn = 1
    MaxClients = 1
    MaxReq = 1
INVARIANT
    EntriesLive
CHECK_DEADLOCK FALSE
