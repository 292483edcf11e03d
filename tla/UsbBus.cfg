SPECIFICATION FairSpec
CONSTANTS
    d1 = d1
    d2 = d2
    d3 = d3
    d4 = d4
    d5 = d5
    Boot = Boot
    Server = Server
    Nobody = Nobody
    Thread = {Boot, Server}
    Device = {d1, d2, d3, d4, d5}
    Number <- Numbers
    Buses <- OneDiskBuses
    MAX_USB_DEVICES = 5
    MaxTries = 1
    MaxPortChanges = 3
    MaxStalls = 1
\* The boot thread exits, and a transfer that is never answered hangs.
CHECK_DEADLOCK FALSE
INVARIANTS
    WaitsForReply
    Exclusive
    OneListener
    TogglesAgree
PROPERTY
    Boots
