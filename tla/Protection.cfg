SPECIFICATION ProtSpec
CONSTANTS
    Hosts = {"nft", "iptables"}
    MaxFaults = 0
    Tampering = FALSE
    Requests = {"toggle", "on", "off", "connect", "disconnect", "reload", "edit", "quit", "restart"}
INVARIANT JumpIsComplete
PROPERTY ActsAsSwitch
PROPERTY ConnectProtects
PROPERTY FailsClosed
