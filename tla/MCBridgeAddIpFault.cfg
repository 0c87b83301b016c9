CONSTANTS
    Containers = {"c1", "c2", "c3"}
    IPs <- MCIPs
    HostPorts <- MCHostPorts
    Bindings <- MCBindings
    RequestedIP <- MCRequestedIP
    IptablesSettings = {TRUE}
    ICCSettings = {TRUE}
    BridgeFaults = {"addip"}
    NoIface = NoIface
    MaxBoots = 2
    Links <- MCLinks
    LinkPorts <- MCLinkPorts
    LinkFaults = FALSE
    IccDeleteFaults = FALSE
SPECIFICATION Spec
CONSTRAINT RuleCopiesBound
INVARIANT BridgeAddressed
CHECK_DEADLOCK FALSE
