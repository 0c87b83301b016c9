CONSTANTS
    Containers = {"c1", "c2", "c3"}
    IPs <- MCIPs
    HostPorts <- MCHostPorts
    Bindings <- MCBindings
    RequestedIP <- MCRequestedIP
    IptablesSettings = {TRUE, FALSE}
    ICCSettings = {TRUE, FALSE}
    BridgeFaults = {"linkup"}
    NoIface = NoIface
    MaxBoots = 3
    Links <- MCLinks
    LinkPorts <- MCLinkPorts
    LinkFaults = TRUE
    IccDeleteFaults = FALSE
SPECIFICATION Spec
CONSTRAINT RuleCopiesBound
INVARIANT TypeOK
INVARIANT IPOwnership
INVARIANT DnatMatchesMappings
INVARIANT ActiveLinksHaveRules
PROPERTY LeaseRefinement
CHECK_DEADLOCK FALSE
