---------------------------- MODULE BridgeDriver ----------------------------
(***************************************************************************)
(* The bridge network driver of the daemon                                 *)
(* (daemon/networkdriver/bridge/driver.go) together with the services it   *)
(* drives and the callers of its jobs.                                     *)
(*                                                                         *)
(*  - InitDriver, the init_networkdriver job run once per daemon boot:     *)
(*    finds or creates the bridge, installs the NAT and FORWARD rules,     *)
(*    recreates the DOCKER chain and registers the per-container jobs.     *)
(*  - Allocate, Release, AllocatePort: the allocate_interface,             *)
(*    release_interface and allocate_port jobs over the package-level      *)
(*    table currentInterfaces.                                             *)
(*  - The IP allocator, port allocator and port mapper are not under src/; *)
(*    they are modelled from the spec (sections 4.E and 4.F).              *)
(*  - The caller of the jobs is the container lifecycle (Start acquires    *)
(*    the interface then one port per binding, rolls back on failure,      *)
(*    releases on exit), also modelled from the spec (section 4.I).        *)
(*  - LinkContainers, the link job, toggles the FORWARD ACCEPT rules      *)
(*    between a parent and a child; its caller (links of container.go:     *)
(*    setupLinkedContainers at Start, Disable at cleanup) is modelled from *)
(*    spec 4.I.                                                            *)
(*  - The daemon may crash: the kernel state (bridge device, iptables)     *)
(*    survives, the in-memory tables and the container processes do not.  *)
(***************************************************************************)
EXTENDS Integers, Sequences, SequencesExt, FiniteSets, BagsExt, TLC

CONSTANTS
    Containers,   \* container ids
    IPs,          \* usable addresses of the bridge network, as numbers
    HostPorts,    \* host ports of the allocator's range, as numbers
    Bindings,     \* [Containers -> Seq(HostPorts \cup {0})]: HostPort of each binding, 0 = any
    RequestedIP,  \* [Containers -> IPs \cup {0}]: RequestedIP of allocate_interface, 0 = none
    IptablesSettings, \* the values of --iptables the daemon may be booted with
    ICCSettings,  \* the values of --icc the daemon may be booted with
    BridgeFaults, \* netlink calls of createBridge that may fail: subset of {"addip", "linkup"}
    NoIface,      \* an absent entry of currentInterfaces
    Links,        \* [Containers -> SUBSET Containers]: the children each container links to
    LinkPorts,    \* the children's exposed ports, the Ports list of the link job
    LinkFaults,   \* whether the iptables calls of the link job may fail
    IccDeleteFaults, \* whether the "-D" of the other --icc rule may fail
    MaxBoots      \* bound on the number of daemon boots

ASSUME IPs \subseteq Nat \ {0} /\ HostPorts \subseteq Nat \ {0}
ASSUME BridgeFaults \subseteq {"addip", "linkup"}
ASSUME IptablesSettings \subseteq BOOLEAN /\ ICCSettings \subseteq BOOLEAN
ASSUME MaxBoots \in Nat /\ IccDeleteFaults \in BOOLEAN
ASSUME \A c \in Containers : Cardinality(Links[c]) <= 1 /\ c \notin Links[c]

VARIABLES
    bridge,      \* the docker0 device: [exists, addr, linkUp] (kernel, survives crashes)
    nat,         \* POSTROUTING chain of the nat table, head first (kernel)
    forward,     \* FORWARD chain of the filter table, head first (kernel)
    dnat,        \* rules of the DOCKER chain: [port, ip] (kernel)
    lrules,      \* link ACCEPT rules of the FORWARD chain, a bag of [src, dst, port] (kernel)
    up,          \* the daemon runs and init_networkdriver has succeeded
    icc,         \* --icc of the running daemon
    iptables,    \* --iptables of the running daemon
    boots,       \* number of boots so far
    ipInUse,     \* ipallocator: addresses handed out
    portInUse,   \* portallocator: host ports handed out
    portmap,     \* portmapper currentMappings: host port -> container address
    ifaces,      \* currentInterfaces: id -> [ip, ports] or NoIface
    phase,       \* the caller's view of each container: "stopped", "ports", "running"
    next,        \* index of the next port binding Start asks allocate_port for
    active       \* the container's activeLinks: [child, pip, cip] as NewLink recorded them

kernel == <<bridge, nat, forward, dnat, lrules>>
memory == <<ipInUse, portInUse, portmap, ifaces, active>>
vars == <<kernel, up, icc, iptables, boots, memory, phase, next>>

Iface == [ip : IPs, ports : Seq(HostPorts)]
DnatRule == [port : HostPorts, ip : IPs]
InitRules == {"masquerade", "icc_accept", "icc_drop", "outgoing", "existing"}

\* The FORWARD rule setupIPTables installs for a value of --icc (lines 213-241).
IccRule(on) == IF on THEN "icc_accept" ELSE "icc_drop"

\* Containers whose Start has acquired the interface and not yet released it.
Holding == {c \in Containers : phase[c] \in {"ports", "linked", "running"}}

Running == {c \in Containers : phase[c] = "running"}

LinkRule == [src : IPs, dst : IPs, port : ToSet(LinkPorts)]

\* The index of the iptables call of a link job that fails, 0 for none.
FailPoints == IF LinkFaults THEN 0..2 * Len(LinkPorts) ELSE {0}

EmptyMap == [p \in {} |-> 0]

-----------------------------------------------------------------------------
(***************************************************************************)
(* init_networkdriver                                                      *)
(***************************************************************************)

\* The --iptables and --icc values a daemon boots with: both flags default
\* to true (config.go lines 49-53), and NewDaemonFromDirectory refuses
\* --iptables=false with --icc=false before the network is set up
\* (daemon.go lines 689-691).
DaemonConfigs ==
    {cf \in [iptables : IptablesSettings, icc : ICCSettings] : cf.iptables \/ cf.icc}

\* iptables.Exists then "iptables -I" of rule r into table tbl of the state s;
\* the k-th such command of setupIPTables is the one that fails when k = fail.
EnsureRule(s, tbl, r, k, fail) ==
    IF ~s.ok \/ r \in ToSet(s[tbl]) THEN s
    ELSE IF k = fail THEN [s EXCEPT !.ok = FALSE]
    ELSE [s EXCEPT ![tbl] = <<r>> \o @]

\* The value of fail for which the "-D" of the rule of the other --icc
\* polarity fails (lines 220 and 231).
DeleteFails == 5

\* The values of fail a boot may take: 0 for none, 1-4 for an insert.
SetupFailPoints == IF IccDeleteFaults THEN 0..DeleteFails ELSE 0..4

\* setupIPTables: the resulting [ok, nat, forward]. The "-D" of the rule of
\* the other --icc polarity ignores its error, so when it fails the rule
\* stays and the set-up goes on; the four inserts can fail.
SetupIPTables(on, fail) ==
    LET s0 == [ok |-> TRUE, nat |-> nat, forward |-> forward]
        s1 == EnsureRule(s0, "nat", "masquerade", 1, fail)
        s2 == IF s1.ok /\ fail # DeleteFails
                THEN [s1 EXCEPT !.forward = RemoveFirst(@, IccRule(~on))]
                ELSE s1
        s3 == EnsureRule(s2, "forward", IccRule(on), 2, fail)
        s4 == EnsureRule(s3, "forward", "outgoing", 3, fail)
    IN  EnsureRule(s4, "forward", "existing", 4, fail)

\* createBridge on the default bridge: the resulting [ok, br]. CreateBridge
\* fails when the device exists; the error of NetworkLinkAddIp is dropped
\* (line 328); NetworkLinkUp's is returned.
CreateBridge(faults) ==
    IF bridge.exists THEN [ok |-> FALSE, br |-> bridge]
    ELSE LET br == [exists |-> TRUE, addr |-> "addip" \notin faults, linkUp |-> FALSE]
         IN  IF "linkup" \in faults THEN [ok |-> FALSE, br |-> br]
             ELSE [ok |-> TRUE, br |-> [br EXCEPT !.linkUp = TRUE]]

\* A boot of the daemon runs InitDriver with the default bridge and no
\* --bip; a failed job makes the daemon exit (log.Fatal). Without
\* --iptables, setupIPTables is skipped and the DOCKER chain is removed
\* and not created again (lines 148-179).
InitDriver ==
    /\ ~up
    /\ boots < MaxBoots
    /\ \E cf \in DaemonConfigs, faults \in SUBSET BridgeFaults, fail \in SetupFailPoints :
        LET on  == cf.icc
            cb  == CreateBridge(faults)
            \* GetIfaceAddr succeeds iff the device has an address
            br  == IF bridge.addr THEN bridge ELSE cb.br
            brOk == bridge.addr \/ (cb.ok /\ cb.br.addr)
            ipt == IF cf.iptables THEN SetupIPTables(on, fail)
                   ELSE [ok |-> TRUE, nat |-> nat, forward |-> forward]
        IN  /\ bridge' = br
            /\ IF brOk
                 THEN /\ nat' = ipt.nat
                      /\ forward' = ipt.forward
                      \* RemoveExistingChain("DOCKER") then NewChain
                      /\ dnat' = IF ipt.ok THEN {} ELSE dnat
                      /\ up' = ipt.ok
                 ELSE /\ UNCHANGED <<nat, forward, dnat>>
                      /\ up' = FALSE
            /\ icc' = on
            /\ iptables' = cf.iptables
    /\ boots' = boots + 1
    /\ UNCHANGED <<lrules, memory, phase, next>>

-----------------------------------------------------------------------------
(***************************************************************************)
(* The allocators and the port mapper (spec 4.E, 4.F)                      *)
(***************************************************************************)

\* ipallocator.RequestIP: the granted address, 0 on AddressInUse or when
\* the pool is exhausted; without a request the lowest free address.
RequestIP(req) ==
    IF req # 0 THEN IF req \in ipInUse THEN 0 ELSE req
    ELSE IF IPs \subseteq ipInUse THEN 0 ELSE Min(IPs \ ipInUse)

\* The host ports portmapper.Map may be granted for a HostPort: an explicit
\* port iff it is free, otherwise any free port of the range.
MapCandidates(want) ==
    IF want # 0 THEN {want} \ portInUse ELSE HostPorts \ portInUse

\* Mutant: Unmap releases the port but leaves the DNAT rule.
UnmapAllKeepsRules(S) ==
    LET mapped == S \cap DOMAIN portmap
    IN  /\ portmap' = [p \in DOMAIN portmap \ mapped |-> portmap[p]]
        /\ dnat' = dnat
        /\ portInUse' = portInUse \ mapped

\* portmapper.Unmap of every host port in S, each reversing its mapping:
\* the DNAT rule to the mapped address goes and the port is released.
\* Ports not mapped (ErrPortNotMapped) are skipped.
UnmapAll(S) ==
    LET mapped == S \cap DOMAIN portmap
    IN  /\ portmap' = [p \in DOMAIN portmap \ mapped |-> portmap[p]]
        /\ dnat' = dnat \ {[port |-> p, ip |-> portmap[p]] : p \in mapped}
        /\ portInUse' = portInUse \ mapped

-----------------------------------------------------------------------------
(***************************************************************************)
(* The per-container jobs                                                  *)
(***************************************************************************)

\* Mutant: release_interface unmaps the ports but forgets ReleaseIP.
ReleaseInterfaceKeepsIP(c) ==
    IF ifaces[c] = NoIface
      THEN UNCHANGED <<portmap, dnat, portInUse, ipInUse>>
      ELSE /\ UnmapAll(ToSet(ifaces[c].ports))
           /\ ipInUse' = ipInUse

\* Release (release_interface): unmap every port of the record, release its
\* address. The record stays in currentInterfaces. Without a record the job
\* fails and changes nothing.
ReleaseInterface(c) ==
    IF ifaces[c] = NoIface
      THEN UNCHANGED <<portmap, dnat, portInUse, ipInUse>>
      ELSE /\ UnmapAll(ToSet(ifaces[c].ports))
           /\ ipInUse' = ipInUse \ {ifaces[c].ip}

\* Mutant: Allocate updates the address of an existing record instead of
\* setting a fresh one, keeping the PortMappings of the container's last run.
AllocateReusesRecord(c) ==
    /\ up
    /\ phase[c] = "stopped"
    /\ LET ip == RequestIP(RequestedIP[c])
       IN  /\ ip # 0
           /\ ipInUse' = ipInUse \cup {ip}
           /\ ifaces' = [ifaces EXCEPT ![c] =
                           IF @ = NoIface THEN [ip |-> ip, ports |-> <<>>]
                           ELSE [@ EXCEPT !.ip = ip]]
    /\ phase' = [phase EXCEPT ![c] = "ports"]
    /\ next' = [next EXCEPT ![c] = 1]
    /\ UNCHANGED <<kernel, up, icc, iptables, boots, portInUse, portmap, active>>

\* Start acquires the interface (Allocate, allocate_interface). A failed
\* RequestIP fails Start with nothing acquired: a stuttering step.
Allocate(c) ==
    /\ up
    /\ phase[c] = "stopped"
    /\ LET ip == RequestIP(RequestedIP[c])
       IN  /\ ip # 0
           /\ ipInUse' = ipInUse \cup {ip}
           /\ ifaces' = [ifaces EXCEPT ![c] = [ip |-> ip, ports |-> <<>>]]
    /\ phase' = [phase EXCEPT ![c] = "ports"]
    /\ next' = [next EXCEPT ![c] = 1]
    /\ UNCHANGED <<kernel, up, icc, iptables, boots, portInUse, portmap, active>>

\* Mutant: the record keeps the binding's HostPort, not the granted one.
AllocatePortRecordsRequested(c) ==
    /\ up
    /\ phase[c] = "ports"
    /\ next[c] <= Len(Bindings[c])
    /\ LET want == Bindings[c][next[c]]
           ip   == ifaces[c].ip
       IN  \/ \E p \in MapCandidates(want) :
                 /\ portInUse' = portInUse \cup {p}
                 /\ portmap' = portmap @@ (p :> ip)
                 /\ dnat' = IF iptables THEN dnat \cup {[port |-> p, ip |-> ip]} ELSE dnat
                 /\ ifaces' = [ifaces EXCEPT ![c].ports = Append(@, want)]
                 /\ next' = [next EXCEPT ![c] = @ + 1]
                 /\ UNCHANGED <<phase, ipInUse>>
           \/ /\ MapCandidates(want) = {}
              /\ ReleaseInterface(c)
              /\ phase' = [phase EXCEPT ![c] = "stopped"]
              /\ UNCHANGED <<ifaces, next>>
    /\ UNCHANGED <<bridge, nat, forward, lrules, up, icc, iptables, boots, active>>

\* Start asks allocate_port for its next binding (AllocatePort). On success
\* the host port is mapped to the container address and appended to the
\* record; on failure Start rolls back with release_interface.
AllocatePort(c) ==
    /\ up
    /\ phase[c] = "ports"
    /\ next[c] <= Len(Bindings[c])
    /\ LET want == Bindings[c][next[c]]
           ip   == ifaces[c].ip
       IN  \/ \E p \in MapCandidates(want) :
                 /\ portInUse' = portInUse \cup {p}
                 /\ portmap' = portmap @@ (p :> ip)
                 /\ dnat' = IF iptables THEN dnat \cup {[port |-> p, ip |-> ip]} ELSE dnat
                 /\ ifaces' = [ifaces EXCEPT ![c].ports = Append(@, p)]
                 /\ next' = [next EXCEPT ![c] = @ + 1]
                 /\ UNCHANGED <<phase, ipInUse>>
           \/ /\ MapCandidates(want) = {}
              /\ ReleaseInterface(c)
              /\ phase' = [phase EXCEPT ![c] = "stopped"]
              /\ UNCHANGED <<ifaces, next>>
    /\ UNCHANGED <<bridge, nat, forward, lrules, up, icc, iptables, boots, active>>

-----------------------------------------------------------------------------
(***************************************************************************)
(* Links                                                                   *)
(***************************************************************************)

\* The rules the link job toggles for a parent and a child address, in the
\* order of its loop (lines 500-525): for each port, parent to child on the
\* destination port, then child to parent from the source port.
LinkRules(pip, cip) ==
    [k \in 1..2 * Len(LinkPorts) |->
        LET port == LinkPorts[(k + 1) \div 2]
        IN  IF k % 2 = 1 THEN [src |-> pip, dst |-> cip, port |-> port]
                         ELSE [src |-> cip, dst |-> pip, port |-> port]]

\* Mutant: the loop stops one iptables call early.
RECURSIVE ToggleStopsEarly(_, _, _, _, _, _)
ToggleStopsEarly(b, rs, k, action, ignore, fail) ==
    IF k >= Len(rs) THEN [ok |-> TRUE, rules |-> b]
    ELSE LET r   == rs[k]
             err == k = fail \/ (action = "-D" /\ r \notin DOMAIN b)
         IN  IF err /\ ~ignore THEN [ok |-> FALSE, rules |-> b]
             ELSE ToggleStopsEarly(IF err THEN b
                                   ELSE IF action = "-I" THEN BagAdd(b, r) ELSE BagRemove(b, r),
                                   rs, k + 1, action, ignore, fail)

\* iptables.Raw(action, "FORWARD", ...) for the rules rs from the k-th on,
\* over the chain's link rules b: -I adds a copy of the rule, -D removes
\* one and fails when there is none; the call numbered fail fails. A
\* failure returns the job's error unless ignoreErrors (iptables.Raw
\* returns no output with its error, so the output test never fires).
\* [ok, rules].
RECURSIVE Toggle(_, _, _, _, _, _)
Toggle(b, rs, k, action, ignore, fail) ==
    IF k > Len(rs) THEN [ok |-> TRUE, rules |-> b]
    ELSE LET r   == rs[k]
             err == k = fail \/ (action = "-D" /\ r \notin DOMAIN b)
         IN  IF err /\ ~ignore THEN [ok |-> FALSE, rules |-> b]
             ELSE Toggle(IF err THEN b
                         ELSE IF action = "-I" THEN BagAdd(b, r) ELSE BagRemove(b, r),
                         rs, k + 1, action, ignore, fail)

\* LinkContainers (lines 487-527) with its job's arguments.
LinkContainers(b, action, pip, cip, ignore, fail) ==
    Toggle(b, LinkRules(pip, cip), 1, action, ignore, fail)

\* Link.Disable of every active link of c: the link job with "-D" and
\* IgnoreErrors, whose calls may fail and are then skipped.
DisableAll(c, fail) ==
    IF active[c] = {} THEN lrules
    ELSE LET l == CHOOSE l \in active[c] : TRUE
         IN  LinkContainers(lrules, "-D", l.pip, l.cip, TRUE, fail).rules

\* Start's setupLinkedContainers, once every binding is mapped: a child
\* that is not running fails the start; otherwise the link, with both
\* addresses as they are now, goes into activeLinks and is enabled with
\* "-I". If that fails, the active links are disabled and Start's cleanup
\* releases the interface.
EnableLinks(c) ==
    /\ up
    /\ phase[c] = "ports"
    /\ next[c] > Len(Bindings[c])
    /\ \E fail, undo \in FailPoints :
        LET ls  == {[child |-> d, pip |-> ifaces[c].ip, cip |-> ifaces[d].ip] : d \in Links[c]}
            en  == IF ls = {} THEN [ok |-> TRUE, rules |-> lrules]
                   ELSE LET l == CHOOSE l \in ls : TRUE
                        IN  LinkContainers(lrules, "-I", l.pip, l.cip, FALSE, fail)
            rb  == IF ls = {} THEN lrules
                   ELSE LET l == CHOOSE l \in ls : TRUE
                        IN  LinkContainers(en.rules, "-D", l.pip, l.cip, TRUE, undo).rules
        IN  IF Links[c] \subseteq Running /\ en.ok
              THEN /\ lrules' = en.rules
                   /\ active' = [active EXCEPT ![c] = ls]
                   /\ phase' = [phase EXCEPT ![c] = "linked"]
                   /\ UNCHANGED <<portmap, dnat, portInUse, ipInUse>>
              ELSE /\ lrules' = IF Links[c] \subseteq Running THEN rb ELSE lrules
                   /\ ReleaseInterface(c)
                   /\ phase' = [phase EXCEPT ![c] = "stopped"]
                   /\ UNCHANGED active
    /\ UNCHANGED <<bridge, nat, forward, up, icc, iptables, boots, ifaces, next>>

-----------------------------------------------------------------------------

\* The links are set up: the exec driver runs the container.
Run(c) ==
    /\ up
    /\ phase[c] = "linked"
    /\ phase' = [phase EXCEPT ![c] = "running"]
    /\ UNCHANGED <<kernel, up, icc, iptables, boots, memory, next>>

\* The container process exits; its cleanup releases the interface and
\* disables its active links.
Exit(c) ==
    /\ up
    /\ phase[c] = "running"
    /\ ReleaseInterface(c)
    /\ \E fail \in FailPoints : lrules' = DisableAll(c, fail)
    /\ active' = [active EXCEPT ![c] = {}]
    /\ phase' = [phase EXCEPT ![c] = "stopped"]
    /\ UNCHANGED <<bridge, nat, forward, up, icc, iptables, boots, ifaces, next>>

\* The daemon dies: its memory and its containers' processes are gone, the
\* bridge device and the iptables rules stay.
Crash ==
    /\ up
    /\ up' = FALSE
    /\ ipInUse' = {}
    /\ portInUse' = {}
    /\ portmap' = EmptyMap
    /\ ifaces' = [c \in Containers |-> NoIface]
    /\ active' = [c \in Containers |-> {}]
    /\ phase' = [c \in Containers |-> "stopped"]
    /\ UNCHANGED <<kernel, icc, iptables, boots, next>>

Init ==
    /\ bridge = [exists |-> FALSE, addr |-> FALSE, linkUp |-> FALSE]
    /\ nat = <<>>
    /\ forward = <<>>
    /\ dnat = {}
    /\ lrules = EmptyBag
    /\ up = FALSE
    /\ icc = TRUE
    /\ iptables = TRUE
    /\ boots = 0
    /\ ipInUse = {}
    /\ portInUse = {}
    /\ portmap = EmptyMap
    /\ ifaces = [c \in Containers |-> NoIface]
    /\ phase = [c \in Containers |-> "stopped"]
    /\ next = [c \in Containers |-> 1]
    /\ active = [c \in Containers |-> {}]

Next ==
    \/ InitDriver
    \/ Crash
    \/ \E c \in Containers :
          Allocate(c) \/ AllocatePort(c) \/ EnableLinks(c) \/ Run(c) \/ Exit(c)

Spec == Init /\ [][Next]_vars

-----------------------------------------------------------------------------
(***************************************************************************)
(* Properties                                                              *)
(***************************************************************************)

TypeOK ==
    /\ bridge \in [exists : BOOLEAN, addr : BOOLEAN, linkUp : BOOLEAN]
    /\ nat \in Seq(InitRules) /\ forward \in Seq(InitRules)
    /\ dnat \subseteq DnatRule
    /\ up \in BOOLEAN /\ icc \in BOOLEAN /\ iptables \in BOOLEAN /\ boots \in 0..MaxBoots
    /\ ipInUse \subseteq IPs /\ portInUse \subseteq HostPorts
    /\ DOMAIN portmap \subseteq HostPorts /\ \A p \in DOMAIN portmap : portmap[p] \in IPs
    /\ ifaces \in [Containers -> Iface \cup {NoIface}]
    /\ phase \in [Containers -> {"stopped", "ports", "linked", "running"}]
    /\ next \in [Containers -> Nat]
    /\ IsABag(lrules) /\ BagToSet(lrules) \subseteq LinkRule
    /\ active \in [Containers -> SUBSET [child : Containers, pip : IPs, cip : IPs]]

\* Address ownership across Start, its rollback, exit and daemon restarts:
\* the IP allocator's in-use set is exactly the addresses of the containers
\* holding an interface, and no two of them hold the same address. Broken
\* if release_interface frees an address still held, or keeps one freed.
IPOwnership ==
    up => /\ ipInUse = {ifaces[c].ip : c \in Holding}
          /\ \A c, d \in Holding : c # d => ifaces[c].ip # ifaces[d].ip

\* Spec 8.4: every port mapping in a container's network record has exactly
\* one DNAT rule in the DOCKER chain, to that container's address, and the
\* chain has no other rule; this must survive a crash, whose rules stay in
\* the kernel, and the re-initialisation of the driver, also by a daemon booted with
\* --iptables=false in between (which removes the DOCKER chain).
DnatMatchesMappings ==
    up /\ iptables =>
       /\ dnat = UNION {{[port |-> p, ip |-> ifaces[c].ip] : p \in ToSet(ifaces[c].ports)} :
                       c \in Holding}
       /\ \A r, s \in dnat : r.port = s.port => r = s

\* createBridge's comment: it creates the bridge "and attempts to configure
\* it with an address ... If it can't find an address ... it will return an
\* error". A bridge device the daemon created always carries an address;
\* otherwise GetIfaceAddr fails on every later boot, createBridge is tried
\* again, CreateBridge fails because the device exists, and the daemon can
\* never start again.
BridgeAddressed ==
    bridge.exists => bridge.addr

\* Spec 4.G ("link: adds/removes two directional FORWARD rules allowing
\* parent<->child"): across link jobs failing half way and their rollback,
\* exits and crashes, while a container's link is active the FORWARD chain
\* holds both rules of every port between the addresses the link recorded.
ActiveLinksHaveRules ==
    up => \A c \in Containers : \A l \in active[c], port \in ToSet(LinkPorts) :
            /\ [src |-> l.pip, dst |-> l.cip, port |-> port] \in DOMAIN lrules
            /\ [src |-> l.cip, dst |-> l.pip, port |-> port] \in DOMAIN lrules

-----------------------------------------------------------------------------
(***************************************************************************)
(* Refinement: the driver and its caller implement NetworkLeases. A        *)
(* container holds the lease of its record, with the record's host ports, *)
(* from allocate_interface until release_interface, the rollback of a      *)
(* failed Start, or a crash.                                               *)
(***************************************************************************)

LeaseOf(c) ==
    IF c \in Holding THEN [ip |-> ifaces[c].ip, ports |-> ToSet(ifaces[c].ports)]
    ELSE NoIface

Leases == INSTANCE NetworkLeases WITH lease <- [c \in Containers |-> LeaseOf(c)],
                                    NoLease <- NoIface

\* Every step of allocate_interface, allocate_port, release_interface, the
\* caller's rollback and exit, init_networkdriver and a crash is a step of
\* NetworkLeases or leaves the leases alone: an address or port is leased
\* only when free, a new lease starts with no ports, and leases are given
\* back whole. Broken by a record that carries ports from a previous run,
\* or by an allocator that hands out what another container holds.
LeaseRefinement == Leases!Spec

=============================================================================
