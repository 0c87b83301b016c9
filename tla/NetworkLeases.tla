---------------------------- MODULE NetworkLeases ----------------------------
(***************************************************************************)
(* What the network driver promises its callers (spec 4.G, 8.4), without   *)
(* allocators, port mapper, iptables or the daemon's restarts: a container *)
(* holds at most one lease, an address and a set of host ports; no two     *)
(* leases share an address or a port; a lease is taken whole and given    *)
(* back whole; a daemon crash drops every lease.                           *)
(***************************************************************************)
CONSTANTS
    Containers,   \* container ids
    IPs,          \* addresses of the bridge network
    HostPorts,    \* host ports
    NoLease       \* a container holding no lease

VARIABLE lease    \* lease[c]: [ip, ports] or NoLease

Leased == {c \in Containers : lease[c] # NoLease}

LeasedIPs == {lease[c].ip : c \in Leased}

LeasedPorts == UNION {lease[c].ports : c \in Leased}

Init == lease = [c \in Containers |-> NoLease]

\* allocate_interface: a free address, no ports yet.
Acquire(c, ip) ==
    /\ lease[c] = NoLease
    /\ ip \notin LeasedIPs
    /\ lease' = [lease EXCEPT ![c] = [ip |-> ip, ports |-> {}]]

\* allocate_port: a free host port joins the container's lease.
AddPort(c, p) ==
    /\ lease[c] # NoLease
    /\ p \notin LeasedPorts
    /\ lease' = [lease EXCEPT ![c].ports = @ \cup {p}]

\* release_interface: the whole lease is given back.
Release(c) ==
    /\ lease[c] # NoLease
    /\ lease' = [lease EXCEPT ![c] = NoLease]

\* The daemon dies: nobody holds a lease any more.
Reset ==
    /\ Leased # {}
    /\ lease' = [c \in Containers |-> NoLease]

Next ==
    \/ \E c \in Containers :
          \/ \E ip \in IPs : Acquire(c, ip)
          \/ \E p \in HostPorts : AddPort(c, p)
          \/ Release(c)
    \/ Reset

Spec == Init /\ [][Next]_lease

=============================================================================
