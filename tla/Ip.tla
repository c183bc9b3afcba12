--------------------------------- MODULE Ip ----------------------------------
(***************************************************************************)
(* Addresses and routes of kernel/net/ip.c for the one interface of the    *)
(* board, and the ioctl requests of kernel/net/socket.c that set them up.  *)
(* An address has WIDTH bits and a netmask is a number of leading bits.    *)
(***************************************************************************)
EXTENDS Integers, Sequences

CONSTANTS
  WIDTH,        \* bits of an address
  Me,           \* the address ifconfig gives the interface
  MASKLEN,      \* the netmask it gives
  Gateway,      \* the gateway in SIOCSIFNETMASK
  MaxConfig     \* bound: ioctl requests that set an address or a netmask

ASSUME IpConstants ==
  /\ WIDTH \in Nat \ {0} /\ MASKLEN \in 0..WIDTH /\ MaxConfig \in Nat
  /\ Me \in 1..2^WIDTH - 2 /\ Gateway \in 1..2^WIDTH - 2

ANY == 0
BROADCAST == 2^WIDTH - 1

VARIABLES
  iface,     \* the IP interface, or its absence
  up,        \* NET_DEVICE_FLAG_UP
  routes,    \* the list of routes, the last one added first
  configs    \* the requests so far, in order

ipVars == <<iface, up, routes, configs>>

NoIface == [unicast |-> ANY, masklen |-> WIDTH]
Masked(a, n) == a - (a % 2^(WIDTH - n))
Route(i, hop) == [network |-> Masked(i.unicast, i.masklen), masklen |-> i.masklen, nexthop |-> hop]
broadcast == Masked(iface.unicast, iface.masklen) + 2^(WIDTH - iface.masklen) - 1

\* netrun(): the device is open, the interface comes with the first ioctl.
IpInit == iface = NoIface /\ up = TRUE /\ routes = <<>> /\ configs = <<>>

Follows(r, i) == [r EXCEPT !.network = Masked(i.unicast, i.masklen), !.masklen = i.masklen]
ip_iface_reconfigure(i) == [k \in 1..Len(routes) |-> Follows(routes[k], i)]

\* SIOCSIFADDR
ioctl_addr ==
  LET i == [iface EXCEPT !.unicast = Me] IN
  /\ Len(configs) < MaxConfig /\ configs' = Append(configs, "addr")
  /\ iface' = i
  /\ routes' = IF iface = NoIface THEN <<Route(i, ANY)>> \o routes ELSE ip_iface_reconfigure(i)
  /\ UNCHANGED up

\* SIOCSIFNETMASK, which adds the default route each time
ioctl_netmask ==
  LET i == [iface EXCEPT !.masklen = MASKLEN] IN
  /\ iface # NoIface
  /\ Len(configs) < MaxConfig /\ configs' = Append(configs, "netmask")
  /\ iface' = i
  /\ routes' = <<[network |-> ANY, masklen |-> 0, nexthop |-> Gateway]>> \o ip_iface_reconfigure(i)
  /\ UNCHANGED up

\* SIOCSIFFLAGS
ioctl_flags == up' = ~up /\ UNCHANGED <<iface, routes, configs>>

\* ip_route_lookup(): the longest mask, the first in the list among equals.
Matches(r, dst) == Masked(dst, r.masklen) = r.network
Longer(a, b) == a.masklen < b.masklen
Candidates(dst) == {k \in 1..Len(routes) : Matches(routes[k], dst)}
ip_route_lookup(dst) ==
  CHOOSE k \in Candidates(dst) : \A j \in Candidates(dst) \ {k} :
    IF j < k THEN Longer(routes[j], routes[k]) ELSE ~Longer(routes[k], routes[j])

\* The next hop ip_output() takes, where there is a route.
Nexthop(dst) ==
  LET r == routes[ip_route_lookup(dst)] IN IF r.nexthop # ANY THEN r.nexthop ELSE dst
==============================================================================
