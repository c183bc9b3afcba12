--------------------------------- MODULE Net ---------------------------------
(***************************************************************************)
(* The network below the sockets, put together: the Ethernet driver, the   *)
(* protocol queues and software interrupt of kernel/net/net.c and          *)
(* kernel/trap.c, ARP, IP with ICMP echo, and UDP.  There is one CPU.      *)
(* Interrupt handlers run with interrupts off: only the controller acts    *)
(* between their steps.  A process is interrupted anywhere, except while   *)
(* it holds a spinlock.                                                    *)
(*                                                                         *)
(* The hardware address of the host with address h is h, and hosts tell    *)
(* the truth about it.                                                     *)
(***************************************************************************)
EXTENDS Designware, Arp, Ip, Udp

CONSTANTS
  Wire,      \* frames other hosts send
  Dst,       \* addresses processes send to
  BindAddr,  \* addresses processes bind
  MaxRx,     \* bound: frames that come in
  MaxSend    \* bound: calls of sendto()

ASSUME NetConstants == MaxRx \in Nat /\ MaxSend \in Nat

VARIABLES
  cpu,      \* what the CPU runs, and the status eth_intr() has read
  protoq,   \* the input queues of the two protocols
  pending,  \* SOFT_IRQ_NET_RX
  nrx, nsend

vars == <<dwVars, caches, ipVars, udpVars, cpu, protoq, pending, nrx, nsend>>

\* A frame: its type, hardware destination, protocol addresses of sender and
\* target, port, and, when it leaves here, the next hop it is meant for.
Frame(type, hw, spa, pa, port, hop) ==
  [type |-> type, hw |-> hw, spa |-> spa, pa |-> pa, port |-> port, hop |-> hop]
HwBroadcast == BROADCAST

Running(what) == [at |-> what, seen |-> {}]
Process == cpu.at = "process"

Init ==
  /\ DwInit /\ caches = <<>> /\ IpInit /\ UdpInit
  /\ cpu = Running("process")
  /\ protoq = [arp |-> <<>>, ip |-> <<>>]
  /\ pending = FALSE /\ nrx = 0 /\ nsend = 0

-----------------------------------------------------------------------------
(* Output *)

\* net_device_output(), ether_transmit_helper() and eth_net_write()
Transmit(f) ==
  /\ IF up THEN _dw_eth_send(f) ELSE UNCHANGED <<tx, held, panicked>>
  /\ UNCHANGED <<rx, status>>

\* ip_output(): there is a route, and the source is its interface's address.
CanRoute(src, dst) == Candidates(dst) # {} /\ src = iface.unicast

\* ip_output_device() and arp_resolve(): the frame that goes out, which is a
\* request when the next hop is not resolved, and the cache after it.
IsBroadcast(hop) == hop \in {broadcast, BROADCAST}
Outgoing(type, dst, hop) ==
  IF IsBroadcast(hop) THEN Frame(type, HwBroadcast, iface.unicast, dst, 0, hop)
  ELSE IF Resolved(caches, hop)
  THEN Frame(type, EntryOf(caches, hop).ha, iface.unicast, dst, 0, hop)
  ELSE Frame("ARP_REQUEST", HwBroadcast, iface.unicast, hop, 0, ANY)
Looked(hop) == IF IsBroadcast(hop) THEN caches ELSE Resolving(caches, hop)

-----------------------------------------------------------------------------
(* Interrupts *)

\* eth_intr() reads the status.
eth_intr ==
  /\ Process /\ status # {}
  /\ cpu' = [at |-> "eth_intr", seen |-> status]
  /\ UNCHANGED <<dwVars, caches, ipVars, udpVars, protoq, pending, nrx, nsend>>

\* ether_input_helper(): for this host, or a broadcast
ForMe(f) == f.hw \in {Me, HwBroadcast}

\* net_input_handler(): one more packet on the queue of its protocol
Queued(f) ==
  IF f.type \in {"ARP_REQUEST", "ARP_REPLY"}
  THEN [protoq EXCEPT !.arp = Append(@, f)] ELSE [protoq EXCEPT !.ip = Append(@, f)]

\* eth_intr_rx_packets(), ether_input_helper() and eth_net_read() take one
\* frame.  Without memory for it, or when it is too long, it stays.
eth_intr_rx_packets ==
  /\ cpu.at = "eth_intr"
  /\ cpu' = [cpu EXCEPT !.at = "eth_intr_end"]
  /\ IF "RI" \notin cpu.seen THEN UNCHANGED <<dwVars, protoq, pending>>
     ELSE IF held THEN panicked' = TRUE /\ UNCHANGED <<tx, rx, status, held, protoq, pending>>
     ELSE
       /\ pending' = TRUE
       /\ \/ UNCHANGED <<rx, protoq>>
          \/ /\ RxFull /\ RxFrame.type # "LONG"
             /\ _dw_free_pkt
             /\ \/ protoq' = protoq
                \/ ForMe(RxFrame) /\ protoq' = Queued(RxFrame)
       /\ UNCHANGED <<tx, status, held, panicked>>
  /\ UNCHANGED <<caches, ipVars, udpVars, nrx, nsend>>

\* It clears the bits it has read.
eth_intr_end ==
  /\ cpu.at = "eth_intr_end"
  /\ status' = status \ cpu.seen
  /\ cpu' = Running("process")
  /\ UNCHANGED <<tx, rx, held, panicked, caches, ipVars, udpVars, protoq, pending, nrx, nsend>>

\* softintr() and net_softirq_handler(), which empties the ARP queue first
softintr ==
  /\ Process /\ pending
  /\ pending' = FALSE
  /\ cpu' = Running("softintr")
  /\ UNCHANGED <<dwVars, caches, ipVars, udpVars, protoq, nrx, nsend>>
Emptied_First == protoq.arp = <<>>
Emptied == protoq.arp = <<>> /\ protoq.ip = <<>>
softintr_end ==
  /\ cpu.at = "softintr" /\ Emptied
  /\ cpu' = Running("process")
  /\ UNCHANGED <<dwVars, caches, ipVars, udpVars, protoq, pending, nrx, nsend>>

\* arp_input(): merge the sender's address, and answer a request for ours.
arp_input ==
  LET f == Head(protoq.arp)
      forme == iface # NoIface /\ f.pa = iface.unicast IN
  /\ cpu.at = "softintr" /\ protoq.arp # <<>>
  /\ protoq' = [protoq EXCEPT !.arp = Tail(@)]
  /\ caches' = Merged(caches, f.spa, f.spa, forme)
  /\ IF forme /\ f.type = "ARP_REQUEST"
     THEN Transmit(Frame("ARP_REPLY", f.spa, iface.unicast, f.spa, 0, ANY))
     ELSE UNCHANGED dwVars
  /\ UNCHANGED <<ipVars, udpVars, cpu, pending, nrx, nsend>>

\* icmp_input() and icmp_output() through ip_output(), to the sender
icmp_echo(src) ==
  IF ~CanRoute(iface.unicast, src) THEN UNCHANGED <<dwVars, caches>>
  ELSE /\ Transmit(Outgoing("ECHOREPLY", src, Nexthop(src)))
       /\ caches' = Looked(Nexthop(src))

\* ip_input(): for this host, or a broadcast
ip_input ==
  LET f == Head(protoq.ip)
      forme == iface # NoIface /\ f.pa \in {iface.unicast, broadcast, BROADCAST} IN
  /\ cpu.at = "softintr" /\ protoq.arp = <<>> /\ protoq.ip # <<>>
  /\ protoq' = [protoq EXCEPT !.ip = Tail(@)]
  /\ IF forme /\ f.type = "UDP" THEN udp_input(f.pa, f.port) ELSE UNCHANGED udpVars
  /\ IF forme /\ f.type = "ECHO" THEN icmp_echo(f.spa) ELSE UNCHANGED <<dwVars, caches>>
  /\ UNCHANGED <<ipVars, cpu, pending, nrx, nsend>>

\* clockintr() runs arp_timer_handler().
timer ==
  /\ Process
  /\ arp_timer
  /\ UNCHANGED <<dwVars, ipVars, udpVars, cpu, protoq, pending, nrx, nsend>>

-----------------------------------------------------------------------------
(* Processes *)

\* sendto(): sys_sendto(), socket_sendto() and udp_sendto()
sendto(p) ==
  /\ Process /\ nsend < MaxSend /\ nsend' = nsend + 1
  /\ \E dst \in Dst :
       /\ udp_sendto(p, dst, iface.unicast)
       /\ pcbs[sock[p]].addr # ANY \/ Candidates(dst) # {}
  /\ UNCHANGED <<dwVars, caches, ipVars, cpu, protoq, pending, nrx>>

\* udp_output() and ip_output()
ip_output(p) ==
  LET c == call[p] IN
  /\ Process /\ c.pc = "route"
  /\ call' = [call EXCEPT ![p] =
       IF CanRoute(c.src, c.dst) THEN [pc |-> "resolve", dst |-> c.dst, hop |-> Nexthop(c.dst)] ELSE Idle]
  /\ UNCHANGED <<dwVars, caches, ipVars, pcbs, sock, cpu, protoq, pending, nrx, nsend>>

\* ip_output_core(), ip_output_device() and arp_resolve()
ip_output_device(p) ==
  LET c == call[p] IN
  /\ Process /\ c.pc = "resolve"
  /\ call' = [call EXCEPT ![p] = [pc |-> "transmit", frame |-> Outgoing("UDP", c.dst, c.hop)]]
  /\ caches' = Looked(c.hop)
  /\ UNCHANGED <<dwVars, ipVars, pcbs, sock, cpu, protoq, pending, nrx, nsend>>

net_device_output(p) ==
  /\ Process /\ call[p].pc = "transmit"
  /\ Transmit(call[p].frame)
  /\ call' = [call EXCEPT ![p] = Idle]
  /\ UNCHANGED <<caches, ipVars, pcbs, sock, cpu, protoq, pending, nrx, nsend>>

\* memory_alloc() fails in one of them.
nomem(p) ==
  /\ Process /\ call[p].pc \in {"route", "resolve", "transmit"}
  /\ call' = [call EXCEPT ![p] = Idle]
  /\ UNCHANGED <<dwVars, caches, ipVars, pcbs, sock, cpu, protoq, pending, nrx, nsend>>

socket(p) ==
  /\ Process
  /\ \/ udp_open(p)
     \/ \E addr \in BindAddr, port \in Ports : udp_bind(p, addr, port)
     \/ udp_recvfrom(p)
     \/ udp_close(p)
  /\ UNCHANGED <<dwVars, caches, ipVars, cpu, protoq, pending, nrx, nsend>>

\* sys_ioctl() and socket_ioctl()
ioctl ==
  /\ Process
  /\ ioctl_addr \/ ioctl_netmask \/ ioctl_flags
  /\ UNCHANGED <<dwVars, caches, udpVars, cpu, protoq, pending, nrx, nsend>>

\* sched() finds noff # 1 when a process gives up the CPU with the lock.
sched ==
  /\ Process /\ held
  /\ panicked' = TRUE
  /\ UNCHANGED <<tx, rx, status, held, caches, ipVars, udpVars, cpu, protoq, pending, nrx, nsend>>

\* The controller
receive ==
  /\ nrx < MaxRx /\ nrx' = nrx + 1
  /\ \E f \in Wire : dma_receive(f)
  /\ UNCHANGED <<caches, ipVars, udpVars, cpu, protoq, pending, nsend>>
transmit ==
  /\ dma_transmit
  /\ UNCHANGED <<caches, ipVars, udpVars, cpu, protoq, pending, nrx, nsend>>

Interrupt ==
  eth_intr \/ eth_intr_rx_packets \/ eth_intr_end \/ softintr \/ softintr_end \/ arp_input \/ ip_input

\* A kernel that has panicked stops.
Next ==
  /\ ~panicked
  /\ \/ Interrupt \/ timer \/ ioctl \/ sched \/ receive \/ transmit
     \/ \E p \in Proc :
          \/ sendto(p) \/ ip_output(p) \/ ip_output_device(p) \/ net_device_output(p) \/ nomem(p)
          \/ socket(p)

Spec == Init /\ [][Next]_vars

\* An interrupt that is pending is taken.
FairSpec == Spec /\ WF_vars(~panicked /\ Interrupt)

-----------------------------------------------------------------------------
(* Properties *)

TypeOK ==
  /\ tx.cur \in 0..TXNUM - 1 /\ tx.hw \in 0..TXNUM - 1
  /\ rx.cur \in 0..RXNUM - 1 /\ rx.hw \in 0..RXNUM - 1
  /\ status \subseteq {"RI", "RU"} /\ held \in BOOLEAN /\ panicked \in BOOLEAN
  /\ Len(caches) <= ARP_CACHE_SIZE
  /\ sock \in [Proc -> Pcb \cup {NoPcb}]
  /\ cpu.at \in {"process", "eth_intr", "eth_intr_end", "softintr"}
  /\ pending \in BOOLEAN

\* One step on a queue: nothing, the first leaves, or one more is last.
QueueStep(q, r) ==
  \/ r = q
  \/ q # <<>> /\ r = Tail(q)
  \/ r # <<>> /\ q = SubSeq(r, 1, Len(r) - 1)

\* Both rings keep frames and their order.  Sending, from processes and
\* interrupts while the controller empties the ring, never writes over a
\* descriptor that still waits or leaves a gap the controller would stop at
\* (_dw_eth_send()); receiving frees the descriptor it has read and goes on to
\* the oldest frame left (_dw_eth_recv(), _dw_free_pkt()).
RingsAreQueues ==
  [][QueueStep(TxContents, TxContents') /\ QueueStep(RxContents, RxContents')]_<<tx, rx>>

\* An IP frame to one host goes to the hardware address of its next hop, also
\* when the cache entry is still incomplete, expires or is taken over between
\* ip_output() and the transmission (arp_resolve(), ip_output_device()).
AddressedRight ==
  \A i \in 0..TXNUM - 1 :
    LET f == tx.desc[i].frame IN
    tx.desc[i].own = "dma" /\ f.type \in {"UDP", "ECHOREPLY"} => f.hw \in {f.hop, HwBroadcast}

\* No protocol address is in the ARP cache twice, though arp_resolve() and
\* arp_input() both make entries.
ArpUnique ==
  \A i, j \in 1..Len(caches) : caches[i].pa = caches[j].pa => i = j


\* No two sockets have the same address and port, whether bind() or the first
\* sendto() gave it (udp_bind(), udp_sendto()).
PortUnique ==
  \A i, j \in Pcb :
    pcbs[i].open /\ pcbs[j].open /\ pcbs[i].port # 0
      /\ pcbs[i].addr = pcbs[j].addr /\ pcbs[i].port = pcbs[j].port => i = j

\* A control block belongs to one socket, and a free one keeps no datagram or
\* port for the next to find (udp_pcb_alloc(), udp_pcb_release()).
NoLeftovers ==
  \A i \in Pcb :
    /\ pcbs[i].open => \E p \in Proc : sock[p] = i /\ \A q \in Proc \ {p} : sock[q] # i
    /\ ~pcbs[i].open => pcbs[i] = Free /\ \A p \in Proc : sock[p] # i

\* The tables below the sockets stay unambiguous, whatever processes, timer
\* and software interrupt do to them: one ARP entry for an address, one socket
\* for a port, one owner for a control block.
NetInv == TypeOK /\ ArpUnique /\ PortUnique /\ NoLeftovers

\* No process sleeps in recvfrom() with a datagram queued for it (udp_input()
\* in the software interrupt against udp_recvfrom()).
NoLostWakeup ==
  \A p \in Proc : call[p].pc = "asleep" => pcbs[sock[p]].queue = <<>>

\* What the driver has queued, the software interrupt handles: the queues are
\* empty again and again (net_softirq_handler(), softintr()).
Drained == []<>(protoq = [arp |-> <<>>, ip |-> <<>>] \/ panicked)
==============================================================================
