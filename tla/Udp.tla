--------------------------------- MODULE Udp ---------------------------------
(***************************************************************************)
(* The control blocks of kernel/net/udp.c, with the socket calls of        *)
(* kernel/syssocket.c and kernel/net/socket.c that reach them.  A process  *)
(* has at most one socket; of a datagram only its address and port matter. *)
(* udp's mutex is a spinlock: what is done under it is one step.           *)
(***************************************************************************)
EXTENDS Integers, Sequences

CONSTANTS
  Proc,       \* processes
  NPCB,       \* UDP_PCB_SIZE
  Ports,      \* ports a process binds
  Ephemeral,  \* UDP_SOURCE_PORT_MIN..UDP_SOURCE_PORT_MAX
  MaxQueue    \* bound: datagrams in a receive queue when memory runs out

ASSUME UdpConstants ==
  /\ NPCB \in Nat \ {0} /\ MaxQueue \in Nat
  /\ Ports \subseteq Nat \ {0} /\ Ephemeral \subseteq Nat \ {0}

Pcb == 1..NPCB
NoPcb == 0

VARIABLES
  pcbs,    \* state, local address and port, receive queue
  sock,    \* the control block of a process's socket
  call     \* where a process is in sendto() or recvfrom()

udpVars == <<pcbs, sock, call>>

Idle == [pc |-> "idle"]
Free == [open |-> FALSE, addr |-> 0, port |-> 0, queue |-> <<>>]

UdpInit ==
  /\ pcbs = [i \in Pcb |-> Free]
  /\ sock = [p \in Proc |-> NoPcb]
  /\ call = [p \in Proc |-> Idle]

\* A system call can start on the process's socket.
Calls(p) == call[p] = Idle /\ sock[p] # NoPcb

\* udp_pcb_select(): the first of these
Bound(addr, port) ==
  {i \in Pcb : pcbs[i].open /\ pcbs[i].addr \in {0, addr} /\ pcbs[i].port = port}
First(S) == CHOOSE i \in S : \A j \in S : i <= j

\* sys_socket(), socket_alloc(), udp_open()
udp_open(p) ==
  LET free == {i \in Pcb : ~pcbs[i].open} IN
  /\ call[p] = Idle /\ sock[p] = NoPcb
  /\ free # {}
  /\ sock' = [sock EXCEPT ![p] = First(free)]
  /\ pcbs' = [pcbs EXCEPT ![First(free)].open = TRUE]
  /\ UNCHANGED call

\* sys_bind(), socket_bind(), udp_bind()
InUse(addr, port) == Bound(addr, port) # {}
udp_bind(p, addr, port) ==
  /\ Calls(p)
  /\ ~InUse(addr, port)
  /\ pcbs' = [pcbs EXCEPT ![sock[p]].addr = addr, ![sock[p]].port = port]
  /\ UNCHANGED <<sock, call>>

\* udp_sendto(), up to udp_output(); unicast is the address of the interface
\* with a route to dst.  An unbound socket gets a port that is not in use.
udp_sendto(p, dst, unicast) ==
  LET src == IF pcbs[sock[p]].addr = 0 THEN unicast ELSE pcbs[sock[p]].addr
      free == {q \in Ephemeral : ~InUse(src, q)} IN
  /\ Calls(p)
  /\ \/ pcbs[sock[p]].port # 0 /\ UNCHANGED pcbs
     \/ /\ pcbs[sock[p]].port = 0 /\ free # {}
        /\ pcbs' = [pcbs EXCEPT ![sock[p]].port = First(free)]
  /\ call' = [call EXCEPT ![p] = [pc |-> "route", src |-> src, dst |-> dst]]
  /\ UNCHANGED sock

\* sys_recvfrom(), socket_recvfrom(), udp_recvfrom(): one turn of its loop
udp_recvfrom(p) ==
  LET i == sock[p] IN
  /\ Calls(p) \/ call[p].pc = "awake"
  /\ \/ /\ pcbs[i].queue = <<>>
        /\ call' = [call EXCEPT ![p] = [pc |-> "asleep"]]
        /\ UNCHANGED pcbs
     \/ /\ pcbs[i].queue # <<>>
        /\ call' = [call EXCEPT ![p] = Idle]
        /\ pcbs' = [pcbs EXCEPT ![i].queue = Tail(@)]
  /\ UNCHANGED sock

\* The last fileclose(), socket_close(), udp_close() and udp_pcb_release(): no
\* process sleeps on the control block, for it would hold the file open.
Released(b) == Free
udp_close(p) ==
  /\ Calls(p)
  /\ pcbs' = [pcbs EXCEPT ![sock[p]] = Released(@)]
  /\ sock' = [sock EXCEPT ![p] = NoPcb]
  /\ UNCHANGED call

\* udp_input(): the datagram is queued and the reader woken up, unless the
\* port is not in use or there is no memory.
Wakes_None(i) == {}
Wakes(i) == {p \in Proc : sock[p] = i /\ call[p].pc = "asleep"}
udp_input(addr, port) ==
  LET i == First(Bound(addr, port)) IN
  IF Bound(addr, port) = {} \/ Len(pcbs[i].queue) = MaxQueue THEN UNCHANGED udpVars
  ELSE /\ pcbs' = [pcbs EXCEPT ![i].queue = Append(@, <<addr, port>>)]
       /\ call' = [p \in Proc |-> IF p \in Wakes(i) THEN [pc |-> "awake"] ELSE call[p]]
       /\ UNCHANGED sock
==============================================================================
