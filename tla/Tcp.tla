--------------------------------- MODULE Tcp ---------------------------------
(***************************************************************************)
(* TCP as kernel/net/tcp.c has it: a client and a server that both run     *)
(* this code, over a network that loses and reorders segments.  The client *)
(* has one control block, "c"; the server has "l", which listens, and "s", *)
(* which tcp_segment_arrives() takes for a connection.  A process of each  *)
(* host makes the socket calls.  Data is counted in units of the largest   *)
(* segment; the n-th unit a host sends is the number n.  Control blocks    *)
(* are in socket mode, and nothing in the kernel raises the event that     *)
(* interrupts a sleeping call.                                             *)
(***************************************************************************)
EXTENDS Integers, Sequences, FiniteSets

CONSTANTS
  UINT,        \* sequence numbers are modulo UINT (2^32)
  BUF,         \* sizeof(pcb->buf), in units
  Iss,         \* what random() returns, call by call, on either host
  MaxData,     \* bound: units each host sends, by host
  MaxNet,      \* bound: segments under way
  MaxRexmit    \* retransmissions of a segment before its deadline

ASSUME TcpConstants ==
  /\ UINT \in Nat \ {0} /\ BUF \in 1..UINT /\ Iss \in Seq(0..UINT - 1)
  /\ MaxData \in [{"client", "server"} -> Nat] /\ MaxNet \in Nat /\ MaxRexmit \in Nat

Pcb == {"c", "l", "s"}
Host == {"client", "server"}
HostOf(p) == IF p = "c" THEN "client" ELSE "server"
Peer(h) == IF h = "client" THEN "server" ELSE "client"

VARIABLES
  pcb,     \* pcbs[]
  net,     \* segments under way
  call,    \* the call a host's process is in, and whether it sleeps
  owned,   \* the control blocks a process has a descriptor for
  backlog, \* connections queued on "l" for tcp_accept()
  sent,    \* units a host has sent
  got,     \* units tcp_receive() has returned from a control block, in order
  nrand    \* calls of random() on a host so far, at most Len(Iss)

vars == <<pcb, net, call, owned, backlog, sent, got, nrand>>

Blank ==
  [state |-> "FREE", iss |-> 0, irs |-> 0, una |-> 0, nxt |-> 0, swnd |-> 0,
   wl1 |-> 0, wl2 |-> 0, rnxt |-> 0, buf |-> <<>>, queue |-> <<>>]
\* tcp_pcb_release() clears the control block.
Released == Blank
Idle == [op |-> "none", asleep |-> FALSE]

Init ==
  /\ pcb = [p \in Pcb |-> IF p = "l" THEN [Blank EXCEPT !.state = "LISTEN"] ELSE Blank]
  /\ net = {}
  /\ call = [h \in Host |-> Idle]
  /\ owned = {"l"} /\ backlog = {}
  /\ sent = [h \in Host |-> 0]
  /\ got = [p \in Pcb |-> <<>>]
  /\ nrand = [h \in Host |-> 0]

-----------------------------------------------------------------------------
(* Segments *)

Plus(a, b) == (a + b) % UINT
Rwnd(q) == BUF - Len(q.buf)
B(x) == IF x THEN 1 ELSE 0
SegLen(seg) == Len(seg.data) + B("SYN" \in seg.flg) + B("FIN" \in seg.flg)

\* tcp_output_segment() from host h.
Segment(h, seq, ack, flg, wnd, data) ==
  [to |-> Peer(h), seq |-> seq, ack |-> ack, flg |-> flg, wnd |-> wnd, data |-> data]

\* The network loses what goes beyond its bound.
Carry(old, out) == IF Cardinality(old \cup out) <= MaxNet THEN old \cup out ELSE old

\* tcp_output(): the segment, and the control block with the segment queued
\* for retransmission when it takes up sequence numbers.
OutSeq(q, flg) == IF "SYN" \in flg THEN q.iss ELSE q.nxt
Output(h, q, flg, data) == Segment(h, OutSeq(q, flg), q.rnxt, flg, Rwnd(q), data)

Requeue(flg, data) == {"SYN", "FIN"} \cap flg # {} \/ data # <<>>
Queued(q, flg, data) ==
  IF Requeue(flg, data)
  THEN [q EXCEPT !.queue = Append(@, [seq |-> OutSeq(q, flg), flg |-> flg, data |-> data, n |-> 0])]
  ELSE q

Unacked(e, q) == e.seq >= q.una
Cleanup(q) ==
  LET left == {i \in 1..Len(q.queue) : Unacked(q.queue[i], q)}
      head == CHOOSE i \in left : \A j \in left : i <= j
  IN [q EXCEPT !.queue = IF left = {} THEN <<>> ELSE SubSeq(@, head, Len(@))]

\* sched_wakeup(): the processes that sleep on a control block of P run again.
Wakeup_None(P) == call
Wakeup(P) ==
  [h \in Host |-> IF call[h].op # "none" /\ call[h].pcb \in P
                  THEN [call[h] EXCEPT !.asleep = FALSE] ELSE call[h]]

-----------------------------------------------------------------------------
(* tcp_segment_arrives() *)

\* tcp_pcb_select(): the control block of the connection before the listener.
Select(h) ==
  IF h = "client" THEN "c" ELSE IF pcb["s"].state # "FREE" THEN "s" ELSE "l"

\* Control block p becomes q, out is sent, sleepers on the blocks W wake up.
Done(seg, p, q, out, W) ==
  /\ pcb' = [pcb EXCEPT ![p] = q]
  /\ net' = Carry(net \ {seg}, out)
  /\ call' = Wakeup(W)
  /\ UNCHANGED <<owned, sent>>

Reset(h, seg) ==
  IF "RST" \in seg.flg THEN {}
  ELSE IF "ACK" \in seg.flg THEN {Segment(h, seg.ack, 0, {"RST"}, 0, <<>>)}
  ELSE {Segment(h, 0, Plus(seg.seq, SegLen(seg)), {"RST", "ACK"}, 0, <<>>)}

arrives_closed(seg) ==
  LET p == Select(seg.to) IN
  /\ pcb[p].state \in {"FREE", "CLOSED"}
  /\ Done(seg, p, pcb[p], Reset(seg.to, seg), {})
  /\ UNCHANGED <<backlog, got, nrand>>

\* A SYN for the listener makes a connection of its own in a free block.
Random(h) == Iss[nrand[h] + 1]
arrives_listen_syn(seg) ==
  LET q == [Blank EXCEPT !.state = "SYN_RECEIVED", !.rnxt = Plus(seg.seq, 1), !.irs = seg.seq,
                         !.iss = Random("server"), !.una = Random("server"),
                         !.nxt = Plus(Random("server"), 1)]
  IN
  /\ Select(seg.to) = "l" /\ pcb["l"].state = "LISTEN"
  /\ seg.flg \cap {"RST", "ACK"} = {} /\ "SYN" \in seg.flg
  /\ nrand["server"] < Len(Iss)
  /\ Done(seg, "s", Queued(q, {"SYN", "ACK"}, <<>>), {Output("server", q, {"SYN", "ACK"}, <<>>)}, {})
  /\ got' = [got EXCEPT !["s"] = <<>>]
  /\ nrand' = [nrand EXCEPT !["server"] = @ + 1]
  /\ UNCHANGED backlog

arrives_listen_other(seg) ==
  /\ Select(seg.to) = "l" /\ pcb["l"].state = "LISTEN"
  /\ seg.flg \cap {"RST", "ACK"} # {} \/ "SYN" \notin seg.flg
  /\ Done(seg, "l", pcb["l"], IF "ACK" \in seg.flg THEN Reset(seg.to, seg) ELSE {}, {})
  /\ UNCHANGED <<backlog, got, nrand>>

\* SND.UNA =< SEG.ACK =< SND.NXT
AcksSyn_Any(q, seg) == TRUE
AcksSyn(q, seg) == q.una <= seg.ack /\ seg.ack <= q.nxt

\* The client's SYN is answered: by SYN and ACK, or by the SYN of a
\* simultaneous open.
arrives_syn_sent(seg) ==
  LET q == pcb["c"]
      ack == "ACK" \in seg.flg
      q1 == [q EXCEPT !.rnxt = Plus(seg.seq, 1), !.irs = seg.seq]
      q2 == IF ack /\ AcksSyn(q, seg) THEN Cleanup([q1 EXCEPT !.una = seg.ack]) ELSE q1
      est == [q2 EXCEPT !.state = "ESTABLISHED", !.swnd = seg.wnd, !.wl1 = seg.seq, !.wl2 = seg.ack]
      rcv == [q2 EXCEPT !.state = "SYN_RECEIVED"]
  IN
  /\ seg.to = "client" /\ q.state = "SYN_SENT"
  /\ IF ack /\ (seg.ack <= q.iss \/ seg.ack > q.nxt) THEN Done(seg, "c", q, {Segment("client", seg.ack, 0, {"RST"}, 0, <<>>)}, {})
     ELSE IF "SYN" \notin seg.flg THEN Done(seg, "c", q, {}, {})
     ELSE IF q2.una > q2.iss THEN Done(seg, "c", est, {Output("client", q2, {"ACK"}, <<>>)}, {"c"})
     ELSE Done(seg, "c", Queued(rcv, {"SYN", "ACK"}, <<>>), {Output("client", rcv, {"SYN", "ACK"}, <<>>)}, {})
  /\ UNCHANGED <<backlog, got, nrand>>

\* 1st: is some of the segment in the window?
InWindow(q, x) == q.rnxt <= x /\ x < q.rnxt + Rwnd(q)
Acceptable(q, seg) ==
  IF SegLen(seg) = 0
  THEN IF Rwnd(q) = 0 THEN seg.seq = q.rnxt ELSE InWindow(q, seg.seq)
  ELSE Rwnd(q) # 0 /\ (InWindow(q, seg.seq) \/ InWindow(q, seg.seq + SegLen(seg) - 1))

\* 5th: the acknowledgment.
AckTo(q, seg) == seg.ack
NewAck(q, seg) == q.una < seg.ack /\ seg.ack <= q.nxt
TakeAck(q, seg) ==
  LET q1 == Cleanup([q EXCEPT !.una = AckTo(q, seg)]) IN
  IF ~NewAck(q, seg) THEN q
  ELSE IF q.wl1 < seg.seq \/ (q.wl1 = seg.seq /\ q.wl2 <= seg.ack)
       THEN [q1 EXCEPT !.swnd = seg.wnd, !.wl1 = seg.seq, !.wl2 = seg.ack]
       ELSE q1

AckedFin(q, seg) ==
  IF q.state = "FIN_WAIT1" /\ seg.ack = q.nxt THEN [q EXCEPT !.state = "FIN_WAIT2"] ELSE q

\* 7th: the text is put into the buffer, 8th: the FIN.
TakesText(q, seg) == q.state \in {"ESTABLISHED", "FIN_WAIT1", "FIN_WAIT2"} /\ seg.data # <<>>
TakeText(q, seg) ==
  IF TakesText(q, seg)
  THEN [q EXCEPT !.buf = @ \o seg.data, !.rnxt = Plus(seg.seq, SegLen(seg))]
  ELSE q

FinState(q, seg) ==
  CASE q.state \in {"SYN_RECEIVED", "ESTABLISHED"} -> "CLOSE_WAIT"
    [] q.state = "FIN_WAIT1" -> IF seg.ack = q.nxt THEN "TIME_WAIT" ELSE "CLOSING"
    [] q.state = "FIN_WAIT2" -> "TIME_WAIT"
    [] OTHER -> q.state
TakeFin(q, seg) ==
  IF "FIN" \in seg.flg
  THEN [q EXCEPT !.rnxt = Plus(seg.seq, 1), !.state = FinState(q, seg)]
  ELSE q

\* The states whose sequence numbers and acknowledgments are looked at.
Checked == {"SYN_RECEIVED", "ESTABLISHED", "FIN_WAIT1", "FIN_WAIT2", "CLOSE_WAIT", "LAST_ACK"}
Ack(p, q) == Output(HostOf(p), q, {"ACK"}, <<>>)

\* Dropped: not acceptable, no acknowledgment, or one of something unsent.
arrives_dropped(seg) ==
  LET p == Select(seg.to)
      q == pcb[p]
      unacceptable == q.state \in Checked /\ ~Acceptable(q, seg)
      handshake == q.state = "SYN_RECEIVED" /\ ~AcksSyn(q, seg)
      unsent == q.state \in Checked \ {"LAST_ACK"} /\ seg.ack > q.nxt
      ack == "ACK" \in seg.flg
  IN
  /\ q.state \in Checked \cup {"CLOSING", "TIME_WAIT"}
  /\ unacceptable \/ ~ack \/ handshake \/ unsent
  /\ Done(seg, p, q,
          IF unacceptable THEN IF "RST" \in seg.flg THEN {} ELSE {Ack(p, q)}
          ELSE IF ~ack THEN {}
          ELSE IF handshake THEN {Segment(seg.to, seg.ack, 0, {"RST"}, 0, <<>>)}
          ELSE {Ack(p, q)}, {})
  /\ UNCHANGED <<backlog, got, nrand>>

arrives_last_ack(seg) ==
  LET p == Select(seg.to)
      q == pcb[p]
  IN
  /\ q.state = "LAST_ACK" /\ Acceptable(q, seg) /\ "ACK" \in seg.flg
  /\ Done(seg, p, IF seg.ack = q.nxt THEN Released ELSE q, {}, {})
  /\ UNCHANGED <<backlog, got, nrand>>

\* Acknowledgment, text and FIN; the handshake of a connection ends here.
arrives_accepted(seg) ==
  LET p == Select(seg.to)
      q == pcb[p]
      est == q.state = "SYN_RECEIVED"
      q0 == IF est THEN [q EXCEPT !.state = "ESTABLISHED"] ELSE q
      q1 == IF q.state \in Checked THEN AckedFin(TakeAck(q0, seg), seg) ELSE q
      q2 == TakeText(q1, seg)
      q3 == TakeFin(q2, seg)
      fin == "FIN" \in seg.flg
  IN
  /\ q.state \in (Checked \ {"LAST_ACK"}) \cup {"CLOSING", "TIME_WAIT"}
  /\ "ACK" \in seg.flg
  /\ q.state \in Checked => Acceptable(q, seg) /\ seg.ack <= q.nxt
  /\ est => AcksSyn(q, seg)
  /\ Done(seg, p, q3,
          {Ack(p, x) : x \in (IF TakesText(q1, seg) THEN {q2} ELSE {}) \cup (IF fin THEN {q3} ELSE {})},
          (IF est THEN {p} \cup {x \in {"l"} : p = "s"} ELSE {})
            \cup (IF TakesText(q1, seg) \/ (fin /\ q2.state = "ESTABLISHED") THEN {p} ELSE {}))
  /\ backlog' = IF est /\ p = "s" THEN backlog \cup {"s"} ELSE backlog
  /\ UNCHANGED <<got, nrand>>

arrives(seg) ==
  \/ arrives_closed(seg)
  \/ arrives_listen_syn(seg)
  \/ arrives_listen_other(seg)
  \/ arrives_syn_sent(seg)
  \/ arrives_dropped(seg)
  \/ arrives_last_ack(seg)
  \/ arrives_accepted(seg)

\* The network is external: it may lose any segment, and keeps no order.
lose(seg) ==
  /\ net' = net \ {seg}
  /\ UNCHANGED <<pcb, call, owned, backlog, sent, got, nrand>>

-----------------------------------------------------------------------------
(* Socket calls: each runs under the mutex up to where it sleeps. *)

Sleep(h, op, p) == call' = [call EXCEPT ![h] = [op |-> op, pcb |-> p, asleep |-> TRUE]]
Return(h) == call' = [call EXCEPT ![h] = Idle]
In(h, op, p) == call[h].op = op /\ call[h].pcb = p /\ ~call[h].asleep

\* A call of op on p begins, or goes on after a sleep.
Running(op, p) ==
  LET h == HostOf(p) IN (call[h] = Idle /\ p \in owned) \/ In(h, op, p)

\* socket() and tcp_connect(): the SYN is sent and the caller sleeps.
tcp_connect ==
  LET q == [Blank EXCEPT !.state = "SYN_SENT", !.iss = Random("client"), !.una = Random("client"),
                         !.nxt = Plus(Random("client"), 1)]
  IN
  /\ call["client"] = Idle /\ pcb["c"].state = "FREE" /\ nrand["client"] < Len(Iss)
  /\ pcb' = [pcb EXCEPT !["c"] = Queued(q, {"SYN"}, <<>>)]
  /\ net' = Carry(net, {Output("client", q, {"SYN"}, <<>>)})
  /\ nrand' = [nrand EXCEPT !["client"] = @ + 1]
  /\ got' = [got EXCEPT !["c"] = <<>>]
  /\ Sleep("client", "connect", "c")
  /\ UNCHANGED <<owned, backlog, sent>>

tcp_connect_awake ==
  LET state == pcb["c"].state IN
  /\ In("client", "connect", "c")
  /\ IF state \in {"SYN_SENT", "SYN_RECEIVED"} THEN Sleep("client", "connect", "c") ELSE Return("client")
  /\ owned' = IF state = "ESTABLISHED" THEN owned \cup {"c"} ELSE owned
  /\ pcb' = IF state \in {"SYN_SENT", "SYN_RECEIVED", "ESTABLISHED"}
            THEN pcb ELSE [pcb EXCEPT !["c"] = Released]
  /\ UNCHANGED <<net, backlog, sent, got, nrand>>

tcp_accept ==
  /\ Running("accept", "l")
  /\ pcb["l"].state = "LISTEN"
  /\ IF backlog = {} THEN Sleep("server", "accept", "l") ELSE Return("server")
  /\ owned' = owned \cup backlog
  /\ backlog' = {}
  /\ UNCHANGED <<pcb, net, sent, got, nrand>>

\* cap = snd.wnd - (snd.nxt - snd.una), unsigned.
Cap(q) == (q.swnd - (q.nxt - q.una)) % UINT
tcp_send(p) ==
  LET h == HostOf(p)
      q == pcb[p]
      unit == <<sent[h] + 1>>
      flg == {"ACK", "PSH"}
  IN
  /\ Running("send", p) /\ sent[h] < MaxData[h]
  /\ q.state \in {"ESTABLISHED", "CLOSE_WAIT"} /\ Cap(q) # 0
  /\ pcb' = [pcb EXCEPT ![p] = [Queued(q, flg, unit) EXCEPT !.nxt = Plus(@, 1)]]
  /\ net' = Carry(net, {Output(h, q, flg, unit)})
  /\ sent' = [sent EXCEPT ![h] = @ + 1]
  /\ Return(h)
  /\ UNCHANGED <<owned, backlog, got, nrand>>

\* tcp_output() has no memory for the segment: the control block is gone.
tcp_send_fails(p) ==
  LET h == HostOf(p) IN
  /\ Running("send", p) /\ sent[h] < MaxData[h]
  /\ pcb[p].state \in {"ESTABLISHED", "CLOSE_WAIT"} /\ Cap(pcb[p]) # 0
  /\ pcb' = [pcb EXCEPT ![p] = Released]
  /\ Return(h)
  /\ UNCHANGED <<net, owned, backlog, sent, got, nrand>>

tcp_send_waits(p) ==
  /\ Running("send", p)
  /\ pcb[p].state \in {"ESTABLISHED", "CLOSE_WAIT"} /\ Cap(pcb[p]) = 0
  /\ Sleep(HostOf(p), "send", p)
  /\ UNCHANGED <<pcb, net, owned, backlog, sent, got, nrand>>

tcp_receive(p) ==
  LET q == pcb[p] IN
  /\ Running("receive", p)
  /\ q.state \in {"ESTABLISHED", "CLOSE_WAIT"} /\ q.buf # <<>>
  /\ \E n \in 1..Len(q.buf) :
       /\ pcb' = [pcb EXCEPT ![p].buf = SubSeq(@, n + 1, Len(@))]
       /\ got' = [got EXCEPT ![p] = @ \o SubSeq(q.buf, 1, n)]
  /\ Return(HostOf(p))
  /\ UNCHANGED <<net, owned, backlog, sent, nrand>>

tcp_receive_waits(p) ==
  /\ Running("receive", p)
  /\ pcb[p].state = "ESTABLISHED" /\ pcb[p].buf = <<>>
  /\ Sleep(HostOf(p), "receive", p)
  /\ UNCHANGED <<pcb, net, owned, backlog, sent, got, nrand>>

\* A call that slept finds the connection gone, or closed by the peer.
call_fails(p) ==
  LET s == pcb[p].state IN
  /\ \/ In(HostOf(p), "send", p) /\ s \notin {"ESTABLISHED", "CLOSE_WAIT"}
     \/ In(HostOf(p), "receive", p) /\ s # "ESTABLISHED" /\ (s = "CLOSE_WAIT" => pcb[p].buf = <<>>)
  /\ Return(HostOf(p))
  /\ UNCHANGED <<pcb, net, owned, backlog, sent, got, nrand>>

\* The last descriptor is closed: FIN, or nothing at all in other states.
tcp_close(p) ==
  LET q == pcb[p]
      flg == {"ACK", "FIN"}
      fin(s) == [Queued(q, flg, <<>>) EXCEPT !.nxt = Plus(@, 1), !.state = s]
  IN
  /\ p \in owned /\ call[HostOf(p)] = Idle
  /\ owned' = owned \ {p}
  /\ pcb' = CASE q.state = "ESTABLISHED" -> [pcb EXCEPT ![p] = fin("FIN_WAIT1")]
              [] q.state = "CLOSE_WAIT" -> [pcb EXCEPT ![p] = fin("LAST_ACK")]
              [] q.state = "LISTEN" -> [x \in Pcb |-> IF x = p \/ x \in backlog THEN Released ELSE pcb[x]]
              [] OTHER -> pcb
  /\ net' = IF q.state \in {"ESTABLISHED", "CLOSE_WAIT"}
            THEN Carry(net, {Output(HostOf(p), q, flg, <<>>)}) ELSE net
  /\ backlog' = IF q.state = "LISTEN" THEN {} ELSE backlog
  /\ UNCHANGED <<call, sent, got, nrand>>

-----------------------------------------------------------------------------
(* tcp_timer(): tcp_retransmit_queue_emit() on an entry that is due. *)

retransmit(p, i) ==
  LET q == pcb[p]
      e == q.queue[i]
  IN
  /\ i \in 1..Len(q.queue) /\ e.n < MaxRexmit
  /\ pcb' = [pcb EXCEPT ![p].queue[i].n = @ + 1]
  /\ net' = Carry(net, {Segment(HostOf(p), e.seq, q.rnxt, e.flg, Rwnd(q), e.data)})
  /\ UNCHANGED <<call, owned, backlog, sent, got, nrand>>

\* The control block is closed, but stays in the table.
deadline(p) ==
  /\ pcb[p].queue # <<>> /\ pcb[p].queue[1].n = MaxRexmit
  /\ pcb' = [pcb EXCEPT ![p].state = "CLOSED"]
  /\ call' = Wakeup({p})
  /\ UNCHANGED <<net, owned, backlog, sent, got, nrand>>

timer(p) == deadline(p) \/ \E i \in 1..Len(pcb[p].queue) : retransmit(p, i)

Calls(p) ==
  \/ tcp_send(p) \/ tcp_send_fails(p) \/ tcp_send_waits(p)
  \/ tcp_receive(p) \/ tcp_receive_waits(p) \/ call_fails(p)
  \/ tcp_close(p)

Next ==
  \/ \E seg \in net : arrives(seg) \/ lose(seg)
  \/ tcp_connect \/ tcp_connect_awake \/ tcp_accept
  \/ \E p \in Pcb : Calls(p) \/ timer(p)

Spec == Init /\ [][Next]_vars

\* The timer is called on every tick of the clock; nothing makes the network
\* deliver or a process call.
FairSpec == Spec /\ \A p \in {"c", "s"} : WF_vars(timer(p))

-----------------------------------------------------------------------------
(* Properties *)

Seqno == 0..UINT - 1
State == {"FREE", "CLOSED", "LISTEN", "SYN_SENT", "SYN_RECEIVED", "ESTABLISHED", "FIN_WAIT1",
          "FIN_WAIT2", "CLOSE_WAIT", "CLOSING", "LAST_ACK", "TIME_WAIT"}

\* The control blocks hold what their types say: no buffer holds more than
\* its size, and sequence numbers stay below UINT.
TypeOK ==
  /\ \A p \in Pcb :
       /\ pcb[p].state \in State
       /\ {pcb[p].iss, pcb[p].irs, pcb[p].una, pcb[p].nxt, pcb[p].rnxt} \subseteq Seqno
       /\ pcb[p].swnd \in 0..BUF /\ Len(pcb[p].buf) \in 0..BUF
  /\ owned \subseteq Pcb /\ backlog \subseteq {"s"}
  /\ \A h \in Host : sent[h] \in 0..MaxData[h] /\ nrand[h] \in 0..Len(Iss)

\* After the handshake each end has the other's initial sequence number,
\* even when a SYN of an earlier tcp_connect() from the same port arrives late.
Synchronized == {"ESTABLISHED", "FIN_WAIT1", "FIN_WAIT2", "CLOSE_WAIT", "CLOSING", "LAST_ACK", "TIME_WAIT"}
HandshakeAgrees ==
  {pcb["c"].state, pcb["s"].state} \subseteq Synchronized =>
    pcb["c"].irs = pcb["s"].iss /\ pcb["s"].irs = pcb["c"].iss

\* What one end holds as acknowledged, the other end has taken.
AckedWasTaken ==
  {pcb["c"].state, pcb["s"].state} \subseteq Synchronized =>
    pcb["c"].una <= pcb["s"].rnxt /\ pcb["s"].una <= pcb["c"].rnxt

\* Whatever was sent and is not acknowledged is in the retransmission queue,
\* so the timer sends it again or gives the connection up.
Recoverable ==
  \A p \in Pcb :
    LET q == pcb[p] IN
    q.una # q.nxt => q.queue # <<>> /\ q.queue[1].seq = q.una


\* Nobody sleeps in tcp_connect(), tcp_accept() or tcp_receive() while what
\* they wait for is there.
NoLostWakeup ==
  \A h \in Host : call[h].asleep =>
    LET p == call[h].pcb IN
    CASE call[h].op = "connect" -> pcb[p].state \in {"SYN_SENT", "SYN_RECEIVED"}
      [] call[h].op = "accept" -> backlog = {}
      [] call[h].op = "receive" -> pcb[p].state = "ESTABLISHED" /\ pcb[p].buf = <<>>
      [] call[h].op = "send" -> pcb[p].state \in {"ESTABLISHED", "CLOSE_WAIT"}


\* What the reader has is an initial part of what was sent: nothing is
\* missing in between.
Prefix ==
  \A p \in Pcb : LET r == got[p] \o pcb[p].buf IN
    \A i \in 1..Len(r) : r[i] = i

\* A control block that waits for an answer to its SYN or its FIN leaves that
\* state, though the network may lose everything: the retransmission deadline
\* sees to it.
Unanswered == {"SYN_SENT", "SYN_RECEIVED", "FIN_WAIT1", "CLOSING", "LAST_ACK"}
==============================================================================
