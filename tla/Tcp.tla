--------------------------------- MODULE Tcp ---------------------------------
(***************************************************************************)
(* A TCP connection between two hosts that run lwIP (tcp.c, tcp_in.c,      *)
(* tcp_out.c), over a network that loses, repeats and reorders segments.   *)
(*                                                                         *)
(* Every action is one call into the stack, made by the tcpip thread: an   *)
(* API call, a segment that arrives, or a timer.  How long a timer runs is *)
(* left open.  Memory for segments suffices; a failed allocation is either *)
(* a call that returns an error and changes nothing, or a lost segment.    *)
(***************************************************************************)
EXTENDS Integers, FiniteSets, SequencesExt

CONSTANTS SeqBits,        \* width of a sequence number (32 in the code)
          Iss,            \* what tcp_next_iss returns to each host
          WndBits,        \* width of a window (16 in the code)
          TCP_WND, TCP_MSS, TCP_SND_BUF, TCP_MAXRTX, TCP_SYNMAXRTX,
          Apps,           \* what the applications may do: see app
          Room,           \* segments under way to a host
          Duties          \* what applications see to; see below

VARIABLES app,            \* each host's application: its calls, how much it writes, in what sizes
          pcb,            \* each host's connection
          net             \* the segments on their way to each host

vars == <<app, pcb, net>>

Host == {"client", "server"}
Peer(h) == CHOOSE g \in Host : g # h

(***************************************************************************)
(* Sequence numbers.                                                       *)
(***************************************************************************)
Seq32(n) == n % 2^SeqBits
LT(a, b) == Seq32(a - b) >= 2^(SeqBits - 1)
LEQ(a, b) == a = b \/ LT(a, b)
GT(a, b) == a # b /\ ~LT(a, b)
BETWEEN(a, b, c) == ~LT(a, b) /\ LEQ(a, Seq32(c))
U16(n) == n % 2^WndBits

(***************************************************************************)
(* Segments: on the queues of a connection, and under way with the rest of *)
(* their header.  A byte is known by its place in what its sender writes.  *)
(* len is what the segment's len says, data what its pbuf holds.           *)
(***************************************************************************)
Segment(seq, data, syn, fin) ==
  [seq |-> Seq32(seq), len |-> Len(data), data |-> data, syn |-> syn, fin |-> fin]

TCPLEN(s) == s.len + (IF s.syn \/ s.fin THEN 1 ELSE 0)
Cut(s, n) == [s EXCEPT !.len = n, !.data = SubSeq(@, 1, Min({n, Len(@)}))]

Packet(s, flags, ackno, wnd) ==
  [seq |-> s.seq, data |-> s.data, syn |-> s.syn, fin |-> s.fin,
   ack |-> "ack" \in flags, rst |-> "rst" \in flags, ackno |-> ackno, wnd |-> wnd]

tcp_rst(seq, ackno) ==
  Packet(Segment(seq, <<>>, FALSE, FALSE), {"rst", "ack"}, Seq32(ackno), TCP_WND)

(***************************************************************************)
(* A connection.  The last line is not part of the pcb: what the           *)
(* application has written, been given, not yet taken, and been told of;   *)
(* whether it holds the pcb; how the connection has ended; and what the    *)
(* current step sends.                                                     *)
(* recv_data and recv_flags are globals, used during a step only.  cwnd    *)
(* and ssthresh stop at the largest window: nothing looks further.         *)
(***************************************************************************)
Closed ==
  [state |-> "CLOSED", snd_nxt |-> 0, lastack |-> 0, snd_lbb |-> 0, snd_buf |-> TCP_SND_BUF,
   unsent |-> <<>>, unacked |-> <<>>, snd_wnd |-> 0, snd_wnd_max |-> 0,
   snd_wl1 |-> 0, snd_wl2 |-> 0, cwnd |-> 1, ssthresh |-> 0,
   rcv_nxt |-> 0, rcv_wnd |-> TCP_WND, rcv_ann_wnd |-> TCP_WND, rcv_ann_right_edge |-> 0,
   ooseq |-> <<>>, refused |-> <<>>, refused_fin |-> FALSE, ack |-> {},
   rxclosed |-> FALSE, fin |-> FALSE, infr |-> FALSE, dupacks |-> 0, nrtx |-> 0,
   rtime |-> FALSE, persist |-> FALSE, recv_data |-> <<>>, recv_flags |-> {},
   wrote |-> 0, got |-> <<>>, unread |-> 0, eof |-> FALSE, held |-> FALSE,
   end |-> "no", out |-> {}]

tcp_alloc(iss) == [Closed EXCEPT !.snd_wl2 = Seq32(iss), !.snd_nxt = Seq32(iss),
                                 !.lastack = Seq32(iss), !.snd_lbb = Seq32(iss)]

Init == /\ app \in Apps
        /\ pcb = [h \in Host |-> Closed]
        /\ net = [h \in Host |-> {}]

Send(p, s) == [p EXCEPT !.out = @ \cup {s}]

(***************************************************************************)
(* Sending.                                                                *)
(***************************************************************************)
tcp_send_empty_ack(p) ==
  [Send(p, Packet(Segment(p.snd_nxt, <<>>, FALSE, FALSE), {"ack"}, p.rcv_nxt, p.rcv_ann_wnd))
     EXCEPT !.ack = {}, !.rcv_ann_right_edge = Seq32(p.rcv_nxt + p.rcv_ann_wnd)]

Fits(p, s) == Seq32(s.seq - p.lastack + s.len) <= Min({p.snd_wnd, p.cwnd})

tcp_do_output_nagle(p) ==
  p.unacked = <<>> \/ p.infr \/ Len(p.unsent) > 1 \/ p.unsent[1].len >= TCP_MSS \/ p.snd_buf = 0

\* both queues are kept in order
Sorted(q, s) == LET below == SelectSeq(q, LAMBDA x : LT(x.seq, s.seq))
                IN below \o <<s>> \o SelectSeq(q, LAMBDA x : ~LT(x.seq, s.seq))

tcp_output_segment(p, s) ==
  [Send(p, Packet(s, IF p.state = "SYN_SENT" THEN {} ELSE {"ack"}, p.rcv_nxt, p.rcv_ann_wnd))
     EXCEPT !.rcv_ann_right_edge = Seq32(p.rcv_nxt + p.rcv_ann_wnd), !.rtime = TRUE]

output_first(p) ==
  LET s == Head(p.unsent)
      next == Seq32(s.seq + TCPLEN(s))
  IN [tcp_output_segment(p, s) EXCEPT
        !.unsent = Tail(@), !.unacked = Sorted(@, s),
        !.snd_nxt = IF LT(@, next) THEN next ELSE @,
        !.ack = IF p.state = "SYN_SENT" THEN @ ELSE {}]

RECURSIVE output_rest(_)
output_rest(p) ==
  IF p.unsent # <<>> /\ Fits(p, Head(p.unsent)) /\ (tcp_do_output_nagle(p) \/ p.fin)
  THEN output_rest(output_first(p)) ELSE p

tcp_output(p) ==
  IF "now" \in p.ack /\ (p.unsent = <<>> \/ ~Fits(p, Head(p.unsent)))
  THEN tcp_send_empty_ack(p) ELSE output_rest(p)

(***************************************************************************)
(* tcp_write: fill up the last unsent segment, then make new ones.         *)
(***************************************************************************)
mss_local(p) == Min({TCP_MSS, p.snd_wnd_max \div 2})

RECURSIVE new_segments(_, _, _, _)
new_segments(q, seq, data, mss) ==
  IF data = <<>> THEN q
  ELSE LET n == Min({mss, Len(data)})
       IN new_segments(Append(q, Segment(seq, SubSeq(data, 1, n), FALSE, FALSE)), seq + n,
                       SubSeq(data, n + 1, Len(data)), mss)

tcp_write(p, data) ==
  LET q == p.unsent
      extend == q # <<>> /\ Last(q).len > 0
      n == IF extend THEN Min({mss_local(p) - Last(q).len, Len(data)}) ELSE 0
      more == SubSeq(data, 1, n)
      filled == IF n > 0
                THEN Append(Front(q), [Last(q) EXCEPT !.len = @ + n, !.data = @ \o more])
                ELSE q
  IN [p EXCEPT !.unsent = new_segments(filled, p.snd_lbb + n, SubSeq(data, n + 1, Len(data)),
                                       mss_local(p)),
               !.snd_lbb = Seq32(@ + Len(data)), !.snd_buf = @ - Len(data),
               !.wrote = @ + Len(data)]

tcp_enqueue_flags(p, syn, fin) ==
  [p EXCEPT !.unsent = Append(@, Segment(p.snd_lbb, <<>>, syn, fin)),
            !.snd_lbb = Seq32(@ + 1), !.snd_buf = @ - 1, !.fin = fin]

FinJoins(p) == p.unsent # <<>> /\ ~Last(p.unsent).syn /\ ~Last(p.unsent).fin

tcp_send_fin(p) ==
  IF FinJoins(p)
  THEN [p EXCEPT !.unsent = Append(Front(@), [Last(@) EXCEPT !.fin = TRUE]), !.fin = TRUE]
  ELSE tcp_enqueue_flags(p, FALSE, TRUE)

(***************************************************************************)
(* Retransmission.  Above TCP_MAXRTX nrtx is only ever compared, so it may *)
(* stop one above; dupacks likewise above 3.                               *)
(***************************************************************************)
Cap(n) == Min({n, TCP_WND})
More(nrtx) == Min({nrtx + 1, TCP_MAXRTX + 1})

tcp_rexmit_rto(p) ==
  tcp_output([p EXCEPT !.unsent = p.unacked \o @, !.unacked = <<>>, !.nrtx = More(@)])

tcp_rexmit(p) ==
  IF p.unacked = <<>> THEN p
  ELSE [p EXCEPT !.unsent = Sorted(@, Head(p.unacked)), !.unacked = Tail(@), !.nrtx = More(@)]

Halved(p) == Max({Min({p.cwnd, p.snd_wnd}) \div 2, 2 * TCP_MSS})

tcp_rexmit_fast(p) ==
  IF p.unacked = <<>> \/ p.infr THEN p
  ELSE [tcp_rexmit(p) EXCEPT !.ssthresh = Cap(Halved(p)),
                             !.cwnd = Cap(Halved(p) + 3 * TCP_MSS), !.infr = TRUE]

tcp_zero_window_probe(p) ==
  LET q == p.unacked \o p.unsent
      s == Head(q)
      one == Segment(s.seq, SubSeq(s.data, 1, Min({1, s.len})), FALSE, s.fin /\ s.len = 0)
  IN IF q = <<>> THEN p
     ELSE [Send(p, Packet(one, {"ack"}, p.rcv_nxt, p.rcv_ann_wnd))
             EXCEPT !.rcv_ann_right_edge = Seq32(p.rcv_nxt + p.rcv_ann_wnd)]

(***************************************************************************)
(* Our receive window.                                                     *)
(***************************************************************************)
new_right_edge(p) == Seq32(p.rcv_nxt + p.rcv_wnd)

MayGrow(p) ==
  ~LT(new_right_edge(p), Seq32(p.rcv_ann_right_edge + Min({TCP_WND \div 2, TCP_MSS})))

\* A slip: what cannot be announced yet leaves the old announcement in place.
announce_as_before(p) == [p EXCEPT !.rcv_ann_wnd = IF MayGrow(p) THEN p.rcv_wnd ELSE @]

tcp_update_rcv_ann_wnd(p) ==
  [p EXCEPT !.rcv_ann_wnd =
     IF MayGrow(p) THEN p.rcv_wnd
     ELSE IF GT(p.rcv_nxt, p.rcv_ann_right_edge) THEN 0
     ELSE U16(Seq32(p.rcv_ann_right_edge - p.rcv_nxt))]

wnd_inflation(p) == IF MayGrow(p) THEN Seq32(new_right_edge(p) - p.rcv_ann_right_edge) ELSE 0

tcp_ack_now(p) == [p EXCEPT !.ack = @ \cup {"now"}]
tcp_ack(p) == [p EXCEPT !.ack = IF "delay" \in @ THEN (@ \ {"delay"}) \cup {"now"}
                                ELSE @ \cup {"delay"}]

(***************************************************************************)
(* tcp_receive, first part: what a segment s acknowledges.                 *)
(***************************************************************************)
update_window(p, s) ==
  IF \/ LT(p.snd_wl1, s.seq)
     \/ p.snd_wl1 = s.seq /\ LT(p.snd_wl2, s.ackno)
     \/ p.snd_wl2 = s.ackno /\ s.wnd > p.snd_wnd
  THEN [p EXCEPT !.snd_wnd = s.wnd, !.snd_wnd_max = Max({@, s.wnd}),
                 !.snd_wl1 = s.seq, !.snd_wl2 = s.ackno, !.persist = (s.wnd = 0)]
  ELSE p

\* old: the pcb before update_window
duplicate_ack(p, s, old) ==
  LET found == /\ s.data = <<>> /\ ~s.syn /\ ~s.fin
               /\ Seq32(p.snd_wl2 + p.snd_wnd) = Seq32(old.snd_wl2 + old.snd_wnd)
               /\ p.rtime /\ p.lastack = s.ackno
      n == IF found THEN Min({p.dupacks + 1, 4}) ELSE 0
      q == [p EXCEPT !.dupacks = n]
  IN IF n = 3 THEN tcp_rexmit_fast(q)
     ELSE IF n > 3 THEN [q EXCEPT !.cwnd = Cap(@ + TCP_MSS)] ELSE q

Grown(cwnd, ssthresh) ==
  Cap(IF cwnd < ssthresh THEN cwnd + TCP_MSS ELSE cwnd + (TCP_MSS * TCP_MSS) \div cwnd)

new_ack(p, s) ==
  LET left == SelectSeq(p.unacked, LAMBDA x : ~LEQ(Seq32(x.seq + TCPLEN(x)), s.ackno))
  IN [p EXCEPT !.infr = FALSE, !.nrtx = 0, !.dupacks = 0, !.lastack = s.ackno,
               !.snd_buf = @ + Seq32(s.ackno - p.lastack),
               !.cwnd = Grown(IF p.infr THEN p.ssthresh ELSE @, p.ssthresh),
               !.unacked = left, !.rtime = (left # <<>>)]

\* a retransmission has put segments back on unsent that were acknowledged since
acked_unsent(p, s) ==
  [p EXCEPT !.unsent =
     SelectSeq(@, LAMBDA x : ~BETWEEN(s.ackno, Seq32(x.seq + TCPLEN(x)), p.snd_nxt))]

receive_ack(p, s) ==
  LET q == update_window(p, s)
  IN acked_unsent(IF LEQ(s.ackno, q.lastack) THEN duplicate_ack(q, s, p)
                  ELSE IF BETWEEN(s.ackno, Seq32(q.lastack + 1), q.snd_nxt) THEN new_ack(q, s)
                  ELSE q, s)

(***************************************************************************)
(* tcp_receive, second part: what it contains.                             *)
(***************************************************************************)
\* A slip: the payload pointer is not moved.
trim_header_only(p, t) ==
  LET off == Seq32(p.rcv_nxt - t.seq)
  IN IF BETWEEN(p.rcv_nxt, Seq32(t.seq + 1), t.seq + TCPLEN(t) - 1)
     THEN [t EXCEPT !.seq = p.rcv_nxt, !.len = @ - off] ELSE t

trim_front(p, t) ==
  LET off == Seq32(p.rcv_nxt - t.seq)
  IN IF BETWEEN(p.rcv_nxt, Seq32(t.seq + 1), t.seq + TCPLEN(t) - 1)
     THEN [t EXCEPT !.seq = p.rcv_nxt, !.len = @ - off, !.data = SubSeq(@, off + 1, Len(@))]
     ELSE t

End(t) == Seq32(t.seq + t.len)
Covered(end, q) == SelectSeq(q, LAMBDA x : ~LT(end, End(x)))
Beyond(end, q) == SelectSeq(q, LAMBDA x : LT(end, End(x)))
HasFin(q) == \E i \in DOMAIN q : q[i].fin

\* the segment as far as the window and the segments on ooseq leave room for it
in_window(p, t) ==
  IF TCPLEN(t) > p.rcv_wnd THEN [Cut(t, p.rcv_wnd) EXCEPT !.fin = FALSE] ELSE t

up_to_ooseq(p, t) ==
  LET end == Seq32(t.seq + TCPLEN(t))
      rest == Beyond(end, p.ooseq)
  IN IF t.fin THEN t
     ELSE IF rest # <<>> /\ GT(end, rest[1].seq) THEN Cut(t, Seq32(rest[1].seq - t.seq))
     ELSE [t EXCEPT !.fin = HasFin(Covered(end, p.ooseq))]

take(p, t) ==
  tcp_update_rcv_ann_wnd(
    [p EXCEPT !.rcv_nxt = Seq32(t.seq + TCPLEN(t)), !.rcv_wnd = U16(@ - TCPLEN(t)),
              !.recv_data = @ \o t.data,
              !.recv_flags = IF t.fin THEN @ \cup {"GOT_FIN"} ELSE @])

in_sequence(p, t) ==
  LET a == in_window(p, t)
      left == IF a.fin THEN <<>> ELSE Beyond(Seq32(a.seq + TCPLEN(a)), p.ooseq)
  IN [take(p, up_to_ooseq(p, a)) EXCEPT !.ooseq = left]

RECURSIVE dequeue(_)
dequeue(p) ==
  IF p.ooseq = <<>> \/ p.ooseq[1].seq # p.rcv_nxt THEN p
  ELSE LET t == Head(p.ooseq)
       IN dequeue([take(p, t) EXCEPT
                     !.ooseq = Tail(@),
                     !.state = IF t.fin /\ @ = "ESTABLISHED" THEN "CLOSE_WAIT" ELSE @])

tcp_oos_insert_segment(t, next) ==
  LET rest == Beyond(End(t), next)
  IN IF t.fin THEN <<t>>
     ELSE IF rest # <<>> /\ GT(End(t), rest[1].seq)
     THEN <<Cut(t, Seq32(rest[1].seq - t.seq))>> \o rest
     ELSE <<[t EXCEPT !.fin = HasFin(Covered(End(t), next))]>> \o rest

up_to(x, t) == IF GT(End(x), t.seq) THEN Cut(x, Seq32(t.seq - x.seq)) ELSE x

\* compared as plain numbers, not as sequence numbers
Overruns(p, t) == Seq32(TCPLEN(t) + t.seq) > Seq32(p.rcv_nxt + p.rcv_wnd)

clipped(p, t) ==
  IF Overruns(p, t)
  THEN [Cut(t, U16(Seq32(p.rcv_nxt + p.rcv_wnd - t.seq))) EXCEPT !.fin = FALSE]
  ELSE t

out_of_sequence(p, t) ==
  LET q == p.ooseq
      at == {i \in DOMAIN q : ~LT(q[i].seq, t.seq)}   \* those that do not come before t
      i == Min(at)
      before == SubSeq(q, 1, i - 1)
      after == SubSeq(q, i, Len(q))
  IN IF q = <<>> THEN <<t>>
     ELSE IF at = {}
     THEN IF Last(q).fin THEN q ELSE Front(q) \o <<up_to(Last(q), t), clipped(p, t)>>
     ELSE IF q[i].seq = t.seq
     THEN IF t.len > q[i].len THEN before \o tcp_oos_insert_segment(t, after) ELSE q
     ELSE IF i = 1 THEN tcp_oos_insert_segment(t, q)
     ELSE Front(before) \o <<up_to(Last(before), t)>> \o tcp_oos_insert_segment(t, after)

InWindow(p, seq) == BETWEEN(seq, p.rcv_nxt, p.rcv_nxt + p.rcv_wnd - 1)

receive_data(p, s) ==
  LET t == trim_front(p, s)
      q == IF t.seq = s.seq /\ LT(s.seq, p.rcv_nxt) THEN tcp_ack_now(p) ELSE p
  IN IF ~InWindow(q, t.seq) THEN tcp_send_empty_ack(q)
     ELSE IF t.seq = q.rcv_nxt THEN tcp_ack(dequeue(in_sequence(q, t)))
     ELSE [tcp_send_empty_ack(q) EXCEPT !.ooseq = out_of_sequence(q, t)]

tcp_receive(p, s) ==
  LET q == IF s.ack THEN receive_ack(p, s) ELSE p
      t == Segment(s.seq, s.data, s.syn, s.fin)
  IN IF TCPLEN(t) > 0 /\ q.state \in {"ESTABLISHED", "FIN_WAIT_1", "FIN_WAIT_2"}
     THEN receive_data(q, t)
     ELSE IF InWindow(q, s.seq) THEN q ELSE tcp_ack_now(q)

(***************************************************************************)
(* The end of a connection.                                                *)
(***************************************************************************)
tcp_pcb_purge(p) ==
  IF p.state \in {"CLOSED", "TIME_WAIT"} THEN p
  ELSE [p EXCEPT !.refused = <<>>, !.refused_fin = FALSE, !.unsent = <<>>, !.unacked = <<>>,
                 !.ooseq = <<>>, !.rtime = FALSE]

\* the pcb is given back; what the application knows remains
Freed(p, how) ==
  [Closed EXCEPT !.wrote = p.wrote, !.got = p.got, !.unread = p.unread, !.eof = p.eof,
                 !.end = IF p.end = "no" THEN how ELSE p.end, !.rxclosed = p.rxclosed,
                 !.held = p.held, !.out = p.out]

tcp_pcb_remove(p) ==
  LET q == tcp_pcb_purge(p)
  IN IF p.state # "TIME_WAIT" /\ "delay" \in p.ack THEN tcp_output(tcp_ack_now(q)) ELSE q

errf(p) == [p EXCEPT !.held = FALSE]

tcp_abort(p) ==
  IF p.state = "TIME_WAIT" THEN Freed(tcp_pcb_remove(p), "aborted")
  ELSE errf(Freed(Send(tcp_pcb_remove(p), tcp_rst(p.snd_nxt, p.rcv_nxt)), "aborted"))

time_wait(p) == [tcp_pcb_purge(p) EXCEPT !.state = "TIME_WAIT", !.end = "closed"]

(***************************************************************************)
(* The receive callback takes the data or not (ok); EOF is told once all   *)
(* data is taken.                                                          *)
(***************************************************************************)
TCP_EVENT_RECV(p, data, ok) ==
  IF ok THEN [p EXCEPT !.got = @ \o data, !.unread = @ + Len(data)]
  ELSE [p EXCEPT !.refused = data]

TCP_EVENT_CLOSED(p) ==
  [p EXCEPT !.rcv_wnd = IF @ # TCP_WND THEN U16(@ + 1) ELSE @, !.eof = ~p.rxclosed]

tcp_process_refused_data(p, ok) ==
  LET q == TCP_EVENT_RECV([p EXCEPT !.refused = <<>>], p.refused, ok)
  IN IF ok /\ p.refused_fin THEN TCP_EVENT_CLOSED([q EXCEPT !.refused_fin = FALSE]) ELSE q

(***************************************************************************)
(* tcp_process, state by state.  "ABRT": it has freed the pcb.             *)
(***************************************************************************)
Flag(p, f) == [p EXCEPT !.recv_flags = @ \cup {f}]
GotFin(p) == "GOT_FIN" \in p.recv_flags
Answered(s) == tcp_rst(s.ackno, s.seq + TCPLEN(Segment(s.seq, s.data, s.syn, s.fin)))

process_rst(p, s) ==
  IF IF p.state = "SYN_SENT" THEN s.ackno = p.snd_nxt
     ELSE BETWEEN(s.seq, p.rcv_nxt, p.rcv_nxt + p.rcv_wnd)
  THEN Flag([p EXCEPT !.ack = @ \ {"delay"}], "RESET") ELSE p

process_syn_sent(p, s) ==
  IF s.ack /\ s.syn /\ s.ackno = Seq32(p.unacked[1].seq + 1)
  THEN LET left == Tail(p.unacked)
       IN tcp_ack_now(
            [p EXCEPT !.state = "ESTABLISHED", !.snd_buf = @ + 1,
                      !.rcv_nxt = Seq32(s.seq + 1), !.rcv_ann_right_edge = Seq32(s.seq + 1),
                      !.lastack = s.ackno, !.snd_wnd = s.wnd, !.snd_wnd_max = s.wnd,
                      !.snd_wl1 = Seq32(s.seq - 1), !.ssthresh = Cap(TCP_MSS * 10),
                      !.cwnd = Cap(IF @ = 1 THEN 2 * TCP_MSS ELSE TCP_MSS),
                      !.unacked = left, !.rtime = (left # <<>>),
                      !.nrtx = IF left = <<>> THEN @ ELSE 0])
  ELSE IF s.ack THEN Send(p, Answered(s)) ELSE p

passive_close(p) ==
  IF GotFin(p) THEN [tcp_ack_now(p) EXCEPT !.state = "CLOSE_WAIT"] ELSE p

process_syn_rcvd(p, s, ok) ==
  LET q == [p EXCEPT !.state = "ESTABLISHED", !.held = TRUE]
  IN IF s.ack /\ ~BETWEEN(s.ackno, Seq32(p.lastack + 1), p.snd_nxt) THEN Send(p, Answered(s))
     ELSE IF s.ack /\ ~ok THEN Flag(tcp_abort([q EXCEPT !.held = FALSE]), "ABRT")
     ELSE IF s.ack
     THEN passive_close([tcp_receive(q, s) EXCEPT
                           !.cwnd = Cap(IF p.cwnd = 1 THEN 2 * TCP_MSS ELSE TCP_MSS)])
     ELSE IF s.syn /\ s.seq = Seq32(p.rcv_nxt - 1) THEN tcp_rexmit(p)
     ELSE p

AllAcked(p, s) == s.ack /\ s.ackno = p.snd_nxt

process_fin_wait_1(p, s) ==
  LET q == tcp_receive(p, s)
  IN IF GotFin(q) /\ AllAcked(q, s) THEN time_wait(tcp_ack_now(q))
     ELSE IF GotFin(q) THEN [tcp_ack_now(q) EXCEPT !.state = "CLOSING"]
     ELSE IF AllAcked(q, s) THEN [q EXCEPT !.state = "FIN_WAIT_2"] ELSE q

process_fin_wait_2(p, s) ==
  LET q == tcp_receive(p, s) IN IF GotFin(q) THEN time_wait(tcp_ack_now(q)) ELSE q

process_closing(p, s) ==
  LET q == tcp_receive(p, s) IN IF AllAcked(q, s) THEN time_wait(q) ELSE q

process_last_ack(p, s) ==
  LET q == tcp_receive(p, s) IN IF AllAcked(q, s) THEN Flag(q, "CLOSED") ELSE q

tcp_process(p, s, ok) ==
  CASE s.rst -> process_rst(p, s)
    [] ~s.rst /\ s.syn /\ p.state \notin {"SYN_SENT", "SYN_RCVD"} -> tcp_ack_now(p)
    [] OTHER ->
         CASE p.state = "SYN_SENT"   -> process_syn_sent(p, s)
           [] p.state = "SYN_RCVD"   -> process_syn_rcvd(p, s, ok)
           [] p.state \in {"ESTABLISHED", "CLOSE_WAIT"} -> passive_close(tcp_receive(p, s))
           [] p.state = "FIN_WAIT_1" -> process_fin_wait_1(p, s)
           [] p.state = "FIN_WAIT_2" -> process_fin_wait_2(p, s)
           [] p.state = "CLOSING"    -> process_closing(p, s)
           [] p.state = "LAST_ACK"   -> process_last_ack(p, s)

(***************************************************************************)
(* tcp_input: to the connection, or what is left of it, or the listener,   *)
(* which makes one connection.                                             *)
(***************************************************************************)
\* A slip: nobody is told.
end_quietly(p) == p

\* the application has only shut down its sending side: it does not expect this
unexpected_end(p) == IF p.rxclosed THEN p ELSE errf(p)

after_process(p, ok) ==
  LET q == IF p.recv_data = <<>> THEN p ELSE TCP_EVENT_RECV(p, p.recv_data, ok)
  IN CASE "ABRT" \in p.recv_flags   -> p
       [] "RESET" \in p.recv_flags  -> Freed(tcp_pcb_remove(errf(p)), "reset")
       [] "CLOSED" \in p.recv_flags -> Freed(tcp_pcb_remove(unexpected_end(p)), "closed")
       [] OTHER ->
            IF p.recv_data # <<>> /\ p.rxclosed THEN tcp_abort(p)
            ELSE IF ~GotFin(p) THEN tcp_output(q)
            ELSE IF q.refused # <<>> THEN tcp_output([q EXCEPT !.refused_fin = TRUE])
            ELSE tcp_output(TCP_EVENT_CLOSED(q))

\* A slip: a segment with data is processed although the last data is still refused.
input_over_refused(p, s, ok) ==
  after_process(tcp_process(IF p.refused # <<>> THEN tcp_process_refused_data(p, ok) ELSE p,
                            s, ok), ok)

active_input(p, s, ok) ==
  LET q == IF p.refused # <<>> THEN tcp_process_refused_data(p, ok) ELSE p
  IN IF q.refused # <<>> /\ (s.data # <<>> \/ s.syn \/ s.fin) THEN q
     ELSE after_process(tcp_process(q, s, ok), ok)

tcp_timewait_input(p, s) ==
  IF s.rst THEN p
  ELSE IF s.syn /\ BETWEEN(s.seq, p.rcv_nxt, p.rcv_nxt + p.rcv_wnd) THEN Send(p, Answered(s))
  ELSE IF s.data # <<>> \/ s.syn \/ s.fin THEN tcp_output(tcp_ack_now(p))
  ELSE p

tcp_listen_input(p, s, iss) ==
  IF s.rst THEN p
  ELSE IF s.ack THEN Send(p, Answered(s))
  ELSE IF s.syn /\ p.end = "no"
  THEN tcp_output(tcp_enqueue_flags(
         [tcp_alloc(iss) EXCEPT
            !.state = "SYN_RCVD", !.rcv_nxt = Seq32(s.seq + 1),
            !.rcv_ann_right_edge = Seq32(s.seq + 1), !.snd_wnd = s.wnd, !.snd_wnd_max = s.wnd,
            !.ssthresh = Cap(s.wnd), !.snd_wl1 = Seq32(s.seq - 1)], TRUE, FALSE))
  ELSE p

tcp_input(h, s, ok) ==
  LET p == pcb[h]
  IN CASE p.state = "TIME_WAIT" -> tcp_timewait_input(p, s)
       [] p.state # "CLOSED" /\ p.state # "TIME_WAIT" -> active_input(p, s, ok)
       [] p.state = "CLOSED" /\ h = "server" ->
            tcp_listen_input(p, s, Iss[h])
       [] OTHER -> IF s.rst THEN p ELSE Send(p, Answered(s))

(***************************************************************************)
(* The timers.  due: which of the times that a connection counts are up.   *)
(***************************************************************************)
rto_expired(p) ==
  tcp_rexmit_rto([p EXCEPT !.ssthresh = Cap(Halved(p)), !.cwnd = Cap(TCP_MSS)])

GivesUp(p) == p.nrtx = TCP_MAXRTX \/ (p.state = "SYN_SENT" /\ p.nrtx = TCP_SYNMAXRTX)
TooLong(p) == p.state \in {"SYN_RCVD", "LAST_ACK"} \/ (p.state = "FIN_WAIT_2" /\ p.rxclosed)

tcp_slowtmr(p, due) ==
  LET q == IF GivesUp(p) \/ "rtx" \notin due THEN p
           ELSE IF p.persist THEN tcp_zero_window_probe(p)
           ELSE IF p.unacked # <<>> /\ p.rtime THEN rto_expired(p) ELSE p
      r == IF "idle" \in due THEN [q EXCEPT !.ooseq = <<>>] ELSE q
  IN IF p.state = "TIME_WAIT" THEN IF "idle" \in due THEN Freed(p, "closed") ELSE p
     ELSE IF GivesUp(p) \/ ("idle" \in due /\ TooLong(p))
     THEN errf(Freed(tcp_pcb_purge(r), "timeout"))
     ELSE IF "poll" \in due THEN tcp_output(r) ELSE r

tcp_fasttmr(p, ok) ==
  LET q == IF "delay" \in p.ack THEN [tcp_output(tcp_ack_now(p)) EXCEPT !.ack = {}] ELSE p
  IN IF q.refused # <<>> THEN tcp_process_refused_data(q, ok) ELSE q

(***************************************************************************)
(* The API.                                                                *)
(***************************************************************************)
tcp_connect(iss) ==
  tcp_output([tcp_enqueue_flags(
                [tcp_alloc(iss) EXCEPT !.lastack = Seq32(iss - 1), !.snd_lbb = Seq32(iss - 1),
                                       !.snd_wnd = TCP_WND, !.ssthresh = Cap(10 * TCP_MSS)],
                TRUE, FALSE) EXCEPT !.state = "SYN_SENT", !.held = TRUE])

tcp_recved(p, n) ==
  LET q == [p EXCEPT !.rcv_wnd = Min({@ + n, TCP_WND}), !.unread = @ - n]
      r == tcp_update_rcv_ann_wnd(q)
  IN IF wnd_inflation(q) >= TCP_WND \div 4 THEN tcp_output(tcp_ack_now(r)) ELSE r

NotAllTaken(p) == p.refused # <<>> \/ p.rcv_wnd # TCP_WND
FinFits(p) == FinJoins(p) \/ p.snd_buf > 0

tcp_close_shutdown(p, rst_on_unacked_data) ==
  CASE /\ rst_on_unacked_data /\ NotAllTaken(p)
       /\ p.state \in {"ESTABLISHED", "CLOSE_WAIT"} ->
         LET q == tcp_pcb_purge(Send(p, tcp_rst(p.snd_nxt, p.rcv_nxt)))
         IN IF p.state = "CLOSE_WAIT" THEN Freed(q, "aborted")
            ELSE [q EXCEPT !.state = "TIME_WAIT", !.end = "aborted"]
    [] p.state = "SYN_SENT" -> Freed(tcp_pcb_remove(p), "aborted")
    [] /\ ~(rst_on_unacked_data /\ NotAllTaken(p))
       /\ p.state \in {"ESTABLISHED", "CLOSE_WAIT"} /\ FinFits(p) ->
         tcp_output([tcp_send_fin(p) EXCEPT
           !.state = IF p.state = "CLOSE_WAIT" THEN "LAST_ACK" ELSE "FIN_WAIT_1"])
    [] OTHER -> p

Refuses(p) == p.state \in {"ESTABLISHED", "CLOSE_WAIT"} /\ ~FinFits(p)   \* ERR_MEM

tcp_close(p) ==
  LET q == tcp_close_shutdown([p EXCEPT !.rxclosed = TRUE], TRUE)
  IN IF Refuses(p) /\ ~NotAllTaken(p) THEN q ELSE [q EXCEPT !.held = FALSE]

tcp_shutdown(p, rx, tx) ==
  IF rx /\ tx THEN tcp_close(p)
  ELSE IF rx THEN [p EXCEPT !.rxclosed = TRUE, !.refused = <<>>, !.refused_fin = FALSE]
  ELSE IF tx /\ p.state \in {"ESTABLISHED", "CLOSE_WAIT"} THEN tcp_close_shutdown(p, FALSE)
  ELSE p

(***************************************************************************)
(* What applications see to:                                               *)
(*   "sent"    they close, or stop sending, when nothing waits to be sent; *)
(*   "takes"   one that has stopped sending takes all it is given;         *)
(*   "whole"   one that shuts down both sides does so in one call;         *)
(*   "prompt"  one that holds a connection in TIME_WAIT lets go of it      *)
(*             before that runs out.                                       *)
(***************************************************************************)
Done(p) == "sent" \in Duties => p.unsent = <<>>
Taken(p) == "takes" \in Duties => p.refused = <<>>
HalfClosed(p) == p.fin /\ ~p.rxclosed
Apart(p, rx, tx) == (tx /\ ~rx /\ p.rxclosed) \/ (rx /\ ~tx /\ p.fin)
Answers(p) == IF "takes" \in Duties /\ HalfClosed(p) THEN {TRUE} ELSE BOOLEAN

(***************************************************************************)
(* The network: a segment may arrive again and again, in any order, until  *)
(* others have pushed it out.  One that never arrives is lost.             *)
(***************************************************************************)
Queue(all) == IF Cardinality(all) <= Room THEN {all} ELSE kSubset(Room, all)

Become(h, p) ==
  /\ pcb' = [pcb EXCEPT ![h] = [p EXCEPT !.out = {}, !.recv_data = <<>>, !.recv_flags = {}]]
  /\ \E n \in Queue(net[Peer(h)] \cup p.out) : net' = [net EXCEPT ![Peer(h)] = n]
  /\ UNCHANGED app

Connect ==
  /\ pcb["client"].state = "CLOSED" /\ pcb["client"].end = "no"
  /\ Become("client", tcp_connect(Iss["client"]))

Arrive(h) ==
  \E s \in net[h], ok \in Answers(pcb[h]) :
    Become(h, tcp_input(h, s, ok))

Fast(h) ==
  /\ pcb[h].state \notin {"CLOSED", "TIME_WAIT"}
  /\ "delay" \in pcb[h].ack \/ pcb[h].refused # <<>>
  /\ \E ok \in Answers(pcb[h]) : Become(h, tcp_fasttmr(pcb[h], ok))

\* the times that would make a difference
Running(p) ==
  {d \in {"rtx", "idle", "poll"} :
     CASE d = "rtx"  -> p.persist \/ p.rtime
       [] d = "idle" -> p.ooseq # <<>> \/ TooLong(p) \/ p.state = "TIME_WAIT"
       [] d = "poll" -> p.unsent # <<>> \/ p.ack # {}}

Slow(h) ==
  /\ pcb[h].state # "CLOSED"
  /\ "prompt" \in Duties => ~(pcb[h].state = "TIME_WAIT" /\ pcb[h].held)
  /\ \E due \in SUBSET Running(pcb[h]) : Become(h, tcp_slowtmr(pcb[h], due))

Calls(h, f) == f \in app[h].calls /\ pcb[h].held /\ pcb[h].state # "CLOSED"

Write(h) ==
  LET p == pcb[h]
      room == Min({p.snd_buf, app[h].writes - p.wrote})
  IN /\ Calls(h, "write") /\ p.state \in {"ESTABLISHED", "CLOSE_WAIT"} /\ mss_local(p) > 0
     /\ \E n \in app[h].sizes \cap 1 .. room :
          Become(h, tcp_output(tcp_write(p, [i \in 1 .. n |-> p.wrote + i])))

Read(h) ==
  /\ Calls(h, "read")
  /\ \E n \in 1 .. pcb[h].unread : Become(h, tcp_recved(pcb[h], n))

Close(h) == Calls(h, "close") /\ Done(pcb[h]) /\ Become(h, tcp_close(pcb[h]))

Shutdown(h) ==
  /\ Calls(h, "shutdown")
  /\ \E rx, tx \in BOOLEAN :
       /\ tx => Done(pcb[h]) /\ Taken(pcb[h])
       /\ "whole" \in Duties => ~Apart(pcb[h], rx, tx)
       /\ Become(h, tcp_shutdown(pcb[h], rx, tx))

Abort(h) == Calls(h, "abort") /\ Become(h, [tcp_abort(pcb[h]) EXCEPT !.held = FALSE])

Next ==
  \/ Connect
  \/ \E h \in Host : \/ Arrive(h) \/ Fast(h) \/ Slow(h)
                     \/ Write(h) \/ Read(h) \/ Close(h) \/ Shutdown(h) \/ Abort(h)

Spec == Init /\ [][Next]_vars

(***************************************************************************)
(* Properties.                                                             *)
(***************************************************************************)
Written(h) == [i \in 1 .. pcb[h].wrote |-> i]

\* What tcp_input passes to the receive callback of one side is, in order and without a gap,
\* what the other side has passed to tcp_write; it reports the end only after all of it.
DeliversInOrder ==
  \A h \in Host : /\ IsPrefix(pcb[h].got, Written(Peer(h)))
                  /\ pcb[h].eof => pcb[h].got = Written(Peer(h))

\* What a sender's stack has let go of, its queues hold no longer, has reached the other
\* application, or is kept for it as refused data while something will still deliver that:
\* unless one of the two was told that the connection failed, or wants no more data.  So
\* nothing is acknowledged in vain, and no regular end throws data away, on either side.
Fine(h) == pcb[h].end \in {"no", "closed"}
Bytes(q) == FoldLeft(LAMBDA n, x : n + Len(x.data), 0, q)
LetGo(h) == pcb[h].wrote - Bytes(pcb[h].unsent \o pcb[h].unacked)
Kept(h) == IF pcb[h].state \in {"CLOSED", "TIME_WAIT"} THEN 0 ELSE Len(pcb[h].refused)

NothingLost ==
  \A h \in Host : LET g == Peer(h) IN
    Fine(h) /\ Fine(g) /\ ~pcb[g].rxclosed => LetGo(h) <= Len(pcb[g].got) + Kept(g)

\* An application that has neither closed its pcb nor been told of its end through errf still
\* has one: no timer frees it behind the application's back.
HandleAlive == \A h \in Host : pcb[h].held => pcb[h].state # "CLOSED"

\* The window never shrinks: what has been announced to the peer (rcv_ann_right_edge) stays
\* within what tcp_receive accepts.
WindowKept ==
  \A h \in Host : pcb[h].state \in {"ESTABLISHED", "FIN_WAIT_1", "FIN_WAIT_2"} =>
    LEQ(pcb[h].rcv_ann_right_edge, new_right_edge(pcb[h]))

\* The retransmission counter never passes TCP_MAXRTX, the value at which tcp_slowtmr gives up.
RetriesBounded == \A h \in Host : pcb[h].nrtx <= TCP_MAXRTX

\* The assertion of tcp_receive: a segment taken from ooseq fits in the window.
WindowCovers == \A h \in Host : pcb[h].rcv_wnd <= TCP_WND
=============================================================================
