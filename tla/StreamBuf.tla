----------------------------- MODULE StreamBuf -----------------------------
(***************************************************************************)
(* OpenVPN packets over a byte stream: the length prefix put before every  *)
(* packet (link_socket_write_tcp), the reassembly of packets from whatever *)
(* pieces recv returns (struct stream_buf), the bytes an HTTP proxy lets   *)
(* through behind its reply (recv_line with a look-ahead buffer), and the  *)
(* recognition of a foreign protocol on a shared port.                     *)
(*                                                                         *)
(* A byte is a pair <<packet, position>>; positions 1 and 2 are the length *)
(* prefix.  Proxy text is the packet 0.                                    *)
(***************************************************************************)
EXTENDS Integers, Sequences

CONSTANTS
    Configs,     \* [http_proxy, port_share : BOOLEAN, noise : what two bytes that are no prefix encode,
                 \*  foreign : the peer speaks another protocol, its first two bytes are "near" to
                 \*  a length of OpenVPN or "far" from one, or "no"]
    Sizes,       \* payload sizes of the packets the peer may send
    MaxLen,      \* stream_buf.maxlen
    Tailroom,    \* room behind MaxLen in the buffer
    MaxPackets,  \* bound: packets sent
    MaxLines     \* bound: extra lines the proxy sends behind its reply

VARIABLES
    cfg,
    sent,       \* sizes of the packets written, in order
    cut,        \* history: the first packet of which send() took a part only, or 0
    wire,       \* bytes on their way to the receiver
    sb,         \* struct stream_buf: buf, residual, len, residual_fully_formed, error, port_share_state;
                \* judged (history): how many bytes is_openvpn_protocol has looked at
    delivered,  \* packets handed to the event loop, as sequences of bytes
    proxy,      \* "line", "extra", "done": where establish_http_proxy_passthru is
    lines       \* lines the proxy has sent

vars == <<cfg, sent, cut, wire, sb, delivered, proxy, lines>>

stream_buf_reset(s) == [s EXCEPT !.buf = <<>>, !.len = -1, !.residual_fully_formed = FALSE]

stream_buf_init ==
    [buf |-> <<>>, residual |-> <<>>, len |-> -1, residual_fully_formed |-> FALSE,
     error |-> FALSE, judged |-> 0, port_share_state |-> IF cfg.port_share THEN "ENABLED" ELSE "DISABLED"]

Init ==
    /\ cfg \in Configs
    /\ sent = <<>> /\ cut = 0 /\ wire = <<>>
    /\ sb = stream_buf_init
    /\ delivered = <<>>
    /\ proxy = (IF cfg.http_proxy THEN "line" ELSE "done")
    /\ lines = 0

-----------------------------------------------------------------------------
(* The peer, and the proxy in front of it.                                 *)

Bytes(p, n) == [i \in 1..(n + 2) |-> <<p, i>>]

\* send() on a socket that does not block takes k bytes of the packet and its prefix.  The
\* rest is dropped: process_outgoing_link logs that the packet was truncated and resets the
\* buffer.  (When send() takes nothing at all the packet is lost, and the stream as it was.)
\* Bound: one packet is cut.
link_socket_write_tcp(n, k) ==
    /\ Len(sent) < MaxPackets
    /\ k < n + 2 => cut = 0
    /\ cfg.http_proxy => lines > 0          \* the tunnel is open
    /\ sent' = Append(sent, n)
    /\ cut' = IF k < n + 2 THEN Len(sent) + 1 ELSE cut
    /\ wire' = wire \o SubSeq(Bytes(Len(sent) + 1, n), 1, k)
    /\ UNCHANGED <<cfg, sb, delivered, proxy, lines>>

\* A line of the proxy: one printable byte and the end of line.
ProxyLine ==
    /\ cfg.http_proxy /\ sent = <<>> /\ lines < MaxLines
    /\ lines' = lines + 1
    /\ wire' = wire \o <<<<0, 1>>, <<0, 2>>>>
    /\ UNCHANGED <<cfg, sent, cut, sb, delivered, proxy>>

-----------------------------------------------------------------------------
(* establish_http_proxy_passthru after a status of 200.                    *)

IsText(b) == b[1] = 0
EndOfLine(b) == b = <<0, 2>>

\* The line after the status line is read to its end; what it holds is dropped.
recv_line ==
    /\ proxy = "line" /\ wire # <<>>
    /\ wire' = Tail(wire)
    /\ proxy' = IF EndOfLine(Head(wire)) THEN "extra" ELSE "line"
    /\ UNCHANGED <<cfg, sent, cut, sb, delivered, lines>>

\* Further lines are dropped until nothing comes for two seconds; the first
\* byte that is not text belongs to OpenVPN and is kept.
recv_line_lookahead ==
    /\ proxy = "extra" /\ wire # <<>>
    /\ wire' = Tail(wire)
    /\ IF IsText(Head(wire)) THEN UNCHANGED <<sb, proxy>>
       ELSE /\ sb' = [sb EXCEPT !.residual = <<Head(wire)>>]
            /\ proxy' = "done"
    /\ UNCHANGED <<cfg, sent, cut, delivered, lines>>

recv_line_timeout ==
    /\ proxy = "extra" /\ wire = <<>> /\ proxy' = "done"
    /\ UNCHANGED <<cfg, sent, cut, wire, sb, delivered, lines>>

-----------------------------------------------------------------------------
(* The receiver.                                                           *)

\* The length the first two bytes of the buffer encode.
PacketSize(s) ==
    IF s[1][1] > 0 /\ s[1][2] = 1 /\ s[2] = <<s[1][1], 2>> THEN sent[s[1][1]] ELSE cfg.noise

\* The length alone decides when no more than two bytes have been read; from the third on the
\* opcode does.
is_openvpn_protocol(s) == cfg.foreign = "no" \/ (cfg.foreign = "near" /\ Len(s) = 2)

\* The part of stream_buf_added that reads the prefix.
TakesPrefix(s) == s.len < 0 /\ Len(s.buf) >= 2

WithPrefix(s) ==
    IF ~TakesPrefix(s) THEN s
    ELSE IF s.port_share_state = "ENABLED" /\ ~is_openvpn_protocol(s.buf)
    THEN [s EXCEPT !.port_share_state = "FOREIGN", !.judged = Len(s.buf), !.error = TRUE]
    ELSE LET n == PacketSize(s.buf)
             t == [s EXCEPT !.port_share_state = "DISABLED",
                            !.judged = IF s.port_share_state = "ENABLED" THEN Len(s.buf) ELSE @]
         IN IF n < 1 \/ n > MaxLen THEN [stream_buf_reset(t) EXCEPT !.error = TRUE]
            ELSE [t EXCEPT !.len = n, !.buf = SubSeq(@, 3, Len(@))]

Complete(s) == ~s.error /\ s.len > 0 /\ Len(s.buf) >= s.len

\* Mutant: what was read behind a complete packet is thrown away.
stream_buf_added_NoResidual(s) ==
    LET t == WithPrefix(s) IN
    IF Complete(t) THEN [t EXCEPT !.residual = <<>>, !.buf = SubSeq(t.buf, 1, t.len)] ELSE t

\* stream_buf_added: the rest behind a complete packet goes to residual.
stream_buf_added(s) ==
    LET t == WithPrefix(s) IN
    IF Complete(t)
    THEN [t EXCEPT !.residual = SubSeq(t.buf, t.len + 1, Len(t.buf)),
                   !.buf = SubSeq(t.buf, 1, t.len)]
    ELSE t

\* stream_buf_read_setup, from socket_set or before a read: a packet may be
\* complete already in what is left over from the last read.
stream_buf_read_setup(s) ==
    IF s.residual # <<>> /\ ~s.residual_fully_formed
    THEN LET t == stream_buf_added([s EXCEPT !.buf = s.residual, !.residual = <<>>])
         IN [t EXCEPT !.residual_fully_formed = Complete(t)]
    ELSE s

\* stream_buf_get_next: how much the next recv may return
NextLen(s) == (IF s.len >= 0 THEN s.len ELSE MaxLen) - Len(s.buf)

Deliver(s) ==
    IF Complete(s)
    THEN /\ delivered' = Append(delivered, s.buf)
         /\ sb' = stream_buf_reset(s)
    ELSE /\ sb' = s
         /\ UNCHANGED delivered

Ready == proxy = "done" /\ ~sb.error

\* link_socket_read_tcp when a left-over packet is complete: recv is not called.
ReadResidual ==
    /\ Ready
    /\ LET s == stream_buf_read_setup(sb) IN
       /\ s.residual_fully_formed \/ s.error
       /\ Deliver(s)
    /\ UNCHANGED <<cfg, sent, cut, wire, proxy, lines>>

\* link_socket_read_tcp with k bytes returned by recv
link_socket_read_tcp(k) ==
    /\ Ready /\ wire # <<>>
    /\ LET s == stream_buf_read_setup(sb) IN
       /\ ~s.residual_fully_formed /\ ~s.error
       /\ k <= NextLen(s)
       /\ Deliver(stream_buf_added([s EXCEPT !.buf = @ \o SubSeq(wire, 1, k)]))
       /\ wire' = SubSeq(wire, k + 1, Len(wire))
    /\ UNCHANGED <<cfg, sent, cut, proxy, lines>>

\* What the event loop looks at before it waits: the reader has something to do.
MayRead ==
    \/ proxy = "line" /\ wire # <<>>
    \/ proxy = "extra"
    \/ Ready /\ LET s == stream_buf_read_setup(sb)
                IN  s.residual_fully_formed \/ s.error \/ (wire # <<>> /\ NextLen(s) > 0)

Receive ==
    \/ recv_line \/ recv_line_lookahead \/ recv_line_timeout
    \/ ReadResidual
    \/ \E k \in 1..Len(wire) : link_socket_read_tcp(k)

Next ==
    \/ \E n \in Sizes : \E k \in 1..(n + 2) : link_socket_write_tcp(n, k)
    \/ ProxyLine
    \/ Receive

Spec == Init /\ [][Next]_vars

-----------------------------------------------------------------------------
TypeOK ==
    /\ cfg \in Configs
    /\ \A i \in 1..Len(sent) : sent[i] \in Sizes
    /\ sb.len \in -1..MaxLen
    /\ sb.port_share_state \in {"DISABLED", "ENABLED", "FOREIGN"}
    /\ proxy \in {"line", "extra", "done"}

\* Framing: up to the first packet that send() cut short, what comes out of the reader is,
\* packet by packet and byte by byte, what the peer wrote, however recv cuts the stream and
\* whatever the proxy sent before; a packet of a size outside 1..MaxLen is not delivered, and
\* nothing behind it.  From a packet that was cut on the stream is out of frame.
PacketsAsWritten ==
    \A i \in 1..Len(delivered) : cut = 0 \/ i < cut =>
        /\ i <= Len(sent) /\ sent[i] \in 1..MaxLen
        /\ delivered[i] = [j \in 1..sent[i] |-> <<i, j + 2>>]

\* A foreign protocol on a shared port is handed on before anything of it is taken for a
\* packet, unless the first read returned just two bytes that could be a length.
ForeignIsRecognized ==
    cfg.port_share /\ delivered # <<>> =>
        cfg.foreign = "no" \/ (cfg.foreign = "near" /\ sb.judged = 2)

\* The assertions of stream_buf_get_next: there is room for at least one byte,
\* and what may be read fits behind what is already in the buffer.
RoomToRead ==
    Ready => LET s == stream_buf_read_setup(sb) IN
        (~s.residual_fully_formed /\ ~s.error) =>
            /\ NextLen(s) > 0
            /\ (IF s.len >= 0 THEN 2 ELSE 0) + Len(s.buf) + NextLen(s) <= MaxLen + Tailroom

\* No packet is left waiting in the buffers of the receiver: when it has nothing to do, all
\* that was written, up to a packet that was cut, is delivered, or the connection ends because
\* of an error.
NothingStuck ==
    ~MayRead => sb.error \/ Len(delivered) >= (IF cut = 0 THEN Len(sent) ELSE cut - 1)
=============================================================================
