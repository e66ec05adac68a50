----------------------------- MODULE PortShare -----------------------------
(***************************************************************************)
(* The port-share proxy (ps.c).  The OpenVPN server hands the TCP clients  *)
(* that do not speak its protocol, with the data it has read from them, to *)
(* a background process over a datagram socket; the background process     *)
(* connects each one to the other server of the port and copies both ways. *)
(*                                                                         *)
(* A proxied connection is a pair of proxy_connection entries: "c" reads   *)
(* from the client, "s" from the server; entry e forwards to Other(e).     *)
(***************************************************************************)
EXTENDS Naturals, Sequences, FiniteSets

CONSTANTS Configs,        \* [conns, bytes, closers]: the connections, what each end sends, and
                          \* how the server ends: "close", "abort", "killed"
          BufSize,        \* PROXY_CONNECTION_BUFFER_SIZE
          MaxTransfer,    \* max_transfer_per_iteration
          Room,           \* what the kernel buffers of a socket
          QueueLen        \* control messages the kernel buffers

VARIABLES cfg,            \* the configuration
          foreground,     \* the server: "run", "waiting" (in waitpid), "ended"
          background,     \* the proxy: "init", "run", "exited"
          control,        \* control messages not yet received
          pair,           \* "none", "sent", "open", "marked" for close, "freed", "refused"
          rwflags,        \* what the event set watches of each entry
          buf,            \* struct buffer of each entry
          net,            \* each end's network: [in, sent, eof, room, got]
          esr,            \* events event_wait returned that are still to be handled
          journal         \* connections with a journal file

vars == <<cfg, foreground, background, control, pair, rwflags, buf, net, esr, journal>>

Ends == {"c", "s"}
Other(e) == IF e = "c" THEN "s" ELSE "c"
Conns == cfg.conns
Entries == Conns \X Ends
Bytes(n) == [i \in 1 .. n |-> i]

\* The first byte of a client has already been read by the server: initial_data
NewNet == [e \in Ends |-> [in |-> <<>>, sent |-> IF e = "c" THEN 1 ELSE 0, eof |-> FALSE,
                           room |-> Room, got |-> <<>>]]

Init ==
    /\ cfg \in Configs
    /\ foreground = "run" /\ background = "init" /\ control = <<>>
    /\ pair = [k \in Conns |-> "none"]
    /\ rwflags = [x \in Entries |-> {}]
    /\ buf = [x \in Entries |-> <<>>]
    /\ net = [k \in Conns |-> NewNet]
    /\ esr = {} /\ journal = {}

(***************************************************************************)
(* The foreground process.                                                 *)
(***************************************************************************)
\* port_share_open: the foreground waits for the background's first byte
port_share_open ==
    /\ background = "init"
    /\ background' = "run"
    /\ UNCHANGED <<cfg, foreground, control, pair, rwflags, buf, net, esr, journal>>

\* sendmsg on a nonblocking socket: without room the message is lost
port_share_sendmsg(m) ==
    control' = IF Len(control) < QueueLen /\ background = "run" THEN Append(control, m) ELSE control

\* port_share_redirect: the server closes its own copy of the socket afterwards
port_share_redirect(k) ==
    /\ foreground = "run" /\ background # "init" /\ pair[k] = "none"
    /\ port_share_sendmsg([command |-> "redirect", conn |-> k])
    /\ pair' = [pair EXCEPT ![k] = IF control' = control THEN "refused" ELSE "sent"]
    /\ UNCHANGED <<cfg, foreground, background, rwflags, buf, net, esr, journal>>

\* port_share_close tells the proxy to exit and waits for it; port_share_abort (after a
\* fatal error) does not wait; a server that is killed tells nobody.
port_share_close(how) ==
    /\ foreground = "run" /\ background # "init"
    /\ IF how = "killed" THEN UNCHANGED control
       ELSE port_share_sendmsg([command |-> "exit"])
    /\ foreground' = IF how = "close" THEN "waiting" ELSE "ended"
    /\ UNCHANGED <<cfg, background, pair, rwflags, buf, net, esr, journal>>

waitpid ==
    /\ foreground = "waiting" /\ background = "exited"
    /\ foreground' = "ended"
    /\ UNCHANGED <<cfg, background, control, pair, rwflags, buf, net, esr, journal>>

(***************************************************************************)
(* The background process.                                                 *)
(***************************************************************************)
\* Both entries of a connection are closed together, and the journal file is removed.
proxy_entry_mark_for_close(k) ==
    /\ pair' = [pair EXCEPT ![k] = "marked"]
    /\ rwflags' = [x \in Entries |-> IF x[1] = k THEN {} ELSE rwflags[x]]
    /\ buf' = [x \in Entries |-> IF x[1] = k THEN <<>> ELSE buf[x]]
    /\ journal' = journal \ {k}

\* proxy_entry_new, connecting to the other server succeeds or fails
proxy_entry_new(k) ==
    \/ /\ pair' = [pair EXCEPT ![k] = "open"]
       /\ buf' = [buf EXCEPT ![<<k, "c">>] = Bytes(1)]
       /\ rwflags' = [rwflags EXCEPT ![<<k, "c">>] = {"read"}, ![<<k, "s">>] = {"read", "write"}]
       /\ journal' = journal \cup {k}
    \/ /\ pair' = [pair EXCEPT ![k] = "refused"]
       /\ UNCHANGED <<buf, rwflags, journal>>

\* proxy_list_close: on COMMAND_EXIT everything is closed
proxy_list_close ==
    /\ pair' = [k \in Conns |-> IF pair[k] \in {"open", "marked"} THEN "freed"
                                ELSE IF pair[k] = "sent" THEN "refused" ELSE pair[k]]
    /\ rwflags' = [x \in Entries |-> {}]
    /\ buf' = [x \in Entries |-> <<>>]
    /\ journal' = journal \ {k \in Conns : pair[k] \in {"open", "marked"}}

\* event_wait: any nonempty set of the events that are due
Due(x) == {f \in rwflags[x] : IF f = "read" THEN net[x[1]][x[2]].in # <<>> \/ net[x[1]][x[2]].eof
                              ELSE net[x[1]][x[2]].room > 0}

event_wait ==
    /\ background = "run" /\ esr = {}
    /\ LET due == {[entry |-> x, flags |-> Due(x)] : x \in {y \in Entries : Due(y) # {}}}
                     \cup (IF control # <<>> THEN {[entry |-> <<"control">>, flags |-> {"read"}]} ELSE {})
       IN  due # {} /\ esr' = due
    /\ UNCHANGED <<cfg, foreground, background, control, pair, rwflags, buf, net, journal>>

\* The handling of one event; after the last one the marked entries are freed
\* (proxy_list_housekeeping, at most once a second).
control_message_from_parent ==
    /\ background = "run"
    /\ \E ev \in esr : ev.entry = <<"control">> /\ esr' = esr \ {ev}
    /\ control # <<>>
    /\ control' = Tail(control)
    /\ IF Head(control).command = "redirect"
       THEN proxy_entry_new(Head(control).conn) /\ UNCHANGED background
       ELSE proxy_list_close /\ background' = "exited"
    /\ UNCHANGED <<cfg, foreground, net>>

\* proxy_connection_io_status: what to wait for next
proxy_connection_io_status(status, reader, writer) ==
    IF status = "eagain_read" THEN <<reader \cup {"read"}, writer \ {"write"}>>
    ELSE <<reader \ {"read"}, writer \cup {"write"}>>

\* proxy_connection_io_recv: as much as the buffer takes
proxy_connection_io_recv(b, n) ==
    LET m == IF Len(n.in) < BufSize THEN Len(n.in) ELSE BufSize IN
    <<SubSeq(n.in, 1, m), SubSeq(n.in, m + 1, Len(n.in))>>

\* Mutant: what a partial write left over is dropped
AfterSend_Drops(b, m) == <<>>

\* buf_advance
AfterSend(b, m) == SubSeq(b, m + 1, Len(b))

\* proxy_connection_io_xfer: the state s = [status, b, r, w] of the buffer, the network read
\* from and the one written to, after `done' bytes; a write to a peer that is gone fails
RECURSIVE proxy_connection_io_xfer(_, _, _, _, _)
proxy_connection_io_xfer(b, r, w, done, gone) ==
    IF done >= MaxTransfer THEN [status |-> "eagain_read", b |-> b, r |-> r, w |-> w]
    ELSE IF b = <<>> /\ r.in = <<>>
    THEN [status |-> IF r.eof THEN "error" ELSE "eagain_read", b |-> b, r |-> r, w |-> w]
    ELSE LET got == proxy_connection_io_recv(b, r)
             b2 == IF b = <<>> THEN got[1] ELSE b
             r2 == IF b = <<>> THEN [r EXCEPT !.in = got[2]] ELSE r
             m  == IF Len(b2) < w.room THEN Len(b2) ELSE w.room
             w2 == [w EXCEPT !.got = @ \o SubSeq(b2, 1, m), !.room = @ - m]
         IN  IF gone THEN [status |-> "error", b |-> b2, r |-> r2, w |-> w]
             ELSE IF m < Len(b2)
             THEN [status |-> "eagain_write", b |-> AfterSend(b2, m), r |-> r2, w |-> w2]
             ELSE proxy_connection_io_xfer(<<>>, r2, w2, done + m, gone)

\* One direction of a dispatch: from entry e of connection k, `s' being the state so far
Forward(k, e, s, gone) ==
    LET x == proxy_connection_io_xfer(s.buf[e], s.net[e], s.net[Other(e)], 0, Other(e) \in gone)
        f == proxy_connection_io_status(x.status, s.rw[e], s.rw[Other(e)])
    IN  IF s.bad THEN s
        ELSE [bad |-> x.status = "error",
              buf |-> [s.buf EXCEPT ![e] = x.b],
              net |-> [s.net EXCEPT ![e] = x.r, ![Other(e)] = x.w],
              rw |-> [s.rw EXCEPT ![e] = f[1], ![Other(e)] = f[2]]]

\* A peer that has closed may have gone altogether, so that writing to it fails.
PeersGone(k) == SUBSET {d \in Ends : net[k][d].eof}

proxy_connection_io_dispatch ==
    /\ background = "run"
    /\ \E ev \in esr : \E gone \in (IF ev.entry # <<"control">> THEN PeersGone(ev.entry[1]) ELSE {{}}) :
         /\ ev.entry # <<"control">> /\ esr' = esr \ {ev}
         /\ LET k == ev.entry[1]
                e == ev.entry[2]
                s0 == [bad |-> FALSE, buf |-> [d \in Ends |-> buf[<<k, d>>]], net |-> net[k],
                       rw |-> [d \in Ends |-> rwflags[<<k, d>>]]]
                s1 == IF "read" \in ev.flags THEN Forward(k, e, s0, gone) ELSE s0
                s2 == IF "write" \in ev.flags THEN Forward(k, Other(e), s1, gone) ELSE s1
            IN  IF pair[k] # "open" THEN UNCHANGED <<pair, rwflags, buf, net, journal>>
                ELSE /\ net' = [net EXCEPT ![k] = s2.net]
                     /\ IF s2.bad THEN proxy_entry_mark_for_close(k)
                        ELSE /\ buf' = [x \in Entries |-> IF x[1] = k THEN s2.buf[x[2]] ELSE buf[x]]
                             /\ rwflags' = [x \in Entries |-> IF x[1] = k THEN s2.rw[x[2]] ELSE rwflags[x]]
                             /\ UNCHANGED <<pair, journal>>
    /\ UNCHANGED <<cfg, foreground, background, control>>

proxy_list_housekeeping ==
    /\ background = "run" /\ esr = {}
    /\ \E k \in Conns : pair[k] = "marked"
    /\ pair' = [k \in Conns |-> IF pair[k] = "marked" THEN "freed" ELSE pair[k]]
    /\ UNCHANGED <<cfg, foreground, background, control, rwflags, buf, net, esr, journal>>

(***************************************************************************)
(* The two ends of a proxied connection.                                   *)
(***************************************************************************)
PeerSends(k, e) ==
    /\ pair[k] = "open" /\ net[k][e].sent < cfg.bytes[e] /\ ~net[k][e].eof
    /\ net' = [net EXCEPT ![k][e].sent = @ + 1, ![k][e].in = Append(@, net[k][e].sent + 1)]
    /\ UNCHANGED <<cfg, foreground, background, control, pair, rwflags, buf, esr, journal>>

PeerCloses(k, e) ==
    /\ pair[k] = "open" /\ ~net[k][e].eof
    /\ net' = [net EXCEPT ![k][e].eof = TRUE]
    /\ UNCHANGED <<cfg, foreground, background, control, pair, rwflags, buf, esr, journal>>

PeerReads(k, e) ==
    /\ pair[k] = "open" /\ net[k][e].room < Room
    /\ net' = [net EXCEPT ![k][e].room = Room]
    /\ UNCHANGED <<cfg, foreground, background, control, pair, rwflags, buf, esr, journal>>

Proxy == event_wait \/ control_message_from_parent \/ proxy_connection_io_dispatch

Next ==
    \/ port_share_open \/ (\E k \in Conns : port_share_redirect(k))
    \/ (\E how \in cfg.closers : port_share_close(how)) \/ waitpid
    \/ Proxy \/ proxy_list_housekeeping
    \/ \E k \in Conns, e \in Ends : PeerSends(k, e) \/ PeerCloses(k, e) \/ PeerReads(k, e)

Spec == Init /\ [][Next]_vars

(***************************************************************************)
(* Properties.                                                             *)
(***************************************************************************)
TypeOK ==
    /\ foreground \in {"run", "waiting", "ended"} /\ background \in {"init", "run", "exited"}
    /\ Len(control) <= QueueLen
    /\ \A k \in Conns : pair[k] \in {"none", "sent", "open", "marked", "freed", "refused"}
    /\ \A x \in Entries : rwflags[x] \subseteq {"read", "write"} /\ Len(buf[x]) <= BufSize
    /\ journal \subseteq Conns

\* Each end receives, byte for byte and in order, what the other one sent: what it got, what
\* the proxy holds and what is still unread make up the stream.
StreamsIntact ==
    \A k \in Conns, e \in Ends :
      pair[k] = "open" =>
        net[k][Other(e)].got \o buf[<<k, e>>] \o net[k][e].in = Bytes(net[k][e].sent)

\* No event the proxy is about to handle, and no watched descriptor, belongs to an entry that
\* was freed; the journal directory names exactly the connections that are open.
EntriesAreLive ==
    /\ \A ev \in esr : ev.entry # <<"control">> /\ background = "run" => pair[ev.entry[1]] # "freed"
    /\ \A x \in Entries : rwflags[x] # {} => pair[x[1]] = "open"
    /\ journal = {k \in Conns : pair[k] = "open"}

\* Nothing gets stuck in the proxy: of an open connection, what is held for a peer waits for
\* that peer to become writable, and where nothing is held the proxy waits for more.
NoLostWakeup ==
    \A k \in Conns, e \in Ends :
      pair[k] = "open" => IF buf[<<k, e>>] # <<>> THEN "write" \in rwflags[<<k, Other(e)>>]
                          ELSE "read" \in rwflags[<<k, e>>]

=============================================================================
