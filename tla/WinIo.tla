-------------------------------- MODULE WinIo --------------------------------
(***************************************************************************)
(* Overlapped I/O under Windows: the event loop queues one operation on a  *)
(* handle, the system completes it at once, later or with an error and     *)
(* signals the operation's event, and the loop finalizes it when it finds  *)
(* the event set.  One instance is one direction of one handle: reads and  *)
(* writes of the link socket and of the TAP adapter, and the notices of    *)
(* the offload driver (socket.c, socket.h, tun.c, win32.c, dco_win.c).     *)
(***************************************************************************)
EXTENDS Naturals, Sequences, SequencesExt

CONSTANTS
    Kinds,      \* the handles: a subset of {"socket", "tun", "dco", "socket out", "tun out"}
    MaxPackets, \* bound on the packets that pass
    MaxErrors   \* bound on the operations that fail

VARIABLES
    kind,       \* the handle and direction
    io,         \* struct overlapped_io: [iostate, status, event, buf]
    os,         \* the system's side: [pending: an operation is queued, queue: packets it holds]
    done,       \* the packets that have passed through the handle, in order
    n           \* [packets, errors]

vars == <<kind, io, os, done, n>>

Writes(k) == k \in {"socket out", "tun out"}
\* No packet: packets are numbered from 1.
None == 0

\* overlapped_io_init: a write event is set from the start, so that the first write is not waited for.
overlapped_io_init(k) == [iostate |-> "initial", status |-> "ok", event |-> Writes(k), buf |-> None]

Init ==
    /\ kind \in Kinds
    /\ io = overlapped_io_init(kind)
    /\ os = [pending |-> FALSE, queue |-> <<>>]
    /\ done = <<>>
    /\ n = [packets |-> 0, errors |-> 0]

-----------------------------------------------------------------------------
\* Queueing.  The event is reset first; an immediate result and an error set it by hand.

\* Mutant: the event is not set when the operation is done at once.
Immediate_NoEvent(buf) == [iostate |-> "immediate", status |-> "ok", event |-> FALSE, buf |-> buf]
Immediate(buf) == [iostate |-> "immediate", status |-> "ok", event |-> TRUE, buf |-> buf]
Failed == [iostate |-> "immediate", status |-> "error", event |-> TRUE, buf |-> None]
Queued(buf) == [iostate |-> "queued", status |-> "ok", event |-> FALSE, buf |-> buf]

MayFail == n.errors < MaxErrors
CountError == n' = [n EXCEPT !.errors = @ + 1]

\* A read takes a packet the system already holds, or waits for one.
QueueRead ==
    \/ /\ os.queue # <<>>
       /\ io' = Immediate(Head(os.queue))
       /\ os' = [os EXCEPT !.queue = Tail(@)]
       /\ UNCHANGED n
    \/ /\ os.queue = <<>>
       /\ io' = Queued(None)
       /\ os' = [os EXCEPT !.pending = TRUE]
       /\ UNCHANGED n
    \/ /\ MayFail
       /\ io' = Failed
       /\ CountError
       /\ UNCHANGED os

socket_recv_queue == kind = "socket" /\ io.iostate = "initial" /\ QueueRead
tun_read_queue == kind = "tun" /\ io.iostate = "initial" /\ QueueRead
dco_event_set == kind = "dco" /\ io.iostate = "initial" /\ QueueRead

\* The loop arms the handle before it waits; nothing happens while an operation is active.
Arm ==
    /\ socket_recv_queue \/ tun_read_queue \/ dco_event_set
    /\ UNCHANGED <<kind, done>>

-----------------------------------------------------------------------------
\* Finalizing.  A result is [io, ret] with ret a packet, "error" or "incomplete".

Reset(o) == [o EXCEPT !.iostate = "initial", !.event = FALSE]

sockethandle_finalize(o, pending) ==
    CASE o.iostate = "queued" /\ pending -> [io |-> o, ok |-> FALSE]
      [] o.iostate = "queued" -> [io |-> Reset(o), ok |-> o.status = "ok"]
      [] o.iostate = "immediate" -> [io |-> Reset(o), ok |-> o.status = "ok"]
      [] OTHER -> [io |-> o, ok |-> FALSE]

\* dco_read_and_process: the notice is taken from the buffer only when the operation succeeded.
dco_read_and_process(o) ==
    [io |-> IF o.iostate \in {"queued", "immediate"} THEN Reset(o) ELSE o,
     ok |-> o.iostate \in {"queued", "immediate"} /\ o.status = "ok"]

link_socket_read(o) == sockethandle_finalize(o, os.pending)

\* The event of a read is set: the packet is taken.
ReadReady ==
    /\ ~Writes(kind)
    /\ io.event
    /\ LET r == IF kind = "dco" THEN dco_read_and_process(io) ELSE link_socket_read(io)
       IN /\ io' = [r.io EXCEPT !.buf = None]
          /\ done' = IF r.ok THEN Append(done, io.buf) ELSE done
    /\ UNCHANGED <<kind, os, n>>

\* A packet is written: the last write is finalized, and the packet is copied and queued unless
\* the last write is still active.
QueueWrite(o, p) ==
    IF o.iostate # "initial" THEN io' = o /\ UNCHANGED <<os, n>>
    ELSE \/ /\ io' = Immediate(None)
            /\ os' = [os EXCEPT !.queue = Append(@, p)]
            /\ n' = [n EXCEPT !.packets = p]
         \/ /\ io' = Queued(p)
            /\ os' = [os EXCEPT !.pending = TRUE]
            /\ n' = [n EXCEPT !.packets = p]
         \/ /\ MayFail
            /\ io' = Failed
            /\ n' = [packets |-> p, errors |-> n.errors + 1]
            /\ UNCHANGED os

\* The loop writes only when the write event is set.
MayWrite == io.event

\* link_socket_write_win32 and tun_write_win32.
link_socket_write_win32(o, p) ==
    QueueWrite(IF o.iostate = "initial" THEN o ELSE sockethandle_finalize(o, os.pending).io, p)

WriteReady ==
    /\ Writes(kind)
    /\ MayWrite
    /\ n.packets < MaxPackets
    /\ link_socket_write_win32(io, n.packets + 1)
    /\ done' = Append(done, n.packets + 1)
    /\ UNCHANGED kind

-----------------------------------------------------------------------------
\* The system.

Arrive ==
    /\ ~Writes(kind)
    /\ n.packets < MaxPackets
    /\ n' = [n EXCEPT !.packets = @ + 1]
    /\ os' = [os EXCEPT !.queue = Append(@, n.packets + 1)]
    /\ UNCHANGED <<kind, io, done>>

\* The queued operation completes: a read fills the buffer, a write is on its way.
Complete ==
    /\ os.pending
    /\ IF Writes(kind)
         THEN /\ os' = [pending |-> FALSE, queue |-> Append(os.queue, io.buf)]
              /\ io' = [io EXCEPT !.event = TRUE]
         ELSE /\ os.queue # <<>>
              /\ os' = [pending |-> FALSE, queue |-> Tail(os.queue)]
              /\ io' = [io EXCEPT !.event = TRUE, !.buf = Head(os.queue)]
    /\ UNCHANGED <<kind, done, n>>

CompleteWithError ==
    /\ os.pending /\ MayFail
    /\ os' = [os EXCEPT !.pending = FALSE]
    /\ io' = [io EXCEPT !.event = TRUE, !.status = "error", !.buf = None]
    /\ CountError
    /\ UNCHANGED <<kind, done>>

Next ==
    \/ Arm
    \/ ReadReady
    \/ WriteReady
    \/ Arrive
    \/ Complete
    \/ CompleteWithError

Spec == Init /\ [][Next]_vars

-----------------------------------------------------------------------------

\* Every variable keeps its type.
TypeOK ==
    /\ kind \in Kinds
    /\ io \in [iostate : {"initial", "queued", "immediate"}, status : {"ok", "error"},
               event : BOOLEAN, buf : 0..MaxPackets]
    /\ os.pending \in BOOLEAN
    /\ Len(os.queue) <= MaxPackets
    /\ n.packets \in 0..MaxPackets /\ n.errors \in 0..MaxErrors

\* No packet is lost, doubled or reordered between the loop and the system: what was read, the
\* packet of a completed operation and what the system holds are the packets that arrived; what
\* the system sent or is sending are the packets written, less one for each failed operation.
PacketsPassOnce ==
    IF Writes(kind)
      THEN LET out == os.queue \o SelectSeq(<<io.buf>>, LAMBDA p : os.pending)
           IN /\ \A i \in 1..Len(out) - 1 : out[i] < out[i + 1]
              /\ Len(out) + n.errors = n.packets
      ELSE done \o SelectSeq(<<io.buf>>, LAMBDA p : p # None) \o os.queue
             = [i \in 1..n.packets |-> i]

\* The loop never sleeps on an operation that is over: its event is set as soon as it is, and it
\* is not set while the operation is pending.
NoLostWakeup ==
    io.iostate # "initial" => (io.event <=> ~os.pending)

\* Every packet that arrives is read.
Arrived(p) == ~Writes(kind) /\ n.packets >= p
Read(p) == \E i \in DOMAIN done : done[i] = p

=============================================================================
