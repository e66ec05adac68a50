--------------------------- MODULE ReliableChannel ---------------------------
(***************************************************************************)
(* The reliability layer of the control channel (reliable.c) as functions  *)
(* on its structures, and two peers that run it for one key state (driven  *)
(* by tls_process and tls_pre_decrypt in ssl.c) over a network that loses, *)
(* duplicates and reorders packets.                                        *)
(*                                                                         *)
(* A struct reliable is [packet_id, hold, buf]: buf maps the packet id of  *)
(* every active entry to the entry; which slot of the array an entry uses  *)
(* does not matter.  Of an entry's timers only "now >= next_try" is kept,  *)
(* as the flag due; the back-off decides how long it stays false.          *)
(*                                                                         *)
(* A packet is [to, pid, data, acks]; a dedicated acknowledgement has the  *)
(* pid NoPid.  Packet 0 of each direction is the reset that opens it.      *)
(***************************************************************************)
EXTENDS Integers, FiniteSets, Sequences

CONSTANTS
    Half,             \* 0x80000000u: half of the packet id space
    AckSize,          \* RELIABLE_ACK_SIZE
    NAckRetransmit    \* N_ACK_RETRANSMIT

ASSUME ReliableAssumption ==
    /\ Half \in Nat \ {0}
    /\ AckSize \in Nat \ {0}
    /\ NAckRetransmit \in Nat \ {0}

-----------------------------------------------------------------------------
(* Packet ids are unsigned and wrap at PidMod.                             *)

PidMod == 2 * Half

Pid == 0..(PidMod - 1)

add_pid(a, n) == IF a + n >= PidMod THEN a + n - PidMod ELSE a + n

subtract_pid(test, base) == IF test >= base THEN test - base ELSE test - base + PidMod

reliable_pid_in_range1(test, base, extent) == subtract_pid(test, base) < extent

\* Mutant: no second case for a range that wraps.
reliable_pid_in_range2_NoWrap(test, base, extent) == test < add_pid(base, extent)

reliable_pid_in_range2(test, base, extent) ==
    IF add_pid(base, extent) >= base
    THEN test < add_pid(base, extent)
    ELSE add_pid(test, Half) < add_pid(add_pid(base, Half), extent)

reliable_pid_min(p1, p2) == ~reliable_pid_in_range1(p1, p2, Half)

-----------------------------------------------------------------------------
(* struct reliable_ack: the ids still to be acknowledged, oldest first.    *)

ReliableAck == [len : 0..AckSize, packet_id : [1..AckSize -> Nat]]

EmptyAck == [len |-> 0, packet_id |-> [i \in 1..AckSize |-> 0]]

AckIds(ack) == {ack.packet_id[i] : i \in 1..ack.len}

reliable_ack_acknowledge_packet_id(ack, pid) ==
    IF pid \notin AckIds(ack) /\ ack.len < AckSize
    THEN [len |-> ack.len + 1, packet_id |-> [ack.packet_id EXCEPT ![ack.len + 1] = pid]]
    ELSE ack

\* Mutant: more ids are taken off the list than the packet has room for.
AckCount_All(ack, max) == ack.len

\* reliable_ack_write takes the first n = min(len, max) ids off the list.
AckCount(ack, max) == IF ack.len > max THEN max ELSE ack.len

AckTaken(ack, max) == {ack.packet_id[i] : i \in 1..AckCount(ack, max)}

\* Mutant: the list is taken to have filled the packet.
AckRest_Full(ack, max) ==
    [len |-> ack.len - max,
     packet_id |-> [i \in 1..AckSize |->
                       IF i + max <= ack.len THEN ack.packet_id[i + max] ELSE 0]]

AckRest(ack, max) ==
    LET n == AckCount(ack, max)
    IN  [len |-> ack.len - n,
         packet_id |-> [i \in 1..AckSize |->
                           IF i + n <= ack.len THEN ack.packet_id[i + n] ELSE 0]]

\* copy_acks_to_mru: the ids written now, then ids written before, at most
\* AckSize of them.  Which old ones stay is left open here; CopyAcksToMru
\* has the list itself.
MruAfter(mru, taken) ==
    {m \in SUBSET (mru \cup taken) :
        /\ taken \subseteq m
        /\ Cardinality(m) = IF Cardinality(mru \cup taken) <= AckSize
                            THEN Cardinality(mru \cup taken) ELSE AckSize}

\* The ids of one packet: those taken, and old ones while there is room.
AcksWritten(mru, taken, max) ==
    {s \in SUBSET mru :
        /\ taken \subseteq s
        /\ Cardinality(s) = IF Cardinality(mru) <= max THEN Cardinality(mru) ELSE max}

-----------------------------------------------------------------------------
(* struct reliable                                                         *)

reliable_init(hold) == [packet_id |-> 0, hold |-> hold, buf |-> [q \in {} |-> 0]]

Active(rel) == DOMAIN rel.buf

reliable_empty(rel) == Active(rel) = {}

reliable_can_get(rel, size) == Cardinality(Active(rel)) < size

\* The same list with other entries.
WithBuf(rel, buf) == [packet_id |-> rel.packet_id, hold |-> rel.hold, buf |-> buf]

Put(buf, pid, e) == [q \in DOMAIN buf \cup {pid} |-> IF q = pid THEN e ELSE buf[q]]

IsLowest(q, S) == \A r \in S : ~reliable_pid_min(r, q)

Lowest(S) == CHOOSE q \in S : IsLowest(q, S)

\* Sending side.

reliable_get_buf_output_sequenced(rel, size) ==
    /\ Active(rel) # {} =>
          reliable_pid_in_range1(rel.packet_id, Lowest(Active(rel)), size)
    /\ reliable_can_get(rel, size)

reliable_get_num_output_sequenced_available(rel, size) ==
    IF Active(rel) = {} THEN size
    ELSE size - subtract_pid(rel.packet_id, Lowest(Active(rel)))

reliable_mark_active_outgoing(rel, data) ==
    [packet_id |-> add_pid(rel.packet_id, 1), hold |-> rel.hold,
     buf |-> Put(rel.buf, rel.packet_id, [due |-> TRUE, n_acks |-> 0, data |-> data])]

Sendable(rel) ==
    {q \in Active(rel) : rel.buf[q].due \/ rel.buf[q].n_acks >= NAckRetransmit}

reliable_can_send(rel) == Sendable(rel) # {} /\ ~rel.hold

reliable_send(rel, pid) ==
    WithBuf(rel, Put(rel.buf, pid, [due |-> FALSE, n_acks |-> 0, data |-> rel.buf[pid].data]))

reliable_schedule_now(rel) ==
    [packet_id |-> rel.packet_id, hold |-> FALSE,
     buf |-> [q \in Active(rel) |-> [rel.buf[q] EXCEPT !.due = TRUE]]]

\* Mutant: an acknowledgement is taken to cover all earlier packets.
reliable_send_purge_Cumulative(rel, acks) ==
    WithBuf(rel, [q \in {q \in Active(rel) : \A a \in acks : q > a} |-> rel.buf[q]])

\* Acknowledged entries go; the others count the later ids acknowledged, up
\* to the number that triggers an early retransmit.
reliable_send_purge(rel, acks) ==
    WithBuf(rel,
        [q \in Active(rel) \ acks |->
            LET n == rel.buf[q].n_acks + Cardinality({a \in acks : q < a})
            IN  [rel.buf[q] EXCEPT !.n_acks = IF n > NAckRetransmit THEN NAckRetransmit ELSE n]])

\* Receiving side.

\* Mutant: ids already handed on are not recognised.
reliable_not_replay_BufferOnly(rel, id) == id \notin Active(rel)

reliable_not_replay(rel, id) ==
    /\ ~reliable_pid_min(id, rel.packet_id)
    /\ id \notin Active(rel)

reliable_wont_break_sequentiality(rel, id, size) ==
    reliable_pid_in_range2(id, rel.packet_id, size)

reliable_mark_active_incoming(rel, id, data) == WithBuf(rel, Put(rel.buf, id, data))

reliable_get_entry_sequenced(rel) == rel.packet_id \in Active(rel)

\* Mutant: the next id expected stays the same.
reliable_mark_deleted_SameId(rel, id) ==
    WithBuf(rel, [q \in Active(rel) \ {id} |-> rel.buf[q]])

\* The entry is free again, and the next id expected is the one after it.
reliable_mark_deleted(rel, id) ==
    [packet_id |-> add_pid(id, 1), hold |-> rel.hold,
     buf |-> [q \in Active(rel) \ {id} |-> rel.buf[q]]]

-----------------------------------------------------------------------------
(* Two peers.                                                              *)

CONSTANTS
    SendSize,       \* TLS_RELIABLE_N_SEND_BUFFERS
    RecSize,        \* TLS_RELIABLE_N_REC_BUFFERS
    SendAckMax,     \* CONTROL_SEND_ACK_MAX
    Data,           \* packet contents
    NoData,         \* the content of an empty packet
    Hold,           \* xmit_hold of the server (TCP)
    MaxClient, MaxServer,  \* bound: packets each side sends
    MaxNet          \* bound: packets in flight; the network loses the rest

ASSUME ChannelAssumption ==
    /\ SendSize \in Nat \ {0}
    /\ RecSize \in Nat \ {0}
    /\ SendAckMax \in Nat
    /\ NoData \notin Data
    /\ Hold \in BOOLEAN
    /\ MaxClient \in Nat \ {0} /\ MaxServer \in Nat \ {0} /\ MaxNet \in Nat \ {0}
    /\ MaxClient + RecSize < Half /\ MaxServer + RecSize < Half

Peer == {"client", "server"}
Other(p) == IF p = "client" THEN "server" ELSE "client"
MaxSend(p) == IF p = "client" THEN MaxClient ELSE MaxServer

NoPid == -1

VARIABLES
    send,       \* send[p]: ks->send_reliable of p
    rec,        \* rec[p]: ks->rec_reliable of p
    ack,        \* ack[p]: ks->rec_ack of p
    mru,        \* mru[p]: ks->lru_acks of p
    link,       \* link[p]: p knows the session id of the other side
    net,        \* packets in flight
    sent,       \* history: what each TLS engine wrote, the reset excluded
    delivered   \* history: what each TLS engine read, the reset excluded

vars == <<send, rec, ack, mru, link, net, sent, delivered>>

Init ==
    /\ send = [p \in Peer |-> reliable_init(Hold /\ p = "server")]
    /\ rec = [p \in Peer |-> reliable_init(FALSE)]
    /\ ack = [p \in Peer |-> EmptyAck]
    /\ mru = [p \in Peer |-> {}]
    /\ link = [p \in Peer |-> FALSE]
    /\ net = {}
    /\ sent = [p \in Peer |-> <<>>]
    /\ delivered = [p \in Peer |-> <<>>]

\* A full network loses an older packet.
Emit(m) ==
    \/ Cardinality(net) < MaxNet /\ net' = net \cup {m}
    \/ Cardinality(net) >= MaxNet /\ \E x \in net : net' = (net \ {x}) \cup {m}

\* session_move_pre_start: the reset is an empty packet.
Reset(p) ==
    /\ send[p].packet_id = 0
    /\ reliable_get_buf_output_sequenced(send[p], SendSize)
    /\ send' = [send EXCEPT ![p] = reliable_mark_active_outgoing(@, NoData)]
    /\ UNCHANGED <<rec, ack, mru, link, net, sent, delivered>>

\* write_outgoing_tls_ciphertext: TLS starts once the reset is acknowledged.
Write(p, d) ==
    /\ send[p].packet_id # 0 /\ 0 \notin Active(send[p])
    /\ send[p].packet_id < MaxSend(p)
    /\ reliable_get_buf_output_sequenced(send[p], SendSize)
    /\ send' = [send EXCEPT ![p] = reliable_mark_active_outgoing(@, d)]
    /\ sent' = [sent EXCEPT ![p] = Append(@, d)]
    /\ UNCHANGED <<rec, ack, mru, link, net, delivered>>

\* reliable_ack_write for a packet [pid, data] with room for max ids.
WriteAcks(p, pid, data, max) ==
    /\ ack' = [ack EXCEPT ![p] = AckRest(@, max)]
    /\ \E m \in MruAfter(mru[p], AckTaken(ack[p], max)) :
          /\ mru' = [mru EXCEPT ![p] = m]
          /\ \E s \in AcksWritten(m, AckTaken(ack[p], max), max) :
                Emit([to |-> Other(p), pid |-> pid, data |-> data, acks |-> s])

\* tls_process_state: the lowest packet that is due, with acknowledgements.
Transmit(p) ==
    /\ reliable_can_send(send[p])
    /\ \E q \in Sendable(send[p]) :
          /\ IsLowest(q, Sendable(send[p]))
          /\ send' = [send EXCEPT ![p] = reliable_send(@, q)]
          /\ WriteAcks(p, q, send[p].buf[q].data, SendAckMax)
    /\ UNCHANGED <<rec, link, sent, delivered>>

\* tls_process: a dedicated acknowledgement, when nothing else is sent.
SendAck(p) ==
    /\ ack[p].len # 0
    /\ ~reliable_can_send(send[p])
    /\ WriteAcks(p, NoPid, NoData, AckSize)
    /\ UNCHANGED <<send, rec, link, sent, delivered>>

\* The timer of an entry runs out: now >= next_try.
Timeout(p, q) ==
    /\ q \in Active(send[p])
    /\ ~send[p].buf[q].due
    /\ send' = [send EXCEPT ![p] = WithBuf(@, [@.buf EXCEPT ![q].due = TRUE])]
    /\ UNCHANGED <<rec, ack, mru, link, net, sent, delivered>>

\* The first packet of the other side makes p retransmit what it has (burst).
Burst(p, s) == IF link[p] THEN s ELSE reliable_schedule_now(s)

\* The receiving half of tls_pre_decrypt.  Before the reset of the other side
\* its packets belong to no session.  A packet that is stored is acknowledged,
\* and so is a repeated one; one that finds no buffer is not.
Accept(p, m) ==
    /\ send' = [send EXCEPT ![p] = reliable_send_purge(Burst(p, @), m.acks)]
    /\ link' = [link EXCEPT ![p] = TRUE]
    /\ IF /\ m.pid # NoPid
          /\ reliable_can_get(rec[p], RecSize)
          /\ reliable_wont_break_sequentiality(rec[p], m.pid, RecSize)
       THEN /\ rec' = IF reliable_not_replay(rec[p], m.pid)
                      THEN [rec EXCEPT ![p] = reliable_mark_active_incoming(@, m.pid, m.data)]
                      ELSE rec
            /\ ack' = [ack EXCEPT ![p] = reliable_ack_acknowledge_packet_id(@, m.pid)]
       ELSE UNCHANGED <<rec, ack>>

Receive(p, m) ==
    /\ m.to = p
    /\ net' = net \/ net' = net \ {m}       \* the network may repeat it
    /\ IF link[p] \/ m.pid = 0 THEN Accept(p, m)
       ELSE UNCHANGED <<send, rec, ack, link>>
    /\ UNCHANGED <<mru, sent, delivered>>

\* Mutant: the oldest packet is read although an earlier one is missing.
Read_Oldest(p) ==
    /\ Active(rec[p]) # {}
    /\ LET q == Lowest(Active(rec[p]))
       IN  /\ rec' = [rec EXCEPT ![p] = reliable_mark_deleted(@, q)]
           /\ delivered' = IF q = 0 THEN delivered
                           ELSE [delivered EXCEPT ![p] = Append(@, rec[p].buf[q])]
    /\ UNCHANGED <<send, ack, mru, link, net, sent>>

\* read_incoming_tls_ciphertext: the next packet in sequence goes to TLS.
Read(p) ==
    /\ reliable_get_entry_sequenced(rec[p])
    /\ LET q == rec[p].packet_id
       IN  /\ rec' = [rec EXCEPT ![p] = reliable_mark_deleted(@, q)]
           /\ delivered' = IF q = 0 THEN delivered
                           ELSE [delivered EXCEPT ![p] = Append(@, rec[p].buf[q])]
    /\ UNCHANGED <<send, ack, mru, link, net, sent>>

Lose(m) ==
    /\ net' = net \ {m}
    /\ UNCHANGED <<send, rec, ack, mru, link, sent, delivered>>

Next ==
    \/ \E p \in Peer :
          \/ Reset(p) \/ Transmit(p) \/ SendAck(p) \/ Read(p)
          \/ \E q \in Active(send[p]) : Timeout(p, q)
          \/ \E d \in Data : Write(p, d)
    \/ \E m \in net : Lose(m) \/ \E p \in Peer : Receive(p, m)

Spec == Init /\ [][Next]_vars

(***************************************************************************)
(* The event loop calls tls_process again and again and timers run out;    *)
(* the network loses much, but a packet id, or an acknowledgement, that is *)
(* sent again and again gets through in the end.                           *)
(***************************************************************************)
ReceiveOldest(p) ==
    /\ Active(send[Other(p)]) # {}
    /\ \E m \in net : m.pid = Lowest(Active(send[Other(p)])) /\ Receive(p, m)

ReceiveAck(p) ==
    /\ Active(send[p]) # {}
    /\ \E m \in net : Lowest(Active(send[p])) \in m.acks /\ Receive(p, m)

Fairness ==
    \A p \in Peer :
        /\ WF_vars(Reset(p)) /\ WF_vars(Transmit(p)) /\ WF_vars(SendAck(p))
        /\ WF_vars(Read(p)) /\ \A q \in 0..MaxSend(p) : WF_vars(Timeout(p, q))
        /\ SF_vars(ReceiveOldest(p)) /\ SF_vars(ReceiveAck(p))

LiveSpec == Spec /\ Fairness

-----------------------------------------------------------------------------
Entry == [due : BOOLEAN, n_acks : 0..NAckRetransmit, data : Data \cup {NoData}]

Packet == [to : Peer, pid : Nat \cup {NoPid}, data : Data \cup {NoData}, acks : SUBSET Nat]

IsReliable(rel, E) ==
    /\ rel \in [packet_id : Nat, hold : BOOLEAN, buf : {rel.buf}]
    /\ Active(rel) \subseteq Nat
    /\ rel.buf \in [Active(rel) -> E]

TypeOK ==
    /\ send \in [Peer -> {send[p] : p \in Peer}]
    /\ rec \in [Peer -> {rec[p] : p \in Peer}]
    /\ \A p \in Peer :
          /\ IsReliable(send[p], Entry)
          /\ IsReliable(rec[p], Data \cup {NoData})
    /\ ack \in [Peer -> ReliableAck]
    /\ mru \in [Peer -> SUBSET Nat]
    /\ link \in [Peer -> BOOLEAN]
    /\ net \subseteq Packet
    /\ sent \in [Peer -> Seq(Data)]
    /\ delivered \in [Peer -> Seq(Data)]

\* TLS reads exactly what the other TLS wrote, in order, without gaps and
\* repetitions, whatever the network does.
DeliveredInOrder ==
    \A p \in Peer :
        /\ Len(delivered[p]) <= Len(sent[Other(p)])
        /\ \A i \in 1..Len(delivered[p]) : delivered[p][i] = sent[Other(p)][i]

\* A packet leaves the send buffer only after the other side has it:
\* reliable_send_purge acts on acknowledgements of stored packets only.
NothingForgotten ==
    \A p \in Peer : \A q \in 0..(send[p].packet_id - 1) :
        \/ q \in Active(send[p])
        \/ q < rec[Other(p)].packet_id
        \/ q \in Active(rec[Other(p)])

\* The receive buffer never jams: when every buffer is taken, the packet to
\* be read next is among them ("Avoid deadlock by rejecting packet that would
\* de-sequentialize receive buffer").
NeverJams ==
    \A p \in Peer : ~reliable_can_get(rec[p], RecSize) => reliable_get_entry_sequenced(rec[p])

\* Everything TLS wrote is read on the other side in the end.
EventuallyDelivered ==
    \A p \in Peer : \A n \in 1..MaxSend(p) :
        Len(sent[p]) >= n ~> Len(delivered[Other(p)]) >= n

\* The reliability layer implements a FIFO channel.
Fifo == INSTANCE FifoChannel
FifoSpec == Fifo!Spec
=============================================================================
