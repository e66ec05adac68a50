--------------------------- MODULE ReliableProofs ---------------------------
(***************************************************************************)
(* The theorems about ReliableChannel: the steps of a receiver preserve the*)
(* invariant of ReliableSendProofs, so it always holds, and from it follow *)
(* the safety properties and the refinement of a FIFO channel.             *)
(***************************************************************************)
EXTENDS ReliableSendProofs

LEMMA ReadStep ==
    ASSUME IInv, NEW p \in Peer, Read(p)
    PROVE  IInv'
<1>0. PICK q \in Nat : q = rec[p].packet_id
    BY Bounds
<1>1. /\ q \in Active(rec[p])
      /\ rec' = [rec EXCEPT ![p] = reliable_mark_deleted(rec[p], q)]
      /\ delivered' = IF q = 0 THEN delivered
                      ELSE [delivered EXCEPT ![p] = Append(delivered[p], rec[p].buf[q])]
      /\ UNCHANGED <<send, ack, mru, link, net, sent>>
    BY <1>0 DEF Read, reliable_get_entry_sequenced
<1> DEFINE new == reliable_mark_deleted(rec[p], q)
           D == Data \cup {NoData}
<1>2. rec \in [Peer -> {rec[r] : r \in Peer}] /\ \A r \in Peer : IsReliable(rec[r], D)
    BY ZenonT(40) DEF IInv, TypeOK
<1>3. /\ IsReliable(new, D)
      /\ new.packet_id = q + 1
      /\ Active(new) = Active(rec[p]) \ {q}
      /\ \A x \in Active(new) : new.buf[x] = rec[p].buf[x]
    BY ZenonT(40), <1>0, <1>1, <1>2, Bounds, MarkDeleted
<1>4. /\ rec' \in [Peer -> {rec'[r] : r \in Peer}]
      /\ rec'[p] = new /\ \A r \in Peer \ {p} : rec'[r] = rec[r]
    BY <1>1, <1>2
<1> HIDE DEF new, D
<1>5. \A r \in Peer : IsReliable(rec'[r], D)
    BY <1>2, <1>3, <1>4
<1>6. /\ q < send[Other(p)].packet_id
      /\ rec[p].buf[q] = Payload(Other(p), q)
      /\ Len(delivered[p]) = Count(q)
      /\ \A i \in 1..Len(delivered[p]) : delivered[p][i] = sent[Other(p)][i]
      /\ \A x \in Active(rec[p]) :
            /\ q <= x /\ x < q + RecSize /\ x \in Nat
            /\ x < send[Other(p)].packet_id
            /\ rec[p].buf[x] = Payload(Other(p), x)
    BY <1>0, <1>1, <1>2 DEF IInv, RecInv, IsReliable
<1>7. Other(p) \in Peer /\ send[Other(p)].packet_id \in Nat
      /\ sent[Other(p)] \in Seq(Data) /\ Len(sent[Other(p)]) = Count(send[Other(p)].packet_id)
    BY ZenonT(40), PeerFacts, Bounds DEF IInv, SendInv, TypeOK
<1>8. delivered \in [Peer -> Seq(Data)] /\ delivered[p] \in Seq(Data)
    BY DEF IInv, TypeOK
<1>9. /\ delivered' \in [Peer -> Seq(Data)]
      /\ \A r \in Peer \ {p} : delivered'[r] = delivered[r]
      /\ Len(delivered'[p]) = Count(q + 1)
      /\ \A i \in 1..Len(delivered'[p]) : delivered'[p][i] = sent[Other(p)][i]
    <2>1. CASE q = 0
        BY SMTT(60), <1>1, <1>6, <1>8, <2>1 DEF Count
    <2>2. CASE q # 0
        <3>1. q \in 1..Len(sent[Other(p)]) /\ Len(delivered[p]) + 1 = q /\ Count(q + 1) = q
            BY SMTT(60), <1>6, <1>7, <2>2 DEF Count
        <3>2. rec[p].buf[q] = sent[Other(p)][q] /\ sent[Other(p)][q] \in Data
            BY SMTT(60), <1>6, <1>7, <2>2, <3>1 DEF Payload
        <3>3. /\ Append(delivered[p], rec[p].buf[q]) \in Seq(Data)
              /\ Len(Append(delivered[p], rec[p].buf[q])) = q
              /\ \A i \in 1..Len(delivered[p]) :
                    Append(delivered[p], rec[p].buf[q])[i] = delivered[p][i]
              /\ Append(delivered[p], rec[p].buf[q])[q] = rec[p].buf[q]
            BY SMTT(60), <1>8, <3>1, <3>2, AppendFacts
        <3>4. delivered' = [delivered EXCEPT ![p] = Append(delivered[p], rec[p].buf[q])]
            BY <1>1, <2>2
        <3>5. delivered'[p] = Append(delivered[p], rec[p].buf[q])
              /\ delivered' \in [Peer -> Seq(Data)]
              /\ \A r \in Peer \ {p} : delivered'[r] = delivered[r]
            BY <1>8, <3>3, <3>4
        <3>6. ASSUME NEW i \in 1..q
              PROVE  delivered'[p][i] = sent[Other(p)][i]
            <4>1. CASE i = q
                BY <3>2, <3>3, <3>5, <4>1
            <4>2. CASE i # q
                <5>1. i \in 1..Len(delivered[p])
                    BY <1>8, <3>1, <4>2
                <5> QED  BY <1>6, <3>3, <3>5, <5>1
            <4> QED  BY <4>1, <4>2
        <3> QED  BY <3>1, <3>3, <3>5, <3>6
    <2> QED  BY <2>1, <2>2
<1>10. TypeOK'
    BY ZenonT(40), <1>1, <1>4, <1>5, <1>9 DEF IInv, TypeOK, D
<1>11. \A r \in Peer : \A x : x \in Nat /\ Received(r, x) => Received(r, x)'
    <2> SUFFICES ASSUME NEW r \in Peer, NEW x \in Nat, Received(r, x)
                 PROVE  x < rec'[r].packet_id \/ x \in Active(rec'[r])
        BY DEF Received, Active
    <2>1. CASE r # p
        BY <1>4, <2>1 DEF Received
    <2>2. CASE r = p
        BY <1>0, <1>3, <1>4, <2>2 DEF Received
    <2> QED  BY <2>1, <2>2
<1>12. SendInv'
    BY <1>1 DEF IInv, SendInv, Payload, Active
<1>13. RecInv'
    <2>a. \A r \in Peer : \A x : Payload(r, x)' = Payload(r, x)
        BY <1>1 DEF Payload
    <2>b. /\ \A r \in Peer : Other(r) \in Peer
          /\ sent' = sent /\ send' = send
        BY <1>1, PeerFacts
    <2> SUFFICES ASSUME NEW r \in Peer
                 PROVE  /\ rec'[r].packet_id <= send[Other(r)].packet_id
                        /\ \A x \in Active(rec'[r]) :
                              /\ rec'[r].packet_id <= x /\ x < rec'[r].packet_id + RecSize
                              /\ x < send[Other(r)].packet_id
                              /\ rec'[r].buf[x] = Payload(Other(r), x)
                        /\ Len(delivered'[r]) = Count(rec'[r].packet_id)
                        /\ \A i \in 1..Len(delivered'[r]) : delivered'[r][i] = sent[Other(r)][i]
        BY SMTT(60), RecInvPrimed, <2>a, <2>b
    <2>1. CASE r # p
        <3>1. rec'[r] = rec[r] /\ delivered'[r] = delivered[r]
            BY <1>4, <1>9, <2>1
        <3> QED  BY <3>1 DEF IInv, RecInv
    <2>2. CASE r = p
        <3>1. q + 1 <= send[Other(p)].packet_id
            BY SMTT(60), <1>6, <1>7
        <3>2. \A x \in Active(new) : /\ q + 1 <= x /\ x < q + 1 + RecSize
                                     /\ x < send[Other(p)].packet_id
                                     /\ new.buf[x] = Payload(Other(p), x)
            BY SMTT(60), <1>3, <1>6, ChannelAssumption
        <3> QED  BY <1>3, <1>4, <1>9, <2>2, <3>1, <3>2
    <2> QED  BY <2>1, <2>2
<1>14. NetInv'
    <2> SUFFICES ASSUME NEW m \in net
                 PROVE  /\ m.pid # NoPid => /\ m.pid < send[Other(m.to)].packet_id
                                            /\ m.data = Payload(Other(m.to), m.pid)
                        /\ \A a \in m.acks : Received(Other(m.to), a)'
        BY ZenonT(40), <1>1 DEF NetInv, Payload
    <2>1. Other(m.to) \in Peer /\ m.acks \subseteq Nat
        BY ZenonT(40), PeerFacts DEF IInv, TypeOK, Packet
    <2> QED  BY <1>11, <2>1 DEF IInv, NetInv
<1>15. AckInv'
    <2> SUFFICES ASSUME NEW r \in Peer
                 PROVE  \A a \in AckIds(ack[r]) \cup mru[r] : Received(r, a)'
        BY <1>1 DEF AckInv
    <2>1. AckIds(ack[r]) \subseteq Nat /\ mru[r] \subseteq Nat
        BY ZenonT(40), AckWrite, 0 \in Nat DEF IInv, TypeOK
    <2> QED  BY <1>11, <2>1 DEF IInv, AckInv
<1>16. NothingForgotten'
    <2> SUFFICES ASSUME NEW r \in Peer, NEW x \in 0..(send[r].packet_id - 1)
                 PROVE  x \in Active(send[r]) \/ Received(Other(r), x)'
        BY <1>1 DEF NothingForgotten, Received, Active
    <2>1. x \in Nat /\ Other(r) \in Peer
        BY PeerFacts, Bounds
    <2>2. x \in Active(send[r]) \/ Received(Other(r), x)
        BY DEF IInv, NothingForgotten, Received
    <2> QED  BY <1>11, <2>1, <2>2
<1> QED  BY <1>10, <1>12, <1>13, <1>14, <1>15, <1>16 DEF IInv

\* What Accept does to the send buffer of p.
LEMMA AcceptSend ==
    ASSUME IInv, NEW p \in Peer, NEW m \in net, m.to = p, Accept(p, m)
    PROVE  /\ send' \in [Peer -> {send'[r] : r \in Peer}]
           /\ \A r \in Peer \ {p} : send'[r] = send[r]
           /\ IsReliable(send'[p], Entry)
           /\ send'[p].packet_id = send[p].packet_id
           /\ Active(send'[p]) = Active(send[p]) \ m.acks
           /\ \A q \in Active(send'[p]) : send'[p].buf[q].data = send[p].buf[q].data
<1> DEFINE old == Burst(p, send[p])
           new == reliable_send_purge(old, m.acks)
<1>1. send \in [Peer -> {send[r] : r \in Peer}] /\ IsReliable(send[p], Entry)
    BY DEF IInv, TypeOK
<1>2. /\ IsReliable(old, Entry)
      /\ old.packet_id = send[p].packet_id
      /\ Active(old) = Active(send[p])
      /\ \A q \in Active(send[p]) : old.buf[q].data = send[p].buf[q].data
    BY <1>1, ScheduleNow DEF Burst
<1> HIDE DEF old
<1>3. /\ IsReliable(new, Entry)
      /\ new.packet_id = old.packet_id
      /\ Active(new) = Active(old) \ m.acks
      /\ \A q \in Active(new) : new.buf[q].data = old.buf[q].data
    BY SMTT(60), <1>2, Bounds, SendPurge
<1>4. send' = [send EXCEPT ![p] = new]
    BY DEF Accept, old
<1> HIDE DEF new
<1>5. send'[p] = new /\ send' \in [Peer -> {send'[r] : r \in Peer}]
      /\ \A r \in Peer \ {p} : send'[r] = send[r]
    BY <1>1, <1>4
<1> QED  BY <1>2, <1>3, <1>5

\* What Accept does to the receive buffer of p.
LEMMA AcceptRec ==
    ASSUME IInv, NEW p \in Peer, NEW m \in net, m.to = p, Accept(p, m)
    PROVE  /\ rec' \in [Peer -> {rec'[r] : r \in Peer}]
           /\ \A r \in Peer \ {p} : rec'[r] = rec[r]
           /\ IsReliable(rec'[p], Data \cup {NoData})
           /\ rec'[p].packet_id = rec[p].packet_id
           /\ Active(rec[p]) \subseteq Active(rec'[p])
           /\ \A q \in Active(rec[p]) : rec'[p].buf[q] = rec[p].buf[q]
           /\ \A q \in Active(rec'[p]) \ Active(rec[p]) :
                 /\ q = m.pid /\ q \in Nat
                 /\ rec[p].packet_id <= q /\ q < rec[p].packet_id + RecSize
                 /\ rec'[p].buf[q] = m.data
           /\ ack' \in [Peer -> ReliableAck]
           /\ \A r \in Peer \ {p} : ack'[r] = ack[r]
           /\ \A a \in AckIds(ack'[p]) :
                 \/ a \in AckIds(ack[p])
                 \/ a \in Nat /\ (a < rec[p].packet_id \/ a \in Active(rec'[p]))
<1> DEFINE new == reliable_mark_active_incoming(rec[p], m.pid, m.data)
           nack == reliable_ack_acknowledge_packet_id(ack[p], m.pid)
           stored == /\ m.pid # NoPid
                     /\ reliable_can_get(rec[p], RecSize)
                     /\ reliable_wont_break_sequentiality(rec[p], m.pid, RecSize)
           fresh == reliable_not_replay(rec[p], m.pid)
<1>1. /\ rec \in [Peer -> {rec[r] : r \in Peer}] /\ IsReliable(rec[p], Data \cup {NoData})
      /\ ack \in [Peer -> ReliableAck] /\ ack[p] \in ReliableAck
    BY ZenonT(40) DEF IInv, TypeOK
<1>2. CASE ~stored
    <2>1. rec' = rec /\ ack' = ack
        BY <1>2 DEF Accept
    <2> QED  BY <1>1, <2>1
<1>3. CASE stored
    <2>1. m.pid \in Nat /\ m.data \in Data \cup {NoData}
        BY <1>3 DEF IInv, TypeOK, Packet
    <2>2. m.pid < Half /\ rec[p].packet_id + RecSize < Half /\ rec[p].packet_id \in Nat
        <3>1. m.pid < send[Other(p)].packet_id
            BY <1>3 DEF IInv, NetInv
        <3>2. Other(p) \in Peer /\ send[Other(p)].packet_id \in Nat
              /\ send[Other(p)].packet_id + RecSize < Half
            BY PeerFacts, Bounds
        <3> QED  BY SMTT(60), <2>1, <3>1, <3>2, Bounds, ReliableAssumption, ChannelAssumption
    <2>3. m.pid < rec[p].packet_id + RecSize
        BY <1>3, <2>1, <2>2, SmallIds DEF reliable_wont_break_sequentiality
    <2>4. fresh <=> ~(m.pid < rec[p].packet_id) /\ m.pid \notin Active(rec[p])
        BY <2>1, <2>2, SmallIds DEF reliable_not_replay
    <2>5. /\ IsReliable(new, Data \cup {NoData})
          /\ new.packet_id = rec[p].packet_id
          /\ Active(new) = Active(rec[p]) \cup {m.pid}
          /\ \A q \in Active(new) : new.buf[q] = IF q = m.pid THEN m.data ELSE rec[p].buf[q]
        BY SMTT(60), <1>1, <2>1, MarkActiveIncoming
    <2>6. nack \in ReliableAck /\ AckIds(nack) \subseteq AckIds(ack[p]) \cup {m.pid}
        BY <1>1, <2>1, AckAcknowledge
    <2>7. /\ rec' = IF fresh THEN [rec EXCEPT ![p] = new] ELSE rec
          /\ ack' = [ack EXCEPT ![p] = nack]
        BY <1>3 DEF Accept
    <2> HIDE DEF new, nack, stored, fresh
    <2>8. /\ ack' \in [Peer -> ReliableAck] /\ ack'[p] = nack
          /\ \A r \in Peer \ {p} : ack'[r] = ack[r]
        BY <1>1, <2>6, <2>7
    <2>9. CASE fresh
        <3>1. /\ rec' \in [Peer -> {rec'[r] : r \in Peer}] /\ rec'[p] = new
              /\ \A r \in Peer \ {p} : rec'[r] = rec[r]
            BY <1>1, <2>7, <2>9
        <3>2. /\ Active(rec[p]) \subseteq Active(new)
              /\ \A q \in Active(rec[p]) : new.buf[q] = rec[p].buf[q]
            BY <2>4, <2>5, <2>9
        <3>3. ASSUME NEW q \in Active(new) \ Active(rec[p])
              PROVE  /\ q = m.pid /\ q \in Nat
                     /\ rec[p].packet_id <= q /\ q < rec[p].packet_id + RecSize
                     /\ new.buf[q] = m.data
            BY SMTT(60), <2>1, <2>2, <2>3, <2>4, <2>5, <2>9
        <3>4. \A a \in AckIds(nack) : a \in AckIds(ack[p]) \/ (a \in Nat /\ a \in Active(new))
            BY <2>1, <2>5, <2>6
        <3> QED  BY <2>5, <2>8, <3>1, <3>2, <3>3, <3>4
    <2>10. CASE ~fresh
        <3>1. rec' = rec
            BY <2>7, <2>10
        <3>2. \A a \in AckIds(nack) : \/ a \in AckIds(ack[p])
                                      \/ a \in Nat /\ (a < rec[p].packet_id \/ a \in Active(rec[p]))
            BY <2>1, <2>4, <2>6, <2>10
        <3> QED  BY <1>1, <2>8, <3>1, <3>2
    <2> QED  BY <2>9, <2>10
<1> QED  BY <1>2, <1>3

LEMMA ReceiveStep ==
    ASSUME IInv, NEW m \in net, NEW p \in Peer, Receive(p, m)
    PROVE  IInv'
<1>1. m.to = p /\ net' \subseteq net /\ UNCHANGED <<mru, sent, delivered>>
    BY DEF Receive
<1>2. CASE ~(link[p] \/ m.pid = 0)
    <2>1. UNCHANGED <<send, rec, ack, link>>
        BY <1>2 DEF Receive
    <2>2. TypeOK'
        BY ZenonT(40), <1>1, <2>1 DEF IInv, TypeOK, IsReliable, Active
    <2>3. SendInv' /\ RecInv' /\ NothingForgotten' /\ AckInv'
        BY ZenonT(40), <1>1, <2>1 DEF IInv, SendInv, RecInv, NothingForgotten, AckInv, Payload, Received, Active
    <2>4. NetInv'
        BY ZenonT(40), <1>1, <2>1 DEF IInv, NetInv, Payload, Received, Active
    <2> QED  BY <2>2, <2>3, <2>4 DEF IInv
<1>3. CASE link[p] \/ m.pid = 0
    <2>0. Accept(p, m)
        BY <1>3 DEF Receive
    <2>1. /\ send' \in [Peer -> {send'[r] : r \in Peer}]
          /\ \A r \in Peer \ {p} : send'[r] = send[r]
          /\ IsReliable(send'[p], Entry)
          /\ send'[p].packet_id = send[p].packet_id
          /\ Active(send'[p]) = Active(send[p]) \ m.acks
          /\ \A q \in Active(send'[p]) : send'[p].buf[q].data = send[p].buf[q].data
        BY <1>1, <2>0, AcceptSend
    <2>2. /\ rec' \in [Peer -> {rec'[r] : r \in Peer}]
          /\ \A r \in Peer \ {p} : rec'[r] = rec[r]
          /\ IsReliable(rec'[p], Data \cup {NoData})
          /\ rec'[p].packet_id = rec[p].packet_id
          /\ Active(rec[p]) \subseteq Active(rec'[p])
          /\ \A q \in Active(rec[p]) : rec'[p].buf[q] = rec[p].buf[q]
        BY ZenonT(40), <1>1, <2>0, AcceptRec
    <2>3. \A q \in Active(rec'[p]) \ Active(rec[p]) :
              /\ q = m.pid /\ q \in Nat
              /\ rec[p].packet_id <= q /\ q < rec[p].packet_id + RecSize
              /\ rec'[p].buf[q] = m.data
        BY <1>1, <2>0, AcceptRec
    <2>4. /\ ack' \in [Peer -> ReliableAck]
          /\ \A r \in Peer \ {p} : ack'[r] = ack[r]
          /\ \A a \in AckIds(ack'[p]) :
                \/ a \in AckIds(ack[p])
                \/ a \in Nat /\ (a < rec[p].packet_id \/ a \in Active(rec'[p]))
        BY <1>1, <2>0, AcceptRec
    <2>5. link' \in [Peer -> BOOLEAN]
        BY <2>0 DEF Accept, IInv, TypeOK
    <2>6. TypeOK'
        <3>1. \A r \in Peer : IsReliable(send'[r], Entry) /\ IsReliable(rec'[r], Data \cup {NoData})
            BY ZenonT(40), <2>1, <2>2 DEF IInv, TypeOK
        <3> QED  BY ZenonT(40), <1>1, <2>1, <2>2, <2>4, <2>5, <3>1 DEF IInv, TypeOK
    <2>7. \A r \in Peer : send'[r].packet_id = send[r].packet_id
                          /\ rec'[r].packet_id = rec[r].packet_id
        BY <2>1, <2>2
    <2>8. \A r \in Peer : \A x : Payload(r, x)' = Payload(r, x)
        BY <1>1 DEF Payload
    <2>9. \A r \in Peer : \A x : Received(r, x) => Received(r, x)'
        <3> SUFFICES ASSUME NEW r \in Peer, NEW x, Received(r, x)
                     PROVE  x < rec'[r].packet_id \/ x \in Active(rec'[r])
            BY DEF Received, Active
        <3>1. Active(rec[r]) \subseteq Active(rec'[r])
            BY <2>2
        <3> QED  BY <2>7, <3>1 DEF Received
    <2>10. SendInv'
        <3> SUFFICES ASSUME NEW r \in Peer
                     PROVE  /\ send'[r].packet_id <= MaxSend(r)
                            /\ Len(sent'[r]) = Count(send'[r].packet_id)
                            /\ \A q \in Active(send'[r]) :
                                  /\ q < send'[r].packet_id
                                  /\ send'[r].buf[q].data = Payload(r, q)'
            BY SendInvPrimed
        <3>1. send'[r].packet_id = send[r].packet_id /\ sent'[r] = sent[r]
            BY <1>1, <2>7
        <3>2. \A q \in Active(send'[r]) :
                q \in Active(send[r]) /\ send'[r].buf[q].data = send[r].buf[q].data
            <4>1. CASE r = p
                BY <2>1, <4>1
            <4>2. CASE r # p
                BY <2>1, <4>2
            <4> QED  BY <4>1, <4>2
        <3>3. /\ send[r].packet_id <= MaxSend(r)
              /\ Len(sent[r]) = Count(send[r].packet_id)
              /\ \A q \in Active(send[r]) :
                    q < send[r].packet_id /\ send[r].buf[q].data = Payload(r, q)
            BY DEF IInv, SendInv
        <3>4. \A q : Payload(r, q)' = Payload(r, q)
            BY <2>8
        <3> QED  BY <3>1, <3>2, <3>3, <3>4
    <2>11. RecInv'
        <3>1. ASSUME NEW r \in Peer, NEW q \in Active(rec'[r])
              PROVE  /\ rec[r].packet_id <= q /\ q < rec[r].packet_id + RecSize
                     /\ q < send[Other(r)].packet_id
                     /\ rec'[r].buf[q] = Payload(Other(r), q)
            <4>1. CASE q \in Active(rec[r])
                <5>1. rec'[r].buf[q] = rec[r].buf[q]
                    BY <2>2, <4>1
                <5> QED  BY <4>1, <5>1 DEF IInv, RecInv
            <4>2. CASE q \notin Active(rec[r])
                <5>1. r = p
                    BY <2>2, <4>2
                <5>2. q = m.pid /\ q \in Nat /\ rec'[p].buf[q] = m.data
                      /\ rec[p].packet_id <= q /\ q < rec[p].packet_id + RecSize
                    BY <2>3, <4>2, <5>1
                <5>3. m.pid < send[Other(p)].packet_id /\ m.data = Payload(Other(p), m.pid)
                    BY SMTT(60), <1>1, <5>2 DEF IInv, NetInv, NoPid
                <5> QED  BY <5>1, <5>2, <5>3
            <4> QED  BY ZenonT(40), <4>1, <4>2
        <3>2. ASSUME NEW r \in Peer
              PROVE  Other(r) \in Peer /\ rec'[r].packet_id = rec[r].packet_id
                     /\ send'[Other(r)].packet_id = send[Other(r)].packet_id
            BY <2>7, PeerFacts
        <3>3. ASSUME NEW r \in Peer
              PROVE  /\ rec[r].packet_id <= send[Other(r)].packet_id
                     /\ Len(delivered[r]) = Count(rec[r].packet_id)
                     /\ \A i \in 1..Len(delivered[r]) : delivered[r][i] = sent[Other(r)][i]
            BY DEF IInv, RecInv
        <3>4. delivered' = delivered /\ sent' = sent
            BY <1>1
        <3> SUFFICES ASSUME NEW r \in Peer
                     PROVE  /\ rec'[r].packet_id <= send'[Other(r)].packet_id
                            /\ \A q \in Active(rec'[r]) :
                                  /\ rec'[r].packet_id <= q /\ q < rec'[r].packet_id + RecSize
                                  /\ q < send'[Other(r)].packet_id
                                  /\ rec'[r].buf[q] = Payload(Other(r), q)'
                            /\ Len(delivered'[r]) = Count(rec'[r].packet_id)
                            /\ \A i \in 1..Len(delivered'[r]) : delivered'[r][i] = sent'[Other(r)][i]
            BY RecInvPrimed
        <3>5. \A q \in Active(rec'[r]) : Payload(Other(r), q)' = Payload(Other(r), q)
            BY <2>8, <3>2
        <3> QED  BY ZenonT(40), <3>1, <3>2, <3>3, <3>4, <3>5
    <2>12. NetInv'
        <3> SUFFICES ASSUME NEW x \in net
                     PROVE  /\ x.pid # NoPid => /\ x.pid < send'[Other(x.to)].packet_id
                                                /\ x.data = Payload(Other(x.to), x.pid)'
                            /\ \A a \in x.acks : Received(Other(x.to), a)'
            BY <1>1 DEF NetInv
        <3>1. Other(x.to) \in Peer
            BY PeerFacts DEF IInv, TypeOK, Packet
        <3> QED  BY ZenonT(40), <2>7, <2>8, <2>9, <3>1 DEF IInv, NetInv
    <2>13. AckInv'
        <3> SUFFICES ASSUME NEW r \in Peer, NEW a \in AckIds(ack'[r]) \cup mru[r]
                     PROVE  Received(r, a)'
            BY <1>1 DEF AckInv
        <3>1. CASE a \in AckIds(ack[r]) \cup mru[r]
            BY <2>9, <3>1 DEF IInv, AckInv
        <3>2. CASE a \notin AckIds(ack[r]) \cup mru[r]
            <4>1. r = p
                BY <2>4, <3>2
            <4>2. a < rec'[p].packet_id \/ a \in Active(rec'[p])
                BY <2>4, <2>7, <3>2, <4>1
            <4> QED  BY <4>1, <4>2 DEF Received, Active
        <3> QED  BY <3>1, <3>2
    <2>14. NothingForgotten'
        <3> SUFFICES ASSUME NEW r \in Peer, NEW x \in 0..(send[r].packet_id - 1)
                     PROVE  x \in Active(send'[r]) \/ Received(Other(r), x)'
            BY <2>7 DEF NothingForgotten, Received, Active
        <3>1. Other(r) \in Peer
            BY PeerFacts
        <3>2. x \in Active(send[r]) \/ Received(Other(r), x)
            BY DEF IInv, NothingForgotten, Received
        <3>3. CASE r # p \/ x \notin m.acks
            BY <2>1, <2>9, <3>1, <3>2, <3>3
        <3>4. CASE r = p /\ x \in m.acks
            <4>1. Received(Other(p), x)
                BY <1>1, <3>4 DEF IInv, NetInv
            <4> QED  BY <2>9, <3>1, <3>4, <4>1
        <3> QED  BY <3>3, <3>4
    <2> QED  BY <2>6, <2>10, <2>11, <2>12, <2>13, <2>14 DEF IInv
<1> QED  BY <1>2, <1>3

LEMMA NextIInv == IInv /\ [Next]_vars => IInv'
<1> SUFFICES ASSUME IInv, [Next]_vars PROVE IInv'
    OBVIOUS
<1>1. CASE UNCHANGED vars
    <2>1. TypeOK'
        BY ZenonT(40), <1>1 DEF vars, IInv, TypeOK, IsReliable, Active
    <2>2. SendInv' /\ RecInv' /\ NothingForgotten' /\ AckInv'
        BY ZenonT(40), <1>1 DEF vars, IInv, SendInv, RecInv, NothingForgotten, AckInv, Payload, Received, Active
    <2>3. NetInv'
        BY ZenonT(40), <1>1 DEF vars, IInv, NetInv, Payload, Received, Active
    <2> QED  BY <2>1, <2>2, <2>3 DEF IInv
<1>2. CASE Next
    BY <1>2, ResetStep, TransmitStep, SendAckStep, ReadStep, TimeoutStep, WriteStep,
       LoseStep, ReceiveStep DEF Next
<1> QED  BY <1>1, <1>2

LEMMA Invariance == Spec => []IInv
BY InitIInv, NextIInv, PTL DEF Spec

-----------------------------------------------------------------------------
\* The structures of reliable.c stay well formed: every acknowledgement list
\* within its array, every entry with its data.
THEOREM TypeCorrect == Spec => []TypeOK
<1>1. IInv => TypeOK
    BY DEF IInv
<1> QED  BY <1>1, Invariance, PTL

\* A packet leaves the send buffer only after the other side has it.
THEOREM NothingIsForgotten == Spec => []NothingForgotten
<1>1. IInv => NothingForgotten
    BY DEF IInv
<1> QED  BY <1>1, Invariance, PTL

\* What TLS has read is a prefix of what the other TLS wrote.
THEOREM InOrder == Spec => []DeliveredInOrder
<1>1. ASSUME IInv, NEW p \in Peer
      PROVE  /\ Len(delivered[p]) <= Len(sent[Other(p)])
             /\ \A i \in 1..Len(delivered[p]) : delivered[p][i] = sent[Other(p)][i]
    <2>1. Other(p) \in Peer /\ rec[p].packet_id \in Nat /\ send[Other(p)].packet_id \in Nat
        BY <1>1, Bounds, PeerFacts
    <2>2. Len(delivered[p]) = Count(rec[p].packet_id)
          /\ Len(sent[Other(p)]) = Count(send[Other(p)].packet_id)
          /\ rec[p].packet_id <= send[Other(p)].packet_id
        BY <1>1, <2>1 DEF IInv, RecInv, SendInv
    <2>3. Len(delivered[p]) <= Len(sent[Other(p)])
        BY <2>1, <2>2 DEF Count
    <2> QED  BY <1>1, <2>3 DEF IInv, RecInv
<1>2. IInv => DeliveredInOrder
    BY <1>1 DEF DeliveredInOrder
<1> QED  BY <1>2, Invariance, PTL

\* A window with one id missing holds fewer than RecSize ids.
LEMMA WindowSize ==
    ASSUME NEW n \in Nat, NEW S \in SUBSET ((n + 1)..(n + RecSize - 1))
    PROVE  Cardinality(S) < RecSize
<1> DEFINE a == n + 1
           b == n + RecSize - 1
<1>1. RecSize \in Nat /\ RecSize >= 1
    BY ChannelAssumption
<1>2. a \in Int /\ b \in Int /\ b - a + 1 = RecSize - 1 /\ (a > b => RecSize - 1 = 0)
    BY <1>1
<1>3. S \subseteq a..b
    OBVIOUS
<1> HIDE DEF a, b
<1>4. IsFiniteSet(a..b) /\ Cardinality(a..b) = RecSize - 1
    BY <1>1, <1>2, FS_Interval
<1>5. IsFiniteSet(S) /\ Cardinality(S) <= Cardinality(a..b)
    BY ZenonT(40), <1>3, <1>4, FS_Subset
<1>6. Cardinality(S) \in Nat
    BY <1>5, FS_CardinalityType
<1> QED  BY <1>1, <1>4, <1>5, <1>6

\* A full receive buffer holds the packet that is to be read next.
THEOREM BufferNeverJams == Spec => []NeverJams
<1>1. ASSUME IInv, NEW p \in Peer, ~reliable_can_get(rec[p], RecSize)
      PROVE  rec[p].packet_id \in Active(rec[p])
    <2> SUFFICES ASSUME rec[p].packet_id \notin Active(rec[p]) PROVE FALSE
        OBVIOUS
    <2>1. rec[p].packet_id \in Nat
        BY <1>1, Bounds
    <2>2. \A q \in Active(rec[p]) : q \in Nat /\ rec[p].packet_id <= q /\ q < rec[p].packet_id + RecSize
        BY <1>1 DEF IInv, RecInv, TypeOK, IsReliable
    <2>3. Active(rec[p]) \subseteq (rec[p].packet_id + 1)..(rec[p].packet_id + RecSize - 1)
        BY <2>1, <2>2, ChannelAssumption
    <2> QED  BY <1>1, <2>1, <2>3, WindowSize DEF reliable_can_get
<1>2. IInv => NeverJams
    BY <1>1 DEF NeverJams, reliable_get_entry_sequenced
<1> QED  BY <1>2, Invariance, PTL

\* The reliability layer, over a network that loses, repeats and reorders
\* packets, implements a FIFO channel in each direction.
THEOREM ImplementsFifo == Spec => FifoSpec
<1>1. Init => Fifo!Init
    BY DEF Init, Fifo!Init
<1>2. ASSUME IInv, [Next]_vars
      PROVE  [Fifo!Next]_(Fifo!vars)
    <2>1. ASSUME NEW p \in Peer, NEW d \in Data, Write(p, d)
          PROVE  Fifo!Next
        BY ZenonT(40), <2>1 DEF Write, Fifo!Next, Fifo!Send
    <2>2. ASSUME NEW p \in Peer, Read(p)
          PROVE  Fifo!Next \/ UNCHANGED Fifo!vars
        <3> DEFINE q == rec[p].packet_id
                   o == Other(p)
        <3>1. /\ q \in Active(rec[p]) /\ UNCHANGED sent
              /\ delivered' = IF q = 0 THEN delivered
                              ELSE [delivered EXCEPT ![p] = Append(delivered[p], rec[p].buf[q])]
            BY <2>2 DEF Read, reliable_get_entry_sequenced
        <3>2. CASE q = 0
            BY <3>1, <3>2 DEF Fifo!vars
        <3>3. CASE q # 0
            <4>1. /\ q \in Nat /\ q < send[o].packet_id /\ send[o].packet_id \in Nat
                  /\ rec[p].buf[q] = Payload(o, q)
                  /\ Len(delivered[p]) = Count(q) /\ Len(sent[o]) = Count(send[o].packet_id)
                  /\ o \in Peer \ {p} /\ p \in Peer \ {o}
                BY ZenonT(40), <1>2, <3>1, Bounds, PeerFacts DEF IInv, RecInv, SendInv
            <4>2. Len(delivered[p]) + 1 = q /\ Len(delivered[p]) < Len(sent[o])
                BY SMTT(60), <3>3, <4>1 DEF Count
            <4>3. rec[p].buf[q] = sent[o][Len(delivered[p]) + 1]
                BY <3>3, <4>1, <4>2 DEF Payload
            <4>4. Fifo!Deliver(o, p)
                BY <3>1, <3>3, <4>2, <4>3 DEF Fifo!Deliver
            <4> QED  BY <4>1, <4>4 DEF Fifo!Next
        <3> QED  BY <3>2, <3>3
    <2>3. ASSUME NEW p \in Peer,
                 Reset(p) \/ Transmit(p) \/ SendAck(p) \/ \E q \in Active(send[p]) : Timeout(p, q)
          PROVE  UNCHANGED Fifo!vars
        BY ZenonT(40), <2>3 DEF Reset, Transmit, SendAck, Timeout, Fifo!vars
    <2>4. ASSUME NEW m \in net, Lose(m) \/ \E p \in Peer : Receive(p, m)
          PROVE  UNCHANGED Fifo!vars
        BY <2>4 DEF Lose, Receive, Fifo!vars
    <2>5. CASE UNCHANGED vars
        BY <2>5 DEF vars, Fifo!vars
    <2> QED  BY <1>2, <2>1, <2>2, <2>3, <2>4, <2>5 DEF Next
<1> QED  BY <1>1, <1>2, Invariance, PTL DEF Spec, FifoSpec, Fifo!Spec
=============================================================================
