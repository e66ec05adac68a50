------------------------- MODULE ReliableSendProofs -------------------------
(***************************************************************************)
(* The inductive invariant of ReliableChannel, and that the steps of a     *)
(* sender and of the network preserve it.                                  *)
(***************************************************************************)
EXTENDS ReliableOpsProofs

-----------------------------------------------------------------------------
(* The inductive invariant: what the state of one side says about the      *)
(* other side and about the packets in flight.                             *)

Count(id) == IF id = 0 THEN 0 ELSE id - 1

\* What packet q of p carries.
Payload(p, q) == IF q = 0 THEN NoData ELSE sent[p][q]

Received(p, q) == q < rec[p].packet_id \/ q \in Active(rec[p])

SendInv ==
    \A p \in Peer :
        /\ send[p].packet_id <= MaxSend(p)
        /\ Len(sent[p]) = Count(send[p].packet_id)
        /\ \A q \in Active(send[p]) :
              q < send[p].packet_id /\ send[p].buf[q].data = Payload(p, q)

RecInv ==
    \A p \in Peer :
        /\ rec[p].packet_id <= send[Other(p)].packet_id
        /\ \A q \in Active(rec[p]) :
              /\ rec[p].packet_id <= q /\ q < rec[p].packet_id + RecSize
              /\ q < send[Other(p)].packet_id
              /\ rec[p].buf[q] = Payload(Other(p), q)
        /\ Len(delivered[p]) = Count(rec[p].packet_id)
        /\ \A i \in 1..Len(delivered[p]) : delivered[p][i] = sent[Other(p)][i]

NetInv ==
    \A m \in net :
        /\ m.pid # NoPid => /\ m.pid < send[Other(m.to)].packet_id
                            /\ m.data = Payload(Other(m.to), m.pid)
        /\ \A a \in m.acks : Received(Other(m.to), a)

AckInv ==
    \A p \in Peer : /\ \A a \in AckIds(ack[p]) : Received(p, a)
                    /\ \A a \in mru[p] : Received(p, a)

IInv == TypeOK /\ SendInv /\ RecInv /\ NetInv /\ AckInv /\ NothingForgotten

LEMMA Bounds ==
    ASSUME IInv
    PROVE  /\ \A p \in Peer :
                 /\ send[p].packet_id \in Nat /\ rec[p].packet_id \in Nat
                 /\ send[p].packet_id + RecSize < Half
                 /\ rec[p].packet_id + RecSize < Half
                 /\ \A q : Received(p, q) /\ q \in Nat => q \in 0..Half
           /\ \A m \in net : m.to \in Peer /\ m.acks \in SUBSET (0..Half)
<1>1. RecSize \in Nat /\ Half \in Nat
    BY ChannelAssumption, ReliableAssumption
<1>2. ASSUME NEW p \in Peer
      PROVE  /\ send[p].packet_id \in Nat /\ rec[p].packet_id \in Nat
             /\ send[p].packet_id + RecSize < Half
             /\ rec[p].packet_id + RecSize < Half
             /\ \A q : Received(p, q) /\ q \in Nat => q \in 0..Half
    <2>1. send[p].packet_id \in Nat /\ rec[p].packet_id \in Nat /\ send[Other(p)].packet_id \in Nat
        BY ZenonT(40), PeerFacts DEF IInv, TypeOK, IsReliable
    <2>2. send[p].packet_id <= MaxSend(p) /\ send[Other(p)].packet_id <= MaxSend(Other(p))
          /\ rec[p].packet_id <= send[Other(p)].packet_id
        BY PeerFacts DEF IInv, SendInv, RecInv
    <2>3. \A q \in Active(rec[p]) : q < send[Other(p)].packet_id
        BY DEF IInv, RecInv
    <2>4. MaxSend(p) \in Nat /\ MaxSend(Other(p)) \in Nat
          /\ MaxSend(p) + RecSize < Half /\ MaxSend(Other(p)) + RecSize < Half
        BY PeerFacts
    <2>5. send[p].packet_id + RecSize < Half /\ rec[p].packet_id + RecSize < Half
        BY <1>1, <2>1, <2>2, <2>4
    <2>6. ASSUME NEW q \in Nat, Received(p, q)
          PROVE  q \in 0..Half
        BY <1>1, <2>1, <2>2, <2>3, <2>4, <2>6 DEF Received
    <2> QED  BY <2>1, <2>5, <2>6
<1>3. ASSUME NEW m \in net
      PROVE  m.to \in Peer /\ m.acks \in SUBSET (0..Half)
    <2>1. m.to \in Peer /\ m.acks \in SUBSET Nat
        BY ZenonT(40) DEF IInv, TypeOK, Packet
    <2>2. \A a \in m.acks : Received(Other(m.to), a)
        BY DEF IInv, NetInv
    <2> QED  BY <1>2, <2>1, <2>2, PeerFacts
<1> QED  BY <1>2, <1>3

LEMMA InitReliable ==
    ASSUME NEW hold \in BOOLEAN, NEW E
    PROVE  /\ reliable_init(hold).packet_id = 0
           /\ Active(reliable_init(hold)) = {}
           /\ IsReliable(reliable_init(hold), E)
<1> DEFINE b == [q \in {} |-> 0]
           new == reliable_init(hold)
<1>1. DOMAIN b = {} /\ b \in [{} -> E]
    OBVIOUS
<1>2. new = [packet_id |-> 0, hold |-> hold, buf |-> b]
    BY DEF reliable_init
<1> HIDE DEF b, new
<1>3. new.packet_id = 0 /\ new.buf = b /\ Active(new) = {}
    BY <1>1, <1>2 DEF Active
<1>4. IsReliable(new, E)
    BY <1>1, <1>2, <1>3 DEF IsReliable
<1> QED  BY <1>3, <1>4 DEF new

LEMMA InitIInv == Init => IInv
<1> SUFFICES ASSUME Init PROVE IInv
    OBVIOUS
<1>4. \A p \in Peer : /\ send[p].packet_id = 0 /\ rec[p].packet_id = 0
                      /\ Active(send[p]) = {} /\ Active(rec[p]) = {}
                      /\ IsReliable(send[p], Entry) /\ IsReliable(rec[p], Data \cup {NoData})
    BY ZenonT(40), InitReliable DEF Init
<1>5. EmptyAck \in ReliableAck /\ AckIds(EmptyAck) = {}
    BY ReliableAssumption DEF EmptyAck, ReliableAck, AckIds
<1>6. TypeOK
    <2>1. send \in [Peer -> {send[p] : p \in Peer}] /\ rec \in [Peer -> {rec[p] : p \in Peer}]
        BY DEF Init
    <2>2. ack \in [Peer -> ReliableAck] /\ mru \in [Peer -> SUBSET Nat]
          /\ link \in [Peer -> BOOLEAN] /\ net \subseteq Packet
        BY <1>5 DEF Init
    <2>3. sent \in [Peer -> Seq(Data)] /\ delivered \in [Peer -> Seq(Data)]
        BY DEF Init
    <2> QED  BY ZenonT(40), <1>4, <2>1, <2>2, <2>3 DEF TypeOK
<1>7. \A p \in Peer : Len(sent[p]) = 0 /\ Len(delivered[p]) = 0 /\ mru[p] = {} /\ ack[p] = EmptyAck
    BY DEF Init
<1>8. SendInv
    BY <1>4, <1>7, PeerFacts DEF SendInv, Count
<1>9. RecInv
    <2> SUFFICES ASSUME NEW p \in Peer
                 PROVE  /\ rec[p].packet_id <= send[Other(p)].packet_id
                        /\ Active(rec[p]) = {}
                        /\ Len(delivered[p]) = Count(rec[p].packet_id)
                        /\ Len(delivered[p]) = 0
        BY DEF RecInv
    <2> QED  BY <1>4, <1>7, PeerFacts DEF Count
<1>10. NetInv
    BY DEF NetInv, Init
<1>11. AckInv
    BY <1>5, <1>7 DEF AckInv
<1>12. NothingForgotten
    BY <1>4 DEF NothingForgotten
<1> QED  BY <1>6, <1>8, <1>9, <1>10, <1>11, <1>12 DEF IInv

\* What SendInv' and RecInv' say, peer by peer.
LEMMA SendInvPrimed ==
    ASSUME \A r \in Peer : /\ send'[r].packet_id <= MaxSend(r)
                           /\ Len(sent'[r]) = Count(send'[r].packet_id)
                           /\ \A q \in Active(send'[r]) :
                                  /\ q < send'[r].packet_id
                                  /\ send'[r].buf[q].data = Payload(r, q)'
    PROVE  SendInv'
BY DEF SendInv, Active

LEMMA RecInvPrimed ==
    ASSUME \A r \in Peer : /\ rec'[r].packet_id <= send'[Other(r)].packet_id
                           /\ \A q \in Active(rec'[r]) :
                                  /\ rec'[r].packet_id <= q /\ q < rec'[r].packet_id + RecSize
                                  /\ q < send'[Other(r)].packet_id
                                  /\ rec'[r].buf[q] = Payload(Other(r), q)'
                           /\ Len(delivered'[r]) = Count(rec'[r].packet_id)
                           /\ \A i \in 1..Len(delivered'[r]) : delivered'[r][i] = sent'[Other(r)][i]
    PROVE  RecInv'
BY DEF RecInv, Active

\* A step that only changes timers and counters of the send buffers.
LEMMA SendInvStep ==
    ASSUME IInv, UNCHANGED sent,
           \A p \in Peer : /\ send'[p].packet_id = send[p].packet_id
                           /\ Active(send[p])' = Active(send[p])
                           /\ \A q \in Active(send[p]) : send'[p].buf[q].data = send[p].buf[q].data
    PROVE  SendInv'
BY DEF IInv, SendInv, Payload

LEMMA RecInvStep ==
    ASSUME IInv, UNCHANGED <<rec, sent, delivered>>,
           \A p \in Peer : send'[p].packet_id = send[p].packet_id
    PROVE  RecInv'
BY PeerFacts DEF IInv, RecInv, Payload, Active

LEMMA TypeStep ==
    ASSUME IInv,
           send' \in [Peer -> {send'[p] : p \in Peer}],
           \A p \in Peer : IsReliable(send'[p], Entry),
           rec' = rec,
           ack' \in [Peer -> ReliableAck], mru' \in [Peer -> SUBSET Nat],
           link' \in [Peer -> BOOLEAN], net' \subseteq Packet,
           sent' \in [Peer -> Seq(Data)], delivered' \in [Peer -> Seq(Data)]
    PROVE  TypeOK'
BY ZenonT(40) DEF IInv, TypeOK

LEMMA WriteAcksStep ==
    ASSUME IInv, NEW p \in Peer, NEW pid, NEW data, NEW max \in Nat,
           WriteAcks(p, pid, data, max), UNCHANGED rec
    PROVE  /\ ack' \in [Peer -> ReliableAck]
           /\ mru' \in [Peer -> SUBSET Nat]
           /\ AckInv'
           /\ \E s \in SUBSET Nat :
                 /\ \A a \in s : Received(p, a)
                 /\ net' \subseteq net \cup {[to |-> Other(p), pid |-> pid, data |-> data, acks |-> s]}
<1> DEFINE taken == AckTaken(ack[p], max)
<1>1. ack \in [Peer -> ReliableAck] /\ ack[p] \in ReliableAck /\ mru \in [Peer -> SUBSET Nat]
    BY ZenonT(40) DEF IInv, TypeOK
<1>2. AckRest(ack[p], max) \in ReliableAck /\ AckIds(AckRest(ack[p], max)) \subseteq AckIds(ack[p])
      /\ taken \subseteq AckIds(ack[p])
    BY <1>1, AckWrite
<1>3. AckIds(ack[p]) \subseteq Nat
    BY <1>1, AckWrite
<1>4. ack' = [ack EXCEPT ![p] = AckRest(ack[p], max)]
    BY DEF WriteAcks
<1> HIDE DEF taken
<1>5. PICK m \in MruAfter(mru[p], taken) :
          /\ mru' = [mru EXCEPT ![p] = m]
          /\ \E s \in AcksWritten(m, taken, max) :
                Emit([to |-> Other(p), pid |-> pid, data |-> data, acks |-> s])
    BY ZenonT(40) DEF WriteAcks, taken
<1>6. m \subseteq mru[p] \cup taken
    BY <1>5 DEF MruAfter
<1>7. PICK s \in AcksWritten(m, taken, max) :
          Emit([to |-> Other(p), pid |-> pid, data |-> data, acks |-> s])
    BY <1>5
<1>8. s \subseteq m
    BY <1>7 DEF AcksWritten
<1>9. mru[p] \subseteq Nat /\ \A a \in mru[p] \cup AckIds(ack[p]) : Received(p, a)
    BY <1>1 DEF IInv, AckInv
<1>10. m \subseteq Nat /\ \A a \in m : Received(p, a)
    BY <1>2, <1>3, <1>6, <1>9
<1>11. net' \subseteq net \cup {[to |-> Other(p), pid |-> pid, data |-> data, acks |-> s]}
    BY <1>7 DEF Emit
<1>12. \A r \in Peer : \A a : Received(r, a)' <=> Received(r, a)
    BY DEF Received, Active
<1>13. AckInv'
    <2> SUFFICES ASSUME NEW r \in Peer
                 PROVE  /\ \A a \in AckIds(ack'[r]) : Received(r, a)
                        /\ \A a \in mru'[r] : Received(r, a)
        BY <1>12 DEF AckInv
    <2>1. CASE r = p
        BY ZenonT(40), <1>1, <1>2, <1>4, <1>5, <1>9, <1>10, <2>1
    <2>2. CASE r # p
        BY <1>1, <1>4, <1>5, <2>2 DEF IInv, AckInv
    <2> QED  BY <2>1, <2>2
<1>14. ack' \in [Peer -> ReliableAck] /\ mru' \in [Peer -> SUBSET Nat]
    BY <1>1, <1>2, <1>4, <1>5, <1>10
<1>15. s \in SUBSET Nat /\ \A a \in s : Received(p, a)
    BY <1>8, <1>10
<1> QED  BY <1>11, <1>13, <1>14, <1>15

\* A step that adds one packet of p at most, and none to rec, sent.
LEMMA NetInvStep ==
    ASSUME IInv, NEW p \in Peer, NEW m \in Packet, UNCHANGED <<rec, sent>>,
           \A r \in Peer : send'[r].packet_id = send[r].packet_id,
           net' \subseteq net \cup {m},
           m.to = Other(p),
           m.pid # NoPid => m.pid < send[p].packet_id /\ m.data = Payload(p, m.pid),
           \A a \in m.acks : Received(p, a)
    PROVE  net' \subseteq Packet /\ NetInv'
<1>1. net' \subseteq Packet /\ net \subseteq Packet
    BY ZenonT(40) DEF IInv, TypeOK
<1>2. \A r \in Peer : \A q : Payload(r, q)' = Payload(r, q) /\ (Received(r, q)' <=> Received(r, q))
    BY DEF Payload, Received, Active
<1>3. ASSUME NEW x \in net'
      PROVE  /\ x.pid # NoPid => /\ x.pid < send'[Other(x.to)].packet_id
                                 /\ x.data = Payload(Other(x.to), x.pid)'
             /\ \A a \in x.acks : Received(Other(x.to), a)'
    <2>1. Other(x.to) \in Peer
        BY <1>1, PeerFacts DEF Packet
    <2>2. CASE x \in net
        BY <1>2, <2>1, <2>2 DEF IInv, NetInv
    <2>3. CASE x = m
        BY <1>2, <2>1, <2>3, PeerFacts
    <2> QED  BY <2>2, <2>3
<1> QED  BY <1>1, <1>3 DEF NetInv

LEMMA ForgottenStep ==
    ASSUME IInv, UNCHANGED rec,
           \A p \in Peer : /\ send'[p].packet_id = send[p].packet_id
                           /\ Active(send[p])' = Active(send[p])
    PROVE  NothingForgotten'
BY PeerFacts DEF IInv, NothingForgotten, Active

LEMMA TransmitStep ==
    ASSUME IInv, NEW p \in Peer, Transmit(p)
    PROVE  IInv'
<1>1. PICK q \in Sendable(send[p]) :
          /\ send' = [send EXCEPT ![p] = reliable_send(send[p], q)]
          /\ WriteAcks(p, q, send[p].buf[q].data, SendAckMax)
    BY ZenonT(40) DEF Transmit
<1>2. UNCHANGED <<rec, link, sent, delivered>>
    BY DEF Transmit
<1>3. q \in Active(send[p])
    BY <1>1 DEF Sendable
<1> DEFINE new == reliable_send(send[p], q)
           d == send[p].buf[q].data
<1>4. send \in [Peer -> {send[r] : r \in Peer}] /\ \A r \in Peer : IsReliable(send[r], Entry)
    BY ZenonT(40) DEF IInv, TypeOK
<1>5. /\ IsReliable(new, Entry)
      /\ new.packet_id = send[p].packet_id
      /\ Active(new) = Active(send[p])
      /\ \A x \in Active(send[p]) : new.buf[x].data = send[p].buf[x].data
    BY <1>3, <1>4, ReliableSend
<1> HIDE DEF new
<1>6. /\ send' \in [Peer -> {send'[r] : r \in Peer}]
      /\ \A r \in Peer : send'[r] = IF r = p THEN new ELSE send[r]
    BY <1>1, <1>4 DEF new
<1>7. \A r \in Peer : /\ IsReliable(send'[r], Entry)
                      /\ send'[r].packet_id = send[r].packet_id
                      /\ Active(send[r])' = Active(send[r])
                      /\ \A x \in Active(send[r]) : send'[r].buf[x].data = send[r].buf[x].data
    BY <1>4, <1>5, <1>6 DEF Active
<1>8. PICK s \in SUBSET Nat :
          /\ \A a \in s : Received(p, a)
          /\ net' \subseteq net \cup {[to |-> Other(p), pid |-> q, data |-> d, acks |-> s]}
    BY <1>1, <1>2, WriteAcksStep, ChannelAssumption
<1>9. ack' \in [Peer -> ReliableAck] /\ mru' \in [Peer -> SUBSET Nat] /\ AckInv'
    BY <1>1, <1>2, WriteAcksStep, ChannelAssumption
<1>10. q \in Nat /\ q < send[p].packet_id /\ d = Payload(p, q) /\ d \in Data \cup {NoData}
    BY <1>3, <1>4 DEF IInv, SendInv, IsReliable, Entry
<1> DEFINE m == [to |-> Other(p), pid |-> q, data |-> d, acks |-> s]
<1>11. m \in Packet
    BY <1>8, <1>10, PeerFacts DEF Packet
<1>12. net' \subseteq Packet /\ NetInv'
    BY <1>2, <1>7, <1>8, <1>10, <1>11, NetInvStep
<1>13. TypeOK'
    BY ZenonT(40), <1>2, <1>6, <1>7, <1>9, <1>12 DEF IInv, TypeOK, IsReliable, Active
<1> QED  BY <1>2, <1>7, <1>9, <1>12, <1>13, SendInvStep, RecInvStep, ForgottenStep DEF IInv

LEMMA SendAckStep ==
    ASSUME IInv, NEW p \in Peer, SendAck(p)
    PROVE  IInv'
<1>1. WriteAcks(p, NoPid, NoData, AckSize) /\ UNCHANGED <<send, rec, link, sent, delivered>>
      /\ AckSize \in Nat
    BY ReliableAssumption DEF SendAck
<1>2. PICK s \in SUBSET Nat :
          /\ \A a \in s : Received(p, a)
          /\ net' \subseteq net \cup {[to |-> Other(p), pid |-> NoPid, data |-> NoData, acks |-> s]}
    BY <1>1, WriteAcksStep
<1>3. ack' \in [Peer -> ReliableAck] /\ mru' \in [Peer -> SUBSET Nat] /\ AckInv'
    BY <1>1, WriteAcksStep
<1> DEFINE m == [to |-> Other(p), pid |-> NoPid, data |-> NoData, acks |-> s]
<1>4. m \in Packet
    BY <1>2, PeerFacts DEF Packet
<1>5. net' \subseteq Packet /\ NetInv'
    BY ZenonT(40), <1>1, <1>2, <1>4, NetInvStep
<1>6. TypeOK'
    BY ZenonT(40), <1>1, <1>3, <1>5 DEF IInv, TypeOK, IsReliable, Active
<1>7. \A r \in Peer : Active(send[r])' = Active(send[r])
    BY <1>1 DEF Active
<1> QED  BY <1>1, <1>3, <1>5, <1>6, <1>7, SendInvStep, RecInvStep, ForgottenStep DEF IInv

LEMMA TimeoutStep ==
    ASSUME IInv, NEW p \in Peer, NEW q \in Active(send[p]), Timeout(p, q)
    PROVE  IInv'
<1> DEFINE new == WithBuf(send[p], [send[p].buf EXCEPT ![q].due = TRUE])
<1>1. send' = [send EXCEPT ![p] = new] /\ UNCHANGED <<rec, ack, mru, link, net, sent, delivered>>
    BY DEF Timeout
<1>2. send \in [Peer -> {send[r] : r \in Peer}] /\ \A r \in Peer : IsReliable(send[r], Entry)
    BY ZenonT(40) DEF IInv, TypeOK
<1>3. /\ IsReliable(new, Entry)
      /\ new.packet_id = send[p].packet_id
      /\ Active(new) = Active(send[p])
      /\ \A x \in Active(send[p]) : new.buf[x].data = send[p].buf[x].data
    BY ZenonT(40), <1>2, TimerRunsOut
<1> HIDE DEF new
<1>4. /\ send' \in [Peer -> {send'[r] : r \in Peer}]
      /\ \A r \in Peer : send'[r] = IF r = p THEN new ELSE send[r]
    BY <1>1, <1>2
<1>5. \A r \in Peer : /\ IsReliable(send'[r], Entry)
                      /\ send'[r].packet_id = send[r].packet_id
                      /\ Active(send[r])' = Active(send[r])
                      /\ \A x \in Active(send[r]) : send'[r].buf[x].data = send[r].buf[x].data
    BY <1>2, <1>3, <1>4 DEF Active
<1>6. TypeOK'
    BY ZenonT(40), <1>1, <1>4, <1>5, TypeStep DEF IInv, TypeOK
<1>7. NetInv' /\ AckInv'
    <2>1. \A r \in Peer : \A x : Payload(r, x)' = Payload(r, x) /\ (Received(r, x)' <=> Received(r, x))
        BY <1>1 DEF Payload, Received, Active
    <2>2. \A m \in net : Other(m.to) \in Peer
        BY PeerFacts DEF IInv, TypeOK, Packet
    <2> QED  BY ZenonT(40), <1>1, <1>5, <2>1, <2>2 DEF IInv, NetInv, AckInv
<1> QED  BY <1>1, <1>5, <1>6, <1>7, SendInvStep, RecInvStep, ForgottenStep DEF IInv

LEMMA LoseStep ==
    ASSUME IInv, NEW m \in net, Lose(m)
    PROVE  IInv'
<1>1. net' \subseteq net /\ UNCHANGED <<send, rec, ack, mru, link, sent, delivered>>
    BY DEF Lose
<1>2. TypeOK'
    BY ZenonT(40), <1>1 DEF IInv, TypeOK, IsReliable, Active
<1>3. SendInv' /\ RecInv' /\ NothingForgotten' /\ AckInv'
    BY SMTT(60), <1>1 DEF IInv, SendInv, RecInv, NothingForgotten, AckInv, Payload, Received, Active
<1>4. NetInv'
    BY <1>1 DEF IInv, NetInv, Payload, Received, Active
<1> QED  BY <1>2, <1>3, <1>4 DEF IInv

\* A step that appends packet n with content d to what p has to send.
Outgoing(p, d) ==
    /\ send' = [send EXCEPT ![p] = reliable_mark_active_outgoing(send[p], d)]
    /\ UNCHANGED <<rec, ack, mru, link, net, delivered>>
    /\ send[p].packet_id < MaxSend(p)
    /\ sent' \in [Peer -> Seq(Data)]
    /\ Len(sent'[p]) = send[p].packet_id
    /\ \A r \in Peer \ {p} : sent'[r] = sent[r]
    /\ \A q \in 1..Len(sent[p]) : sent'[p][q] = sent[p][q]
    /\ d = IF send[p].packet_id = 0 THEN NoData ELSE sent'[p][send[p].packet_id]

LEMMA OutgoingStep ==
    ASSUME IInv, NEW p \in Peer, NEW d \in Data \cup {NoData}, Outgoing(p, d)
    PROVE  IInv'
<1>0. PICK n \in Nat : n = send[p].packet_id
    BY Bounds
<1>a. rec' = rec /\ ack' = ack /\ mru' = mru /\ link' = link /\ net' = net /\ delivered' = delivered
    BY DEF Outgoing
<1>b. /\ Len(sent'[p]) = n /\ n < MaxSend(p)
      /\ \A r \in Peer \ {p} : sent'[r] = sent[r]
      /\ \A q \in 1..Len(sent[p]) : sent'[p][q] = sent[p][q]
    BY <1>0 DEF Outgoing
<1> DEFINE new == reliable_mark_active_outgoing(send[p], d)
<1>1. send \in [Peer -> {send[r] : r \in Peer}] /\ \A r \in Peer : IsReliable(send[r], Entry)
    BY ZenonT(40) DEF IInv, TypeOK
<1>2. n \in Nat /\ n + RecSize < Half
    BY <1>0, Bounds
<1>3. /\ IsReliable(new, Entry)
      /\ new.packet_id = n + 1
      /\ Active(new) = Active(send[p]) \cup {n}
      /\ \A q \in Active(new) : new.buf[q].data = IF q = n THEN d ELSE send[p].buf[q].data
    BY SMTT(60), <1>0, <1>1, <1>2, MarkActiveOutgoing
<1>4. /\ send' \in [Peer -> {send'[r] : r \in Peer}]
      /\ send'[p] = new /\ \A r \in Peer \ {p} : send'[r] = send[r]
    BY <1>1 DEF Outgoing
<1> HIDE DEF new
<1>5. \A r \in Peer : IsReliable(send'[r], Entry)
    BY ZenonT(40), <1>1, <1>3, <1>4
<1>6. TypeOK'
    BY ZenonT(40), <1>4, <1>5, TypeStep DEF IInv, TypeOK, Outgoing
<1>7. Len(sent[p]) = Count(n)
    BY <1>0 DEF IInv, SendInv
<1>8. \A r \in Peer : \A q \in Nat : q < send[r].packet_id => Payload(r, q)' = Payload(r, q)
    <2> SUFFICES ASSUME NEW r \in Peer, NEW q \in Nat, q < send[r].packet_id
                 PROVE  Payload(r, q)' = Payload(r, q)
        OBVIOUS
    <2>1. CASE r # p
        BY <1>b, <2>1 DEF Payload
    <2>2. CASE r = p
        <3>1. q = 0 \/ q \in 1..Len(sent[p])
            BY SMTT(60), <1>0, <1>7, <2>2 DEF Count
        <3> QED  BY <1>b, <2>2, <3>1 DEF Payload
    <2> QED  BY <2>1, <2>2
<1>9. d = Payload(p, n)'
    BY <1>0 DEF Payload, Outgoing
<1>10. \A r \in Peer : /\ send[r].packet_id \in Nat
                       /\ send[r].packet_id <= send'[r].packet_id
    BY SMTT(60), <1>0, <1>3, <1>4, Bounds
<1>11. SendInv'
    <2> SUFFICES ASSUME NEW r \in Peer
                 PROVE  /\ send'[r].packet_id <= MaxSend(r)
                        /\ Len(sent'[r]) = Count(send'[r].packet_id)
                        /\ \A q \in Active(send'[r]) :
                             q < send'[r].packet_id /\ send'[r].buf[q].data = Payload(r, q)'
        BY ZenonT(40) DEF SendInv, Active
    <2>0. /\ send[r].packet_id <= MaxSend(r)
          /\ Len(sent[r]) = Count(send[r].packet_id)
          /\ \A q \in Active(send[r]) :
                q \in Nat /\ q < send[r].packet_id /\ send[r].buf[q].data = Payload(r, q)
        BY <1>1 DEF IInv, SendInv, IsReliable
    <2>1. CASE r # p
        BY SMTT(60), <1>b, <1>4, <1>8, <2>0, <2>1
    <2>2. CASE r = p
        <3>0. send'[p].packet_id = n + 1 /\ MaxSend(p) \in Nat
            BY <1>3, <1>4, PeerFacts
        <3>1. send'[p].packet_id = n + 1 /\ n + 1 <= MaxSend(p) /\ Count(n + 1) = n
            BY <1>b, <3>0 DEF Count
        <3>2. ASSUME NEW q \in Active(new)
              PROVE  q < n + 1 /\ new.buf[q].data = Payload(p, q)'
            <4>1. CASE q = n
                BY SMTT(60), <1>2, <1>3, <1>9, <4>1
            <4>2. CASE q # n
                <5>1. q \in Active(send[p]) /\ new.buf[q].data = send[p].buf[q].data
                    BY <1>3, <4>2
                <5>2. q \in Nat /\ q < n /\ send[p].buf[q].data = Payload(p, q)
                    BY <1>0, <2>0, <2>2, <5>1
                <5>3. Payload(p, q)' = Payload(p, q)
                    BY <1>0, <1>8, <5>2
                <5> QED  BY SMTT(60), <5>1, <5>2, <5>3
            <4> QED  BY <4>1, <4>2
        <3> QED  BY SMTT(60), <1>b, <1>0, <1>4, <2>2, <3>1, <3>2
    <2> QED  BY ZenonT(40), <2>1, <2>2
<1>12. RecInv'
    <2> SUFFICES ASSUME NEW r \in Peer
                 PROVE  /\ rec[r].packet_id <= send'[Other(r)].packet_id
                        /\ \A q \in Active(rec[r]) :
                              /\ rec[r].packet_id <= q /\ q < rec[r].packet_id + RecSize
                              /\ q < send'[Other(r)].packet_id
                              /\ rec[r].buf[q] = Payload(Other(r), q)'
                        /\ Len(delivered[r]) = Count(rec[r].packet_id)
                        /\ \A i \in 1..Len(delivered[r]) : delivered[r][i] = sent'[Other(r)][i]
        BY ZenonT(40), <1>a DEF RecInv, Active
    <2>0. /\ rec[r].packet_id <= send[Other(r)].packet_id
          /\ \A q \in Active(rec[r]) :
                 /\ q \in Nat
                 /\ rec[r].packet_id <= q /\ q < rec[r].packet_id + RecSize
                 /\ q < send[Other(r)].packet_id
                 /\ rec[r].buf[q] = Payload(Other(r), q)
          /\ Len(delivered[r]) = Count(rec[r].packet_id)
          /\ \A i \in 1..Len(delivered[r]) : delivered[r][i] = sent[Other(r)][i]
        BY ZenonT(40) DEF IInv, RecInv, TypeOK, IsReliable
    <2>1. Other(r) \in Peer /\ rec[r].packet_id \in Nat /\ send[Other(r)].packet_id \in Nat
          /\ send'[Other(r)].packet_id \in Nat
        BY <1>5, Bounds, PeerFacts DEF IsReliable
    <2>2. send[Other(r)].packet_id <= send'[Other(r)].packet_id
        BY <1>10, <2>1
    <2>3. \A i \in 1..Len(delivered[r]) : sent'[Other(r)][i] = sent[Other(r)][i]
        <3>1. Len(sent[Other(r)]) = Count(send[Other(r)].packet_id)
            BY <2>1 DEF IInv, SendInv
        <3>2. \A i \in 1..Len(delivered[r]) : i \in 1..Len(sent[Other(r)])
            BY SMTT(60), <2>0, <2>1, <3>1 DEF Count
        <3> QED  BY <1>b, <2>1, <3>2
    <2>4. \A q \in Active(rec[r]) : q < send'[Other(r)].packet_id
                                    /\ rec[r].buf[q] = Payload(Other(r), q)'
        <3> SUFFICES ASSUME NEW q \in Active(rec[r])
                     PROVE  q < send'[Other(r)].packet_id /\ rec[r].buf[q] = Payload(Other(r), q)'
            OBVIOUS
        <3>1. /\ q \in Nat /\ q < send[Other(r)].packet_id
              /\ rec[r].buf[q] = Payload(Other(r), q)
            BY <2>0
        <3>2. Payload(Other(r), q)' = Payload(Other(r), q)
            BY <1>8, <2>1, <3>1
        <3>3. q < send'[Other(r)].packet_id
            BY SMTT(60), <2>1, <2>2, <3>1
        <3> QED  BY <3>1, <3>2, <3>3
    <2>5. rec[r].packet_id <= send'[Other(r)].packet_id
        BY SMTT(60), <2>0, <2>1, <2>2
    <2> QED  BY ZenonT(40), <2>0, <2>3, <2>4, <2>5
<1>13. NetInv'
    <2> SUFFICES ASSUME NEW m \in net
                 PROVE  /\ m.pid # NoPid => /\ m.pid < send'[Other(m.to)].packet_id
                                            /\ m.data = Payload(Other(m.to), m.pid)'
                        /\ \A a \in m.acks : Received(Other(m.to), a)'
        BY <1>a DEF NetInv
    <2>1. Other(m.to) \in Peer /\ (m.pid = NoPid \/ m.pid \in Nat)
        BY ZenonT(40), PeerFacts DEF IInv, TypeOK, Packet
    <2>2. /\ m.pid # NoPid => /\ m.pid < send[Other(m.to)].packet_id
                              /\ m.data = Payload(Other(m.to), m.pid)
          /\ \A a \in m.acks : Received(Other(m.to), a)
        BY DEF IInv, NetInv
    <2>3. \A a : Received(Other(m.to), a)' <=> Received(Other(m.to), a)
        BY <1>a DEF Received, Active
    <2>4. send[Other(m.to)].packet_id \in Nat /\ send'[Other(m.to)].packet_id \in Nat
          /\ send[Other(m.to)].packet_id <= send'[Other(m.to)].packet_id
        BY ZenonT(40), <1>5, <1>10, <2>1 DEF IsReliable
    <2>5. \A a \in m.acks : Received(Other(m.to), a)'
        BY ZenonT(40), <2>2, <2>3
    <2>6. ASSUME m.pid # NoPid
          PROVE  m.pid < send'[Other(m.to)].packet_id /\ m.data = Payload(Other(m.to), m.pid)'
        <3>1. /\ m.pid \in Nat /\ m.pid < send[Other(m.to)].packet_id
              /\ m.data = Payload(Other(m.to), m.pid)
            BY <2>1, <2>2, <2>6
        <3>2. Payload(Other(m.to), m.pid)' = Payload(Other(m.to), m.pid)
            BY <1>8, <2>1, <3>1
        <3>3. m.pid < send'[Other(m.to)].packet_id
            BY SMTT(60), <2>4, <3>1
        <3> QED  BY <3>1, <3>2, <3>3
    <2> QED  BY <2>5, <2>6
<1>14. AckInv'
    BY <1>a DEF IInv, AckInv, Received, Active
<1>15. NothingForgotten'
    <2> SUFFICES ASSUME NEW r \in Peer, NEW q \in 0..(send'[r].packet_id - 1)
                 PROVE  \/ q \in Active(send'[r])
                        \/ q < rec[Other(r)].packet_id
                        \/ q \in Active(rec[Other(r)])
        BY <1>a DEF NothingForgotten, Active
    <2>1. CASE r # p
        BY <1>4, <2>1 DEF IInv, NothingForgotten
    <2>2. CASE r = p
        <3>1. q \in Nat /\ q < n + 1
            BY SMTT(60), <1>2, <1>3, <1>4, <2>2
        <3>2. CASE q = n
            BY <1>3, <1>4, <2>2, <3>2
        <3>3. CASE q # n
            <4>1. q \in 0..(send[p].packet_id - 1)
                BY SMTT(60), <1>0, <3>1, <3>3
            <4> QED  BY <1>3, <1>4, <2>2, <4>1 DEF IInv, NothingForgotten
        <3> QED  BY <3>2, <3>3
    <2> QED  BY <2>1, <2>2
<1> QED  BY <1>6, <1>11, <1>12, <1>13, <1>14, <1>15 DEF IInv

LEMMA ResetStep ==
    ASSUME IInv, NEW p \in Peer, Reset(p)
    PROVE  IInv'
<1>1. /\ send[p].packet_id = 0
      /\ send' = [send EXCEPT ![p] = reliable_mark_active_outgoing(send[p], NoData)]
      /\ UNCHANGED <<rec, ack, mru, link, net, sent, delivered>>
    BY DEF Reset
<1>2. Len(sent[p]) = 0 /\ sent \in [Peer -> Seq(Data)]
    BY ZenonT(40), <1>1 DEF IInv, SendInv, TypeOK, Count
<1>3. sent' \in [Peer -> Seq(Data)] /\ Len(sent'[p]) = send[p].packet_id
      /\ (\A r \in Peer \ {p} : sent'[r] = sent[r])
      /\ \A q \in 1..Len(sent[p]) : sent'[p][q] = sent[p][q]
    BY <1>1, <1>2
<1>4. send[p].packet_id < MaxSend(p)
    BY <1>1, PeerFacts
<1>5. Outgoing(p, NoData)
    BY ZenonT(40), <1>1, <1>3, <1>4 DEF Outgoing
<1> QED  BY <1>5, OutgoingStep

LEMMA WriteStep ==
    ASSUME IInv, NEW p \in Peer, NEW d \in Data, Write(p, d)
    PROVE  IInv'
<1>1. /\ send[p].packet_id # 0 /\ send[p].packet_id < MaxSend(p)
      /\ send' = [send EXCEPT ![p] = reliable_mark_active_outgoing(send[p], d)]
      /\ sent' = [sent EXCEPT ![p] = Append(sent[p], d)]
      /\ UNCHANGED <<rec, ack, mru, link, net, delivered>>
    BY DEF Write
<1>2. sent \in [Peer -> Seq(Data)] /\ send[p].packet_id \in Nat
      /\ Len(sent[p]) = send[p].packet_id - 1
    BY ZenonT(40), <1>1, Bounds DEF IInv, SendInv, TypeOK, Count
<1>3. sent[p] \in Seq(Data) /\ Len(sent[p]) + 1 = send[p].packet_id
    BY <1>2
<1>4. /\ Append(sent[p], d) \in Seq(Data)
      /\ Len(Append(sent[p], d)) = send[p].packet_id
      /\ \A i \in 1..Len(sent[p]) : Append(sent[p], d)[i] = sent[p][i]
      /\ Append(sent[p], d)[send[p].packet_id] = d
    BY <1>3, AppendFacts
<1>5. sent' \in [Peer -> Seq(Data)] /\ sent'[p] = Append(sent[p], d)
      /\ \A r \in Peer \ {p} : sent'[r] = sent[r]
    BY ZenonT(40), <1>1, <1>2, <1>4
<1>6. Outgoing(p, d)
    BY ZenonT(40), <1>1, <1>4, <1>5 DEF Outgoing
<1> QED  BY <1>6, OutgoingStep
=============================================================================
