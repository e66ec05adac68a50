------------------------- MODULE ReliableOpsProofs --------------------------
(***************************************************************************)
(* What the operations on the structures of reliable.c do, for every size  *)
(* of the buffers and of the acknowledgement lists, as long as the packet  *)
(* ids do not wrap (ChannelAssumption).                                    *)
(***************************************************************************)
EXTENDS ReliableChannel, FiniteSetTheorems, TLAPS

LEMMA PeerFacts ==
    /\ \A p \in Peer : Other(p) \in Peer /\ Other(Other(p)) = p /\ Other(p) # p
    /\ \A p \in Peer : /\ MaxSend(p) \in Nat /\ MaxSend(p) >= 1
                       /\ MaxSend(p) + RecSize < Half
BY ChannelAssumption, ReliableAssumption DEF Peer, Other, MaxSend

\* Below Half, the arithmetic of reliable.c on packet ids is plain arithmetic.
LEMMA SmallIds ==
    ASSUME NEW a \in Nat, NEW b \in Nat, a < Half, b + RecSize < Half
    PROVE  /\ add_pid(b, 1) = b + 1
           /\ reliable_pid_min(a, b) <=> a < b
           /\ reliable_pid_in_range2(a, b, RecSize) <=> a < b + RecSize
<1>1. Half \in Nat /\ Half > 0 /\ RecSize \in Nat /\ RecSize > 0
    BY ChannelAssumption, ReliableAssumption
<1>2. add_pid(b, 1) = b + 1 /\ add_pid(b, RecSize) = b + RecSize
    BY <1>1 DEF add_pid, PidMod
<1>3. reliable_pid_min(a, b) <=> a < b
    BY <1>1 DEF reliable_pid_min, reliable_pid_in_range1, subtract_pid, PidMod
<1>4. reliable_pid_in_range2(a, b, RecSize) <=> a < b + RecSize
    BY <1>1, <1>2 DEF reliable_pid_in_range2
<1> QED  BY <1>2, <1>3, <1>4

LEMMA AppendFacts ==
    ASSUME NEW S, NEW seq \in Seq(S), NEW elt \in S
    PROVE  /\ Append(seq, elt) \in Seq(S)
           /\ Len(Append(seq, elt)) = Len(seq) + 1
           /\ \A i \in 1..Len(seq) : Append(seq, elt)[i] = seq[i]
           /\ Append(seq, elt)[Len(seq) + 1] = elt
OBVIOUS

-----------------------------------------------------------------------------
(* What the operations on struct reliable do.                              *)

LEMMA MarkActiveOutgoing ==
    ASSUME NEW rel, IsReliable(rel, Entry), rel.packet_id + RecSize < Half,
           NEW d \in Data \cup {NoData}
    PROVE  LET new == reliable_mark_active_outgoing(rel, d) IN
           /\ IsReliable(new, Entry)
           /\ new.packet_id = rel.packet_id + 1
           /\ Active(new) = Active(rel) \cup {rel.packet_id}
           /\ \A q \in Active(new) :
                 new.buf[q].data = IF q = rel.packet_id THEN d ELSE rel.buf[q].data
<1> DEFINE n == rel.packet_id
           e == [due |-> TRUE, n_acks |-> 0, data |-> d]
           b == Put(rel.buf, n, e)
           new == reliable_mark_active_outgoing(rel, d)
<1>1. n \in Nat /\ rel.hold \in BOOLEAN /\ Active(rel) \subseteq Nat
      /\ rel.buf \in [Active(rel) -> Entry]
    BY DEF IsReliable
<1>2. add_pid(n, 1) = n + 1
    BY <1>1, SmallIds, ReliableAssumption, ChannelAssumption
<1>3. new = [packet_id |-> n + 1, hold |-> rel.hold, buf |-> b]
    BY <1>2 DEF reliable_mark_active_outgoing
<1>4. e \in Entry /\ e.data = d
    BY ReliableAssumption DEF Entry
<1>5. b \in [Active(rel) \cup {n} -> Entry]
      /\ \A q \in Active(rel) \cup {n} : b[q] = IF q = n THEN e ELSE rel.buf[q]
    BY <1>1, <1>4 DEF Put, Active
<1> HIDE DEF n, e, b, new
<1>6. new.packet_id = n + 1 /\ new.buf = b /\ Active(new) = Active(rel) \cup {n}
    BY <1>3, <1>5 DEF Active
<1>7. IsReliable(new, Entry)
    BY <1>1, <1>3, <1>5, <1>6 DEF IsReliable
<1>8. \A q \in Active(new) : new.buf[q].data = IF q = n THEN d ELSE rel.buf[q].data
    BY <1>4, <1>5, <1>6
<1> QED  BY <1>6, <1>7, <1>8 DEF n, new

LEMMA ReliableSend ==
    ASSUME NEW rel, IsReliable(rel, Entry), NEW pid \in Active(rel)
    PROVE  LET new == reliable_send(rel, pid) IN
           /\ IsReliable(new, Entry)
           /\ new.packet_id = rel.packet_id
           /\ Active(new) = Active(rel)
           /\ \A q \in Active(rel) : new.buf[q].data = rel.buf[q].data
<1> DEFINE e == [due |-> FALSE, n_acks |-> 0, data |-> rel.buf[pid].data]
           b == Put(rel.buf, pid, e)
           new == reliable_send(rel, pid)
<1>1. rel.packet_id \in Nat /\ rel.hold \in BOOLEAN /\ Active(rel) \subseteq Nat
      /\ rel.buf \in [Active(rel) -> Entry]
    BY DEF IsReliable
<1>2. rel.buf[pid] \in Entry
    BY <1>1
<1>3. e \in Entry /\ e.data = rel.buf[pid].data
    BY <1>2, ReliableAssumption DEF Entry
<1>4. new = [packet_id |-> rel.packet_id, hold |-> rel.hold, buf |-> b]
    BY DEF reliable_send, WithBuf
<1>5. b \in [Active(rel) -> Entry] /\ \A q \in Active(rel) : b[q] = IF q = pid THEN e ELSE rel.buf[q]
    BY <1>1, <1>3 DEF Put, Active
<1> HIDE DEF e, b, new
<1>6. new.packet_id = rel.packet_id /\ new.buf = b /\ Active(new) = Active(rel)
    BY <1>4, <1>5 DEF Active
<1>7. IsReliable(new, Entry)
    BY <1>1, <1>4, <1>5, <1>6 DEF IsReliable
<1> QED  BY <1>3, <1>5, <1>6, <1>7 DEF new

LEMMA ScheduleNow ==
    ASSUME NEW rel, IsReliable(rel, Entry)
    PROVE  LET new == reliable_schedule_now(rel) IN
           /\ IsReliable(new, Entry)
           /\ new.packet_id = rel.packet_id
           /\ Active(new) = Active(rel)
           /\ \A q \in Active(rel) : new.buf[q].data = rel.buf[q].data
<1> DEFINE b == [q \in Active(rel) |-> [rel.buf[q] EXCEPT !.due = TRUE]]
           new == reliable_schedule_now(rel)
<1>1. rel.packet_id \in Nat /\ Active(rel) \subseteq Nat
      /\ rel.buf \in [Active(rel) -> Entry]
    BY DEF IsReliable
<1>2. \A q \in Active(rel) : b[q] \in Entry /\ b[q].data = rel.buf[q].data
    BY ZenonT(40), <1>1 DEF Entry
<1>3. new = [packet_id |-> rel.packet_id, hold |-> FALSE, buf |-> b]
    BY DEF reliable_schedule_now
<1>4. b \in [Active(rel) -> Entry]
    BY <1>2
<1> HIDE DEF b, new
<1>5. new.packet_id = rel.packet_id /\ new.buf = b /\ Active(new) = Active(rel)
    BY <1>3, <1>4 DEF Active
<1>6. IsReliable(new, Entry)
    BY ZenonT(40), <1>1, <1>3, <1>4, <1>5 DEF IsReliable
<1> QED  BY <1>2, <1>5, <1>6 DEF new

LEMMA TimerRunsOut ==
    ASSUME NEW rel, IsReliable(rel, Entry), NEW pid \in Active(rel)
    PROVE  LET new == WithBuf(rel, [rel.buf EXCEPT ![pid].due = TRUE]) IN
           /\ IsReliable(new, Entry)
           /\ new.packet_id = rel.packet_id
           /\ Active(new) = Active(rel)
           /\ \A q \in Active(rel) : new.buf[q].data = rel.buf[q].data
<1> DEFINE e == [rel.buf[pid] EXCEPT !.due = TRUE]
           b == [rel.buf EXCEPT ![pid] = e]
           new == WithBuf(rel, [rel.buf EXCEPT ![pid].due = TRUE])
<1>1. rel.packet_id \in Nat /\ rel.hold \in BOOLEAN /\ Active(rel) \subseteq Nat
      /\ rel.buf \in [Active(rel) -> Entry]
    BY DEF IsReliable
<1>2. rel.buf[pid] \in Entry
    BY <1>1
<1>3. e \in Entry /\ e.data = rel.buf[pid].data
    BY ZenonT(40), <1>2 DEF Entry
<1>4. new = [packet_id |-> rel.packet_id, hold |-> rel.hold, buf |-> b]
    BY DEF WithBuf
<1> HIDE DEF e, new
<1>5. b \in [Active(rel) -> Entry] /\ \A q \in Active(rel) : b[q] = IF q = pid THEN e ELSE rel.buf[q]
    BY <1>1, <1>3
<1> HIDE DEF b
<1>6. new.packet_id = rel.packet_id /\ new.buf = b /\ Active(new) = Active(rel)
    BY <1>4, <1>5 DEF Active
<1>7. IsReliable(new, Entry)
    BY <1>1, <1>4, <1>5, <1>6 DEF IsReliable
<1> QED  BY ZenonT(40), <1>3, <1>5, <1>6, <1>7 DEF new

LEMMA SendPurge ==
    ASSUME NEW rel, IsReliable(rel, Entry), NEW acks \in SUBSET (0..Half)
    PROVE  LET new == reliable_send_purge(rel, acks) IN
           /\ IsReliable(new, Entry)
           /\ new.packet_id = rel.packet_id
           /\ Active(new) = Active(rel) \ acks
           /\ \A q \in Active(new) : new.buf[q].data = rel.buf[q].data
<1> DEFINE N(q) == rel.buf[q].n_acks + Cardinality({a \in acks : q < a})
           n(q) == IF N(q) > NAckRetransmit THEN NAckRetransmit ELSE N(q)
           b == [q \in Active(rel) \ acks |-> [rel.buf[q] EXCEPT !.n_acks = n(q)]]
           new == reliable_send_purge(rel, acks)
<1>1. rel.packet_id \in Nat /\ rel.hold \in BOOLEAN /\ Active(rel) \subseteq Nat
      /\ rel.buf \in [Active(rel) -> Entry]
    BY DEF IsReliable
<1>2. new = [packet_id |-> rel.packet_id, hold |-> rel.hold, buf |-> b]
    BY DEF reliable_send_purge, WithBuf
<1>3. \A q \in Active(rel) \ acks : n(q) \in 0..NAckRetransmit
    <2> SUFFICES ASSUME NEW q \in Active(rel) \ acks
                 PROVE  n(q) \in 0..NAckRetransmit
        OBVIOUS
    <2>1. IsFiniteSet(0..Half)
        BY FS_Interval, ReliableAssumption
    <2>2. IsFiniteSet({a \in acks : q < a})
        <3>1. {a \in acks : q < a} \subseteq 0..Half
            BY Zenon
        <3> QED  BY Zenon, <2>1, <3>1, FS_Subset
    <2>3. Cardinality({a \in acks : q < a}) \in Nat
        BY <2>2, FS_CardinalityType
    <2>4. rel.buf[q].n_acks \in 0..NAckRetransmit
        BY <1>1 DEF Entry
    <2> QED  BY <2>3, <2>4, ReliableAssumption
<1>4. \A q \in Active(rel) \ acks : b[q] = [rel.buf[q] EXCEPT !.n_acks = n(q)]
    OBVIOUS
<1>5. DOMAIN b = Active(rel) \ acks /\ b = [q \in Active(rel) \ acks |-> b[q]]
    OBVIOUS
<1> HIDE DEF b, new, n
<1>6. \A q \in Active(rel) \ acks : b[q] \in Entry /\ b[q].data = rel.buf[q].data
    <2> SUFFICES ASSUME NEW q \in Active(rel) \ acks
                 PROVE  b[q] \in Entry /\ b[q].data = rel.buf[q].data
        OBVIOUS
    <2>1. rel.buf[q] \in Entry /\ n(q) \in 0..NAckRetransmit
        BY <1>1, <1>3
    <2>2. b[q] = [rel.buf[q] EXCEPT !.n_acks = n(q)]
        BY <1>4
    <2> QED  BY <2>1, <2>2 DEF Entry
<1>7. b \in [Active(rel) \ acks -> Entry]
    BY <1>5, <1>6
<1>8. new.packet_id = rel.packet_id /\ new.buf = b /\ Active(new) = Active(rel) \ acks
    BY <1>2, <1>5 DEF Active
<1>9. IsReliable(new, Entry)
    BY <1>1, <1>2, <1>7, <1>8 DEF IsReliable
<1> QED  BY <1>6, <1>8, <1>9 DEF new

LEMMA MarkActiveIncoming ==
    ASSUME NEW D, NEW rel, IsReliable(rel, D), NEW id \in Nat, NEW d \in D
    PROVE  LET new == reliable_mark_active_incoming(rel, id, d) IN
           /\ IsReliable(new, D)
           /\ new.packet_id = rel.packet_id
           /\ Active(new) = Active(rel) \cup {id}
           /\ \A q \in Active(new) : new.buf[q] = IF q = id THEN d ELSE rel.buf[q]
<1> DEFINE b == Put(rel.buf, id, d)
           new == reliable_mark_active_incoming(rel, id, d)
<1>1. rel.packet_id \in Nat /\ rel.hold \in BOOLEAN /\ Active(rel) \subseteq Nat
      /\ rel.buf \in [Active(rel) -> D]
    BY DEF IsReliable
<1>2. new = [packet_id |-> rel.packet_id, hold |-> rel.hold, buf |-> b]
    BY DEF reliable_mark_active_incoming, WithBuf
<1>4. b \in [Active(rel) \cup {id} -> D]
      /\ \A q \in Active(rel) \cup {id} : b[q] = IF q = id THEN d ELSE rel.buf[q]
    BY <1>1 DEF Put, Active
<1> HIDE DEF b, new
<1>5. new.packet_id = rel.packet_id /\ new.buf = b /\ Active(new) = Active(rel) \cup {id}
    BY <1>2, <1>4 DEF Active
<1>6. IsReliable(new, D)
    BY <1>1, <1>2, <1>4, <1>5 DEF IsReliable
<1> QED  BY <1>4, <1>5, <1>6 DEF new

LEMMA MarkDeleted ==
    ASSUME NEW rel, IsReliable(rel, Data \cup {NoData}),
           NEW id \in Active(rel), id + RecSize < Half
    PROVE  LET new == reliable_mark_deleted(rel, id) IN
           /\ IsReliable(new, Data \cup {NoData})
           /\ new.packet_id = id + 1
           /\ Active(new) = Active(rel) \ {id}
           /\ \A q \in Active(new) : new.buf[q] = rel.buf[q]
<1> DEFINE D == Data \cup {NoData}
           b == [q \in Active(rel) \ {id} |-> rel.buf[q]]
           new == reliable_mark_deleted(rel, id)
<1>1. rel.packet_id \in Nat /\ rel.hold \in BOOLEAN /\ Active(rel) \subseteq Nat
      /\ rel.buf \in [Active(rel) -> D]
    BY DEF IsReliable
<1>2. id \in Nat /\ add_pid(id, 1) = id + 1
    BY <1>1, SmallIds, ReliableAssumption, ChannelAssumption
<1>3. new = [packet_id |-> id + 1, hold |-> rel.hold, buf |-> b]
    BY <1>2 DEF reliable_mark_deleted
<1> HIDE DEF D
<1>4. b \in [Active(rel) \ {id} -> D] /\ \A q \in Active(rel) \ {id} : b[q] = rel.buf[q]
    BY <1>1
<1> HIDE DEF b, new
<1>5. new.packet_id = id + 1 /\ new.buf = b /\ Active(new) = Active(rel) \ {id}
    BY <1>3, <1>4 DEF Active
<1>6. IsReliable(new, D)
    BY <1>1, <1>2, <1>3, <1>4, <1>5 DEF IsReliable
<1> QED  BY <1>4, <1>5, <1>6 DEF new, D

-----------------------------------------------------------------------------
(* The list of ids to acknowledge.                                         *)

LEMMA AckAcknowledge ==
    ASSUME NEW a \in ReliableAck, NEW pid \in Nat
    PROVE  /\ reliable_ack_acknowledge_packet_id(a, pid) \in ReliableAck
           /\ AckIds(reliable_ack_acknowledge_packet_id(a, pid)) \subseteq AckIds(a) \cup {pid}
<1> DEFINE new == reliable_ack_acknowledge_packet_id(a, pid)
           l == a.len
           f == a.packet_id
           g == [f EXCEPT ![l + 1] = pid]
<1>1. CASE ~(pid \notin AckIds(a) /\ a.len < AckSize)
    BY <1>1 DEF reliable_ack_acknowledge_packet_id
<1>2. CASE pid \notin AckIds(a) /\ a.len < AckSize
    <2>1. new = [len |-> l + 1, packet_id |-> g]
        BY <1>2 DEF reliable_ack_acknowledge_packet_id
    <2>2. l \in 0..AckSize /\ l < AckSize /\ f \in [1..AckSize -> Nat] /\ AckSize \in Nat
        BY <1>2, ReliableAssumption DEF ReliableAck
    <2>6. AckIds(a) = {f[i] : i \in 1..l} /\ AckIds(new) = {g[i] : i \in 1..(l + 1)}
        BY <2>1 DEF AckIds
    <2> HIDE DEF new, l, f
    <2>3. g \in [1..AckSize -> Nat] /\ \A i \in 1..l+1 : g[i] = IF i = l + 1 THEN pid ELSE f[i]
        BY <2>2
    <2> HIDE DEF g
    <2>4. new \in ReliableAck
        BY <2>1, <2>2, <2>3 DEF ReliableAck
    <2>5. AckIds(new) \subseteq AckIds(a) \cup {pid}
        BY <2>2, <2>3, <2>6
    <2> QED  BY <2>4, <2>5 DEF new
<1> QED  BY <1>1, <1>2

LEMMA AckWrite ==
    ASSUME NEW a \in ReliableAck, NEW max \in Nat
    PROVE  /\ AckRest(a, max) \in ReliableAck
           /\ AckIds(AckRest(a, max)) \subseteq AckIds(a)
           /\ AckTaken(a, max) \subseteq AckIds(a)
           /\ AckIds(a) \subseteq Nat
<1> DEFINE l == a.len
           f == a.packet_id
           n == AckCount(a, max)
           g == [i \in 1..AckSize |-> IF i + n <= l THEN f[i + n] ELSE 0]
           new == AckRest(a, max)
<1>1. l \in 0..AckSize /\ f \in [1..AckSize -> Nat] /\ AckSize \in Nat
    BY ReliableAssumption DEF ReliableAck
<1>2. n \in 0..l
    BY <1>1 DEF AckCount
<1>3. new = [len |-> l - n, packet_id |-> g]
    BY DEF AckRest
<1>4. AckTaken(a, max) = {f[i] : i \in 1..n} /\ AckIds(a) = {f[i] : i \in 1..l}
    BY DEF AckTaken, AckIds
<1> HIDE DEF l, f, n, new
<1>5. g \in [1..AckSize -> Nat] /\ \A i \in 1..(l - n) : g[i] = f[i + n] /\ i + n \in 1..l
    BY <1>1, <1>2
<1> HIDE DEF g
<1>6. new \in ReliableAck
    BY <1>1, <1>2, <1>3, <1>5 DEF ReliableAck
<1>7. AckIds(new) = {g[i] : i \in 1..(l - n)}
    BY <1>3 DEF AckIds
<1>8. AckIds(a) \subseteq Nat
    BY <1>1, <1>4
<1> QED  BY <1>1, <1>2, <1>4, <1>5, <1>6, <1>7, <1>8 DEF new
=============================================================================
