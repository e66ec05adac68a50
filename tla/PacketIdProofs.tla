--------------------------- MODULE PacketIdProofs ---------------------------
(***************************************************************************)
(* Proofs about PacketId for every window size, time limit and id range:   *)
(* type correctness, that no accepted packet is accepted again, that no    *)
(* header is sent twice, and that nothing is dropped without cause.        *)
(***************************************************************************)
EXTENDS PacketId, TLAPS

\* Header h counts as seen by record p: it is older than the record's time,
\* or of that time and neither ahead of the window nor unseen in it.
Covered(p, h) ==
    /\ h.time <= p.time
    /\ h.time = p.time =>
          /\ h.id <= p.id
          /\ SeqBacktrack # 0 /\ p.id - h.id < p.size => p.item[p.id - h.id] # SEQ_UNSEEN

\* A covered header fails the replay test (packet_id_test, both modes).
LEMMA CoveredIsRejected ==
    ASSUME NEW p \in PacketIdRec, NEW h \in PacketIdNet, Covered(p, h)
    PROVE  ~packet_id_test(p, h)
  BY DEF Covered, packet_id_test, TestInWindow, TestInSequence, PacketIdRec, PacketIdNet

\* What packet_id_reap_test does to a record: entries that are too old expire.
LEMMA ReapFields ==
    ASSUME NEW p \in PacketIdRec, NEW t \in Nat
    PROVE  LET q == packet_id_reap_test(p, t)
           IN  /\ q \in PacketIdRec
               /\ q.time = p.time /\ q.id = p.id /\ q.size = p.size
               /\ \A i \in Index :
                     q.item[i] = p.item[i] \/ (q.item[i] = SEQ_EXPIRED /\ Expires(p, i, t))
  <1> DEFINE it == [i \in Index |-> IF Expires(p, i, t) THEN SEQ_EXPIRED ELSE p.item[i]]
  <1>1. p.item \in [Index -> Nat]
    BY DEF PacketIdRec
  <1>2. /\ it \in [Index -> Nat]
        /\ \A i \in Index : it[i] = p.item[i] \/ (it[i] = SEQ_EXPIRED /\ Expires(p, i, t))
    BY <1>1 DEF SEQ_EXPIRED
  <1> HIDE DEF it
  <1>3. \/ packet_id_reap(p, t) = [p EXCEPT !.last_reap = t, !.item = p.item]
        \/ packet_id_reap(p, t) = [p EXCEPT !.last_reap = t, !.item = it]
    BY Zenon DEF packet_id_reap, it
  <1> DEFINE r == packet_id_reap(p, t)
             q == packet_id_reap_test(p, t)
  <1>4. /\ r \in PacketIdRec
        /\ r.time = p.time /\ r.id = p.id /\ r.size = p.size
        /\ r.item = p.item \/ r.item = it
    BY Zenon, <1>1, <1>2, <1>3 DEF PacketIdRec
  <1>5. q = p \/ q = r
    BY DEF packet_id_reap_test
  <1> HIDE DEF r, q
  <1>6. /\ q \in PacketIdRec
        /\ q.time = p.time /\ q.id = p.id /\ q.size = p.size
        /\ q.item = p.item \/ q.item = it
    BY <1>4, <1>5
  <1>7. \A i \in Index : q.item[i] = p.item[i] \/ (q.item[i] = SEQ_EXPIRED /\ Expires(p, i, t))
    BY <1>2, <1>6
  <1> QED
    BY <1>6, <1>7 DEF q

\* Reaping never turns an entry back into an unseen one (packet_id_reap_test).
LEMMA ReapKeepsCovered ==
    ASSUME NEW p \in PacketIdRec, NEW t \in Nat
    PROVE  \A h \in PacketIdNet : Covered(p, h) => Covered(packet_id_reap_test(p, t), h)
  <1> DEFINE q == packet_id_reap_test(p, t)
  <1>1. /\ q \in PacketIdRec /\ q.time = p.time /\ q.id = p.id /\ q.size = p.size
        /\ \A i \in Index : q.item[i] = p.item[i] \/ q.item[i] = SEQ_EXPIRED
    BY ReapFields
  <1> HIDE DEF q
  <1>3. \A i \in Index : q.item[i] = SEQ_UNSEEN => p.item[i] = SEQ_UNSEEN
    BY <1>1 DEF SEQ_UNSEEN, SEQ_EXPIRED
  <1>2. ASSUME NEW h \in PacketIdNet, Covered(p, h)
        PROVE  Covered(q, h)
    BY <1>1, <1>2, <1>3, PacketIdAssumption DEF Covered, PacketIdRec, PacketIdNet, Index
  <1> QED
    BY <1>2 DEF q

\* What CIRC_LIST_PUSH does to a record: the entries move by k places.
LEMMA PushFields ==
    ASSUME NEW p \in PacketIdRec, NEW k \in Nat
    PROVE  LET q == PushUnseen(p, k)
           IN  /\ q \in PacketIdRec
               /\ q.time = p.time /\ q.id = p.id + k
               /\ q.size = IF p.size + k <= SeqBacktrack THEN p.size + k ELSE SeqBacktrack
               /\ \A i \in Index : q.item[i] = IF i < k THEN SEQ_UNSEEN ELSE p.item[i - k]
  <1> DEFINE q == PushUnseen(p, k)
             it == [i \in Index |-> IF i < k THEN SEQ_UNSEEN ELSE p.item[i - k]]
             sz == IF p.size + k <= SeqBacktrack THEN p.size + k ELSE SeqBacktrack
  <1>1. p.item \in [Index -> Nat] /\ p.size \in 0..SeqBacktrack /\ p.id \in Nat
    BY DEF PacketIdRec
  <1>2. it \in [Index -> Nat]
    <2>1. ASSUME NEW i \in Index, ~(i < k)
          PROVE  i - k \in Index
      BY <2>1, PacketIdAssumption DEF Index
    <2> QED
      BY <1>1, <2>1 DEF SEQ_UNSEEN
  <1>3. sz \in 0..SeqBacktrack /\ p.id + k \in Nat
    BY <1>1, PacketIdAssumption
  <1>4. q = [p EXCEPT !.id = p.id + k, !.size = sz, !.item = it]
    BY DEF PushUnseen
  <1>5. \A i \in Index : it[i] = IF i < k THEN SEQ_UNSEEN ELSE p.item[i - k]
    OBVIOUS
  <1> HIDE DEF it, sz, q
  <1>6. /\ q \in PacketIdRec
        /\ q.time = p.time /\ q.id = p.id + k /\ q.size = sz /\ q.item = it
    BY Zenon, <1>2, <1>3, <1>4 DEF PacketIdRec
  <1> QED
    BY <1>5, <1>6 DEF sz, q

\* Moving the window forward uncovers nothing (CIRC_LIST_PUSH).
LEMMA PushKeepsCovered ==
    ASSUME NEW p \in PacketIdRec, NEW k \in Nat, SeqBacktrack # 0
    PROVE  \A h \in PacketIdNet : Covered(p, h) => Covered(PushUnseen(p, k), h)
  <1> DEFINE q == PushUnseen(p, k)
  <1>1. /\ q \in PacketIdRec
        /\ q.time = p.time /\ q.id = p.id + k
        /\ q.size = IF p.size + k <= SeqBacktrack THEN p.size + k ELSE SeqBacktrack
        /\ \A i \in Index : q.item[i] = IF i < k THEN SEQ_UNSEEN ELSE p.item[i - k]
    BY PushFields
  <1> HIDE DEF q
  <1>2. ASSUME NEW h \in PacketIdNet, Covered(p, h)
        PROVE  Covered(q, h)
    <2>1. /\ p.id \in Nat /\ p.size \in 0..SeqBacktrack /\ h.id \in Nat
          /\ q.size \in 0..SeqBacktrack /\ SeqBacktrack \in Nat
      BY <1>1, PacketIdAssumption DEF PacketIdRec, PacketIdNet
    <2>2. ASSUME h.time = p.time, q.id - h.id < q.size
          PROVE  h.id <= q.id /\ q.item[q.id - h.id] # SEQ_UNSEEN
      <3>1. h.id <= p.id /\ (p.id - h.id < p.size => p.item[p.id - h.id] # SEQ_UNSEEN)
        BY <1>2, <2>2 DEF Covered
      <3>2. q.id - h.id \in Index /\ ~(q.id - h.id < k) /\ q.id - h.id - k = p.id - h.id
        BY <1>1, <2>1, <2>2, <3>1 DEF Index
      <3>3. p.id - h.id < p.size
        BY <1>1, <2>1, <2>2, <3>1
      <3>4. q.item[q.id - h.id] = p.item[p.id - h.id]
        BY <1>1, <3>2
      <3> QED
        BY <1>1, <2>1, <3>1, <3>3, <3>4
    <2> QED
      BY <1>1, <1>2, <2>1, <2>2 DEF Covered
  <1> QED
    BY <1>2 DEF q

\* Stamping enters the time at the packet's place.
LEMMA StampFields ==
    ASSUME NEW p \in PacketIdRec, NEW pin \in PacketIdNet, NEW t \in Nat,
           t > SEQ_EXPIRED, pin.id <= p.id, p.id - pin.id < p.size
    PROVE  LET q == Stamp(p, pin, t)
           IN  /\ q \in PacketIdRec
               /\ q.time = p.time /\ q.id = p.id /\ q.size = p.size
               /\ \A i \in Index : q.item[i] = IF i = p.id - pin.id THEN t ELSE p.item[i]
  BY Zenon, PacketIdAssumption DEF Stamp, PacketIdRec, PacketIdNet, Index

\* Stamping covers the packet it is called for and uncovers none.
LEMMA StampCovers ==
    ASSUME NEW p \in PacketIdRec, NEW pin \in PacketIdNet, NEW t \in Nat,
           SeqBacktrack # 0, t > SEQ_EXPIRED, pin.time = p.time,
           pin.id <= p.id, p.id - pin.id < p.size
    PROVE  LET q == Stamp(p, pin, t)
           IN  /\ Covered(q, pin)
               /\ \A h \in PacketIdNet : Covered(p, h) => Covered(q, h)
  <1> DEFINE q == Stamp(p, pin, t)
  <1>1. /\ q \in PacketIdRec
        /\ q.time = p.time /\ q.id = p.id /\ q.size = p.size
        /\ \A i \in Index : q.item[i] = IF i = p.id - pin.id THEN t ELSE p.item[i]
    BY StampFields
  <1> HIDE DEF q
  <1>2. t # SEQ_UNSEEN
    BY DEF SEQ_UNSEEN, SEQ_EXPIRED
  <1>3. /\ p.id \in Nat /\ p.size \in 0..SeqBacktrack /\ SeqBacktrack \in Nat
        /\ pin.id \in Nat /\ pin.time \in Nat
    BY PacketIdAssumption DEF PacketIdRec, PacketIdNet
  <1>4. Covered(q, pin)
    <2>1. p.id - pin.id \in Index
      BY <1>3 DEF Index
    <2>2. q.item[p.id - pin.id] # SEQ_UNSEEN
      BY <1>1, <1>2, <2>1
    <2> QED
      BY <1>1, <1>3, <2>2 DEF Covered
  <1>5. ASSUME NEW h \in PacketIdNet, Covered(p, h)
        PROVE  Covered(q, h)
    <2>1. h.id \in Nat
      BY DEF PacketIdNet
    <2>2. ASSUME h.time = p.time, p.id - h.id < p.size
          PROVE  h.id <= p.id /\ q.item[p.id - h.id] # SEQ_UNSEEN
      <3>1. h.id <= p.id /\ p.item[p.id - h.id] # SEQ_UNSEEN
        BY <1>5, <2>2 DEF Covered
      <3>2. p.id - h.id \in Index
        BY <1>3, <2>1, <2>2, <3>1 DEF Index
      <3>3. q.item[p.id - h.id] = t \/ q.item[p.id - h.id] = p.item[p.id - h.id]
        BY <1>1, <3>2
      <3> QED
        BY <1>2, <3>1, <3>3
    <2> QED
      BY <1>1, <1>5, <2>2 DEF Covered
  <1> QED
    BY <1>4, <1>5 DEF q

\* Starting a new list uncovers no packet, unless the list was empty.
LEMMA NewListKeepsCovered ==
    ASSUME NEW p \in PacketIdRec, NEW pin \in PacketIdNet, SeqBacktrack # 0,
           packet_id_test(p, pin), StartsNewList(p, pin)
    PROVE  LET q == NewList(p, pin)
           IN  /\ q \in PacketIdRec
               /\ q.time = pin.time /\ q.id < pin.id
               /\ \A h \in PacketIdNet : p.size # 0 /\ Covered(p, h) => Covered(q, h)
  <1> DEFINE q == NewList(p, pin)
             n == IF pin.id > SeqBacktrack THEN pin.id - SeqBacktrack ELSE 0
  <1>1. pin.id \in Nat \ {0} /\ SeqBacktrack \in Nat /\ pin.time \in Nat
    BY PacketIdAssumption DEF PacketIdNet, packet_id_test
  <1>2. n \in Nat /\ n < pin.id /\ 0 \in 0..SeqBacktrack
    BY <1>1
  <1>3. EmptyItems \in [Index -> Nat]
    BY DEF EmptyItems, SEQ_UNSEEN
  <1>4. q = [p EXCEPT !.time = pin.time, !.id = n, !.size = 0, !.item = EmptyItems]
    BY DEF NewList
  <1> HIDE DEF q, n
  <1>5. q \in PacketIdRec /\ q.time = pin.time /\ q.id = n /\ q.size = 0
    BY Zenon, <1>1, <1>2, <1>3, <1>4 DEF PacketIdRec
  <1>6. ASSUME NEW h \in PacketIdNet, p.size # 0, Covered(p, h)
        PROVE  Covered(q, h)
    <2>1. pin.time > p.time \/ (pin.time = p.time /\ p.id < n)
      BY <1>1, <1>6 DEF StartsNewList, packet_id_test, TestInWindow, n, PacketIdRec
    <2> QED
      BY <1>1, <1>2, <1>5, <1>6, <2>1 DEF Covered, PacketIdRec, PacketIdNet
  <1> QED
    BY <1>2, <1>5, <1>6 DEF q

\* The four ways to move the list.
LEMMA MoveListCases ==
    ASSUME NEW p, NEW pin
    PROVE  LET n == NewList(p, pin)
           IN  \/ /\ StartsNewList(p, pin) /\ n.id < pin.id
                  /\ MoveList(p, pin) = PushUnseen(n, pin.id - n.id)
               \/ StartsNewList(p, pin) /\ ~(n.id < pin.id)
               \/ /\ ~StartsNewList(p, pin) /\ p.id < pin.id
                  /\ MoveList(p, pin) = PushUnseen(p, pin.id - p.id)
               \/ ~StartsNewList(p, pin) /\ ~(p.id < pin.id) /\ MoveList(p, pin) = p
  BY Zenon DEF MoveList

\* Pushing up to the id of a packet ahead makes the list reach it.
LEMMA PushReaches ==
    ASSUME NEW a \in PacketIdRec, NEW pin \in PacketIdNet, SeqBacktrack # 0,
           a.time = pin.time, a.id < pin.id
    PROVE  LET b == PushUnseen(a, pin.id - a.id)
           IN  /\ b \in PacketIdRec /\ b.time = pin.time
               /\ b.id = pin.id /\ b.id - pin.id < b.size
               /\ \A h \in PacketIdNet : Covered(a, h) => Covered(b, h)
  <1> DEFINE k == pin.id - a.id
             b == PushUnseen(a, k)
  <1>1. a.id \in Nat /\ a.size \in Nat /\ pin.id \in Nat /\ SeqBacktrack \in Nat
    BY PacketIdAssumption DEF PacketIdRec, PacketIdNet
  <1>2. k \in Nat /\ k > 0 /\ a.id + k = pin.id
    BY <1>1
  <1> HIDE DEF k
  <1>3. /\ b \in PacketIdRec /\ b.time = a.time /\ b.id = a.id + k
        /\ b.size = IF a.size + k <= SeqBacktrack THEN a.size + k ELSE SeqBacktrack
        /\ \A h \in PacketIdNet : Covered(a, h) => Covered(b, h)
    BY <1>2, PushFields, PushKeepsCovered
  <1> HIDE DEF b
  <1>4. b.time = pin.time /\ b.id = pin.id /\ b.id - pin.id < b.size
    BY <1>1, <1>2, <1>3
  <1> QED
    BY <1>3, <1>4 DEF b, k

\* Before the packet is stamped the window has been moved to reach it.
LEMMA MoveListReaches ==
    ASSUME NEW p \in PacketIdRec, NEW pin \in PacketIdNet, SeqBacktrack # 0, packet_id_test(p, pin)
    PROVE  LET b == MoveList(p, pin)
           IN  /\ b \in PacketIdRec /\ b.time = pin.time /\ b.id \in {p.id, pin.id}
               /\ pin.id <= b.id /\ b.id - pin.id < b.size
               /\ \A h \in PacketIdNet : p.size # 0 /\ Covered(p, h) => Covered(b, h)
  <1>0. pin.id \in Nat /\ p.id \in Nat
    BY DEF PacketIdRec, PacketIdNet
  <1> DEFINE n == NewList(p, pin)
             b == MoveList(p, pin)
  <1>1. CASE StartsNewList(p, pin)
    <2>1. /\ n \in PacketIdRec /\ n.time = pin.time /\ n.id < pin.id
          /\ \A h \in PacketIdNet : p.size # 0 /\ Covered(p, h) => Covered(n, h)
      BY <1>1, NewListKeepsCovered
    <2>2. b = PushUnseen(n, pin.id - n.id)
      BY <1>1, <2>1, MoveListCases
    <2> HIDE DEF n, b
    <2> QED
      BY <1>0, <2>1, <2>2, PushReaches DEF b
  <1>2. CASE ~StartsNewList(p, pin)
    <2>1. p.time = pin.time /\ (p.id < pin.id \/ (pin.id <= p.id /\ p.id - pin.id < p.size))
      BY <1>2 DEF StartsNewList, packet_id_test, TestInWindow, PacketIdRec, PacketIdNet
    <2>2. CASE p.id < pin.id
      <3>1. b = PushUnseen(p, pin.id - p.id)
        BY <1>2, <2>2, MoveListCases
      <3> HIDE DEF b
      <3> QED
        BY <1>0, <2>1, <2>2, <3>1, PushReaches DEF b
    <2>3. CASE ~(p.id < pin.id)
      <3>1. b = p
        BY <1>2, <2>3, MoveListCases
      <3> HIDE DEF b
      <3> QED
        BY <2>1, <2>3, <3>1 DEF b
    <2> QED
      BY <2>2, <2>3
  <1> QED
    BY <1>1, <1>2

\* The record moves to the packet's time, and its id is the newest of the two.
LEMMA AddMoves ==
    ASSUME NEW p \in PacketIdRec, NEW pin \in PacketIdNet, NEW t \in Nat,
           SeqBacktrack # 0, t > SEQ_EXPIRED, packet_id_test(p, pin)
    PROVE  LET q == packet_id_add(p, pin, t)
           IN  q \in PacketIdRec /\ q.time = pin.time /\ q.id \in {p.id, pin.id}
  <1> DEFINE b == MoveList(p, pin)
  <1>1. packet_id_add(p, pin, t) = Stamp(b, pin, t)
    BY DEF packet_id_add
  <1>2. /\ b \in PacketIdRec /\ b.time = pin.time /\ b.id \in {p.id, pin.id}
        /\ pin.id <= b.id /\ b.id - pin.id < b.size
    BY MoveListReaches
  <1> HIDE DEF b
  <1>3. LET q == Stamp(b, pin, t)
        IN  q \in PacketIdRec /\ q.time = b.time /\ q.id = b.id
    BY <1>2, StampFields
  <1> QED
    BY <1>1, <1>2, <1>3

\* Recording an accepted packet covers it and uncovers none (packet_id_add).
LEMMA AddCovers ==
    ASSUME NEW p \in PacketIdRec, NEW pin \in PacketIdNet, NEW t \in Nat,
           t > SEQ_EXPIRED, packet_id_test(p, pin)
    PROVE  LET q == packet_id_add(p, pin, t)
           IN  /\ q \in PacketIdRec
               /\ SeqBacktrack # 0 => q.size # 0
               /\ Covered(q, pin)
               /\ \A h \in PacketIdNet :
                     (SeqBacktrack = 0 \/ p.size # 0) /\ Covered(p, h) => Covered(q, h)
  <1>1. CASE SeqBacktrack = 0
    <2> DEFINE q == packet_id_add(p, pin, t)
    <2>1. q = [p EXCEPT !.time = pin.time, !.id = pin.id]
      BY <1>1 DEF packet_id_add
    <2> HIDE DEF q
    <2>2. q \in PacketIdRec /\ q.time = pin.time /\ q.id = pin.id
      BY Zenon, <2>1 DEF PacketIdRec, PacketIdNet
    <2>3. Covered(q, pin)
      BY <1>1, <2>2 DEF Covered, PacketIdNet
    <2>4. ASSUME NEW h \in PacketIdNet, Covered(p, h)
          PROVE  Covered(q, h)
      BY <1>1, <2>2, <2>4 DEF Covered, packet_id_test, TestInSequence, PacketIdRec, PacketIdNet
    <2> QED
      BY <1>1, <2>2, <2>3, <2>4 DEF q
  <1>2. CASE SeqBacktrack # 0
    <2> DEFINE b == MoveList(p, pin)
    <2>3. /\ b \in PacketIdRec /\ b.time = pin.time
          /\ pin.id <= b.id /\ b.id - pin.id < b.size
          /\ \A h \in PacketIdNet : p.size # 0 /\ Covered(p, h) => Covered(b, h)
      BY <1>2, MoveListReaches
    <2>4. packet_id_add(p, pin, t) = Stamp(b, pin, t)
      BY <1>2 DEF packet_id_add
    <2> HIDE DEF b
    <2>5. /\ Stamp(b, pin, t) \in PacketIdRec
          /\ Stamp(b, pin, t).size = b.size
          /\ Covered(Stamp(b, pin, t), pin)
          /\ \A h \in PacketIdNet : Covered(b, h) => Covered(Stamp(b, pin, t), h)
      BY <1>2, <2>3, StampFields, StampCovers
    <2>6. b.size # 0
      BY <2>3 DEF PacketIdRec, PacketIdNet
    <2> QED
      BY <1>2, <2>3, <2>4, <2>5, <2>6
  <1> QED
    BY <1>1, <1>2

-----------------------------------------------------------------------------
(* The window holds nothing that did not happen.  S is the history of      *)
(* accepted packets, as pairs <<header, when>>.                            *)

History == SUBSET (PacketIdNet \X Nat)

\* Entry i of window p is unseen, or it was accepted when the entry says, or
\* an equally new or newer packet is older than the time limit.
Explained(p, i, S, t) ==
    \/ p.item[i] = SEQ_UNSEEN
    \/ <<[time |-> p.time, id |-> p.id - i], p.item[i]>> \in S
    \/ \E s \in S : s[1].time = p.time /\ s[1].id >= p.id - i /\ s[2] + TimeBacktrack < t

\* The list reaches back to the first id or is full, and each entry is
\* explained.
Exact(p, S, t) ==
    /\ p.size = IF p.id <= SeqBacktrack THEN p.id ELSE SeqBacktrack
    /\ \A i \in Index : i < p.size => Explained(p, i, S, t)

\* More history and more time explain no less.
LEMMA ExactGrows ==
    ASSUME NEW p \in PacketIdRec, NEW S \in History, NEW T \in History, NEW t \in Nat, NEW u \in Nat,
           S \subseteq T, t <= u, Exact(p, S, t)
    PROVE  Exact(p, T, u)
  <1>1. ASSUME NEW i \in Index, i < p.size
        PROVE  Explained(p, i, T, u)
    <2>1. CASE \E s \in S : s[1].time = p.time /\ s[1].id >= p.id - i /\ s[2] + TimeBacktrack < t
      <3>1. PICK s \in S : s[1].time = p.time /\ s[1].id >= p.id - i /\ s[2] + TimeBacktrack < t
        BY <2>1
      <3>2. s \in T /\ s[2] \in Nat /\ s[2] + TimeBacktrack < u
        BY <3>1, PacketIdAssumption DEF History
      <3> QED
        BY <3>1, <3>2 DEF Explained
    <2> QED
      BY <1>1, <2>1 DEF Exact, Explained
  <1> QED
    BY <1>1 DEF Exact

\* Entries expire with cause (packet_id_reap_test).
LEMMA ReapExact ==
    ASSUME NEW p \in PacketIdRec, NEW S \in History, NEW t \in Nat, Exact(p, S, t)
    PROVE  Exact(packet_id_reap_test(p, t), S, t)
  <1> DEFINE q == packet_id_reap_test(p, t)
  <1>1. /\ q \in PacketIdRec /\ q.time = p.time /\ q.id = p.id /\ q.size = p.size
        /\ \A i \in Index : q.item[i] = p.item[i] \/ (q.item[i] = SEQ_EXPIRED /\ Expires(p, i, t))
    BY ReapFields
  <1> HIDE DEF q
  <1>2. p.id \in Nat /\ p.size \in 0..SeqBacktrack /\ SeqBacktrack \in Nat /\ TimeBacktrack \in Nat
    BY PacketIdAssumption DEF PacketIdRec
  <1>3. ASSUME NEW i \in Index, i < p.size, Expires(p, i, t)
        PROVE  \E s \in S : s[1].time = p.time /\ s[1].id >= p.id - i /\ s[2] + TimeBacktrack < t
    <2>1. PICK j \in 0..i : p.item[j] # SEQ_UNSEEN /\ p.item[j] + TimeBacktrack < t
      BY <1>3 DEF Expires, TooOld
    <2>2. j \in Index /\ j < p.size /\ p.id - j >= p.id - i
      BY <1>2, <1>3, <2>1 DEF Index
    <2>3. Explained(p, j, S, t)
      BY <2>2 DEF Exact
    <2>4. CASE <<[time |-> p.time, id |-> p.id - j], p.item[j]>> \in S
      <3> DEFINE s == <<[time |-> p.time, id |-> p.id - j], p.item[j]>>
      <3>1. s[1].time = p.time /\ s[1].id = p.id - j /\ s[2] = p.item[j]
        OBVIOUS
      <3> QED
        BY <2>1, <2>2, <2>4, <3>1
    <2>5. CASE \E s \in S : s[1].time = p.time /\ s[1].id >= p.id - j /\ s[2] + TimeBacktrack < t
      <3>1. PICK s \in S : s[1].time = p.time /\ s[1].id >= p.id - j /\ s[2] + TimeBacktrack < t
        BY <2>5
      <3>2. s[1].id \in Nat
        BY DEF History, PacketIdNet
      <3>3. s[1].id >= p.id - i
        BY <1>2, <2>1, <2>2, <3>1, <3>2 DEF Index
      <3> QED
        BY <3>1, <3>3
    <2> QED
      BY <2>1, <2>3, <2>4, <2>5 DEF Explained
  <1>4. ASSUME NEW i \in Index, i < p.size
        PROVE  Explained(q, i, S, t)
    <2>1. Explained(p, i, S, t)
      BY <1>4 DEF Exact
    <2> QED
      BY <1>1, <1>3, <1>4, <2>1 DEF Explained
  <1> QED
    BY <1>1, <1>4 DEF Exact, q

\* Entries that move keep their explanation, and the new ones are unseen.
LEMMA PushExact ==
    ASSUME NEW p \in PacketIdRec, NEW k \in Nat, NEW S \in History, NEW t \in Nat, Exact(p, S, t)
    PROVE  Exact(PushUnseen(p, k), S, t)
  <1> DEFINE q == PushUnseen(p, k)
  <1>1. /\ q \in PacketIdRec /\ q.time = p.time /\ q.id = p.id + k
        /\ q.size = IF p.size + k <= SeqBacktrack THEN p.size + k ELSE SeqBacktrack
        /\ \A i \in Index : q.item[i] = IF i < k THEN SEQ_UNSEEN ELSE p.item[i - k]
    BY PushFields
  <1> HIDE DEF q
  <1>2. p.id \in Nat /\ p.size \in 0..SeqBacktrack /\ SeqBacktrack \in Nat
    BY PacketIdAssumption DEF PacketIdRec
  <1>3. p.size = IF p.id <= SeqBacktrack THEN p.id ELSE SeqBacktrack
    BY DEF Exact
  <1>4. q.size = IF q.id <= SeqBacktrack THEN q.id ELSE SeqBacktrack
    BY <1>1, <1>2, <1>3
  <1>5. ASSUME NEW i \in Index, i < q.size, ~(i < k)
        PROVE  Explained(q, i, S, t)
    <2>1. i - k \in Index /\ i - k < p.size /\ q.id - i = p.id - (i - k)
      BY <1>1, <1>2, <1>5 DEF Index
    <2>2. Explained(p, i - k, S, t)
      BY <2>1 DEF Exact
    <2>3. q.item[i] = p.item[i - k]
      BY <1>1, <1>5
    <2> QED
      BY <1>1, <2>1, <2>2, <2>3 DEF Explained
  <1>6. ASSUME NEW i \in Index, i < k
        PROVE  Explained(q, i, S, t)
    BY <1>1, <1>6 DEF Explained
  <1> QED
    BY <1>4, <1>5, <1>6 DEF Exact, q

\* The stamped entry is explained by the packet itself.
LEMMA StampExact ==
    ASSUME NEW p \in PacketIdRec, NEW pin \in PacketIdNet, NEW S \in History, NEW t \in Nat,
           t > SEQ_EXPIRED, pin.time = p.time, pin.id <= p.id, p.id - pin.id < p.size,
           Exact(p, S, t)
    PROVE  Exact(Stamp(p, pin, t), S \cup {<<pin, t>>}, t)
  <1> DEFINE q == Stamp(p, pin, t)
             T == S \cup {<<pin, t>>}
  <1>1. /\ q \in PacketIdRec /\ q.time = p.time /\ q.id = p.id /\ q.size = p.size
        /\ \A i \in Index : q.item[i] = IF i = p.id - pin.id THEN t ELSE p.item[i]
    BY StampFields
  <1> HIDE DEF q
  <1>2. T \in History /\ S \subseteq T /\ <<pin, t>> \in T
    BY DEF History
  <1>3. p.id \in Nat /\ pin.id \in Nat
    BY DEF PacketIdRec, PacketIdNet
  <1>4. Exact(p, T, t)
    BY <1>2, ExactGrows
  <1> HIDE DEF T
  <1>5. pin = [time |-> p.time, id |-> pin.id]
    BY DEF PacketIdNet
  <1>6. ASSUME NEW i \in Index, i < p.size, i = p.id - pin.id
        PROVE  Explained(q, i, T, t)
    <2>1. q.id - i = pin.id /\ q.item[i] = t
      BY <1>1, <1>3, <1>6
    <2>2. <<[time |-> q.time, id |-> q.id - i], q.item[i]>> \in T
      BY <1>1, <1>2, <1>5, <2>1
    <2> QED
      BY <2>2 DEF Explained
  <1>7. ASSUME NEW i \in Index, i < p.size, i # p.id - pin.id
        PROVE  Explained(q, i, T, t)
    <2>1. Explained(p, i, T, t)
      BY <1>4, <1>7 DEF Exact
    <2> QED
      BY <1>1, <1>7, <2>1 DEF Explained
  <1> QED
    BY <1>1, <1>4, <1>6, <1>7 DEF Exact, q, T

\* A window that starts anew at the id of the packet is exact after the push.
LEMMA NewListExact ==
    ASSUME NEW p \in PacketIdRec, NEW pin \in PacketIdNet, NEW S \in History, NEW t \in Nat,
           SeqBacktrack # 0, packet_id_test(p, pin), StartsNewList(p, pin)
    PROVE  LET a == NewList(p, pin)
           IN  Exact(PushUnseen(a, pin.id - a.id), S, t)
  <1> DEFINE a == NewList(p, pin)
             k == pin.id - a.id
             q == PushUnseen(a, k)
             n == IF pin.id > SeqBacktrack THEN pin.id - SeqBacktrack ELSE 0
  <1>1. pin.id \in Nat \ {0} /\ SeqBacktrack \in Nat /\ pin.time \in Nat
    BY PacketIdAssumption DEF PacketIdNet, packet_id_test
  <1>2. a = [p EXCEPT !.time = pin.time, !.id = n, !.size = 0, !.item = EmptyItems]
    BY DEF NewList
  <1>3. n \in Nat /\ n < pin.id /\ 0 \in 0..SeqBacktrack /\ EmptyItems \in [Index -> Nat]
    BY <1>1 DEF EmptyItems, SEQ_UNSEEN
  <1>4. n = IF pin.id > SeqBacktrack THEN pin.id - SeqBacktrack ELSE 0
    OBVIOUS
  <1> HIDE DEF a, n
  <1>5. a \in PacketIdRec /\ a.id = n /\ a.size = 0 /\ a.item = EmptyItems
    BY Zenon, <1>1, <1>2, <1>3 DEF PacketIdRec
  <1>6. k \in Nat /\ k = pin.id - n
    BY <1>1, <1>3, <1>5
  <1> HIDE DEF k
  <1>7. /\ q \in PacketIdRec /\ q.id = n + k /\ q.size = IF k <= SeqBacktrack THEN k ELSE SeqBacktrack
        /\ \A i \in Index : q.item[i] = IF i < k THEN SEQ_UNSEEN ELSE EmptyItems[i - k]
    BY <1>5, <1>6, PushFields
  <1> HIDE DEF q
  <1>8. q.size = IF q.id <= SeqBacktrack THEN q.id ELSE SeqBacktrack
    BY <1>1, <1>4, <1>6, <1>7
  <1>9. ASSUME NEW i \in Index, i < q.size
        PROVE  Explained(q, i, S, t)
    <2>1. i < k
      BY <1>1, <1>6, <1>7, <1>9 DEF Index
    <2> QED
      BY <1>7, <2>1 DEF Explained
  <1> QED
    BY <1>8, <1>9 DEF Exact, q, k, a

\* An accepted packet enters the window and the history (packet_id_add).
LEMMA AddExact ==
    ASSUME NEW p \in PacketIdRec, NEW pin \in PacketIdNet, NEW S \in History, NEW t \in Nat,
           SeqBacktrack # 0, t > SEQ_EXPIRED, packet_id_test(p, pin), Exact(p, S, t)
    PROVE  Exact(packet_id_add(p, pin, t), S \cup {<<pin, t>>}, t)
  <1> DEFINE b == MoveList(p, pin)
  <1>1. packet_id_add(p, pin, t) = Stamp(b, pin, t)
    BY DEF packet_id_add
  <1>2. b \in PacketIdRec /\ b.time = pin.time /\ pin.id <= b.id /\ b.id - pin.id < b.size
    BY MoveListReaches
  <1>3. Exact(b, S, t)
    <2>1. CASE StartsNewList(p, pin)
      <3> DEFINE a == NewList(p, pin)
      <3>1. a.id < pin.id
        BY <2>1, NewListKeepsCovered
      <3>2. b = PushUnseen(a, pin.id - a.id)
        BY <2>1, <3>1, MoveListCases
      <3> QED
        BY <2>1, <3>2, NewListExact
    <2>2. CASE ~StartsNewList(p, pin) /\ p.id < pin.id
      <3>1. pin.id - p.id \in Nat
        BY <2>2 DEF PacketIdRec, PacketIdNet
      <3>2. b = PushUnseen(p, pin.id - p.id)
        BY <2>2, MoveListCases
      <3> QED
        BY <3>1, <3>2, PushExact
    <2>3. CASE ~StartsNewList(p, pin) /\ ~(p.id < pin.id)
      BY <2>3, MoveListCases
    <2> QED
      BY <2>1, <2>2, <2>3
  <1> HIDE DEF b
  <1> QED
    BY <1>1, <1>2, <1>3, StampExact

\* An exact window rejects a packet of its time that was not accepted only
\* with cause (packet_id_test).
LEMMA ExactRejects ==
    ASSUME NEW p \in PacketIdRec, NEW pin \in PacketIdNet, NEW S \in History, NEW t \in Nat,
           SeqBacktrack # 0, Exact(p, S, t), pin.time = p.time, pin.id # 0,
           \A s \in S : s[1] # pin, ~packet_id_test(p, pin)
    PROVE  \/ p.id - pin.id >= SeqBacktrack
           \/ \E s \in S : s[1].time = p.time /\ s[1].id > pin.id /\ s[2] + TimeBacktrack < t
  <1> SUFFICES ASSUME ~(p.id - pin.id >= SeqBacktrack)
               PROVE  \E s \in S : s[1].time = p.time /\ s[1].id > pin.id /\ s[2] + TimeBacktrack < t
    OBVIOUS
  <1> DEFINE i == p.id - pin.id
  <1>1. p.id \in Nat /\ pin.id \in Nat /\ p.size \in 0..SeqBacktrack /\ SeqBacktrack \in Nat
    BY PacketIdAssumption DEF PacketIdRec, PacketIdNet
  <1>2. pin.id <= p.id /\ (i < p.size => p.item[i] # SEQ_UNSEEN)
    BY <1>1 DEF packet_id_test, TestInWindow
  <1>3. i \in Index /\ i < p.size
    BY <1>1, <1>2 DEF Index, Exact
  <1>4. Explained(p, i, S, t)
    BY <1>3 DEF Exact
  <1>5. p.id - i = pin.id /\ pin = [time |-> p.time, id |-> pin.id]
    BY <1>1 DEF PacketIdNet
  <1>6. <<[time |-> p.time, id |-> p.id - i], p.item[i]>> \notin S
    <2> DEFINE e == <<[time |-> p.time, id |-> p.id - i], p.item[i]>>
    <2>1. e[1] = pin
      BY <1>5
    <2> HIDE DEF e
    <2>2. e \notin S
      BY <2>1
    <2> QED
      BY <2>2 DEF e
  <1>7. PICK s \in S : s[1].time = p.time /\ s[1].id >= p.id - i /\ s[2] + TimeBacktrack < t
    BY <1>2, <1>3, <1>4, <1>6 DEF Explained
  <1>8. s[1] \in PacketIdNet /\ s[1] # pin
    BY DEF History
  <1>9. s[1].id # pin.id
    BY <1>5, <1>7, <1>8 DEF PacketIdNet
  <1> QED
    BY <1>1, <1>5, <1>7, <1>8, <1>9 DEF PacketIdNet

-----------------------------------------------------------------------------
\* The inductive invariant: the window remembers everything accepted.
IInv ==
    /\ TypeOK
    /\ now > SEQ_EXPIRED
    /\ SeqBacktrack # 0 /\ seen # {} => rec.size # 0
    /\ \A s \in seen : Covered(rec, s[1])

\* The initial state satisfies the inductive invariant.
LEMMA InitIInv == Init => IInv
  <1>1. EmptyItems \in [Index -> Nat]
    BY DEF EmptyItems, SEQ_UNSEEN
  <1> QED
    BY <1>1, PacketIdAssumption
    DEF Init, IInv, TypeOK, InitRec, PacketIdRec, SEQ_EXPIRED

\* Every step preserves the inductive invariant.
LEMMA NextIInv == IInv /\ [Next]_vars => IInv'
  <1> SUFFICES ASSUME IInv, [Next]_vars PROVE IInv'
    OBVIOUS
  <1> USE DEF IInv
  <1>1. CASE Tick
    BY <1>1 DEF Tick, TypeOK, Covered, SEQ_EXPIRED
  <1>2. CASE packet_id_write
    <2>1. send' \in [time : Nat, id : 0..PacketIdMax]
      BY <1>2, PacketIdAssumption DEF packet_id_write, packet_id_send_update, TypeOK
    <2>2. OnWire(send') \in PacketIdNet
      BY <2>1, PacketIdAssumption DEF OnWire, PacketIdNet
    <2> QED
      BY <1>2, <2>1, <2>2 DEF packet_id_write, TypeOK, Covered
  <1>3. CASE Receive
    <2>1. PICK pin \in sent : crypto_check_replay(pin)
      BY <1>3 DEF Receive
    <2> DEFINE p == packet_id_reap_test(rec, now)
    <2>2. pin \in PacketIdNet /\ now \in Nat /\ rec \in PacketIdRec
      BY DEF TypeOK
    <2>3. /\ p \in PacketIdRec /\ p.size = rec.size
          /\ \A h \in PacketIdNet : Covered(rec, h) => Covered(p, h)
      BY <2>2, ReapFields, ReapKeepsCovered
    <2>4. \A s \in seen : s[1] \in PacketIdNet /\ Covered(p, s[1])
      BY <2>3 DEF TypeOK
    <2>5. UNCHANGED <<now, send, sent>>
      BY <2>1 DEF crypto_check_replay
    <2>6. CASE packet_id_test(p, pin)
      <3> DEFINE q == packet_id_add(p, pin, now)
      <3>1. rec' = q /\ seen' = seen \cup {<<pin, now>>}
        BY <2>1, <2>6 DEF crypto_check_replay
      <3> HIDE DEF p
      <3>2. /\ q \in PacketIdRec
            /\ SeqBacktrack # 0 => q.size # 0
            /\ Covered(q, pin)
            /\ \A h \in PacketIdNet :
                  (SeqBacktrack = 0 \/ p.size # 0) /\ Covered(p, h) => Covered(q, h)
        BY <2>2, <2>3, <2>6, AddCovers
      <3> HIDE DEF q
      <3>3. \A s \in seen : Covered(q, s[1])
        BY <2>3, <2>4, <3>2
      <3>4. \A s \in seen' : Covered(rec', s[1])
        BY <3>1, <3>2, <3>3
      <3>5. TypeOK'
        BY <2>2, <2>5, <3>1, <3>2 DEF TypeOK
      <3> QED
        BY <2>5, <3>1, <3>2, <3>4, <3>5 DEF Covered
    <2>7. CASE ~packet_id_test(p, pin)
      <3>1. rec' = p /\ seen' = seen
        BY <2>1, <2>7 DEF crypto_check_replay
      <3> HIDE DEF p
      <3> QED
        BY <2>3, <2>4, <2>5, <3>1 DEF TypeOK, Covered
    <2> QED
      BY <2>6, <2>7
  <1>4. CASE UNCHANGED vars
    BY <1>4 DEF vars, TypeOK, Covered
  <1> QED
    BY <1>1, <1>2, <1>3, <1>4 DEF Next

\* Every reachable state of the sender and the receiver is well typed: ids
\* stay below PACKET_ID_MAX and the window within its capacity.
THEOREM TypeCorrect == Spec => []TypeOK
  <1>1. IInv => TypeOK
    BY DEF IInv
  <1> QED
    BY InitIInv, NextIInv, <1>1, PTL DEF Spec

\* No packet is accepted twice, for any window, time limit and id range, in
\* UDP and in TCP mode, with short and with long packet ids.
THEOREM ReplaysAreRejected == Spec => []NoReplay
  <1>1. IInv => NoReplay
    BY CoveredIsRejected DEF IInv, NoReplay, accepted, TypeOK
  <1> QED
    BY InitIInv, NextIInv, <1>1, PTL DEF Spec

-----------------------------------------------------------------------------
\* What was sent lies behind the send state, and every id was used.
SendInv ==
    /\ send.time <= now
    /\ send.time = 0 => sent = {}
    /\ \A h \in sent :
          /\ h.id # 0
          /\ h.time <= OnWire(send).time
          /\ h.time = OnWire(send).time => h.id <= send.id

FreshHeader == send' # send => OnWire(send') \notin sent

\* Writing moves the send state forward (packet_id_send_update).
LEMMA NextSendInv ==
    ASSUME IInv, SendInv, [Next]_vars
    PROVE  SendInv' /\ FreshHeader
  <1>1. /\ now \in Nat /\ now > 1 /\ send.time \in Nat /\ send.id \in 0..PacketIdMax
        /\ PacketIdMax \in Nat \ {0} /\ LongForm \in BOOLEAN
        /\ \A h \in sent : h.time \in Nat /\ h.id \in Nat
        /\ send \in [time : Nat, id : 0..PacketIdMax]
    BY PacketIdAssumption DEF IInv, TypeOK, PacketIdNet, SEQ_EXPIRED
  <1>2. CASE packet_id_write
    <2>1. /\ CanSend(send, now) /\ send' = packet_id_send_update(send, now)
          /\ sent' = sent \cup {OnWire(send')} /\ now' = now
      BY <1>2 DEF packet_id_write
    <2>2. /\ send'.time \in Nat /\ send'.id \in Nat \ {0} /\ send'.time # 0 /\ send'.time <= now
      BY <1>1, <2>1 DEF SendInv, packet_id_send_update
    <2>3. \/ send.time = 0
          \/ send'.time = send.time /\ send'.id = send.id + 1
          \/ LongForm /\ send'.time > send.time
      BY <1>1, <2>1 DEF SendInv, packet_id_send_update, CanSend
    <2>4. OnWire(send').time = (IF LongForm THEN send'.time ELSE 0) /\ OnWire(send').id = send'.id
      BY DEF OnWire
    <2>5. OnWire(send).time = IF LongForm THEN send.time ELSE 0
      BY DEF OnWire
    <2>6. ASSUME NEW h \in sent
          PROVE  /\ h.time <= OnWire(send').time
                 /\ h.time = OnWire(send').time => h.id < send'.id
      BY <1>1, <2>2, <2>3, <2>4, <2>5, <2>6 DEF SendInv
    <2>7. OnWire(send') \notin sent
      BY <1>1, <2>2, <2>4, <2>6
    <2>8. ASSUME NEW h \in sent'
          PROVE  /\ h.id # 0 /\ h.time <= OnWire(send').time
                 /\ h.time = OnWire(send').time => h.id <= send'.id
      <3>1. CASE h \in sent
        BY <1>1, <2>2, <2>6, <3>1 DEF SendInv
      <3>2. CASE h = OnWire(send')
        BY <2>2, <2>4, <3>2
      <3> QED
        BY <2>1, <2>8, <3>1, <3>2
    <2> QED
      BY <2>1, <2>2, <2>7, <2>8 DEF SendInv, FreshHeader, OnWire
  <1>3. CASE Tick \/ Receive \/ UNCHANGED vars
    <2>1. send' = send /\ sent' = sent /\ now' \in Nat /\ now' >= now
      BY <1>1, <1>3 DEF Tick, Receive, crypto_check_replay, vars
    <2> QED
      BY <1>1, <2>1 DEF SendInv, FreshHeader, OnWire
  <1> QED
    BY <1>2, <1>3 DEF Next

\* No header is put on the wire twice, for every id range and both forms.
THEOREM HeadersAreUnique == Spec => HeadersAreFresh
  <1>1. Init => SendInv
    BY DEF Init, SendInv
  <1>2. IInv /\ SendInv /\ [Next]_vars => SendInv' /\ [FreshHeader]_vars
    BY NextSendInv
  <1> QED
    BY <1>1, <1>2, InitIInv, NextIInv, PTL DEF Spec, HeadersAreFresh, FreshHeader

-----------------------------------------------------------------------------
\* The header a record was last moved to.
Newest(p) == [time |-> p.time, id |-> p.id]

\* What the record holds is what was accepted: with a window, entry by entry;
\* without one, the newest packet ends the run of its time value.
RecvInv ==
    /\ \A s \in seen : s[1].id # 0
    /\ SeqBacktrack # 0 => Exact(rec, seen, now)
    /\ SeqBacktrack = 0 => seen = {} \/ Newest(rec) \in accepted
    /\ NoGapInTcpMode

\* Without a window the next packet continues the run or starts a new one
\* (packet_id_test in TCP mode).
LEMMA RunGrows ==
    ASSUME IInv, RecvInv, SeqBacktrack = 0, NEW p \in PacketIdRec, p.time = rec.time, p.id = rec.id,
           NEW pin \in PacketIdNet, packet_id_test(p, pin), seen' = seen \cup {<<pin, now>>}
    PROVE  NoGapInTcpMode'
  <1>1. /\ accepted' = accepted \cup {pin}
        /\ \A a \in accepted : /\ a \in PacketIdNet /\ a.id # 0 /\ a.time <= rec.time
                               /\ a.time = rec.time => a.id <= rec.id
    <2>1. accepted' = accepted \cup {pin}
      <3> DEFINE e == <<pin, now>>
      <3>1. e[1] = pin /\ seen' = seen \cup {e}
        OBVIOUS
      <3> HIDE DEF e
      <3> QED
        BY <3>1 DEF accepted
    <2>2. \A s \in seen : /\ s[1] \in PacketIdNet /\ s[1].id # 0 /\ s[1].time <= rec.time
                          /\ s[1].time = rec.time => s[1].id <= rec.id
      BY DEF RecvInv, IInv, TypeOK, Covered
    <2> QED
      BY <2>1, <2>2 DEF accepted
  <1>2. accepted = {} \/ Newest(rec) \in accepted
    BY DEF RecvInv, accepted
  <1>3. /\ rec.time \in Nat /\ rec.id \in Nat /\ pin.time \in Nat /\ pin.id \in Nat
        /\ \A a \in accepted : a.time \in Nat /\ a.id \in Nat
    BY <1>1 DEF PacketIdRec, PacketIdNet
  <1>4. \/ pin.time = rec.time /\ (rec.id = 0 \/ pin.id = rec.id + 1)
        \/ pin.time > rec.time
    BY DEF packet_id_test, TestInSequence
  <1>5. pin = [time |-> pin.time, id |-> pin.id]
    BY DEF PacketIdNet
  <1>6. ASSUME NEW a \in accepted, NEW b \in accepted, NEW i \in a.id..b.id, a.time = b.time
        PROVE  [time |-> a.time, id |-> i] \in accepted
    BY <1>6 DEF RecvInv, NoGapInTcpMode
  <1>7. ASSUME NEW a \in accepted, NEW i \in a.id..pin.id, a.time = pin.time
        PROVE  [time |-> a.time, id |-> i] \in accepted \cup {pin}
    <2>1. pin.time = rec.time /\ pin.id = rec.id + 1 /\ a.id <= rec.id /\ a.time = rec.time
      BY <1>1, <1>3, <1>4, <1>7
    <2>2. CASE i = pin.id
      BY <1>5, <1>7, <2>2
    <2>3. CASE i # pin.id
      <3>1. Newest(rec) \in accepted /\ Newest(rec).time = a.time /\ Newest(rec).id = rec.id
        BY <1>2, <2>1 DEF Newest
      <3>2. i \in a.id..rec.id
        BY <1>3, <1>7, <2>1, <2>3
      <3>3. i \in a.id..Newest(rec).id
        BY <3>1, <3>2
      <3> QED
        BY <1>6, <3>1, <3>3
    <2> QED
      BY <2>2, <2>3
  <1>8. ASSUME NEW a \in accepted, a.time = pin.time
        PROVE  a.id < pin.id
    BY <1>1, <1>3, <1>4, <1>8
  <1>9. ASSUME NEW a \in accepted', NEW b \in accepted', NEW i \in a.id..b.id, a.time = b.time
        PROVE  [time |-> a.time, id |-> i] \in accepted'
    <2>1. CASE a \in accepted /\ b \in accepted
      BY <1>1, <1>6, <1>9, <2>1
    <2>2. CASE a \in accepted /\ b = pin
      BY <1>1, <1>7, <1>9, <2>2
    <2>3. CASE a = pin /\ b \in accepted
      BY <1>3, <1>8, <1>9, <2>3
    <2>4. CASE a = pin /\ b = pin
      <3>1. i = pin.id
        BY <1>3, <1>9, <2>4
      <3> QED
        BY <1>1, <1>5, <2>4, <3>1
    <2> QED
      BY <1>1, <2>1, <2>2, <2>3, <2>4
  <1> QED
    BY <1>9 DEF NoGapInTcpMode

\* Every step keeps the record and the history in agreement.
LEMMA NextRecvInv ==
    ASSUME IInv, RecvInv, [Next]_vars
    PROVE  RecvInv'
  <1>1. now \in Nat /\ now > SEQ_EXPIRED /\ rec \in PacketIdRec /\ seen \in History
    BY DEF IInv, TypeOK, History
  <1>2. CASE UNCHANGED <<rec, seen>> /\ now' \in Nat /\ now <= now'
    <2>1. SeqBacktrack # 0 => Exact(rec, seen, now')
      BY <1>1, <1>2, ExactGrows DEF RecvInv
    <2> QED
      BY <1>2, <2>1 DEF RecvInv, accepted, NoGapInTcpMode, Exact, Explained, Newest
  <1>3. CASE Receive
    <2>1. PICK pin \in sent : crypto_check_replay(pin)
      BY <1>3 DEF Receive
    <2> DEFINE p == packet_id_reap_test(rec, now)
    <2>2. pin \in PacketIdNet
      BY DEF IInv, TypeOK
    <2>3. p \in PacketIdRec /\ p.time = rec.time /\ p.id = rec.id
      BY <1>1, ReapFields
    <2>4. SeqBacktrack # 0 => Exact(p, seen, now)
      BY <1>1, ReapExact DEF RecvInv
    <2>5. now' = now
      BY <2>1 DEF crypto_check_replay
    <2>6. CASE packet_id_test(p, pin)
      <3> DEFINE q == packet_id_add(p, pin, now)
      <3>1. rec' = q /\ seen' = seen \cup {<<pin, now>>}
        BY <2>1, <2>6 DEF crypto_check_replay
      <3> HIDE DEF p
      <3>2. pin.id # 0
        BY <2>6 DEF packet_id_test
      <3>3. SeqBacktrack # 0 => Exact(q, seen \cup {<<pin, now>>}, now)
        BY <1>1, <2>2, <2>3, <2>4, <2>6, AddExact
      <3>4. SeqBacktrack = 0 => Newest(q) = pin
        <4>1. ASSUME SeqBacktrack = 0 PROVE q = [p EXCEPT !.time = pin.time, !.id = pin.id]
          BY <4>1 DEF packet_id_add
        <4> HIDE DEF q
        <4>2. ASSUME SeqBacktrack = 0 PROVE q.time = pin.time /\ q.id = pin.id
          BY Zenon, <2>3, <4>1, <4>2 DEF PacketIdRec
        <4> QED
          BY <2>2, <4>2 DEF Newest, PacketIdNet
      <3> HIDE DEF q
      <3>5. NoGapInTcpMode'
        BY <2>2, <2>3, <2>6, <3>1, RunGrows DEF NoGapInTcpMode
      <3>6. \A s \in seen' : s[1].id # 0
        BY <3>1, <3>2 DEF RecvInv
      <3>7. SeqBacktrack # 0 => Exact(rec', seen', now')
        BY <2>5, <3>1, <3>3
      <3>8. SeqBacktrack = 0 => Newest(rec') \in accepted'
        <4>1. <<pin, now>> \in seen' /\ <<pin, now>>[1] = pin
          BY <3>1
        <4>2. pin \in accepted'
          BY <4>1 DEF accepted
        <4> QED
          BY <3>1, <3>4, <4>2
      <3> QED
        BY <3>5, <3>6, <3>7, <3>8 DEF RecvInv, Exact, Explained, Newest
    <2>7. CASE ~packet_id_test(p, pin)
      <3>1. rec' = p /\ seen' = seen
        BY <2>1, <2>7 DEF crypto_check_replay
      <3> HIDE DEF p
      <3>2. SeqBacktrack # 0 => Exact(rec', seen', now')
        BY <2>4, <2>5, <3>1
      <3>3. Newest(rec') = Newest(rec)
        BY <2>3, <3>1 DEF Newest
      <3> QED
        BY <3>1, <3>2, <3>3 DEF RecvInv, accepted, NoGapInTcpMode, Exact, Explained, Newest
    <2> QED
      BY <2>6, <2>7
  <1>4. CASE Tick \/ packet_id_write \/ UNCHANGED vars
    BY <1>1, <1>2, <1>4 DEF Tick, packet_id_write, vars
  <1> QED
    BY <1>3, <1>4 DEF Next

\* Nothing is dropped without cause, for every window size, time limit and id
\* range: a window rejects what it holds, what it has moved past and what its
\* time limit allows; TCP mode accepts runs without gaps.
THEOREM NothingIsDroppedWithoutCause == Spec => []RejectsWithCause
  <1>1. Init => SendInv /\ RecvInv
    BY PacketIdAssumption
    DEF Init, SendInv, RecvInv, Exact, InitRec, NoGapInTcpMode, accepted, Index
  <1>2. IInv /\ SendInv /\ [Next]_vars => SendInv'
    BY NextSendInv
  <1>3. IInv /\ RecvInv /\ [Next]_vars => RecvInv'
    BY NextRecvInv
  <1>4. ASSUME IInv, SendInv, RecvInv, SeqBacktrack # 0, NEW pin \in sent \ accepted,
               pin.time = rec.time, ~packet_id_test(rec, pin)
        PROVE  \/ rec.id - pin.id >= SeqBacktrack
               \/ \E s \in seen : /\ s[1].time = rec.time
                                  /\ s[1].id > pin.id
                                  /\ s[2] + TimeBacktrack < now
    <2>1. /\ pin \in PacketIdNet /\ pin.id # 0 /\ rec \in PacketIdRec /\ now \in Nat
          /\ seen \in History /\ Exact(rec, seen, now)
      BY <1>4 DEF IInv, TypeOK, SendInv, RecvInv, History
    <2>2. \A s \in seen : s[1] # pin
      BY DEF accepted
    <2> QED
      BY <1>4, <2>1, <2>2, ExactRejects
  <1>5. IInv /\ SendInv /\ RecvInv => RejectsWithCause
    BY <1>4 DEF RejectsWithCause, NoFalseReject, RecvInv
  <1> QED
    BY <1>1, <1>2, <1>3, <1>5, InitIInv, NextIInv, PTL DEF Spec
=============================================================================
