-------------------------- MODULE EpochWindowProofs --------------------------
(***************************************************************************)
(* Proofs about the two replay windows of EpochKeys: they hold nothing     *)
(* that did not happen, so that a change of keys loses no packet that is   *)
(* still in flight.                                                        *)
(***************************************************************************)
EXTENDS EpochProofs

(* With a replay window, the windows hold nothing that did not happen.     *)

\* The history of the packet ids accepted in epoch e, as PacketIdProofs has it.
Seen(T, e) == {<<Pin(m[2]), Now>> : m \in {k \in T : k[1] = e}}

\* Window r is explained by the packets T of epoch e, and its newest id is
\* one of them.
WindowExact(r, e, T) ==
    /\ r.time = 0
    /\ Exact(r, Seen(T, e), Now)
    /\ r.id # 0 => <<e, r.id>> \in T

\* Both windows are exact.
WindowsExact(c, T) ==
    /\ WindowExact(c.rec, c.decrypt.epoch, T)
    /\ c.retiring.epoch # 0 => WindowExact(c.retiring_rec, c.retiring.epoch, T)

\* What was accepted in an epoch is a history.
LEMMA SeenIsHistory ==
    ASSUME NEW T \in SUBSET (Epoch \X Nat), NEW e
    PROVE  Seen(T, e) \in History
  <1>1. ASSUME NEW m \in T
        PROVE  <<Pin(m[2]), Now>> \in PacketIdNet \X Nat
    <2>1. m[2] \in Nat
      OBVIOUS
    <2>2. Pin(m[2]) \in PacketIdNet /\ Now \in Nat
      BY <2>1, PinType DEF Now
    <2> QED
      BY <2>2
  <1> QED
    BY <1>1 DEF Seen, History

\* A new window is exact.
LEMMA NewWindowExact ==
    ASSUME NEW e, NEW T
    PROVE  WindowExact(InitRec, e, T)
  <1>1. InitRec.time = 0 /\ InitRec.id = 0 /\ InitRec.size = 0
    BY DEF InitRec
  <1>2. \A i \in Index : ~(i < 0)
    BY PacketIdAssumption DEF Index
  <1>3. 0 <= SeqBacktrack
    BY PacketIdAssumption
  <1> QED
    BY <1>1, <1>2, <1>3 DEF WindowExact, Exact

\* More accepted packets leave a window exact.
LEMMA WindowGrows ==
    ASSUME NEW r \in PacketIdRec, NEW e, NEW T \in SUBSET (Epoch \X Nat),
           NEW U \in SUBSET (Epoch \X Nat), T \subseteq U, WindowExact(r, e, T)
    PROVE  WindowExact(r, e, U)
  <1>1. Seen(T, e) \subseteq Seen(U, e)
    BY DEF Seen
  <1>2. Seen(T, e) \in History /\ Seen(U, e) \in History /\ Now \in Nat /\ Now <= Now
    BY SeenIsHistory DEF Now
  <1>3. Exact(r, Seen(U, e), Now)
    BY <1>1, <1>2, ExactGrows DEF WindowExact
  <1> QED
    BY <1>3 DEF WindowExact

\* Reaping leaves a window exact.
LEMMA ReapWindowExact ==
    ASSUME NEW r \in PacketIdRec, NEW e, NEW T \in SUBSET (Epoch \X Nat), WindowExact(r, e, T)
    PROVE  WindowExact(packet_id_reap_test(r, Now), e, T)
  <1> DEFINE q == packet_id_reap_test(r, Now)
  <1>1. Seen(T, e) \in History /\ Now \in Nat
    BY SeenIsHistory DEF Now
  <1>2. q.time = r.time /\ q.id = r.id
    BY <1>1, ReapFields
  <1>3. Exact(q, Seen(T, e), Now)
    BY <1>1, ReapExact DEF WindowExact
  <1> HIDE DEF q
  <1> QED
    BY <1>2, <1>3 DEF WindowExact, q

\* Entering an accepted packet leaves its window exact.
LEMMA AddWindowExact ==
    ASSUME SeqBacktrack # 0, NEW r \in PacketIdRec, NEW e \in Epoch, NEW id \in Nat,
           NEW T \in SUBSET (Epoch \X Nat), WindowExact(r, e, T), packet_id_test(r, Pin(id))
    PROVE  WindowExact(packet_id_add(r, Pin(id), Now), e, T \cup {<<e, id>>})
  <1> DEFINE q == packet_id_add(r, Pin(id), Now)
             U == T \cup {<<e, id>>}
             S == Seen(T, e) \cup {<<Pin(id), Now>>}
  <1>1. Now \in Nat /\ Now > SEQ_EXPIRED /\ Pin(id) \in PacketIdNet /\ Pin(id).time = 0 /\ Pin(id).id = id
    BY PinType DEF Now, SEQ_EXPIRED, Pin
  <1>2. U \in SUBSET (Epoch \X Nat) /\ Seen(T, e) \in History /\ Seen(U, e) \in History
    <2>1. U \in SUBSET (Epoch \X Nat)
      OBVIOUS
    <2> QED
      BY <2>1, SeenIsHistory
  <1>3. q \in PacketIdRec /\ q.time = 0 /\ q.id \in {r.id, id}
    BY <1>1, AddMoves
  <1>4. Exact(q, S, Now)
    BY <1>1, <1>2, AddExact DEF WindowExact
  <1> HIDE DEF q
  <1>5. S \subseteq Seen(U, e)
    <2>1. Seen(T, e) \subseteq Seen(U, e)
      BY DEF Seen
    <2>2. <<e, id>> \in {k \in U : k[1] = e} /\ <<e, id>>[2] = id
      OBVIOUS
    <2>3. <<Pin(id), Now>> \in Seen(U, e)
      BY <2>2 DEF Seen
    <2> QED
      BY <2>1, <2>3
  <1>6. S \in History /\ Now <= Now
    BY <1>1, <1>2, <1>5 DEF History
  <1>7. Exact(q, Seen(U, e), Now)
    BY Zenon, <1>1, <1>2, <1>3, <1>4, <1>5, <1>6, ExactGrows
  <1>8. q.id # 0 => <<e, q.id>> \in U
    BY <1>3 DEF WindowExact
  <1> QED
    BY Zenon, <1>3, <1>7, <1>8 DEF WindowExact, q

-----------------------------------------------------------------------------
(* Packets in flight: the second invariant, on top of the first.           *)

\* The replay windows of both peers are exact.
ExactInv == \A p \in Peer : WindowsExact(co[p], taken[p])

\* A change of receive key leaves the windows exact.
LEMMA SelectExact ==
    ASSUME NEW c, Sound(c), NEW e \in Epoch \ {0}, epoch_lookup_decrypt_key(c, e).epoch = e,
           NEW T \in SUBSET (Epoch \X Nat), WindowsExact(c, T)
    PROVE  WindowsExact(SelectWindow(c, e), T)
  <1> DEFINE d == SelectWindow(c, e)
  <1>1. CASE e = c.decrypt.epoch \/ Past(c, e)
    BY <1>1 DEF SelectWindow
  <1>2. CASE ~(e = c.decrypt.epoch \/ Past(c, e))
    <2>1. Ahead(c, e)
      BY <1>2, LookupSound
    <2>2. d = epoch_replace_update_recv_key(c, e)
      BY <1>2 DEF SelectWindow
    <2>3. /\ d.decrypt.epoch = e /\ d.retiring.epoch = c.decrypt.epoch
          /\ d.rec = InitRec /\ d.retiring_rec = c.rec
      BY <2>1, <2>2, ReplaceSound
    <2> HIDE DEF d
    <2>4. WindowExact(d.rec, d.decrypt.epoch, T)
      BY <2>3, NewWindowExact
    <2> QED
      BY <2>3, <2>4 DEF WindowsExact, d
  <1> QED
    BY <1>1, <1>2

\* Replacing the window of the packet's key by an exact one leaves the
\* windows exact.
LEMMA WithWindowExact ==
    ASSUME NEW c, Sound(c), NEW e \in {c.decrypt.epoch, c.retiring.epoch},
           NEW T \in SUBSET (Epoch \X Nat), NEW U \in SUBSET (Epoch \X Nat), T \subseteq U,
           WindowsExact(c, T), NEW r \in PacketIdRec, WindowExact(r, e, U)
    PROVE  WindowsExact(WithWindow(c, e, r), U)
  <1> DEFINE d == WithWindow(c, e, r)
  <1>1. /\ d.decrypt = c.decrypt /\ d.retiring = c.retiring
        /\ d.rec = IF e = c.decrypt.epoch THEN r ELSE c.rec
        /\ d.retiring_rec = IF e = c.decrypt.epoch THEN c.retiring_rec ELSE r
    BY WithWindowSound
  <1> HIDE DEF d
  <1>2. c.rec \in PacketIdRec /\ c.retiring_rec \in PacketIdRec
    BY DEF Sound, CryptoOptions
  <1>3. /\ WindowExact(c.rec, c.decrypt.epoch, U)
        /\ c.retiring.epoch # 0 => WindowExact(c.retiring_rec, c.retiring.epoch, U)
    BY <1>2, WindowGrows DEF WindowsExact
  <1> QED
    BY <1>1, <1>3 DEF WindowsExact, d

\* The window of the packet's key is exact.
LEMMA SelectedWindowExact ==
    ASSUME NEW c, Sound(c), NEW e \in {c.decrypt.epoch, c.retiring.epoch}, e # 0,
           NEW T \in SUBSET (Epoch \X Nat), WindowsExact(c, T)
    PROVE  LET r == packet_id_reap_test(Window(c, e), Now)
           IN  r \in PacketIdRec /\ WindowExact(r, e, T)
  <1>1. Window(c, e) \in PacketIdRec /\ WindowExact(Window(c, e), e, T)
    BY DEF Window, Sound, CryptoOptions, WindowsExact
  <1> QED
    BY <1>1, ReapKeeps, ReapWindowExact

\* A key is found for the current epoch, the previous one and the next ones.
LEMMA LookupFinds ==
    ASSUME NEW c, Sound(c), NEW e \in Epoch \ {0},
           e = c.decrypt.epoch \/ Past(c, e) \/ Ahead(c, e)
    PROVE  epoch_lookup_decrypt_key(c, e).epoch = e
  <1>1. /\ InOrder(c) /\ c.decrypt.epoch \in Nat /\ e \in Nat /\ FutureCount \in Nat
    BY EpochAssumption DEF Sound, CryptoOptions, KeyCtx, Epoch
  <1>2. CASE e = c.decrypt.epoch \/ Past(c, e)
    BY <1>2 DEF epoch_lookup_decrypt_key, Past
  <1>3. CASE e # c.decrypt.epoch /\ ~Past(c, e) /\ Ahead(c, e)
    <2> DEFINE i == e - (c.decrypt.epoch + 1)
    <2>1. i \in Slot /\ c.decrypt.epoch + 1 + i = e
      BY <1>1, <1>3 DEF Ahead, Slot
    <2>2. c.future[i].epoch = c.decrypt.epoch + 1 + i
      BY <1>1, <2>1 DEF InOrder
    <2> QED
      BY <1>3, <2>1, <2>2 DEF epoch_lookup_decrypt_key
  <1> QED
    BY <1>2, <1>3

\* Exact windows accept what is in flight.
LEMMA ExactAccepts ==
    ASSUME SeqBacktrack # 0, EpochInv, ExactInv
    PROVE  InFlightIsAccepted
  <1> SUFFICES ASSUME NEW p \in Peer, NEW m \in wire[Other(p)] \ taken[p],
                      ~(m[1] < co[p].decrypt.epoch /\ m[1] # co[p].retiring.epoch),
                      ~(m[1] > co[p].decrypt.epoch + FutureCount),
                      ~(m[1] + FutureCount >= EpochMax),
                      ~(epoch_lookup_decrypt_key(co[p], m[1]).fails > FailLimit),
                      ~Accepts(co[p], m[1], m[2])
               PROVE  \E a \in taken[p] : a[1] = m[1] /\ a[2] >= m[2] + SeqBacktrack
    BY DEF InFlightIsAccepted
  <1> DEFINE e == m[1]
             c == co[p]
             T == taken[p]
             d == SelectWindow(c, e)
             r == packet_id_reap_test(Window(d, e), Now)
  <1>1. Sound(c) /\ TakenKept(c, T) /\ WindowsExact(c, T) /\ T \in SUBSET (Epoch \X Nat)
    BY DEF EpochInv, EpochTypeOK, ExactInv
  <1>2. e \in Epoch \ {0} /\ m[2] \in Nat \ {0} /\ m \in Epoch \X Nat
    <2>1. Other(p) \in Peer
      BY DEF Other, Peer
    <2> QED
      BY <2>1 DEF EpochInv, EpochTypeOK, SentBehind
  <1>3. e = c.decrypt.epoch \/ Past(c, e) \/ Ahead(c, e)
    BY <1>1, <1>2, EpochAssumption DEF Past, Ahead, Sound, CryptoOptions, KeyCtx, Epoch
  <1>4. epoch_lookup_decrypt_key(c, e).epoch = e
    BY <1>1, <1>2, <1>3, LookupFinds
  <1>5. ~packet_id_test(r, Pin(m[2]))
    BY <1>4 DEF Accepts, cipher_decrypt_verify_fail_exceeded
  <1>6. Sound(d) /\ e \in {d.decrypt.epoch, d.retiring.epoch}
    BY <1>1, <1>2, <1>4, SelectKeeps
  <1>7. WindowsExact(d, T)
    BY <1>1, <1>2, <1>4, SelectExact
  <1> HIDE DEF c, d
  <1>8. r \in PacketIdRec /\ WindowExact(r, e, T)
    BY <1>1, <1>2, <1>6, <1>7, SelectedWindowExact
  <1> HIDE DEF r
  <1>9. \A s \in Seen(T, e) : s[1] # Pin(m[2]) /\ s[2] = Now
    <2> SUFFICES ASSUME NEW k \in T, k[1] = e PROVE Pin(k[2]) # Pin(m[2])
      BY DEF Seen
    <2>1. k \in Epoch \X Nat /\ k # m
      BY <1>1
    <2>2. k[2] # m[2]
      BY <1>2, <2>1
    <2>3. Pin(k[2]).id = k[2] /\ Pin(m[2]).id = m[2]
      BY DEF Pin
    <2> QED
      BY <2>2, <2>3
  <1>10. \/ r.id - m[2] >= SeqBacktrack
         \/ \E s \in Seen(T, e) : s[2] + TimeBacktrack < Now
    <2>1. Pin(m[2]) \in PacketIdNet /\ Pin(m[2]).id = m[2] /\ Pin(m[2]).time = 0
      BY <1>2, PinType DEF Pin
    <2>2. Seen(T, e) \in History /\ Now \in Nat
      BY <1>1, SeenIsHistory DEF Now
    <2>3. Exact(r, Seen(T, e), Now) /\ r.time = 0 /\ \A s \in Seen(T, e) : s[1] # Pin(m[2])
      BY <1>8, <1>9 DEF WindowExact
    <2>4. \/ r.id - Pin(m[2]).id >= SeqBacktrack
          \/ \E s \in Seen(T, e) : s[1].time = r.time /\ s[1].id > Pin(m[2]).id /\ s[2] + TimeBacktrack < Now
      BY <1>2, <1>5, <1>8, <2>1, <2>2, <2>3, ExactRejects
    <2> QED
      BY <2>1, <2>4
  <1>11. r.id \in Nat /\ m[2] \in Nat /\ SeqBacktrack \in Nat /\ TimeBacktrack \in Nat
    BY <1>2, <1>8, PacketIdAssumption DEF PacketIdRec
  <1>12. r.id - m[2] >= SeqBacktrack
    BY <1>9, <1>10, <1>11 DEF Now
  <1>13. r.id # 0 /\ r.id >= m[2] + SeqBacktrack
    BY <1>2, <1>11, <1>12
  <1>14. <<e, r.id>> \in T
    BY <1>8, <1>13 DEF WindowExact
  <1> QED
    BY <1>13, <1>14

\* Receiving leaves the windows exact.
LEMMA DecryptExact ==
    ASSUME SeqBacktrack # 0, EpochInv, ExactInv, NEW p \in Peer, NEW m \in wire[Other(p)],
           openvpn_decrypt_aead(p, m[1], m[2])
    PROVE  WindowsExact(co'[p], taken'[p])
  <1> DEFINE e == m[1]
             c == co[p]
             d == SelectWindow(c, e)
             r == packet_id_reap_test(Window(d, e), Now)
             q == packet_id_add(r, Pin(m[2]), Now)
             a == WithWindow(d, e, q)
             b == [a EXCEPT !.decrypt.blocks = @ + 1]
             z == WithWindow(d, e, r)
  <1>1. /\ Sound(c) /\ TakenKept(c, taken[p]) /\ WindowsExact(c, taken[p])
        /\ taken \in [Peer -> SUBSET (Epoch \X Nat)] /\ co \in [Peer -> CryptoOptions]
        /\ taken[p] \in SUBSET (Epoch \X Nat)
    BY DEF EpochInv, EpochTypeOK, ExactInv
  <1>2. e \in Epoch \ {0} /\ m[2] \in Nat
    <2>1. Other(p) \in Peer
      BY DEF Other, Peer
    <2> QED
      BY <2>1 DEF EpochInv, EpochTypeOK, SentBehind
  <1>3. /\ epoch_lookup_decrypt_key(c, e).epoch = e
        /\ IF packet_id_test(r, Pin(m[2]))
           THEN co' = [co EXCEPT ![p] = b] /\ taken' = [taken EXCEPT ![p] = @ \cup {<<e, m[2]>>}]
           ELSE co' = [co EXCEPT ![p] = z] /\ taken' = taken
    BY DEF openvpn_decrypt_aead
  <1>4. Sound(d) /\ e \in {d.decrypt.epoch, d.retiring.epoch}
    BY <1>1, <1>2, <1>3, SelectKeeps
  <1>5. WindowsExact(d, taken[p])
    BY <1>1, <1>2, <1>3, SelectExact
  <1> HIDE DEF c, d, e
  <1>6. r \in PacketIdRec /\ WindowExact(r, e, taken[p])
    BY <1>1, <1>2, <1>4, <1>5, SelectedWindowExact
  <1> HIDE DEF r
  <1>7. CASE packet_id_test(r, Pin(m[2]))
    <2> DEFINE U == taken[p] \cup {<<e, m[2]>>}
    <2>1. co'[p] = b /\ taken'[p] = U
      BY <1>1, <1>3, <1>7
    <2>2. q \in PacketIdRec
      BY <1>2, <1>6, <1>7, AddKeeps
    <2>3. WindowExact(q, e, U)
      BY <1>1, <1>2, <1>6, <1>7, AddWindowExact
    <2>4. U \in SUBSET (Epoch \X Nat) /\ taken[p] \subseteq U
      BY <1>1, <1>2
    <2> HIDE DEF q, U
    <2>5. Sound(a) /\ WindowsExact(a, U)
      <3>1. Sound(a)
        BY <1>4, <2>2, WithWindowSound
      <3>2. WindowsExact(a, U)
        BY Zenon, <1>1, <1>4, <1>5, <2>2, <2>3, <2>4, WithWindowExact
      <3> QED
        BY <3>1, <3>2
    <2> HIDE DEF a
    <2>6. /\ b.decrypt.epoch = a.decrypt.epoch /\ b.retiring = a.retiring
          /\ b.rec = a.rec /\ b.retiring_rec = a.retiring_rec
      BY Zenon, <2>5, CountSound
    <2> HIDE DEF b
    <2> QED
      BY <2>1, <2>5, <2>6 DEF WindowsExact
  <1>8. CASE ~packet_id_test(r, Pin(m[2]))
    <2>1. co'[p] = z /\ taken'[p] = taken[p]
      BY <1>1, <1>3, <1>8
    <2>2. WindowsExact(z, taken[p])
      BY <1>1, <1>4, <1>5, <1>6, WithWindowExact
    <2> QED
      BY <2>1, <2>2
  <1> QED
    BY <1>7, <1>8

\* Every step leaves the windows of both peers exact.
LEMMA NextExactInv ==
    ASSUME SeqBacktrack # 0, EpochInv, ExactInv, EpochNext
    PROVE  ExactInv'
  <1>1. ASSUME NEW p \in Peer,
               \A y \in Peer : y # p => co'[y] = co[y] /\ taken'[y] = taken[y],
               WindowsExact(co'[p], taken'[p])
        PROVE  ExactInv'
    BY <1>1 DEF ExactInv
  <1>2. co \in [Peer -> CryptoOptions] /\ taken \in [Peer -> SUBSET (Epoch \X Nat)]
    BY DEF EpochInv, EpochTypeOK
  <1>3. ASSUME NEW p \in Peer, openvpn_encrypt_aead(p)
        PROVE  ExactInv'
    <2> DEFINE c == epoch_check_send_iterate(co[p])
               d == [c EXCEPT !.id = @ + 1, !.encrypt.blocks = @ + 1]
    <2>1. Sound(co[p]) /\ WindowsExact(co[p], taken[p])
      BY DEF EpochInv, ExactInv
    <2>2. Sound(c) /\ SameReceiver(co[p], c)
      BY <2>1, CheckSendSound
    <2>3. taken' = taken /\ co' = [co EXCEPT ![p] = IF CanWrite(c) THEN d ELSE c]
      BY <1>3 DEF openvpn_encrypt_aead
    <2> HIDE DEF c
    <2>4. CanWrite(c) => SameReceiver(c, d)
      BY Zenon, <2>2, WriteSound
    <2> HIDE DEF d
    <2>5. WindowsExact(IF CanWrite(c) THEN d ELSE c, taken[p])
      BY <2>1, <2>2, <2>4 DEF SameReceiver, WindowsExact
    <2> QED
      BY <1>1, <1>2, <2>3, <2>5
  <1>4. ASSUME NEW p \in Peer, NEW m \in wire[Other(p)], openvpn_decrypt_aead(p, m[1], m[2])
        PROVE  ExactInv'
    <2>1. \A y \in Peer : y # p => co'[y] = co[y] /\ taken'[y] = taken[y]
      BY <1>2, <1>4 DEF openvpn_decrypt_aead
    <2> QED
      BY <1>1, <1>4, <2>1, DecryptExact
  <1>5. ASSUME NEW p \in Peer, NEW m \in wire[Other(p)], AuthenticationFails(p, m[1])
        PROVE  ExactInv'
    <2> DEFINE e == m[1]
               c == co[p]
               f == [epoch_lookup_decrypt_key(c, e) EXCEPT !.fails = @ + 1]
               d == CASE e = c.decrypt.epoch -> [c EXCEPT !.decrypt = f]
                      [] e # c.decrypt.epoch /\ Past(c, e) -> [c EXCEPT !.retiring = f]
                      [] OTHER -> [c EXCEPT !.future[e - (c.decrypt.epoch + 1)] = f]
    <2>1. Sound(c) /\ WindowsExact(c, taken[p])
      BY DEF EpochInv, ExactInv
    <2>2. e \in Epoch
      <3>1. Other(p) \in Peer
        BY DEF Other, Peer
      <3> QED
        BY <3>1 DEF EpochInv, EpochTypeOK
    <2>3. /\ epoch_lookup_decrypt_key(c, e).epoch # 0
          /\ ~cipher_decrypt_verify_fail_exceeded(epoch_lookup_decrypt_key(c, e))
          /\ co' = [co EXCEPT ![p] = d] /\ taken' = taken
      BY <1>5 DEF AuthenticationFails
    <2>4. /\ d.decrypt.epoch = c.decrypt.epoch /\ d.retiring.epoch = c.retiring.epoch
          /\ d.rec = c.rec /\ d.retiring_rec = c.retiring_rec
      BY ZenonT(30), <2>1, <2>2, <2>3, FailSound
    <2> HIDE DEF c, d, e
    <2>5. WindowsExact(d, taken[p])
      BY <2>1, <2>4 DEF WindowsExact
    <2> QED
      BY <1>1, <1>2, <2>3, <2>5
  <1> QED
    BY <1>3, <1>4, <1>5 DEF EpochNext

\* The initial windows are exact.
LEMMA InitExactInv == EpochInit => ExactInv
  <1> SUFFICES ASSUME EpochInit, NEW p \in Peer PROVE WindowsExact(co[p], taken[p])
    BY DEF ExactInv
  <1>1. co[p].rec = InitRec /\ co[p].retiring_rec = InitRec
    BY InitSound DEF EpochInit
  <1> QED
    BY <1>1, NewWindowExact DEF WindowsExact

\* Across changes of keys no data packet is accepted twice and none in flight
\* is lost, with any replay window.  Without one (SeqBacktrack = 0, TCP) a
\* packet that is late is out of sequence.
THEOREM PacketsAreAcceptedOnce ==
    ASSUME SeqBacktrack # 0
    PROVE  EpochSpec => []AcceptedOnceAcrossEpochs
  <1>1. ExactInv /\ UNCHANGED keys => ExactInv'
    BY DEF ExactInv, keys
  <1>2. EpochInv /\ ExactInv /\ [EpochNext]_keys => ExactInv'
    BY <1>1, NextExactInv
  <1>3. EpochSpec => []ExactInv
    BY <1>2, InitExactInv, EpochInvariance, PTL DEF EpochSpec
  <1>4. EpochInv /\ ExactInv => InFlightIsAccepted
    BY ExactAccepts
  <1>5. NoReplayAcrossEpochs /\ InFlightIsAccepted => AcceptedOnceAcrossEpochs
    BY DEF AcceptedOnceAcrossEpochs
  <1> QED
    BY <1>3, <1>4, <1>5, EpochInvariance, NoReplayOverEpochs, PTL
=============================================================================
