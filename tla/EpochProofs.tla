----------------------------- MODULE EpochProofs -----------------------------
(***************************************************************************)
(* Proofs about EpochKeys for every number of future keys, every last      *)
(* epoch, every usage limit and every replay window: the keys stay in      *)
(* order, no nonce is used twice and no packet is accepted twice.          *)
(***************************************************************************)
EXTENDS EpochOpsProofs

\* The initial state satisfies the inductive invariant.
LEMMA InitEpochInv == EpochInit => EpochInv
  <1> SUFFICES ASSUME EpochInit PROVE EpochInv
    OBVIOUS
  <1>1. \A p \in Peer : Sound(co[p]) /\ wire[p] = {} /\ taken[p] = {}
    BY InitSound DEF EpochInit
  <1>2. EpochTypeOK
    BY InitSound DEF EpochInit, EpochTypeOK, Sound
  <1> QED
    BY <1>1, <1>2 DEF EpochInv, SentBehind, TakenKept

\* A step of peer p that leaves the other one alone preserves the invariant
\* if p's part of it does.
LEMMA OnePeerSteps ==
    ASSUME EpochInv, NEW p \in Peer, NEW c, NEW S \in SUBSET (Epoch \X Nat),
           NEW T \in SUBSET (Epoch \X Nat),
           co' = [co EXCEPT ![p] = c], wire' = [wire EXCEPT ![p] = S],
           taken' = [taken EXCEPT ![p] = T], damaged' \in Nat,
           Sound(c), SentBehind(c, S), TakenKept(c, T)
    PROVE  EpochInv'
  <1>1. EpochTypeOK'
    BY DEF EpochInv, EpochTypeOK, Sound
  <1>2. ASSUME NEW q \in Peer
        PROVE  Sound(co'[q]) /\ SentBehind(co'[q], wire'[q]) /\ TakenKept(co'[q], taken'[q])
    BY DEF EpochInv, EpochTypeOK
  <1> QED
    BY <1>1, <1>2 DEF EpochInv

\* Sending: the packet lies ahead of everything sent before it.
LEMMA EncryptStep ==
    ASSUME EpochInv, NEW p \in Peer, openvpn_encrypt_aead(p)
    PROVE  EpochInv' /\ FreshNonce
  <1> DEFINE c == epoch_check_send_iterate(co[p])
             d == [c EXCEPT !.id = @ + 1, !.encrypt.blocks = @ + 1]
  <1>1. /\ Sound(co[p]) /\ SentBehind(co[p], wire[p]) /\ TakenKept(co[p], taken[p])
        /\ wire \in [Peer -> SUBSET (Epoch \X Nat)] /\ taken \in [Peer -> SUBSET (Epoch \X Nat)]
        /\ co \in [Peer -> CryptoOptions] /\ damaged \in Nat
    BY DEF EpochInv, EpochTypeOK
  <1>2. /\ Sound(c)
        /\ c = co[p] \/ (c.encrypt.epoch = co[p].encrypt.epoch + 1 /\ c.id = 0)
        /\ SameReceiver(co[p], c)
    BY <1>1, CheckSendSound
  <1>3. UNCHANGED <<taken, damaged>>
    BY DEF openvpn_encrypt_aead
  <1>4. /\ co[p].encrypt.epoch \in Nat /\ co[p].id \in Nat /\ c.encrypt.epoch \in Nat /\ c.id \in Nat
        /\ c.encrypt.epoch \in Epoch /\ c.encrypt.epoch # 0
        /\ \A m \in wire[p] : m[1] \in Nat /\ m[2] \in Nat
    BY <1>1, <1>2, EpochAssumption, PacketIdAssumption DEF Sound, InOrder, CryptoOptions, KeyCtx, Epoch
  <1>5. CASE CanWrite(c)
    <2>1. /\ co' = [co EXCEPT ![p] = d]
          /\ wire' = [wire EXCEPT ![p] = @ \cup {<<c.encrypt.epoch, c.id + 1>>}]
      BY <1>5 DEF openvpn_encrypt_aead
    <2> HIDE DEF c
    <2>2. Sound(d) /\ d.encrypt.epoch = c.encrypt.epoch /\ d.id = c.id + 1 /\ SameReceiver(c, d)
      BY Zenon, <1>2, <1>5, WriteSound
    <2> HIDE DEF d
    <2>3. \A m \in wire[p] : m[1] < c.encrypt.epoch \/ (m[1] = c.encrypt.epoch /\ m[2] <= c.id)
      BY <1>1, <1>2, <1>4 DEF SentBehind
    <2>4. <<c.encrypt.epoch, c.id + 1>> \notin wire[p]
      BY <1>4, <2>3
    <2>5. co'[p] = d /\ \A q \in Peer : q # p => co'[q] = co[q]
      BY <1>1, <2>1
    <2>6. FreshNonce
      BY <2>2, <2>4, <2>5 DEF FreshNonce
    <2> DEFINE S == wire[p] \cup {<<c.encrypt.epoch, c.id + 1>>}
    <2>7. S \in SUBSET (Epoch \X Nat) /\ wire' = [wire EXCEPT ![p] = S]
      BY <1>1, <1>4, <2>1
    <2>8. SentBehind(d, S)
      BY <1>1, <1>4, <2>2, <2>3 DEF SentBehind
    <2>9. TakenKept(d, taken[p])
      BY <1>1, <1>2, <2>2 DEF TakenKept, SameReceiver
    <2>10. taken' = [taken EXCEPT ![p] = taken[p]] /\ taken[p] \in SUBSET (Epoch \X Nat) /\ damaged' \in Nat
      BY <1>1, <1>3
    <2> HIDE DEF S
    <2> QED
      BY Zenon, <2>1, <2>2, <2>6, <2>7, <2>8, <2>9, <2>10, OnePeerSteps
  <1>6. CASE ~CanWrite(c)
    <2>1. co' = [co EXCEPT ![p] = c] /\ wire' = wire
      BY <1>6 DEF openvpn_encrypt_aead
    <2>2. c = co[p]
      BY <1>2, <1>6, PacketIdAssumption DEF CanWrite
    <2>3. co' = co
      BY <1>1, <2>1, <2>2
    <2> QED
      BY <1>3, <2>1, <2>3 DEF EpochInv, EpochTypeOK, FreshNonce
  <1> QED
    BY <1>5, <1>6

\* Receiving: the windows keep what they have seen, and the packet if it is
\* accepted; a send key that follows the receive key is a later one.
LEMMA DecryptStep ==
    ASSUME EpochInv, NEW p \in Peer, NEW m \in wire[Other(p)], openvpn_decrypt_aead(p, m[1], m[2])
    PROVE  EpochInv' /\ FreshNonce
  <1> DEFINE e == m[1]
             c == co[p]
             d == SelectWindow(c, e)
             r == packet_id_reap_test(Window(d, e), Now)
             q == packet_id_add(r, Pin(m[2]), Now)
             a == WithWindow(d, e, q)
             b == [a EXCEPT !.decrypt.blocks = @ + 1]
             z == WithWindow(d, e, r)
  <1>1. /\ Sound(c) /\ SentBehind(c, wire[p]) /\ TakenKept(c, taken[p])
        /\ wire \in [Peer -> SUBSET (Epoch \X Nat)] /\ taken \in [Peer -> SUBSET (Epoch \X Nat)]
        /\ co \in [Peer -> CryptoOptions] /\ damaged \in Nat
    BY DEF EpochInv, EpochTypeOK
  <1>2. e \in Epoch \ {0} /\ m[2] \in Nat
    <2>1. Other(p) \in Peer
      BY DEF Other, Peer
    <2> QED
      BY <1>1, <2>1 DEF EpochInv, SentBehind
  <1>3. /\ epoch_lookup_decrypt_key(c, e).epoch = e
        /\ IF packet_id_test(r, Pin(m[2]))
           THEN co' = [co EXCEPT ![p] = b] /\ taken' = [taken EXCEPT ![p] = @ \cup {<<e, m[2]>>}]
           ELSE co' = [co EXCEPT ![p] = z] /\ taken' = taken
        /\ UNCHANGED <<wire, damaged>>
    BY DEF openvpn_decrypt_aead
  <1>4. /\ Sound(d) /\ TakenKept(d, taken[p])
        /\ e \in {d.decrypt.epoch, d.retiring.epoch}
        /\ \/ d.encrypt = c.encrypt /\ d.id = c.id
           \/ c.encrypt.epoch < d.encrypt.epoch /\ d.id = 0
    BY <1>1, <1>2, <1>3, SelectKeeps
  <1> HIDE DEF c, d, e
  <1>5. Window(d, e) \in PacketIdRec
    BY <1>4 DEF Window, Sound, CryptoOptions
  <1>6. r \in PacketIdRec /\ \A i \in Nat : Kept(Window(d, e), i) => Kept(r, i)
    BY <1>5, ReapKeeps
  <1> HIDE DEF r
  <1>7. ASSUME NEW x, x.encrypt = d.encrypt, x.id = d.id, co' = [co EXCEPT ![p] = x]
        PROVE  SentBehind(x, wire[p]) /\ FreshNonce
    <2>1. \A h \in wire[p] : h[1] \in Nat /\ h[2] \in Nat
      BY <1>1, EpochAssumption DEF Epoch
    <2>2. c.encrypt.epoch \in Nat /\ d.encrypt.epoch \in Nat
      BY <1>1, <1>4, EpochAssumption DEF Sound, CryptoOptions, KeyCtx, Epoch
    <2>3. SentBehind(x, wire[p])
      BY <1>1, <1>4, <1>7, <2>1, <2>2 DEF SentBehind
    <2>4. co'[p] = x /\ \A y \in Peer : y # p => co'[y] = co[y]
      BY <1>1, <1>7
    <2>5. (x.encrypt = c.encrypt /\ x.id = c.id) \/ <<x.encrypt.epoch, x.id>> \notin wire[p]
      <3>1. ASSUME c.encrypt.epoch < d.encrypt.epoch, <<x.encrypt.epoch, x.id>> \in wire[p]
            PROVE  FALSE
        <4>1. x.encrypt.epoch <= c.encrypt.epoch
          BY <1>1, <2>1, <2>2, <3>1 DEF SentBehind
        <4> QED
          BY <1>7, <2>2, <3>1, <4>1
      <3> QED
        BY <1>4, <1>7, <3>1
    <2> QED
      BY <2>3, <2>4, <2>5 DEF FreshNonce, c
  <1>8. wire' = [wire EXCEPT ![p] = wire[p]] /\ wire[p] \in SUBSET (Epoch \X Nat) /\ damaged' \in Nat
    BY <1>1, <1>3
  <1>9. CASE packet_id_test(r, Pin(m[2]))
    <2>1. co' = [co EXCEPT ![p] = b] /\ taken' = [taken EXCEPT ![p] = taken[p] \cup {<<e, m[2]>>}]
      BY <1>3, <1>9
    <2>2. q \in PacketIdRec /\ Kept(q, m[2]) /\ \A i \in Nat : Kept(r, i) => Kept(q, i)
      BY <1>2, <1>6, <1>9, AddKeeps
    <2> HIDE DEF q
    <2>3. /\ Sound(a) /\ a.encrypt = d.encrypt /\ a.id = d.id
          /\ a.decrypt = d.decrypt /\ a.retiring = d.retiring
          /\ a.rec = IF e = d.decrypt.epoch THEN q ELSE d.rec
          /\ a.retiring_rec = IF e = d.decrypt.epoch THEN d.retiring_rec ELSE q
      BY <1>4, <2>2, WithWindowSound
    <2>4. taken[p] \in SUBSET (Epoch \X Nat) /\ \A i \in Nat : Kept(Window(d, e), i) => Kept(q, i)
      BY <1>1, <1>6, <2>2
    <2>5. TakenKept(a, taken[p])
      BY <1>4, <2>2, <2>4, WithWindowKeeps
    <2> HIDE DEF a
    <2>6. /\ Sound(b) /\ b.encrypt = a.encrypt /\ b.id = a.id
          /\ b.decrypt.epoch = a.decrypt.epoch /\ b.retiring = a.retiring
          /\ b.rec = a.rec /\ b.retiring_rec = a.retiring_rec
      BY <2>3, CountSound
    <2> HIDE DEF b
    <2> DEFINE T == taken[p] \cup {<<e, m[2]>>}
    <2>7. d.retiring.epoch \in Nat /\ d.decrypt.epoch \in Nat /\ d.retiring.epoch < d.decrypt.epoch
      BY <1>4, EpochAssumption DEF Sound, InOrder, CryptoOptions, KeyCtx, Epoch
    <2>8. TakenKept(b, {<<e, m[2]>>})
      BY <1>2, <1>4, <2>2, <2>3, <2>6, <2>7 DEF TakenKept
    <2>9. TakenKept(b, taken[p])
      BY <2>5, <2>6 DEF TakenKept
    <2>10. TakenKept(b, T) /\ T \in SUBSET (Epoch \X Nat)
      BY <1>2, <2>4, <2>8, <2>9 DEF TakenKept
    <2>11. SentBehind(b, wire[p]) /\ FreshNonce
      BY Zenon, <1>7, <2>1, <2>3, <2>6
    <2> HIDE DEF T
    <2>12. taken' = [taken EXCEPT ![p] = T]
      BY <2>1 DEF T
    <2> QED
      BY Zenon, <1>8, <2>1, <2>6, <2>10, <2>11, <2>12, OnePeerSteps
  <1>10. CASE ~packet_id_test(r, Pin(m[2]))
    <2>1. co' = [co EXCEPT ![p] = z] /\ taken' = [taken EXCEPT ![p] = taken[p]]
          /\ taken[p] \in SUBSET (Epoch \X Nat)
      BY <1>1, <1>3, <1>10
    <2>2. Sound(z) /\ z.encrypt = d.encrypt /\ z.id = d.id
      BY <1>4, <1>6, WithWindowSound
    <2>3. TakenKept(z, taken[p])
      BY <1>4, <1>6, <2>1, WithWindowKeeps
    <2> HIDE DEF z
    <2>4. SentBehind(z, wire[p]) /\ FreshNonce
      BY Zenon, <1>7, <2>1, <2>2
    <2> QED
      BY Zenon, <1>8, <2>1, <2>2, <2>3, <2>4, OnePeerSteps
  <1> QED
    BY <1>9, <1>10

\* A packet that fails to authenticate changes a counter of its key.
LEMMA FailStep ==
    ASSUME EpochInv, NEW p \in Peer, NEW m \in wire[Other(p)], AuthenticationFails(p, m[1])
    PROVE  EpochInv' /\ FreshNonce
  <1> DEFINE e == m[1]
             c == co[p]
             f == [epoch_lookup_decrypt_key(c, e) EXCEPT !.fails = @ + 1]
             d == CASE e = c.decrypt.epoch -> [c EXCEPT !.decrypt = f]
                    [] e # c.decrypt.epoch /\ Past(c, e) -> [c EXCEPT !.retiring = f]
                    [] OTHER -> [c EXCEPT !.future[e - (c.decrypt.epoch + 1)] = f]
  <1>1. /\ Sound(c) /\ SentBehind(c, wire[p]) /\ TakenKept(c, taken[p])
        /\ wire \in [Peer -> SUBSET (Epoch \X Nat)] /\ taken \in [Peer -> SUBSET (Epoch \X Nat)]
        /\ co \in [Peer -> CryptoOptions] /\ damaged \in Nat
    BY DEF EpochInv, EpochTypeOK
  <1>2. e \in Epoch
    <2>1. Other(p) \in Peer
      BY DEF Other, Peer
    <2> QED
      BY <1>1, <2>1
  <1>3. /\ epoch_lookup_decrypt_key(c, e).epoch # 0
        /\ ~cipher_decrypt_verify_fail_exceeded(epoch_lookup_decrypt_key(c, e))
        /\ co' = [co EXCEPT ![p] = d] /\ damaged' = damaged + 1
        /\ UNCHANGED <<wire, taken>>
    BY DEF AuthenticationFails
  <1>4. /\ Sound(d) /\ d.encrypt = c.encrypt /\ d.id = c.id
        /\ d.decrypt.epoch = c.decrypt.epoch /\ d.retiring.epoch = c.retiring.epoch
        /\ d.rec = c.rec /\ d.retiring_rec = c.retiring_rec
    BY Zenon, <1>1, <1>2, <1>3, FailSound
  <1> HIDE DEF c, d, e
  <1>5. SentBehind(d, wire[p]) /\ TakenKept(d, taken[p])
    BY <1>1, <1>4 DEF SentBehind, TakenKept
  <1>6. /\ wire' = [wire EXCEPT ![p] = wire[p]] /\ wire[p] \in SUBSET (Epoch \X Nat)
        /\ taken' = [taken EXCEPT ![p] = taken[p]] /\ taken[p] \in SUBSET (Epoch \X Nat)
        /\ damaged' \in Nat
    BY <1>1, <1>3
  <1>7. EpochInv'
    BY Zenon, <1>3, <1>4, <1>5, <1>6, OnePeerSteps
  <1>8. co'[p] = d /\ \A y \in Peer : y # p => co'[y] = co[y]
    BY <1>1, <1>3
  <1>9. FreshNonce
    BY <1>4, <1>8 DEF FreshNonce, c
  <1> QED
    BY <1>7, <1>9

\* Every step preserves the invariant and uses a fresh nonce.
LEMMA NextEpochInv ==
    ASSUME EpochInv, EpochNext
    PROVE  EpochInv' /\ FreshNonce
  BY EncryptStep, DecryptStep, FailStep DEF EpochNext

LEMMA EpochInvariance == EpochSpec => []EpochInv
  <1>1. EpochInv /\ UNCHANGED keys => EpochInv'
    BY DEF EpochInv, EpochTypeOK, keys
  <1> QED
    BY <1>1, InitEpochInv, NextEpochInv, PTL DEF EpochSpec

-----------------------------------------------------------------------------
\* The keys of both peers are in order and no ASSERT of crypto_epoch.c fails,
\* for every number of future keys and up to the last epoch.
THEOREM KeysStayInOrder == EpochSpec => []KeysInOrder
  <1>1. EpochInv => KeysInOrder
    BY DEF EpochInv, KeysInOrder, Sound
  <1> QED
    BY <1>1, EpochInvariance, PTL

\* No key is used twice with the same packet id, whatever makes the send key
\* change.
THEOREM NoncesAreFresh == EpochSpec => NoNonceReuse
  <1>1. EpochInv /\ [EpochNext]_keys => [FreshNonce]_keys
    BY NextEpochInv
  <1> QED
    BY <1>1, EpochInvariance, PTL DEF EpochSpec, NoNonceReuse

\* No packet is accepted twice across changes of keys.
THEOREM NoReplayOverEpochs == EpochSpec => []NoReplayAcrossEpochs
  <1>1. ASSUME EpochInv, NEW p \in Peer, NEW m \in taken[p]
        PROVE  ~Accepts(co[p], m[1], m[2])
    <2> DEFINE c == co[p]
               e == m[1]
    <2>1. /\ Sound(c) /\ TakenKept(c, taken[p]) /\ e \in Epoch /\ m[2] \in Nat
          /\ taken[p] \in SUBSET (Epoch \X Nat)
      BY <1>1 DEF EpochInv, EpochTypeOK
    <2>2. e # 0
      BY <2>1 DEF TakenKept
    <2> SUFFICES ASSUME Accepts(c, e, m[2]) PROVE FALSE
      OBVIOUS
    <2> DEFINE d == SelectWindow(c, e)
               r == packet_id_reap_test(Window(d, e), Now)
    <2>3. epoch_lookup_decrypt_key(c, e).epoch = e /\ packet_id_test(r, Pin(m[2]))
      BY DEF Accepts
    <2>4. /\ Sound(d) /\ TakenKept(d, taken[p])
          /\ e \in {d.decrypt.epoch, d.retiring.epoch}
      BY <2>1, <2>2, <2>3, SelectKeeps
    <2> HIDE DEF c, d, e
    <2>5. Window(d, e) \in PacketIdRec /\ Kept(Window(d, e), m[2])
      BY <2>4 DEF Window, Sound, CryptoOptions, TakenKept, e
    <2>6. r \in PacketIdRec /\ Kept(r, m[2])
      BY <2>1, <2>5, ReapKeeps
    <2> HIDE DEF r
    <2> QED
      BY <2>1, <2>3, <2>6, KeptIsRejected
  <1>2. EpochInv => NoReplayAcrossEpochs
    BY <1>1 DEF NoReplayAcrossEpochs
  <1> QED
    BY <1>2, EpochInvariance, PTL
=============================================================================
