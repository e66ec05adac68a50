--------------------------- MODULE EpochOpsProofs ---------------------------
(***************************************************************************)
(* Lemmas about the operations of EpochKeys on one struct crypto_options:  *)
(* what they keep in order, and what they do to the replay windows.        *)
(* What they need to know of a window are the lemmas of PacketIdProofs.    *)
(***************************************************************************)
EXTENDS EpochKeys, PacketIdProofs

\* The key options of a peer whose epochs have not run out.
Sound(c) ==
    /\ c \in CryptoOptions
    /\ c.ok
    /\ InOrder(c)
    /\ c.decrypt.epoch \in 1..(EpochMax - FutureCount - 1)

\* d has the receive side of c.
SameReceiver(c, d) ==
    /\ d.decrypt = c.decrypt /\ d.retiring = c.retiring
    /\ d.rec = c.rec /\ d.retiring_rec = c.retiring_rec

\* A fresh key is a key context.
LEMMA NewKeyType == ASSUME NEW e \in Epoch PROVE NewKey(e) \in KeyCtx /\ NewKey(e).epoch = e
  BY EpochAssumption DEF NewKey, KeyCtx

\* free_key_ctx takes the epoch away and leaves the rest a key context.
LEMMA FreeKeyType ==
    ASSUME NEW k \in KeyCtx
    PROVE  free_key_ctx(k) \in KeyCtx /\ free_key_ctx(k).epoch = 0
  <1>1. 0 \in Epoch
    BY EpochAssumption DEF Epoch
  <1>2. free_key_ctx(k) \in KeyCtx
    BY Zenon, <1>1 DEF free_key_ctx, KeyCtx
  <1>3. free_key_ctx(k).epoch = 0
    BY <1>1 DEF free_key_ctx, KeyCtx
  <1> QED
    BY <1>2, <1>3

\* An empty window is a window.
LEMMA InitRecType == InitRec \in PacketIdRec
  <1>1. EmptyItems \in [Index -> Nat]
    BY DEF EmptyItems, SEQ_UNSEEN
  <1> QED
    BY <1>1, PacketIdAssumption DEF InitRec, PacketIdRec

-----------------------------------------------------------------------------
\* epoch_generate_future_receive_keys fills the array up again when n of its
\* keys have been passed, the key at n - 1 or an earlier one being the one in
\* use: no ASSERT fails, and no key wraps around.
LEMMA GenerateFills ==
    ASSUME NEW c \in CryptoOptions, NEW n \in 1..FutureCount, c.ok,
           c.decrypt.epoch \in 1..(EpochMax - FutureCount - 1),
           c.key_recv = c.decrypt.epoch + FutureCount - n,
           \A i \in Slot : i < n => c.future[i].epoch < c.decrypt.epoch,
           \A i \in Slot : i >= n => c.future[i].epoch = c.decrypt.epoch + 1 + i - n
    PROVE  LET g == epoch_generate_future_receive_keys(c)
           IN  /\ g \in CryptoOptions /\ g.ok
               /\ \A i \in Slot : g.future[i].epoch = c.decrypt.epoch + 1 + i
               /\ g.key_recv = c.decrypt.epoch + FutureCount
               /\ g.encrypt = c.encrypt /\ g.key_send = c.key_send /\ g.id = c.id
               /\ SameReceiver(c, g)
  <1> DEFINE cur   == c.decrypt.epoch
             freed == FreedFuture(c)
             m     == U16(U16(cur + FutureCount) - c.key_recv)
             keep  == FutureCount - m
             new   == [i \in Slot |-> IF i < keep THEN freed[i + m]
                                      ELSE NewKey(U16(c.key_recv + i - keep + 1))]
             g     == epoch_generate_future_receive_keys(c)
             ok    == /\ c.ok
                      /\ c.key_recv \in {1, c.future[FutureCount - 1].epoch, cur}
                      /\ c.key_recv \in {freed[FutureCount - 1].epoch, cur}
                      /\ m <= FutureCount
                      /\ \A i \in Slot : i < m => freed[i].epoch = 0
                      /\ \A i \in Slot : new[i].epoch > 0
  <1>1. g = [c EXCEPT !.ok = ok, !.future = new, !.key_recv = U16(@ + m)]
    BY DEF epoch_generate_future_receive_keys
  <1>2. /\ FutureCount \in Nat \ {0} /\ EpochMax \in Nat /\ cur \in Nat /\ n \in Nat
        /\ cur >= 1 /\ cur + FutureCount < EpochMax /\ n <= FutureCount /\ n >= 1
    BY EpochAssumption
  <1>3. ASSUME NEW x \in Nat, x <= EpochMax
        PROVE  U16(x) = x
    BY <1>2, <1>3 DEF U16
  <1>4. U16(cur + FutureCount) = cur + FutureCount
    BY <1>2, <1>3
  <1>5. m = n
    BY <1>2, <1>3, <1>4
  <1>6. U16(c.key_recv + m) = cur + FutureCount
    BY <1>2, <1>3, <1>5
  <1>7. c.future \in [Slot -> KeyCtx]
    BY DEF CryptoOptions
  <1>8. freed \in [Slot -> KeyCtx]
    BY <1>7, FreeKeyType DEF FreedFuture
  <1>9. \A i \in Slot : i < n => freed[i].epoch = 0
    <2>1. \A i \in Slot : c.future[i].epoch \in Nat
      BY <1>2, <1>7 DEF KeyCtx, Epoch
    <2> QED
      BY <1>7, <2>1, FreeKeyType DEF FreedFuture
  <1>10. \A i \in Slot : i >= n => freed[i] = c.future[i]
    BY <1>2, <1>7 DEF FreedFuture, Slot
  <1> HIDE DEF freed, m, cur
  <1>11. ASSUME NEW i \in Slot
         PROVE  new[i] \in KeyCtx /\ new[i].epoch = cur + 1 + i
    <2>1. CASE i < keep
      <3>1. i + n \in Slot /\ i + n >= n /\ new[i] = freed[i + n]
        BY <1>2, <1>5, <2>1 DEF Slot
      <3> QED
        <4>1. new[i] = c.future[i + n] /\ c.future[i + n].epoch = cur + 1 + (i + n) - n
          BY <1>10, <3>1 DEF cur
        <4> QED
          BY <1>2, <1>7, <3>1, <4>1 DEF Slot
    <2>2. CASE ~(i < keep)
      <3>1. c.key_recv + i - keep + 1 = cur + 1 + i /\ cur + 1 + i \in Nat /\ cur + 1 + i <= EpochMax
        BY <1>2, <1>5 DEF Slot, cur
      <3>2. new[i] = NewKey(cur + 1 + i)
        BY <1>3, <2>2, <3>1
      <3> QED
        BY <3>1, <3>2, NewKeyType DEF Epoch
    <2> QED
      BY <2>1, <2>2
  <1>12. new \in [Slot -> KeyCtx] /\ \A i \in Slot : new[i].epoch = cur + 1 + i
    BY <1>11
  <1> HIDE DEF new
  <1>13. ok
    <2>1. FutureCount - 1 \in Slot
      BY <1>2 DEF Slot
    <2>2. c.key_recv \in {freed[FutureCount - 1].epoch, cur} /\ c.key_recv \in {c.future[FutureCount - 1].epoch, cur}
      BY <1>2, <1>10, <2>1 DEF Slot, cur
    <2>3. \A i \in Slot : new[i].epoch > 0
      BY <1>2, <1>12 DEF Slot
    <2> QED
      BY <1>2, <1>5, <1>9, <2>2, <2>3
  <1> HIDE DEF ok
  <1>14. cur + FutureCount \in Epoch
    BY <1>2 DEF Epoch
  <1>15. g = [c EXCEPT !.ok = ok, !.future = new, !.key_recv = cur + FutureCount]
    BY Zenon, <1>1, <1>6 DEF CryptoOptions
  <1> HIDE DEF g
  <1>16. /\ g \in CryptoOptions /\ g.ok /\ g.future = new /\ g.key_recv = cur + FutureCount
         /\ g.encrypt = c.encrypt /\ g.key_send = c.key_send /\ g.id = c.id
         /\ g.decrypt = c.decrypt /\ g.retiring = c.retiring
         /\ g.rec = c.rec /\ g.retiring_rec = c.retiring_rec
    BY Zenon, <1>12, <1>13, <1>14, <1>15 DEF CryptoOptions
  <1> QED
    BY <1>12, <1>16 DEF g, cur, SameReceiver

\* The first keys are sound (epoch_init_key_ctx).
LEMMA InitSound ==
    /\ Sound(epoch_init_key_ctx)
    /\ epoch_init_key_ctx.encrypt.epoch = 1 /\ epoch_init_key_ctx.id = 0
    /\ epoch_init_key_ctx.rec = InitRec /\ epoch_init_key_ctx.retiring_rec = InitRec
  <1> DEFINE f == [i \in Slot |-> NewKey(0)]
             c == [encrypt |-> NewKey(1), decrypt |-> NewKey(1), retiring |-> NewKey(0),
                   future |-> f, key_send |-> 1, key_recv |-> 1, id |-> 0,
                   rec |-> InitRec, retiring_rec |-> InitRec, ok |-> TRUE]
  <1>1. 0 \in Epoch /\ 1 \in Epoch /\ FutureCount \in 1..FutureCount /\ FutureCount \in Nat
        /\ EpochMax \in Nat /\ EpochMax > FutureCount + 1
    BY EpochAssumption DEF Epoch
  <1>2. NewKey(0) \in KeyCtx /\ NewKey(1) \in KeyCtx /\ NewKey(0).epoch = 0 /\ NewKey(1).epoch = 1
    BY <1>1, NewKeyType
  <1>3. f \in [Slot -> KeyCtx] /\ \A i \in Slot : f[i].epoch = 0
    BY <1>2
  <1>4. 0 \in 0..PacketIdMax
    BY PacketIdAssumption
  <1> HIDE DEF f
  <1>5. /\ c \in CryptoOptions /\ c.ok /\ c.decrypt.epoch = 1 /\ c.key_recv = 1 /\ c.future = f
        /\ c.encrypt.epoch = 1 /\ c.key_send = 1 /\ c.id = 0 /\ c.retiring.epoch = 0
        /\ c.rec = InitRec /\ c.retiring_rec = InitRec
    BY <1>1, <1>2, <1>3, <1>4, InitRecType DEF CryptoOptions
  <1>6. epoch_init_key_ctx = epoch_generate_future_receive_keys(c)
    BY DEF epoch_init_key_ctx, f
  <1> HIDE DEF c
  <1>7. /\ \A i \in Slot : i < FutureCount => c.future[i].epoch < c.decrypt.epoch
        /\ \A i \in Slot : i >= FutureCount => c.future[i].epoch = c.decrypt.epoch + 1 + i - FutureCount
        /\ c.key_recv = c.decrypt.epoch + FutureCount - FutureCount
        /\ c.decrypt.epoch \in 1..(EpochMax - FutureCount - 1)
    BY <1>1, <1>3, <1>5 DEF Slot
  <1> DEFINE g == epoch_generate_future_receive_keys(c)
  <1>8. /\ g \in CryptoOptions /\ g.ok
        /\ \A i \in Slot : g.future[i].epoch = c.decrypt.epoch + 1 + i
        /\ g.key_recv = c.decrypt.epoch + FutureCount
        /\ g.encrypt = c.encrypt /\ g.key_send = c.key_send /\ g.id = c.id
        /\ SameReceiver(c, g)
    BY <1>1, <1>5, <1>7, GenerateFills
  <1> HIDE DEF g
  <1> QED
    BY <1>5, <1>6, <1>7, <1>8 DEF g, Sound, InOrder, SameReceiver

-----------------------------------------------------------------------------
\* epoch_init_send_key_ctx starts a key that is not the one before it.
LEMMA SendKeyStarts ==
    ASSUME NEW c \in CryptoOptions, c.ok, c.encrypt.epoch # c.key_send
    PROVE  LET d == epoch_init_send_key_ctx(c)
           IN  /\ d \in CryptoOptions /\ d.ok
               /\ d.encrypt.epoch = c.key_send /\ d.key_send = c.key_send /\ d.id = 0
               /\ d.future = c.future /\ d.key_recv = c.key_recv
               /\ SameReceiver(c, d)
  <1> DEFINE k == NewKey(c.key_send)
             d == epoch_init_send_key_ctx(c)
  <1>1. k \in KeyCtx /\ k.epoch = c.key_send
    BY NewKeyType DEF CryptoOptions
  <1>2. 0 \in 0..PacketIdMax
    BY PacketIdAssumption
  <1> HIDE DEF k
  <1>3. d = [c EXCEPT !.ok = TRUE, !.encrypt = k, !.id = 0]
    BY Zenon DEF epoch_init_send_key_ctx, k, CryptoOptions
  <1> HIDE DEF d
  <1> QED
    BY Zenon, <1>1, <1>2, <1>3 DEF d, CryptoOptions, SameReceiver

\* epoch_iterate_send_key moves to the key of the next epoch.
LEMMA IterateSound ==
    ASSUME NEW c, Sound(c), c.key_send < EpochMax
    PROVE  LET d == epoch_iterate_send_key(c)
           IN  /\ Sound(d)
               /\ d.encrypt.epoch = c.encrypt.epoch + 1 /\ d.id = 0
               /\ SameReceiver(c, d)
  <1> DEFINE k == free_key_ctx(c.encrypt)
             b == [c EXCEPT !.ok = @ /\ c.key_send < EpochMax, !.key_send = U16(@ + 1), !.encrypt = k]
             d == epoch_init_send_key_ctx(b)
  <1>1. epoch_iterate_send_key(c) = d
    BY DEF epoch_iterate_send_key
  <1>2. /\ c \in CryptoOptions /\ c.ok /\ InOrder(c) /\ EpochMax \in Nat
        /\ c.key_send \in Epoch /\ c.encrypt \in KeyCtx
        /\ c.decrypt.epoch \in 1..(EpochMax - FutureCount - 1)
    BY EpochAssumption DEF Sound, CryptoOptions
  <1>3. U16(c.key_send + 1) = c.key_send + 1 /\ c.key_send + 1 \in Epoch
    BY <1>2 DEF U16, Epoch
  <1>4. k \in KeyCtx /\ k.epoch = 0
    BY <1>2, FreeKeyType
  <1>5. b = [c EXCEPT !.ok = TRUE, !.key_send = c.key_send + 1, !.encrypt = k]
    BY Zenon, <1>2, <1>3 DEF CryptoOptions
  <1> HIDE DEF k, b
  <1>6. /\ b \in CryptoOptions /\ b.ok /\ b.encrypt = k /\ b.key_send = c.key_send + 1
        /\ b.future = c.future /\ b.key_recv = c.key_recv /\ SameReceiver(c, b)
    BY Zenon, <1>2, <1>3, <1>4, <1>5 DEF CryptoOptions, SameReceiver
  <1>7. b.encrypt.epoch # b.key_send
    BY <1>2, <1>4, <1>6 DEF Epoch
  <1>8. /\ d \in CryptoOptions /\ d.ok
        /\ d.encrypt.epoch = b.key_send /\ d.key_send = b.key_send /\ d.id = 0
        /\ d.future = b.future /\ d.key_recv = b.key_recv
        /\ SameReceiver(b, d)
    BY <1>6, <1>7, SendKeyStarts
  <1> HIDE DEF d
  <1>9. InOrder(d)
    BY <1>2, <1>6, <1>8, EpochAssumption DEF InOrder, SameReceiver, Epoch
  <1> QED
    BY <1>1, <1>2, <1>6, <1>8, <1>9 DEF d, Sound, InOrder, SameReceiver

\* epoch_check_send_iterate keeps the send key or moves on by one epoch, with
\* the packet ids starting over.
LEMMA CheckSendSound ==
    ASSUME NEW c, Sound(c)
    PROVE  LET d == epoch_check_send_iterate(c)
           IN  /\ Sound(d)
               /\ d = c \/ (d.encrypt.epoch = c.encrypt.epoch + 1 /\ d.id = 0)
               /\ SameReceiver(c, d)
  <1>1. CASE c.key_send = EpochMax
    BY <1>1 DEF epoch_check_send_iterate, SameReceiver
  <1>2. CASE c.key_send # EpochMax
    <2> DEFINE i == epoch_iterate_send_key(c)
    <2>1. c.key_send < EpochMax /\ PacketIdMax # 0
      BY <1>2, EpochAssumption, PacketIdAssumption DEF Sound, CryptoOptions, Epoch
    <2>2. Sound(i) /\ i.encrypt.epoch = c.encrypt.epoch + 1 /\ i.id = 0 /\ SameReceiver(c, i)
      BY <2>1, IterateSound
    <2>3. epoch_check_send_iterate(c) \in {c, i}
      BY <1>2, <2>1, <2>2 DEF epoch_check_send_iterate
    <2> HIDE DEF i
    <2> QED
      BY <2>2, <2>3 DEF SameReceiver
  <1> QED
    BY <1>1, <1>2

\* When the receive key moves to epoch e, the send key is of epoch e or a
\* later one, and it is another key if its packet ids start over.
LEMMA FollowSendSound ==
    ASSUME NEW c, Sound(c), NEW e \in Epoch
    PROVE  LET d == FollowSend(c, e)
           IN  /\ d \in CryptoOptions /\ d.ok
               /\ d.encrypt.epoch = d.key_send /\ e <= d.key_send
               /\ d.future = c.future /\ d.key_recv = c.key_recv
               /\ SameReceiver(c, d)
               /\ \/ d.encrypt = c.encrypt /\ d.id = c.id
                  \/ c.encrypt.epoch < d.encrypt.epoch /\ d.id = 0
  <1>1. /\ c \in CryptoOptions /\ c.ok /\ EpochMax \in Nat /\ c.encrypt.epoch = c.key_send
        /\ c.key_send \in Nat /\ c.encrypt \in KeyCtx /\ e \in Nat
    BY EpochAssumption DEF Sound, InOrder, CryptoOptions, Epoch
  <1>2. CASE ~(c.encrypt.epoch < e)
    BY <1>1, <1>2 DEF FollowSend, SameReceiver
  <1>3. CASE c.encrypt.epoch < e
    <2> DEFINE k == free_key_ctx(c.encrypt)
               b == [c EXCEPT !.encrypt = k, !.key_send = e]
               d == epoch_init_send_key_ctx(b)
    <2>1. k \in KeyCtx /\ k.epoch = 0
      BY <1>1, FreeKeyType
    <2>2. FollowSend(c, e) = d
      BY <1>1, <1>3 DEF FollowSend
    <2> HIDE DEF k
    <2>3. /\ b \in CryptoOptions /\ b.ok /\ b.encrypt = k /\ b.key_send = e
          /\ b.future = c.future /\ b.key_recv = c.key_recv /\ SameReceiver(c, b)
      BY Zenon, <1>1, <2>1 DEF CryptoOptions, SameReceiver
    <2> HIDE DEF b
    <2>4. b.encrypt.epoch # b.key_send
      BY <1>1, <1>3, <2>1, <2>3
    <2>5. /\ d \in CryptoOptions /\ d.ok
          /\ d.encrypt.epoch = b.key_send /\ d.key_send = b.key_send /\ d.id = 0
          /\ d.future = b.future /\ d.key_recv = b.key_recv
          /\ SameReceiver(b, d)
      BY <2>3, <2>4, SendKeyStarts
    <2> HIDE DEF d
    <2> QED
      BY <1>1, <1>3, <2>2, <2>3, <2>5 DEF SameReceiver
  <1> QED
    BY <1>2, <1>3

\* epoch_replace_update_recv_key makes the key of a later epoch e the receive
\* key, retires the one before it together with its window, and leaves the
\* keys in order.
LEMMA ReplaceSound ==
    ASSUME NEW c, Sound(c), NEW e \in Epoch, Ahead(c, e)
    PROVE  LET d == epoch_replace_update_recv_key(c, e)
           IN  /\ Sound(d)
               /\ d.decrypt.epoch = e /\ d.retiring.epoch = c.decrypt.epoch
               /\ d.rec = InitRec /\ d.retiring_rec = c.rec
               /\ \/ d.encrypt = c.encrypt /\ d.id = c.id
                  \/ c.encrypt.epoch < d.encrypt.epoch /\ d.id = 0
  <1> DEFINE n     == e - c.decrypt.epoch
             found == {i \in Slot : c.future[i].epoch = e}
             f     == FollowSend(c, e)
             v     == packet_id_move_recv(f)
             u     == [v.future EXCEPT ![n - 1] = NewKey(0)]
             w     == [v EXCEPT !.retiring = c.decrypt, !.decrypt = c.future[n - 1], !.future = u]
             d     == epoch_generate_future_receive_keys(w)
  <1>1. /\ c \in CryptoOptions /\ c.ok /\ InOrder(c) /\ EpochMax \in Nat /\ FutureCount \in Nat
        /\ c.decrypt \in KeyCtx /\ c.future \in [Slot -> KeyCtx] /\ c.rec \in PacketIdRec
        /\ c.decrypt.epoch \in 1..(EpochMax - FutureCount - 1) /\ e \in Nat /\ e > c.decrypt.epoch
        /\ e <= c.decrypt.epoch + FutureCount /\ e <= EpochMax - FutureCount - 1
    BY EpochAssumption DEF Sound, CryptoOptions, Epoch, Ahead
  <1>2. /\ n \in 1..FutureCount /\ n - 1 \in Slot /\ c.future[n - 1].epoch = e
        /\ \A i \in Slot : c.future[i].epoch = c.decrypt.epoch + 1 + i
    <2>1. n \in 1..FutureCount /\ n - 1 \in Slot /\ c.decrypt.epoch + 1 + (n - 1) = e
      BY <1>1 DEF Slot
    <2>2. \A i \in Slot : c.future[i].epoch = c.decrypt.epoch + 1 + i
      BY <1>1 DEF InOrder
    <2> QED
      BY <2>1, <2>2
  <1>3. found = {n - 1}
    <2>1. ASSUME NEW i \in Slot, c.future[i].epoch = e
          PROVE  i = n - 1
      <3>1. c.decrypt.epoch + 1 + i = e
        BY <1>2, <2>1
      <3>2. i \in Nat /\ c.decrypt.epoch \in Nat
        BY <1>1 DEF Slot
      <3> QED
        BY <1>1, <3>1, <3>2
    <2> QED
      BY <1>2, <2>1
  <1> DEFINE fki == CHOOSE i \in found : \A j \in found : i <= j
  <1>4. fki = n - 1
    BY <1>2, <1>3 DEF Slot
  <1>5. /\ f \in CryptoOptions /\ f.ok
        /\ f.encrypt.epoch = f.key_send /\ e <= f.key_send
        /\ f.future = c.future /\ f.key_recv = c.key_recv
        /\ SameReceiver(c, f)
        /\ \/ f.encrypt = c.encrypt /\ f.id = c.id
           \/ c.encrypt.epoch < f.encrypt.epoch /\ f.id = 0
    BY FollowSendSound
  <1> HIDE DEF f
  <1>6. /\ v \in CryptoOptions /\ v.ok /\ v.encrypt = f.encrypt /\ v.key_send = f.key_send /\ v.id = f.id
        /\ v.future = c.future /\ v.key_recv = c.key_recv
        /\ v.rec = InitRec /\ v.retiring_rec = c.rec
    BY Zenon, <1>1, <1>5, InitRecType DEF packet_id_move_recv, CryptoOptions, SameReceiver
  <1> HIDE DEF v
  <1>7. epoch_replace_update_recv_key(c, e) = d
    <2> DEFINE x(i) == [v EXCEPT !.retiring = c.decrypt, !.decrypt = c.future[i],
                                 !.future[i] = NewKey(0)]
    <2>1. epoch_replace_update_recv_key(c, e) = epoch_generate_future_receive_keys(x(fki))
      BY <1>3 DEF epoch_replace_update_recv_key, v, f
    <2>2. x(n - 1) = w
      BY Zenon, <1>6 DEF CryptoOptions
    <2> HIDE DEF x, fki
    <2> QED
      BY <1>4, <2>1, <2>2
  <1>8. NewKey(0) \in KeyCtx /\ NewKey(0).epoch = 0
    BY <1>1, NewKeyType DEF Epoch
  <1>9. /\ u \in [Slot -> KeyCtx] /\ u[n - 1].epoch = 0
        /\ \A i \in Slot : i # n - 1 => u[i] = c.future[i]
    BY <1>1, <1>2, <1>6, <1>8
  <1> HIDE DEF u, n
  <1>10. /\ w \in CryptoOptions /\ w.ok /\ w.encrypt = f.encrypt /\ w.key_send = f.key_send /\ w.id = f.id
         /\ w.future = u /\ w.key_recv = c.key_recv /\ w.rec = InitRec /\ w.retiring_rec = c.rec
         /\ w.retiring = c.decrypt /\ w.decrypt = c.future[n - 1]
    BY Zenon, <1>1, <1>2, <1>6, <1>9 DEF CryptoOptions
  <1> HIDE DEF w
  <1>11. /\ w.decrypt.epoch = e
         /\ w.key_recv = w.decrypt.epoch + FutureCount - n
         /\ w.decrypt.epoch \in 1..(EpochMax - FutureCount - 1)
    BY <1>1, <1>2, <1>10 DEF InOrder, n
  <1>12. /\ \A i \in Slot : i < n => w.future[i].epoch < w.decrypt.epoch
         /\ \A i \in Slot : i >= n => w.future[i].epoch = w.decrypt.epoch + 1 + i - n
    <2>1. \A i \in Slot : i # n - 1 => w.future[i].epoch = c.decrypt.epoch + 1 + i
      BY <1>2, <1>9, <1>10
    <2>2. w.future[n - 1].epoch = 0 /\ e = c.decrypt.epoch + n /\ n \in Nat
      BY <1>1, <1>2, <1>9, <1>10 DEF n
    <2>3. ASSUME NEW i \in Slot
          PROVE  /\ i < n => w.future[i].epoch < w.decrypt.epoch
                 /\ i >= n => w.future[i].epoch = w.decrypt.epoch + 1 + i - n
      <3>1. i \in Nat /\ c.decrypt.epoch \in Nat /\ c.decrypt.epoch > 0
        BY <1>1 DEF Slot
      <3>2. CASE i = n - 1
        BY <1>11, <2>2, <3>1, <3>2
      <3>3. CASE i # n - 1
        BY <1>11, <2>1, <2>2, <3>1, <3>3
      <3> QED
        BY <3>2, <3>3
    <2> QED
      BY <2>3
  <1>13. /\ d \in CryptoOptions /\ d.ok
         /\ \A i \in Slot : d.future[i].epoch = w.decrypt.epoch + 1 + i
         /\ d.key_recv = w.decrypt.epoch + FutureCount
         /\ d.encrypt = w.encrypt /\ d.key_send = w.key_send /\ d.id = w.id
         /\ SameReceiver(w, d)
    BY <1>2, <1>10, <1>11, <1>12, GenerateFills
  <1> HIDE DEF d
  <1>14. Sound(d)
    BY <1>1, <1>5, <1>10, <1>11, <1>13 DEF Sound, InOrder, SameReceiver
  <1> QED
    BY <1>5, <1>7, <1>10, <1>11, <1>13, <1>14 DEF SameReceiver

\* Whether the keys are sound depends on their epochs only.
LEMMA SameEpochsSound ==
    ASSUME NEW c, Sound(c), NEW d \in CryptoOptions, d.ok,
           d.encrypt.epoch = c.encrypt.epoch, d.decrypt.epoch = c.decrypt.epoch,
           d.retiring.epoch = c.retiring.epoch,
           \A i \in Slot : d.future[i].epoch = c.future[i].epoch,
           d.key_send = c.key_send, d.key_recv = c.key_recv
    PROVE  Sound(d)
  BY DEF Sound, InOrder

\* Writing a packet uses up one packet id of the send key (openvpn_encrypt_aead).
LEMMA WriteSound ==
    ASSUME NEW c, Sound(c), CanWrite(c)
    PROVE  LET d == [c EXCEPT !.id = @ + 1, !.encrypt.blocks = @ + 1]
           IN  /\ Sound(d) /\ d.encrypt.epoch = c.encrypt.epoch /\ d.id = c.id + 1
               /\ SameReceiver(c, d)
  <1> DEFINE k == [c.encrypt EXCEPT !.blocks = @ + 1]
             d == [c EXCEPT !.id = @ + 1, !.encrypt.blocks = @ + 1]
  <1>1. c \in CryptoOptions /\ c.ok /\ c.encrypt \in KeyCtx
    BY DEF Sound, CryptoOptions
  <1>2. k \in KeyCtx /\ k.epoch = c.encrypt.epoch
    BY <1>1 DEF KeyCtx
  <1>3. c.id + 1 \in 0..PacketIdMax
    BY <1>1, PacketIdAssumption DEF CanWrite, CryptoOptions
  <1>4. d = [c EXCEPT !.id = c.id + 1, !.encrypt = k]
    BY <1>1 DEF CryptoOptions
  <1> HIDE DEF k, d
  <1>5. /\ d \in CryptoOptions /\ d.ok /\ d.encrypt = k /\ d.id = c.id + 1
        /\ d.future = c.future /\ d.key_send = c.key_send /\ d.key_recv = c.key_recv
        /\ SameReceiver(c, d)
    BY Zenon, <1>1, <1>2, <1>3, <1>4 DEF CryptoOptions, SameReceiver
  <1>6. Sound(d)
    BY <1>2, <1>5, SameEpochsSound DEF SameReceiver
  <1> QED
    BY <1>2, <1>5, <1>6 DEF d

\* Entering a packet in the window of its key disturbs no key.
LEMMA WithWindowSound ==
    ASSUME NEW c, Sound(c), NEW e, NEW r \in PacketIdRec
    PROVE  LET d == WithWindow(c, e, r)
           IN  /\ Sound(d) /\ d.encrypt = c.encrypt /\ d.id = c.id
               /\ d.decrypt = c.decrypt /\ d.retiring = c.retiring
               /\ d.rec = IF e = c.decrypt.epoch THEN r ELSE c.rec
               /\ d.retiring_rec = IF e = c.decrypt.epoch THEN c.retiring_rec ELSE r
  <1> DEFINE d == WithWindow(c, e, r)
  <1>1. c \in CryptoOptions /\ c.ok
    BY DEF Sound
  <1>2. /\ d \in CryptoOptions /\ d.ok /\ d.encrypt = c.encrypt /\ d.id = c.id
        /\ d.decrypt = c.decrypt /\ d.retiring = c.retiring /\ d.future = c.future
        /\ d.key_send = c.key_send /\ d.key_recv = c.key_recv
        /\ d.rec = IF e = c.decrypt.epoch THEN r ELSE c.rec
        /\ d.retiring_rec = IF e = c.decrypt.epoch THEN c.retiring_rec ELSE r
    BY <1>1 DEF WithWindow, CryptoOptions
  <1> HIDE DEF d
  <1>3. Sound(d)
    BY <1>2, SameEpochsSound
  <1> QED
    BY <1>2, <1>3 DEF d

\* Counting a packet against the receive key changes no epoch.
LEMMA CountSound ==
    ASSUME NEW c, Sound(c)
    PROVE  LET d == [c EXCEPT !.decrypt.blocks = @ + 1]
           IN  /\ Sound(d) /\ d.encrypt = c.encrypt /\ d.id = c.id
               /\ d.decrypt.epoch = c.decrypt.epoch /\ d.retiring = c.retiring
               /\ d.rec = c.rec /\ d.retiring_rec = c.retiring_rec
  <1> DEFINE k == [c.decrypt EXCEPT !.blocks = @ + 1]
             d == [c EXCEPT !.decrypt.blocks = @ + 1]
  <1>1. c \in CryptoOptions /\ c.ok /\ c.decrypt \in KeyCtx
    BY DEF Sound, CryptoOptions
  <1>2. k \in KeyCtx /\ k.epoch = c.decrypt.epoch
    BY <1>1 DEF KeyCtx
  <1>3. d = [c EXCEPT !.decrypt = k]
    BY <1>1 DEF CryptoOptions
  <1> HIDE DEF k, d
  <1>4. /\ d \in CryptoOptions /\ d.ok /\ d.encrypt = c.encrypt /\ d.id = c.id
        /\ d.decrypt = k /\ d.retiring = c.retiring /\ d.future = c.future
        /\ d.key_send = c.key_send /\ d.key_recv = c.key_recv
        /\ d.rec = c.rec /\ d.retiring_rec = c.retiring_rec
    BY <1>1, <1>2, <1>3 DEF CryptoOptions
  <1>5. Sound(d)
    BY <1>2, <1>4, SameEpochsSound
  <1> QED
    BY <1>2, <1>4, <1>5 DEF d

\* What epoch_lookup_decrypt_key returns is the current key, the retiring one
\* or the one of the array whose epoch was asked for.
LEMMA LookupSound ==
    ASSUME NEW c, Sound(c), NEW e \in Epoch, epoch_lookup_decrypt_key(c, e).epoch # 0
    PROVE  LET k == epoch_lookup_decrypt_key(c, e)
               i == e - (c.decrypt.epoch + 1)
           IN  /\ k \in KeyCtx /\ k.epoch = e
               /\ \/ e = c.decrypt.epoch /\ k = c.decrypt
                  \/ e # c.decrypt.epoch /\ Past(c, e) /\ k = c.retiring
                  \/ e # c.decrypt.epoch /\ ~Past(c, e) /\ Ahead(c, e) /\ i \in Slot /\ k = c.future[i]
  <1> DEFINE k == epoch_lookup_decrypt_key(c, e)
             i == e - (c.decrypt.epoch + 1)
  <1>1. /\ c \in CryptoOptions /\ InOrder(c) /\ c.decrypt \in KeyCtx /\ c.retiring \in KeyCtx
        /\ c.future \in [Slot -> KeyCtx] /\ c.decrypt.epoch \in Nat /\ e \in Nat /\ FutureCount \in Nat
    BY EpochAssumption DEF Sound, CryptoOptions, Epoch
  <1>2. NewKey(0).epoch = 0
    BY DEF NewKey
  <1>3. CASE e = c.decrypt.epoch
    BY <1>1, <1>3 DEF epoch_lookup_decrypt_key
  <1>4. CASE e # c.decrypt.epoch /\ Past(c, e)
    BY <1>1, <1>4 DEF epoch_lookup_decrypt_key, Past
  <1>5. CASE e # c.decrypt.epoch /\ ~Past(c, e) /\ Ahead(c, e)
    <2>1. i \in Slot
      BY <1>1, <1>5 DEF Ahead, Slot
    <2>2. c.future[i].epoch = c.decrypt.epoch + 1 + i
      BY <1>1, <2>1 DEF InOrder
    <2>3. k = c.future[i]
      BY <1>5 DEF epoch_lookup_decrypt_key
    <2> QED
      BY <1>1, <1>5, <2>1, <2>2, <2>3
  <1>6. CASE e # c.decrypt.epoch /\ ~Past(c, e) /\ ~Ahead(c, e)
    BY <1>2, <1>6 DEF epoch_lookup_decrypt_key
  <1> QED
    BY <1>3, <1>4, <1>5, <1>6

\* A failed verification counts against the key it was tried with, and
\* changes nothing else (AuthenticationFails).
LEMMA FailSound ==
    ASSUME NEW c, Sound(c), NEW e \in Epoch,
           epoch_lookup_decrypt_key(c, e).epoch # 0,
           ~cipher_decrypt_verify_fail_exceeded(epoch_lookup_decrypt_key(c, e))
    PROVE  LET f == [epoch_lookup_decrypt_key(c, e) EXCEPT !.fails = @ + 1]
               d == CASE e = c.decrypt.epoch -> [c EXCEPT !.decrypt = f]
                      [] e # c.decrypt.epoch /\ Past(c, e) -> [c EXCEPT !.retiring = f]
                      [] OTHER -> [c EXCEPT !.future[e - (c.decrypt.epoch + 1)] = f]
           IN  /\ Sound(d) /\ d.encrypt = c.encrypt /\ d.id = c.id
               /\ d.decrypt.epoch = c.decrypt.epoch /\ d.retiring.epoch = c.retiring.epoch
               /\ d.rec = c.rec /\ d.retiring_rec = c.retiring_rec
  <1> DEFINE k == epoch_lookup_decrypt_key(c, e)
             f == [k EXCEPT !.fails = @ + 1]
             i == e - (c.decrypt.epoch + 1)
             d == CASE e = c.decrypt.epoch -> [c EXCEPT !.decrypt = f]
                    [] e # c.decrypt.epoch /\ Past(c, e) -> [c EXCEPT !.retiring = f]
                    [] OTHER -> [c EXCEPT !.future[i] = f]
  <1>1. /\ k \in KeyCtx /\ k.epoch = e
        /\ \/ e = c.decrypt.epoch /\ k = c.decrypt
           \/ e # c.decrypt.epoch /\ Past(c, e) /\ k = c.retiring
           \/ e # c.decrypt.epoch /\ ~Past(c, e) /\ Ahead(c, e) /\ i \in Slot /\ k = c.future[i]
    BY LookupSound
  <1>2. c \in CryptoOptions /\ c.ok /\ c.future \in [Slot -> KeyCtx]
    BY DEF Sound, CryptoOptions
  <1>3. ~(k.fails > FailLimit)
    BY DEF cipher_decrypt_verify_fail_exceeded
  <1> HIDE DEF k
  <1>4. f \in KeyCtx /\ f.epoch = k.epoch
    BY <1>1, <1>3, EpochAssumption DEF KeyCtx
  <1> HIDE DEF f, i
  <1>5. /\ d \in CryptoOptions /\ d.ok /\ d.encrypt = c.encrypt /\ d.id = c.id
        /\ d.decrypt.epoch = c.decrypt.epoch /\ d.retiring.epoch = c.retiring.epoch
        /\ d.rec = c.rec /\ d.retiring_rec = c.retiring_rec
        /\ d.key_send = c.key_send /\ d.key_recv = c.key_recv
        /\ \A j \in Slot : d.future[j].epoch = c.future[j].epoch
    <2>1. CASE e = c.decrypt.epoch
      <3>1. d = [c EXCEPT !.decrypt = f]
        BY <2>1
      <3> HIDE DEF d
      <3> QED
        BY <1>1, <1>2, <1>4, <2>1, <3>1 DEF CryptoOptions
    <2>2. CASE e # c.decrypt.epoch /\ Past(c, e)
      <3>1. d = [c EXCEPT !.retiring = f]
        BY <2>2
      <3> HIDE DEF d
      <3> QED
        BY <1>1, <1>2, <1>4, <2>2, <3>1 DEF CryptoOptions
    <2>3. CASE e # c.decrypt.epoch /\ ~Past(c, e)
      <3> DEFINE u == [c.future EXCEPT ![i] = f]
      <3>1. d = [c EXCEPT !.future = u]
        BY <1>2, <2>3 DEF CryptoOptions
      <3>2. u \in [Slot -> KeyCtx] /\ \A j \in Slot : u[j].epoch = c.future[j].epoch
        BY <1>1, <1>2, <1>4, <2>3
      <3> HIDE DEF d, u
      <3> QED
        BY <1>2, <3>1, <3>2 DEF CryptoOptions
    <2> QED
      BY <2>1, <2>2, <2>3
  <1> HIDE DEF d
  <1>6. Sound(d)
    BY <1>5, SameEpochsSound
  <1> QED
    BY <1>5, <1>6 DEF d, f, k, i

-----------------------------------------------------------------------------
\* Window r keeps packet id i from being accepted again.
Kept(r, i) == Covered(r, Pin(i)) /\ (SeqBacktrack # 0 => r.size # 0)

\* A packet id is a header whose time is 0.
LEMMA PinType == ASSUME NEW i \in Nat PROVE Pin(i) \in PacketIdNet
  BY DEF Pin, PacketIdNet

\* A kept id is rejected, and stays kept while the window is reaped and when
\* another packet is entered in it, which is then kept as well.
LEMMA KeptIsRejected ==
    ASSUME NEW r \in PacketIdRec, NEW i \in Nat, Kept(r, i)
    PROVE  ~packet_id_test(r, Pin(i))
  BY PinType, CoveredIsRejected DEF Kept

LEMMA ReapKeeps ==
    ASSUME NEW r \in PacketIdRec
    PROVE  LET q == packet_id_reap_test(r, Now)
           IN  q \in PacketIdRec /\ \A i \in Nat : Kept(r, i) => Kept(q, i)
  <1>1. Now \in Nat
    BY DEF Now
  <1> DEFINE q == packet_id_reap_test(r, Now)
  <1>2. q \in PacketIdRec /\ q.size = r.size /\ \A h \in PacketIdNet : Covered(r, h) => Covered(q, h)
    BY <1>1, ReapFields, ReapKeepsCovered
  <1> HIDE DEF q
  <1> QED
    BY <1>2, PinType DEF Kept, q

LEMMA AddKeeps ==
    ASSUME NEW r \in PacketIdRec, NEW id \in Nat, packet_id_test(r, Pin(id))
    PROVE  LET q == packet_id_add(r, Pin(id), Now)
           IN  q \in PacketIdRec /\ Kept(q, id) /\ \A i \in Nat : Kept(r, i) => Kept(q, i)
  <1>1. Now \in Nat /\ Now > SEQ_EXPIRED
    BY DEF Now, SEQ_EXPIRED
  <1> DEFINE q == packet_id_add(r, Pin(id), Now)
  <1>2. /\ q \in PacketIdRec
        /\ SeqBacktrack # 0 => q.size # 0
        /\ Covered(q, Pin(id))
        /\ \A h \in PacketIdNet :
              (SeqBacktrack = 0 \/ r.size # 0) /\ Covered(r, h) => Covered(q, h)
    BY <1>1, PinType, AddCovers
  <1> HIDE DEF q
  <1> QED
    BY <1>2, PinType DEF Kept, q

-----------------------------------------------------------------------------
\* What a peer with keys c has sent lies behind its send key and packet id.
SentBehind(c, sentBy) ==
    \A m \in sentBy :
        /\ m[1] # 0 /\ m[2] # 0
        /\ m[1] < c.encrypt.epoch \/ (m[1] = c.encrypt.epoch /\ m[2] <= c.id)

\* What it has accepted is of its current epoch or of an earlier one, and the
\* windows of the two keys that still decrypt keep what they have seen.
TakenKept(c, takenBy) ==
    \A m \in takenBy :
        /\ m[1] # 0 /\ m[1] <= c.decrypt.epoch
        /\ m[1] = c.decrypt.epoch => Kept(c.rec, m[2])
        /\ m[1] = c.retiring.epoch => Kept(c.retiring_rec, m[2])

\* The inductive invariant.
EpochInv ==
    /\ EpochTypeOK
    /\ \A p \in Peer : /\ Sound(co[p])
                       /\ SentBehind(co[p], wire[p])
                       /\ TakenKept(co[p], taken[p])

\* crypto_check_replay changes the receive key for a packet of a later epoch
\* and forgets no packet in doing so.
LEMMA SelectKeeps ==
    ASSUME NEW c, Sound(c), NEW e \in Epoch \ {0}, epoch_lookup_decrypt_key(c, e).epoch = e,
           NEW T \in SUBSET (Epoch \X Nat), TakenKept(c, T)
    PROVE  LET d == SelectWindow(c, e)
           IN  /\ Sound(d) /\ TakenKept(d, T)
               /\ e \in {d.decrypt.epoch, d.retiring.epoch}
               /\ \/ d.encrypt = c.encrypt /\ d.id = c.id
                  \/ c.encrypt.epoch < d.encrypt.epoch /\ d.id = 0
  <1> DEFINE d == SelectWindow(c, e)
  <1>1. /\ \A m \in T : m[1] \in Nat
        /\ c.decrypt.epoch \in Nat /\ e \in Nat
    BY EpochAssumption DEF Sound, CryptoOptions, KeyCtx, Epoch
  <1>2. CASE e = c.decrypt.epoch \/ Past(c, e)
    BY <1>2 DEF SelectWindow, Past
  <1>3. CASE ~(e = c.decrypt.epoch \/ Past(c, e))
    <2>1. Ahead(c, e)
      BY <1>3, LookupSound
    <2>2. d = epoch_replace_update_recv_key(c, e)
      BY <1>3 DEF SelectWindow
    <2>3. /\ Sound(d)
          /\ d.decrypt.epoch = e /\ d.retiring.epoch = c.decrypt.epoch
          /\ d.rec = InitRec /\ d.retiring_rec = c.rec
          /\ \/ d.encrypt = c.encrypt /\ d.id = c.id
             \/ c.encrypt.epoch < d.encrypt.epoch /\ d.id = 0
      BY <2>1, <2>2, ReplaceSound
    <2> HIDE DEF d
    <2>4. e > c.decrypt.epoch
      BY <2>1 DEF Ahead
    <2>5. TakenKept(d, T)
      BY <1>1, <2>3, <2>4 DEF TakenKept
    <2> QED
      BY <2>3, <2>5 DEF d
  <1> QED
    BY <1>2, <1>3

\* The window of the packet's key keeps what it kept when its record is
\* replaced by one that keeps at least as much.
LEMMA WithWindowKeeps ==
    ASSUME NEW c, Sound(c), NEW e \in {c.decrypt.epoch, c.retiring.epoch},
           NEW T \in SUBSET (Epoch \X Nat), TakenKept(c, T), NEW r \in PacketIdRec,
           \A i \in Nat : Kept(Window(c, e), i) => Kept(r, i)
    PROVE  TakenKept(WithWindow(c, e, r), T)
  <1> DEFINE d == WithWindow(c, e, r)
  <1>1. /\ d.decrypt = c.decrypt /\ d.retiring = c.retiring
        /\ d.rec = IF e = c.decrypt.epoch THEN r ELSE c.rec
        /\ d.retiring_rec = IF e = c.decrypt.epoch THEN c.retiring_rec ELSE r
    BY WithWindowSound
  <1> HIDE DEF d
  <1>2. \A m \in T : m[2] \in Nat
    OBVIOUS
  <1>3. c.retiring.epoch # c.decrypt.epoch
    BY EpochAssumption DEF Sound, InOrder, CryptoOptions, KeyCtx, Epoch
  <1>4. CASE e = c.decrypt.epoch
    BY <1>1, <1>2, <1>4 DEF TakenKept, Window, d
  <1>5. CASE e # c.decrypt.epoch
    BY <1>1, <1>2, <1>3, <1>5 DEF TakenKept, Window, d
  <1> QED
    BY <1>4, <1>5
=============================================================================
