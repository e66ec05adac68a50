----------------------------- MODULE EpochKeys ------------------------------
(***************************************************************************)
(* Epoch data keys (crypto_epoch.c and what crypto.c does with them): two  *)
(* peers that send data packets under keys they replace on their own, over *)
(* a network that loses, duplicates, reorders and corrupts them.           *)
(*                                                                         *)
(* The key of epoch e of a direction is derived from the one before it, so *)
(* a struct key_ctx is [epoch, blocks, fails]: epoch 0 is a freed one.     *)
(* Every packet counts as one block.                                       *)
(***************************************************************************)
EXTENDS PacketId

CONSTANTS
    FutureCount,    \* epoch_data_keys_future_count, 16 in the code
    EpochMax,       \* UINT16_MAX
    UsageLimit,     \* aead_usage_limit; 0: none
    FailWarn,       \* failed verifications after which a new key is wanted,
    FailLimit,      \* and after which a key is not used any more
    MaxClientEpoch, \* bound: the last epoch the client sends in,
    MaxServerEpoch, \* and the server
    MaxDamaged      \* bound: how many packets the network damages

ASSUME EpochAssumption ==
    /\ FutureCount \in Nat \ {0}
    /\ EpochMax \in Nat /\ EpochMax > FutureCount + 1
    /\ UsageLimit \in Nat
    /\ FailWarn \in Nat /\ FailLimit \in Nat /\ FailWarn <= FailLimit
    /\ MaxClientEpoch \in Nat /\ MaxServerEpoch \in Nat /\ MaxDamaged \in Nat

U16(n) == n % (EpochMax + 1)

Slot == 0..(FutureCount - 1)

Epoch == 0..EpochMax

KeyCtx == [epoch : Epoch, blocks : Nat, fails : 0..(FailLimit + 1)]

NewKey(e) == [epoch |-> e, blocks |-> 0, fails |-> 0]

\* free_key_ctx leaves failed_verifications alone.
free_key_ctx(k) == [k EXCEPT !.epoch = 0, !.blocks = 0]

\* The time does not move: entries of the replay window do not expire.
Now == 2

Pin(id) == [time |-> 0, id |-> id]

-----------------------------------------------------------------------------
(* Operations on struct crypto_options:                                    *)
(*   encrypt, decrypt      the keys in use                                 *)
(*   retiring, future      the receive keys before and after decrypt       *)
(*   key_send, key_recv    epochs of epoch_key_send and epoch_key_recv     *)
(*   id                    packet_id.send.id                               *)
(*   rec, retiring_rec     the replay windows of decrypt and of retiring   *)
(*   ok                    no ASSERT has failed                            *)

\* epoch_init_send_key_ctx for the key whose context was freed.
epoch_init_send_key_ctx(c) ==
    [c EXCEPT !.ok = @ /\ c.encrypt.epoch # c.key_send,
              !.encrypt = NewKey(c.key_send),
              !.id = 0]

FreedFuture(c) ==
    [i \in Slot |-> IF c.future[i].epoch > 0 /\ c.future[i].epoch < c.decrypt.epoch
                    THEN free_key_ctx(c.future[i]) ELSE c.future[i]]

epoch_generate_future_receive_keys(c) ==
    LET cur   == c.decrypt.epoch
        freed == FreedFuture(c)
        n     == U16(U16(cur + FutureCount) - c.key_recv)
        keep  == FutureCount - n
        new   == [i \in Slot |-> IF i < keep THEN freed[i + n]
                                ELSE NewKey(U16(c.key_recv + i - keep + 1))]
    IN  [c EXCEPT
            !.ok = /\ @
                   /\ c.key_recv \in {1, c.future[FutureCount - 1].epoch, cur}
                   /\ c.key_recv \in {freed[FutureCount - 1].epoch, cur}
                   /\ n <= FutureCount
                   /\ \A i \in Slot : i < n => freed[i].epoch = 0
                   /\ \A i \in Slot : new[i].epoch > 0,
            !.future = new,
            !.key_recv = U16(@ + n)]

epoch_iterate_send_key(c) ==
    epoch_init_send_key_ctx(
        [c EXCEPT !.ok = @ /\ c.key_send < EpochMax,
                  !.key_send = U16(@ + 1),
                  !.encrypt = free_key_ctx(@)])

\* Mutant: the send key does not follow the receive key.
FollowSend_Not(c, e) == c

\* The send key is never older than the receive key.
FollowSend(c, e) ==
    IF c.encrypt.epoch < e
    THEN epoch_init_send_key_ctx(
            [c EXCEPT !.encrypt = free_key_ctx(@),
                      !.key_send = IF @ < e THEN e ELSE @])
    ELSE c

\* Mutant: the replay window of the old key is used for the new one.
packet_id_move_recv_Keep(c) == c

packet_id_move_recv(c) == [c EXCEPT !.retiring_rec = c.rec, !.rec = InitRec]

epoch_replace_update_recv_key(c, e) ==
    LET found == {i \in Slot : c.future[i].epoch = e}
    IN  IF found = {} THEN [c EXCEPT !.ok = FALSE]
        ELSE LET fki == CHOOSE i \in found : \A j \in found : i <= j
                 s   == packet_id_move_recv(FollowSend(c, e))
             IN  epoch_generate_future_receive_keys(
                    [s EXCEPT !.retiring = c.decrypt,
                              !.decrypt = c.future[fki],
                              !.future[fki] = NewKey(0)])

epoch_init_key_ctx ==
    epoch_generate_future_receive_keys(
        [encrypt |-> NewKey(1), decrypt |-> NewKey(1), retiring |-> NewKey(0),
         future |-> [i \in Slot |-> NewKey(0)],
         key_send |-> 1, key_recv |-> 1, id |-> 0,
         rec |-> InitRec, retiring_rec |-> InitRec, ok |-> TRUE])

Past(c, e) == e = c.retiring.epoch /\ e # 0

Ahead(c, e) ==
    /\ e > c.decrypt.epoch /\ e <= c.decrypt.epoch + FutureCount
    /\ e <= EpochMax - FutureCount - 1

\* epoch_lookup_decrypt_key: the key, or an empty one for NULL.
epoch_lookup_decrypt_key(c, e) ==
    CASE e = c.decrypt.epoch -> c.decrypt
      [] e # c.decrypt.epoch /\ Past(c, e) -> c.retiring
      [] e # c.decrypt.epoch /\ ~Past(c, e) /\ Ahead(c, e) ->
            c.future[e - (c.decrypt.epoch + 1)]
      [] OTHER -> NewKey(0)

aead_usage_limit_reached(k, pid) == UsageLimit > 0 /\ k.blocks + pid > UsageLimit

cipher_decrypt_verify_fail_warn(k) == k.fails > FailWarn
cipher_decrypt_verify_fail_exceeded(k) == k.fails > FailLimit

WantsNewKey(c) ==
    /\ UsageLimit > 0
    /\ \/ aead_usage_limit_reached(c.encrypt, c.id)
       \/ /\ c.encrypt.epoch = c.decrypt.epoch
          /\ \/ aead_usage_limit_reached(c.decrypt, c.rec.id)
             \/ cipher_decrypt_verify_fail_warn(c.decrypt)

\* Mutant: the packet ids start over under the same key.
epoch_check_send_iterate_SameKey(c) == IF c.id = PacketIdMax THEN [c EXCEPT !.id = 0] ELSE c

epoch_check_send_iterate(c) ==
    IF c.key_send = EpochMax THEN c
    ELSE LET d == IF WantsNewKey(c) THEN epoch_iterate_send_key(c) ELSE c
         IN  IF d.id = PacketIdMax THEN epoch_iterate_send_key(d) ELSE d

\* crypto_check_replay: the window of the key the packet used.
SelectWindow(c, e) ==
    IF e = c.decrypt.epoch \/ Past(c, e) THEN c ELSE epoch_replace_update_recv_key(c, e)

Window(c, e) == IF e = c.decrypt.epoch THEN c.rec ELSE c.retiring_rec

\* Mutant: packets of the old key are not entered in its window.
WithWindow_Current(c, e, r) == IF e = c.decrypt.epoch THEN [c EXCEPT !.rec = r] ELSE c

WithWindow(c, e, r) ==
    IF e = c.decrypt.epoch THEN [c EXCEPT !.rec = r] ELSE [c EXCEPT !.retiring_rec = r]

\* Is the packet authentic and fresh?  The tag only checks out under the key
\* it was made with.
Accepts(c, e, id) ==
    LET k == epoch_lookup_decrypt_key(c, e)
        d == SelectWindow(c, e)
    IN  /\ k.epoch = e
        /\ ~cipher_decrypt_verify_fail_exceeded(k)
        /\ packet_id_test(packet_id_reap_test(Window(d, e), Now), Pin(id))

CanWrite(c) == c.id # PacketIdMax

CryptoOptions ==
    [encrypt : KeyCtx, decrypt : KeyCtx, retiring : KeyCtx, future : [Slot -> KeyCtx],
     key_send : Epoch, key_recv : Epoch, id : 0..PacketIdMax,
     rec : PacketIdRec, retiring_rec : PacketIdRec, ok : BOOLEAN]

-----------------------------------------------------------------------------
(* The two peers *)

Peer == {"client", "server"}
Other(p) == IF p = "client" THEN "server" ELSE "client"
MaxSentEpoch(p) == IF p = "client" THEN MaxClientEpoch ELSE MaxServerEpoch

VARIABLES
    co,         \* co[p]: struct crypto_options of p
    wire,       \* wire[p]: history, every <<epoch, id>> p has sent
    taken,      \* taken[p]: history, every <<epoch, id>> p has accepted
    damaged     \* how many packets the network has damaged

keys == <<co, wire, taken, damaged>>

-----------------------------------------------------------------------------
EpochInit ==
    /\ co = [p \in Peer |-> epoch_init_key_ctx]
    /\ wire = [p \in Peer |-> {}]
    /\ taken = [p \in Peer |-> {}]
    /\ damaged = 0

openvpn_encrypt_aead(p) ==
    LET c == epoch_check_send_iterate(co[p])
    IN  /\ c.encrypt.epoch <= MaxSentEpoch(p)
        /\ IF CanWrite(c)
           THEN /\ co' = [co EXCEPT ![p] = [c EXCEPT !.id = @ + 1, !.encrypt.blocks = @ + 1]]
                /\ wire' = [wire EXCEPT ![p] = @ \cup {<<c.encrypt.epoch, c.id + 1>>}]
           ELSE co' = [co EXCEPT ![p] = c] /\ UNCHANGED wire
        /\ UNCHANGED <<taken, damaged>>

\* A packet that reaches p undamaged.
openvpn_decrypt_aead(p, e, id) ==
    LET k == epoch_lookup_decrypt_key(co[p], e)
        d == SelectWindow(co[p], e)
        r == packet_id_reap_test(Window(d, e), Now)
    IN  /\ k.epoch = e
        /\ ~cipher_decrypt_verify_fail_exceeded(k)
        /\ IF packet_id_test(r, Pin(id))
           THEN LET a == WithWindow(d, e, packet_id_add(r, Pin(id), Now))
                IN  /\ co' = [co EXCEPT ![p] = [a EXCEPT !.decrypt.blocks = @ + 1]]
                    /\ taken' = [taken EXCEPT ![p] = @ \cup {<<e, id>>}]
           ELSE /\ co' = [co EXCEPT ![p] = WithWindow(d, e, r)]
                /\ UNCHANGED taken
        /\ UNCHANGED <<wire, damaged>>

\* A packet of epoch e whose tag does not check out counts against the key.
AuthenticationFails(p, e) ==
    LET c == co[p]
        k == epoch_lookup_decrypt_key(c, e)
        f == [k EXCEPT !.fails = @ + 1]
    IN  /\ damaged < MaxDamaged
        /\ k.epoch # 0
        /\ ~cipher_decrypt_verify_fail_exceeded(k)
        /\ co' = [co EXCEPT ![p] =
              CASE e = c.decrypt.epoch -> [c EXCEPT !.decrypt = f]
                [] e # c.decrypt.epoch /\ Past(c, e) -> [c EXCEPT !.retiring = f]
                [] OTHER -> [c EXCEPT !.future[e - (c.decrypt.epoch + 1)] = f]]
        /\ damaged' = damaged + 1
        /\ UNCHANGED <<wire, taken>>

EpochNext ==
    \E p \in Peer :
        \/ openvpn_encrypt_aead(p)
        \/ \E m \in wire[Other(p)] : openvpn_decrypt_aead(p, m[1], m[2])
        \/ \E m \in wire[Other(p)] : AuthenticationFails(p, m[1])

EpochSpec == EpochInit /\ [][EpochNext]_keys

-----------------------------------------------------------------------------
EpochTypeOK ==
    /\ co \in [Peer -> CryptoOptions]
    /\ wire \in [Peer -> SUBSET (Epoch \X Nat)]
    /\ taken \in [Peer -> SUBSET (Epoch \X Nat)]
    /\ damaged \in Nat

\* The key array has no gaps, so that epoch_lookup_decrypt_key finds the key
\* of an epoch by its distance from the current one; the send key is not
\* older than the receive key ("As invariant, the epoch of epoch_key_send is
\* always kept >= the epoch of key_ctx_bi.decrypt.epoch").
InOrder(c) ==
    /\ c.retiring.epoch < c.decrypt.epoch
    /\ \A i \in Slot : c.future[i].epoch = c.decrypt.epoch + 1 + i
    /\ c.key_recv = c.decrypt.epoch + FutureCount
    /\ c.encrypt.epoch = c.key_send
    /\ c.decrypt.epoch <= c.key_send

\* The keys of both peers are in order and no ASSERT of crypto_epoch.c has
\* failed, at whatever point of the epochs the two sides are, up to the last
\* one (epoch_replace_update_recv_key, epoch_generate_future_receive_keys).
KeysInOrder == EpochTypeOK /\ \A p \in Peer : co[p].ok /\ InOrder(co[p])

\* No key is used twice with the same packet id ("this would be catastrophic
\* as we would do IV reuse"), whichever of the packet ids, the usage limits
\* and the peer makes the send key change (epoch_check_send_iterate,
\* epoch_replace_update_recv_key).
FreshNonce ==
    \A p \in Peer :
        \/ UNCHANGED <<co[p].encrypt, co[p].id>>
        \/ <<co'[p].encrypt.epoch, co'[p].id>> \notin wire[p]

NoNonceReuse == [][FreshNonce]_keys

\* No packet is accepted twice, also across a change of keys and while two
\* receive keys with a window each are in use (crypto_check_replay).
NoReplayAcrossEpochs == \A p \in Peer : \A m \in taken[p] : ~Accepts(co[p], m[1], m[2])

\* Changing keys does not lose packets in flight: a packet of the current,
\* the previous or one of the next epochs that has not arrived yet is
\* accepted, unless its replay window has moved past it, its key has seen too
\* many failures, or the epochs are about to run out.
InFlightIsAccepted ==
    \A p \in Peer : \A m \in wire[Other(p)] \ taken[p] :
        LET c == co[p]
            k == epoch_lookup_decrypt_key(c, m[1])
        IN  \/ Accepts(c, m[1], m[2])
            \/ m[1] < c.decrypt.epoch /\ m[1] # c.retiring.epoch
            \/ m[1] > c.decrypt.epoch + FutureCount
            \/ m[1] + FutureCount >= EpochMax
            \/ k.fails > FailLimit
            \/ \E a \in taken[p] : a[1] = m[1] /\ a[2] >= m[2] + SeqBacktrack

\* Across changes of keys no data packet is accepted twice and none in flight
\* is lost (crypto_check_replay with two windows, epoch_lookup_decrypt_key).
AcceptedOnceAcrossEpochs == NoReplayAcrossEpochs /\ InFlightIsAccepted
=============================================================================
