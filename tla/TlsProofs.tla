------------------------------ MODULE TlsProofs ------------------------------
(***************************************************************************)
(* Proofs about TlsMulti for every window, key id mask, set of session ids *)
(* and role: type correctness, that an untrusted session never gets data   *)
(* channel keys, and that an old key survives the negotiation of the next. *)
(***************************************************************************)
EXTENDS TlsMulti, TLAPS

USE DEF S_ERROR, S_ERROR_PRE, S_UNDEF, S_INITIAL, S_PRE_START_SKIP, S_PRE_START, S_START,
        S_SENT_KEY, S_GOT_KEY, S_ACTIVE, S_GENERATED_KEYS, NoSid, NoAddr, NoTimer, Nothing, Addr

-----------------------------------------------------------------------------
(* struct key_state *)

\* A key state that is well typed and had no more acknowledged than sent.
Key(k) == k \in KeyState /\ k.acked <= k.sent

\* What surrounds a call of tls_process_state.
Around == [due : BOOLEAN, fail : BOOLEAN, reneg : BOOLEAN, auth : {"FALSE", "DEFERRED", "TRUE"}]

\* The key k may become n in a negotiation: only tls_multi_process and the
\* setup of the connection generate data channel keys.
Negotiates(k, n) == Key(n) /\ (k.state < S_GENERATED_KEYS => n.state < S_GENERATED_KEYS)

\* An empty receive buffer holds a record.
LEMMA NoRecordType == NoRecord \in TlsRecord
  BY TlsAssumption DEF NoRecord, Record, TlsRecord, Sid

\* A freed key state is a key state.
LEMMA NoKeyType == Key(NoKey) /\ NoKey.state = S_UNDEF
  BY NoRecordType, TlsAssumption DEF NoKey, Key, KeyState, Sid

\* The states a key state can be put into, and the values of its timers.
LEMMA StateAndTimerTypes ==
    /\ \A n \in {S_ERROR, S_ERROR_PRE, S_UNDEF, S_INITIAL, S_PRE_START_SKIP, S_PRE_START, S_START,
                 S_SENT_KEY, S_GOT_KEY, S_ACTIVE, S_GENERATED_KEYS} : n \in S_ERROR..S_GENERATED_KEYS
    /\ 0 \in 0..HandshakeWindow /\ HandshakeWindow \in 0..HandshakeWindow
    /\ DeferWindow \in 0..DeferWindow /\ TransitionWindow \in NoTimer..TransitionWindow
  BY TlsAssumption

\* States and deadlines are numbers.
LEMMA KeyNumbers ==
    ASSUME NEW k, Key(k)
    PROVE  k.state \in Int /\ k.die \in Int
  BY TlsAssumption DEF Key, KeyState

\* A key state with another state.
LEMMA NewState ==
    ASSUME NEW k, Key(k), NEW v \in S_ERROR..S_GENERATED_KEYS
    PROVE  Key([k EXCEPT !.state = v]) /\ [k EXCEPT !.state = v].state = v
  <1>1. [k EXCEPT !.state = v] \in KeyState
    BY Zenon DEF Key, KeyState
  <1> QED
    BY <1>1 DEF Key, KeyState

\* A key state that fails.
LEMMA Fails ==
    ASSUME NEW k, NEW n, Key(n), NEW v \in {S_ERROR_PRE, S_ERROR}
    PROVE  Negotiates(k, [n EXCEPT !.state = v])
  <1>1. v \in S_ERROR..S_GENERATED_KEYS /\ v < S_GENERATED_KEYS
    OBVIOUS
  <1>2. Key([n EXCEPT !.state = v]) /\ [n EXCEPT !.state = v].state = v
    BY <1>1, NewState, Zenon
  <1> QED
    BY <1>1, <1>2 DEF Negotiates

\* A key that retires keeps its state, its id and its peer.
LEMMA RetiredType ==
    ASSUME NEW k, Key(k)
    PROVE  /\ Key(Retired(k))
           /\ Retired(k).state = k.state /\ Retired(k).key_id = k.key_id
           /\ Retired(k).remote = k.remote /\ Retired(k).addr = k.addr
  <1>1. ASSUME NEW j \in KeyState
        PROVE  [j EXCEPT !.state = k.state, !.key_id = k.key_id, !.remote = k.remote,
                  !.addr = k.addr, !.die = k.die, !.defer = k.defer, !.auth = k.auth,
                  !.with = k.with] \in KeyState
    <2>1. k.state \in S_ERROR..S_GENERATED_KEYS /\ k.key_id \in 0..KeyIdMask /\ k.remote \in Sid
      BY DEF Key, KeyState
    <2>2. k.addr \in {NoAddr, Addr} /\ k.die \in NoTimer..TransitionWindow /\ k.defer \in 0..DeferWindow
      BY DEF Key, KeyState
    <2>3. k.auth \in {"FALSE", "DEFERRED", "TRUE"} /\ k.with \in Sid
      BY DEF Key, KeyState
    <2> QED
      BY <2>1, <2>2, <2>3, Zenon DEF KeyState
  <1>2. Retired(k) \in KeyState
    BY <1>1, NoKeyType, Zenon DEF Retired, Key
  <1> QED
    BY <1>2, NoKeyType DEF Retired, Key, KeyState

\* session_move_pre_start
LEMMA PreStartNegotiates ==
    ASSUME NEW k, Key(k), NEW skip \in BOOLEAN
    PROVE  Negotiates(k, session_move_pre_start(k, skip))
  <1>1. 1 \in Nat /\ (IF skip THEN 1 ELSE 0) \in Nat
    OBVIOUS
  <1>2. (IF skip THEN S_PRE_START_SKIP ELSE S_PRE_START) \in S_ERROR..S_GENERATED_KEYS
    OBVIOUS
  <1>3. session_move_pre_start(k, skip) \in KeyState
    BY <1>1, <1>2, StateAndTimerTypes, Zenon DEF session_move_pre_start, Key, KeyState
  <1> QED
    BY <1>3 DEF session_move_pre_start, Negotiates, Key, KeyState

\* The moves of tls_process_state from one state to the next.
LEMMA MovesNegotiate ==
    ASSUME NEW k, Key(k), NEW server \in BOOLEAN
    PROVE  /\ Negotiates(k, MoveInitial(k))
           /\ Negotiates(k, MoveStart(k))
           /\ Negotiates(k, MoveActive(k, server))
  <1>1. Negotiates(k, k)
    BY DEF Negotiates
  <1>2. Negotiates(k, MoveInitial(k))
    BY Zenon, <1>1, PreStartNegotiates DEF MoveInitial
  <1>3. Negotiates(k, MoveStart(k))
    <2>1. Key([k EXCEPT !.state = S_START]) /\ [k EXCEPT !.state = S_START].state = S_START
      <3>1. S_START \in S_ERROR..S_GENERATED_KEYS
        OBVIOUS
      <3> QED
        BY <3>1, NewState, Zenon
    <2> QED
      BY <1>1, <2>1 DEF MoveStart, Negotiates
  <1>4. Negotiates(k, session_move_active(k))
    <2>1. session_move_active(k) \in KeyState
      BY StateAndTimerTypes, Zenon DEF session_move_active, Key, KeyState
    <2> QED
      BY <2>1 DEF session_move_active, Negotiates, Key, KeyState
  <1> QED
    BY <1>1, <1>2, <1>3, <1>4 DEF MoveActive

\* A record read by the TLS object.
LEMMA ReadNegotiates ==
    ASSUME NEW k, Key(k), NEW server \in BOOLEAN
    PROVE  Negotiates(k, ReadCiphertext(k, server))
  <1>1. NoRecord \in TlsRecord /\ k.in \in TlsRecord /\ k.in.from \in Sid
    <2>1. k.in \in TlsRecord
      BY DEF Key, KeyState
    <2> QED
      BY <2>1, NoRecordType DEF TlsRecord
  <1>2. CASE k.in.kind = "TLS"
    <2> DEFINE n == [k EXCEPT !.tls = IF server THEN "hello" ELSE "done", !.with = k.in.from,
                              !.in = NoRecord, !.sent = IF server THEN @ + 1 ELSE @]
    <2>1. (IF server THEN k.sent + 1 ELSE k.sent) \in Nat
      BY DEF Key, KeyState
    <2>2. (IF server THEN "hello" ELSE "done") \in {"none", "hello", "done"}
      OBVIOUS
    <2>3. n \in KeyState
      BY <1>1, <2>1, <2>2, Zenon DEF Key, KeyState
    <2>4. Negotiates(k, n)
      BY <2>3 DEF Negotiates, Key, KeyState
    <2> QED
      BY <2>4, <1>2 DEF ReadCiphertext
  <1>3. CASE k.in.kind = "KEY"
    <2> DEFINE n == [k EXCEPT !.tls = "done", !.in = NoRecord, !.read = TRUE]
    <2>1. n \in KeyState
      BY <1>1, Zenon DEF Key, KeyState
    <2>2. Negotiates(k, n)
      BY <2>1 DEF Negotiates, Key, KeyState
    <2> QED
      BY <2>2, <1>3 DEF ReadCiphertext
  <1>4. CASE k.in.kind \notin {"TLS", "KEY"}
    <2> DEFINE n == [k EXCEPT !.in = NoRecord]
    <2>1. n \in KeyState
      BY <1>1, Zenon DEF Key, KeyState
    <2>2. Negotiates(k, n)
      BY <2>1 DEF Negotiates, Key, KeyState
    <2> QED
      BY <2>2, <1>4 DEF ReadCiphertext
  <1> QED
    BY <1>2, <1>3, <1>4

\* The key exchange: key_method_2_read and key_method_2_write.
LEMMA ExchangeNegotiates ==
    ASSUME NEW k, Key(k), NEW server \in BOOLEAN, NEW e \in Around
    PROVE  /\ Negotiates(k, SendKey(k, server))
           /\ Negotiates(k, ReceiveKey(k, server, e))
           /\ Negotiates(k, Emit(k, server))
  <1>1. Negotiates(k, k)
    BY DEF Negotiates
  <1>2. Negotiates(k, [k EXCEPT !.state = S_SENT_KEY, !.write = TRUE])
    <2>1. [k EXCEPT !.state = S_SENT_KEY, !.write = TRUE] \in KeyState
      BY StateAndTimerTypes, Zenon DEF Key, KeyState
    <2> QED
      BY <2>1 DEF Negotiates, Key, KeyState
  <1>3. LET n == [k EXCEPT !.state = S_GOT_KEY, !.read = FALSE,
                           !.auth = IF server THEN e.auth ELSE "TRUE"]
        IN  Negotiates(k, n)
    <2> DEFINE n == [k EXCEPT !.state = S_GOT_KEY, !.read = FALSE,
                              !.auth = IF server THEN e.auth ELSE "TRUE"]
    <2>1. (IF server THEN e.auth ELSE "TRUE") \in {"FALSE", "DEFERRED", "TRUE"}
      BY DEF Around
    <2>2. n \in KeyState
      BY <2>1, StateAndTimerTypes, Zenon DEF Key, KeyState
    <2> QED
      BY <2>2 DEF Negotiates, Key, KeyState
  <1>4. k.sent \in Nat /\ k.sent + 1 \in Nat
    BY DEF Key, KeyState
  <1>5. Negotiates(k, [k EXCEPT !.tls = "hello", !.sent = @ + 1])
    <2>1. [k EXCEPT !.tls = "hello", !.sent = @ + 1] \in KeyState
      BY <1>4, Zenon DEF Key, KeyState
    <2> QED
      BY <2>1 DEF Negotiates, Key, KeyState
  <1>6. Negotiates(k, [k EXCEPT !.write = FALSE, !.keyat = k.sent, !.sent = @ + 1])
    <2>1. [k EXCEPT !.write = FALSE, !.keyat = k.sent, !.sent = @ + 1] \in KeyState
      BY <1>4, Zenon DEF Key, KeyState
    <2> QED
      BY <2>1 DEF Negotiates, Key, KeyState
  <1>7. Negotiates(k, SendKey(k, server))
    BY <1>1, <1>2 DEF SendKey
  <1>8. Negotiates(k, ReceiveKey(k, server, e))
    BY <1>1, <1>3 DEF ReceiveKey
  <1>9. Negotiates(k, Emit(k, server))
    BY <1>1, <1>5, <1>6 DEF Emit
  <1> QED
    BY <1>7, <1>8, <1>9

-----------------------------------------------------------------------------
(* struct tls_session and the loop of tls_process *)

\* A session whose two keys are key states.
Sess(s) == s \in Session /\ Key(s.pri) /\ Key(s.lame)

\* The packets of the control channel.
PacketSet ==
    [op : {Nothing, "HARD", "SOFT", "CONTROL", "ACK"}, server : BOOLEAN, sid : Sid,
     key_id : 0..KeyIdMask, id : Nat, content : TlsRecord, ack : Nat, peer : Sid]

\* What the loop of tls_process works on.
Run == [s : Session, link : BOOLEAN, out : SUBSET PacketSet, again : BOOLEAN]

\* A session with another primary key.
LEMMA NewPrimary ==
    ASSUME NEW s, Sess(s), NEW n, Key(n)
    PROVE  LET t == [s EXCEPT !.pri = n]
           IN  /\ Sess(t) /\ t.pri = n /\ t.lame = s.lame /\ t.sid = s.sid
               /\ t.key_id = s.key_id /\ t.opcode = s.opcode
  <1> DEFINE t == [s EXCEPT !.pri = n]
  <1>1. t \in Session
    BY Zenon DEF Sess, Session, Key
  <1>2. /\ t.pri = n /\ t.lame = s.lame /\ t.sid = s.sid
        /\ t.key_id = s.key_id /\ t.opcode = s.opcode
    BY DEF Sess, Session
  <1> QED
    BY <1>1, <1>2 DEF Sess

\* A run in which the key of the session may negotiate.
Keeps(r, q) ==
    /\ q \in Run /\ Sess(q.s)
    /\ q.s.sid = r.s.sid /\ q.s.lame = r.s.lame
    /\ r.s.pri.state < S_GENERATED_KEYS => q.s.pri.state < S_GENERATED_KEYS

\* The loop puts a new key into its run.
LEMMA NewRun ==
    ASSUME NEW r \in Run, Sess(r.s), NEW n, Negotiates(r.s.pri, n), NEW again \in BOOLEAN
    PROVE  /\ Keeps(r, [r EXCEPT !.s.pri = n, !.again = again])
           /\ \A o \in SUBSET PacketSet :
                 Keeps(r, [r EXCEPT !.s.pri = n, !.again = again, !.link = FALSE, !.out = o])
  <1> DEFINE t == [r.s EXCEPT !.pri = n]
  <1>1. /\ Sess(t) /\ t \in Session /\ t.pri = n /\ t.lame = r.s.lame /\ t.sid = r.s.sid
    BY NewPrimary DEF Negotiates, Sess
  <1> HIDE DEF t
  <1>2. [r EXCEPT !.s = t, !.again = again] \in Run /\ [r EXCEPT !.s = t, !.again = again].s = t
    BY <1>1, Zenon DEF Run
  <1>3. ASSUME NEW o \in SUBSET PacketSet
        PROVE  LET q == [r EXCEPT !.s = t, !.again = again, !.link = FALSE, !.out = o]
               IN  q \in Run /\ q.s = t
    BY Zenon, <1>1 DEF Run
  <1>4. \A q : q \in Run /\ q.s = t => Keeps(r, q)
    BY <1>1 DEF Keeps, Negotiates
  <1> QED
    BY <1>2, <1>3, <1>4, Zenon DEF t

\* A control packet is a packet.
LEMMA ControlPacketType ==
    ASSUME NEW s, Sess(s), NEW k, Key(k), NEW id \in Nat, NEW server \in BOOLEAN
    PROVE  ControlPacket(s, k, id, server) \in PacketSet
  <1>1. s.sid \in Sid /\ NoSid \in Sid
    BY TlsAssumption DEF Sess, Session, Sid
  <1>2. k.opcode \in {Nothing, "HARD", "SOFT"} /\ k.key_id \in 0..KeyIdMask /\ k.got \in Nat
    BY DEF Key, KeyState
  <1>3. k.with \in Sid /\ k.remote \in Sid
    BY DEF Key, KeyState
  <1>4. Record(IF id = 0 THEN "RESET" ELSE IF id = k.keyat THEN "KEY" ELSE "TLS", s.sid,
               IF id = 0 \/ (id = 1 /\ ~server) THEN NoSid ELSE k.with) \in TlsRecord
    BY <1>1, <1>3 DEF Record, TlsRecord
  <1>5. (IF id = 0 THEN k.opcode ELSE "CONTROL") \in {Nothing, "HARD", "SOFT", "CONTROL", "ACK"}
    BY <1>2
  <1> QED
    BY <1>1, <1>2, <1>3, <1>4, <1>5, Zenon DEF ControlPacket, PacketSet

\* A packet that only acknowledges is a packet.
LEMMA AckPacketType ==
    ASSUME NEW s, Sess(s), NEW server \in BOOLEAN
    PROVE  AckPacket(s, server) \in PacketSet
  <1>1. s.sid \in Sid /\ s.pri.key_id \in 0..KeyIdMask /\ s.pri.got \in Nat /\ s.pri.remote \in Sid
    BY DEF Sess, Session, Key, KeyState
  <1> QED
    BY <1>1, NoRecordType DEF AckPacket, PacketSet

\* Steps of a negotiation add up.
LEMMA NegotiatesTransitive ==
    ASSUME NEW k, NEW m, NEW n, Key(k), Negotiates(k, m), Negotiates(m, n)
    PROVE  Negotiates(k, n)
  BY DEF Negotiates

\* Reading, the exchange of keys and writing.
LEMMA StepNegotiates ==
    ASSUME NEW k, Key(k), NEW server \in BOOLEAN, NEW e \in Around
    PROVE  LET j == IF k.in = NoRecord THEN k ELSE ReadCiphertext(k, server)
           IN  Negotiates(k, Emit(ReceiveKey(SendKey(j, server), server, e), server))
  <1> DEFINE j == IF k.in = NoRecord THEN k ELSE ReadCiphertext(k, server)
             l == SendKey(j, server)
             m == ReceiveKey(l, server, e)
  <1>1. Negotiates(k, j)
    BY ReadNegotiates DEF Negotiates
  <1> HIDE DEF j
  <1>2. Negotiates(j, l)
    BY <1>1, ExchangeNegotiates DEF Negotiates
  <1> HIDE DEF l
  <1>3. Negotiates(l, m)
    BY <1>2, ExchangeNegotiates DEF Negotiates
  <1> HIDE DEF m
  <1>4. Negotiates(m, Emit(m, server))
    BY <1>3, ExchangeNegotiates DEF Negotiates
  <1>5. Negotiates(k, Emit(m, server))
    BY <1>1, <1>2, <1>3, <1>4 DEF Negotiates
  <1> QED
    BY <1>5 DEF m, l, j

\* One call of tls_process_state.
LEMMA ProcessStateKeeps ==
    ASSUME NEW r \in Run, Sess(r.s), NEW server \in BOOLEAN, NEW e \in Around
    PROVE  Keeps(r, tls_process_state(r, server, e))
  <1> DEFINE j == MoveInitial(r.s.pri)
             k == MoveActive(MoveStart(j), server)
  <1>1. Key(r.s.pri)
    BY DEF Sess
  <1>2. Negotiates(r.s.pri, j)
    BY <1>1, MovesNegotiate
  <1>3. ASSUME NEW n, Negotiates(r.s.pri, n)
        PROVE  Keeps(r, Error(r, n))
    <2>1. Negotiates(r.s.pri, [n EXCEPT !.state = S_ERROR_PRE])
      BY <1>3, Fails, Zenon DEF Negotiates
    <2> QED
      BY <2>1, NewRun, Zenon DEF Error
  <1>4. Negotiates(r.s.pri, k)
    <2> HIDE DEF j
    <2>1. Negotiates(j, MoveStart(j))
      BY <1>2, MovesNegotiate DEF Negotiates
    <2>2. Negotiates(MoveStart(j), k)
      BY <2>1, MovesNegotiate DEF Negotiates
    <2> QED
      BY <1>2, <2>1, <2>2 DEF Negotiates
  <1> HIDE DEF k
  <1>5. Keeps(r, Respond(r, k, server, e))
    <2> DEFINE n == [k EXCEPT !.rec_ack = FALSE]
               o == r.out \cup {ControlPacket(r.s, k, k.acked, server)}
               m == Emit(ReceiveKey(SendKey(IF k.in = NoRecord THEN k ELSE ReadCiphertext(k, server),
                                            server), server, e), server)
    <2>1. Key(k)
      BY <1>4 DEF Negotiates
    <2>2. Negotiates(r.s.pri, n)
      <3>1. n \in KeyState
        BY <2>1, Zenon DEF Key, KeyState
      <3> QED
        BY <3>1, <2>1, <1>4 DEF Negotiates, Key, KeyState
    <2>3. o \in SUBSET PacketSet
      <3>1. k.acked \in Nat /\ r.out \in SUBSET PacketSet
        BY <2>1 DEF Key, KeyState, Run
      <3> QED
        BY <3>1, <2>1, ControlPacketType
    <2> HIDE DEF n, o
    <2>4. Keeps(r, [r EXCEPT !.s.pri = n, !.again = FALSE, !.link = FALSE, !.out = o])
      BY Zenon, <2>2, <2>3, NewRun
    <2>5. Negotiates(r.s.pri, [k EXCEPT !.state = S_ERROR])
      BY <2>1, Fails, Zenon
    <2>6. Keeps(r, [r EXCEPT !.s.pri = [k EXCEPT !.state = S_ERROR], !.again = FALSE])
      BY Zenon, <2>5, NewRun
    <2>7. Negotiates(r.s.pri, m)
      BY <2>1, <1>4, StepNegotiates, NegotiatesTransitive DEF Negotiates
    <2> HIDE DEF m
    <2>8. Keeps(r, Done(r, m))
      BY Zenon, <2>7, NewRun DEF Done
    <2> QED
      BY <2>4, <2>6, <2>8, <1>3, <1>4, Zenon DEF Respond, n, o, m
  <1> QED
    BY <1>2, <1>3, <1>5, Zenon DEF tls_process_state, k

\* Rounds of the loop add up.
LEMMA KeepsTransitive ==
    ASSUME NEW r, NEW q, NEW p, Keeps(r, q), Keeps(q, p)
    PROVE  Keeps(r, p)
  BY DEF Keeps

\* One more round of the loop, if the last one asked for it.
LEMMA AgainKeeps ==
    ASSUME NEW r \in Run, Sess(r.s), NEW server \in BOOLEAN, NEW e \in Around
    PROVE  Keeps(r, Again(r, server, e))
  <1>1. Keeps(r, r)
    BY DEF Keeps
  <1> QED
    BY <1>1, ProcessStateKeeps, Zenon DEF Again

\* Three more rounds.
LEMMA Again3Keeps ==
    ASSUME NEW r \in Run, Sess(r.s), NEW server \in BOOLEAN, NEW e \in Around
    PROVE  Keeps(r, Again3(r, server, e))
  <1> DEFINE p == Again(r, server, e)
             q == Again(p, server, e)
  <1>1. Keeps(r, p)
    BY AgainKeeps, Zenon
  <1> HIDE DEF p
  <1>2. Keeps(p, q)
    BY <1>1, AgainKeeps, Zenon DEF Keeps
  <1> HIDE DEF q
  <1>3. Keeps(q, Again(q, server, e))
    BY <1>2, AgainKeeps, Zenon DEF Keeps
  <1>4. Keeps(r, Again(q, server, e))
    BY <1>1, <1>2, <1>3, KeepsTransitive, Zenon
  <1> QED
    BY <1>4 DEF Again3, p, q

\* The loop of tls_process.
LEMMA LoopKeeps ==
    ASSUME NEW r \in Run, Sess(r.s), NEW server \in BOOLEAN, NEW e \in Around
    PROVE  Keeps(r, ProcessLoop(r, server, e))
  <1> DEFINE p == Again3(r, server, e)
             q == Again3(p, server, e)
             t == Again3(q, server, e)
  <1>1. Keeps(r, p)
    BY Again3Keeps, Zenon
  <1> HIDE DEF p
  <1>2. Keeps(p, q)
    BY <1>1, Again3Keeps, Zenon DEF Keeps
  <1> HIDE DEF q
  <1>3. Keeps(q, t)
    BY <1>2, Again3Keeps, Zenon DEF Keeps
  <1> HIDE DEF t
  <1>4. Keeps(t, Again3(t, server, e))
    BY <1>3, Again3Keeps, Zenon DEF Keeps
  <1>5. Keeps(r, t)
    BY <1>1, <1>2, <1>3, KeepsTransitive, Zenon
  <1>6. Keeps(r, Again3(t, server, e))
    BY <1>4, <1>5, KeepsTransitive, Zenon
  <1> QED
    BY <1>6 DEF ProcessLoop, p, q, t

-----------------------------------------------------------------------------
(* Keys that begin and keys that retire *)

\* key_state_init makes the next key id.
LEMMA NextKeyId ==
    ASSUME NEW a \in 0..KeyIdMask
    PROVE  LET n == (a + 1) % (KeyIdMask + 1)
           IN  (IF n = 0 THEN 1 ELSE n) \in 0..KeyIdMask
  <1> DEFINE n == (a + 1) % (KeyIdMask + 1)
  <1>1. n \in 0..KeyIdMask
    BY TlsAssumption
  <1> QED
    BY <1>1, TlsAssumption

\* key_state_init: a new primary key beside the old one.
LEMMA KeyInitType ==
    ASSUME NEW s \in Session, Key(s.lame)
    PROVE  LET t == key_state_init(s)
           IN  /\ Sess(t) /\ t.sid = s.sid /\ t.lame = s.lame
               /\ t.pri.state = S_INITIAL
  <1> DEFINE p == [NoKey EXCEPT !.state = S_INITIAL, !.key_id = s.key_id, !.opcode = s.opcode]
             i == LET n == (s.key_id + 1) % (KeyIdMask + 1) IN IF n = 0 THEN 1 ELSE n
             t == [s EXCEPT !.pri = p, !.opcode = "SOFT", !.key_id = i]
  <1>1. s.key_id \in 0..KeyIdMask /\ s.opcode \in {Nothing, "HARD", "SOFT"}
    BY DEF Session
  <1>2. p \in KeyState
    <2>1. S_INITIAL \in S_ERROR..S_GENERATED_KEYS /\ NoKey \in KeyState
      BY NoKeyType DEF Key
    <2> QED
      BY <1>1, <2>1, Zenon DEF KeyState
  <1>3. Key(p) /\ p.state = S_INITIAL
    BY <1>2, NoKeyType DEF Key, KeyState
  <1>4. i \in 0..KeyIdMask
    BY <1>1, NextKeyId, Zenon
  <1> HIDE DEF p, i
  <1>5. t \in Session
    BY <1>2, <1>4, Zenon DEF Session
  <1>6. t.pri = p /\ t.sid = s.sid /\ t.lame = s.lame
    BY DEF Session
  <1>7. t = key_state_init(s)
    BY DEF key_state_init, p, i
  <1> QED
    BY <1>3, <1>5, <1>6, <1>7, Zenon DEF Sess

\* A cleared session is a session.
LEMMA NoSessionType == Sess(NoSession)
  BY NoKeyType, TlsAssumption DEF NoSession, Sess, Session, Key, Sid

\* tls_session_init
LEMMA SessionInitType ==
    ASSUME NEW sid \in Sid
    PROVE  LET t == tls_session_init(sid)
           IN  /\ Sess(t) /\ t.sid = sid /\ t.lame = NoKey /\ t.pri.state = S_INITIAL
  <1> DEFINE s == [NoSession EXCEPT !.sid = sid, !.opcode = "HARD"]
  <1>1. s \in Session /\ s.lame = NoKey /\ s.sid = sid
    <2>1. NoSession \in Session /\ NoSession.lame = NoKey
      BY NoSessionType DEF Sess, NoSession
    <2> QED
      BY Zenon, <2>1 DEF Session
  <1> HIDE DEF s
  <1> QED
    BY <1>1, KeyInitType, NoKeyType, Zenon DEF tls_session_init, s

\* key_state_soft_reset keeps the session.
LEMMA SoftResetType ==
    ASSUME NEW s, Sess(s)
    PROVE  Sess(key_state_soft_reset(s)) /\ key_state_soft_reset(s).sid = s.sid
  <1> DEFINE old == [Retired(s.pri) EXCEPT !.die = TransitionWindow]
             l == [s EXCEPT !.lame = old]
             n == key_state_init(l)
             p == [n.pri EXCEPT !.remote = old.remote, !.addr = old.addr]
  <1>1. Key(Retired(s.pri))
    BY RetiredType DEF Sess
  <1>2. old \in KeyState
    BY <1>1, StateAndTimerTypes, Zenon DEF Key, KeyState
  <1>3. Key(old) /\ old.remote \in Sid /\ old.addr \in {NoAddr, Addr}
    BY <1>1, <1>2 DEF Key, KeyState
  <1> HIDE DEF old
  <1>4. l \in Session /\ l.lame = old /\ l.sid = s.sid
    BY <1>2 DEF Sess, Session
  <1> HIDE DEF l
  <1>5. Sess(n) /\ n.sid = s.sid
    BY <1>3, <1>4, KeyInitType, Zenon
  <1> HIDE DEF n
  <1>6. p \in KeyState
    BY <1>3, <1>5, Zenon DEF Sess, Key, KeyState
  <1>7. Key(p)
    BY <1>5, <1>6 DEF Sess, Key, KeyState
  <1>8. key_state_soft_reset(s) = [n EXCEPT !.pri = p]
    BY DEF key_state_soft_reset, old, l, n
  <1> HIDE DEF p
  <1>9. Sess([n EXCEPT !.pri = p]) /\ [n EXCEPT !.pri = p].sid = n.sid
    BY <1>5, <1>7, NewPrimary
  <1> QED
    BY <1>5, <1>8, <1>9, Zenon

\* tls_process keeps the session id, and while a key is negotiated the old
\* one, unless its time is up.
LEMMA ProcessKeeps ==
    ASSUME NEW s, Sess(s), NEW link \in BOOLEAN, NEW server \in BOOLEAN, NEW e \in Around
    PROVE  LET r == tls_process(s, link, server, e)
           IN  /\ r \in Run /\ Sess(r.s) /\ r.s.sid = s.sid
               /\ s.pri.state < S_GENERATED_KEYS => r.s.pri.state < S_GENERATED_KEYS
               /\ s.pri.state < S_GENERATED_KEYS /\ ~lame_duck_must_die(s) => r.s.lame = s.lame
  <1> DEFINE a == Renegotiate(s, e)
             b == RetireOldKey(a)
             q == [s |-> b, link |-> link, out |-> {}, again |-> TRUE]
             p == ProcessLoop(q, server, e)
  <1>1. Sess(a) /\ a.sid = s.sid /\ (s.pri.state < S_GENERATED_KEYS => a = s)
    <2>1. s.pri.state \in Int
      BY DEF Sess, Key, KeyState
    <2> QED
      BY <2>1, SoftResetType DEF Renegotiate
  <1> HIDE DEF a
  <1>2. /\ Sess(b) /\ b.sid = a.sid /\ b.pri = a.pri
        /\ ~lame_duck_must_die(a) => b = a
    <2>1. /\ [a EXCEPT !.lame = NoKey] \in Session /\ [a EXCEPT !.lame = NoKey].lame = NoKey
          /\ [a EXCEPT !.lame = NoKey].pri = a.pri /\ [a EXCEPT !.lame = NoKey].sid = a.sid
      BY <1>1, NoKeyType DEF Sess, Session, Key
    <2> QED
      BY <1>1, <2>1, NoKeyType, Zenon DEF RetireOldKey, Sess
  <1> HIDE DEF b
  <1>3. q \in Run /\ q.s = b
    BY <1>2 DEF Run, Sess
  <1> HIDE DEF q
  <1>4. Keeps(q, p)
    BY <1>2, <1>3, LoopKeeps, Zenon
  <1> HIDE DEF p
  <1>5. Keeps(q, Acknowledge(p, server))
    <2> DEFINE k == [p.s.pri EXCEPT !.rec_ack = FALSE]
               o == p.out \cup {AckPacket(p.s, server)}
               t == [p.s EXCEPT !.pri = k]
               w == [p EXCEPT !.link = FALSE, !.out = o, !.s = t]
    <2>1. p \in Run /\ Sess(p.s) /\ Key(p.s.pri)
      BY <1>4 DEF Keeps, Sess
    <2>2. k \in KeyState
      BY <2>1, Zenon DEF Key, KeyState
    <2>3. Key(k) /\ k.state = p.s.pri.state
      BY <2>1, <2>2 DEF Key, KeyState
    <2>4. o \in SUBSET PacketSet
      BY <2>1, AckPacketType DEF Run
    <2> HIDE DEF k, o
    <2>5. Sess(t) /\ t.pri = k /\ t.lame = p.s.lame /\ t.sid = p.s.sid
      BY <2>1, <2>3, NewPrimary
    <2> HIDE DEF t
    <2>6. w \in Run
      BY <2>1, <2>4, <2>5, Zenon DEF Run, Sess
    <2>7. w.s = t
      BY <2>1 DEF Run
    <2>8. Keeps(p, w)
      BY <2>3, <2>5, <2>6, <2>7 DEF Keeps
    <2>9. Keeps(q, w)
      BY <2>8, <1>4, KeepsTransitive, Zenon
    <2> QED
      BY <1>4, <2>9, Zenon DEF Acknowledge, k, o, t
  <1>6. tls_process(s, link, server, e) = Acknowledge(p, server)
    BY DEF tls_process, p, q, b, a
  <1> QED
    BY <1>1, <1>2, <1>3, <1>5, <1>6, Zenon DEF Keeps

-----------------------------------------------------------------------------
(* struct tls_multi *)

MultiOK(m) == m \in Multi /\ \A i \in TM : Sess(m.session[i])

\* n is m but for the sessions of S and multi_state.
SameBut(m, n, S) ==
    /\ n.server = m.server /\ n.mode = m.mode
    /\ \A i \in TM \ S : n.session[i] = m.session[i]

\* One member of the session array is replaced.
LEMMA PutSession ==
    ASSUME NEW m, MultiOK(m), NEW i \in TM, NEW s, Sess(s)
    PROVE  LET n == [m EXCEPT !.session[i] = s]
           IN  /\ MultiOK(n) /\ n.session[i] = s /\ SameBut(m, n, {i})
               /\ n.state = m.state /\ n.sessions = m.sessions /\ n.serial = m.serial
  <1> DEFINE f == [m.session EXCEPT ![i] = s]
             n == [m EXCEPT !.session = f]
  <1>1. m.session \in [TM -> Session] /\ s \in Session
    BY DEF MultiOK, Multi, Sess
  <1>2. f \in [TM -> Session] /\ f[i] = s /\ \A j \in TM \ {i} : f[j] = m.session[j]
    BY <1>1, Zenon
  <1> HIDE DEF f
  <1>3. n \in Multi
    BY <1>2, Zenon DEF MultiOK, Multi
  <1>4. /\ n.session = f /\ n.server = m.server /\ n.mode = m.mode
        /\ n.state = m.state /\ n.sessions = m.sessions /\ n.serial = m.serial
    BY DEF MultiOK, Multi
  <1> HIDE DEF n
  <1>5. \A j \in TM : Sess(n.session[j])
    BY <1>2, <1>4 DEF MultiOK
  <1>6. MultiOK(n) /\ n.session[i] = s /\ SameBut(m, n, {i})
    BY <1>2, <1>3, <1>4, <1>5 DEF MultiOK, SameBut
  <1> QED
    BY <1>4, <1>6, Zenon DEF n, f

\* multi_state changes.
LEMMA PutState ==
    ASSUME NEW m, MultiOK(m), NEW v \in DOMAIN CasRank
    PROVE  LET n == [m EXCEPT !.state = v]
           IN  MultiOK(n) /\ n.session = m.session /\ n.server = m.server /\ n.mode = m.mode
  <1> DEFINE n == [m EXCEPT !.state = v]
  <1>1. n \in Multi
    BY Zenon DEF MultiOK, Multi
  <1>2. n.session = m.session /\ n.server = m.server /\ n.mode = m.mode
    BY DEF MultiOK, Multi
  <1> QED
    BY <1>1, <1>2 DEF MultiOK

\* tls_session_init on session i.
LEMMA InitSessionType ==
    ASSUME NEW m, MultiOK(m), NEW i \in TM
    PROVE  LET n == InitSession(m, i)
           IN  /\ MultiOK(n) /\ SameBut(m, n, {i}) /\ n.state = m.state
               /\ n.session[i].lame.state = S_UNDEF /\ n.session[i].pri.state = S_INITIAL
  <1> DEFINE sid == Fresh(m, i)
             t == tls_session_init(sid)
             a == [m EXCEPT !.session[i] = t]
             v == IF SidsRecur THEN m.serial ELSE sid
             n == [a EXCEPT !.serial = v]
  <1>1. sid \in 1..SidCount
    BY TlsAssumption DEF Fresh
  <1> HIDE DEF sid
  <1>2. sid \in Sid /\ v \in 0..SidCount
    BY <1>1, TlsAssumption DEF MultiOK, Multi, Sid
  <1>3. Sess(t) /\ t.lame = NoKey /\ t.pri.state = S_INITIAL
    BY <1>2, SessionInitType
  <1> HIDE DEF t, v
  <1>4. MultiOK(a) /\ a.session[i] = t /\ SameBut(m, a, {i}) /\ a.state = m.state
    BY <1>3, PutSession
  <1> HIDE DEF a
  <1>5. n \in Multi
    BY <1>2, <1>4, Zenon DEF MultiOK, Multi
  <1>6. n.session = a.session /\ n.server = a.server /\ n.mode = a.mode /\ n.state = a.state
    BY <1>4 DEF MultiOK, Multi
  <1>7. n = InitSession(m, i)
    BY DEF InitSession, n, a, t, v, sid
  <1> HIDE DEF n
  <1>8. MultiOK(n) /\ SameBut(m, n, {i})
    BY <1>4, <1>5, <1>6 DEF MultiOK, SameBut
  <1> QED
    BY <1>3, <1>4, <1>6, <1>7, <1>8, NoKeyType, Zenon

\* move_session: dest has the old key and the id of src, and src starts anew.
LEMMA MoveSessionType ==
    ASSUME NEW m, MultiOK(m), NEW dest \in TM, NEW src \in TM, dest # src
    PROVE  LET n == move_session(m, dest, src)
           IN  /\ MultiOK(n) /\ SameBut(m, n, {dest, src}) /\ n.state = m.state
               /\ n.session[dest].sid = m.session[src].sid
               /\ n.session[dest].lame = m.session[src].lame
               /\ n.session[dest].pri.state = m.session[src].pri.state
               /\ n.session[src].lame.state = S_UNDEF /\ n.session[src].pri.state = S_INITIAL
  <1> DEFINE s == m.session[src]
             t == IF dest = "LAME_DUCK" THEN [s EXCEPT !.pri = Retired(@)] ELSE s
             a == [m EXCEPT !.session[dest] = t]
             n == InitSession(a, src)
  <1>1. Sess(s)
    BY DEF MultiOK
  <1>2. Sess(t) /\ t.sid = s.sid /\ t.lame = s.lame /\ t.pri.state = s.pri.state
    <2>1. Key(Retired(s.pri)) /\ Retired(s.pri).state = s.pri.state
      BY <1>1, RetiredType DEF Sess
    <2>2. LET u == [s EXCEPT !.pri = Retired(s.pri)]
          IN  Sess(u) /\ u.sid = s.sid /\ u.lame = s.lame /\ u.pri = Retired(s.pri)
      <3> HIDE DEF s
      <3> QED
        BY <1>1, <2>1, NewPrimary
    <2> QED
      BY <1>1, <2>1, <2>2
  <1> HIDE DEF t
  <1>3. MultiOK(a) /\ a.session[dest] = t /\ SameBut(m, a, {dest}) /\ a.state = m.state
    BY <1>2, PutSession
  <1> HIDE DEF a
  <1>4. /\ MultiOK(n) /\ SameBut(a, n, {src}) /\ n.state = a.state
        /\ n.session[src].lame.state = S_UNDEF /\ n.session[src].pri.state = S_INITIAL
    BY <1>3, InitSessionType
  <1>5. n = move_session(m, dest, src)
    BY DEF move_session, n, a, t
  <1> HIDE DEF n
  <1>6. n.session[dest] = t /\ SameBut(m, n, {dest, src})
    BY <1>3, <1>4 DEF SameBut
  <1> HIDE DEF s
  <1> QED
    BY <1>2, <1>3, <1>4, <1>5, <1>6, Zenon DEF s

\* What the session loop of tls_multi_process works on.
Work == [multi : Multi, link : BOOLEAN, out : SUBSET PacketSet, error : BOOLEAN]
WorkOK(x) == x \in Work /\ MultiOK(x.multi)

\* A session that has no data channel keys.
Untrusted(s) == s.pri.state < S_GENERATED_KEYS /\ s.lame.state = S_UNDEF

\* The old key of session s, whose time is not up, while the next is negotiated.
Negotiating(s) ==
    /\ s.lame.state >= S_GENERATED_KEYS /\ s.lame.die > 0
    /\ s.pri.state < S_GENERATED_KEYS

\* The old key of session s is there, in its session or in TM_LAME_DUCK.
Held(m, s) ==
    \/ m.session["ACTIVE"].sid = s.sid /\ m.session["ACTIVE"].lame = s.lame
    \/ /\ m.session["LAME_DUCK"].sid = s.sid /\ m.session["LAME_DUCK"].lame = s.lame
       /\ m.session["LAME_DUCK"].pri.state = S_ERROR

\* What one round of the session loop does to session i.
Processed(m, n, i) ==
    /\ SameBut(m, n, IF i = "ACTIVE" THEN {"ACTIVE", "LAME_DUCK"} ELSE {i})
    /\ Untrusted(m.session[i]) =>
          /\ Untrusted(n.session[i])
          /\ n.session[i].sid = m.session[i].sid \/ n.session[i].pri.state = S_INITIAL
    /\ i = "ACTIVE" /\ ~SingleSession /\ Negotiating(m.session[i]) => Held(n, m.session[i])

\* A failed session is given up; a usable old key is kept.
LEMMA AfterProcessType ==
    ASSUME NEW x, WorkOK(x), NEW i \in TM, NEW m, MultiOK(m), NEW r \in Run,
           SameBut(x.multi, m, {i}), m.session[i] = r.s,
           Untrusted(x.multi.session[i]) => Untrusted(r.s) /\ r.s.sid = x.multi.session[i].sid,
           Negotiating(x.multi.session[i]) => r.s.lame = x.multi.session[i].lame
                                              /\ r.s.sid = x.multi.session[i].sid
    PROVE  LET y == AfterProcess(x, i, m, r)
           IN  WorkOK(y) /\ Processed(x.multi, y.multi, i)
  <1> DEFINE keep == i = "ACTIVE" /\ r.s.lame.state >= S_GENERATED_KEYS /\ ~SingleSession
             n == IF r.s.pri.state # S_ERROR THEN m
                  ELSE IF keep THEN move_session(m, "LAME_DUCK", "ACTIVE") ELSE reset_session(m, i)
             y == AfterProcess(x, i, m, r)
  <1>1. /\ "ACTIVE" \in TM /\ "LAME_DUCK" \in TM /\ "INITIAL" \in TM
        /\ TM = {"ACTIVE", "INITIAL", "LAME_DUCK"}
    BY Zenon DEF TM
  <1>2. MultiOK(n) /\ Processed(x.multi, n, i)
    <2>1. CASE r.s.pri.state # S_ERROR
      BY <2>1, Zenon DEF Processed, SameBut, Held
    <2>2. CASE r.s.pri.state = S_ERROR /\ keep
      <3> DEFINE o == move_session(m, "LAME_DUCK", "ACTIVE")
      <3>1. /\ MultiOK(o) /\ SameBut(m, o, {"ACTIVE", "LAME_DUCK"})
            /\ o.session["LAME_DUCK"].sid = m.session["ACTIVE"].sid
            /\ o.session["LAME_DUCK"].lame = m.session["ACTIVE"].lame
            /\ o.session["LAME_DUCK"].pri.state = m.session["ACTIVE"].pri.state
            /\ o.session["ACTIVE"].lame.state = S_UNDEF /\ o.session["ACTIVE"].pri.state = S_INITIAL
        BY <1>1, MoveSessionType
      <3> HIDE DEF o
      <3>a. Untrusted(o.session["ACTIVE"])
        BY <3>1 DEF Untrusted
      <3>2. Processed(x.multi, o, i)
        BY <3>1, <3>a, <2>2, Zenon DEF Processed, SameBut, Held
      <3>3. n = o
        BY <2>2 DEF o
      <3> QED
        BY <3>1, <3>2, <3>3, Zenon
    <2>3. CASE r.s.pri.state = S_ERROR /\ ~keep
      <3> DEFINE o == reset_session(m, i)
      <3>1. /\ MultiOK(o) /\ SameBut(m, o, {i})
            /\ o.session[i].lame.state = S_UNDEF /\ o.session[i].pri.state = S_INITIAL
        BY InitSessionType DEF reset_session
      <3> HIDE DEF o
      <3>a. Untrusted(o.session[i])
        BY <3>1 DEF Untrusted
      <3>2. Processed(x.multi, o, i)
        BY <3>1, <3>a, <2>3, Zenon DEF Processed, SameBut, Negotiating
      <3>3. n = o
        BY <2>3 DEF o
      <3> QED
        BY <3>1, <3>2, <3>3, Zenon
    <2> QED
      BY <2>1, <2>2, <2>3, Zenon
  <1>3. y \in Work /\ y.multi = n
    <2>1. n \in Multi /\ r.link \in BOOLEAN /\ x.out \cup r.out \in SUBSET PacketSet
      BY <1>2 DEF MultiOK, Run, WorkOK, Work
    <2> HIDE DEF n
    <2>2. \A b \in BOOLEAN :
             LET z == [x EXCEPT !.multi = n, !.link = r.link, !.out = @ \cup r.out]
                 w == [x EXCEPT !.multi = n, !.link = r.link, !.out = @ \cup r.out, !.error = b]
             IN  z \in Work /\ z.multi = n /\ w \in Work /\ w.multi = n
      BY Zenon, <2>1 DEF WorkOK, Work
    <2> QED
      BY Zenon, <2>2 DEF AfterProcess, n, WorkOK, Work
  <1> QED
    BY <1>2, <1>3, Zenon DEF WorkOK

\* The result of tls_process goes back into the session array.
LEMMA StoreType ==
    ASSUME NEW x, WorkOK(x), NEW i \in TM, NEW e \in Around
    PROVE  LET y == Store(x, i, tls_process(x.multi.session[i], x.link, x.multi.server, e))
           IN  WorkOK(y) /\ Processed(x.multi, y.multi, i)
  <1> DEFINE s == x.multi.session[i]
             r == tls_process(s, x.link, x.multi.server, e)
             v == AfterActive(x.multi, i, r)
             a == [x.multi EXCEPT !.session[i] = r.s]
             m == [a EXCEPT !.state = v]
  <1>1. MultiOK(x.multi) /\ Sess(s) /\ x.link \in BOOLEAN /\ x.multi.server \in BOOLEAN
    BY TlsAssumption DEF WorkOK, Work, MultiOK, Multi
  <1>2. /\ r \in Run /\ Sess(r.s) /\ r.s.sid = s.sid
        /\ s.pri.state < S_GENERATED_KEYS => r.s.pri.state < S_GENERATED_KEYS
        /\ s.pri.state < S_GENERATED_KEYS /\ ~lame_duck_must_die(s) => r.s.lame = s.lame
    <2> HIDE DEF s
    <2> QED
      BY <1>1, ProcessKeeps, Zenon
  <1> HIDE DEF r
  <1>3. s.lame.state \in Int /\ s.lame.die \in Int
    BY <1>1, KeyNumbers, Zenon DEF Sess
  <1>4. Untrusted(s) => Untrusted(r.s)
    BY <1>2, <1>3 DEF Untrusted, lame_duck_must_die
  <1>5. Negotiating(s) => r.s.lame = s.lame
    BY <1>2, <1>3 DEF Negotiating, lame_duck_must_die
  <1>6. v \in DOMAIN CasRank
    <2>1. x.multi.state \in DOMAIN CasRank
      BY <1>1 DEF MultiOK, Multi
    <2> QED
      BY <2>1 DEF AfterActive, CasRank
  <1> HIDE DEF v
  <1>7. MultiOK(a) /\ a.session[i] = r.s /\ SameBut(x.multi, a, {i})
    BY <1>1, <1>2, PutSession
  <1> HIDE DEF a
  <1>8. MultiOK(m) /\ m.session = a.session /\ m.server = a.server /\ m.mode = a.mode
    BY <1>6, <1>7, PutState
  <1>9. m = [x.multi EXCEPT !.session[i] = r.s, !.state = v]
    BY DEF m, a
  <1> HIDE DEF m
  <1>10. MultiOK(m) /\ m.session[i] = r.s /\ SameBut(x.multi, m, {i})
    BY <1>7, <1>8, Zenon DEF SameBut
  <1>11. LET y == AfterProcess(x, i, m, r)
         IN  WorkOK(y) /\ Processed(x.multi, y.multi, i)
    BY <1>2, <1>4, <1>5, <1>10, AfterProcessType, Zenon
  <1> QED
    BY <1>9, <1>11, Zenon DEF Store, r, v

\* A session that is not run.
LEMMA ProcessedTrivially ==
    ASSUME NEW m, NEW i \in TM
    PROVE  Processed(m, m, i)
  BY Zenon DEF Processed, SameBut, Held

\* One round of the session loop.
LEMMA ProcessSessionType ==
    ASSUME NEW x, WorkOK(x), NEW i \in TM, NEW e \in Around
    PROVE  LET y == ProcessSession(x, i, Addr, e)
           IN  WorkOK(y) /\ Processed(x.multi, y.multi, i)
  <1> DEFINE s == x.multi.session[i]
             k == [s.pri EXCEPT !.addr = Addr]
             t == [s EXCEPT !.pri = k]
             n == [x.multi EXCEPT !.session[i] = t]
             z == [x EXCEPT !.multi = n]
             y == LearnAddress(x, i, Addr)
  <1>1. MultiOK(x.multi) /\ Sess(s) /\ Key(s.pri)
    BY DEF WorkOK, MultiOK, Sess
  <1>2. k \in KeyState
    <2>1. Addr \in {NoAddr, Addr}
      OBVIOUS
    <2> HIDE DEF s
    <2> QED
      BY <1>1, <2>1, Zenon DEF Key, KeyState
  <1>3. Key(k) /\ k.state = s.pri.state
    BY Zenon, <1>1, <1>2 DEF Key, KeyState
  <1> HIDE DEF k
  <1>4. Sess(t) /\ t.pri = k /\ t.lame = s.lame /\ t.sid = s.sid
    <2> HIDE DEF s
    <2> QED
      BY <1>1, <1>3, NewPrimary
  <1> HIDE DEF t
  <1>5. MultiOK(n) /\ n.session[i] = t /\ SameBut(x.multi, n, {i})
    BY <1>1, <1>4, PutSession
  <1>6. z = [x EXCEPT !.multi.session[i].pri.addr = Addr]
    BY DEF z, n, t, k
  <1> HIDE DEF n
  <1>7. WorkOK(z) /\ z.multi = n
    <2>1. z \in Work /\ z.multi = n
      BY <1>5, Zenon DEF WorkOK, Work, MultiOK
    <2> QED
      BY <2>1, <1>5 DEF WorkOK
  <1> HIDE DEF z
  <1>8. /\ WorkOK(y) /\ SameBut(x.multi, y.multi, {i})
        /\ y.multi.session[i].pri.state = s.pri.state
        /\ y.multi.session[i].lame = s.lame /\ y.multi.session[i].sid = s.sid
        /\ i # "INITIAL" => y = x
    BY <1>3, <1>4, <1>5, <1>6, <1>7, Zenon DEF LearnAddress, SameBut
  <1> HIDE DEF y
  <1>9. LET w == RunSession(y, i, e)
        IN  WorkOK(w) /\ Processed(y.multi, w.multi, i)
    BY <1>8, StoreType, ProcessedTrivially, Zenon DEF RunSession
  <1>10. ASSUME NEW w, Processed(y.multi, w, i)
         PROVE  Processed(x.multi, w, i)
    BY <1>8, <1>10, Zenon DEF Processed, SameBut, Untrusted
  <1> QED
    BY <1>9, <1>10, Zenon DEF ProcessSession, y

\* A lame duck session whose primary key failed is not run.
LEMMA LameDuckRests ==
    ASSUME NEW x, NEW e, x.multi.session["LAME_DUCK"].pri.state = S_ERROR
    PROVE  ProcessSession(x, "LAME_DUCK", Addr, e) = x
  <1>1. LearnAddress(x, "LAME_DUCK", Addr) = x
    BY DEF LearnAddress
  <1>2. RunSession(x, "LAME_DUCK", e) = x
    BY DEF RunSession
  <1> QED
    BY <1>1, <1>2, Zenon DEF ProcessSession

\* The session loop: TM_INITIAL gets no data keys, and the old key of
\* TM_ACTIVE is kept.
LEMMA ProcessSessionsType ==
    ASSUME NEW m, MultiOK(m), NEW e, e.active \in Around, e.initial \in Around,
           Untrusted(m.session["INITIAL"])
    PROVE  LET x == ProcessSessions(m, Addr, e)
               n == x.multi
           IN  /\ WorkOK(x)
               /\ Untrusted(n.session["INITIAL"])
               /\ \/ n.session["INITIAL"].sid = m.session["INITIAL"].sid
                  \/ n.session["INITIAL"].pri.state = S_INITIAL
               /\ ~SingleSession /\ Negotiating(m.session["ACTIVE"]) => Held(n, m.session["ACTIVE"])
  <1> DEFINE x == [multi |-> m, link |-> TRUE, out |-> {}, error |-> FALSE]
             y == ProcessSession(x, "ACTIVE", Addr, e.active)
             z == ProcessSession(y, "INITIAL", Addr, e.initial)
             w == ProcessSession(z, "LAME_DUCK", Addr, e.active)
  <1>1. WorkOK(x) /\ x.multi = m
    BY DEF WorkOK, Work, MultiOK
  <1>2. "ACTIVE" \in TM /\ "LAME_DUCK" \in TM /\ "INITIAL" \in TM
    BY Zenon DEF TM
  <1> HIDE DEF x
  <1>3. WorkOK(y) /\ Processed(m, y.multi, "ACTIVE")
    BY <1>1, <1>2, ProcessSessionType, Zenon
  <1> HIDE DEF y
  <1>4. WorkOK(z) /\ Processed(y.multi, z.multi, "INITIAL")
    BY <1>2, <1>3, ProcessSessionType, Zenon
  <1> HIDE DEF z
  <1>5. WorkOK(w) /\ Processed(z.multi, w.multi, "LAME_DUCK")
    BY <1>2, <1>4, ProcessSessionType, Zenon
  <1>6. z.multi.session["LAME_DUCK"].pri.state = S_ERROR => w = z
    BY LameDuckRests, Zenon DEF w
  <1> HIDE DEF w
  <1>7. y.multi.session["INITIAL"] = m.session["INITIAL"]
    BY <1>2, <1>3, Zenon DEF Processed, SameBut
  <1>8. /\ z.multi.session["ACTIVE"] = y.multi.session["ACTIVE"]
        /\ z.multi.session["LAME_DUCK"] = y.multi.session["LAME_DUCK"]
    BY <1>2, <1>4, Zenon DEF Processed, SameBut
  <1>9. /\ w.multi.session["ACTIVE"] = z.multi.session["ACTIVE"]
        /\ w.multi.session["INITIAL"] = z.multi.session["INITIAL"]
    BY <1>2, <1>5, Zenon DEF Processed, SameBut
  <1>10. ~SingleSession /\ Negotiating(m.session["ACTIVE"]) => Held(y.multi, m.session["ACTIVE"])
    BY <1>3, Zenon DEF Processed
  <1>11. ~SingleSession /\ Negotiating(m.session["ACTIVE"]) => Held(w.multi, m.session["ACTIVE"])
    BY <1>6, <1>8, <1>9, <1>10, Zenon DEF Held
  <1>12. /\ Untrusted(w.multi.session["INITIAL"])
         /\ \/ w.multi.session["INITIAL"].sid = m.session["INITIAL"].sid
            \/ w.multi.session["INITIAL"].pri.state = S_INITIAL
    BY <1>4, <1>7, <1>9, Zenon DEF Processed
  <1> QED
    BY <1>5, <1>11, <1>12, Zenon DEF ProcessSessions, w, z, y, x

\* The part of a key the data channel looks at, except the verdict.
SameKey(k, n) == /\ Key(n) /\ n.state = k.state /\ n.key_id = k.key_id /\ n.die = k.die

\* update_key_auth_status changes the verdict only.
LEMMA AuthStatusType ==
    ASSUME NEW k, Key(k), NEW verdict
    PROVE  SameKey(k, update_key_auth_status(k, verdict))
  <1>1. ASSUME NEW a \in {"FALSE", "TRUE"}
        PROVE  SameKey(k, [k EXCEPT !.auth = a])
    <2>1. [k EXCEPT !.auth = a] \in KeyState
      BY Zenon DEF Key, KeyState
    <2> QED
      BY <2>1 DEF SameKey, Key, KeyState
  <1>2. SameKey(k, k)
    BY DEF SameKey
  <1> QED
    BY <1>1, <1>2, Zenon DEF update_key_auth_status

\* Session t is s but for the verdicts on its keys.
SameSession(s, t) == Sess(t) /\ t.sid = s.sid /\ SameKey(s.pri, t.pri) /\ SameKey(s.lame, t.lame)

\* A session with another old key.
LEMMA NewLame ==
    ASSUME NEW s, Sess(s), NEW n, Key(n)
    PROVE  LET t == [s EXCEPT !.lame = n]
           IN  Sess(t) /\ t.pri = s.pri /\ t.lame = n /\ t.sid = s.sid
  <1> DEFINE t == [s EXCEPT !.lame = n]
  <1>1. t \in Session
    BY Zenon DEF Sess, Session, Key
  <1>2. t.pri = s.pri /\ t.lame = n /\ t.sid = s.sid
    BY DEF Sess, Session
  <1> QED
    BY <1>1, <1>2 DEF Sess

\* tls_authentication_status only changes verdicts, and none of TM_INITIAL.
LEMMA UpdateAuthType ==
    ASSUME NEW m, MultiOK(m), NEW verdict
    PROVE  LET n == UpdateAuth(m, verdict)
           IN  /\ MultiOK(n) /\ SameBut(m, n, {"ACTIVE", "LAME_DUCK"}) /\ n.state = m.state
               /\ SameSession(m.session["ACTIVE"], n.session["ACTIVE"])
               /\ SameSession(m.session["LAME_DUCK"], n.session["LAME_DUCK"])
  <1> DEFINE Update(k) == IF TLS_AUTHENTICATED(m, k) THEN update_key_auth_status(k, verdict) ELSE k
             s == m.session["ACTIVE"]
             l == m.session["LAME_DUCK"]
             b == [s EXCEPT !.pri = Update(s.pri), !.lame = Update(s.lame)]
             c == [l EXCEPT !.lame = Update(l.lame)]
             a == [m EXCEPT !.session["ACTIVE"] = b]
             n == [a EXCEPT !.session["LAME_DUCK"] = c]
  <1>1. "ACTIVE" \in TM /\ "LAME_DUCK" \in TM
    BY Zenon DEF TM
  <1>2. Sess(s) /\ Sess(l) /\ Key(s.pri) /\ Key(s.lame) /\ Key(l.pri) /\ Key(l.lame)
    BY <1>1 DEF MultiOK, Sess
  <1>3. n = UpdateAuth(m, verdict)
    BY DEF UpdateAuth
  <1>4. ASSUME NEW k, Key(k) PROVE SameKey(k, Update(k)) /\ Key(Update(k))
    BY <1>4, AuthStatusType DEF SameKey
  <1> HIDE DEF Update, a, n
  <1>5. SameSession(s, b)
    <2> HIDE DEF s, c
    <2>1. /\ Key(Update(s.pri)) /\ Key(Update(s.lame))
          /\ SameKey(s.pri, Update(s.pri)) /\ SameKey(s.lame, Update(s.lame))
      BY <1>2, <1>4
    <2> DEFINE p == Update(s.pri)
               q == Update(s.lame)
               t == [s EXCEPT !.pri = p, !.lame = q]
    <2>2. b = t
      BY DEF b
    <2> HIDE DEF p, q, b
    <2>3. Key(p) /\ Key(q)
      BY <2>1 DEF p, q
    <2>4. Sess(t) /\ t.pri = p /\ t.lame = q /\ t.sid = s.sid
      <3>1. t \in Session
        BY <2>3, <1>2, Zenon DEF Sess, Session, Key
      <3>2. t.pri = p /\ t.lame = q /\ t.sid = s.sid
        BY <1>2 DEF Sess, Session
      <3> HIDE DEF t
      <3> QED
        BY <2>3, <3>1, <3>2 DEF Sess
    <2> HIDE DEF t
    <2> QED
      BY <2>1, <2>2, <2>4 DEF SameSession, p, q
  <1>6. SameSession(l, c)
    <2> HIDE DEF l, b
    <2>1. Key(Update(l.lame)) /\ SameKey(l.lame, Update(l.lame)) /\ SameKey(l.pri, l.pri)
      BY <1>2, <1>4 DEF SameKey
    <2>2. Sess(c) /\ c.pri = l.pri /\ c.lame = Update(l.lame) /\ c.sid = l.sid
      BY <2>1, <1>2, NewLame
    <2> QED
      BY <2>1, <2>2 DEF SameSession
  <1> HIDE DEF b, c, s, l
  <1>7. MultiOK(a) /\ a.session["ACTIVE"] = b /\ SameBut(m, a, {"ACTIVE"}) /\ a.state = m.state
    BY <1>1, <1>5, PutSession DEF SameSession, a
  <1>8. /\ MultiOK(n) /\ n.session["LAME_DUCK"] = c /\ SameBut(a, n, {"LAME_DUCK"})
        /\ n.state = a.state
    BY <1>1, <1>6, <1>7, PutSession DEF SameSession, n
  <1>9. /\ SameBut(m, n, {"ACTIVE", "LAME_DUCK"}) /\ n.session["ACTIVE"] = b
    BY <1>1, <1>7, <1>8, Zenon DEF SameBut
  <1> QED
    BY <1>3, <1>5, <1>6, <1>7, <1>8, <1>9, Zenon DEF s, l

\* The primary key of TM_ACTIVE changes.
LEMMA PutActiveKey ==
    ASSUME NEW m, MultiOK(m), NEW k, Key(k)
    PROVE  LET n == [m EXCEPT !.session["ACTIVE"].pri = k]
           IN  /\ MultiOK(n) /\ SameBut(m, n, {"ACTIVE"}) /\ n.state = m.state
               /\ n.session["ACTIVE"].pri = k
               /\ n.session["ACTIVE"].lame = m.session["ACTIVE"].lame
               /\ n.session["ACTIVE"].sid = m.session["ACTIVE"].sid
  <1> DEFINE s == m.session["ACTIVE"]
             t == [s EXCEPT !.pri = k]
             n == [m EXCEPT !.session["ACTIVE"] = t]
  <1>1. "ACTIVE" \in TM /\ Sess(s)
    BY DEF TM, MultiOK
  <1>2. Sess(t) /\ t.pri = k /\ t.lame = s.lame /\ t.sid = s.sid
    <2> HIDE DEF s
    <2> QED
      BY <1>1, NewPrimary
  <1> HIDE DEF t
  <1>3. /\ MultiOK(n) /\ n.session["ACTIVE"] = t /\ SameBut(m, n, {"ACTIVE"}) /\ n.state = m.state
    BY <1>1, <1>2, PutSession
  <1>4. n = [m EXCEPT !.session["ACTIVE"].pri = k]
    BY DEF n, t
  <1> HIDE DEF n, s
  <1> QED
    BY <1>2, <1>3, <1>4, Zenon DEF s

\* Data channel keys are generated, or failing that the key is given up.
LEMMA GenerateKeysType ==
    ASSUME NEW m, MultiOK(m), NEW e
    PROVE  LET n == GenerateKeys(m, e)
           IN  /\ MultiOK(n) /\ SameBut(m, n, {"ACTIVE"}) /\ n.state = m.state
               /\ n.session["ACTIVE"].lame = m.session["ACTIVE"].lame
               /\ n.session["ACTIVE"].sid = m.session["ACTIVE"].sid
  <1> DEFINE k == m.session["ACTIVE"].pri
             a == [k EXCEPT !.state = S_GENERATED_KEYS]
             b == [k EXCEPT !.auth = "FALSE", !.state = S_ERROR_PRE]
             Kept(n) == /\ MultiOK(n) /\ SameBut(m, n, {"ACTIVE"}) /\ n.state = m.state
                        /\ n.session["ACTIVE"].lame = m.session["ACTIVE"].lame
                        /\ n.session["ACTIVE"].sid = m.session["ACTIVE"].sid
  <1>1. Key(k)
    BY DEF MultiOK, TM, Sess
  <1>2. Key(a)
    <2> HIDE DEF k
    <2>1. S_GENERATED_KEYS \in S_ERROR..S_GENERATED_KEYS
      OBVIOUS
    <2> QED
      BY <1>1, <2>1, NewState, Zenon
  <1>3. Key(b)
    <2> HIDE DEF k
    <2>1. S_ERROR_PRE \in S_ERROR..S_GENERATED_KEYS
      OBVIOUS
    <2>2. b \in KeyState
      BY <1>1, <2>1, Zenon DEF Key, KeyState
    <2>3. b.acked = k.acked /\ b.sent = k.sent
      BY <1>1 DEF Key, KeyState
    <2> QED
      BY <1>1, <2>2, <2>3, Zenon DEF Key
  <1>4. generate_data_channel_keys(m) = [m EXCEPT !.session["ACTIVE"].pri = a]
    BY DEF generate_data_channel_keys
  <1> HIDE DEF a, b
  <1>5. Kept(m)
    BY DEF SameBut
  <1>6. Kept([m EXCEPT !.session["ACTIVE"].pri = a])
    BY <1>2, PutActiveKey, Zenon
  <1>7. Kept([m EXCEPT !.session["ACTIVE"].pri = b])
    BY <1>3, PutActiveKey, Zenon
  <1>8. \/ GenerateKeys(m, e) = m
        \/ GenerateKeys(m, e) = generate_data_channel_keys(m)
        \/ GenerateKeys(m, e) = [m EXCEPT !.session["ACTIVE"].pri = b]
    BY Zenon DEF GenerateKeys, get_primary_key, b
  <1> HIDE DEF Kept
  <1>9. Kept(GenerateKeys(m, e))
    BY <1>4, <1>5, <1>6, <1>7, <1>8, Zenon
  <1> QED
    BY <1>9, Zenon DEF Kept

\* The lame duck session is given up only when its time is up.
LEMMA FinishSetupType ==
    ASSUME NEW m, MultiOK(m), NEW status
    PROVE  LET n == FinishSetup(m, status)
           IN  /\ MultiOK(n) /\ SameBut(m, n, {"LAME_DUCK"})
               /\ ~lame_duck_must_die(m.session["LAME_DUCK"]) =>
                     n.session["LAME_DUCK"] = m.session["LAME_DUCK"]
  <1> DEFINE l == m.session["LAME_DUCK"]
             v == IF m.state = "WAITING_AUTH" /\ status = "SUCCEEDED" THEN "PENDING" ELSE m.state
             t == IF lame_duck_must_die(l) THEN NoSession ELSE l
             a == [m EXCEPT !.state = v]
             n == [a EXCEPT !.session["LAME_DUCK"] = t]
  <1>1. "LAME_DUCK" \in TM /\ Sess(l)
    BY DEF TM, MultiOK
  <1>2. Sess(t)
    BY <1>1, NoSessionType
  <1>3. v \in DOMAIN CasRank
    <2>1. m.state \in DOMAIN CasRank
      BY DEF MultiOK, Multi
    <2> QED
      BY <2>1 DEF CasRank
  <1>4. n = FinishSetup(m, status)
    BY DEF FinishSetup
  <1>5. ~lame_duck_must_die(l) => t = l
    OBVIOUS
  <1> HIDE DEF v, t, n
  <1>6. MultiOK(a) /\ a.session = m.session /\ a.server = m.server /\ a.mode = m.mode
    BY <1>3, PutState
  <1> HIDE DEF a, l
  <1>7. /\ MultiOK(n) /\ n.session["LAME_DUCK"] = t /\ SameBut(a, n, {"LAME_DUCK"})
    BY <1>1, <1>2, <1>6, PutSession DEF n
  <1>8. SameBut(m, n, {"LAME_DUCK"})
    BY <1>6, <1>7, Zenon DEF SameBut
  <1> QED
    BY <1>4, <1>5, <1>7, <1>8, Zenon DEF l

\* A session that is authenticated is promoted before it gets further.
LEMMA PromoteType ==
    ASSUME NEW m, MultiOK(m), Untrusted(m.session["INITIAL"])
    PROVE  LET n == Promote(m)
           IN  /\ MultiOK(n)
               /\ n.session["INITIAL"].pri.state < S_ACTIVE
               /\ n.session["INITIAL"].lame.state = S_UNDEF
               /\ \/ n = m
                  \/ /\ n.session["ACTIVE"].sid = m.session["INITIAL"].sid
                     /\ m.session["INITIAL"].pri.state # S_INITIAL
  <1> DEFINE k == m.session["INITIAL"].pri
             a == move_session(m, "ACTIVE", "INITIAL")
             v == IF a.state = "CONNECT_DONE" THEN "RECONNECT_PENDING" ELSE a.state
             b == [a EXCEPT !.state = v]
  <1>1. "ACTIVE" \in TM /\ "INITIAL" \in TM
    BY Zenon DEF TM
  <1>2. k.state \in Int
    BY <1>1, KeyNumbers, Zenon DEF MultiOK, Sess
  <1>3. /\ MultiOK(a)
        /\ a.session["ACTIVE"].sid = m.session["INITIAL"].sid
        /\ a.session["INITIAL"].lame.state = S_UNDEF /\ a.session["INITIAL"].pri.state = S_INITIAL
    <2>1. "ACTIVE" # "INITIAL"
      OBVIOUS
    <2> HIDE DEF k, v, b
    <2>2. /\ MultiOK(a) /\ SameBut(m, a, {"ACTIVE", "INITIAL"}) /\ a.state = m.state
          /\ a.session["ACTIVE"].sid = m.session["INITIAL"].sid
          /\ a.session["ACTIVE"].lame = m.session["INITIAL"].lame
          /\ a.session["ACTIVE"].pri.state = m.session["INITIAL"].pri.state
          /\ a.session["INITIAL"].lame.state = S_UNDEF /\ a.session["INITIAL"].pri.state = S_INITIAL
      BY <1>1, <2>1, MoveSessionType, Zenon
    <2> HIDE DEF a
    <2> QED
      BY <2>2, Zenon
  <1> HIDE DEF a
  <1>4. v \in DOMAIN CasRank
    <2>1. a.state \in DOMAIN CasRank
      BY <1>3 DEF MultiOK, Multi
    <2> QED
      BY <2>1 DEF CasRank
  <1> HIDE DEF v
  <1>5. MultiOK(b) /\ b.session = a.session
    BY <1>3, <1>4, PutState
  <1> HIDE DEF b
  <1>6. CASE TLS_AUTHENTICATED(m, k)
    <2>1. Promote(m) = b
      BY <1>6 DEF Promote, b, v, a, k
    <2>2. k.state # S_INITIAL
      BY <1>2, <1>6 DEF TLS_AUTHENTICATED
    <2> QED
      BY <1>3, <1>5, <2>1, <2>2
  <1>7. CASE ~TLS_AUTHENTICATED(m, k)
    <2>1. Promote(m) = m
      BY <1>7 DEF Promote, k
    <2>2. k.state < S_ACTIVE
      BY <1>2, <1>7 DEF TLS_AUTHENTICATED
    <2> QED
      BY <2>1, <2>2 DEF Untrusted
  <1> QED
    BY <1>6, <1>7

\* The key a session retired is there still, whatever the verdict on it.
HeldKey(m, s) ==
    \/ m.session["ACTIVE"].sid = s.sid /\ SameKey(s.lame, m.session["ACTIVE"].lame)
    \/ m.session["LAME_DUCK"].sid = s.sid /\ SameKey(s.lame, m.session["LAME_DUCK"].lame)

\* tls_multi_process: TM_INITIAL is promoted or has no data channel keys, and
\* the old key outlives a negotiation unless the session is usurped.
LEMMA ProcessType ==
    ASSUME NEW m, MultiOK(m), NEW e, e.active \in Around, e.initial \in Around,
           Untrusted(m.session["INITIAL"])
    PROVE  LET n == tls_multi_process(m, Addr, e).multi
           IN  /\ MultiOK(n)
               /\ n.session["INITIAL"].pri.state < S_ACTIVE
               /\ n.session["INITIAL"].lame.state = S_UNDEF
               /\ ~SingleSession /\ Negotiating(m.session["ACTIVE"]) =>
                     \/ n.session["ACTIVE"].sid = m.session["INITIAL"].sid
                     \/ HeldKey(n, m.session["ACTIVE"])
  <1> DEFINE x == ProcessSessions(m, Addr, e)
             a == x.multi
             y == Authenticate(x, e)
             b == UpdateAuth(a, e.verdict)
             c == GenerateKeys(b, e)
             st == tls_authentication_status(b)
             d == FinishSetup(c, st)
             p == Promote(d)
             q == UpdateAuth(p, e.verdict)
             s == m.session["ACTIVE"]
             i == m.session["INITIAL"]
             P == ~SingleSession /\ Negotiating(s)
             n == tls_multi_process(m, Addr, e).multi
  <1>0. "ACTIVE" \in TM /\ "INITIAL" \in TM /\ "LAME_DUCK" \in TM
    BY Zenon DEF TM
  <1>a. s.lame.state \in Int /\ s.lame.die \in Int
    BY <1>0, KeyNumbers, Zenon DEF MultiOK, Sess
  <1>1. /\ WorkOK(x) /\ Untrusted(a.session["INITIAL"])
        /\ a.session["INITIAL"].sid = i.sid \/ a.session["INITIAL"].pri.state = S_INITIAL
        /\ P => Held(a, s)
    BY ProcessSessionsType, Zenon
  <1>b. n = (IF p = d THEN d ELSE q)
    <2>1. y.multi = b
      BY <1>1 DEF Authenticate, WorkOK, Work
    <2>2. n = Result(y, d, p, e).multi
      BY <2>1, Zenon DEF tls_multi_process, AfterSessions, Conclude, x, y, c, d, p, st, n
    <2> HIDE DEF x, a, y, b, c, d, p, q, n, st
    <2> QED
      BY <2>2 DEF Result, q
  <1> HIDE DEF x, n, y
  <1>2. MultiOK(a)
    BY <1>1 DEF WorkOK
  <1> HIDE DEF a, s, i
  <1>3. /\ MultiOK(b) /\ b.session["INITIAL"] = a.session["INITIAL"]
        /\ SameSession(a.session["ACTIVE"], b.session["ACTIVE"])
        /\ SameSession(a.session["LAME_DUCK"], b.session["LAME_DUCK"])
    <2>1. /\ MultiOK(b) /\ SameBut(a, b, {"ACTIVE", "LAME_DUCK"})
          /\ SameSession(a.session["ACTIVE"], b.session["ACTIVE"])
          /\ SameSession(a.session["LAME_DUCK"], b.session["LAME_DUCK"])
      BY <1>2, UpdateAuthType, Zenon
    <2> HIDE DEF b
    <2> QED
      BY <1>0, <2>1 DEF SameBut
  <1> HIDE DEF b
  <1>4. P => HeldKey(b, s)
    BY <1>1, <1>3, Zenon DEF Held, HeldKey, SameSession
  <1>5. /\ MultiOK(c) /\ c.session["INITIAL"] = b.session["INITIAL"]
        /\ c.session["LAME_DUCK"] = b.session["LAME_DUCK"]
        /\ c.session["ACTIVE"].lame = b.session["ACTIVE"].lame
        /\ c.session["ACTIVE"].sid = b.session["ACTIVE"].sid
    <2>1. /\ MultiOK(c) /\ SameBut(b, c, {"ACTIVE"})
          /\ c.session["ACTIVE"].lame = b.session["ACTIVE"].lame
          /\ c.session["ACTIVE"].sid = b.session["ACTIVE"].sid
      BY <1>3, GenerateKeysType, Zenon
    <2> HIDE DEF c
    <2> QED
      BY <1>0, <2>1 DEF SameBut
  <1> HIDE DEF c
  <1>6. P => HeldKey(c, s)
    BY <1>4, <1>5, Zenon DEF HeldKey
  <1>7. /\ MultiOK(d) /\ d.session["INITIAL"] = c.session["INITIAL"]
        /\ d.session["ACTIVE"] = c.session["ACTIVE"]
        /\ ~lame_duck_must_die(c.session["LAME_DUCK"]) =>
              d.session["LAME_DUCK"] = c.session["LAME_DUCK"]
    <2>1. /\ MultiOK(d) /\ SameBut(c, d, {"LAME_DUCK"})
          /\ ~lame_duck_must_die(c.session["LAME_DUCK"]) =>
                d.session["LAME_DUCK"] = c.session["LAME_DUCK"]
      BY <1>5, FinishSetupType, Zenon
    <2> HIDE DEF d
    <2> QED
      BY <1>0, <2>1 DEF SameBut
  <1> HIDE DEF d
  <1>8. P => HeldKey(d, s)
    <2>1. P /\ SameKey(s.lame, c.session["LAME_DUCK"].lame) =>
             ~lame_duck_must_die(c.session["LAME_DUCK"])
      BY <1>a DEF Negotiating, SameKey, lame_duck_must_die
    <2> HIDE DEF P
    <2> QED
      BY <1>6, <1>7, <2>1, Zenon DEF HeldKey
  <1> HIDE DEF P
  <1>9. /\ MultiOK(p) /\ p.session["INITIAL"].pri.state < S_ACTIVE
        /\ p.session["INITIAL"].lame.state = S_UNDEF
        /\ \/ p = d
           \/ /\ p.session["ACTIVE"].sid = d.session["INITIAL"].sid
              /\ d.session["INITIAL"].pri.state # S_INITIAL
    <2>1. Untrusted(d.session["INITIAL"])
      BY <1>1, <1>3, <1>5, <1>7, Zenon
    <2> QED
      BY <1>7, <2>1, PromoteType, Zenon
  <1> HIDE DEF p
  <1>10. p # d => p.session["ACTIVE"].sid = i.sid
    BY <1>1, <1>3, <1>5, <1>7, <1>9
  <1>11. /\ MultiOK(q) /\ q.session["INITIAL"] = p.session["INITIAL"]
         /\ q.session["ACTIVE"].sid = p.session["ACTIVE"].sid
    <2>1. /\ MultiOK(q) /\ SameBut(p, q, {"ACTIVE", "LAME_DUCK"})
          /\ SameSession(p.session["ACTIVE"], q.session["ACTIVE"])
      BY <1>9, UpdateAuthType, Zenon
    <2> HIDE DEF q
    <2> QED
      BY <1>0, <2>1 DEF SameBut, SameSession
  <1> HIDE DEF q
  <1>12. /\ MultiOK(n) /\ n.session["INITIAL"].pri.state < S_ACTIVE
         /\ n.session["INITIAL"].lame.state = S_UNDEF
         /\ P => n.session["ACTIVE"].sid = i.sid \/ HeldKey(n, s)
    BY <1>b, <1>8, <1>9, <1>10, <1>11, Zenon
  <1> QED
    BY <1>12, Zenon DEF n, P, s, i

-----------------------------------------------------------------------------
(* tls_pre_decrypt *)

\* A packet that is delivered changes no state, no session id and no old key.
LEMMA DeliverType ==
    ASSUME NEW s, Sess(s), NEW p \in PacketSet
    PROVE  LET t == Deliver(s, p)
           IN  Sess(t) /\ t.pri.state = s.pri.state /\ t.lame = s.lame /\ t.sid = s.sid
  <1> DEFINE k == s.pri
             a == IF p.ack < k.sent THEN p.ack ELSE k.sent
             b == IF a > k.acked THEN a ELSE k.acked
             k1 == [k EXCEPT !.acked = b]
             new == p.id = k.got /\ k.in = NoRecord
             g == IF new THEN k.got + 1 ELSE k.got
             r == IF new THEN p.content ELSE k.in
             k2 == [k1 EXCEPT !.rec_ack = TRUE, !.got = g, !.in = r]
             Good(t) == Sess(t) /\ t.pri.state = s.pri.state /\ t.lame = s.lame /\ t.sid = s.sid
  <1>1. Key(k)
    BY DEF Sess
  <1>2. p.ack \in Nat /\ p.content \in TlsRecord
    BY DEF PacketSet
  <1>3. k.sent \in Nat /\ k.acked \in Nat /\ k.got \in Nat /\ k.in \in TlsRecord /\ k.acked <= k.sent
    <2> HIDE DEF k
    <2> QED
      BY <1>1 DEF Key, KeyState
  <1>4. b \in Nat /\ b <= k.sent /\ g \in Nat /\ r \in TlsRecord
    BY <1>2, <1>3
  <1>5. /\ Deliver(s, p) \in {s, [s EXCEPT !.pri = k1], [s EXCEPT !.pri = k2]}
    <2>1. Deliver(s, p) = IF p.key_id # k.key_id \/ (p.ack > 0 /\ p.peer # s.sid) THEN s
                          ELSE IF p.op = "ACK" \/ p.id > k.got \/ (p.id = k.got /\ ~new)
                          THEN [s EXCEPT !.pri = k1] ELSE [s EXCEPT !.pri = k2]
      BY Zenon DEF Deliver
    <2> HIDE DEF k, a, b, g, r, new, k1, k2
    <2> QED
      BY <2>1, Zenon
  <1> HIDE DEF k, a, b, g, r, new
  <1>6. Key(k1) /\ k1.state = k.state /\ k1.sent = k.sent
    <2>1. k1 \in KeyState
      BY <1>1, <1>4, Zenon DEF Key, KeyState
    <2> QED
      BY <1>1, <1>4, <2>1 DEF Key, KeyState
  <1> HIDE DEF k1
  <1>7. Key(k2) /\ k2.state = k.state
    <2>1. k2 \in KeyState
      BY <1>4, <1>6, Zenon DEF Key, KeyState
    <2>2. k2.acked = k1.acked /\ k2.sent = k1.sent /\ k2.state = k1.state
      BY <1>6 DEF Key, KeyState
    <2> HIDE DEF k2
    <2> QED
      BY <1>6, <2>1, <2>2 DEF Key
  <1> HIDE DEF k2
  <1>8. Good(s)
    OBVIOUS
  <1>9. Good([s EXCEPT !.pri = k1])
    BY <1>6, NewPrimary DEF k
  <1>10. Good([s EXCEPT !.pri = k2])
    BY <1>7, NewPrimary DEF k
  <1> HIDE DEF Good
  <1>11. Good(Deliver(s, p))
    BY <1>5, <1>8, <1>9, <1>10, Zenon
  <1> QED
    BY <1>11, Zenon DEF Good

\* A packet for a session we know: a key that is negotiated is not reset.
LEMMA KnownSessionType ==
    ASSUME NEW m, MultiOK(m), NEW i \in TM, NEW p \in PacketSet, NEW valid \in BOOLEAN
    PROVE  LET n == KnownSession(m, i, p, valid)
           IN  /\ MultiOK(n) /\ SameBut(m, n, {i})
               /\ m.session[i].pri.state < S_GENERATED_KEYS =>
                     /\ n.session[i].lame = m.session[i].lame /\ n.session[i].sid = m.session[i].sid
                     /\ \/ n.session[i].pri.state = m.session[i].pri.state
                        \/ n.session[i].pri.state = S_PRE_START
  <1> DEFINE s == m.session[i]
             k == [s.pri EXCEPT !.state = S_PRE_START]
             u == [s EXCEPT !.pri = k]
             s1 == IF p.op = "SOFT" /\ s.pri.state >= S_GENERATED_KEYS
                   THEN IF valid THEN key_state_soft_reset(s) ELSE s
                   ELSE IF s.pri.state = S_PRE_START_SKIP
                   THEN u
                   ELSE s
             t == IF valid THEN Deliver(s1, p) ELSE s1
             n == [m EXCEPT !.session[i] = t]
  <1>1. Sess(s) /\ Key(s.pri) /\ s.pri.state \in Int
    BY KeyNumbers, Zenon DEF MultiOK, Sess
  <1>2. n = KnownSession(m, i, p, valid)
    BY DEF KnownSession
  <1> HIDE DEF n, s
  <1>3. Key(k) /\ k.state = S_PRE_START
    <2>1. S_PRE_START \in S_ERROR..S_GENERATED_KEYS
      OBVIOUS
    <2> QED
      BY <1>1, <2>1, NewState, Zenon
  <1> HIDE DEF k, s1, t
  <1>4. Sess(u) /\ u.pri = k /\ u.lame = s.lame /\ u.sid = s.sid
    BY <1>1, <1>3, NewPrimary
  <1> HIDE DEF u
  <1>5. /\ Sess(s1)
        /\ s.pri.state < S_GENERATED_KEYS =>
              /\ s1.lame = s.lame /\ s1.sid = s.sid
              /\ s1.pri.state = s.pri.state \/ s1.pri.state = S_PRE_START
    <2>1. Sess(key_state_soft_reset(s))
      BY <1>1, SoftResetType, Zenon
    <2> QED
      BY <1>1, <1>3, <1>4, <2>1 DEF s1
  <1>6. Sess(t) /\ t.pri.state = s1.pri.state /\ t.lame = s1.lame /\ t.sid = s1.sid
    BY <1>5, DeliverType, Zenon DEF t
  <1>7. MultiOK(n) /\ n.session[i] = t /\ SameBut(m, n, {i})
    BY <1>6, PutSession DEF n
  <1> QED
    BY <1>2, <1>5, <1>6, <1>7, Zenon DEF s

\* What holds of struct tls_multi between two calls.
Inv(m) ==
    /\ MultiOK(m)
    /\ m.session["INITIAL"].pri.state < S_ACTIVE
    /\ m.session["INITIAL"].lame.state = S_UNDEF

\* The old key of the session TM_ACTIVE of m stays where it is.
Undisturbed(m, n) ==
    /\ n.session["ACTIVE"].sid = m.session["ACTIVE"].sid
    /\ SameKey(m.session["ACTIVE"].lame, n.session["ACTIVE"].lame)

\* A new session starts in TM_INITIAL.
LEMMA NewSessionType ==
    ASSUME NEW m, Inv(m), NEW p \in PacketSet
    PROVE  LET n == NewSession(m, p, Addr)
           IN  Inv(n) /\ n.session["ACTIVE"] = m.session["ACTIVE"]
  <1> DEFINE s == m.session["INITIAL"]
             k == [s.pri EXCEPT !.remote = p.sid, !.addr = Addr]
             u == [s EXCEPT !.pri = k]
             t == Deliver(u, p)
             a == [m EXCEPT !.session["INITIAL"] = t]
             n == [a EXCEPT !.sessions = TRUE]
  <1>1. "ACTIVE" \in TM /\ "INITIAL" \in TM /\ MultiOK(m)
    BY DEF TM, Inv
  <1>2. Sess(s) /\ Key(s.pri)
    BY <1>1 DEF MultiOK, Sess
  <1>3. n = NewSession(m, p, Addr)
    BY DEF NewSession
  <1> HIDE DEF n, a, t, u, s
  <1>4. Key(k) /\ k.state = s.pri.state
    <2>1. p.sid \in Sid /\ Addr \in {NoAddr, Addr}
      BY DEF PacketSet
    <2>2. k \in KeyState
      BY <1>2, <2>1, Zenon DEF Key, KeyState
    <2>3. k.state = s.pri.state /\ k.acked = s.pri.acked /\ k.sent = s.pri.sent
      BY <1>2 DEF Key, KeyState
    <2> QED
      BY <1>2, <2>2, <2>3, Zenon DEF Key
  <1> HIDE DEF k
  <1>5. Sess(u) /\ u.pri = k /\ u.lame = s.lame
    BY <1>2, <1>4, NewPrimary DEF u
  <1>6. Sess(t) /\ t.pri.state = u.pri.state /\ t.lame = u.lame
    BY <1>5, DeliverType, Zenon DEF t
  <1>7. MultiOK(a) /\ a.session["INITIAL"] = t /\ SameBut(m, a, {"INITIAL"})
    BY <1>1, <1>6, PutSession DEF a
  <1>8. n \in Multi /\ n.session = a.session
    <2>1. a \in Multi
      BY <1>7 DEF MultiOK
    <2>2. n \in Multi
      BY <2>1, Zenon DEF n, Multi
    <2> QED
      BY <2>1, <2>2 DEF n, Multi
  <1>9. MultiOK(n) /\ n.session["INITIAL"] = t /\ n.session["ACTIVE"] = m.session["ACTIVE"]
    BY <1>1, <1>7, <1>8 DEF MultiOK, SameBut
  <1>10. t.pri.state < S_ACTIVE /\ t.lame.state = S_UNDEF
    BY <1>4, <1>5, <1>6 DEF Inv, s
  <1> QED
    BY <1>3, <1>9, <1>10, Zenon DEF Inv

\* tls_pre_decrypt
LEMMA PreDecryptType ==
    ASSUME NEW m, Inv(m), NEW p \in PacketSet, NEW valid \in BOOLEAN
    PROVE  LET n == tls_pre_decrypt(m, p, Addr, valid)
           IN  Inv(n) /\ (Negotiating(m.session["ACTIVE"]) => Undisturbed(m, n))
  <1> DEFINE i == FirstMatch(m, p)
             Good(n) == Inv(n) /\ (Negotiating(m.session["ACTIVE"]) => Undisturbed(m, n))
  <1>1. /\ "ACTIVE" \in TM /\ "INITIAL" \in TM /\ MultiOK(m)
        /\ i \in {"ACTIVE", "INITIAL", "LAME_DUCK"}
    BY DEF TM, Inv, FirstMatch
  <1>2. /\ Key(m.session["ACTIVE"].lame) /\ m.session["INITIAL"].pri.state \in Int
        /\ m.session["INITIAL"].pri.state < S_ACTIVE
        /\ m.session["ACTIVE"].pri.state \in Int
    <2>1. /\ Key(m.session["ACTIVE"].lame) /\ Key(m.session["ACTIVE"].pri)
          /\ Key(m.session["INITIAL"].pri)
      BY <1>1, Zenon DEF MultiOK, Sess
    <2> QED
      BY <2>1, KeyNumbers, Zenon DEF Inv
  <1>3. ASSUME NEW n, Inv(n), n.session["ACTIVE"] = m.session["ACTIVE"]
        PROVE  Good(n)
    BY <1>2, <1>3, Zenon DEF Undisturbed, SameKey
  <1>4. Good(m)
    BY <1>3
  <1>5. Good(NewSession(m, p, Addr))
    BY <1>3, NewSessionType, Zenon
  <1>6. Good(KnownSession(m, "INITIAL", p, valid))
    <2> DEFINE n == KnownSession(m, "INITIAL", p, valid)
    <2>1. /\ MultiOK(n) /\ SameBut(m, n, {"INITIAL"})
          /\ m.session["INITIAL"].pri.state < S_GENERATED_KEYS =>
                /\ n.session["INITIAL"].lame = m.session["INITIAL"].lame
                /\ n.session["INITIAL"].sid = m.session["INITIAL"].sid
                /\ \/ n.session["INITIAL"].pri.state = m.session["INITIAL"].pri.state
                   \/ n.session["INITIAL"].pri.state = S_PRE_START
      BY <1>1, KnownSessionType, Zenon
    <2> HIDE DEF n, Good
    <2>2. n.session["ACTIVE"] = m.session["ACTIVE"]
      BY <1>1, <2>1 DEF SameBut
    <2>3. Inv(n)
      BY <1>2, <2>1 DEF Inv
    <2> QED
      BY <1>3, <2>2, <2>3, Zenon DEF n
  <1>7. Good(KnownSession(m, "ACTIVE", p, valid))
    <2> DEFINE n == KnownSession(m, "ACTIVE", p, valid)
    <2>1. /\ MultiOK(n) /\ SameBut(m, n, {"ACTIVE"})
          /\ m.session["ACTIVE"].pri.state < S_GENERATED_KEYS =>
                /\ n.session["ACTIVE"].lame = m.session["ACTIVE"].lame
                /\ n.session["ACTIVE"].sid = m.session["ACTIVE"].sid
                /\ \/ n.session["ACTIVE"].pri.state = m.session["ACTIVE"].pri.state
                   \/ n.session["ACTIVE"].pri.state = S_PRE_START
      BY <1>1, KnownSessionType, Zenon
    <2> HIDE DEF n
    <2>2. n.session["INITIAL"] = m.session["INITIAL"]
      BY <1>1, <2>1 DEF SameBut
    <2>3. Inv(n)
      BY <2>1, <2>2 DEF Inv
    <2>4. Negotiating(m.session["ACTIVE"]) => Undisturbed(m, n)
      BY <1>2, <2>1, Zenon DEF Negotiating, Undisturbed, SameKey
    <2> QED
      BY <2>3, <2>4, Zenon DEF n
  <1> HIDE DEF Good
  <1>8. \/ tls_pre_decrypt(m, p, Addr, valid) = m
        \/ tls_pre_decrypt(m, p, Addr, valid) = NewSession(m, p, Addr)
        \/ i # "LAME_DUCK" /\ tls_pre_decrypt(m, p, Addr, valid) = KnownSession(m, i, p, valid)
    BY Zenon DEF tls_pre_decrypt
  <1> HIDE DEF i
  <1>9. Good(tls_pre_decrypt(m, p, Addr, valid))
    BY <1>1, <1>4, <1>5, <1>6, <1>7, <1>8, Zenon
  <1> QED
    BY <1>9, Zenon DEF Good

-----------------------------------------------------------------------------
(* The other steps *)

\* The packets a peer may send.
LEMMA PacketsType ==
    ASSUME MultiOK(multi)
    PROVE  Packets \subseteq PacketSet
  <1>1. /\ "ACTIVE" \in TM /\ "INITIAL" \in TM
        /\ NoSid \in Sid /\ RemoteSids \subseteq Sid /\ (~Server) \in BOOLEAN /\ 0 \in 0..KeyIdMask
    <2>1. 0 \in 0..SidCount /\ 0 \in 0..KeyIdMask
      BY TlsAssumption
    <2> QED
      BY <2>1, Zenon DEF TM, Sid
  <1>2. ASSUME NEW op \in {"HARD", "SOFT", "CONTROL", "ACK"}, NEW sid \in Sid,
               NEW key_id \in 0..KeyIdMask, NEW id \in Nat, NEW content \in TlsRecord,
               NEW ack \in Nat, NEW peer \in Sid
        PROVE  Packet(op, sid, key_id, id, content, ack, peer) \in PacketSet
    BY <1>1, Zenon DEF Packet, PacketSet
  <1>3. ASSUME NEW kind \in {"RESET", "TLS", "KEY"}, NEW from \in Sid, NEW to \in Sid
        PROVE  Record(kind, from, to) \in TlsRecord
    BY Zenon DEF Record, TlsRecord
  <1>4. ASSUME NEW s, Sess(s)
        PROVE  PacketsFor(s) \subseteq PacketSet
    <2> DEFINE k == s.pri
               Content(kind) == Record(kind, k.remote,
                                  IF kind = "RESET" \/ (kind = "TLS" /\ Server) THEN NoSid ELSE s.sid)
    <2>1. /\ s.sid \in Sid /\ s.key_id \in 0..KeyIdMask /\ Key(k)
      BY <1>4 DEF Sess, Session
    <2>2. k.remote \in Sid /\ k.key_id \in 0..KeyIdMask /\ k.acked \in Nat /\ k.sent \in Nat
      <3> HIDE DEF k
      <3> QED
        BY <2>1 DEF Key, KeyState
    <2>3. ASSUME NEW kind \in {"RESET", "TLS", "KEY"} PROVE Content(kind) \in TlsRecord
      BY <1>1, <1>3, <2>1, <2>2, Zenon
    <2> HIDE DEF Content
    <2>a. \A a \in {k.acked, k.sent} : a \in Nat
      BY <2>2
    <2> HIDE DEF k
    <2>4. ASSUME NEW j \in {k.key_id, s.key_id}, NEW a \in {k.acked, k.sent}
          PROVE  Packet("SOFT", k.remote, j, 0, Content("RESET"), a, s.sid) \in PacketSet
      <3>1. 0 \in Nat
        OBVIOUS
      <3> QED
        BY <1>2, <2>1, <2>2, <2>3, <2>a, <3>1, Zenon
    <2>5. ASSUME NEW n \in {k.got, k.got - 1} \cap 1..MaxMessage, NEW c \in {"TLS", "KEY"},
                 NEW a \in {k.acked, k.sent}
          PROVE  Packet("CONTROL", k.remote, k.key_id, n, Content(c), a, s.sid) \in PacketSet
      <3>1. n \in Nat
        BY TlsAssumption
      <3>2. Content(c) \in TlsRecord
        BY <2>3, Zenon
      <3> QED
        BY <1>2, <2>1, <2>2, <2>a, <3>1, <3>2, Zenon
    <2>6. ASSUME NEW a \in {k.acked, k.sent}, NEW peer \in {s.sid, NoSid}
          PROVE  Packet("ACK", k.remote, k.key_id, 0, NoRecord, a, peer) \in PacketSet
      <3>1. 0 \in Nat
        OBVIOUS
      <3>2. peer \in Sid
        BY <1>1, <2>1, Zenon
      <3> QED
        BY <1>2, <2>2, <2>a, <3>1, <3>2, NoRecordType, Zenon
    <2> QED
      <3> SUFFICES ASSUME NEW p \in PacketsFor(s) PROVE p \in PacketSet
        OBVIOUS
      <3>1. \/ \E j \in {k.key_id, s.key_id}, a \in {k.acked, k.sent} :
                 p = Packet("SOFT", k.remote, j, 0, Content("RESET"), a, s.sid)
            \/ \E n \in {k.got, k.got - 1} \cap 1..MaxMessage, c \in {"TLS", "KEY"},
                  a \in {k.acked, k.sent} :
                 p = Packet("CONTROL", k.remote, k.key_id, n, Content(c), a, s.sid)
            \/ \E a \in {k.acked, k.sent}, peer \in {s.sid, NoSid} :
                 p = Packet("ACK", k.remote, k.key_id, 0, NoRecord, a, peer)
        BY DEF PacketsFor, Content, k
      <3> QED
        BY <2>4, <2>5, <2>6, <3>1, Zenon
  <1>5. ASSUME NEW sid \in RemoteSids, NEW a \in 0..1
        PROVE  Packet("HARD", sid, 0, 0, Record("RESET", sid, NoSid), a,
                      multi.session["INITIAL"].sid) \in PacketSet
    <2>1. multi.session["INITIAL"].sid \in Sid
      BY <1>1 DEF MultiOK, Multi, Session
    <2>2. Record("RESET", sid, NoSid) \in TlsRecord
      BY <1>1, <1>3
    <2> QED
      BY <1>1, <1>2, <2>1, <2>2
  <1>6. \A i \in {"ACTIVE", "INITIAL"} : PacketsFor(multi.session[i]) \subseteq PacketSet
    BY <1>1, <1>4, Zenon DEF MultiOK
  <1> QED
    <2> SUFFICES ASSUME NEW p \in Packets PROVE p \in PacketSet
      OBVIOUS
    <2>1. \/ \E sid \in RemoteSids, a \in 0..1 :
               p = Packet("HARD", sid, 0, 0, Record("RESET", sid, NoSid), a,
                          multi.session["INITIAL"].sid)
          \/ \E i \in {"ACTIVE", "INITIAL"} : p \in PacketsFor(multi.session[i])
      BY DEF Packets
    <2> QED
      BY <1>5, <1>6, <2>1, Zenon

\* What surrounds a call of tls_multi_process.
LEMMA SurroundingsType ==
    ASSUME NEW e \in Surroundings(BOOLEAN)
    PROVE  e.active \in Around /\ e.initial \in Around
  <1>2. PICK d \in BOOLEAN, f \in Failures, r \in Renegotiations, a \in Credentials,
             v \in LateVerdicts, k \in Derivations :
           e = [active  |-> [due |-> d, fail |-> f = "ACTIVE", reneg |-> r, auth |-> a],
                initial |-> [due |-> d, fail |-> f = "INITIAL", reneg |-> r, auth |-> a],
                verdict |-> v, kdf |-> k]
    BY DEF Surroundings
  <1>3. r \in BOOLEAN /\ a \in {"FALSE", "DEFERRED", "TRUE"}
    BY TlsAssumption, Zenon DEF Renegotiations, Credentials
  <1>4. /\ e.active = [due |-> d, fail |-> f = "ACTIVE", reneg |-> r, auth |-> a]
        /\ e.initial = [due |-> d, fail |-> f = "INITIAL", reneg |-> r, auth |-> a]
    BY <1>2
  <1> QED
    BY <1>3, <1>4 DEF Around

\* The setup of the connection touches the primary key of TM_ACTIVE only.
LEMMA ConnectType ==
    ASSUME NEW m, Inv(m), NEW ok
    PROVE  LET n == ConnectDone(m, ok)
           IN  Inv(n) /\ Undisturbed(m, n)
  <1> DEFINE k == [m.session["ACTIVE"].pri EXCEPT !.state = S_GENERATED_KEYS]
             a == [m EXCEPT !.session["ACTIVE"].pri = k]
             Good(n) == Inv(n) /\ Undisturbed(m, n)
  <1>1. "ACTIVE" \in TM /\ "INITIAL" \in TM /\ MultiOK(m)
    BY DEF TM, Inv
  <1>2. Key(m.session["ACTIVE"].pri) /\ Key(m.session["ACTIVE"].lame)
    BY <1>1 DEF MultiOK, Sess
  <1>3. Key(k)
    <2>1. S_GENERATED_KEYS \in S_ERROR..S_GENERATED_KEYS
      OBVIOUS
    <2> QED
      BY <1>2, <2>1, NewState, Zenon
  <1>4. a = generate_data_channel_keys(m)
    BY DEF generate_data_channel_keys
  <1> HIDE DEF k
  <1>5. /\ MultiOK(a) /\ SameBut(m, a, {"ACTIVE"})
        /\ a.session["ACTIVE"].lame = m.session["ACTIVE"].lame
        /\ a.session["ACTIVE"].sid = m.session["ACTIVE"].sid
    BY <1>1, <1>3, PutActiveKey, Zenon
  <1> HIDE DEF a
  <1>6. Good(a)
    <2>1. a.session["INITIAL"] = m.session["INITIAL"]
      BY <1>1, <1>5 DEF SameBut
    <2> QED
      BY <1>2, <1>5, <2>1 DEF Inv, Undisturbed, SameKey
  <1>7. Good(m)
    BY <1>2 DEF Undisturbed, SameKey
  <1>8. ASSUME NEW n, Good(n), NEW v \in DOMAIN CasRank
        PROVE  Good([n EXCEPT !.state = v])
    <2> DEFINE o == [n EXCEPT !.state = v]
    <2>1. MultiOK(o) /\ o.session = n.session
      BY <1>8, PutState, Zenon DEF Inv
    <2> HIDE DEF o
    <2>2. Good(o)
      BY <1>8, <2>1 DEF Inv, Undisturbed
    <2> QED
      BY <2>2 DEF o
  <1>9. {"CONNECT_DONE", "FAILED", m.state} \subseteq DOMAIN CasRank
    <2>1. m.state \in DOMAIN CasRank
      BY <1>1 DEF MultiOK, Multi
    <2> QED
      BY <2>1 DEF CasRank
  <1> HIDE DEF Good
  <1>10. \/ ConnectDone(m, ok) = [m EXCEPT !.state = "CONNECT_DONE"]
         \/ ConnectDone(m, ok) = [a EXCEPT !.state = "CONNECT_DONE"]
         \/ ConnectDone(m, ok) = [m EXCEPT !.state = "FAILED"]
         \/ ConnectDone(m, ok) = [m EXCEPT !.state = m.state]
    BY <1>4 DEF ConnectDone
  <1>11. Good(ConnectDone(m, ok))
    <2>1. /\ "CONNECT_DONE" \in DOMAIN CasRank /\ "FAILED" \in DOMAIN CasRank
          /\ m.state \in DOMAIN CasRank
      BY <1>9
    <2>2. Good([m EXCEPT !.state = "CONNECT_DONE"])
      BY <1>7, <1>8, <2>1, Zenon
    <2>3. Good([a EXCEPT !.state = "CONNECT_DONE"])
      BY <1>6, <1>8, <2>1, Zenon
    <2>4. Good([m EXCEPT !.state = "FAILED"])
      BY <1>7, <1>8, <2>1, Zenon
    <2>5. Good([m EXCEPT !.state = m.state])
      BY <1>7, <1>8, <2>1, Zenon
    <2> QED
      BY <1>10, <2>2, <2>3, <2>4, <2>5, Zenon
  <1> QED
    BY <1>11, Zenon DEF Good

\* A second passes: the timers run down, and keys keep their state and id.
LEMMA ElapseType ==
    ASSUME NEW k, Key(k)
    PROVE  LET n == Elapse(k)
           IN  Key(n) /\ n.state = k.state /\ n.key_id = k.key_id
  <1> DEFINE Down(t) == IF t > 0 THEN t - 1 ELSE t
             x == Down(k.neg)
             y == Down(k.die)
             z == Down(k.defer)
             n == [k EXCEPT !.neg = x, !.die = y, !.defer = z]
  <1>1. n = Elapse(k)
    BY DEF Elapse
  <1>2. x \in 0..HandshakeWindow /\ y \in NoTimer..TransitionWindow /\ z \in 0..DeferWindow
    <2>1. /\ k.neg \in 0..HandshakeWindow /\ k.die \in NoTimer..TransitionWindow
          /\ k.defer \in 0..DeferWindow
      BY DEF Key, KeyState
    <2> QED
      BY <2>1, TlsAssumption
  <1> HIDE DEF Down, x, y, z
  <1>3. n \in KeyState
    BY <1>2, Zenon DEF Key, KeyState
  <1>4. n.state = k.state /\ n.key_id = k.key_id /\ n.acked = k.acked /\ n.sent = k.sent
    BY DEF Key, KeyState
  <1> HIDE DEF n
  <1> QED
    BY <1>1, <1>3, <1>4 DEF Key

\* A second passes for all sessions.
LEMMA TickType ==
    ASSUME NEW m, Inv(m)
    PROVE  LET n == [m EXCEPT !.session = [i \in TM |-> ElapseSession(m.session[i])]]
               s == m.session["ACTIVE"]
           IN  /\ Inv(n) /\ n.session["ACTIVE"].sid = s.sid
               /\ n.session["ACTIVE"].lame.state = s.lame.state
               /\ n.session["ACTIVE"].lame.key_id = s.lame.key_id
  <1> DEFINE f == [i \in TM |-> ElapseSession(m.session[i])]
             n == [m EXCEPT !.session = f]
  <1>1. /\ MultiOK(m) /\ \A i \in TM : Sess(m.session[i])
        /\ "ACTIVE" \in TM /\ "INITIAL" \in TM
    BY DEF TM, Inv, MultiOK
  <1>2. ASSUME NEW s, Sess(s)
        PROVE  LET t == ElapseSession(s)
               IN  /\ Sess(t) /\ t.sid = s.sid /\ t.pri.state = s.pri.state
                   /\ t.lame.state = s.lame.state /\ t.lame.key_id = s.lame.key_id
    <2> DEFINE p == Elapse(s.pri)
               q == Elapse(s.lame)
               a == [s EXCEPT !.pri = p]
               t == [a EXCEPT !.lame = q]
    <2>1. Key(p) /\ p.state = s.pri.state
      BY <1>2, ElapseType, Zenon DEF Sess
    <2>2. Key(q) /\ q.state = s.lame.state /\ q.key_id = s.lame.key_id
      BY <1>2, ElapseType, Zenon DEF Sess
    <2>3. t = ElapseSession(s)
      BY DEF ElapseSession
    <2> HIDE DEF p, q
    <2>4. Sess(a) /\ a.pri = p /\ a.sid = s.sid
      BY <1>2, <2>1, NewPrimary
    <2> HIDE DEF a
    <2>5. Sess(t) /\ t.pri = a.pri /\ t.lame = q /\ t.sid = a.sid
      BY <2>2, <2>4, NewLame
    <2> HIDE DEF t
    <2> QED
      BY <2>1, <2>2, <2>3, <2>4, <2>5, Zenon
  <1>3. \A i \in TM : f[i] = ElapseSession(m.session[i]) /\ Sess(f[i])
    BY <1>1, <1>2, Zenon
  <1>4. f \in [TM -> Session]
    <2>1. \A i \in TM : ElapseSession(m.session[i]) \in Session
      BY <1>3, Zenon DEF Sess
    <2> QED
      BY <2>1
  <1> HIDE DEF f
  <1>5. n \in Multi
    BY <1>1, <1>4, Zenon DEF MultiOK, Multi
  <1>6. n.session = f
    BY <1>1 DEF MultiOK, Multi
  <1>7. MultiOK(n)
    BY <1>3, <1>5, <1>6, Zenon DEF MultiOK
  <1>8. /\ f["INITIAL"].pri.state = m.session["INITIAL"].pri.state
        /\ f["INITIAL"].lame.state = m.session["INITIAL"].lame.state
        /\ f["ACTIVE"].sid = m.session["ACTIVE"].sid
        /\ f["ACTIVE"].lame.state = m.session["ACTIVE"].lame.state
        /\ f["ACTIVE"].lame.key_id = m.session["ACTIVE"].lame.key_id
    BY <1>1, <1>2, <1>3, Zenon
  <1> HIDE DEF n
  <1>9. Inv(n)
    BY <1>6, <1>7, <1>8 DEF Inv
  <1> QED
    BY <1>6, <1>8, <1>9, Zenon DEF n, f

-----------------------------------------------------------------------------
(* The theorems *)

\* What holds between calls is the invariant that the theorems state.
LEMMA InvIsTyped == Inv(multi) <=> TypeOK /\ OnlyTrustedKeys
  <1>1. ASSUME multi \in Multi, NEW i \in TM
        PROVE  /\ multi.session[i] \in Session
               /\ multi.session[i].pri \in KeyState /\ multi.session[i].lame \in KeyState
    <2>1. multi.session[i] \in Session
      BY <1>1 DEF Multi
    <2> QED
      BY <2>1 DEF Session
  <1>2. MultiOK(multi) <=> TypeOK
    BY <1>1, Zenon DEF MultiOK, TypeOK, Sess, Key
  <1> QED
    BY <1>2, Zenon DEF Inv, OnlyTrustedKeys

\* tls_multi_init_finalize and session_skip_to_pre_start
LEMMA InitHolds == Init => Inv(multi)
  <1> DEFINE a == [server |-> Server, mode |-> Mode, state |-> "NOT_CONNECTED",
                   sessions |-> FALSE, serial |-> 0, session |-> [i \in TM |-> NoSession]]
             b == InitSession(a, "ACTIVE")
             m == InitSession(b, "INITIAL")
             s == m.session["INITIAL"]
  <1>1. "ACTIVE" \in TM /\ "INITIAL" \in TM
    BY Zenon DEF TM
  <1>2. MultiOK(a)
    <2>1. [i \in TM |-> NoSession] \in [TM -> Session]
      BY NoSessionType DEF Sess
    <2>2. 0 \in 0..SidCount /\ "NOT_CONNECTED" \in DOMAIN CasRank
      BY TlsAssumption DEF CasRank
    <2>3. a \in Multi
      BY <2>1, <2>2, Zenon DEF Multi
    <2> QED
      BY <2>3, NoSessionType DEF MultiOK
  <1> HIDE DEF a
  <1>3. MultiOK(b)
    BY <1>1, <1>2, InitSessionType, Zenon
  <1> HIDE DEF b
  <1>4. MultiOK(m) /\ s.lame.state = S_UNDEF /\ s.pri.state = S_INITIAL
    BY <1>1, <1>3, InitSessionType, Zenon
  <1>5. m = tls_multi_init_finalize(Server, Mode, 0)
    BY Zenon DEF tls_multi_init_finalize, a, b
  <1> HIDE DEF m
  <1>6. Inv(m)
    BY <1>4 DEF Inv
  <1>7. ASSUME NEW peer \in RemoteSids
        PROVE  Inv([m EXCEPT !.session["INITIAL"] = session_skip_to_pre_start(s, SidCount, peer, Addr)])
    <2> DEFINE k == [s.pri EXCEPT !.remote = peer, !.addr = Addr, !.got = 1]
               p == session_move_pre_start(k, TRUE)
               t == [s EXCEPT !.sid = SidCount, !.pri = p]
               n == [m EXCEPT !.session["INITIAL"] = t]
    <2>1. t = session_skip_to_pre_start(s, SidCount, peer, Addr)
      BY DEF session_skip_to_pre_start
    <2>2. Sess(s) /\ Key(s.pri)
      BY <1>1, <1>4 DEF MultiOK, Sess
    <2> HIDE DEF s
    <2>3. peer \in Sid /\ SidCount \in Sid /\ 1 \in Nat /\ Addr \in {NoAddr, Addr}
      BY TlsAssumption DEF Sid
    <2>4. k \in KeyState
      BY <2>2, <2>3, Zenon DEF Key, KeyState
    <2>5. Key(k) /\ k.state = s.pri.state
      <3>1. k.state = s.pri.state /\ k.acked = s.pri.acked /\ k.sent = s.pri.sent
        BY <2>2 DEF Key, KeyState
      <3> HIDE DEF k
      <3> QED
        BY <2>2, <2>4, <3>1 DEF Key
    <2> HIDE DEF k
    <2>6. Negotiates(k, p)
      BY <2>5, PreStartNegotiates, Zenon
    <2>7. p.state = S_PRE_START_SKIP /\ Key(p)
      BY <2>5, <2>6 DEF session_move_pre_start, Negotiates, Key, KeyState
    <2> HIDE DEF p
    <2>8. Sess(t) /\ t.pri = p /\ t.lame = s.lame
      <3>1. t \in Session
        BY <2>2, <2>3, <2>7, Zenon DEF Sess, Session, Key
      <3>2. t.pri = p /\ t.lame = s.lame
        BY <2>2 DEF Sess, Session
      <3> HIDE DEF t
      <3> QED
        BY <2>2, <2>7, <3>1, <3>2 DEF Sess
    <2> HIDE DEF t
    <2>9. MultiOK(n) /\ n.session["INITIAL"] = t /\ SameBut(m, n, {"INITIAL"})
      BY <1>1, <1>4, <2>8, PutSession
    <2> HIDE DEF n
    <2>10. Inv(n)
      BY <1>4, <2>7, <2>8, <2>9 DEF Inv
    <2> QED
      BY <2>1, <2>10, Zenon DEF n
  <1> QED
    BY <1>5, <1>6, <1>7, Zenon DEF Init, s

\* What a step may do, to the invariant and to an old key.
LEMMA NextHolds ==
    ASSUME Inv(multi), [Next]_vars
    PROVE  Inv(multi') /\ OldKeySurvives
  <1> DEFINE s == multi.session["ACTIVE"]
             P == ~SingleSession /\ ~Usurped /\ Negotiating(s)
  <1>1. "ACTIVE" \in TM /\ "INITIAL" \in TM /\ MultiOK(multi) /\ Key(s.lame)
    BY DEF TM, Inv, MultiOK, Sess
  <1>2. OldKeySurvives <=> (P => Holds(multi', s.sid, s.lame.key_id))
    BY Zenon DEF OldKeySurvives, Negotiating
  <1>3. P /\ HeldKey(multi', s) => Holds(multi', s.sid, s.lame.key_id)
    BY Zenon DEF HeldKey, SameKey, Holds, Negotiating
  <1>4. P /\ Undisturbed(multi, multi') => Holds(multi', s.sid, s.lame.key_id)
    BY Zenon DEF Undisturbed, SameKey, Holds, Negotiating
  <1> HIDE DEF s
  <1>5. CASE TlsMultiProcess
    <2>1. PICK e \in Surroundings(BOOLEAN) : multi' = tls_multi_process(multi, Addr, e).multi
      BY <1>5, Zenon DEF TlsMultiProcess, Process
    <2>2. e.active \in Around /\ e.initial \in Around
      BY SurroundingsType
    <2>3. Untrusted(multi.session["INITIAL"])
      <3>1. multi.session["INITIAL"].pri.state \in Int
        BY <1>1, KeyNumbers, Zenon DEF MultiOK, Sess
      <3> QED
        BY <3>1 DEF Inv, Untrusted
    <2>4. /\ MultiOK(multi')
          /\ multi'.session["INITIAL"].pri.state < S_ACTIVE
          /\ multi'.session["INITIAL"].lame.state = S_UNDEF
          /\ ~SingleSession /\ Negotiating(multi.session["ACTIVE"]) =>
                \/ multi'.session["ACTIVE"].sid = multi.session["INITIAL"].sid
                \/ HeldKey(multi', multi.session["ACTIVE"])
      BY <1>1, <2>1, <2>2, <2>3, ProcessType, Zenon
    <2>5. Inv(multi')
      BY <2>4, Zenon DEF Inv
    <2>6. P => HeldKey(multi', s)
      BY <2>4, Zenon DEF Usurped, s
    <2> QED
      BY <1>2, <1>3, <2>5, <2>6, Zenon
  <1>6. CASE TlsPreDecrypt
    <2>1. PICK p \in Packets, valid \in BOOLEAN : multi' = tls_pre_decrypt(multi, p, Addr, valid)
      BY <1>6, Zenon DEF TlsPreDecrypt
    <2>2. p \in PacketSet
      BY <1>1, PacketsType
    <2>3. Inv(multi') /\ (Negotiating(s) => Undisturbed(multi, multi'))
      BY <2>1, <2>2, PreDecryptType, Zenon DEF s
    <2> QED
      BY <1>2, <1>4, <2>3, Zenon
  <1>7. CASE Connect
    <2>1. PICK ok \in BOOLEAN : multi' = ConnectDone(multi, ok)
      BY <1>7, Zenon DEF Connect
    <2>2. Inv(multi') /\ Undisturbed(multi, multi')
      BY <2>1, ConnectType, Zenon
    <2> QED
      BY <1>2, <1>4, <2>2, Zenon
  <1>8. CASE Tick
    <2>1. /\ Inv(multi') /\ multi'.session["ACTIVE"].sid = s.sid
          /\ multi'.session["ACTIVE"].lame.state = s.lame.state
          /\ multi'.session["ACTIVE"].lame.key_id = s.lame.key_id
      BY <1>8, TickType, Zenon DEF Tick, s
    <2>2. P => Holds(multi', s.sid, s.lame.key_id)
      BY <2>1, Zenon DEF Holds, Negotiating
    <2> QED
      BY <1>2, <2>1, <2>2, Zenon
  <1>9. CASE UNCHANGED vars
    <2>1. multi' = multi
      BY <1>9 DEF vars
    <2>2. Undisturbed(multi, multi')
      BY <1>1, <2>1, Zenon DEF Undisturbed, SameKey, s
    <2> QED
      BY <1>2, <1>4, <2>1, <2>2, Zenon
  <1> QED
    BY <1>5, <1>6, <1>7, <1>8, <1>9, Zenon DEF Next

\* TypeOK and OnlyTrustedKeys are an inductive invariant.
LEMMA TlsInvariant == Spec => [](TypeOK /\ OnlyTrustedKeys)
  <1>1. Init => TypeOK /\ OnlyTrustedKeys
    BY InitHolds, InvIsTyped
  <1>2. TypeOK /\ OnlyTrustedKeys /\ [Next]_vars => (TypeOK /\ OnlyTrustedKeys)'
    <2> SUFFICES ASSUME TypeOK, OnlyTrustedKeys, [Next]_vars
                 PROVE  (TypeOK /\ OnlyTrustedKeys)'
      OBVIOUS
    <2>1. Inv(multi')
      BY InvIsTyped, NextHolds, Zenon
    <2>2. (Inv(multi) <=> TypeOK /\ OnlyTrustedKeys)'
      BY InvIsTyped, PTL
    <2> QED
      BY <2>1, <2>2
  <1> QED
    BY <1>1, <1>2, PTL DEF Spec

\* In every configuration, role and mode the sessions and keys of struct
\* tls_multi stay within their types: key ids within the mask, timers within
\* their windows, and no more messages acknowledged than were sent.
THEOREM TlsTypeCorrect == Spec => []TypeOK
  BY TlsInvariant, PTL

\* In every configuration tls_multi_process promotes an authenticated session
\* before it is active, so that TM_INITIAL never has a data channel key.
THEOREM TlsOnlyTrustedKeys == Spec => []OnlyTrustedKeys
  BY TlsInvariant, PTL

\* In every configuration the old key survives the negotiation of the next
\* one, whatever packets, timeouts and errors the negotiation meets, until its
\* time is up or an authenticated session takes over.
THEOREM TlsOldKeySurvives == Spec => OldKeySurvivesNegotiation
  <1>1. TypeOK /\ OnlyTrustedKeys /\ [Next]_vars => [OldKeySurvives]_vars
    BY InvIsTyped, NextHolds, Zenon
  <1> QED
    BY <1>1, TlsInvariant, PTL DEF Spec, OldKeySurvivesNegotiation
=============================================================================
