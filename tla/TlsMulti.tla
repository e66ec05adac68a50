------------------------------ MODULE TlsMulti ------------------------------
(***************************************************************************)
(* The control channel state machine of one peer (ssl.c, ssl_verify.c):    *)
(* the key_state, tls_session and tls_multi structures, the operations on  *)
(* them, and one struct tls_multi under every packet the other side could  *)
(* send: the event loop calls tls_pre_decrypt for each control packet that *)
(* comes in and tls_multi_process again and again, the connection is set   *)
(* up when authentication has succeeded, and time passes.                  *)
(*                                                                         *)
(* The reliability layer below is taken at what ReliableChannel shows it   *)
(* to be, an in-order channel with cumulative acknowledgements; the TLS    *)
(* library above it is the three flights of a handshake (hello, reply and  *)
(* the first protected record).  A time_t deadline is the number of        *)
(* seconds left until it passes.                                           *)
(***************************************************************************)
EXTENDS Integers, FiniteSets

CONSTANTS
    HandshakeWindow,    \* --hand-window
    TransitionWindow,   \* --tran-window
    DeferWindow,        \* auth_deferred_expire_window
    KeyIdMask,          \* P_KEY_ID_MASK (7)
    SingleSession,      \* --single-session
    RenegotiateByTime,  \* --reneg-sec is not 0
    SidCount,           \* bound: how many session ids there are to draw from
    SidsRecur,          \* the id of a session that is gone may be drawn again
    Server,     \* TLS role of this peer
    Mode,       \* "SERVER" (--mode server), "PULL" or "P2P"
    RemoteSids, \* bound: the session ids the remote side uses
    Verdicts,   \* what key_method_2_read may say of the credentials
    MaxKeyId,   \* bound: renegotiations start below this key id
    MaxMessage  \* bound: the last control message of a key

ASSUME TlsAssumption ==
    /\ HandshakeWindow \in Nat \ {0}
    /\ TransitionWindow \in Nat
    /\ DeferWindow \in 0..HandshakeWindow
    /\ KeyIdMask \in Nat \ {0, 1}
    /\ SingleSession \in BOOLEAN
    /\ RenegotiateByTime \in BOOLEAN
    /\ SidCount \in Nat \ 0..2
    /\ SidsRecur \in BOOLEAN
    /\ Server \in BOOLEAN
    /\ Mode \in {"SERVER", "PULL", "P2P"}
    /\ Verdicts \subseteq {"TRUE", "DEFERRED", "FALSE"}
    /\ MaxKeyId \in Nat
    /\ MaxMessage \in Nat

S_ERROR == -2
S_ERROR_PRE == -1
S_UNDEF == 0
S_INITIAL == 1
S_PRE_START_SKIP == 2
S_PRE_START == 3
S_START == 4
S_SENT_KEY == 5
S_GOT_KEY == 6
S_ACTIVE == 7
S_GENERATED_KEYS == 8

NoSid == 0             \* a session_id that is all zeroes
NoAddr == 0            \* a link_socket_actual that is not defined
NoTimer == -1          \* a must_die that was never set
Nothing == "nothing"   \* an empty buffer

\* A record of the TLS session between two session ids.
Record(kind, from, to) == [kind |-> kind, from |-> from, to |-> to]

NoRecord == Record(Nothing, NoSid, NoSid)

\* The members of the session array of struct tls_multi.
TM == {"ACTIVE", "INITIAL", "LAME_DUCK"}

-----------------------------------------------------------------------------
(* struct key_state *)

\* key_state_free with clear: all zero, in S_UNDEF.
NoKey ==
    [state |-> S_UNDEF, key_id |-> 0, opcode |-> Nothing,
     remote |-> NoSid, addr |-> NoAddr,
     neg |-> 0, die |-> NoTimer, defer |-> 0, auth |-> "FALSE",
     sent |-> 0, acked |-> 0,          \* send_reliable: ids below are sent, acknowledged
     got |-> 0, in |-> NoRecord,       \* rec_reliable: next id, the entry not read yet
     rec_ack |-> FALSE,                \* acknowledgements wait in rec_ack
     tls |-> "none", with |-> NoSid,   \* the TLS object, and the session it talks to
     keyat |-> 0,                      \* the id of the message that carries our key
     read |-> FALSE, write |-> FALSE,  \* a key message in plaintext_read_buf, _write_buf
     established |-> FALSE]

\* key_state_init: the new primary key of a session.
key_state_init(s) ==
    [s EXCEPT !.pri = [NoKey EXCEPT !.state = S_INITIAL,
                                    !.key_id = s.key_id,
                                    !.opcode = s.opcode],
              !.opcode = "SOFT",
              !.key_id = LET n == (s.key_id + 1) % (KeyIdMask + 1)
                         IN  IF n = 0 THEN 1 ELSE n]

NoSession == [sid |-> NoSid, key_id |-> 0, opcode |-> Nothing,
              pri |-> NoKey, lame |-> NoKey]

\* tls_session_init with the session id it draws.
tls_session_init(sid) ==
    key_state_init([NoSession EXCEPT !.sid = sid, !.opcode = "HARD"])

\* What matters of a key that negotiates no more: its data channel.
Retired(k) ==
    [NoKey EXCEPT !.state = k.state, !.key_id = k.key_id, !.remote = k.remote,
                  !.addr = k.addr, !.die = k.die, !.defer = k.defer, !.auth = k.auth,
                  !.with = k.with]

key_state_soft_reset(s) ==
    LET old == [Retired(s.pri) EXCEPT !.die = TransitionWindow]
        n   == key_state_init([s EXCEPT !.lame = old])
    IN  [n EXCEPT !.pri = [@ EXCEPT !.remote = old.remote, !.addr = old.addr]]

\* reliable_empty(ks->send_reliable)
SendEmpty(k) == k.acked = k.sent

session_move_pre_start(k, skip) ==
    [k EXCEPT !.neg = HandshakeWindow,
              !.defer = DeferWindow,
              !.sent = 1,
              !.acked = IF skip THEN 1 ELSE 0,
              !.state = IF skip THEN S_PRE_START_SKIP ELSE S_PRE_START]

\* The key_state half of session_move_active; see AfterActive for the other.
session_move_active(k) ==
    [k EXCEPT !.state = S_ACTIVE, !.neg = 0, !.established = TRUE]

session_skip_to_pre_start(s, sid, peer, from) ==
    [s EXCEPT !.sid = sid,
              !.pri = session_move_pre_start(
                          [s.pri EXCEPT !.remote = peer, !.addr = from, !.got = 1],
                          TRUE)]

\* A lame duck that dies a second early, and one that dies of errors only.
lame_duck_dies_early(s) ==
    \/ s.lame.state >= S_INITIAL /\ s.lame.die <= 1
    \/ s.lame.state = S_ERROR

lame_duck_dies_of_errors(s) == s.lame.state = S_ERROR

\* lame_duck_must_die, and the assertion it makes.
lame_duck_must_die(s) ==
    \/ s.lame.state >= S_INITIAL /\ s.lame.die <= 0
    \/ s.lame.state = S_ERROR

LameHasDeadline(s) == s.lame.state >= S_INITIAL => s.lame.die # NoTimer

-----------------------------------------------------------------------------
(* tls_process_state.  e is what the step finds around it: whether a       *)
(* retransmission is due, whether the TLS library or the key exchange      *)
(* fails, and the verdict on the peer's credentials.                       *)

\* The control packet that carries message id of key k.  Its content is a
\* record of the TLS session between from and to; a hello is not for anyone.
ControlPacket(s, k, id, server) ==
    [op      |-> IF id = 0 THEN k.opcode ELSE "CONTROL", server |-> server,
     sid     |-> s.sid, key_id |-> k.key_id, id |-> id,
     content |-> Record(IF id = 0 THEN "RESET"
                        ELSE IF id = k.keyat THEN "KEY" ELSE "TLS",
                        s.sid,
                        IF id = 0 \/ (id = 1 /\ ~server) THEN NoSid ELSE k.with),
     ack     |-> k.got, peer |-> k.remote]

AckPacket(s, server) ==
    [op |-> "ACK", server |-> server, sid |-> s.sid, key_id |-> s.pri.key_id, id |-> 0,
     content |-> NoRecord, ack |-> s.pri.got, peer |-> s.pri.remote]

\* key_state_write_ciphertext: may the TLS object of session sid take this
\* record now?
TlsTakes(k, sid, server) ==
    CASE k.in.kind = "TLS" -> IF server THEN k.tls = "none"
                              ELSE k.tls = "hello" /\ k.in.to = sid
      [] k.in.kind = "KEY" -> /\ k.tls = IF server THEN "hello" ELSE "done"
                              /\ k.in.from = k.with /\ k.in.to = sid
      [] OTHER             -> TRUE

\* What it becomes after the record; the server answers a hello.
ReadCiphertext(k, server) ==
    CASE k.in.kind = "TLS" ->
            [k EXCEPT !.tls = IF server THEN "hello" ELSE "done", !.with = k.in.from,
                      !.in = NoRecord, !.sent = IF server THEN @ + 1 ELSE @]
      [] k.in.kind = "KEY" ->
            [k EXCEPT !.tls = "done", !.in = NoRecord, !.read = TRUE]
      [] OTHER -> [k EXCEPT !.in = NoRecord]

\* key_method_2_write, into plaintext_write_buf
SendKey(k, server) ==
    IF ~k.write /\ k.state = (IF server THEN S_GOT_KEY ELSE S_START)
    THEN [k EXCEPT !.state = S_SENT_KEY, !.write = TRUE]
    ELSE k

\* key_method_2_read, which also judges the credentials of the peer
ReceiveKey(k, server, e) ==
    IF k.read /\ k.state = (IF server THEN S_START ELSE S_SENT_KEY)
    THEN [k EXCEPT !.state = S_GOT_KEY, !.read = FALSE,
                   !.auth = IF server THEN e.auth ELSE "TRUE"]
    ELSE k

\* key_state_write_plaintext and check_outgoing_ciphertext: a client opens
\* with its hello, the key goes out once the handshake is done.
Emit(k, server) ==
    IF k.state < S_START THEN k
    ELSE IF ~server /\ k.tls = "none"
    THEN [k EXCEPT !.tls = "hello", !.sent = @ + 1]
    ELSE IF k.write /\ k.tls = "done"
    THEN [k EXCEPT !.write = FALSE, !.keyat = k.sent, !.sent = @ + 1]
    ELSE k

\* The moves between the states, in the order tls_process_state tries them.
MoveInitial(k) == IF k.state = S_INITIAL THEN session_move_pre_start(k, FALSE) ELSE k

MoveStart(k) ==
    IF k.state = S_PRE_START /\ SendEmpty(k) THEN [k EXCEPT !.state = S_START] ELSE k

MoveActive(k, server) ==
    IF k.state = (IF server THEN S_SENT_KEY ELSE S_GOT_KEY) /\ SendEmpty(k)
    THEN session_move_active(k) ELSE k

TimedOut(k) == k.neg = 0 /\ k.state \in S_UNDEF..(S_ACTIVE - 1)

Error(r, k) == [r EXCEPT !.s.pri = [k EXCEPT !.state = S_ERROR_PRE], !.again = TRUE]

Done(r, k) == [r EXCEPT !.s.pri = k, !.again = k # r.s.pri]

\* Retransmit, or read what came in, exchange keys and write.
Respond(r, k, server, e) ==
    IF r.link /\ e.due /\ ~SendEmpty(k)
    THEN [r EXCEPT !.s.pri = [k EXCEPT !.rec_ack = FALSE], !.again = FALSE, !.link = FALSE,
                   !.out = @ \cup {ControlPacket(r.s, k, k.acked, server)}]
    ELSE IF k.state = S_ERROR_PRE
    THEN [r EXCEPT !.s.pri = [k EXCEPT !.state = S_ERROR], !.again = FALSE]
    ELSE IF e.fail \/ (k.in # NoRecord /\ ~TlsTakes(k, r.s.sid, server))
    THEN Error(r, k)
    ELSE Done(r, Emit(ReceiveKey(SendKey(
                    IF k.in = NoRecord THEN k ELSE ReadCiphertext(k, server),
                    server), server, e), server))

\* One call of tls_process_state on r.s; r.link says that to_link is free,
\* r.out collects the packets, r.again asks for another call.
tls_process_state(r, server, e) ==
    IF TimedOut(MoveInitial(r.s.pri)) THEN Error(r, MoveInitial(r.s.pri))
    ELSE Respond(r, MoveActive(MoveStart(MoveInitial(r.s.pri)), server), server, e)

\* The loop of tls_process; no pass changes the key more often than twelve times.
Again(r, server, e) ==
    IF r.again /\ r.s.pri.state # S_ERROR THEN tls_process_state(r, server, e) ELSE r

Again3(r, server, e) == Again(Again(Again(r, server, e), server, e), server, e)

ProcessLoop(r, server, e) ==
    Again3(Again3(Again3(Again3(r, server, e), server, e), server, e), server, e)

\* One of the byte, packet, cipher and time limits is reached (e.reneg); a
\* key that never was S_ACTIVE has established = 0, which is long ago.
should_trigger_renegotiation(k, e) ==
    e.reneg \/ (RenegotiateByTime /\ ~k.established)

Renegotiate(s, e) ==
    IF s.pri.state >= S_GENERATED_KEYS /\ should_trigger_renegotiation(s.pri, e)
    THEN key_state_soft_reset(s) ELSE s

RetireOldKey(s) == IF lame_duck_must_die(s) THEN [s EXCEPT !.lame = NoKey] ELSE s

Acknowledge(r, server) ==
    IF r.link /\ r.s.pri.state # S_ERROR /\ r.s.pri.rec_ack
    THEN [r EXCEPT !.link = FALSE, !.out = @ \cup {AckPacket(r.s, server)},
                   !.s.pri.rec_ack = FALSE]
    ELSE r

\* tls_process: renegotiate, retire the old key, run the state machine and
\* acknowledge what is left.
tls_process(s, link, server, e) ==
    Acknowledge(ProcessLoop([s |-> RetireOldKey(Renegotiate(s, e)), link |-> link,
                             out |-> {}, again |-> TRUE], server, e),
                server)

-----------------------------------------------------------------------------
(* struct tls_multi: which of the three sessions a control packet belongs  *)
(* to, how sessions replace each other, and which of the keys carry data.  *)
(* multi is a record [server, mode, state, sessions, serial, session]: the *)
(* TLS role, --mode server or a --pull client or point-to-point,           *)
(* multi_state, whether n_sessions > 0, the last session id drawn and the  *)
(* session array.                                                          *)

\* enum multi_status; the two deferred forms of CAS_PENDING are one here.
CasRank ==
    [NOT_CONNECTED |-> 0, WAITING_AUTH |-> 1, PENDING |-> 2, FAILED |-> 3,
     WAITING_OPTIONS_IMPORT |-> 4, RECONNECT_PENDING |-> 5, CONNECT_DONE |-> 6]

\* session_id_random for session i: an id no other session has and, unless
\* ids may recur, none that was drawn before (while there are any left).
Fresh(multi, i) ==
    LET free == {n \in 1..SidCount : /\ n > multi.serial
                                     /\ \A j \in TM \ {i} : multi.session[j].sid # n}
    IN  IF free = {} THEN SidCount ELSE CHOOSE n \in free : TRUE

\* tls_session_init on session i
InitSession(multi, i) ==
    LET sid == Fresh(multi, i)
    IN  [multi EXCEPT !.session[i] = tls_session_init(sid),
                      !.serial = IF SidsRecur THEN @ ELSE sid]

\* tls_multi_init_finalize
tls_multi_init_finalize(server, mode, serial) ==
    InitSession(InitSession(
        [server |-> server, mode |-> mode, state |-> "NOT_CONNECTED", sessions |-> FALSE,
         serial |-> serial, session |-> [i \in TM |-> NoSession]], "ACTIVE"), "INITIAL")

\* move_session with reinit_src.  A session that becomes the lame duck
\* negotiates no more.
move_session(multi, dest, src) ==
    LET s == multi.session[src]
    IN  InitSession([multi EXCEPT !.session[dest] =
                        IF dest = "LAME_DUCK" THEN [s EXCEPT !.pri = Retired(@)] ELSE s],
                    src)

reset_session(multi, i) == InitSession(multi, i)

get_primary_key(multi) == multi.session["ACTIVE"].pri

\* get_key_scan
get_key_scan(multi, n) ==
    CASE n = 0 -> multi.session["ACTIVE"].pri
      [] n = 1 -> multi.session["ACTIVE"].lame
      [] n = 2 -> multi.session["LAME_DUCK"].lame

KeyScan == 0..2

\* TLS_AUTHENTICATED
TLS_AUTHENTICATED(multi, k) ==
    k.state >= (IF multi.server THEN S_GOT_KEY - 1 ELSE S_GOT_KEY)

UsableKey(k) == k.state >= S_GENERATED_KEYS /\ k.auth = "TRUE"

-----------------------------------------------------------------------------
(* Authentication (ssl_verify.c) *)

\* update_key_auth_status; verdict is what the plugin, the script and the
\* management interface say together by now.
update_key_auth_status(k, verdict) ==
    IF k.auth = "FALSE" THEN k
    ELSE IF verdict = "FAILED" THEN [k EXCEPT !.auth = "FALSE"]
    ELSE IF k.auth = "DEFERRED" /\ verdict = "PENDING"
    THEN IF k.defer = 0 THEN [k EXCEPT !.auth = "FALSE"] ELSE k
    ELSE [k EXCEPT !.auth = "TRUE"]

\* The keys after tls_authentication_status ...
UpdateAuth(multi, verdict) ==
    LET Update(k) == IF TLS_AUTHENTICATED(multi, k)
                     THEN update_key_auth_status(k, verdict) ELSE k
        s == multi.session["ACTIVE"]
        l == multi.session["LAME_DUCK"]
    IN  [multi EXCEPT
            !.session["ACTIVE"] = [s EXCEPT !.pri = Update(s.pri), !.lame = Update(s.lame)],
            !.session["LAME_DUCK"] = [l EXCEPT !.lame = Update(l.lame)]]

\* ... and what it returns.
tls_authentication_status(multi) ==
    LET active == {n \in KeyScan : TLS_AUTHENTICATED(multi, get_key_scan(multi, n))}
        Some(a) == \E n \in active : get_key_scan(multi, n).auth = a
    IN  IF Some("FALSE") THEN "FAILED"
        ELSE IF Some("TRUE") THEN "SUCCEEDED" ELSE "DEFERRED"

-----------------------------------------------------------------------------
(* The data channel *)

\* tls_select_encryption_key: the first usable key, but one whose deferral
\* window has passed comes before a newer one.
tls_select_encryption_key(multi) ==
    LET usable == {n \in KeyScan : UsableKey(get_key_scan(multi, n))}
        ripe   == {n \in usable : get_key_scan(multi, n).defer = 0}
        First(S) == CHOOSE n \in S : \A m \in S : n <= m
    IN  IF usable = {} THEN NoKey
        ELSE get_key_scan(multi, First(IF ripe = {} THEN usable ELSE ripe))

\* handle_data_channel_packet: the key that decrypts a packet with key_id.
handle_data_channel_packet(multi, key_id, from) ==
    LET match == {n \in KeyScan :
                    LET k == get_key_scan(multi, n)
                    IN  UsableKey(k) /\ k.key_id = key_id /\ k.addr = from}
    IN  IF match = {} THEN NoKey
        ELSE get_key_scan(multi, CHOOSE n \in match : \A m \in match : n <= m)

-----------------------------------------------------------------------------
(* Data channel keys, for the active session only *)

\* tls_session_generate_data_channel_keys
generate_data_channel_keys(multi) ==
    [multi EXCEPT !.session["ACTIVE"].pri.state = S_GENERATED_KEYS]

\* tls_session_update_crypto_params: nothing to do for a key that is
\* initialized already; ok says that the cipher is acceptable and the key
\* derivation succeeds.
CanUpdateCryptoParams(multi, ok) ==
    \/ get_primary_key(multi).state = S_GENERATED_KEYS
    \/ ok /\ get_primary_key(multi).auth # "FALSE"

\* The connection is set up: multi_client_connect_late_setup on a server,
\* do_up on a client (with the options it pulled) or a point-to-point peer.
ConnectDone(multi, ok) ==
    IF multi.mode = "SERVER" /\ multi.state = "RECONNECT_PENDING"
    THEN [multi EXCEPT !.state = "CONNECT_DONE"]
    ELSE IF CanUpdateCryptoParams(multi, ok)
    THEN [generate_data_channel_keys(multi) EXCEPT !.state = "CONNECT_DONE"]
    ELSE [multi EXCEPT !.state = IF multi.mode = "SERVER" THEN "FAILED" ELSE @]

\* When it happens: multi_connection_established in CAS_PENDING,
\* check_connection_established once connection_established; a pulled
\* PUSH_REPLY comes through a control channel that is S_ACTIVE.
MayConnect(multi) ==
    /\ multi.state \in {IF multi.mode = "SERVER" THEN "PENDING" ELSE "WAITING_OPTIONS_IMPORT",
                        "RECONNECT_PENDING"}
    /\ multi.mode = "PULL" => get_primary_key(multi).state >= S_ACTIVE

-----------------------------------------------------------------------------
(* tls_multi_process *)

\* session_move_active moves multi_state on when the first session is up.
AfterActive(multi, i, r) ==
    IF multi.state = "NOT_CONNECTED" /\ r.s.pri.established
       /\ ~multi.session[i].pri.established
    THEN IF multi.mode = "SERVER" THEN "WAITING_AUTH" ELSE "WAITING_OPTIONS_IMPORT"
    ELSE multi.state

\* What tls_multi_process makes of the result r of tls_process for session i:
\* a failed session is given up, but the old key of the active one becomes
\* the lame duck.
AfterProcess(x, i, m, r) ==
    LET keep == i = "ACTIVE" /\ r.s.lame.state >= S_GENERATED_KEYS /\ ~SingleSession
    IN  IF r.s.pri.state # S_ERROR
        THEN [x EXCEPT !.multi = m, !.link = r.link, !.out = @ \cup r.out]
        ELSE [x EXCEPT !.multi = IF keep THEN move_session(m, "LAME_DUCK", "ACTIVE")
                                 ELSE reset_session(m, i),
                       !.link = r.link, !.out = @ \cup r.out,
                       !.error = \/ @
                                 \/ i = "ACTIVE"
                                 \/ i = "INITIAL" /\ get_primary_key(m).state < S_ACTIVE]

Store(x, i, r) ==
    AfterProcess(x, i, [x.multi EXCEPT !.session[i] = r.s, !.state = AfterActive(x.multi, i, r)],
                 r)

\* A client without a session yet is answered where it is.
LearnAddress(x, i, actual) ==
    IF i = "INITIAL" /\ x.multi.session[i].pri.state = S_INITIAL
       /\ get_primary_key(x.multi).state <= S_INITIAL /\ actual # NoAddr
    THEN [x EXCEPT !.multi.session[i].pri.addr = actual]
    ELSE x

RunSession(x, i, e) ==
    LET k == x.multi.session[i].pri
    IN  IF (k.state >= S_INITIAL \/ k.state = S_ERROR_PRE) /\ k.addr # NoAddr
        THEN Store(x, i, tls_process(x.multi.session[i], x.link, x.multi.server, e))
        ELSE x

\* One round of the session loop, for session i.  x is [multi, link, out,
\* error], actual the address lsa->actual.
ProcessSession(x, i, actual, e) == RunSession(LearnAddress(x, i, actual), i, e)

\* Keys that are generated for the first negotiation only.
GenerateFirstKeys(multi, e) ==
    LET k == get_primary_key(multi)
    IN  IF multi.state # "CONNECT_DONE" \/ k.state # S_ACTIVE \/ k.key_id # 0
        THEN multi
        ELSE generate_data_channel_keys(multi)

\* A session that would generate its keys now: only the active one, once the
\* connection is set up; failing to derive them is an error of the session.
GenerateKeys(multi, e) ==
    LET k == get_primary_key(multi)
    IN  IF multi.state # "CONNECT_DONE" \/ k.state # S_ACTIVE \/ k.auth # "TRUE"
        THEN multi
        ELSE IF e.kdf THEN generate_data_channel_keys(multi)
        ELSE [multi EXCEPT !.session["ACTIVE"].pri =
                  [k EXCEPT !.auth = "FALSE", !.state = S_ERROR_PRE]]

\* A promotion that waits for deferred authentication to finish.
PromoteWhenSure(multi) ==
    IF /\ TLS_AUTHENTICATED(multi, multi.session["INITIAL"].pri)
       /\ multi.session["INITIAL"].pri.auth = "TRUE"
    THEN move_session(multi, "ACTIVE", "INITIAL")
    ELSE multi

\* An untrusted session that is authenticated usurps the active one.
Promote(multi) ==
    IF TLS_AUTHENTICATED(multi, multi.session["INITIAL"].pri)
    THEN [move_session(multi, "ACTIVE", "INITIAL") EXCEPT
            !.state = IF @ = "CONNECT_DONE" THEN "RECONNECT_PENDING" ELSE @]
    ELSE multi

\* The session loop, and update_key_auth_status at its end.
ProcessSessions(multi, actual, e) ==
    ProcessSession(ProcessSession(ProcessSession(
        [multi |-> multi, link |-> TRUE, out |-> {}, error |-> FALSE],
        "ACTIVE", actual, e.active), "INITIAL", actual, e.initial),
        "LAME_DUCK", actual, e.active)

Authenticate(x, e) == [x EXCEPT !.multi = UpdateAuth(@, e.verdict)]

\* The connection may be set up, and the lame duck session dies.
FinishSetup(multi, status) ==
    LET l == multi.session["LAME_DUCK"]
    IN  [multi EXCEPT
            !.state = IF @ = "WAITING_AUTH" /\ status = "SUCCEEDED" THEN "PENDING" ELSE @,
            !.session["LAME_DUCK"] = IF lame_duck_must_die(l) THEN NoSession ELSE l]

\* m is what x.multi became, n that after a promotion.
Result(x, m, n, e) ==
    IF n = m
    THEN [multi |-> m, out |-> x.out,
          hard  |-> x.error /\ \A k \in KeyScan : get_key_scan(m, k).state < S_ACTIVE,
          kill  |-> tls_authentication_status(x.multi) = "FAILED"]
    ELSE LET u == UpdateAuth(n, e.verdict)
         IN  [multi |-> u, out |-> x.out,
              hard  |-> x.error /\ \A k \in KeyScan : get_key_scan(u, k).state < S_ACTIVE,
              kill  |-> tls_authentication_status(u) = "FAILED"]

Conclude(x, m, e) == Result(x, m, Promote(m), e)

AfterSessions(x, e) ==
    Conclude(x, FinishSetup(GenerateKeys(x.multi, e), tls_authentication_status(x.multi)), e)

\* e gives the surroundings per session and the verdict on deferred
\* authentication; the result has the packets, the hard error and whether
\* the caller is told to kill the connection (TLSMP_KILL).
tls_multi_process(multi, actual, e) ==
    AfterSessions(Authenticate(ProcessSessions(multi, actual, e), e), e)

-----------------------------------------------------------------------------
(* tls_pre_decrypt on a control packet p from address from; valid says     *)
(* that read_control_auth accepts it.                                      *)

\* Acknowledgements that are believed whatever they name.
DeliverUnchecked(s, p) ==
    LET k  == s.pri
        k1 == [k EXCEPT !.acked = IF p.ack > @ THEN p.ack ELSE @]
    IN  IF p.key_id # k.key_id THEN s ELSE [s EXCEPT !.pri = k1]

\* Packets that extend the negotiation.
DeliverExtends(s, p) ==
    LET k  == s.pri
        k1 == [k EXCEPT !.neg = HandshakeWindow]
    IN  IF p.key_id # k.key_id THEN s ELSE [s EXCEPT !.pri = k1]

\* Acknowledgements, and the message if it is the next one.  An entry that
\* is not read yet fills the receive window; the packet comes again.
Deliver(s, p) ==
    LET k  == s.pri
        a  == IF p.ack < k.sent THEN p.ack ELSE k.sent
        k1 == [k EXCEPT !.acked = IF a > k.acked THEN a ELSE k.acked]
        new == p.id = k.got /\ k.in = NoRecord
    IN  IF p.key_id # k.key_id \/ (p.ack > 0 /\ p.peer # s.sid) THEN s
        ELSE IF p.op = "ACK" \/ p.id > k.got \/ (p.id = k.got /\ ~new)
        THEN [s EXCEPT !.pri = k1]
        ELSE [s EXCEPT !.pri = [k1 EXCEPT !.rec_ack = TRUE,
                                          !.got = IF new THEN k.got + 1 ELSE k.got,
                                          !.in = IF new THEN p.content ELSE k.in]]

\* The session a packet belongs to: the first whose primary key has the
\* sender's session id.
Matches(multi, p) ==
    {i \in TM : multi.session[i].pri.remote = p.sid}

FirstMatch(multi, p) ==
    CASE "ACTIVE" \in Matches(multi, p)  -> "ACTIVE"
      [] "INITIAL" \in Matches(multi, p) -> "INITIAL"
      [] OTHER                           -> "LAME_DUCK"

\* A hard reset with a session id we do not know starts over in TM_INITIAL.
NewSession(multi, p, from) ==
    LET s == multi.session["INITIAL"]
        k == [s.pri EXCEPT !.remote = p.sid, !.addr = from]
    IN  [multi EXCEPT !.session["INITIAL"] = Deliver([s EXCEPT !.pri = k], p),
                      !.sessions = TRUE]

\* A packet of a session we know; a soft reset of a key that is in use
\* starts the next one, before the key id of the packet is looked at.
KnownSession(multi, i, p, valid) ==
    LET s  == multi.session[i]
        s1 == IF p.op = "SOFT" /\ s.pri.state >= S_GENERATED_KEYS
              THEN IF valid THEN key_state_soft_reset(s) ELSE s
              ELSE IF s.pri.state = S_PRE_START_SKIP
              THEN [s EXCEPT !.pri.state = S_PRE_START]
              ELSE s
    IN  [multi EXCEPT !.session[i] = IF valid THEN Deliver(s1, p) ELSE s1]

tls_pre_decrypt(multi, p, from, valid) ==
    IF p.op = "HARD" /\ p.server = multi.server THEN multi
    ELSE IF Matches(multi, p) = {}
    THEN IF p.op = "HARD" /\ ~(SingleSession /\ multi.sessions) /\ valid
         THEN NewSession(multi, p, from) ELSE multi
    ELSE LET i == FirstMatch(multi, p)
         IN  IF i = "LAME_DUCK" \/ multi.session[i].pri.addr # from THEN multi
             ELSE KnownSession(multi, i, p, valid)

-----------------------------------------------------------------------------
(* One peer *)

Addr == 1       \* the one address the packets come from

VARIABLE multi  \* struct tls_multi

vars == <<multi>>

-----------------------------------------------------------------------------
(* The surroundings of a call of tls_multi_process, as far as it looks at  *)
(* them in this state.                                                     *)

Running(i) ==
    LET k == multi.session[i].pri
    IN  (k.state >= S_INITIAL \/ k.state = S_ERROR_PRE) /\ k.addr # NoAddr

KeyArrives == \E i \in {"ACTIVE", "INITIAL"} :
    LET k == multi.session[i].pri
    IN  k.read \/ k.in.kind = "KEY"

Waits == \E n \in KeyScan : get_key_scan(multi, n).auth = "DEFERRED"

Failures == {"none"} \cup {i \in {"ACTIVE", "INITIAL"} : Running(i)}

Renegotiations == IF /\ get_primary_key(multi).state = S_GENERATED_KEYS
                     /\ get_primary_key(multi).key_id < MaxKeyId THEN BOOLEAN ELSE {FALSE}

Credentials == IF KeyArrives THEN Verdicts ELSE {"TRUE"}

LateVerdicts == IF Waits \/ (KeyArrives /\ "DEFERRED" \in Verdicts)
                THEN {"PENDING", "SUCCEEDED", "FAILED"} ELSE {"PENDING"}

Derivations == IF get_primary_key(multi).state \in {S_GOT_KEY, S_SENT_KEY, S_ACTIVE}
               THEN BOOLEAN ELSE {TRUE}

Surroundings(dues) ==
    {[active  |-> [due |-> d, fail |-> f = "ACTIVE", reneg |-> r, auth |-> a],
      initial |-> [due |-> d, fail |-> f = "INITIAL", reneg |-> r, auth |-> a],
      verdict |-> v,
      kdf     |-> k] :
        d \in dues, f \in Failures, r \in Renegotiations, a \in Credentials,
        v \in LateVerdicts, k \in Derivations}

-----------------------------------------------------------------------------
\* tls_multi_init, and for a server that has seen a valid cookie
\* session_skip_to_pre_start.
Init ==
    LET m == tls_multi_init_finalize(Server, Mode, 0)
    IN  \/ multi = m
        \/ /\ Server
           /\ \E peer \in RemoteSids :
                multi = [m EXCEPT !.session["INITIAL"] =
                           session_skip_to_pre_start(@, SidCount, peer, Addr)]

Process(dues) ==
    \E e \in Surroundings(dues) : multi' = tls_multi_process(multi, Addr, e).multi

TlsMultiProcess == Process(BOOLEAN)

\* The control packets a peer may send.  Of those that name a session we
\* know, one for each way they are treated: the next message or an old one,
\* acknowledging nothing new or everything, and a packet for another
\* key or another session of ours.
Packet(op, sid, key_id, id, content, ack, peer) ==
    [op |-> op, server |-> ~Server, sid |-> sid, key_id |-> key_id, id |-> id,
     content |-> content, ack |-> ack, peer |-> peer]

PacketsFor(s) ==
    LET k == s.pri
        acks == {k.acked, k.sent}
        Content(kind) == Record(kind, k.remote,
                                IF kind = "RESET" \/ (kind = "TLS" /\ Server) THEN NoSid ELSE s.sid)
    IN  {Packet("SOFT", k.remote, j, 0, Content("RESET"), a, s.sid) :
            j \in {k.key_id, s.key_id}, a \in acks}
        \cup {Packet("CONTROL", k.remote, k.key_id, n, Content(c), a, s.sid) :
                n \in {k.got, k.got - 1} \cap 1..MaxMessage,
                c \in {"TLS", "KEY"}, a \in acks}
        \cup {Packet("ACK", k.remote, k.key_id, 0, NoRecord, a, peer) :
                a \in acks, peer \in {s.sid, NoSid}}

Packets ==
    {Packet("HARD", sid, 0, 0, Record("RESET", sid, NoSid), a, multi.session["INITIAL"].sid) :
        sid \in RemoteSids, a \in 0..1}
    \cup UNION {PacketsFor(multi.session[i]) :
                i \in {j \in {"ACTIVE", "INITIAL"} : multi.session[j].pri.remote # NoSid}}

\* A packet that read_control_auth rejects only matters to a session that
\* came from a cookie.
TlsPreDecrypt ==
    \E p \in Packets, valid \in BOOLEAN :
        /\ valid \/ multi.session["INITIAL"].pri.state = S_PRE_START_SKIP
        /\ p.op = "SOFT" => get_primary_key(multi).key_id < MaxKeyId
        /\ multi' = tls_pre_decrypt(multi, p, Addr, valid)

Connect ==
    /\ MayConnect(multi)
    /\ \E ok \in BOOLEAN : multi' = ConnectDone(multi, ok)

Elapse(k) ==
    LET Down(t) == IF t > 0 THEN t - 1 ELSE t
    IN  [k EXCEPT !.neg = Down(k.neg), !.die = Down(k.die), !.defer = Down(k.defer)]

ElapseSession(s) == [s EXCEPT !.pri = Elapse(s.pri), !.lame = Elapse(s.lame)]

Tick == multi' = [multi EXCEPT !.session = [i \in TM |-> ElapseSession(multi.session[i])]]

Next == TlsMultiProcess \/ TlsPreDecrypt \/ Connect \/ Tick

Spec == Init /\ [][Next]_vars

-----------------------------------------------------------------------------
Sid == RemoteSids \cup 0..SidCount

TlsRecord == [kind : {Nothing, "RESET", "TLS", "KEY"}, from : Sid, to : Sid]

KeyState ==
    [state : S_ERROR..S_GENERATED_KEYS, key_id : 0..KeyIdMask, opcode : {Nothing, "HARD", "SOFT"},
     remote : Sid, addr : {NoAddr, Addr},
     neg : 0..HandshakeWindow, die : NoTimer..TransitionWindow, defer : 0..DeferWindow,
     auth : {"FALSE", "DEFERRED", "TRUE"},
     sent : Nat, acked : Nat, got : Nat, in : TlsRecord, rec_ack : BOOLEAN,
     tls : {"none", "hello", "done"}, with : Sid, keyat : Nat,
     read : BOOLEAN, write : BOOLEAN, established : BOOLEAN]

Session == [sid : Sid, key_id : 0..KeyIdMask, opcode : {Nothing, "HARD", "SOFT"},
            pri : KeyState, lame : KeyState]

Multi == [server : {Server}, mode : {Mode}, state : DOMAIN CasRank, sessions : BOOLEAN,
          serial : 0..SidCount, session : [TM -> Session]]

\* The structures keep their types: states, key ids and timers stay within
\* their ranges, and no message is acknowledged that was not sent.
TypeOK ==
    /\ multi \in Multi
    /\ \A i \in TM : /\ multi.session[i].pri.acked <= multi.session[i].pri.sent
                      /\ multi.session[i].lame.acked <= multi.session[i].lame.sent

\* Keys are only derived for a session whose peer proved itself: a key that
\* can carry data belongs to the active session or was retired from it,
\* and tls_multi_process never lets TM_INITIAL get that far.
OnlyTrustedKeys ==
    /\ multi.session["INITIAL"].pri.state < S_ACTIVE
    /\ multi.session["INITIAL"].lame.state = S_UNDEF

\* The sessions change places: the untrusted one usurps the active one.
Usurped == multi'.session["ACTIVE"].sid = multi.session["INITIAL"].sid

Holds(m, sid, key_id) ==
    \/ /\ m.session["ACTIVE"].sid = sid
       /\ \E k \in {m.session["ACTIVE"].pri, m.session["ACTIVE"].lame} :
             k.state >= S_GENERATED_KEYS /\ k.key_id = key_id
    \/ /\ m.session["LAME_DUCK"].sid = sid
       /\ m.session["LAME_DUCK"].lame.state >= S_GENERATED_KEYS
       /\ m.session["LAME_DUCK"].lame.key_id = key_id

\* Lame duck keys keep the data channel going while a new key is negotiated:
\* whatever happens to the negotiation (a timeout, a TLS error, packets of
\* any kind), the old key stays until its time is up, unless an
\* authenticated session takes over.
OldKeySurvives ==
    LET s == multi.session["ACTIVE"]
    IN  /\ ~SingleSession /\ ~Usurped
        /\ s.lame.state >= S_GENERATED_KEYS /\ s.lame.die > 0
        /\ s.pri.state < S_GENERATED_KEYS
        => Holds(multi', s.sid, s.lame.key_id)

\* No step of tls_multi_process, tls_pre_decrypt, the connection setup or the
\* clock takes the old key of a session that negotiates its next one.
OldKeySurvivesNegotiation == [][OldKeySurvives]_vars
=============================================================================
