------------------------------ MODULE PacketId ------------------------------
(***************************************************************************)
(* Packet-id replay protection (packet_id.c): one sender that numbers the  *)
(* packets it writes, a network that may lose, duplicate and reorder them, *)
(* and one receiver that keeps a sliding window of what it has seen.  The  *)
(* operations are functions on the send state and on the receive record,   *)
(* which the modules on epoch keys and on --replay-persist use too.        *)
(*                                                                         *)
(* A packet is its packet_id_net header [time, id].  The short form puts   *)
(* no time on the wire, so the receiver reads time 0.                      *)
(***************************************************************************)
EXTENDS Integers

CONSTANTS
    SeqBacktrack,   \* --replay-window n; 0 is the TCP mode without a window
    TimeBacktrack,  \* --replay-window t, in seconds
    ReapInterval,   \* SEQ_REAP_INTERVAL
    PacketIdMax,    \* PACKET_ID_MAX, 2^32 - 1 in the code
    LongForm,       \* CO_PACKET_ID_LONG_FORM: the time is part of the header
    MaxNow          \* bound: the clock stops here

ASSUME PacketIdAssumption ==
    /\ SeqBacktrack \in Nat
    /\ TimeBacktrack \in Nat
    /\ ReapInterval \in Nat
    /\ PacketIdMax \in Nat \ {0}
    /\ LongForm \in BOOLEAN

ASSUME MaxNowAssumption == MaxNow \in Nat

SEQ_UNSEEN == 0
SEQ_EXPIRED == 1

PacketIdNet == [time : Nat, id : Nat]

\* The fields of struct packet_id_rec the code reads again.  seq_list is a
\* CIRC_LIST of capacity SeqBacktrack: size is its x_size and item[i] its
\* CIRC_LIST_ITEM i, newest id first.
Index == 0..(SeqBacktrack - 1)

PacketIdRec ==
    [time : Nat, id : Nat, last_reap : Nat, size : 0..SeqBacktrack, item : [Index -> Nat]]

EmptyItems == [i \in Index |-> SEQ_UNSEEN]

\* packet_id_init: CLEAR and, with a window, an empty list.
InitRec == [time |-> 0, id |-> 0, last_reap |-> 0, size |-> 0, item |-> EmptyItems]

-----------------------------------------------------------------------------
(* Receiving side: pure functions on the receive record.                   *)

\* Mutant: the size of the list is not capped at its capacity.
PushUnseen_Uncapped(p, k) ==
    [p EXCEPT !.id = @ + k, !.size = @ + k,
              !.item = [i \in Index |-> IF i < k THEN SEQ_UNSEEN ELSE @[i - k]]]

\* k times CIRC_LIST_PUSH(seq_list, SEQ_UNSEEN) and ++id: the oldest entries
\* fall off.
PushUnseen(p, k) ==
    [p EXCEPT !.id = @ + k,
              !.size = IF @ + k <= SeqBacktrack THEN @ + k ELSE SeqBacktrack,
              !.item = [i \in Index |-> IF i < k THEN SEQ_UNSEEN ELSE @[i - k]]]

\* Mutant: a new time value does not start a new list.
StartsNewList_SameTime(p, pin) ==
    \/ p.size = 0
    \/ pin.id >= SeqBacktrack /\ pin.id - SeqBacktrack > p.id

\* The list starts anew: it is empty, the time moved on, or the id jumped
\* further than the window is long.
StartsNewList(p, pin) ==
    \/ p.size = 0
    \/ pin.time > p.time
    \/ pin.id >= SeqBacktrack /\ pin.id - SeqBacktrack > p.id

NewList(p, pin) ==
    [p EXCEPT !.time = pin.time,
              !.id = IF pin.id > SeqBacktrack THEN pin.id - SeqBacktrack ELSE 0,
              !.size = 0, !.item = EmptyItems]

\* CIRC_LIST_ITEM(seq_list, p->id - pin->id) = now, if the list reaches that far.
Stamp(p, pin, t) ==
    IF p.id - pin.id < p.size /\ t > SEQ_EXPIRED
    THEN [p EXCEPT !.item[p.id - pin.id] = t]
    ELSE p

\* The list is started anew, moved, or left alone, so that it reaches the packet.
MoveList(p, pin) ==
    LET q == IF StartsNewList(p, pin) THEN NewList(p, pin) ELSE p
    IN  IF q.id < pin.id THEN PushUnseen(q, pin.id - q.id) ELSE q

packet_id_add(p, pin, t) ==
    IF SeqBacktrack = 0
    THEN [p EXCEPT !.time = pin.time, !.id = pin.id]
    ELSE Stamp(MoveList(p, pin), pin, t)

\* Mutant: an entry expires one second early.
TooOld_Early(p, i, t) ==
    /\ p.item[i] \notin {SEQ_UNSEEN, SEQ_EXPIRED}
    /\ p.item[i] + TimeBacktrack <= t

\* Entry i was seen longer than time_backtrack ago.
TooOld(p, i, t) ==
    /\ p.item[i] \notin {SEQ_UNSEEN, SEQ_EXPIRED}
    /\ p.item[i] + TimeBacktrack < t

\* The first entry that is too old, and every older one, expires.  The scan
\* stops at an expired entry: everything behind it is expired already.
Expires(p, i, t) ==
    /\ i < p.size
    /\ \A j \in 0..i : p.item[j] # SEQ_EXPIRED
    /\ \E j \in 0..i : TooOld(p, j, t)

packet_id_reap(p, t) ==
    [p EXCEPT !.last_reap = t,
              !.item = IF SeqBacktrack = 0 \/ TimeBacktrack = 0 THEN @
                       ELSE [i \in Index |-> IF Expires(p, i, t) THEN SEQ_EXPIRED ELSE @[i]]]

packet_id_reap_test(p, t) ==
    IF p.last_reap + ReapInterval <= t THEN packet_id_reap(p, t) ELSE p

\* Backtrack mode (UDP): reordering within the window is allowed.
TestInWindow(p, pin) ==
    \/ pin.time > p.time
    \/ /\ pin.time = p.time
       /\ \/ pin.id > p.id
          \/ /\ p.id - pin.id < p.size
             /\ p.item[p.id - pin.id] = SEQ_UNSEEN

\* Non-backtrack mode (TCP): ids follow each other without gaps.
TestInSequence(p, pin) ==
    \/ pin.time = p.time /\ (p.id = 0 \/ pin.id = p.id + 1)
    \/ pin.time > p.time /\ pin.id = 1

packet_id_test(p, pin) ==
    /\ pin.id # 0
    /\ IF SeqBacktrack # 0 THEN TestInWindow(p, pin) ELSE TestInSequence(p, pin)

-----------------------------------------------------------------------------
(* Sending side.                                                           *)

\* Mutant: the ids roll over although the time did not move on.
CanSend_RollsOver(s, t) == s.id # PacketIdMax \/ LongForm

\* packet_id_send_update fails when the ids of this time value are used up.
CanSend(s, t) == s.id # PacketIdMax \/ (LongForm /\ t > s.time /\ s.time # 0)

packet_id_send_update(s, t) ==
    LET time == IF s.time = 0 THEN t ELSE s.time
    IN  IF s.id = PacketIdMax THEN [time |-> t, id |-> 1]
                              ELSE [time |-> time, id |-> s.id + 1]

\* packet_id_write and packet_id_read: what the peer sees of the send state.
OnWire(s) == [time |-> IF LongForm THEN s.time ELSE 0, id |-> s.id]

-----------------------------------------------------------------------------
(* The two ends and the network between them.                              *)

VARIABLES
    now,       \* the clock, in seconds
    send,      \* struct packet_id_send of the sender
    rec,       \* struct packet_id_rec of the receiver
    sent,      \* every header ever written; the network delivers any of them
    seen       \* history: <<header, when>> of every accepted packet

vars == <<now, send, rec, sent, seen>>

accepted == {s[1] : s \in seen}

Init ==
    /\ now = 2
    /\ send = [time |-> 0, id |-> 0]
    /\ rec = InitRec
    /\ sent = {}
    /\ seen = {}

Tick ==
    /\ now < MaxNow
    /\ now' = now + 1
    /\ UNCHANGED <<send, rec, sent, seen>>

packet_id_write ==
    /\ CanSend(send, now)
    /\ send' = packet_id_send_update(send, now)
    /\ sent' = sent \cup {OnWire(send')}
    /\ UNCHANGED <<now, rec, seen>>

\* crypto_check_replay on an authenticated packet: reap, test, add.
crypto_check_replay(pin) ==
    LET p == packet_id_reap_test(rec, now)
    IN  /\ IF packet_id_test(p, pin)
           THEN /\ rec' = packet_id_add(p, pin, now)
                /\ seen' = seen \cup {<<pin, now>>}
           ELSE /\ rec' = p
                /\ UNCHANGED seen
        /\ UNCHANGED <<now, send, sent>>

Receive == \E pin \in sent : crypto_check_replay(pin)

Next == Tick \/ packet_id_write \/ Receive

Spec == Init /\ [][Next]_vars

-----------------------------------------------------------------------------
TypeOK ==
    /\ now \in Nat
    /\ send \in [time : Nat, id : 0..PacketIdMax]
    /\ rec \in PacketIdRec
    /\ sent \subseteq PacketIdNet
    /\ seen \subseteq PacketIdNet \X Nat

\* A packet that was accepted once is rejected for ever after, whatever was
\* received, reaped or skipped in between (packet_id_test, packet_id_add and
\* packet_id_reap together).
NoReplay == \A pin \in accepted : ~packet_id_test(rec, pin)

\* packet_id_write never puts the same header on the wire twice: when the
\* ids are used up it either moves the time on or refuses to send.
HeadersAreFresh == [][send' # send => OnWire(send') \notin sent]_vars

\* The window never rejects a packet without cause: a packet of the current
\* time that was not accepted yet is rejected only if it is a whole window
\* behind, or if an equally new or newer one was seen so long ago that
\* --replay-window's time limit ran out.
NoFalseReject ==
    SeqBacktrack # 0 =>
        \A pin \in sent \ accepted :
            pin.time = rec.time /\ ~packet_id_test(rec, pin) =>
                \/ rec.id - pin.id >= SeqBacktrack
                \/ \E s \in seen : /\ s[1].time = rec.time
                                   /\ s[1].id > pin.id
                                   /\ s[2] + TimeBacktrack < now

\* TCP mode: what was accepted of one time value is a gapless run of ids, so
\* no packet can be dropped silently in the middle of the stream.
NoGapInTcpMode ==
    SeqBacktrack = 0 =>
        \A a, b \in accepted : \A i \in a.id..b.id :
            a.time = b.time => [time |-> a.time, id |-> i] \in accepted

\* The receiver drops nothing without cause, with a window (packet_id_test,
\* packet_id_reap) and without one.
RejectsWithCause == NoFalseReject /\ NoGapInTcpMode
=============================================================================
