-------------------------- MODULE PacketIdPersist ---------------------------
(***************************************************************************)
(* --replay-persist: the newest accepted packet id is kept in a file, so   *)
(* that a restarted process does not start with an empty receive record.   *)
(* One process with one receive record (static key mode, or one TLS        *)
(* session), which stops, crashes and starts again, and a peer that keeps  *)
(* running or starts over with a later time.  The network may lose,        *)
(* duplicate and reorder.                                                  *)
(***************************************************************************)
EXTENDS Integers

CONSTANTS
    SeqBacktrack, TimeBacktrack, ReapInterval, PacketIdMax, LongForm,   \* as in PacketId
    MaxNow,     \* bound: the clock stops here
    MaxStarts   \* bound: number of times the process or its session starts

VARIABLES
    now,
    send,      \* struct packet_id_send of the peer
    sent,      \* headers the peer wrote; the network delivers any of them
    up,        \* the process runs and the persist file is open
    rec,       \* struct packet_id_rec of the current session
    persist,   \* struct packet_id_persist: time, id and what was last written
    file,      \* packet_id_persist_file_image on disk
    starts,    \* sessions started so far
    loaded,    \* history: what the current session loaded
    got,       \* history: headers accepted by the current session
    prior      \* history: headers accepted by sessions that were stopped cleanly

vars == <<now, send, sent, up, rec, persist, file, starts, loaded, got, prior>>

\* The operations of packet_id.c; the history of PacketId is not needed here.
Id == INSTANCE PacketId WITH seen <- {}

NoId == [time |-> 0, id |-> 0]

packet_id_persist_init == [time |-> 0, id |-> 0, written |-> NoId]

\* A short or missing file leaves the initial values.
packet_id_persist_load(f) == [time |-> f.time, id |-> f.id, written |-> f]

Image(p) == [time |-> p.time, id |-> p.id]

\* Nothing is written before a packet was received, nor twice.
NeedsSave(p) == p.time # 0 /\ Image(p) # p.written

\* Mutant: the window's time is not restored, only its id.
packet_id_persist_load_obj_IdOnly(p, r) ==
    IF p.time # 0 THEN [r EXCEPT !.id = p.id] ELSE r

packet_id_persist_load_obj(p, r) ==
    IF p.time # 0 THEN [r EXCEPT !.time = p.time, !.id = p.id] ELSE r

packet_id_persist_save_obj(p, r, pin) ==
    IF r.time # 0 THEN [p EXCEPT !.time = r.time, !.id = r.id] ELSE p

-----------------------------------------------------------------------------
Init ==
    /\ now = 2
    /\ send = NoId
    /\ sent = {}
    /\ up = FALSE
    /\ rec = Id!InitRec
    /\ persist = packet_id_persist_init
    /\ file = NoId
    /\ starts = 0
    /\ loaded = NoId
    /\ got = {}
    /\ prior = {}

Tick ==
    /\ Id!Tick
    /\ UNCHANGED <<up, persist, file, starts, loaded, got, prior>>

PeerWrites ==
    /\ Id!packet_id_write
    /\ UNCHANGED <<up, persist, file, starts, loaded, got, prior>>

\* The peer starts over; that takes it at least a second.
PeerRestarts ==
    /\ now > send.time /\ send.id # 0
    /\ send' = NoId
    /\ UNCHANGED <<now, sent, up, rec, persist, file, starts, loaded, got, prior>>

\* A session begins with an empty record that takes over the persisted id.
NewSession(p) ==
    /\ starts < MaxStarts
    /\ starts' = starts + 1
    /\ persist' = p
    /\ rec' = packet_id_persist_load_obj(p, Id!InitRec)
    /\ loaded' = Image(p)
    /\ prior' = prior \cup got
    /\ got' = {}

\* Process start: packet_id_persist_load, then packet_id_persist_load_obj.
Start ==
    /\ ~up
    /\ up' = TRUE
    /\ NewSession(packet_id_persist_load(file))
    /\ UNCHANGED <<now, send, sent, file>>

packet_id_persist_save ==
    /\ file' = IF NeedsSave(persist) THEN Image(persist) ELSE file

\* process_coarse_timers, once per 60 seconds.
SaveTimer ==
    /\ up
    /\ NeedsSave(persist)
    /\ packet_id_persist_save
    /\ persist' = [persist EXCEPT !.written = Image(persist)]
    /\ UNCHANGED <<now, send, sent, up, rec, starts, loaded, got, prior>>

\* SIGUSR1: do_close_packet_id saves but keeps the object; the next session
\* loads from it, not from the file.
SoftRestart ==
    /\ up
    /\ packet_id_persist_save
    /\ NewSession([persist EXCEPT !.written =
                      IF NeedsSave(persist) THEN Image(persist) ELSE @])
    /\ UNCHANGED <<now, send, sent, up>>

\* Any other end: do_close_packet_id saves and closes.
Stop ==
    /\ up
    /\ up' = FALSE
    /\ packet_id_persist_save
    /\ persist' = packet_id_persist_init
    /\ UNCHANGED <<now, send, sent, rec, starts, loaded, got, prior>>

\* The process dies without closing: what was not written is lost.
Crash ==
    /\ up
    /\ up' = FALSE
    /\ persist' = packet_id_persist_init
    /\ got' = {}
    /\ UNCHANGED <<now, send, sent, rec, file, starts, loaded, prior>>

\* crypto_check_replay: reap, test, add, and remember for the file.
crypto_check_replay(pin) ==
    LET p == Id!packet_id_reap_test(rec, now)
    IN  /\ up
        /\ IF Id!packet_id_test(p, pin)
           THEN /\ rec' = Id!packet_id_add(p, pin, now)
                /\ persist' = packet_id_persist_save_obj(persist, rec', pin)
                /\ got' = got \cup {pin}
           ELSE /\ rec' = p
                /\ UNCHANGED <<persist, got>>
        /\ UNCHANGED <<now, send, sent, up, file, starts, loaded, prior>>

Receive == \E pin \in sent : crypto_check_replay(pin)

Next ==
    \/ Tick \/ PeerWrites \/ PeerRestarts
    \/ Start \/ SaveTimer \/ SoftRestart \/ Stop \/ Crash \/ Receive

Spec == Init /\ [][Next]_vars

-----------------------------------------------------------------------------
TypeOK ==
    /\ now \in Nat /\ starts \in Nat /\ up \in BOOLEAN
    /\ send \in Id!PacketIdNet /\ file \in Id!PacketIdNet /\ loaded \in Id!PacketIdNet
    /\ rec \in Id!PacketIdRec
    /\ persist \in [time : Nat, id : Nat, written : Id!PacketIdNet]
    /\ sent \subseteq Id!PacketIdNet /\ got \subseteq sent /\ prior \subseteq sent

\* What a restarted session accepts is never of an older time than the id it
\* loaded, nor a whole window behind it: this is the protection that the
\* persisted id gives.
LoadedIdIsFloor ==
    \A pin \in got : /\ pin.time >= loaded.time
                     /\ pin.time = loaded.time => pin.id > loaded.id - SeqBacktrack

\* The manual on --replay-persist: "if an OpenVPN session is stopped and
\* restarted, it will reject any replays of packets which were already
\* received by the prior session".
NoReplayAcrossSessions == got \cap prior = {}
=============================================================================
