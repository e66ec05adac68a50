------------------------------ MODULE TlsPeers ------------------------------
(***************************************************************************)
(* A client and a server that negotiate data channel keys over a network   *)
(* that loses, delays and duplicates packets: two struct tls_multi, each   *)
(* driven by its own event loop, the client possibly started anew.         *)
(*                                                                         *)
(* A second is long compared with what the peers do about a packet: the    *)
(* clock moves when both have nothing left to do, or as one of the faults. *)
(***************************************************************************)
EXTENDS Integers, Sequences

CONSTANTS
    HandshakeWindow, TransitionWindow, DeferWindow, KeyIdMask, SingleSession,
    RenegotiateByTime, SidCount, SidsRecur,     \* as in TlsMulti
    MaxFaults,  \* bound: lost, delayed or repeated packets, stalls, restarts
    MaxKeyId,   \* bound: renegotiations start below this key id
    MaxNet      \* bound: packets on the way to one peer; more are lost

VARIABLES
    peer,       \* the struct tls_multi of each side
    net,        \* the packets on the way to each side
    faults,     \* how many faults there were
    turn        \* who made the last step, and was a retransmission due

vars == <<peer, net, faults, turn>>

\* The operations on a struct tls_multi, the same for both sides.
Tls == INSTANCE TlsMulti WITH
    Server <- TRUE, Mode <- "SERVER", RemoteSids <- {}, Verdicts <- {}, MaxMessage <- 0,
    multi <- peer["server"]

Sides == {"client", "server"}

Other(x) == IF x = "client" THEN "server" ELSE "client"

Addr == 1

Start(x, serial) ==
    IF x = "server" THEN Tls!tls_multi_init_finalize(TRUE, "SERVER", serial)
    ELSE Tls!tls_multi_init_finalize(FALSE, "PULL", serial)

Init ==
    /\ peer = [x \in Sides |-> Start(x, 0)]
    /\ net = [x \in Sides |-> <<>>]
    /\ faults = 0
    /\ turn = <<"time", FALSE>>

\* The server learns the address of the client from its first packet.
Actual(x, m) == IF x = "client" \/ m.sessions THEN Addr ELSE Tls!NoAddr

Around(due, reneg) ==
    LET e == [due |-> due, fail |-> FALSE, reneg |-> reneg, auth |-> "TRUE"]
    IN  [active |-> e, initial |-> e, verdict |-> "SUCCEEDED", kdf |-> TRUE]

\* Put packets on the way, unless a copy is there already.
RECURSIVE Enqueue(_, _)
Enqueue(q, S) ==
    IF S = {} THEN q
    ELSE LET p == CHOOSE p \in S : TRUE
         IN  Enqueue(IF Len(q) < MaxNet /\ \A i \in 1..Len(q) : q[i] # p
                     THEN Append(q, p) ELSE q,
                     S \ {p})

\* The server sets the client up at once; the client waits for its reply.
Connected(x, m) ==
    IF Tls!MayConnect(m) /\ (x = "client" => peer["server"].state = "CONNECT_DONE")
    THEN Tls!ConnectDone(m, TRUE) ELSE m

\* A hard error restarts a client and closes the server's instance of it.
Settle(x, r) == IF r.hard THEN Start(x, r.multi.serial) ELSE Connected(x, r.multi)

Process(x, m, due, reneg) == Tls!tls_multi_process(m, Actual(x, m), Around(due, reneg))

Renegotiates(x) ==
    LET k == Tls!get_primary_key(peer[x])
    IN  k.state = Tls!S_GENERATED_KEYS /\ k.key_id < MaxKeyId

\* One round of the event loop of x: read a packet if there is one, and let
\* the control channel respond, send or retransmit.
Loop(x) ==
    LET m == IF net[x] = <<>> THEN peer[x]
             ELSE Tls!tls_pre_decrypt(peer[x], Head(net[x]), Addr, TRUE)
    IN  /\ \E due \in BOOLEAN,
              reneg \in IF Renegotiates(x) THEN BOOLEAN ELSE {FALSE} :
            LET r == Process(x, m, due, reneg)
            IN  /\ peer' = [peer EXCEPT ![x] = Settle(x, r)]
                /\ net' = [net EXCEPT ![Other(x)] = Enqueue(@, r.out),
                                      ![x] = IF @ = <<>> THEN @ ELSE Tail(@)]
                /\ turn' = <<x, due>>
        /\ UNCHANGED faults

\* What becomes of x when it gets p, and what it says to that.
Answer(x, p) == Process(x, Tls!tls_pre_decrypt(peer[x], p, Addr, TRUE), FALSE, FALSE)

\* Neither p nor the answer to it gets x or its peer any further.
Fruitless(x, p) ==
    LET y == Other(x)
        s == Answer(x, p)
    IN  /\ Settle(x, s) = peer[x]
        /\ \A q \in s.out : Settle(y, Answer(y, q)) = peer[y]

\* Both sides do nothing but repeat packets in vain.
Quiet ==
    \A x \in Sides :
        /\ \A due \in BOOLEAN :
             LET r == Process(x, peer[x], due, FALSE)
             IN  Settle(x, r) = peer[x] /\ \A p \in r.out : Fruitless(Other(x), p)
        /\ \A i \in 1..Len(net[x]) : Fruitless(x, net[x][i])

Elapse(k) ==
    [k EXCEPT !.neg = IF @ > 0 THEN @ - 1 ELSE @,
              !.die = IF @ > 0 THEN @ - 1 ELSE @,
              !.defer = IF @ > 0 THEN @ - 1 ELSE @]

Later(m) ==
    [m EXCEPT !.session = [i \in Tls!TM |->
        [@[i] EXCEPT !.pri = Elapse(@), !.lame = Elapse(@)]]]

Tick ==
    /\ Quiet
    /\ peer' = [x \in Sides |-> Later(peer[x])]
    /\ turn' = <<"time", FALSE>>
    /\ UNCHANGED <<net, faults>>

\* The id of the session that has key k.
SidOf(m, k) ==
    m.session[CHOOSE i \in Tls!TM : k \in {m.session[i].pri, m.session[i].lame}].sid

\* What x encrypts with, and what its peer then decrypts with.
Encrypts(x) == Tls!tls_select_encryption_key(peer[x])
Decrypts(x) == Tls!handle_data_channel_packet(peer[Other(x)], Encrypts(x).key_id, Addr)

SameSession(x) ==
    /\ Encrypts(x).with = SidOf(peer[Other(x)], Decrypts(x))
    /\ Decrypts(x).with = SidOf(peer[x], Encrypts(x))

\* Data that x sends is decrypted with the matching key.
Reaches(x) == Encrypts(x) # Tls!NoKey /\ Decrypts(x) # Tls!NoKey /\ SameSession(x)

\* All timers have run out.
Settled == (\A x \in Sides : Later(peer[x]) = peer[x]) /\ Quiet

\* A client that hears nothing of the server for longer than any of these
\* timers restarts: --ping-restart, or no reply to its push requests.
Deaf == ~Reaches("server") /\ Settled

PingRestart ==
    /\ Deaf
    /\ peer' = [peer EXCEPT !["client"] = Start("client", @.serial)]
    /\ turn' = <<"restart", FALSE>>
    /\ UNCHANGED <<net, faults>>

-----------------------------------------------------------------------------
(* Faults *)

Lose(x) ==
    /\ net[x] # <<>>
    /\ net' = [net EXCEPT ![x] = Tail(@)]
    /\ UNCHANGED peer

Duplicate(x) ==
    /\ net[x] # <<>> /\ Len(net[x]) < MaxNet
    /\ net' = [net EXCEPT ![x] = Append(@, Head(@))]
    /\ UNCHANGED peer

Delay(x) ==
    /\ Len(net[x]) > 1
    /\ net' = [net EXCEPT ![x] = Append(Tail(@), Head(@))]
    /\ UNCHANGED peer

\* Time passes while they are at work.
Stall == peer' = [x \in Sides |-> Later(peer[x])] /\ UNCHANGED net

\* The client process starts anew, with new session ids.
Restart ==
    /\ peer' = [peer EXCEPT !["client"] = Start("client", @.serial)]
    /\ UNCHANGED net

Fault ==
    /\ faults < MaxFaults
    /\ faults' = faults + 1
    /\ turn' = <<"fault", FALSE>>
    /\ \/ Stall
       \/ Restart
       \/ \E x \in Sides : Lose(x) \/ Duplicate(x) \/ Delay(x)

Next == (\E x \in Sides : Loop(x)) \/ Tick \/ PingRestart \/ Fault

Spec == Init /\ [][Next]_vars

\* Both event loops run for ever, with retransmissions due at times and at
\* times not, and time passes when nothing else can help.
LiveSpec ==
    /\ Spec
    /\ \A x \in Sides, due \in BOOLEAN : []<>(turn = <<x, due>>)
    /\ []<>Quiet => []<>(turn = <<"time", FALSE>>)
    /\ []<>Deaf => []<>(turn = <<"restart", FALSE>>)

-----------------------------------------------------------------------------
Synced == \A x \in Sides : Reaches(x)

Connections == \A x \in Sides : peer[x].state = "CONNECT_DONE"

\* When both sides are connected and have nothing left to do or to wait for,
\* each encrypts with a key that the other has, whatever was lost, late or
\* repeated and whoever started over: key selection, lookup by key id and
\* the way keys and sessions replace each other fit together.
SettledIsSynced == Connections /\ ~Synced => ~Settled

\* Once the network behaves, data flows in both directions again and again.
Recovers == []<>Synced

\* What the protocol documentation says of the key id: it refers to a
\* negotiated TLS session, and a new session uses a new one.
KeyIdNamesKey ==
    \A x \in Sides :
        Encrypts(x) # Tls!NoKey /\ Decrypts(x) # Tls!NoKey => SameSession(x)
=============================================================================
