------------------------------- MODULE MCTls --------------------------------
(***************************************************************************)
(* One end of the control channel, for TLC: a server whose authentication  *)
(* is immediate, deferred or refused (the constants of the configuration), *)
(* and a client that pulls its options and renegotiates often enough for   *)
(* its key ids to recycle.  part says which one a behaviour is about.      *)
(***************************************************************************)
EXTENDS TlsMulti

VARIABLES
    part,
    cli,    \* multi of the client
    event   \* kind of the last event of the client: fairness is said of events

live == <<cli, event>>

Cli == INSTANCE TlsMulti WITH
    Server <- FALSE, Mode <- "PULL", Verdicts <- {"TRUE"}, MaxKeyId <- 4, multi <- cli

LiveInit == Cli!Init /\ event = "none"

LiveNext ==
    \/ Cli!Process({FALSE}) /\ event' = "idle"     \* no retransmission is due
    \/ Cli!Process({TRUE}) /\ event' = "send"
    \/ Cli!TlsPreDecrypt /\ event' = "packet"
    \/ Cli!Connect /\ event' = "connect"
    \/ Cli!Tick /\ event' = "tick"

MCInit == Init /\ LiveInit /\ part \in {"client", "server"}

MCNext ==
    /\ UNCHANGED part
    /\ \/ part = "client" /\ LiveNext /\ UNCHANGED vars
       \/ part = "server" /\ Next /\ UNCHANGED live

\* The event loop calls tls_multi_process for ever, retransmissions are a
\* back-off apart so that it also finds none due, and the clock moves on.
\* All three are always possible.
MCSpec ==
    /\ MCInit /\ [][MCNext]_<<vars, live, part>>
    /\ part = "client" => []<>(event = "idle") /\ []<>(event = "tick")

-----------------------------------------------------------------------------
Negotiating(i) ==
    LET k == cli.session[i].pri
    IN  k.state \in S_PRE_START_SKIP..(S_ACTIVE - 1) \/ k.state = S_ERROR_PRE

\* Every negotiation ends: within the handshake window the session is up,
\* or it is given up and initialized anew; a stream of packets from the
\* network cannot hold it in between.
NegotiationEnds ==
    \A i \in {"ACTIVE", "INITIAL"} : Negotiating(i) ~> ~Negotiating(i)

\* A retiring key is gone once its time is up.
OldKeysDie ==
    \A i \in TM :
        (cli.session[i].lame.state >= S_INITIAL /\ cli.session[i].lame.die = 0)
            ~> cli.session[i].lame.die # 0

\* Every negotiation of a client ends, in an active key or in a new attempt, and
\* every key that retires is erased (the timeouts of tls_multi_process).
NoKeyLingers == NegotiationEnds /\ OldKeysDie
=============================================================================
