------------------------------ MODULE PushPull ------------------------------
(***************************************************************************)
(* Pushed options (push.c, push_util.c, options.c): a server that answers  *)
(* PUSH_REQUEST with its push lists and sends PUSH_UPDATE when management  *)
(* asks for it, both split into bundles, and a client that applies them.   *)
(* The control channel delivers in order (ReliableChannel).                *)
(*                                                                         *)
(* An option is [flag, type, value, len]: flag "" or "-" (remove) or "?"   *)
(* (optional), len its length as text.                                     *)
(***************************************************************************)
EXTENDS Naturals, Sequences, SequencesExt, FiniteSetsExt

CONSTANTS
    Configs,      \* [common, client, updates, pull_filter, request_push]
    SafeCap,      \* longest text of a bundle before ",push-continuation n"
    MaxRequests,  \* bound: PUSH_REQUESTs in flight
    MaxUpdates,   \* bound: management commands
    MaxReplies,   \* bound: messages in flight to the client when another is sent
    MaxRestarts   \* bound: restarts of the client

VARIABLES
    cfg,
    server,       \* the multi_instance: [auth, push_request_received, recent]
    requests,     \* PUSH_REQUESTs in flight to the server
    replies,      \* messages in flight to the client: [cmd, options]
    client,       \* [options, found, push_continuation, requesting, do_up_ran,
                  \*  route_list, tun]
    restart,      \* SIGUSR1 is pending at the client
    n,            \* [updates, restarts]: how many so far
    want          \* history: what the messages sent so far add up to, had each
                  \* been one piece, and which of it the tunnel should have

vars == <<cfg, server, requests, replies, client, restart, n, want>>

Types == {"route", "redirect", "dns", "mtu", "cipher"}
Multiple == {"route", "dns"}             \* the options that add up
updatable_options == Types \ {"cipher"}
NoOptions == [t \in Types |-> {}]

HeadLength == 1                          \* the command before the first comma
Continuation(k) == [flag |-> "", type |-> "push-continuation", value |-> k, len |-> 0]
TextLength(s) == HeadLength + MapThenSumSet(LAMBDA i : s[i].len + 1, DOMAIN s)

NewClient == [options |-> NoOptions, found |-> {}, push_continuation |-> 0,
              requesting |-> TRUE, do_up_ran |-> FALSE, route_list |-> FALSE,
              tun |-> NoOptions]

NewWant == [replied |-> FALSE, options |-> NoOptions, tun |-> NoOptions, routes |-> FALSE]

Init ==
    /\ cfg \in Configs
    /\ server = [auth |-> "pending", push_request_received |-> cfg.request_push,
                 recent |-> FALSE]
    /\ requests = 0
    /\ replies = <<>>
    /\ client = NewClient
    /\ restart = FALSE
    /\ n = [updates |-> 0, restarts |-> 0]
    /\ want = NewWant

-----------------------------------------------------------------------------
(* The server: the reply *)

Bundle(cmd, options) == [cmd |-> cmd, options |-> options]

\* Mutant: the entry that does not fit is lost with the bundle it closes.
PushEntry_Lost(acc, e) ==
    IF TextLength(acc.buf) + e.len >= SafeCap
    THEN [sent |-> Append(acc.sent, Bundle("PUSH_REPLY", Append(acc.buf, Continuation(2)))),
          buf |-> <<>>]
    ELSE [acc EXCEPT !.buf = Append(@, e)]

\* One enabled entry of a push list: when it does not fit any more, what has
\* been collected is sent and a new bundle begun.
PushEntry(acc, e) ==
    IF TextLength(acc.buf) + e.len >= SafeCap
    THEN [sent |-> Append(acc.sent, Bundle("PUSH_REPLY", Append(acc.buf, Continuation(2)))),
          buf |-> <<e>>]
    ELSE [acc EXCEPT !.buf = Append(@, e)]

send_push_options(acc, push_list) == FoldLeft(PushEntry, acc, push_list)

\* The last bundle of several says so; a reply with nothing to push is sent too.
LastBundle(acc) ==
    IF acc.sent = <<>>
    THEN <<Bundle("PUSH_REPLY", acc.buf)>>
    ELSE Append(acc.sent, Bundle("PUSH_REPLY", Append(acc.buf, Continuation(1))))

send_push_reply(c) ==
    LastBundle(send_push_options(
        send_push_options([sent |-> <<>>, buf |-> <<>>], c.common), c.client))

Reply == [c \in Configs |-> send_push_reply(c)]

(* The server: updates *)

\* Index of the comma after the first k options of a text without a command.
CommaAfter(s, k) == TextLength(SubSeq(s, 1, k)) - HeadLength - 1

FitsBefore(s) == {k \in 1..(Len(s) - 1) : CommaAfter(s, k) <= SafeCap}

find_first_comma_of_next_bundle(s) == IF FitsBefore(s) = {} THEN 0 ELSE Max(FitsBefore(s))

TooLong(s) == CommaAfter(s, Len(s)) > SafeCap

\* message_splitter: the bundles of an update, or <<>> when an option alone is
\* too long.  split[i] is the splitting of what follows the first i options.
message_splitter(s) ==
    LET Rest(i) == SubSeq(s, i + 1, Len(s))
        Piece(i, j, k) == Bundle("PUSH_UPDATE", Append(SubSeq(s, i + 1, j), Continuation(k)))
        split[i \in 0..Len(s)] ==
            IF i = Len(s) THEN <<>>
            ELSE IF ~TooLong(Rest(i))
            THEN IF i = 0 THEN <<Bundle("PUSH_UPDATE", s)>> ELSE <<Piece(i, Len(s), 1)>>
            ELSE LET k == find_first_comma_of_next_bundle(Rest(i))
                 IN  IF k = 0 THEN <<Bundle("fail", <<>>)>>
                     ELSE <<Piece(i, i + k, 2)>> \o split[i + k]
    IN  IF \E m \in ToSet(split[0]) : m.cmd = "fail" THEN <<>> ELSE split[0]

Update == [u \in UNION {c.updates : c \in Configs} |-> message_splitter(u)]

-----------------------------------------------------------------------------
(* Reference: what a message means when it is taken as one piece *)

AddAll(opt, s) ==
    [t \in Types |->
        LET mine == SelectSeq(s, LAMBDA e : e.type = t /\ cfg.pull_filter[t] = "accept")
        IN  IF mine = <<>> THEN opt[t]
            ELSE IF t \in Multiple THEN opt[t] \cup {e.value : e \in ToSet(mine)}
            ELSE {Last(mine).value}]

\* "delete every previous value and set new value": an option that is mentioned has the
\* values that follow its last removal.  The redirection of the gateway is removed with the
\* routes too: by a removal of routes and by the first route of an update, once the client
\* has a list of routes (RESET_OPTION_ROUTES).
Removes(s, i, t, routes) ==
    \/ s[i].flag = "-" /\ s[i].type = t
    \/ /\ t = "redirect" /\ routes /\ s[i].type = "route"
       /\ s[i].flag = "-" \/ \A j \in 1..(i - 1) : s[j].type = "route" => s[j].flag = "-"

Replaced(w, u) ==
    LET s == SelectSeq(u, LAMBDA e : cfg.pull_filter[e.type] = "accept") IN
    [t \in Types |->
        LET removals == {i \in DOMAIN s : Removes(s, i, t, w.routes)}
            after == SelectSeq(IF removals = {} THEN s ELSE SubSeq(s, Max(removals) + 1, Len(s)),
                               LAMBDA e : e.type = t)
        IN  IF removals = {} /\ after = <<>> THEN w.options[t]
            ELSE IF t \in Multiple \/ after = <<>> THEN {e.value : e \in ToSet(after)}
            ELSE {Last(after).value}]

HasRoutes(o) == o["route"] # {} \/ o["redirect"] # {}

WantAfterReply(w, s) ==
    LET o == AddAll(w.options, s)
    IN  IF w.replied THEN [w EXCEPT !.options = o]
        ELSE [replied |-> TRUE, options |-> o, tun |-> o, routes |-> HasRoutes(o)]

WantAfterUpdate(w, s) ==
    LET o == Replaced(w, s)
    IN  [w EXCEPT !.options = o, !.tun = o, !.routes = @ \/ HasRoutes(o)]

-----------------------------------------------------------------------------
(* Steps of the server *)

SendReply ==
    /\ replies' = replies \o Reply[cfg]
    /\ want' = WantAfterReply(want, cfg.common \o cfg.client)

\* A client that is not let in is told so; one that is gets its reply, but not
\* again within 30 seconds (sent_push_reply_expiry); others wait.
process_incoming_push_request(srv) ==
    CASE srv.auth = "failed" ->
            /\ replies' = Append(replies, Bundle("AUTH_FAILED", <<>>))
            /\ server' = srv
            /\ UNCHANGED want
      [] srv.auth = "done" /\ ~srv.recent ->
            /\ SendReply
            /\ server' = [srv EXCEPT !.recent = TRUE]
      [] OTHER ->
            /\ server' = srv
            /\ UNCHANGED <<replies, want>>

HasRequest == requests > 0 /\ Len(replies) <= MaxReplies

ReceiveRequest ==
    /\ HasRequest
    /\ requests' = requests - 1
    /\ process_incoming_push_request([server EXCEPT !.push_request_received = TRUE])
    /\ UNCHANGED <<cfg, client, restart, n>>

Connecting == server.auth = "pending"

\* The end of multi_connection_established: send the reply if it was asked for
\* already.
multi_client_connect_late_setup ==
    /\ Connecting
    /\ IF server.push_request_received
       THEN process_incoming_push_request([server EXCEPT !.auth = "done"])
       ELSE /\ server' = [server EXCEPT !.auth = "done"]
            /\ UNCHANGED <<replies, want>>
    /\ UNCHANGED <<cfg, requests, client, restart, n>>

\* A script or plugin rejects the client.
ConnectFails ==
    /\ Connecting
    /\ server' = [server EXCEPT !.auth = "failed"]
    /\ UNCHANGED <<cfg, requests, replies, client, restart, n, want>>

\* sent_push_reply_expiry passes.
Expire ==
    /\ server.recent
    /\ server' = [server EXCEPT !.recent = FALSE]
    /\ UNCHANGED <<cfg, requests, replies, client, restart, n, want>>

\* The management commands push-update-broad and push-update-cid; an instance
\* exists from the first packet of the connection on.
send_push_update ==
    /\ n.updates < MaxUpdates /\ Len(replies) <= MaxReplies
    /\ \E u \in cfg.updates :
         /\ Update[u] # <<>>
         /\ replies' = replies \o Update[u]
         /\ want' = WantAfterUpdate(want, u)
    /\ n' = [n EXCEPT !.updates = @ + 1]
    /\ UNCHANGED <<cfg, server, requests, client, restart>>

\* A renegotiation sends a fresh auth-token as a reply of its own.
send_push_reply_auth_token ==
    /\ want.replied /\ server.auth = "done"
    /\ replies = <<>>
    /\ replies' = <<Bundle("PUSH_REPLY", <<>>)>>
    /\ UNCHANGED <<cfg, server, requests, client, restart, n, want>>

-----------------------------------------------------------------------------
(* The client: one option *)

\* add_option; c.push_continuation is an option like the others.
add_option(c, e) ==
    CASE e.type = "push-continuation" -> [c EXCEPT !.push_continuation = e.value]
      [] e.type \in Multiple -> [c EXCEPT !.options[e.type] = @ \cup {e.value}]
      [] OTHER -> [c EXCEPT !.options[e.type] = {e.value}]

\* RESET_OPTION_ROUTES: the flags of the route list are the redirect-gateway.
RESET_OPTION_ROUTES(c) ==
    IF c.route_list
    THEN [c EXCEPT !.options["route"] = {}, !.options["redirect"] = {}]
    ELSE c

ResetOption(c, t) ==
    IF t = "route" THEN RESET_OPTION_ROUTES(c) ELSE [c EXCEPT !.options[t] = {}]

remove_option(c, e) ==
    IF e.type = "push-continuation" THEN [c EXCEPT !.push_continuation = 0]
    ELSE ResetOption(c, e.type)

\* The first option of a kind in a sequence of updates clears the old values.
update_option(c, e) ==
    IF e.type \in {"route", "redirect", "dns"} /\ e.type \notin c.found
    THEN add_option([ResetOption(c, e.type) EXCEPT !.found = @ \cup {e.type}], e)
    ELSE add_option(c, e)

check_push_update_option_flags(e) ==
    e.type \in updatable_options \cup {"push-continuation"} \/ e.flag = "?"

apply_pull_filter(e) ==
    IF e.type = "push-continuation" THEN "accept" ELSE cfg.pull_filter[e.type]

\* apply_push_options; ok turns FALSE at an offending option, and nothing
\* after it is applied.
ApplyOption(acc, e, is_update) ==
    LET allowed == ~is_update \/ check_push_update_option_flags(e)
        filter == apply_pull_filter(e)
    IN  CASE ~acc.ok -> acc
          [] acc.ok /\ (~allowed \/ filter = "reject") ->
                [acc EXCEPT !.ok = is_update /\ e.flag = "?"]
          [] acc.ok /\ allowed /\ filter = "ignore" -> acc
          [] OTHER -> [acc EXCEPT !.c = IF ~is_update THEN add_option(@, e)
                                        ELSE IF e.flag = "-" THEN remove_option(@, e)
                                        ELSE update_option(@, e)]

apply_push_options(c, options, is_update) ==
    LET acc[i \in 0..Len(options)] ==
            IF i = 0 THEN [ok |-> TRUE, c |-> c]
            ELSE ApplyOption(acc[i - 1], options[i], is_update)
    IN  acc[Len(options)]

-----------------------------------------------------------------------------
(* Steps of the client *)

\* do_open_tun takes the options as they are now; it allocates the route list
\* when there is something to put in it.
do_open_tun(c) ==
    [c EXCEPT !.tun = c.options,
              !.route_list = @ \/ c.options["route"] # {} \/ c.options["redirect"] # {}]

do_up(c) == IF c.do_up_ran THEN c ELSE [do_open_tun(c) EXCEPT !.do_up_ran = TRUE]

StopRequests(c) == [c EXCEPT !.requesting = FALSE]

\* PUSH_MSG_UPDATE: the sequence is complete.
UpdateComplete(c) == [c EXCEPT !.found = {}]

HasReply == replies # <<>> /\ ~restart

receive_auth_failed ==
    /\ HasReply
    /\ Head(replies).cmd = "AUTH_FAILED"
    /\ restart' = TRUE
    /\ replies' = Tail(replies)
    /\ UNCHANGED <<cfg, server, requests, client, n, want>>

incoming_push_message ==
    /\ HasReply
    /\ Head(replies).cmd # "AUTH_FAILED"
    /\ LET m == Head(replies)
           r == apply_push_options(client, m.options, m.cmd = "PUSH_UPDATE")
           more == r.c.push_continuation = 2
       IN  IF ~r.ok
           THEN client' = r.c /\ restart' = TRUE
           ELSE IF more
           THEN client' = StopRequests(r.c) /\ UNCHANGED restart
           ELSE IF m.cmd = "PUSH_REPLY"
           THEN client' = StopRequests(do_up(r.c)) /\ UNCHANGED restart
           ELSE IF r.c.do_up_ran
           THEN /\ client' = StopRequests(do_open_tun(UpdateComplete(r.c)))
                /\ UNCHANGED restart
           ELSE client' = UpdateComplete(r.c) /\ restart' = TRUE
    /\ replies' = Tail(replies)
    /\ UNCHANGED <<cfg, server, requests, n, want>>

\* push_request_interval fires.
send_push_request ==
    /\ client.requesting /\ ~restart
    /\ requests < MaxRequests
    /\ requests' = requests + 1
    /\ UNCHANGED <<cfg, server, replies, client, restart, n, want>>

\* push_request_timeout, or any other reason for a SIGUSR1.
RestartSignal ==
    /\ ~restart /\ n.restarts < MaxRestarts
    /\ restart' = TRUE
    /\ UNCHANGED <<cfg, server, requests, replies, client, n, want>>

\* The client connects again.  The server has a new instance for it, or knows
\* its address and keeps the instance with sent_push_reply_expiry, which then
\* says that a reply was sent that went to the old session.
Reconnect ==
    /\ restart
    /\ restart' = FALSE
    /\ n' = [updates |-> n.updates,
             restarts |-> IF n.restarts < MaxRestarts THEN n.restarts + 1 ELSE n.restarts]
    /\ requests' = 0
    /\ replies' = <<>>
    /\ client' = NewClient
    /\ want' = NewWant
    /\ \/ server' = [auth |-> "pending", push_request_received |-> cfg.request_push,
                     recent |-> FALSE]
       \/ server.auth = "done" /\ UNCHANGED server
    /\ UNCHANGED cfg

Next ==
    \/ ReceiveRequest \/ multi_client_connect_late_setup \/ ConnectFails \/ Expire
    \/ send_push_update \/ send_push_reply_auth_token
    \/ receive_auth_failed \/ incoming_push_message \/ send_push_request \/ RestartSignal \/ Reconnect

Spec == Init /\ [][Next]_vars

-----------------------------------------------------------------------------
TypeOK ==
    /\ server \in [auth : {"pending", "done", "failed"}, push_request_received : BOOLEAN,
                   recent : BOOLEAN]
    /\ requests \in 0..MaxRequests
    /\ client.found \subseteq Types /\ client.push_continuation \in 0..2
    /\ DOMAIN client.options = Types /\ DOMAIN client.tun = Types

\* Nothing more is on its way to a client that is up.
Settled == client.do_up_ran /\ replies = <<>> /\ ~restart

\* However reply and updates were cut into bundles, a client that is up and has
\* read everything has exactly the routes, redirection, name servers and MTU that they say,
\* in its options and in the tunnel: nothing is lost at a cut, and values that a
\* sequence replaces are cleared once, not at each bundle of it
\* (message_splitter, send_push_options, push_update_options_found).
InSync ==
    Settled => \A t \in Types \ {"cipher"} :
                  /\ client.options[t] = want.options[t]
                  /\ client.tun[t] = want.tun[t]

\* A client whose connection lasts gets its options: neither a request that came
\* too early, nor one within the 30 seconds after a reply to its previous
\* session, nor an update that overtook the reply leaves it waiting for ever: PullCompleted holds again and again.
PullCompleted == client.do_up_ran \/ restart
=============================================================================
