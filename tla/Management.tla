----------------------------- MODULE Management -----------------------------
(***************************************************************************)
(* The management interface (manage.c): one socket, one client at a time,  *)
(* served from the main event loop or, while OpenVPN waits for an answer,  *)
(* from a private loop inside the call that asks.  The calls that wait are *)
(* a hold, a question for a username and password, a question for a        *)
(* signature (multi-line), and a sleep.                                    *)
(*                                                                         *)
(* A line of the client is a record [cmd, type]; the text of messages,     *)
(* histories and status reports are left out.  An answer carries the       *)
(* number of the question it was typed for.                                *)
(***************************************************************************)
EXTENDS Naturals

CONSTANTS
    Configs,      \* settings: [password, hold, on_disconnect, connect_as_client,
                  \* remap, asks: the waiting calls these options lead to]
    Types,        \* kinds of password, e.g. "Auth" and "Private Key"
    MaxQueries,   \* bound: questions asked
    MaxClients,   \* bound: management clients that connect
    MaxRestarts   \* bound: times the callback is cleared again

MANAGEMENT_N_PASSWORD_RETRIES == 3

VARIABLES
    cfg,
    prog,      \* "startup", "init" (callback set), "main" (event loop), "end"
    call,      \* the waiting call: [kind, step, saved, type]
    mc,        \* struct man_connection
    persist,   \* struct man_persist, and the hold flag of the settings
    sig,       \* the pending signal
    reading,   \* the peer takes what is written to its socket
    serial,    \* history: number of the question that is or was asked last
    clients,   \* history: number of clients accepted so far
    restarts

vars == <<cfg, prog, call, mc, persist, sig, reading, serial, clients, restarts>>

NoType == "none"
NoCall == [kind |-> "none", step |-> "none", saved |-> FALSE, type |-> NoType]
NoAnswer == [user |-> 0, pass |-> 0, lines |-> FALSE, defined |-> FALSE]

MsInitial == [state |-> "INITIAL", password_verified |-> FALSE, password_tries |-> 0,
              in_extra |-> "none", asked |-> 0, ext |-> "UNDEF",
              mode |-> "DISABLED", type |-> NoType, up_query |-> NoAnswer, out |-> FALSE]

\* man_listen, or man_connect with the connection made at once.
Init ==
    /\ cfg \in Configs
    /\ prog = "startup"
    /\ call = NoCall
    /\ mc = [MsInitial EXCEPT !.state =
                 IF cfg.connect_as_client THEN "CC_WAIT_READ" ELSE "LISTEN"]
    /\ persist = [standalone_disabled |-> FALSE, special_state_msg |-> "none",
                  hold_release |-> FALSE, hold |-> cfg.hold]
    /\ sig = "none"
    /\ reading = TRUE
    /\ serial = 0
    /\ clients = (IF cfg.connect_as_client THEN 1 ELSE 0)
    /\ restarts = 0

-----------------------------------------------------------------------------
(* Helpers of the handlers.                                                *)

Connected(c) == c.state \in {"CC_WAIT_READ", "CC_WAIT_WRITE"}

man_password_needed(c) == cfg.password /\ ~c.password_verified

management_would_hold == persist.hold /\ ~persist.hold_release /\ mc.state # "INITIAL"

\* msg(M_CLIENT, ...): queued for the client unless its password is missing,
\* and written now if the peer takes it.  A client that does not read makes the
\* state CC_WAIT_WRITE; outside of the main loop the caller then waits.
Output(c) ==
    IF ~Connected(c) \/ man_password_needed(c) THEN c
    ELSE [c EXCEPT !.out = ~reading,
                   !.state = IF reading THEN "CC_WAIT_READ" ELSE "CC_WAIT_WRITE"]

\* The process sits in man_output_standalone and does nothing else.
Blocked == mc.state = "CC_WAIT_WRITE" /\ ~persist.standalone_disabled /\ sig = "none"

man_mod_signal(s) ==
    LET t == IF s = "USR1" THEN cfg.remap ELSE s IN
    IF call.kind = "hold" /\ t \in {"USR1", "HUP"} THEN "ignored" ELSE t

Throw(s) == IF sig = "none" \/ s = "TERM" THEN s ELSE sig

\* Mutant: the lines of an unfinished command outlive the connection.
in_extra_reset_Not(c) == c

in_extra_reset(c) == [c EXCEPT !.in_extra = "none", !.asked = 0]

man_listen(c) == [c EXCEPT !.state = "LISTEN"]

\* man_reset_client_socket(man, false): what is left of the connection, and the
\* signal that follows.
AfterDisconnect(c) ==
    LET r == in_extra_reset([c EXCEPT !.state = "INITIAL", !.out = FALSE]) IN
    IF cfg.connect_as_client THEN r ELSE man_listen(r)

DisconnectSignal(c) ==
    LET m == man_mod_signal("USR1")
        s == IF cfg.on_disconnect /\ ~man_password_needed(c) /\ m # "ignored"
             THEN Throw(m) ELSE sig
    IN IF cfg.connect_as_client THEN "TERM" ELSE s

man_reset_client_socket(c) ==
    /\ mc' = AfterDisconnect(c)
    /\ sig' = DisconnectSignal(c)

\* man_up_finalize
up_finalize(c) ==
    LET u == c.up_query IN
    [c EXCEPT !.up_query.defined =
        CASE c.mode = "USERNAME"  -> u.defined \/ u.user # 0
          [] c.mode = "USER_PASS" -> u.defined \/ (u.user # 0 /\ u.pass # 0)
          [] c.mode \in {"PASS", "NEED_OK", "NEED_STR"} -> u.defined \/ u.pass # 0
          [] OTHER -> FALSE]

\* man_query_user_pass with needed, for the field of the given name
query_username(c, type, tag) ==
    IF c.mode \in {"USER_PASS", "USERNAME"} /\ c.type = type
    THEN up_finalize([c EXCEPT !.up_query.user = tag]) ELSE c

query_password(c, type, tag) ==
    IF c.mode \in {"PASS", "USER_PASS"} /\ c.type = type
    THEN up_finalize([c EXCEPT !.up_query.pass = tag]) ELSE c

\* needok and needstr answer only the question of their own kind.
query_need(c, mode, type, tag) ==
    IF c.mode = mode /\ c.type = type
    THEN up_finalize([c EXCEPT !.up_query.pass = tag]) ELSE c

query_password_base64(c, type) ==
    IF c.mode \in {"PASS", "USER_PASS"} /\ c.type = type
    THEN [c EXCEPT !.in_extra = "password", !.asked = serial] ELSE c

man_pk_sig(c) ==
    IF c.ext = "SOLICIT" THEN [c EXCEPT !.ext = "INPUT", !.in_extra = "pk_sig"] ELSE c

\* The line END of a multi-line command.  A password answers the question of the moment,
\* whichever it was begun for, if the lines are base64.
in_extra_dispatch(c, base64) ==
    CASE c.in_extra = "pk_sig" -> [c EXCEPT !.ext = "READY", !.in_extra = "none"]
      [] c.in_extra = "password" /\ base64 ->
            in_extra_reset([query_password(c, c.type, c.asked) EXCEPT
                                !.up_query.lines = @ \/ c.mode \in {"PASS", "USER_PASS"}])
      [] OTHER -> in_extra_reset(c)

-----------------------------------------------------------------------------
(* What the management client does.  Every line is served by man_read, from *)
(* whichever loop is running.                                               *)

Lines == [cmd : {"username", "password", "needok", "needstr", "password64"}, type : Types]
         \cup [cmd : {"pk-sig", "hold-release", "hold-on", "hold-off", "signal-usr1",
                      "text", "END", "END after garbage"}, type : {NoType}]

Served == prog # "end" /\ (prog = "main" \/ call.kind # "none") /\ ~Blocked

\* man_accept and man_new_connection_post: settings are reset, and what
\* OpenVPN waits for is repeated to the new client.
man_accept ==
    /\ Served /\ mc.state = "LISTEN" /\ clients < MaxClients
    /\ clients' = clients + 1
    /\ mc' = [mc EXCEPT !.state = "CC_WAIT_READ", !.password_verified = FALSE,
                        !.password_tries = 0]
    /\ reading' = TRUE
    /\ UNCHANGED <<cfg, prog, call, persist, sig, serial, restarts>>

\* Mutant: the limit is tested before the attempt is counted.
LastTry_Before(c) == c.password_tries >= MANAGEMENT_N_PASSWORD_RETRIES

LastTry(c) == c.password_tries + 1 >= MANAGEMENT_N_PASSWORD_RETRIES

\* A line while the password is missing (man_check_password); after the last
\* try the connection is closed.
man_check_password(ok) ==
    /\ Served /\ mc.state = "CC_WAIT_READ"
    /\ mc.in_extra = "none" /\ man_password_needed(mc)
    /\ LET c == in_extra_reset(mc) IN
       CASE ok -> /\ mc' = Output([c EXCEPT !.password_verified = TRUE])
                  /\ UNCHANGED sig
         [] ~ok /\ LastTry(c) ->
                man_reset_client_socket([c EXCEPT !.password_tries = @ + 1])
         [] OTHER -> /\ mc' = [c EXCEPT !.password_tries = @ + 1]
                     /\ UNCHANGED sig
    /\ UNCHANGED <<cfg, prog, call, persist, reading, serial, clients, restarts>>

\* man_dispatch_command for the commands that change the state kept here.
dispatch(c, line) ==
    CASE line.cmd = "username"   -> query_username(c, line.type, serial)
      [] line.cmd = "password"   -> query_password(c, line.type, serial)
      [] line.cmd = "needok"     -> query_need(c, "NEED_OK", line.type, serial)
      [] line.cmd = "needstr"    -> query_need(c, "NEED_STR", line.type, serial)
      [] line.cmd = "password64" -> query_password_base64(c, line.type)
      [] line.cmd = "pk-sig"     -> man_pk_sig(c)
      [] OTHER -> c

man_hold(cmd) ==
    [persist EXCEPT !.hold_release = (cmd = "hold-release") \/ @,
                    !.hold = (cmd = "hold-on") \/ (cmd # "hold-off" /\ @)]

man_process_command(line) ==
    /\ mc.in_extra = "none" /\ ~man_password_needed(mc)
    /\ line.cmd \notin {"text", "END", "END after garbage"}
    /\ mc' = Output(dispatch(in_extra_reset(mc), line))
    /\ persist' = man_hold(line.cmd)
    /\ sig' = IF line.cmd = "signal-usr1" /\ man_mod_signal("USR1") # "ignored"
              THEN Throw(man_mod_signal("USR1")) ELSE sig

\* Inside a multi-line command every line but END is text.
InExtra(line) ==
    /\ mc.in_extra # "none"
    /\ mc' = IF line.cmd \in {"END", "END after garbage"}
             THEN Output(in_extra_dispatch(mc, line.cmd = "END")) ELSE mc
    /\ UNCHANGED <<persist, sig>>

man_read(line) ==
    /\ Served /\ mc.state = "CC_WAIT_READ"
    /\ man_process_command(line) \/ InExtra(line)
    /\ UNCHANGED <<cfg, prog, call, reading, serial, clients, restarts>>

\* The client closes the connection, or sends "quit": recv returns 0, or halt.
\* With output queued the close shows as an error of send (man_write).
Disconnect ==
    /\ Served \/ Blocked
    /\ Connected(mc)
    /\ man_reset_client_socket(mc)
    /\ UNCHANGED <<cfg, prog, call, persist, reading, serial, clients, restarts>>

\* The peer stops reading; it reads again and man_write sends the queue.
StopReading ==
    /\ Connected(mc) /\ reading /\ prog # "end" /\ reading' = FALSE
    /\ UNCHANGED <<cfg, prog, call, mc, persist, sig, serial, clients, restarts>>

man_write ==
    /\ Served \/ Blocked
    /\ ~reading /\ Connected(mc)
    /\ reading' = TRUE
    /\ mc' = [mc EXCEPT !.out = FALSE, !.state = "CC_WAIT_READ"]
    /\ UNCHANGED <<cfg, prog, call, persist, sig, serial, clients, restarts>>

-----------------------------------------------------------------------------
(* The calls of OpenVPN that wait for the client.                          *)

Idle == call.kind = "none" /\ ~Blocked /\ sig = "none" /\ mc.state # "INITIAL"

\* A call starts: output is written at once from now on, and without a client
\* it first waits for one (man_wait_for_client_connection).
Enter(kind, type) ==
    /\ call' = [kind |-> kind, type |-> type, saved |-> persist.standalone_disabled,
                step |-> IF mc.state = "LISTEN" THEN "connect" ELSE "ask"]
    /\ persist' = [persist EXCEPT !.standalone_disabled = FALSE, !.special_state_msg = "none"]
    /\ UNCHANGED <<cfg, prog, sig, reading, clients, restarts>>

management_hold ==
    /\ Idle /\ prog \in {"startup", "init"} /\ management_would_hold
    /\ Enter("hold", NoType)
    /\ UNCHANGED <<mc, serial>>

management_query_user_pass(mode, type) ==
    /\ Idle /\ prog # "end" /\ serial < MaxQueries /\ mode \in cfg.asks
    /\ Enter(mode, type)
    /\ serial' = serial + 1
    /\ mc' = [mc EXCEPT !.up_query = NoAnswer]

management_query_multiline ==
    /\ Idle /\ prog # "end" /\ serial < MaxQueries /\ "multiline" \in cfg.asks
    /\ Enter("multiline", NoType)
    /\ serial' = serial + 1
    /\ mc' = [mc EXCEPT !.ext = "SOLICIT"]

\* management_sleep from socket or tun code, with or without the callback set
management_event_loop_n_seconds ==
    /\ Idle /\ prog \in {"startup", "init", "main"} /\ restarts < MaxRestarts
    /\ "sleep" \in cfg.asks
    /\ Enter("sleep", NoType)
    /\ UNCHANGED <<mc, serial>>

\* A client is there and verified: the question is put to it.
Modes == {"USER_PASS", "PASS", "USERNAME", "NEED_OK", "NEED_STR"}

Ask ==
    /\ call.kind # "none" /\ sig = "none" /\ ~Blocked
    /\ \/ call.step = "ask"
       \/ call.step = "connect" /\ Connected(mc) /\ ~man_password_needed(mc)
    /\ call' = [call EXCEPT !.step = "loop"]
    /\ IF call.kind = "sleep" THEN UNCHANGED <<persist, mc>>
       ELSE /\ persist' = [persist EXCEPT !.special_state_msg = call.kind]
            /\ mc' = Output(IF call.kind \in Modes
                            THEN [mc EXCEPT !.mode = call.kind, !.type = call.type]
                            ELSE mc)
    /\ UNCHANGED <<cfg, prog, sig, reading, serial, clients, restarts>>

\* The call returns: with what it waited for, or because of a signal.
Answered ==
    CASE call.kind = "hold"      -> persist.hold_release
      [] call.kind = "multiline" -> mc.ext = "READY"
      [] call.kind = "sleep"     -> FALSE
      [] OTHER                   -> mc.up_query.defined

\* Mutant: the question is still announced to clients that connect later.
Revert_KeepsMessage ==
    persist' = [persist EXCEPT !.standalone_disabled = call.saved]

\* "revert state"
Revert ==
    persist' = [persist EXCEPT !.standalone_disabled = call.saved,
                               !.special_state_msg = "none"]

Returned ==
    mc' = CASE call.kind = "multiline" -> in_extra_reset([mc EXCEPT !.ext = "UNDEF"])
            [] call.kind \in Modes -> [mc EXCEPT !.mode = "DISABLED", !.type = NoType,
                                                 !.up_query = NoAnswer]
            [] OTHER -> mc

Return ==
    /\ call.kind \notin {"none", "sleep"} /\ ~Blocked
    /\ (call.step = "loop" /\ Answered) \/ sig # "none"
    /\ Revert
    /\ Returned
    /\ call' = NoCall
    /\ UNCHANGED <<cfg, prog, sig, reading, serial, clients, restarts>>

\* management_event_loop_n_seconds reverts only when the time has passed while
\* it served the client; man_block's expiry counts as a signal and returns early.
SleepReturn ==
    /\ call.kind = "sleep" /\ ~Blocked
    /\ \/ UNCHANGED persist
       \/ call.step = "loop" /\ sig = "none" /\ Connected(mc) /\ Revert
    /\ call' = NoCall
    /\ UNCHANGED <<cfg, prog, mc, sig, reading, serial, clients, restarts>>

-----------------------------------------------------------------------------
(* The rest of the program, as far as it touches the management interface. *)

management_set_callback ==
    /\ prog = "startup" /\ Idle
    /\ prog' = "init"
    /\ persist' = [persist EXCEPT !.standalone_disabled = TRUE]
    /\ UNCHANGED <<cfg, call, mc, sig, reading, serial, clients, restarts>>

EnterLoop ==
    /\ prog = "init" /\ Idle
    /\ prog' = "main"
    /\ UNCHANGED <<cfg, call, mc, persist, sig, reading, serial, clients, restarts>>

Signal(s) ==
    /\ prog # "end" /\ sig = "none" /\ restarts < MaxRestarts
    /\ sig' = s
    /\ UNCHANGED <<cfg, prog, call, mc, persist, reading, serial, clients, restarts>>

\* A signal ends the tunnel: the callback is cleared (and the queue flushed),
\* and OpenVPN starts again or closes the interface.
management_clear_callback ==
    /\ prog # "end" /\ call.kind = "none" /\ sig # "none" /\ restarts < MaxRestarts
    /\ restarts' = restarts + 1
    /\ IF sig = "TERM"
       THEN prog' = "end" /\ mc' = MsInitial
       ELSE prog' = "startup" /\ UNCHANGED mc
    /\ persist' = [persist EXCEPT !.standalone_disabled = FALSE, !.hold_release = FALSE]
    /\ sig' = "none"
    /\ UNCHANGED <<cfg, call, reading, serial, clients>>

Next ==
    \/ man_accept
    \/ \E ok \in BOOLEAN : man_check_password(ok)
    \/ \E line \in Lines : man_read(line)
    \/ Disconnect \/ StopReading \/ man_write
    \/ management_hold \/ management_query_multiline \/ management_event_loop_n_seconds
    \/ \E mode \in Modes, type \in Types : management_query_user_pass(mode, type)
    \/ Ask \/ Return \/ SleepReturn
    \/ management_set_callback \/ EnterLoop \/ management_clear_callback
    \/ \E s \in {"USR1", "TERM"} : Signal(s)

Spec == Init /\ [][Next]_vars

-----------------------------------------------------------------------------
TypeOK ==
    /\ cfg \in Configs
    /\ prog \in {"startup", "init", "main", "end"}
    /\ call.kind \in {"none", "hold", "multiline", "sleep"} \cup Modes
    /\ call.step \in {"none", "connect", "ask", "loop"}
    /\ mc.state \in {"INITIAL", "LISTEN", "CC_WAIT_READ", "CC_WAIT_WRITE"}
    /\ mc.password_tries \in 0..MANAGEMENT_N_PASSWORD_RETRIES
    /\ mc.in_extra \in {"none", "password", "pk_sig"}
    /\ mc.ext \in {"UNDEF", "SOLICIT", "INPUT", "READY"}
    /\ mc.up_query \in [user : 0..MaxQueries, pass : 0..MaxQueries, lines : BOOLEAN, defined : BOOLEAN]
    /\ sig \in {"none", "USR1", "HUP", "TERM"}
    /\ serial \in 0..MaxQueries /\ clients \in 0..MaxClients

\* The lines of a multi-line command are taken without asking for the password,
\* so such a command must belong to the client that gave it: it is only open
\* while that client, verified, is connected.
OpenCommandIsVerified ==
    mc.in_extra # "none" => Connected(mc) /\ ~man_password_needed(mc)

\* What is left of a question when no question is being asked: no username, no password, no
\* message that would ask a new client for it again, no state that would accept a late
\* signature.  A password of several lines that was begun and not ended does stay open
\* (management_query_user_pass does not reset in_extra).
QuestionsAreClosed ==
    call.kind \in {"none", "hold", "sleep"} =>
        /\ mc.mode = "DISABLED" /\ mc.up_query = NoAnswer
        /\ mc.ext = "UNDEF" /\ mc.in_extra # "pk_sig"
        /\ (call.kind = "none" => persist.special_state_msg = "none")

\* A question is answered by what the client sent while it was asked.  Only the password of
\* several lines may have been begun for an earlier one.
AnswerIsOwn ==
    /\ mc.up_query.user \in {0, serial}
    /\ mc.up_query.pass \in {0, serial} \/ mc.up_query.lines
    /\ mc.up_query.defined => call.kind \in Modes /\ call.step = "loop"

=============================================================================
