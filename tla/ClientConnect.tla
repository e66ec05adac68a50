---------------------------- MODULE ClientConnect ----------------------------
(***************************************************************************)
(* How the server settles the options of a client that has authenticated   *)
(* (multi_connection_established in multi.c): a chain of handlers, each of *)
(* which may succeed, fail, be skipped, or defer and be asked again later, *)
(* while the process it has started writes its verdict into a file.  The   *)
(* instance can be closed at any time in between.                          *)
(*                                                                         *)
(* One client instance; when it is closed another one takes its place.     *)
(***************************************************************************)
EXTENDS Integers, Sequences

CONSTANT
    Setups       \* sets of what is configured: "ccd", "v1", "v2", "v2defer", "script"

VARIABLES
    setup,       \* what this server has configured
    mi,          \* the client instance
    n_clients,   \* m->n_clients
    last         \* history: how the instance closed last has fared

vars == <<setup, mi, n_clients, last>>

client_connect_handlers == <<"compress_migrate", "ccd", "v1", "v2", "script", "mda">>

Handlers == {client_connect_handlers[n] : n \in DOMAIN client_connect_handlers}

\* enum multi_status, in its order, as far as a server uses it.
CAS == <<"NOT_CONNECTED", "WAITING_AUTH", "PENDING", "PENDING_DEFERRED",
         "PENDING_DEFERRED_PARTIAL", "FAILED", "RECONNECT_PENDING", "CONNECT_DONE">>

AtLeast(s, state) ==
    \E i, j \in DOMAIN CAS : CAS[i] = s /\ CAS[j] = state /\ i >= j

is_cas_pending(s) == s \in {"PENDING", "PENDING_DEFERRED", "PENDING_DEFERRED_PARTIAL"}

\* ret_file is the content of client_connect_deferred_file, "none" if there
\* is no such file.  ran, results and disconnects are history.
NewInstance ==
    [multi_state |-> "NOT_CONNECTED", handler |-> 1, config_file |-> FALSE,
     ret_file |-> "none", disable |-> FALSE, cc_config |-> FALSE,
     n_clients_delta |-> 0,
     ran |-> [h \in Handlers |-> 0], results |-> [h \in Handlers |-> "none"],
     connected |-> FALSE, disconnects |-> 0]

ConnectFunctions == {"v1", "v2", "script"}

\* What the client-connect and client-disconnect programs saw of a client.
Summary(s) ==
    [succeeded |-> \E h \in ConnectFunctions : s.results[h] = "SUCCEEDED",
     connected |-> s.connected, disconnects |-> s.disconnects,
     reconnecting |-> s.multi_state = "RECONNECT_PENDING"]

Written == {"0", "1", "2", "other"}   \* what a verdict file may start with

-----------------------------------------------------------------------------
(* The handlers.  Each one yields the set of its possible outcomes.        *)

Outcome(s, ret) == [mi |-> s, ret |-> ret]

ccs_delete_files(s) == [s EXCEPT !.config_file = FALSE, !.ret_file = "none"]

\* Importing options can set "disable".
Imported(s) == {s, [s EXCEPT !.disable = TRUE]}

ccs_test_deferred_ret_file(content) ==
    CASE content \in {"none", "empty"} -> "SKIPPED"
      [] content = "1" -> "SUCCEEDED"
      [] content = "2" -> "DEFERRED"
      [] OTHER -> "FAILED"

Succeed(s) == {Outcome(t, "SUCCEEDED") : t \in Imported(s)}

multi_client_connect_source_ccd(s) ==
    {Outcome(s, "SKIPPED")} \cup (IF "ccd" \in setup THEN Succeed(s) ELSE {})

\* The plugin returns plug; the verdict file, which the plugin may have
\* written to, can only turn that towards failure or deferral.
PluginVerdict(plug, content) ==
    CASE ccs_test_deferred_ret_file(content) = "FAILED" -> "FAILED"
      [] plug = "SUCCEEDED" /\ content = "2" -> "DEFERRED"
      [] OTHER -> plug

CallPluginV1(s, plug) ==
    CASE PluginVerdict(plug, s.ret_file) = "DEFERRED" -> {Outcome(s, "DEFERRED")}
      [] PluginVerdict(plug, s.ret_file) = "FAILED" ->
            {Outcome(ccs_delete_files(s), "FAILED")}
      [] OTHER -> Succeed(ccs_delete_files(s))

\* A first call creates both files (which can fail), a deferred one finds
\* what was written into the verdict file since.
WithFiles(s) ==
    {[s EXCEPT !.config_file = TRUE, !.ret_file = c] : c \in Written \cup {"empty"}}

multi_client_connect_call_plugin_v1(s, deferred) ==
    LET plugs == {"SUCCEEDED", "DEFERRED", "FAILED"}
    IN  IF "v1" \notin setup THEN {Outcome(s, "SKIPPED")}
        ELSE IF deferred THEN UNION {CallPluginV1(s, plug) : plug \in plugs}
        ELSE {Outcome(ccs_delete_files(s), "FAILED")}
             \cup UNION {CallPluginV1(t, plug) : t \in WithFiles(s), plug \in plugs}

multi_client_connect_call_plugin_v2(s, deferred) ==
    IF "v2" \notin setup \/ (deferred /\ "v2defer" \notin setup)
    THEN {Outcome(s, "SKIPPED")}
    ELSE Succeed(s)
         \cup {Outcome(s, "FAILED")}
         \cup (IF "v2defer" \in setup THEN {Outcome(s, "DEFERRED")} ELSE {})

\* Mutant: no verdict yet counts as one to skip the handler.
multi_client_connect_script_deferred_Skips(s) ==
    CASE ccs_test_deferred_ret_file(s.ret_file) = "SKIPPED" ->
            {Outcome(ccs_delete_files(s), "SKIPPED")}
      [] ccs_test_deferred_ret_file(s.ret_file) = "DEFERRED" -> {Outcome(s, "DEFERRED")}
      [] ccs_test_deferred_ret_file(s.ret_file) = "FAILED" ->
            {Outcome(ccs_delete_files(s), "FAILED")}
      [] OTHER -> Succeed(ccs_delete_files(s))

multi_client_connect_script_deferred(s) ==
    CASE ccs_test_deferred_ret_file(s.ret_file) \in {"SKIPPED", "DEFERRED"} ->
            {Outcome(s, "DEFERRED")}
      [] ccs_test_deferred_ret_file(s.ret_file) = "FAILED" ->
            {Outcome(ccs_delete_files(s), "FAILED")}
      [] OTHER -> Succeed(ccs_delete_files(s))

multi_client_connect_call_script(s, deferred) ==
    IF deferred THEN multi_client_connect_script_deferred(s)
    ELSE IF "script" \notin setup THEN {Outcome(s, "SKIPPED")}
    ELSE {Outcome(ccs_delete_files(s), "FAILED")}
         \cup UNION {IF t.ret_file = "2" THEN {Outcome(t, "DEFERRED")}
                                         ELSE Succeed(ccs_delete_files(t)) : t \in WithFiles(s)}

multi_client_connect_mda(s) ==
    IF s.cc_config THEN Succeed(s) ELSE {Outcome(s, "SKIPPED")}

Call(s, h, deferred) ==
    CASE h = "compress_migrate" -> {Outcome(s, "SUCCEEDED")}
      [] h = "ccd" -> multi_client_connect_source_ccd(s)
      [] h = "v1" -> multi_client_connect_call_plugin_v1(s, deferred)
      [] h = "v2" -> multi_client_connect_call_plugin_v2(s, deferred)
      [] h = "script" -> multi_client_connect_call_script(s, deferred)
      [] h = "mda" -> multi_client_connect_mda(s)

-----------------------------------------------------------------------------
(* The chain *)

multi_client_disconnect_script(s) == [s EXCEPT !.disconnects = @ + 1]

\* multi_client_connect_late_setup: the protocol options, the DCO peer or the
\* keys can still fail.
multi_client_connect_late_setup(s) ==
    {[s EXCEPT !.multi_state = "CONNECT_DONE", !.connected = TRUE],
     [s EXCEPT !.multi_state = "FAILED"]}

Rejected(s) ==
    [(IF s.multi_state = "PENDING_DEFERRED_PARTIAL"
      THEN multi_client_disconnect_script(s) ELSE s) EXCEPT !.multi_state = "FAILED"]

\* The checks after the chain (--override-username, DCO, compression) can
\* reject a client that every handler accepted.
Conclude(s, cc_succeeded) ==
    {[t EXCEPT !.n_clients_delta = @ - 1] :
        t \in {Rejected(s)}
              \cup (IF cc_succeeded THEN multi_client_connect_late_setup(s) ELSE {})}

Record(o, h, deferred) ==
    [o.mi EXCEPT !.ran[h] = IF deferred THEN @ ELSE @ + 1,
                 !.results[h] = o.ret]

AfterHandler(o, h, deferred) ==
    [Record(o, h, deferred) EXCEPT
        !.multi_state = IF o.ret = "SUCCEEDED" THEN "PENDING_DEFERRED_PARTIAL" ELSE @,
        !.handler = @ + 1]

RECURSIVE Chain(_, _)
Chain(s, deferred) ==
    IF s.handler > Len(client_connect_handlers)
    THEN Conclude(s, TRUE)
    ELSE LET h == client_connect_handlers[s.handler]
         IN  UNION {IF o.ret = "DEFERRED" THEN {Record(o, h, deferred)}
                    ELSE IF o.ret = "FAILED" \/ o.mi.disable
                    THEN Conclude(AfterHandler(o, h, deferred), FALSE)
                    ELSE Chain(AfterHandler(o, h, deferred), FALSE)
                        : o \in Call(s, h, deferred)}

multi_connection_established(s) ==
    IF s.multi_state = "PENDING"
    THEN Chain([s EXCEPT !.multi_state = "PENDING_DEFERRED", !.handler = 1], FALSE)
    ELSE Chain(s, TRUE)

-----------------------------------------------------------------------------
Init ==
    /\ setup \in Setups
    /\ mi = NewInstance
    /\ n_clients = 0
    /\ last = Summary(NewInstance)

\* session_move_active on a server.
KeyEstablished ==
    /\ mi.multi_state = "NOT_CONNECTED"
    /\ mi' = [mi EXCEPT !.multi_state = "WAITING_AUTH"]
    /\ UNCHANGED <<setup, n_clients, last>>

\* management_client_auth brings options while the state is early enough.
management_client_auth ==
    /\ mi.multi_state \in {"NOT_CONNECTED", "WAITING_AUTH"}
    /\ mi' = [mi EXCEPT !.cc_config = TRUE]
    /\ UNCHANGED <<setup, n_clients, last>>

Authenticated ==
    /\ mi.multi_state = "WAITING_AUTH"
    /\ mi' = [mi EXCEPT !.multi_state = "PENDING"]
    /\ UNCHANGED <<setup, n_clients, last>>

multi_process_post ==
    /\ is_cas_pending(mi.multi_state)
    /\ mi' \in multi_connection_established(mi)
    /\ n_clients' = n_clients + (mi.n_clients_delta - mi'.n_clients_delta)
    /\ UNCHANGED <<setup, last>>

\* The process behind a deferred handler writes its verdict; it truncates the
\* file first, so an empty one can be read too.
Verdict(c) ==
    /\ mi.ret_file # "none"
    /\ mi' = [mi EXCEPT !.ret_file = c]
    /\ UNCHANGED <<setup, n_clients, last>>

\* tls_multi_process: a session that authenticates in TM_INITIAL takes over TM_ACTIVE.
Usurped ==
    /\ mi.multi_state = "CONNECT_DONE"
    /\ mi' = [mi EXCEPT !.multi_state = "RECONNECT_PENDING"]
    /\ UNCHANGED <<setup, n_clients, last>>

\* wait_for_connect, a second later: check_connection_established and do_up.
Reconnected ==
    /\ mi.multi_state = "RECONNECT_PENDING"
    /\ mi' = [mi EXCEPT !.multi_state = "CONNECT_DONE"]
    /\ UNCHANGED <<setup, n_clients, last>>

\* Mutants: the script also runs for a client that was refused; the client is
\* not taken off the count.
multi_close_instance_Refused ==
    /\ n_clients' = n_clients + mi.n_clients_delta
    /\ last' = Summary(IF AtLeast(mi.multi_state, "FAILED")
                       THEN multi_client_disconnect_script(mi) ELSE mi)
    /\ mi' = NewInstance
    /\ UNCHANGED setup

multi_close_instance ==
    LET s == IF AtLeast(mi.multi_state, "CONNECT_DONE")
             THEN multi_client_disconnect_script(mi) ELSE mi
    IN  /\ n_clients' = n_clients + mi.n_clients_delta
        /\ last' = Summary(s)
        /\ mi' = NewInstance
        /\ UNCHANGED setup

Next ==
    \/ KeyEstablished \/ management_client_auth \/ Authenticated
    \/ multi_process_post \/ Usurped \/ Reconnected \/ multi_close_instance
    \/ \E c \in Written \cup {"empty"} : Verdict(c)

Spec == Init /\ [][Next]_vars

-----------------------------------------------------------------------------
Results == {"none", "SUCCEEDED", "SKIPPED", "DEFERRED", "FAILED"}

TypeOK ==
    /\ mi.multi_state \in {CAS[n] : n \in DOMAIN CAS}
    /\ mi.handler \in 1..Len(client_connect_handlers) + 1
    /\ mi.config_file \in BOOLEAN /\ mi.disable \in BOOLEAN /\ mi.cc_config \in BOOLEAN
    /\ mi.ret_file \in Written \cup {"none", "empty"}
    /\ mi.results \in [Handlers -> Results]
    /\ n_clients \in {0, 1} /\ mi.n_clients_delta = -n_clients

\* The client-disconnect script runs once for a client that was connected,
\* when it leaves, and never twice for any client: not when the chain has
\* run it already, and not on the way out of a failed late setup.  A client
\* that leaves while a usurping session waits to be set up, which is smaller
\* than CAS_CONNECT_DONE, gets none (multi.c:635; README, section 5).
OneDisconnect ==
    /\ last.disconnects <= 1
    /\ last.connected => last.disconnects = IF last.reconnecting THEN 0 ELSE 1
    /\ mi.connected => mi.disconnects = 0

\* A client gets connected only when each handler has run, once, however
\* often it deferred, none has failed, and nothing said "disable".
ConnectedByAll ==
    AtLeast(mi.multi_state, "RECONNECT_PENDING") =>
        /\ ~mi.disable
        /\ \A h \in Handlers : mi.ran[h] = 1 /\ mi.results[h] \in {"SUCCEEDED", "SKIPPED"}
        /\ "script" \in setup => mi.results["script"] = "SUCCEEDED"
        /\ "v1" \in setup => mi.results["v1"] = "SUCCEEDED"

\* The temporary files live exactly as long as the handler that made them is
\* deferred: the next handler never reads a verdict meant for another.
FilesBelongToDeferral ==
    LET waiting == /\ mi.handler <= Len(client_connect_handlers)
                   /\ client_connect_handlers[mi.handler] \in {"v1", "script"}
                   /\ mi.multi_state \in {"PENDING_DEFERRED", "PENDING_DEFERRED_PARTIAL"}
    IN  (mi.ret_file # "none" <=> mi.config_file) /\ (mi.config_file <=> waiting)

\* doc/man-sections/script-options.rst: --client-disconnect "will not be
\* called unless the --client-connect script and plugins (if defined) were
\* previously called on this instance with successful (0) status returns",
\* except that one success among several is enough.
DisconnectAfterConnect == last.disconnects > 0 /\ setup \cap ConnectFunctions # {} => last.succeeded
=============================================================================
