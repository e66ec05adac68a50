------------------------------ MODULE Lifecycle ------------------------------
(***************************************************************************)
(* The life cycle of the process (openvpn.c, init.c, sig.c): the outer     *)
(* loop, entered again on SIGHUP with an empty context, the inner one,     *)
(* entered again on SIGUSR1 with the objects of context level 1 kept, and  *)
(* the event loop.  A signal can arrive between any two steps.             *)
(***************************************************************************)
EXTENDS Naturals

CONSTANTS
    Configs,   \* option settings
    Pulled     \* sets of options a server may push that a digest tells apart

VARIABLES
    cfg,       \* the options that decide what survives a restart
    pc,        \* where the main thread is
    sig,       \* siginfo_static
    sig_save,  \* the signal link_socket_init_phase2 puts aside
    mode,      \* signal_mode; "halted" after halt_low_priority_signals
    c1,        \* context level 1, what SIGUSR1 may keep
    c2,        \* context level 2, one connection
    up,        \* history: of the scripts that were run the last was up ("yes") or not
               \* ("no"); "lost" if it was up for a device that was forgotten
    ending     \* history: SIGTERM or SIGINT was received

vars == <<cfg, pc, sig, sig_save, mode, c1, c2, up, ending>>

NoTun == "closed"
Local == "local"       \* the options of the configuration file
Zero == "zero"         \* a digest that is not set

-----------------------------------------------------------------------------
(* sig.c *)
signal_priority ==
    [none |-> 0, SIGUSR2 |-> 1, SIGUSR1 |-> 2, SIGHUP |-> 3, SIGTERM |-> 4, SIGINT |-> 5]

Signals == {"SIGUSR2", "SIGUSR1", "SIGHUP", "SIGTERM", "SIGINT"}
Final == {"SIGTERM", "SIGINT"}
NoSignal == [received |-> "none", source |-> "soft"]

try_throw_signal(si, signum, source) ==
    IF signal_priority[signum] >= signal_priority[si.received]
    THEN [received |-> signum, source |-> source]
    ELSE si

register_signal(si, signum) == try_throw_signal(si, signum, "soft")

signal_reset(si, signum) ==
    IF signum = "none" \/ si.received = signum THEN NoSignal ELSE si

pre_init_signal_catch(si) ==
    signal_reset(signal_reset(signal_reset(si, "SIGUSR1"), "SIGUSR2"), "SIGHUP")

remap_signal(si) ==
    IF si.received = "SIGUSR1" /\ cfg.remap # "none"
    THEN register_signal(si, cfg.remap)
    ELSE si

IS_SIG == sig.received # "none"

\* signal_handler runs between any two instructions; throw_signal is called by
\* the management client, where the main thread waits in its event loop.
HardSignal(signum) ==
    /\ pc # "exited"
    /\ \/ signum \in Final
       \/ mode = "post"
       \/ mode # "halted" /\ pc \in {"hold", "pause", "phase2"}
    /\ sig' = try_throw_signal(sig, signum, "hard")
    /\ ending' = (ending \/ signum \in Final)
    /\ UNCHANGED <<cfg, pc, sig_save, mode, c1, c2, up>>

-----------------------------------------------------------------------------
(* The tun device.  c.tun holds the options it was opened with. *)
do_route(c) == [c EXCEPT !.routes = TRUE]

do_open_tun(c, options) ==
    IF c.tun # NoTun
    THEN c
    ELSE [c EXCEPT !.tun = options, !.routes = ~cfg.route_delay]

OpenTunRunsUp(c) == c.tun = NoTun \/ cfg.up_restart

do_close_tun_simple(c) == [c EXCEPT !.tun = NoTun, !.routes = FALSE, !.save = Zero]

\* Mutant: --persist-tun keeps the device over every restart and exit.
PreservesTun_Always(force) == ~force /\ cfg.persist_tun

PreservesTun(force) == ~force /\ sig.received = "SIGUSR1" /\ cfg.persist_tun

do_close_tun(c, force) ==
    IF c.tun = NoTun \/ PreservesTun(force) THEN c ELSE do_close_tun_simple(c)

CloseTunRunsDown(c, force) == c.tun # NoTun /\ (~PreservesTun(force) \/ cfg.up_restart)

\* up after the scripts a step runs.
Ran(runs, script) == IF runs THEN script ELSE up

-----------------------------------------------------------------------------
(* openvpn_main *)
FreshC1 == [held |-> {"plugins"}, tun |-> NoTun, routes |-> FALSE, save |-> Zero,
            closing |-> "none"]

FreshC2 == [did_open_tun |-> FALSE, do_up_ran |-> FALSE, digest |-> Zero, options |-> Local,
            route_wakeup |-> FALSE, complete |-> FALSE, running |-> FALSE,
            exit_wait |-> "no", deferred |-> "none", pending |-> FALSE]

Init ==
    /\ cfg \in Configs
    /\ pc = "top"
    /\ sig = NoSignal /\ sig_save = NoSignal
    /\ mode = "pre"
    /\ c1 = FreshC1 /\ c2 = FreshC2
    /\ up = "no" /\ ending = FALSE

\* The body of the outer loop up to open_management; the context is zeroed, whatever it
\* still holds.
EnterOuter ==
    /\ pc = "top"
    /\ pc' = "hold"
    /\ sig' = pre_init_signal_catch(sig)
    /\ mode' = "pre"
    /\ c1' = FreshC1
    /\ c2' = FreshC2
    /\ up' = IF c1.tun # NoTun THEN "lost" ELSE up
    /\ UNCHANGED <<cfg, sig_save, ending>>

open_management_exits ==
    /\ pc = "hold" /\ IS_SIG
    /\ pc' = "exit"
    /\ UNCHANGED <<cfg, sig, sig_save, mode, c1, c2, up, ending>>

open_management_returns ==
    /\ pc = "hold" /\ ~IS_SIG
    /\ pc' = "enter"
    /\ UNCHANGED <<cfg, sig, sig_save, mode, c1, c2, up, ending>>

\* tunnel_point_to_point or tunnel_server, up to do_startup_pause.
EnterInner ==
    /\ pc = "enter"
    /\ pc' = "pause"
    /\ sig' = pre_init_signal_catch(sig)
    /\ mode' = "pre"
    /\ c2' = [FreshC2 EXCEPT !.pending = c1.tun # NoTun /\ ~c1.routes]
    /\ UNCHANGED <<cfg, sig_save, c1, up, ending>>

\* print_signal, and the condition of the inner loop.
LeaveInner ==
    /\ pc = "leave_inner"
    /\ pc' = IF sig.received = "SIGUSR1" THEN "enter" ELSE "leave_outer"
    /\ sig' = signal_reset(sig, "SIGUSR1")
    /\ UNCHANGED <<cfg, sig_save, mode, c1, c2, up, ending>>

LeaveOuter ==
    /\ pc = "leave_outer"
    /\ pc' = IF sig.received = "SIGHUP" THEN "top" ELSE "exit"
    /\ sig' = signal_reset(sig, "SIGHUP")
    /\ UNCHANGED <<cfg, sig_save, mode, c1, c2, up, ending>>

\* openvpn_exit: tun_abort and plugin_abort.
openvpn_exit ==
    /\ pc = "exit"
    /\ pc' = "exited"
    /\ c1' = [do_close_tun(c1, TRUE) EXCEPT !.held = @ \ {"plugins"}]
    /\ up' = Ran(CloseTunRunsDown(c1, TRUE), "no")
    /\ UNCHANGED <<cfg, sig, sig_save, mode, c2, ending>>

-----------------------------------------------------------------------------
(* init_instance.  Wherever it finds a signal it goes to close_context. *)
do_startup_pause ==
    /\ pc = "pause"
    /\ pc' = IF IS_SIG THEN "close_context" ELSE "crypto"
    /\ UNCHANGED <<cfg, sig, sig_save, mode, c1, c2, up, ending>>

\* From open_plugins to do_init_crypto, which fails when a private key cannot
\* be read: "private-key-password-failure".
do_init_crypto(fails) ==
    /\ pc = "crypto"
    /\ sig' = IF fails THEN register_signal(sig, "SIGUSR1") ELSE sig
    /\ pc' = IF sig'.received # "none" THEN "close_context" ELSE "open"
    /\ c1' = [c1 EXCEPT !.held = @ \cup {"plugins", "status"}
                                   \cup (IF fails THEN {} ELSE {"ks", "pid"})
                                   \cup (IF cfg.server THEN {"pool"} ELSE {})]
    /\ UNCHANGED <<cfg, sig_save, mode, c2, up, ending>>

OpensTunEarly == ~cfg.pull /\ ~cfg.up_delay

\* From do_init_socket_phase1 to the start of link_socket_init_phase2.
InitTun ==
    /\ pc = "open"
    /\ pc' = "phase2"
    /\ IF OpensTunEarly
       THEN /\ c1' = do_open_tun(c1, Local)
            /\ c2' = [c2 EXCEPT !.did_open_tun = c1.tun = NoTun]
            /\ up' = Ran(OpenTunRunsUp(c1), "yes")
       ELSE UNCHANGED <<c1, c2, up>>
    /\ sig_save' = sig
    /\ sig' = signal_reset(sig, "none")
    /\ UNCHANGED <<cfg, mode, ending>>

\* Mutant: a signal that came during the connect wins over the saved one.
Restored_NewestWins(si) ==
    IF sig_save.received = "none" \/ si.received # "none" THEN si ELSE sig_save

\* link_socket_init_phase2 resolves, connects, speaks to proxies; at its end the
\* saved signal is thrown again.
Restored(si) ==
    IF sig_save.received = "none"
    THEN si
    ELSE try_throw_signal(si, sig_save.received, sig_save.source)

link_socket_init_phase2(fails) ==
    /\ pc = "phase2"
    /\ sig' = Restored(IF fails THEN register_signal(sig, "SIGUSR1") ELSE sig)
    /\ sig_save' = NoSignal
    /\ pc' = IF sig'.received # "none" THEN "close_context" ELSE "ready"
    /\ UNCHANGED <<cfg, mode, c1, c2, up, ending>>

\* init_instance_handle_signals after an init_instance that succeeded.
post_init_signal_catch ==
    /\ pc = "ready"
    /\ pc' = "check"
    /\ mode' = "post"
    /\ UNCHANGED <<cfg, sig, sig_save, c1, c2, up, ending>>

\* A signal that is pending now ends the tunnel, without close_instance; else
\* the event loop starts, and a server has finished its initialization.
EnterLoop ==
    /\ pc = "check"
    /\ IF IS_SIG
       THEN /\ pc' = "leave_inner"
            /\ sig' = remap_signal(sig)
            /\ c1' = [c1 EXCEPT !.closing = "skipped"]
            /\ UNCHANGED c2
       ELSE /\ pc' = "loop"
            /\ c2' = [c2 EXCEPT !.running = TRUE, !.complete = cfg.server]
            /\ UNCHANGED <<sig, c1>>
    /\ UNCHANGED <<cfg, sig_save, mode, up, ending>>

-----------------------------------------------------------------------------
(* close_context and close_instance.  Each object is kept if the signal that  *)
(* is pending when it is its turn is SIGUSR1.                                 *)
close_context ==
    /\ pc = "close_context"
    /\ sig' = IF sig.received = "SIGUSR1" /\ sig.source = "hard" /\ ~cfg.stdin
              THEN register_signal(sig, "SIGHUP")
              ELSE sig
    /\ pc' = "ks"
    /\ c1' = [c1 EXCEPT !.closing = sig'.received]
    /\ UNCHANGED <<cfg, sig_save, mode, c2, up, ending>>

After == [ks |-> "tun", plugins |-> "pid", pid |-> "status", status |-> "pool",
          pool |-> "closed"]

CloseObject(o) ==
    /\ pc = o
    /\ pc' = After[o]
    /\ c1' = IF sig.received = "SIGUSR1" THEN c1 ELSE [c1 EXCEPT !.held = @ \ {o}]
    /\ UNCHANGED <<cfg, sig, sig_save, mode, c2, up, ending>>

do_close_free_key_schedule == CloseObject("ks")
do_close_plugins == CloseObject("plugins")
do_close_packet_id == CloseObject("pid")
do_close_status_output == CloseObject("status")
do_close_ifconfig_pool_persist == CloseObject("pool")

CloseTun ==
    /\ pc = "tun"
    /\ pc' = "plugins"
    /\ c1' = do_close_tun(c1, FALSE)
    /\ up' = Ran(CloseTunRunsDown(c1, FALSE), "no")
    /\ UNCHANGED <<cfg, sig, sig_save, mode, c2, ending>>

\* The end of tunnel_point_to_point, or of init_instance_handle_signals.
InstanceClosed ==
    /\ pc = "closed"
    /\ pc' = "leave_inner"
    /\ IF c2.running
       THEN UNCHANGED <<sig, mode>>
       ELSE mode' = "post" /\ sig' = remap_signal(sig)
    /\ UNCHANGED <<cfg, sig_save, c1, c2, up, ending>>

-----------------------------------------------------------------------------
(* The event loop of a client or peer *)
Soft(signum) == sig' = register_signal(sig, signum)

InLoop == pc = "loop"

\* A timeout, a reset or a message of the other side asks for a restart or an
\* exit: ping-restart, ping-exit, RESTART, HALT, AUTH_FAILED, exit.
SoftSignal(signum) ==
    /\ InLoop
    /\ Soft(signum)
    /\ UNCHANGED <<cfg, pc, sig_save, mode, c1, c2, up, ending>>

options_hash_changed_or_zero(a, b) == a # b \/ a = Zero

\* do_open_tun, and again after do_close_tun if the device was preserved and the
\* pulled options are not those it was opened with.
Reopens(c, digest) ==
    c.tun # NoTun /\ cfg.pull /\ options_hash_changed_or_zero(c.save, digest)

OpenPulled(c, digest, options) ==
    do_open_tun(IF Reopens(c, digest) THEN do_close_tun_simple(c) ELSE c, options)

\* do_up, called by incoming_push_message or check_connection_established.  It
\* can fail before the device is opened (do_deferred_options) and after it
\* (dco_p2p_add_new_peer, do_deferred_options_part2, do_deferred_p2p_ncp).
DoUp(digest, options, fails) ==
    LET opens == ~OpensTunEarly /\ fails # "early"
        did == IF opens THEN c1.tun = NoTun \/ Reopens(c1, digest) ELSE c2.did_open_tun
        opened == IF opens THEN OpenPulled(c1, digest, options) ELSE c1
        delays == did /\ cfg.route_delay
    IN  /\ up' = Ran(opens /\ (did \/ OpenTunRunsUp(c1)), "yes")
        /\ IF fails # "no"
           THEN /\ Soft("SIGUSR1")
                /\ c1' = opened
                /\ c2' = [c2 EXCEPT !.digest = digest, !.options = options, !.did_open_tun = did]
           ELSE /\ UNCHANGED sig
                /\ c1' = IF did THEN [opened EXCEPT !.save = digest] ELSE opened
                /\ c2' = [c2 EXCEPT !.digest = digest, !.options = options,
                                    !.did_open_tun = did, !.do_up_ran = TRUE,
                                    !.route_wakeup = delays, !.complete = ~delays,
                                    !.pending = @ /\ ~did]

\* A push reply; the empty one leaves the digest unset.  A further one only
\* renews a token: its digest is that of no option at all.
PushReply(digest, fails) ==
    /\ InLoop /\ cfg.pull
    /\ IF c2.do_up_ran
       THEN /\ c2' = [c2 EXCEPT !.digest = "token"]
            /\ UNCHANGED <<sig, c1, up>>
       ELSE DoUp(digest, IF digest = Zero THEN Local ELSE digest, fails)
    /\ UNCHANGED <<cfg, pc, sig_save, mode, ending>>

check_connection_established(fails) ==
    /\ InLoop /\ ~cfg.pull /\ ~cfg.server /\ ~c2.do_up_ran
    /\ DoUp(Zero, Local, fails)
    /\ UNCHANGED <<cfg, pc, sig_save, mode, ending>>

\* Mutant: after an update the digest is that of the reply again.
do_update_digest_Reply(c) == [c EXCEPT !.save = c2.digest]

do_update_digest(c) == [c EXCEPT !.save = Zero]

\* A PUSH_UPDATE message, applied by do_update.
PushUpdate(options) ==
    /\ InLoop /\ cfg.pull /\ c2.do_up_ran
    /\ c1' = do_update_digest(do_open_tun(do_close_tun(c1, TRUE), options))
    /\ c2' = [c2 EXCEPT !.options = options, !.did_open_tun = TRUE,
                        !.route_wakeup = @ \/ cfg.route_delay, !.complete = TRUE, !.pending = FALSE]
    /\ up' = Ran(TRUE, "yes")
    /\ UNCHANGED <<cfg, pc, sig, sig_save, mode, ending>>

check_add_routes_action ==
    /\ InLoop /\ c2.route_wakeup
    /\ c1' = do_route(c1)
    /\ c2' = [c2 EXCEPT !.route_wakeup = FALSE, !.complete = TRUE]
    /\ UNCHANGED <<cfg, pc, sig, sig_save, mode, up, ending>>

\* check_add_routes: the device does not come up, "ip-fail".
check_add_routes_fails ==
    /\ InLoop /\ c2.route_wakeup
    /\ Soft("SIGHUP")
    /\ UNCHANGED <<cfg, pc, sig_save, mode, c1, c2, up, ending>>

process_explicit_exit_notification_timer_wakeup ==
    /\ InLoop /\ c2.exit_wait = "waiting"
    /\ Soft("SIGTERM")
    /\ c2' = [c2 EXCEPT !.exit_wait = "over"]
    /\ UNCHANGED <<cfg, pc, sig_save, mode, c1, up, ending>>

remap_restart_signals(si) ==
    IF si.received \in {"SIGUSR1", "SIGHUP"} /\ c2.exit_wait = "waiting" /\ si.source # "hard"
    THEN register_signal(si, "SIGTERM")
    ELSE si

BreakLoop ==
    /\ pc' = "ks"
    /\ c1' = [c1 EXCEPT !.closing = sig'.received]
    /\ UNCHANGED <<mode, c2>>

halt_low_priority_signals == mode' = "halted"

process_signal_p2p ==
    LET si == remap_restart_signals(remap_signal(sig))
    IN  /\ InLoop /\ IS_SIG /\ ~cfg.server
        /\ CASE si.received = "SIGUSR2" ->
                    sig' = signal_reset(si, "SIGUSR2") /\ UNCHANGED <<pc, mode, c1, c2>>
             [] si.received \in Final /\ cfg.exit_notify /\ c2.exit_wait = "no" ->
                    /\ halt_low_priority_signals
                    /\ sig' = signal_reset(si, "none")
                    /\ c2' = [c2 EXCEPT !.exit_wait = "waiting"]
                    /\ UNCHANGED <<pc, c1>>
             [] OTHER ->
                    sig' = si /\ BreakLoop
        /\ UNCHANGED <<cfg, sig_save, up, ending>>

-----------------------------------------------------------------------------
(* The event loop of a server *)
multi_process_signal ==
    /\ InLoop /\ IS_SIG /\ cfg.server
    /\ CASE sig.received = "SIGUSR2" ->
                sig' = signal_reset(sig, "SIGUSR2") /\ UNCHANGED <<pc, mode, c1, c2>>
         [] sig.received # "SIGUSR2" /\ cfg.exit_notify /\ c2.deferred = "none" ->
                /\ c2' = [c2 EXCEPT !.deferred = sig.received]
                /\ sig' = signal_reset(sig, "none")
                /\ UNCHANGED <<pc, mode, c1>>
         [] OTHER ->
                UNCHANGED sig /\ BreakLoop
    /\ UNCHANGED <<cfg, sig_save, up, ending>>

\* multi_process_timeout, two seconds later.
DeferredSignal ==
    /\ InLoop /\ c2.deferred # "none"
    /\ sig' = try_throw_signal(sig, c2.deferred, "hard")
    /\ UNCHANGED <<cfg, pc, sig_save, mode, c1, c2, up, ending>>

-----------------------------------------------------------------------------
MainThread ==
    \/ EnterOuter
    \/ open_management_exits
    \/ EnterInner
    \/ do_startup_pause
    \/ \E fails \in BOOLEAN : do_init_crypto(fails)
    \/ InitTun
    \/ \E fails \in BOOLEAN : link_socket_init_phase2(fails)
    \/ post_init_signal_catch
    \/ EnterLoop
    \/ process_signal_p2p
    \/ process_explicit_exit_notification_timer_wakeup
    \/ multi_process_signal
    \/ DeferredSignal
    \/ close_context
    \/ do_close_free_key_schedule
    \/ CloseTun
    \/ do_close_plugins
    \/ do_close_packet_id
    \/ do_close_status_output
    \/ do_close_ifconfig_pool_persist
    \/ InstanceClosed
    \/ LeaveInner
    \/ LeaveOuter
    \/ openvpn_exit

Environment ==
    \/ open_management_returns
    \/ \E signum \in Signals : HardSignal(signum)
    \/ \E signum \in {"SIGUSR1", "SIGTERM"} : SoftSignal(signum)
    \/ \E digest \in Pulled \cup {Zero}, fails \in {"no", "early", "late"} :
           PushReply(digest, fails)
    \/ \E fails \in {"no", "late"} : check_connection_established(fails)
    \/ \E options \in Pulled : PushUpdate(options)
    \/ check_add_routes_action
    \/ check_add_routes_fails

Next == MainThread \/ Environment

Spec == Init /\ [][Next]_vars

-----------------------------------------------------------------------------
TypeOK ==
    /\ sig.received \in Signals \cup {"none"}
    /\ mode \in {"pre", "post", "halted"}
    /\ c1.held \subseteq DOMAIN After /\ up \in {"no", "yes", "lost"}
    /\ c1.tun \in {NoTun, Local} \cup Pulled
    /\ c1.save \in {Zero, "token"} \cup Pulled

\* When SIGHUP starts everything anew, nothing of the last instance is left: the context
\* is zeroed (context_clear_all_except_first_time) and what it still held would be lost.
\* When the process ends the device is closed, and it is there exactly while the up script
\* was the last one that ran, unless --up-restart runs the scripts for a preserved device
\* too.  Two races are the exception, in which the device, its routes and all else are
\* forgotten and no down script is ever run: a SIGUSR1 that becomes a SIGHUP after
\* close_instance has kept them for it, and a SIGHUP between post_init_signal_catch and the
\* event loop, which skips close_instance.
NothingLeftOver ==
    /\ pc = "top" /\ c1.closing \in Signals \ {"SIGUSR1"} => c1.held = {} /\ c1.tun = NoTun
    /\ pc = "exited" => c1.tun = NoTun
    /\ ~cfg.up_restart => (up = "yes" <=> c1.tun # NoTun)

\* The device always has the options of the current connection once this one is
\* up: pulled options that changed over a restart, an update in between or a
\* device whose options are not known for sure reopen it (do_up, do_update).
TunMatchesOptions == c2.do_up_ran /\ InLoop => c1.tun = c2.options

\* Once initialization is complete and no route timer is pending the routes are
\* there.  The exception is a device that was preserved while its routes were still to be
\* added: do_up starts the timer of --route-delay only for a device it opened.
RoutesWhenComplete ==
    InLoop /\ c2.complete /\ ~c2.route_wakeup => c1.routes \/ c2.pending

\* After SIGTERM or SIGINT no instance is started again and the process ends,
\* whatever other signals come before and after: pending signals are only
\* replaced by more important ones, saved ones are restored, and restarts are
\* blocked or converted while the exit is announced.  (A server that announces its exit
\* may lose the signal.)  Ending leads to Exited.
Ending == ending /\ ~(cfg.server /\ cfg.exit_notify)
Exited == pc = "exited"
=============================================================================
