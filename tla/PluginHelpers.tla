---------------------------- MODULE PluginHelpers ----------------------------
(* The two plug-ins of the distribution that split their privileges:           *)
(* openvpn-plugin-auth-pam (auth-pam.c) asks PAM about a user name and a       *)
(* password, openvpn-plugin-down-root (down-root.c) runs a script when the     *)
(* tunnel goes down.  Each forks a privileged background process and talks to  *)
(* it over a socket pair of datagrams: one datagram a command, a string or a   *)
(* response.                                                                   *)
(*                                                                             *)
(* fg is the foreground (the plug-in's functions, called one after the other   *)
(* by OpenVPN, which waits for their return), bg the background process, toBg  *)
(* and toFg the datagrams on their way.  A string is <<field, r>>, the field   *)
(* of the r-th call.  children are auth-pam's twice-forked processes of        *)
(* deferred authentication and files the authentication control files that     *)
(* exist, with what was written to them.  What PAM decided for the calls, and  *)
(* how the script ended, is remembered in approved, judged and ran.            *)
EXTENDS Naturals, Sequences, FiniteSets

CONSTANTS
  Configs,     \* [kind: "pam" or "down", deferred, kill, daemon: BOOLEAN, calls: Nat]
  MaxCalls     \* calls of the plug-in between its opening and its closing

VARIABLES cfg, fg, bg, toBg, toFg, children, files, approved, ran, calls

vars == <<cfg, fg, bg, toBg, toFg, children, files, approved, ran, calls>>

Calls == 1..MaxCalls

Fields == <<"username", "password", "common_name", "ac_file_name", "remote">>

NoUser == [f \in {Fields[i] : i \in 1..5} |-> 0]

\* The foreground: what it is doing, its descriptor, the next datagram of a
\* verification, the last call's result and whether the plug-in is closed.
Foreground == [pc : {"unopened", "opening", "ready", "sending", "waiting", "exiting", "gone"},
               fd : BOOLEAN, at : 0..6, r : 0..MaxCalls,
               ret : {"none", "SUCCESS", "ERROR", "DEFERRED"}]

\* The background process: "child" is its wait for a forked child.
Background == [pc : {"none", "init", "command", "string", "auth", "script", "fork", "dead"},
               at : 1..5, up : [{Fields[i] : i \in 1..5} -> 0..MaxCalls]]

Init ==
  /\ cfg \in Configs
  /\ fg = [pc |-> "unopened", fd |-> FALSE, at |-> 0, r |-> 0, ret |-> "none"]
  /\ bg = [pc |-> "none", at |-> 1, up |-> NoUser]
  /\ toBg = <<>> /\ toFg = <<>>
  /\ children = {} /\ files = [r \in {} |-> ""]
  /\ approved = {} /\ ran = "none" /\ calls = 0

BgAlive == bg.pc \notin {"none", "dead"}

Returns(status) == [fg EXCEPT !.pc = "ready", !.at = 0, !.ret = status]

-----------------------------------------------------------------------------
(* The foreground. *)

\* openvpn_plugin_open_v3 of auth-pam; openvpn_plugin_func_v1 (OPENVPN_PLUGIN_UP)
\* of down-root when it has no descriptor: the socket pair, the fork and the
\* wait for the child's first response.
openvpn_plugin_open ==
  /\ fg.pc = (IF cfg.kind = "pam" THEN "unopened" ELSE "ready") /\ ~fg.fd /\ bg.pc = "none"
  /\ cfg.kind = "down" => calls < cfg.calls
  /\ calls' = IF cfg.kind = "down" THEN calls + 1 ELSE calls
  /\ fg' = [fg EXCEPT !.pc = "opening", !.r = 0]
  /\ bg' = [bg EXCEPT !.pc = "init"]
  /\ UNCHANGED <<cfg, toBg, toFg, children, files, approved, ran>>

\* down-root's openvpn_plugin_open_v1 only allocates its context.
openvpn_plugin_open_v1 ==
  /\ cfg.kind = "down" /\ fg.pc = "unopened"
  /\ fg' = [fg EXCEPT !.pc = "ready"]
  /\ UNCHANGED <<cfg, bg, toBg, toFg, children, files, approved, ran, calls>>

\* recv_control after the fork; OpenVPN exits when auth-pam could not be opened.
Opened ==
  /\ fg.pc = "opening" /\ toFg # <<>>
  /\ toFg' = Tail(toFg)
  /\ fg' = IF Head(toFg) = "INIT_SUCCEEDED" THEN [Returns("SUCCESS") EXCEPT !.fd = TRUE]
           ELSE [Returns("ERROR") EXCEPT !.pc = "gone"]
  /\ UNCHANGED <<cfg, bg, toBg, children, files, approved, ran, calls>>

\* openvpn_plugin_func_v1 of auth-pam, called for the credentials of a new
\* session; OpenVPN has created the session's control file.
openvpn_plugin_func_v1_pam ==
  /\ cfg.kind = "pam" /\ fg.pc = "ready" /\ fg.fd /\ calls < cfg.calls
  /\ calls' = calls + 1
  /\ fg' = [fg EXCEPT !.pc = "sending", !.at = 0, !.r = calls + 1, !.ret = "none"]
  /\ files' = [r \in DOMAIN files \cup {calls + 1} |-> IF r \in DOMAIN files THEN files[r] ELSE ""]
  /\ UNCHANGED <<cfg, bg, toBg, toFg, children, approved, ran>>

\* One send_control or send_string of the verification.  Sending fails when the
\* background process is gone; the other strings are then not sent and the call
\* fails.
SendNext ==
  /\ fg.pc = "sending"
  /\ \/ /\ BgAlive
        /\ toBg' = Append(toBg, IF fg.at = 0 THEN <<"VERIFY", 0>>
                                ELSE <<Fields[fg.at], fg.r>>)
        /\ fg' = IF fg.at = 5 THEN [fg EXCEPT !.pc = "waiting"] ELSE [fg EXCEPT !.at = @ + 1]
     \/ /\ ~BgAlive
        /\ toBg' = toBg
        /\ fg' = Returns("ERROR")
  /\ UNCHANGED <<cfg, bg, toFg, children, files, approved, ran, calls>>

\* openvpn_plugin_func_v1 of down-root for OPENVPN_PLUGIN_DOWN.
openvpn_plugin_func_v1_down ==
  /\ cfg.kind = "down" /\ fg.pc = "ready" /\ fg.fd /\ calls < cfg.calls
  /\ calls' = calls + 1
  /\ ran' = "none"
  /\ IF BgAlive THEN /\ toBg' = Append(toBg, <<"RUN_SCRIPT", 0>>)
                     /\ fg' = [fg EXCEPT !.pc = "waiting", !.r = calls + 1, !.ret = "none"]
                ELSE toBg' = toBg /\ fg' = Returns("ERROR")
  /\ UNCHANGED <<cfg, bg, toFg, children, files, approved>>

\* OPENVPN_PLUGIN_UP when the background process is already there, and
\* OPENVPN_PLUGIN_DOWN when it is not: nothing is done and the call fails.
openvpn_plugin_func_v1_other ==
  /\ cfg.kind = "down" /\ fg.pc = "ready" /\ calls < cfg.calls
  /\ calls' = calls + 1
  /\ fg' = Returns("ERROR")
  /\ UNCHANGED <<cfg, bg, toBg, toFg, children, files, approved, ran>>

\* The recv_control of a call: the first response there is.
Status(code) ==
  CASE code \in {"VERIFY_SUCCEEDED", "SCRIPT_SUCCEEDED"} -> "SUCCESS"
    [] code = "DEFER" -> "DEFERRED"
    [] OTHER -> "ERROR"

RecvAnswer ==
  /\ fg.pc = "waiting" /\ toFg # <<>>
  /\ fg' = Returns(Status(Head(toFg)))
  /\ toFg' = Tail(toFg)
  /\ UNCHANGED <<cfg, bg, toBg, children, files, approved, ran, calls>>

\* Mutant: the background process is not told.
Closing_Silent(waits) ==
  /\ fg.pc = "ready"
  /\ toBg' = toBg
  /\ fg' = [fg EXCEPT !.pc = IF waits /\ fg.fd /\ ~cfg.daemon THEN "exiting" ELSE "gone", !.fd = FALSE]
  /\ UNCHANGED <<cfg, bg, toFg, children, files, approved, ran, calls>>

\* openvpn_plugin_close_v1 waits for the background process, which has left its
\* first process behind when it became a daemon; openvpn_plugin_abort_v1 does not wait.
Closing(waits) ==
  /\ fg.pc = "ready"
  /\ toBg' = IF fg.fd /\ BgAlive THEN Append(toBg, <<"EXIT", 0>>) ELSE toBg
  /\ fg' = [fg EXCEPT !.pc = IF waits /\ fg.fd /\ ~cfg.daemon THEN "exiting" ELSE "gone", !.fd = FALSE]
  /\ UNCHANGED <<cfg, bg, toFg, children, files, approved, ran, calls>>

openvpn_plugin_close_v1 == Closing(TRUE)

openvpn_plugin_abort_v1 == Closing(FALSE)

\* waitpid.
Waited ==
  /\ fg.pc = "exiting" /\ ~BgAlive
  /\ fg' = [fg EXCEPT !.pc = "gone"]
  /\ UNCHANGED <<cfg, bg, toBg, toFg, children, files, approved, ran, calls>>

\* OpenVPN deletes a session's control file when it forgets the session.
ForgetSession(r) ==
  /\ r \in DOMAIN files /\ ~(fg.r = r /\ fg.pc \in {"sending", "waiting"})
  /\ files' = [q \in DOMAIN files \ {r} |-> files[q]]
  /\ UNCHANGED <<cfg, fg, bg, toBg, toFg, children, approved, ran, calls>>

-----------------------------------------------------------------------------
(* The background process: pam_server and down_root_server. *)

\* Loading PAM may fail; down_root_server has nothing to initialize.
InitServer ==
  /\ bg.pc = "init"
  /\ \/ /\ bg' = [bg EXCEPT !.pc = "command"]
        /\ toFg' = Append(toFg, "INIT_SUCCEEDED")
     \/ /\ cfg.kind = "pam"
        /\ bg' = [bg EXCEPT !.pc = "dead"]
        /\ toFg' = Append(toFg, "INIT_FAILED")
  /\ UNCHANGED <<cfg, fg, toBg, children, files, approved, ran, calls>>

\* recv_control reads the first byte of whatever datagram is next: a command,
\* or a string that the process did not expect, which makes it exit.
RecvCommand ==
  /\ bg.pc = "command" /\ toBg # <<>>
  /\ toBg' = Tail(toBg)
  /\ bg' = [bg EXCEPT !.pc = CASE Head(toBg)[1] = "VERIFY" -> "string"
                               [] Head(toBg)[1] = "RUN_SCRIPT" -> "script"
                               [] OTHER -> "dead",
                      !.at = 1, !.up = NoUser]
  /\ UNCHANGED <<cfg, fg, toFg, children, files, approved, ran, calls>>

\* recv_string: any datagram of at least one byte will do.  auth-pam sends an empty
\* ac_file_name when authentication is not to be deferred.
RecvString ==
  /\ bg.pc = "string" /\ toBg # <<>>
  /\ toBg' = Tail(toBg)
  /\ LET up == [bg.up EXCEPT ![Fields[bg.at]] = IF Head(toBg)[1] = Fields[bg.at] THEN Head(toBg)[2] ELSE 0]
     IN  bg' = IF bg.at < 5 THEN [bg EXCEPT !.at = @ + 1, !.up = up]
               ELSE [bg EXCEPT !.up = up, !.pc = IF cfg.deferred /\ up["ac_file_name"] # 0
                                                 THEN "fork" ELSE "auth"]
  /\ UNCHANGED <<cfg, fg, toFg, children, files, approved, ran, calls>>

\* PAM may accept a user name with the password of the same call.
Acceptable(up) == up["username"] # 0 /\ up["username"] = up["password"]

\* pam_auth in the background process, and its response.
pam_auth ==
  /\ bg.pc = "auth"
  /\ \E ok \in {FALSE} \cup (IF Acceptable(bg.up) THEN {TRUE} ELSE {}) :
       /\ toFg' = Append(toFg, IF ok THEN "VERIFY_SUCCEEDED" ELSE "VERIFY_FAILED")
       /\ approved' = approved \cup (IF ok THEN {bg.up["username"]} ELSE {})
  /\ bg' = [bg EXCEPT !.pc = "command"]
  /\ UNCHANGED <<cfg, fg, toBg, children, files, ran, calls>>

\* do_deferred_pam_auth: the response first, then the two forks, each of which may fail.
do_deferred_pam_auth ==
  /\ bg.pc = "fork"
  /\ toFg' = Append(toFg, "DEFER")
  /\ bg' = [bg EXCEPT !.pc = "command"]
  /\ \/ children' = children \cup {[up |-> bg.up, fd |-> FALSE]}
     \/ children' = children
  /\ UNCHANGED <<cfg, fg, toBg, files, approved, ran, calls>>

\* The grandchild opens the control file, which must still be there.
OpenFile(c) ==
  /\ c \in children /\ ~c.fd
  /\ children' = (children \ {c}) \cup
                 (IF c.up["ac_file_name"] \in DOMAIN files THEN {[c EXCEPT !.fd = TRUE]} ELSE {})
  /\ UNCHANGED <<cfg, fg, bg, toBg, toFg, files, approved, ran, calls>>

Written(f, verdict) == [r \in DOMAIN files |-> IF r = f THEN verdict ELSE files[r]]

\* It asks PAM and writes the verdict to the open file; what is written to a
\* deleted file is lost.
WriteVerdict(c) ==
  /\ c \in children /\ c.fd
  /\ children' = children \ {c}
  /\ \E ok \in {FALSE} \cup (IF Acceptable(c.up) THEN {TRUE} ELSE {}) :
       /\ approved' = approved \cup (IF ok THEN {c.up["username"]} ELSE {})
       /\ files' = Written(c.up["ac_file_name"], IF ok THEN "1" ELSE "0")
  /\ UNCHANGED <<cfg, fg, bg, toBg, toFg, ran, calls>>

\* Mutant: the response is sent before the script has run.
run_script_Early ==
  /\ bg.pc = "script"
  /\ toFg' = Append(toFg, "SCRIPT_SUCCEEDED")
  /\ bg' = [bg EXCEPT !.pc = "command"] /\ ran' = "none"
  /\ UNCHANGED <<cfg, fg, toBg, children, files, approved, calls>>

\* run_script: the script's exit status decides the response.
run_script ==
  /\ bg.pc = "script"
  /\ \E ok \in BOOLEAN :
       /\ ran' = IF ok THEN "succeeded" ELSE "failed"
       /\ toFg' = Append(toFg, IF ok THEN "SCRIPT_SUCCEEDED" ELSE "SCRIPT_FAILED")
  /\ bg' = [bg EXCEPT !.pc = "command"]
  /\ UNCHANGED <<cfg, fg, toBg, children, files, approved, calls>>

\* SIGTERM has its default action in the background process (set_signals).
Killed ==
  /\ cfg.kill /\ BgAlive
  /\ bg' = [bg EXCEPT !.pc = "dead"]
  /\ UNCHANGED <<cfg, fg, toBg, toFg, children, files, approved, ran, calls>>

-----------------------------------------------------------------------------
FgStep ==
  \/ openvpn_plugin_open \/ openvpn_plugin_open_v1 \/ Opened
  \/ openvpn_plugin_func_v1_pam \/ SendNext \/ RecvAnswer \/ Waited
  \/ openvpn_plugin_func_v1_down
  \/ openvpn_plugin_func_v1_other
  \/ openvpn_plugin_close_v1 \/ openvpn_plugin_abort_v1

pam_server ==
  \/ InitServer \/ RecvCommand \/ RecvString \/ pam_auth \/ do_deferred_pam_auth \/ run_script

Next ==
  \/ FgStep \/ pam_server \/ Killed
  \/ \E r \in Calls : ForgetSession(r)
  \/ \E c \in children : OpenFile(c) \/ WriteVerdict(c)

Spec == Init /\ [][Next]_vars

-----------------------------------------------------------------------------
TypeOK ==
  /\ cfg \in Configs /\ fg \in Foreground /\ bg \in Background
  /\ Len(toBg) <= 6 * MaxCalls + 1 /\ Len(toFg) <= MaxCalls + 1
  /\ \A r \in DOMAIN files : r \in Calls /\ files[r] \in {"", "0", "1"}
  /\ approved \subseteq Calls /\ ran \in {"none", "succeeded", "failed"} /\ calls \in 0..MaxCalls

\* What a call returns is the background process's verdict on that very call:
\* auth-pam succeeds only for credentials PAM accepted, down-root only when the
\* script it asked for has run and ended well, and "1" stands only in the control
\* file of a session whose credentials PAM accepted, whatever was killed or
\* left unread before.
AnswersMatchCalls ==
  /\ (cfg.kind = "pam" /\ fg.r # 0 /\ fg.ret = "SUCCESS") => fg.r \in approved
  /\ (cfg.kind = "down" /\ fg.r # 0 /\ fg.ret = "SUCCESS") => ran = "succeeded"
  /\ \A r \in DOMAIN files : files[r] = "1" => r \in approved

\* A control file exists only while OpenVPN knows its session: the processes of
\* deferred authentication outlive it and never bring a deleted file back.
NoStrayFile == DOMAIN files' \ DOMAIN files \subseteq {fg'.r}

\* A background process does not outlive its plug-in: when the plug-in was closed or
\* aborted the process ends, and the wait of openvpn_plugin_close_v1 returns.
Closed == fg.pc \in {"exiting", "gone"}
HelperEnded == fg.pc = "gone" /\ ~BgAlive
=============================================================================
