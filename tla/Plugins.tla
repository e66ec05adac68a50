------------------------------- MODULE Plugins -------------------------------
(* The host side of plug-ins: plugin.c, and the calls init.c makes of it.      *)
(* A plug-in is loaded by init_plugins, opened at the initialization point it  *)
(* asked for, called for the events it wants, closed when OpenVPN stops or is  *)
(* restarted by SIGHUP, and aborted when OpenVPN exits on a fatal error; it    *)
(* stays open across a restart by SIGUSR1.  Every list of plug-ins (the one of *)
(* the process and, on a server, one per client) holds a context per plug-in   *)
(* that the plug-in constructed for it.                                        *)
(*                                                                             *)
(* phase is where OpenVPN is: Start before init_plugins, a point when the      *)
(* plug-ins of that initialization point are to be opened, Run, Gone, Fatal.   *)
(* plug is struct plugin_common (open: plugin_handle is set), ctx    *)
(* the per_client_context of each list, live the contexts the plug-ins have    *)
(* constructed and not destroyed, verdict the last plugin_call and aborted the *)
(* plug-ins whose abort function ran, with whether they were open.             *)
EXTENDS Integers, Sequences, FiniteSets

CONSTANTS
  Configs,       \* [plugins: Seq([point, mask, constructs, aborts]), server: BOOLEAN]
  Instances,       \* the client instances of a server
  MaxRestarts,   \* restarts by a signal
  MaxContexts    \* contexts constructed

VARIABLES cfg, phase, plug, lists, ctx, live, made, verdict, aborted, restarts

vars == <<cfg, phase, plug, lists, ctx, live, made, verdict, aborted, restarts>>

Types == {"up", "auth", "connect"}

\* OPENVPN_PLUGIN_INIT_PRE_CONFIG_PARSE .. OPENVPN_PLUGIN_INIT_POST_UID_CHANGE
Points == 1..4

Start == 0
Run == 5
Gone == 6
Fatal == 7

Ids == 1..Len(cfg.plugins)

Owners == {"top"} \cup Instances

Unloaded == [initialized |-> FALSE, open |-> FALSE, mask |-> {}]

NoContext == [o \in Owners |-> [i \in Ids |-> 0]]

NoVerdict == [type |-> "none", said |-> <<>>, result |-> "none"]

Init ==
  /\ cfg \in Configs
  /\ phase = Start
  /\ plug = [i \in Ids |-> Unloaded]
  /\ lists = {} /\ ctx = NoContext /\ live = {} /\ made = 0
  /\ verdict = NoVerdict /\ aborted = {} /\ restarts = 0

\* openvpn_exit on a fatal error: plugin_abort runs every abort function of the
\* plug-ins of static_plugin_common, which is set once all of them are loaded.
plugin_abort(p, known) ==
  /\ phase' = Fatal
  /\ aborted' = IF known THEN {<<i, p[i].open>> : i \in {j \in Ids : cfg.plugins[j].aborts}} ELSE {}

\* init_plugins: plugin_init_item loads each plug-in in turn; one that cannot be
\* loaded, lacks a function or wants a newer interface is fatal.
init_plugins ==
  /\ phase = Start
  /\ \/ /\ plug' = [i \in Ids |-> [initialized |-> TRUE, open |-> FALSE, mask |-> Types]]
        /\ lists' = {"top"} /\ phase' = 1 /\ aborted' = aborted
     \/ plug' = plug /\ lists' = lists /\ plugin_abort(plug, FALSE)
  /\ UNCHANGED <<cfg, ctx, live, made, verdict, restarts>>

-----------------------------------------------------------------------------
\* plugin_per_client_init: the plug-ins of S construct a context for the list of o.
Constructing(p, S) == {i \in S : p[i].open /\ cfg.plugins[i].constructs}

\* The contexts made are numbered in the order of the plug-ins.
Number(S, i) == made + Cardinality({j \in S : j <= i})

plugin_per_client_init(p, o, S) ==
  LET C == Constructing(p, S)
  IN  /\ made + Cardinality(C) <= MaxContexts
      /\ made' = made + Cardinality(C)
      /\ ctx' = [ctx EXCEPT ![o] = [i \in Ids |-> IF i \in C THEN Number(C, i) ELSE @[i]]]
      /\ live' = live \cup {<<i, Number(C, i)>> : i \in C}

\* plugin_open_item opens a plug-in at the point it asked for, once.
ToOpen == {i \in Ids : ~plug[i].open /\ cfg.plugins[i].point = phase}

\* The plug-ins of S are opened and say which events they want.
plugin_common_open(S) ==
  [i \in Ids |-> IF i \in S THEN [plug[i] EXCEPT !.open = TRUE, !.mask = cfg.plugins[i].mask] ELSE plug[i]]

\* open_plugins at an initialization point: plugin_common_open opens the plug-ins
\* one after the other and the first that fails is fatal; then the contexts.
plugin_list_open ==
  /\ phase \in Points
  /\ \/ LET p == plugin_common_open(ToOpen)
        IN  /\ plug' = p
            /\ plugin_per_client_init(p, "top", {i \in Ids : cfg.plugins[i].point = phase})
            /\ phase' = IF phase = 4 THEN Run ELSE phase + 1
            /\ aborted' = aborted
     \/ \E bad \in ToOpen :
          LET p == plugin_common_open({i \in ToOpen : i < bad})
          IN  plug' = p /\ plugin_abort(p, TRUE) /\ UNCHANGED <<ctx, live, made>>
  /\ UNCHANGED <<cfg, lists, verdict, restarts>>

-----------------------------------------------------------------------------
\* plugin_call_item: a plug-in is asked when it is open and wants the event.
Asked(type) == {i \in Ids : plug[i].open /\ type \in plug[i].mask}

Deferred(said) == {i \in DOMAIN said : said[i] = "deferred"}

\* Mutant: a deferred authentication hides an error.
Verdict_Deferred(type, said) ==
  CASE type = "auth" /\ Cardinality(Deferred(said)) > 1 -> "fatal"
    [] Deferred(said) # {} -> "deferred"
    [] \E i \in DOMAIN said : said[i] = "error" -> "error"
    [] OTHER -> "success"

\* plugin_call_ssl: every plug-in is asked; one error is an error.
Verdict(type, said) ==
  CASE type = "auth" /\ Cardinality(Deferred(said)) > 1 -> "fatal"
    [] \E i \in DOMAIN said : said[i] = "error" -> "error"
    [] Deferred(said) # {} -> "deferred"
    [] OTHER -> "success"

\* A call for an event of the list of o; the tunnel may come up before all points
\* are reached: run_up_down makes a failed (or deferred)
\* "up" fatal, two deferred authentications are fatal.
plugin_call_ssl(o, type) ==
  /\ phase = Run \/ (type = "up" /\ phase \in 3..4)
  /\ o \in lists /\ (type = "up" <=> o = "top")
  /\ \E said \in [Asked(type) -> {"success", "error", "deferred"}] :
       LET r == Verdict(type, said)
       IN  /\ verdict' = [type |-> type, said |-> said, result |-> r]
           /\ IF r = "fatal" \/ (type = "up" /\ r # "success") THEN plugin_abort(plug, TRUE)
              ELSE UNCHANGED <<phase, aborted>>
  /\ UNCHANGED <<cfg, plug, lists, ctx, live, made, restarts>>

-----------------------------------------------------------------------------
\* plugin_list_inherit: a new client instance shares the plug-ins and has contexts of its own.
plugin_list_inherit(o) ==
  /\ cfg.server /\ phase = Run /\ o \in Instances \ lists
  /\ lists' = lists \cup {o}
  /\ plugin_per_client_init(plug, o, Ids)
  /\ UNCHANGED <<cfg, phase, plug, verdict, aborted, restarts>>

Destroyed(S) == {<<i, ctx[o][i]>> : o \in S, i \in Ids}

Cleared(S) == [o \in Owners |-> IF o \in S THEN [i \in Ids |-> 0] ELSE ctx[o]]

\* plugin_list_close of a client instance.
plugin_list_close(o) ==
  /\ phase = Run /\ o \in lists \cap Instances
  /\ lists' = lists \ {o}
  /\ live' = live \ Destroyed({o}) /\ ctx' = Cleared({o})
  /\ UNCHANGED <<cfg, phase, plug, made, verdict, aborted, restarts>>

\* A signal ends the run: the client instances are closed first (multi_uninit),
\* then do_close_plugins keeps the plug-ins for a SIGUSR1 and otherwise destroys
\* the contexts of the top list, closes the open plug-ins and unloads all.
Kept(sig) == IF sig = "SIGUSR1" THEN {"top"} ELSE {}

do_close_plugins(sig) ==
  /\ phase = Run
  /\ sig # "SIGTERM" => restarts < MaxRestarts
  /\ restarts' = IF sig = "SIGTERM" THEN restarts ELSE restarts + 1
  /\ lists' = Kept(sig)
  /\ live' = live \ Destroyed(lists \ Kept(sig)) /\ ctx' = Cleared(lists \ Kept(sig))
  /\ plug' = IF "top" \in Kept(sig) THEN plug ELSE [i \in Ids |-> Unloaded]
  /\ phase' = CASE sig = "SIGUSR1" -> 2 [] sig = "SIGHUP" -> Start [] sig = "SIGTERM" -> Gone
  /\ UNCHANGED <<cfg, made, verdict, aborted>>

-----------------------------------------------------------------------------
Next ==
  \/ init_plugins \/ plugin_list_open
  \/ \E o \in Owners, type \in Types : plugin_call_ssl(o, type)
  \/ \E o \in Instances : plugin_list_inherit(o) \/ plugin_list_close(o)
  \/ \E sig \in {"SIGUSR1", "SIGHUP", "SIGTERM"} : do_close_plugins(sig)

Spec == Init /\ [][Next]_vars

-----------------------------------------------------------------------------
TypeOK ==
  /\ cfg \in Configs /\ phase \in {Start, Run, Gone, Fatal} \cup Points
  /\ plug \in [Ids -> [initialized : BOOLEAN, open : BOOLEAN, mask : SUBSET Types]]
  /\ lists \subseteq Owners
  /\ ctx \in [Owners -> [Ids -> 0..MaxContexts]]
  /\ live \subseteq Ids \X (1..MaxContexts) /\ made \in 0..MaxContexts
  /\ aborted \subseteq Ids \X BOOLEAN /\ restarts \in 0..MaxRestarts

\* A context is passed only to the open plug-in that constructed it and has not
\* destroyed it; no two lists share one, and when the plug-ins are closed the
\* contexts of their last run are all destroyed before.
ContextsAreLive ==
  /\ \A o \in Owners, i \in Ids : ctx[o][i] # 0 =>
       /\ o \in lists /\ plug[i].open /\ <<i, ctx[o][i]>> \in live
       /\ \A q \in Owners : q # o => ctx[q][i] # ctx[o][i]
  /\ (restarts = 0 /\ phase = Gone) => live = {}
  /\ restarts = 0 => \A c \in live : \E o \in lists : ctx[o][c[1]] = c[2]

\* An event succeeds only when every plug-in asked said so, and an authentication
\* is deferred only on behalf of exactly one plug-in and with no plug-in against it.
NoVetoIsLost ==
  LET said == verdict.said
  IN  /\ verdict.result = "success" => \A i \in DOMAIN said : said[i] = "success"
      /\ (verdict.result = "deferred" /\ verdict.type = "auth") =>
           \E i \in DOMAIN said : said[i] = "deferred" /\ \A j \in DOMAIN said \ {i} : said[j] = "success"

=============================================================================
