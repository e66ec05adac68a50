--------------------------- MODULE ConnectionList ---------------------------
(***************************************************************************)
(* Which server a client tries next: the list of --remote entries, the     *)
(* addresses an entry resolves to, what a SIGUSR1 restart keeps of them,   *)
(* and the management client that may override or skip an entry            *)
(* (next_connection_entry, do_close_link_socket, resolve_remote).          *)
(***************************************************************************)
EXTENDS Naturals, Integers

CONSTANTS
    Configs,    \* option settings: [len, disabled, persist_remote_ip, query, retry_max]
    Addresses,  \* how many addresses a host name has
    MaxSkip     \* bound: the largest n of "remote SKIP n"

VARIABLES
    cfg,
    pc,         \* where init_instance is
    o,          \* the fields of struct options that decide about the next entry
    lsa,        \* link_socket_addrs[0]
    sig,        \* what ends the connection
    n_cycles,   \* local variable of next_connection_entry
    owner,      \* history: the entry remote_list was resolved for
    tries       \* history: how often each entry was chosen since the last success,
                \* up to retry_max

vars == <<cfg, pc, o, lsa, sig, n_cycles, owner, tries>>

Entries == 0..(cfg.len - 1)
NoHost == "none"
ModHost == "mod"       \* the host of a "remote MOD" command
Hosts == {"h0", "h1", "h2"}
HostOf == [i \in 0..2 |-> <<"h0", "h1", "h2">>[i + 1]]

NoAddr == [host |-> NoHost, k |-> 0]
Unresolved == [remote_list |-> NoHost, current_remote |-> 0, actual |-> NoAddr]

FreshOptions == [current |-> -1, no_advance |-> FALSE, advance_next_remote |-> FALSE,
                 ce_advance_count |-> 1, unsuccessful_attempts |-> 0, remote |-> NoHost]

Untried == [i \in 0..2 |-> 0]

Init ==
    /\ cfg \in Configs
    /\ pc = "next"
    /\ o = FreshOptions
    /\ lsa = Unresolved
    /\ sig = "none"
    /\ n_cycles = 0
    /\ owner = -1
    /\ tries = Untried

-----------------------------------------------------------------------------
clear_remote_addrlist(l) == [l EXCEPT !.remote_list = NoHost, !.current_remote = 0]

HasNextAddress(l) == l.current_remote # 0 /\ l.current_remote < Addresses

Attempts(n) == IF cfg.retry_max = 0 THEN 0 ELSE o.unsuccessful_attempts + n

\* The three ways next_connection_entry moves on: not at all, to the next
\* address of the entry, to another entry.
Stay ==
    /\ o.no_advance /\ o.current >= 0
    /\ o' = [o EXCEPT !.no_advance = FALSE, !.ce_advance_count = 1,
                      !.remote = HostOf[o.current]]
    /\ UNCHANGED <<lsa, n_cycles, owner>>

NextAddress ==
    /\ ~(o.no_advance /\ o.current >= 0)
    /\ HasNextAddress(lsa) /\ ~o.advance_next_remote
    /\ lsa' = [lsa EXCEPT !.current_remote = @ + 1]
    /\ o' = [o EXCEPT !.ce_advance_count = 1, !.remote = HostOf[o.current]]
    /\ UNCHANGED <<n_cycles, owner>>

AdvanceCount == IF o.ce_advance_count > 0 THEN o.ce_advance_count ELSE 1

FirstAddress(l) == [l EXCEPT !.current_remote = IF l.remote_list = NoHost THEN 0 ELSE 1]

\* Mutant: addresses of an entry the management client skipped stay.
AddressesForNextEntry_Keep(l) == FirstAddress(l)

AddressesForNextEntry(l) ==
    IF cfg.persist_remote_ip THEN FirstAddress(l) ELSE clear_remote_addrlist(l)

NextEntry ==
    /\ ~(o.no_advance /\ o.current >= 0)
    /\ ~(HasNextAddress(lsa) /\ ~o.advance_next_remote)
    /\ lsa' = AddressesForNextEntry(lsa)
    /\ LET next == o.current + AdvanceCount
       IN  /\ o' = [o EXCEPT !.advance_next_remote = FALSE, !.ce_advance_count = 1,
                             !.unsuccessful_attempts = Attempts(AdvanceCount),
                             !.current = next % cfg.len,
                             !.remote = HostOf[next % cfg.len]]
           /\ n_cycles' = IF next >= cfg.len THEN n_cycles + 1 ELSE n_cycles
    /\ owner' = IF lsa'.remote_list = NoHost THEN -1 ELSE owner

\* After the loop: the limit of --connect-retry-max.
TooManyAttempts(opt) ==
    cfg.retry_max > 0 /\ opt.unsuccessful_attempts > cfg.len * cfg.retry_max

Chosen(opt) ==
    /\ pc' = IF TooManyAttempts(opt) THEN "fatal" ELSE "resolve"
    /\ tries' = IF TooManyAttempts(opt) \/ tries[opt.current] = cfg.retry_max
                THEN tries ELSE [tries EXCEPT ![opt.current] = @ + 1]

\* One round of the loop, up to the query of the management client.  A second
\* time past the end of the list is fatal: "No usable connection profiles".
next_connection_entry ==
    /\ pc = "next"
    /\ Stay \/ NextAddress \/ NextEntry
    /\ CASE n_cycles' >= 2                -> pc' = "unusable" /\ UNCHANGED tries
         [] n_cycles' < 2 /\ o'.current \in cfg.disabled -> UNCHANGED <<pc, tries>>
         [] n_cycles' < 2 /\ o'.current \notin cfg.disabled /\ cfg.query ->
                pc' = "query" /\ UNCHANGED tries
         [] OTHER                         -> Chosen(o')
    /\ UNCHANGED <<cfg, sig>>

-----------------------------------------------------------------------------
(* ce_management_query_remote, management_callback_remote_cmd *)
RemoteAccept ==
    /\ pc = "query"
    /\ Chosen(o)
    /\ UNCHANGED <<cfg, o, lsa, sig, n_cycles, owner>>

RemoteMod ==
    /\ pc = "query"
    /\ o' = [o EXCEPT !.remote = ModHost]
    /\ Chosen(o)
    /\ UNCHANGED <<cfg, lsa, sig, n_cycles, owner>>

RemoteSkip(n) ==
    /\ pc = "query"
    /\ pc' = "next"
    /\ o' = [o EXCEPT !.ce_advance_count = n]
    /\ UNCHANGED <<cfg, lsa, sig, n_cycles, owner, tries>>

\* A signal while the answer is awaited breaks the loop.
QueryInterrupted ==
    /\ pc = "query"
    /\ pc' = "close"
    /\ sig' = "hard"
    /\ UNCHANGED <<cfg, o, lsa, n_cycles, owner, tries>>

-----------------------------------------------------------------------------
(* resolve_remote, called by both phases of the socket's initialization *)
Resolved(l) ==
    IF l.remote_list = NoHost
    THEN [l EXCEPT !.remote_list = o.remote, !.current_remote = 1]
    ELSE l

SetActual(l) ==
    IF l.actual = NoAddr
    THEN [l EXCEPT !.actual = [host |-> l.remote_list, k |-> l.current_remote]]
    ELSE l

resolve_remote ==
    /\ pc = "resolve"
    /\ pc' = "run"
    /\ lsa' = SetActual(Resolved(lsa))
    /\ owner' = IF lsa.remote_list = NoHost THEN o.current ELSE owner
    /\ UNCHANGED <<cfg, o, sig, n_cycles, tries>>

resolve_remote_fails ==
    /\ pc = "resolve" /\ lsa.remote_list = NoHost
    /\ pc' = "close"
    /\ sig' = "soft"
    /\ UNCHANGED <<cfg, o, lsa, n_cycles, owner, tries>>

-----------------------------------------------------------------------------
(* What happens to a connection, and how it ends *)
initialization_sequence_completed(errors) ==
    /\ pc = "run"
    /\ o' = [o EXCEPT !.unsuccessful_attempts = 0, !.no_advance = @ \/ ~errors]
    /\ tries' = Untried
    /\ UNCHANGED <<cfg, pc, lsa, sig, n_cycles, owner>>

End(source, opt) ==
    /\ pc = "run"
    /\ pc' = "close"
    /\ sig' = source
    /\ o' = opt
    /\ UNCHANGED <<cfg, lsa, n_cycles, owner, tries>>

\* A failed connect, a timeout or a reset; a SIGUSR1 from outside.
SoftRestart == End("soft", o)
HardRestart == End("hard", o)

receive_auth_failed(advance) ==
    End("soft", [o EXCEPT !.no_advance = advance = "no",
                          !.advance_next_remote = @ \/ advance = "remote"])

\* server_pushed_signal: RESTART with the flag N.
RestartNext == End("soft", [o EXCEPT !.no_advance = FALSE])

\* The list of addresses survives if the user wants it, or if this restart may
\* go on with it.
KeepsAddresses ==
    \/ cfg.persist_remote_ip
    \/ sig # "hard" /\ (HasNextAddress(lsa) \/ o.no_advance)

do_close_link_socket ==
    /\ pc = "close"
    /\ pc' = "next"
    /\ LET l == IF KeepsAddresses THEN lsa ELSE clear_remote_addrlist(lsa)
       IN  lsa' = IF cfg.persist_remote_ip THEN l ELSE [l EXCEPT !.actual = NoAddr]
    /\ owner' = IF lsa'.remote_list = NoHost THEN -1 ELSE owner
    /\ sig' = "none"
    /\ n_cycles' = 0
    /\ UNCHANGED <<cfg, o, tries>>

\* SIGHUP: a new context, init_connection_list.
Restart ==
    /\ pc = "run"
    /\ pc' = "next"
    /\ o' = FreshOptions
    /\ lsa' = Unresolved
    /\ owner' = -1
    /\ tries' = Untried
    /\ n_cycles' = 0
    /\ UNCHANGED <<cfg, sig>>

-----------------------------------------------------------------------------
Try == next_connection_entry \/ resolve_remote \/ do_close_link_socket

Next ==
    \/ Try
    \/ RemoteAccept
    \/ RemoteMod
    \/ \E n \in 0..MaxSkip : RemoteSkip(n)
    \/ QueryInterrupted
    \/ resolve_remote_fails
    \/ \E errors \in BOOLEAN : initialization_sequence_completed(errors)
    \/ SoftRestart
    \/ HardRestart
    \/ \E advance \in {"no", "remote", "addr"} : receive_auth_failed(advance)
    \/ RestartNext
    \/ Restart

Spec == Init /\ [][Next]_vars

-----------------------------------------------------------------------------
TypeOK ==
    /\ o.current \in -1..(cfg.len - 1)
    /\ lsa.remote_list \in Hosts \cup {ModHost, NoHost}
    /\ lsa.current_remote \in 0..Addresses
    /\ n_cycles \in 0..2

\* The addresses a client connects to are those of the entry it has chosen:
\* what a soft restart keeps of a list is gone when another entry is next, also
\* after the management client skipped some.  (--persist-remote-ip keeps the
\* first address for ever, as its comment says.)
AddressesOfEntry ==
    pc = "run" /\ ~cfg.persist_remote_ip =>
        /\ owner = o.current
        /\ lsa.actual = [host |-> lsa.remote_list, k |-> lsa.current_remote]

\* --connect-retry-max gives up only after every entry that is not disabled was
\* tried that often since the last success.
GivesUpFairly ==
    pc = "fatal" /\ ~cfg.query => \A i \in Entries \ cfg.disabled : tries[i] >= cfg.retry_max

\* A client that cannot connect tries every enabled entry over and over, as long
\* as no server tells it to stay and no SIGHUP sends it back to the first one.
Stays == o.no_advance
Tried(i) == i \in Entries \ cfg.disabled /\ ~cfg.query /\ cfg.retry_max = 0 => pc = "resolve" /\ o.current = i

=============================================================================
