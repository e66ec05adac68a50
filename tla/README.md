# Verification of OpenVPN

TLA+ models of the OpenVPN daemon (`src/src/openvpn`), of the plug-ins and the
Windows service that come with it, the TLC runs that check them on small
instances, and TLAPS proofs for every value of the constants. Each definition
that models code is listed in `PROJECT.json` under `map` with the lines it stands
for (helpers whose lines lie within those of a listed operation are left out);
definitions keep the names of the C functions they model.

## 1. The system and its parts

OpenVPN is a single-threaded program around one event loop. A *client* (or a
point-to-point peer) has one tunnel; a *server* has one `multi_instance` per
client. A tunnel has a control channel (TLS over a reliability layer over UDP or
TCP) that negotiates the keys of the data channel and carries pushed options, and
a data channel that carries tunnel packets with packet ids against replay, in
user space or in the kernel. Around the tunnel, the program changes its host:
it opens a device, gives it addresses, installs routes and name servers, runs
scripts and plug-ins, and takes it all back; a management client can watch and
command it. Signals restart it at two levels, keeping different objects.

| part | module | state it keeps | what is hard about it |
|---|---|---|---|
| packet ids (`packet_id.c`) | `PacketId`, `PacketIdPersist` | send counter, receive window, persist file | reordering, roll-over, expiry, crash between save and use |
| epoch keys (`crypto_epoch.c`, `crypto.c`) | `EpochKeys` | send key, current, retiring and future receive keys | both sides change keys on their own while packets are in flight |
| fragmentation (`fragment.c`) | `Fragment` | outgoing datagram, sliding reassembly buffers | lost and reordered parts, numbers that wrap around |
| cipher negotiation (`ssl_ncp.c`) | `Ncp` | what each peer announced, chosen and remembers | older peers, fall-backs, a peer that restarts with another configuration |
| offload (`dco*.c`) | `Dco` | key slots and peers of the kernel, and what user space believes | failing commands, delayed notices, reused ids |
| reliability layer (`reliable.c`) | `ReliableChannel`, `FifoChannel` | send and receive buffers, acknowledgement lists | loss, duplication, reordering; full buffers; id wraparound |
| TLS sessions (`ssl.c`) | `TlsMulti`, `TlsPeers` | three sessions of two key states each | renegotiation races, usurping sessions, deferred verdicts, timeouts |
| verification (`ssl_verify.c`, `auth_token.c`) | `Verify` | verdict files, names, tokens per key | verdicts of several authorities at different times |
| plug-ins (`plugin.c`, `auth-pam.c`, `down-root.c`) | `Plugins`, `PluginHelpers` | open plug-ins and their contexts; the helper processes | failures half-way, a helper that dies |
| address pool (`pool.c`) | `Pool` | entries with name, age, fixed flag; file | reconnects, exhaustion, restarts, torn files |
| routing table (`multi.c`, `mroute.c`) | `MultiRoutes` | hash of host, network and cached routes, reference counts | routes that change owner, stale cache, use after close |
| client connect (`multi.c`) | `ClientConnect` | handler index, verdict files, `multi_state` | chain re-entered in the middle; failure after partial success |
| server loop (`multi_io.c`, `mudp.c`, `mtcp.c`, `mbuf.c`) | `MultiClients` | instances, address and peer-id tables, batch of events, queue | pointers into a batch while instances close; full queue |
| event sets, timers (`event.c`, `schedule.c`) | `EventSet` | tables of four system interfaces; a treap | stale interest or arguments, stale cache |
| port sharing (`ps.c`) | `PortShare` | pairs of proxied connections | partial writes, half-closed pairs |
| life cycle (`openvpn.c`, `init.c`, `sig.c`) | `Lifecycle` | pending signal, level-1 and level-2 objects | which objects survive which restart; signals during init |
| event loop of a tunnel (`forward.c`, `ping.c`, `occ.c`, `interval.c`) | `Forward` | three single buffers, timers and their cache | who may use a buffer when; a timer armed behind the cache |
| connection list (`init.c`, `options.c`) | `ConnectionList` | entry and address being tried | addresses that belong to another entry, giving up |
| sockets, proxies (`socket.c`, `proxy.c`, `socks.c`) | `LinkSocket`, `StreamBuf` | descriptors, address lists, stream buffer | retries, signals in every wait, partial reads |
| options (`options*.c`, `helper.c`) | `Options`, `OptionsVerify` | fields, where each value came from, what is saved | what a restart puts back; combinations |
| push and pull (`push*.c`) | `PushPull` | push lists, bundles, digests | split replies, repeated requests, updates |
| host (`tun.c`, `route.c`, `dns.c`) | `Tun`, `HostRoutes`, `Dns` | device, routes, name servers in force | partial failure, order of undo, restarts that keep some |
| management (`manage.c`) | `Management` | connection, questions, hold | blocking questions inside the event loop |
| Windows (`win32.c`, `interactive.c`) | `WinIo`, `WinService` | overlapped operations; undo lists of the service | completion before the wait; crashes of either side |

`PROJECT.json` lists every component, also those not modelled, and every hazard
with the line where it bites and the properties that would catch it.

The parts interact through data structures of one process. Each model takes its
part with the calls that reach it from the others, and takes the others at what
their models show: `TlsMulti` uses the reliability layer as the in-order
channel `ReliableChannel` is shown to be, and so does `PushPull`; `EpochKeys`
extends `PacketId` and keeps two of its records; `MultiClients` sees authentication
and client-connect as verdicts, `ClientConnect` sees the connection as something
that may be closed at any time; `Lifecycle` sees the device, the routes and the
scripts as things that are up or not, which `Tun`, `HostRoutes` and `Dns` detail;
`Fragment` relies on replay protection to remove duplicates. `TlsPeers` composes
two copies of the operations of `TlsMulti` with a network; `ReliableChannel` has
the operations on `struct reliable` and `struct reliable_ack`, and composes two
ends with a network.

## 2. Modules for TLC

`MCDataChannel`, `MCReliable`, `MCTls`, `MCServer` and `MCClient` instantiate the
modules of section 1 for TLC. Each has a variable `part`; the initial state
chooses one, and the variables of the others are constant (`"idle"`). The parts'
states are thus explored side by side, not multiplied, and a property of the
module holds for every part it names. In `MCServer`, `MCClient` and
`MCDataChannel` parts share variables (`x1`, `y1`, `d1` ...), since one behaviour
uses one of them; the `INSTANCE` gives them their names in the part.

A module's `Configs` are the configurations a behaviour starts from: option
settings, platforms, sets of packets. They are chosen so that each branch of the
modelled code that depends on an option is taken.

## 3. Runs

| run | shows | bounds, and why they are enough |
|---|---|---|
| `data_channel` | headers and nonces are never reused, nothing is accepted twice, nothing rejected without cause, the persisted id never goes back; epoch keys stay in order and lose no packet in flight; datagrams are reassembled as sent; negotiated ciphers agree, and the kernel has the keys and peers user space believes it has (`EndsAgree`); short headers, TCP and the persist file (`RejectsInEverySetting`) | window of 2, ids up to 3, clock to 4: the window slides, expires, is reset by a new time and rolls over; epochs up to 4 of which the last is the end of the range; 3 datagrams, sequence numbers modulo 8 that wrap, 2 reassembly buffers; every pair of some 50 cipher configurations; 5 keys, 2 peer ids over 3 connections: slots and ids are reused |
| `reliable` | in-order delivery, nothing forgotten, buffers never jam or run out; the lists implement the sets; the id window across the wraparound | send buffer 2, receive buffer 3, 5 packets, 2 in flight: every slot is reused, ids pass the buffer size |
| `reliable_live` | the channel implements `FifoChannel`; everything written is delivered | 3 and 1 packets |
| `tls` | old keys survive a negotiation, only trusted sessions get keys, negotiations end and old keys die | a server (the constants of the configuration) whose authentication is immediate, deferred or refused; a client with 2-bit key ids, so that they recycle |
| `tls_peers` | after a fault both sides agree on keys and data flows again | one fault of any kind: a lost, late or repeated packet, a stall, a restart |
| `server` | the nine server parts (see the properties of `MCServer`) | two clients, two addresses, two names; pools of two addresses; batches of two events; a queue of one packet; two or three keys per client and a clock of up to 3; two plug-ins; two proxied connections with buffers of 2; two descriptors; three timers with three times and priorities |
| `client` | the fifteen client parts (see the properties of `MCClient`) | see below |

Bounds of `client`, by part: *life* six configurations, two sets of pulled
options, any number of restarts; *loop* 5 seconds with timers of 1 to 4 and two or
three packets; *remotes* three entries of two addresses, any number of attempts;
*pull* options that need two bundles, one request and one reply in flight, two
updates, one restart; *options* each option of the table on its own, over two
connections and one update; *checks* every configuration that differs by at most
two options from a client and a server, and by one from a bridge and a static key
setup; *dns* three connections with five replies and one update, on Unix and on
Windows; *link* two attempts with one retry, with and without `--preresolve`, a
proxy of either kind and the handle of dco-win; *routes* three tunnels and one change of network, every
subset of routes that cannot be added; *tun* two opens on eleven platforms and
drivers, with every failure; *winio* three packets and two errors; *service* three
messages, three clients of which two have domains in one search list, one crash; *helpers* two or three calls; *stream* three
packets of lengths up to the limit and beyond, in every split, and one packet of
which `send` takes only a part; *management* two
questions, two clients and a restart. They are the smallest in which an object is
used, given up and used again by another owner, which is what the properties are
about.

Five more runs end in a violation on purpose; each states what a comment or the
manual says, and `findings` in `PROJECT.json` quotes it:
`packet_id_persist_doc`, `tls_key_id`, `pool_restart_doc`,
`client_disconnect_doc`, `mbuf_assert`.

### Fairness

`reliable_live` assumes that each peer's event loop keeps running (it retransmits
when a timer is due, reads what is ready) and that a packet sent again and again
arrives some time. The loop sleeps at most until the next timer
(`tls_multi_process` sets `wakeup`), so the first is what the code does; the
second is the usual assumption on the network. `MCTls` and `TlsPeers` assume that
time passes and that the loop calls `tls_multi_process` again; nothing is assumed
of the remote side.

`MCClient` assumes: the main thread goes on, since each of its waits has a timeout
or looks for signals once a second (`LifeGoesOn`, `EntryIsTried`); an attempt to
connect ends, by `--connect-timeout`, `--hand-window` or `--ping-restart`
(`AttemptEnds`); timers fire (`TimerFires`) and a client asks again or restarts
(`ClientRequests`, `ClientRestarts`); what has arrived is read and client-connect
scripts return (the three last conditions, each for an action that is enabled
again and again as long as it has work); overlapped operations are armed, complete
and are finalized (`Arms`, `Completes`, `Reads`); the helper of a plug-in and a
call in progress go on (`HelperRuns`, `CallGoesOn`). A behaviour has one part, so
one condition of weak fairness on a disjunction of actions of different parts is
the same as one for each. All safety properties hold without fairness.

Deadlock checking is off where the bounds end a behaviour (all packets sent, the
clock at its bound, the process has exited).

## 4. Proofs

The theorems hold for every value of the constants. Eight modules hold them; the
ones whose name ends in `OpsProofs` or `SendProofs` have the lemmas the others
need.

### Packet ids: `PacketIdProofs`

For every window size, time limit, id range and form of the header.

- `TypeCorrect` and `ReplaysAreRejected` (`NoReplay`). `NoReplay` is not
  inductive: it says nothing of the slots a window moves over. The invariant `IInv`
  says that every accepted header is *covered*: older than the record's time, or
  of its time, not ahead of it and not unseen in the window. One lemma for each of
  reap, push, stamp, new list and add shows that it uncovers nothing.
- `HeadersAreUnique` (`HeadersAreFresh`): `SendInv` says that whatever was sent is
  behind the send counter, in time or in id, also after a roll-over.
- `NothingIsDroppedWithoutCause` (`RejectsWithCause`): the converse of `IInv`. The
  invariant `RecvInv` says that the record is *exact*: a slot of the window that
  is not unseen belongs to an accepted header or to one the time limit gave up,
  and without a window everything up to the record's id was accepted.

### Epoch keys: `EpochOpsProofs`, `EpochProofs`, `EpochWindowProofs`

For every number of future keys, every last epoch and every usage limit.

- `KeysStayInOrder` (`KeysInOrder`) and `NoncesAreFresh` (`NoNonceReuse`) rest on
  `EpochInv`: each peer's keys are `Sound` (the future keys are the epochs after
  the current receive key, as many as are configured or as many as the last epoch
  leaves; the retiring key is behind; the send key is within them), what was sent
  is behind the send key and its counter, and what was accepted is covered by the
  window of its epoch or older than both windows.
- `PacketsAreAcceptedOnce` (`AcceptedOnceAcrossEpochs`) adds `ExactInv`: the windows
  hold nothing that did not happen, so a packet of the current or the retiring key
  that is in flight and was not accepted is still acceptable. It assumes a replay
  window (`SeqBacktrack # 0`): with `--replay-window 0`, which `packet_id_test`
  means for TCP, a packet must be the successor of the last, so a late or lost one
  is not made up for. That nothing is accepted twice needs no such assumption
  (`NoReplayOverEpochs`).

The proofs about windows are those of `PacketIdProofs`: `EpochKeys` extends
`PacketId` and keeps two of its records.

### Reliability layer: `ReliableOpsProofs`, `ReliableSendProofs`, `ReliableProofs`

For every size of the buffers and lists and every number of packets below half of
the id space. `TypeCorrect`, `NothingIsForgotten`, `InOrder`, `BufferNeverJams`, and
`ImplementsFifo`: the channel refines `FifoChannel`. The inductive invariant `IInv`
relates the places a packet can be: what is in a send buffer is what was written
under that id (`SendInv`); what is in a receive buffer or was delivered is what
the other side wrote (`RecInv`); what is in flight likewise (`NetInv`), and its
acknowledgements, like those in the lists, are of packets that were received
(`AckInv`). The assumption that ids stay below half the space is
`ChannelAssumption`. A session would have to send 2^31 control packets to break it;
the arithmetic across the wraparound is checked by TLC on a full circle in
`MCReliable` (`WindowIsStored`, a part of `ListsAndWindowAreExact`).

### TLS sessions: `TlsProofs`

For every role (server, client, point to point), handshake and transition window,
key id mask and set of session ids, whatever control packets arrive, whether or not
they authenticate, and whatever fails or times out. A call of `tls_process` is the
whole loop, up to twelve rounds of `tls_process_state`; no reachable session of
`MCTls` needs more.

- `TlsTypeCorrect` (`TypeOK`) and `TlsOnlyTrustedKeys` (`OnlyTrustedKeys`): together
  they are the inductive invariant. `OnlyTrustedKeys` alone is not inductive for
  `tls_multi_process`: within the call TM_INITIAL may get as far as S_ACTIVE, and
  it is `Promote`, at the end, that moves such a session away. So the lemma about
  the session loop (`ProcessSessionsType`) proves the weaker `Untrusted` (no data
  channel keys), and `PromoteType` restores the invariant: what is not promoted is
  not authenticated.
- `TlsOldKeySurvives` (`OldKeySurvivesNegotiation`), an action property. The argument
  follows the old key through the call: the loop leaves it in its session, or moves
  it with the session to TM_LAME_DUCK when the negotiation fails (`Held`); the later
  stages change the verdict on it at most (`HeldKey`) and `lame_duck_must_die` does
  not take it; a promotion is the usurpation the property allows for. The promoted
  session is then the one that was TM_INITIAL before the call, because a TM_INITIAL
  that was reset during the call is in S_INITIAL and not authenticated.

### Checked only

- Liveness (`EventuallyDelivered`, `NoKeyLingers`, `Recovers`, `EventuallyDone`) is
  outside the prover.
- `ListsAndWindowAreExact` compares lists of bounded length with the sets they stand
  for, over all inputs within the bounds; for every length it would be an induction
  over data. The same holds for the reference definitions in `MCServer` and
  `MCClient` (the treap, the order of routes, the merge of options).
- `SettledIsSynced` is a property of `TlsPeers`, two copies of `TlsMulti` and a
  network. `TlsPeers`, `EventSet`, `HostRoutes`, `PortShare` and `ClientConnect` use
  recursive operators, which the prover does not support.
- The other properties of `data_channel`, `server` and `client` range over several
  parts of one MC module and over configurations chosen for TLC.


## 5. Observations

Behaviours met while modelling. Those the runs report as violations are in
`findings`; the others are listed here, with the definition that shows them where
the models have one. They are excluded from the properties by the configurations
of the runs, or the properties are stated so that they allow them.

Server:

- `--stale-routes-check` ages out an iroute whose traffic was served by cached
  host routes, because only the cached route's time is refreshed.
- IPv4 iroute networks are entered with their host bits, as given.
- Closing an instance while a client-connect handler is deferred leaves its
  temporary files behind.
- `n_clients` is counted up for a client whose connection failed, and down again
  when it is closed.
- `multi_create_instance_tcp` accepts connections during a deferred shutdown;
  the UDP path does not.
- A hard release of a pool entry (`--ifconfig-push` after a dynamic address)
  forgets the name of a fixed entry until the next start.
- With `ENABLE_ASYNC_PUSH` an inotify event is posted outside `multi_io_action`
  (`multi.c:2781`) and the event loop can be left with pending output of a client
  that a later event closes; the runs exclude that build option from
  `NoDanglingPointers`, `AssertsHold` and `NothingLeftBehind`.
- A server with `--explicit-exit-notify` defers a SIGTERM for two seconds; when
  SIGUSR1 or SIGHUP arrives meanwhile, the loop ends with that one and the SIGTERM
  is forgotten (`multi_process_signal`, `multi.c:3825`; hence the exception in
  `Ending` of `Lifecycle`).
- Port sharing: COMMAND_EXIT can be lost with EAGAIN, and the proxy process stays
  when the server is killed.
- Plug-ins: the abort function is called for plug-ins that were never opened
  (`plugin.c:641`).
- `we_init` limits the Windows event set to `min(2 * max, 64)` entries, so that a
  set of that many descriptors cannot have both directions of each.
- When a new session of a connected client usurps the old one, the instance is in
  `CAS_RECONNECT_PENDING` until the next second's `do_up` (`ssl.c:3375`). That state
  is smaller than `CAS_CONNECT_DONE`, so that a client closed in between gets no
  client-disconnect (`multi.c:635`). `OneDisconnect` says that this is the only
  case (`last.reconnecting`).
- `verify_callback` ignores the error that the CRL file has no list of the issuer
  (`ssl_verify_openssl.c:81`), and with `--peer-fingerprint` and no `--ca` every
  error of the library (`ssl_verify_openssl.c:68`): a revoked certificate passes
  there, although `--crl-verify` names the file. `TrustedIsApproved` requires a
  certificate that is not revoked in all other cases.
- The timeout of a pending authentication is limited to the larger of half the
  renegotiation time and the handshake window (`push.c:450`), where
  `management-notes.txt:680` says the smaller.

Data channel:

- Offload: the kernel has two key slots, but without `--single-session` three keys
  can be usable: both of the active session and one kept in `TM_LAME_DUCK` after a
  failed renegotiation. `dco_install_key` then overwrites the secondary slot without
  counting the key (`dco.c:76`); when the kept key dies, or the new one is selected,
  the `ASSERT(primary->dco_status != DCO_NOT_INSTALLED)` at `dco.c:169` fails.
  `PrimaryIsInstalled` says that this is the only way to it, and `KernelKeysAgree`
  holds whenever at most two keys are usable.
- On Linux a handler of a notice can run inside the wait for an acknowledgement.
  When it closes the instance the command is for, its caller goes on with freed
  memory; after a float collision (`multi.c:3138`) the kernel also keeps a peer no
  instance knows of. `KernelPeersAgree` says nothing from there on (`n.freed`).
- A point-to-point peer whose partner restarts with other ciphers keeps the
  cipher of the earlier negotiation where the fall-back would be due
  (`do_deferred_p2p_ncp`, `init.c:2546`), and when the new partner does not
  negotiate at all it keeps every protocol flag (`p2p_ncp_set_options` returns
  early). `StaleCipher` and `StaleFlags` of `Ncp` are these states; `PeersAgree`
  compares the ends in all others.
- `reliable_pid_in_range2` compares plainly as long as the window does not reach
  the wraparound of the packet ids: an id past the wraparound is then taken to be
  in range, and would be stored from beyond the window (`reliable.c:68`;
  `PastTheWrap` of `MCReliable`). It takes 2^32 control packets of one session.
- The receiver's fragment window starts at sequence number 0, so that a sender
  that starts just below it can lose reordered first datagrams.

Event loop of a tunnel:

- `ipv6_send_icmp_unreachable` overwrites a packet that waits for the tun device.
- `do_update` and `check_add_routes` arm timers without `reset_coarse_timers`; a
  reset made after `check_coarse_timers` in the same pass takes effect in the next
  one. Hence the slack in `CacheIsCurrent`.
- `register_activity` looks at `c2.buf.len`, which is the packet received last:
  data sent after something was received does not count as activity.
- `occ_op` is a single slot: an exit message that waits in it is replaced when a
  request arrives. The load test's result is not used for anything.

Client and host:

- TCP: `link_socket_write_tcp_posix` is a `send` on a non-blocking socket
  (`socket.h:716`). When it takes only a part of a packet, the rest is logged and
  dropped (`forward.c:1830`), and the peer's stream is out of frame from there on;
  `PacketsAsWritten` is about the packets before it. A foreign protocol on a shared
  port is taken for OpenVPN when its first two bytes come alone and look like a
  length (`ps.c:999`).
- SOCKS over UDP with `--preresolve`: `phase2_socks_client` frees the address list
  of the proxy (`socket.c:1635`) although the cache of resolved names holds it. Later
  attempts use it, and it is freed again with the context (`CachedListFreed`). And a
  restart that keeps the address of the server (`init.c:3995`) connects the control
  connection to that address instead of the proxy (`ThroughTheProxy`).
- With `--preresolve` the result of a lookup that finds nothing in the cache is kept
  for no one to free (`init.c:4003`; `NoListLost`).
- With `--route-delay` and `--persist-tun`, a restart that keeps the device
  reports completion before the routes are in (`init.c:2440`); if they were still to
  be added they never are (`c2.pending` in `RoutesWhenComplete`).
- A SIGUSR1 that a SIGHUP replaces after `close_instance`, and a SIGHUP between
  `post_init_signal_catch` and the event loop, clear the context with the preserved
  device and its routes still in it; no down script runs for them.
- The options of `Options!Kept` are not among those `pre_connect_save` saves
  (`options.c:3087`): what one server pushed holds on the connection to the next,
  unless it pushes its own.
- `do_update` closes the device with the options as they are after the update
  (`init.c:2500`). When these run no `dns-updown` command, the one that set the name
  servers is not run to take them back: after an update that leaves no server, and on
  Unix after every `PUSH_UPDATE` of `--dns`, which clears the remembered command with
  the rest (`orphan` in `DnsFollowsPush`). On Unix an update of `--dhcp-option` has no
  effect.
- `keepalive` is listed as updatable (`options_util.c:204`) and refused by
  `options.c:6770`.
- The first route of a PUSH_UPDATE, or its removal, also clears the flags of a
  redirection (`RESET_OPTION_ROUTES`, `options.c:5065`), one of the same update
  included, once there is a list of routes. `InSync` takes that to be what the
  update says (`Removes` of `PushPull`).
- `--mark` is not set again on the socket of the second attempt after an HTTP
  proxy's 407 (`socket.c:1604`).
- A management client's `remote MOD` does not survive a cached address list
  (`socket.c:1224`).
- A password of several lines that the management client has begun and not ended
  when its question is over is taken for the answer to the next one
  (`management_query_user_pass` does not reset it, `manage.c:3712`).
- Routes of a redirection that existed before are deleted at the end (`EEXIST` is
  not told from success there); a default route replaced for a server in the
  host's own subnet is restored without its gateway; after a restart with
  `--persist-tun` to another server the host route is still the one to the first,
  so that the tunnel's own packets go into it. `RoutesRestored` and `NoRoutingLoop`
  have exactly these exceptions.
- With offload on Linux, a device of the given name that existed before is deleted
  at exit (`close_tun_dco`, `dco_linux.c:527`).
- On FreeBSD only the listen entries are looked at to refuse offload over TCP
  (`dco.c:257`), not the protocol of a client's connection.
- Windows service: when a connection takes its domains out of the search list in the
  registry, only as many of the characters behind them are moved up as they are long
  themselves (`wmemmove`, `interactive.c:1575`), so that a longer list of a later
  connection is torn (`torn` in `SearchListRestored`); the next start of the service
  puts the user's own back. The list is also read and written without a lock, which is
  not modelled: a message is handled in one step.
- Windows service: the name servers set for NRPT rules (`interactive.c:2915`) are
  reset by the next message, but not by the undo record, which deletes the rules only
  (`interactive.c:2779`). When no further pipe can be made the service ends with its
  undo lists.
- auth-pam: a helper that is killed leaves the foreground in `recv_control`;
  down-root: a second UP is a fatal error.

## 6. Not modelled

- *Cryptographic and TLS libraries* and their wrappers (`crypto_openssl.c`,
  `ssl_mbedtls.c`, PKCS#11, xkey): external; a tag checks out under the key it was
  made with, a handshake is three flights that may fail.
- *Cipher calls of `crypto.c`, `tls_crypt.c`*: one call after another on one
  buffer, without state beyond the packet ids and epochs that are modelled.
- *Stateless reset cookies, `--connect-freq-initial`*: an arbitrary verdict on a
  first packet in `MultiClients`.
- *Text*: the parser of options, the formats of management, status and log
  messages, peer info and scripts' environment, proxies' headers. The models start
  from the parsed form.
- *Packet rewriting* (compression, client NAT, VLAN tags, MSS, MTU): functions of
  one packet.
- *Containers and wrappers* (`buffer.c`, `list.c`, `argv.c`, `env_set.c`,
  `platform.c`): TLA+ has sets, sequences and functions in their place.
- *Back ends of network configuration* (iproute2, netlink encoding, the Windows
  API): every operation is one command whose result is an input of `HostRoutes`,
  `Tun` or `WinService`.
- *Traffic shaper*, statistics, multicast and netlink encoding of the offload.
- *Installer tools* (`tapctl`, `openvpnmsica`) and compatibility code.

Liveness is checked where the code has a wait that something must end (section 3);
the server's loop has none of its own beyond the timers `WakeupsAreExact` is
about.
