------------------------------- MODULE Fragment --------------------------------
(* --fragment: a sender that splits datagrams too large for the link into numbered  *)
(* parts and a receiver that puts them together in a window of reassembly buffers    *)
(* (fragment.c).  The link loses and reorders; the replay protection has removed      *)
(* duplicates.                                                                       *)
(*                                                                                   *)
(* A byte is the pair <<datagram, offset>>.  out is the sender (fragment_master:       *)
(* outgoing buffer, sequence id, fragment id and size); net the parts under way; in     *)
(* the fragment_list; a buffer keeps its old bytes when it is taken again, as           *)
(* buf_init does.  got and done record what was received of, and delivered from, each   *)
(* datagram.                                                                          *)
EXTENDS Integers, Sequences, FiniteSets, FiniteSetsExt

CONSTANTS N_SEQ_ID, N_FRAG_BUF, MAX_FRAGS,
          Round,       \* FRAG_SIZE_ROUND_MASK + 1
          Capacity,    \* of a buffer
          Configs,     \* [max: max_fragment_size, wild: the order is arbitrary, starts: first sequence ids]
          Lengths,     \* of datagrams
          MaxPackets

VARIABLES cfg, out, net, in, lens, got, done, last

vars == <<cfg, out, net, in, lens, got, done, last>>

NoByte == <<0, 0>>
Nothing == [len |-> 0, data |-> <<>>]
NoFragment == [defined |-> FALSE, size |-> 0, map |-> {}, len |-> 0, data |-> [o \in 0..Capacity-1 |-> NoByte]]

\* fragment_init: the first sequence id is random, the receiver's window ends at 0.  Unless
\* the order is arbitrary the tunnel is already in use and the window follows the sender.
Init ==
  /\ cfg \in Configs
  /\ \E s \in cfg.starts :
       /\ out = [seq |-> s, id |-> 0, size |-> 0, at |-> 0]
       /\ in = [seq |-> IF cfg.wild THEN 0 ELSE s, index |-> 0, fragments |-> [i \in 0..N_FRAG_BUF-1 |-> NoFragment]]
  /\ net = {}
  /\ lens = <<>> /\ got = <<>> /\ done = {} /\ last = Nothing

-----------------------------------------------------------------------------
(* Sending. *)

Smaller(a, b) == IF a < b THEN a ELSE b
Aligned(n) == n - (n % Round)

optimal_fragment_size(len, max) ==
  LET mfs == Aligned(max)
      div == len \div mfs
      mod == len % mfs
  IN  IF div > 0 /\ mod > 0 /\ mod < (mfs * 3) \div 4
      THEN Smaller(mfs, Aligned(max - ((max - mod) \div (div + 1)) + Round - 1))
      ELSE mfs

\* fragment_ready_to_send: the next part of datagram p.  Only the last part carries the size.
Part(p, len, o) ==
  LET isLast == len - o.at <= o.size
      n == IF isLast THEN len - o.at ELSE o.size
  IN  [pkt |-> p, last |-> isLast, seq |-> o.seq % N_SEQ_ID, n |-> o.id % MAX_FRAGS,
       size |-> IF isLast THEN o.size ELSE n, data |-> [i \in 1..n |-> <<p, o.at + i - 1>>]]

Sent(p, len, o) == [o EXCEPT !.id = @ + 1, !.at = Smaller(len, @ + o.size)]

outgoing_defined == Len(lens) > 0 /\ out.at < lens[Len(lens)]

\* A datagram is read from the tun device only while no fragment waits; a small one is
\* sent whole and leaves this state alone; one that needs too many parts is dropped.
fragment_outgoing(len) ==
  LET p == Len(lens) + 1
      size == optimal_fragment_size(len, cfg.max)
      o == [seq |-> (out.seq + 1) % N_SEQ_ID, id |-> 0, size |-> size, at |-> 0]
  IN  /\ ~outgoing_defined /\ p <= MaxPackets
      /\ len > cfg.max /\ len <= size * MAX_FRAGS
      /\ lens' = Append(lens, len) /\ got' = Append(got, {})
      /\ net' = net \cup {Part(p, len, o)}
      /\ out' = Sent(p, len, o)
      /\ UNCHANGED <<cfg, in, done, last>>

check_fragment ==
  LET p == Len(lens)
  IN  /\ outgoing_defined
      /\ net' = net \cup {Part(p, lens[p], out)}
      /\ out' = Sent(p, lens[p], out)
      /\ UNCHANGED <<cfg, in, lens, got, done, last>>

-----------------------------------------------------------------------------
(* Receiving. *)

Abs(n) == IF n < 0 THEN -n ELSE n

modulo_subtract(x, y, mod) ==
  LET d1 == x - y
      d2 == (IF x > y THEN -mod ELSE mod) + d1
  IN  IF Abs(d1) > Abs(d2) THEN d2 ELSE d1

modulo_add(x, y, mod) == (x + y + mod) % mod

\* Mutant: the buffers the window moves over keep their fragments.
fragment_list_get_buf_Keeps(l, seq) ==
  LET diff == modulo_subtract(seq, l.seq, N_SEQ_ID)
  IN  IF Abs(diff) >= N_FRAG_BUF
      THEN [seq |-> seq, index |-> 0, fragments |-> [i \in DOMAIN l.fragments |-> [l.fragments[i] EXCEPT !.defined = FALSE]]]
      ELSE IF diff > 0 THEN [l EXCEPT !.seq = seq, !.index = modulo_add(@, diff, N_FRAG_BUF)] ELSE l

\* The list after the window was moved for sequence id seq.
fragment_list_get_buf(l, seq) ==
  LET diff == modulo_subtract(seq, l.seq, N_SEQ_ID)
      moved == {modulo_add(l.index, d, N_FRAG_BUF) : d \in 1..diff}
      Clear(S) == [i \in DOMAIN l.fragments |-> IF i \in S THEN [l.fragments[i] EXCEPT !.defined = FALSE] ELSE l.fragments[i]]
  IN  IF Abs(diff) >= N_FRAG_BUF
      THEN [seq |-> seq, index |-> 0, fragments |-> Clear(DOMAIN l.fragments)]
      ELSE IF diff > 0 THEN [seq |-> seq, index |-> modulo_add(l.index, diff, N_FRAG_BUF), fragments |-> Clear(moved)] ELSE l

BufferOf(l, seq) == modulo_add(l.index, modulo_subtract(seq, l.seq, N_SEQ_ID), N_FRAG_BUF)

\* The buffer with the fragment's bytes and its bits of the map; the last fragment sets
\* every bit from its own on.  Another fragment size starts the datagram anew.
Joined(b, f) ==
  LET k == IF ~b.defined \/ b.size # f.size
           THEN [b EXCEPT !.defined = TRUE, !.size = f.size, !.map = {}, !.len = 0] ELSE b
      from == f.n * f.size
      end == from + Len(f.data)
  IN  [k EXCEPT !.data = [o \in DOMAIN k.data |-> IF o >= from /\ o < end THEN f.data[o - from + 1] ELSE k.data[o]],
                !.len = IF end > @ THEN end ELSE @, !.map = @ \cup (IF f.last THEN f.n..MAX_FRAGS-1 ELSE {f.n})]

Newest == Max({0} \cup {p \in DOMAIN got : got[p] # {}})

\* fragment_incoming.  Unless the order is arbitrary no fragment is N_FRAG_BUF or more
\* datagrams behind the newest.
fragment_incoming(f) ==
  LET l == fragment_list_get_buf(in, f.seq)
      i == BufferOf(l, f.seq)
      fits == f.n * f.size + Len(f.data) <= Capacity
      b == Joined(l.fragments[i], f)
      full == b.map = 0..MAX_FRAGS-1
  IN  /\ cfg.wild \/ f.pkt > Newest - N_FRAG_BUF
      /\ net' = net \ {f} /\ got' = [got EXCEPT ![f.pkt] = @ \cup {f.n}]
      /\ fits
      /\ in' = [l EXCEPT !.fragments[i] = [b EXCEPT !.defined = ~full]]
      /\ last' = IF full THEN [len |-> b.len, data |-> [o \in 1..b.len |-> b.data[o - 1]]] ELSE Nothing
      /\ done' = IF full THEN done \cup {f.pkt} ELSE done
      /\ UNCHANGED <<cfg, out, lens>>

\* fragment_ttl_reap: a buffer whose last fragment came FRAG_TTL_SEC ago is given up.
fragment_wakeup(i) ==
  /\ cfg.wild /\ in.fragments[i].defined
  /\ in' = [in EXCEPT !.fragments[i].defined = FALSE]
  /\ last' = Nothing
  /\ UNCHANGED <<cfg, out, net, lens, got, done>>

Next ==
  \/ \E len \in Lengths : fragment_outgoing(len)
  \/ check_fragment
  \/ \E f \in net : fragment_incoming(f)
  \/ \E i \in 0..N_FRAG_BUF-1 : fragment_wakeup(i)

Spec == Init /\ [][Next]_vars

-----------------------------------------------------------------------------
TypeOK ==
  /\ out.seq \in 0..N_SEQ_ID-1 /\ out.id \in 0..MAX_FRAGS
  /\ in.seq \in 0..N_SEQ_ID-1 /\ in.index \in 0..N_FRAG_BUF-1
  /\ \A i \in DOMAIN in.fragments : in.fragments[i].map \subseteq 0..MAX_FRAGS-1
  /\ last.len = Len(last.data)

Parts(len, size) == (len + size - 1) \div size

\* What the receiver puts together is, byte for byte and in its whole length, a datagram
\* that was sent, although late parts come when their buffer was given up or taken again
\* and sequence ids wrap.
ReassembledIsSent ==
  last.len > 0 => \E p \in DOMAIN lens : lens[p] = last.len /\ \A o \in 1..last.len : last.data[o] = <<p, o - 1>>

\* A datagram all of whose parts arrive, none N_FRAG_BUF or more datagrams late, is
\* delivered, in whatever order the parts came.
NothingNeedlesslyLost ==
  ~cfg.wild => \A p \in DOMAIN lens :
    (p < Len(lens) \/ ~outgoing_defined) /\ {f \in net : f.pkt = p} = {} => p \in done

\* fragment.c: "Without changing the number of fragments, return a possibly smaller max
\* fragment size": the size in use fits the link, keeps the alignment of the size field
\* and needs no more parts than the largest one.
SplitIsMinimal ==
  lens = <<>> =>
    \A max \in Round..2*cfg.max : \A len \in max+1..MAX_FRAGS*max :
      LET size == optimal_fragment_size(len, max)
      IN  /\ size > 0 /\ size <= max /\ size % Round = 0
          /\ Parts(len, size) = Parts(len, Aligned(max))
===============================================================================
