------------------------------- MODULE EventSet -------------------------------
(* What an event loop waits for.                                                 *)
(*                                                                               *)
(* The event sets of event.c: one interface (event_ctl, event_del, event_reset,  *)
(* event_wait) over WSAWaitForMultipleEvents ("we"), epoll ("ep"), poll ("po")   *)
(* and select ("se"), each with its own tables.  A fast set is filled anew for    *)
(* every wait of the single tunnel's loop, a scalable set is kept by the server.  *)
(* list is the table of we, po and the kernel's of ep; rfds, wfds, args and       *)
(* maxfd are se's.  asked is what the callers want, owner whose descriptor it is: *)
(* a descriptor is given to another one only after event_del.                     *)
(*                                                                               *)
(* The server's timers (schedule.c, schedule.h): a treap of instances ordered by *)
(* wakeup time, with random priorities for balance and a cache of its least      *)
(* element.  t is struct schedule and the links of its entries: root, par, lt,    *)
(* gt, the priority pri (0: not in the tree) and the wakeup time tv.  earliest is *)
(* the cached least entry.  The two share nothing.                               *)
EXTENDS Integers, Sequences, FiniteSets, SequencesExt, FiniteSetsExt

CONSTANTS
  Configs,   \* [method, fast, want: maxevents, limit: of the system call]
  Fds,       \* descriptors
  Rooms,     \* lengths of the caller's array
  Entries,   \* struct schedule_entry, one in each multi_instance
  Null,      \* NULL
  MaxTime,   \* wakeup times
  MaxPri,    \* priorities
  Sigma      \* the window within which an entry is not moved

VARIABLES cfg, list, rfds, wfds, args, maxfd, asked, owner, phase, t, earliest

vars == <<cfg, list, rfds, wfds, args, maxfd, asked, owner, phase>>
timers == <<t, earliest>>

Owners == 1..2
NoOwner == 0
Smaller(a, b) == IF a < b THEN a ELSE b

\* The capacity of we_init, po_init and se_init, and maxevents on their return.
Capacity ==
  CASE cfg.method = "we" -> Smaller(cfg.want * 2, cfg.limit)
    [] cfg.method = "po" -> cfg.want
    [] cfg.method = "se" -> cfg.limit
    [] OTHER -> Cardinality(Fds)

Init ==
  /\ cfg \in Configs
  /\ list = <<>> /\ rfds = {} /\ wfds = {} /\ args = [f \in Fds |-> NoOwner] /\ maxfd = -1
  /\ asked = [f \in Fds |-> {}] /\ owner = [f \in Fds |-> 1]
  /\ phase = "set"

-----------------------------------------------------------------------------
(* we: one entry for each direction. *)

\* we_append_event: the write handle first, each while there is room.
Append1(l, f, d, a) == IF Len(l) < Capacity THEN Append(l, [fd |-> f, flags |-> {d}, arg |-> a]) ELSE l

we_append_event(l, f, rw, a) ==
  LET w == IF "w" \in rw THEN Append1(l, f, "w", a) ELSE l
      full == "w" \in rw /\ w = l
  IN  IF "r" \in rw /\ ~full THEN Append1(w, f, "r", a) ELSE w

we_del_event(l, f) == SelectSeq(l, LAMBDA e : e.fd # f)

we_get_index(l, f, d) ==
  LET I == {i \in 1..Len(l) : l[i].fd = f /\ l[i].flags = {d}} IN IF I = {} THEN 0 ELSE Min(I)

we_ctl(l, f, rw, a) ==
  LET ri == we_get_index(l, f, "r")
      wi == we_get_index(l, f, "w")
      one == IF ri > 0 THEN ri ELSE wi
      n == Cardinality({i \in {ri, wi} : i > 0})
  IN  CASE rw = {} -> we_del_event(l, f)
        [] rw # {} /\ n = 0 -> we_append_event(l, f, rw, a)
        [] Cardinality(rw) = 1 /\ n = 1 -> [l EXCEPT ![one] = [fd |-> f, flags |-> rw, arg |-> a]]
        [] rw = {"r"} /\ n = 2 -> RemoveAt(l, wi)
        [] rw = {"w"} /\ n = 2 -> RemoveAt(l, ri)
        [] rw = {"r", "w"} /\ n = 1 -> we_append_event(l, f, IF ri = 0 THEN {"r"} ELSE {"w"}, a)
        [] rw = {"r", "w"} /\ n = 2 -> l

(* ep and po: one entry for each descriptor. *)

po_append_event(l, f, rw, a) == IF Len(l) < Capacity THEN Append(l, [fd |-> f, flags |-> rw, arg |-> a]) ELSE l

EntriesOf(l, f) == {i \in 1..Len(l) : l[i].fd = f}
Entry(f, rw, a) == [fd |-> f, flags |-> rw, arg |-> a]

po_ctl(l, f, rw, a) ==
  IF EntriesOf(l, f) = {} THEN po_append_event(l, f, rw, a) ELSE [l EXCEPT ![Min(EntriesOf(l, f))] = Entry(f, rw, a)]

\* The first entry is cut out.
po_del(l, f) == IF EntriesOf(l, f) = {} THEN l ELSE RemoveAt(l, Min(EntriesOf(l, f)))

\* EPOLL_CTL_MOD, or ADD when the kernel has no entry.
ep_ctl(l, f, rw, a) ==
  IF EntriesOf(l, f) = {} THEN Append(l, Entry(f, rw, a)) ELSE [l EXCEPT ![Min(EntriesOf(l, f))] = Entry(f, rw, a)]

\* EPOLL_CTL_DEL
ep_del(l, f) == SelectSeq(l, LAMBDA e : e.fd # f)

-----------------------------------------------------------------------------
\* event_ctl.  A fast set is given each descriptor once between reset and wait.
event_ctl(f, rw) ==
  /\ phase = "set"
  /\ cfg.fast => asked[f] = {} /\ rw # {}
  /\ asked' = [asked EXCEPT ![f] = rw]
  /\ list' = CASE cfg.method = "se" -> list
               [] cfg.method = "we" -> IF cfg.fast THEN we_append_event(list, f, rw, owner[f]) ELSE we_ctl(list, f, rw, owner[f])
               [] cfg.method = "po" -> IF cfg.fast THEN po_append_event(list, f, rw, owner[f]) ELSE po_ctl(list, f, rw, owner[f])
               [] cfg.method = "ep" -> ep_ctl(list, f, rw, owner[f])
  /\ IF cfg.method = "se" /\ f < Capacity
     THEN /\ maxfd' = Max({f, maxfd}) /\ args' = [args EXCEPT ![f] = owner[f]]
          /\ rfds' = IF "r" \in rw THEN rfds \cup {f} ELSE IF cfg.fast THEN rfds ELSE rfds \ {f}
          /\ wfds' = IF "w" \in rw THEN wfds \cup {f} ELSE IF cfg.fast THEN wfds ELSE wfds \ {f}
     ELSE UNCHANGED <<maxfd, args, rfds, wfds>>
  /\ UNCHANGED <<cfg, owner, phase>>

\* event_del of a scalable set, before the descriptor is closed; the number is used again
\* for another owner.
event_del(f) ==
  /\ ~cfg.fast
  /\ asked' = [asked EXCEPT ![f] = {}] /\ owner' = [owner EXCEPT ![f] = 3 - @]
  /\ list' = CASE cfg.method = "we" -> we_del_event(list, f)
               [] cfg.method = "po" -> po_del(list, f)
               [] cfg.method = "ep" -> ep_del(list, f)
               [] cfg.method = "se" -> list
  /\ rfds' = rfds \ {f} /\ wfds' = wfds \ {f}
  /\ args' = IF cfg.method = "se" /\ f < Capacity THEN [args EXCEPT ![f] = NoOwner] ELSE args
  /\ UNCHANGED <<cfg, maxfd, phase>>

\* event_reset of a fast set, at the start of io_wait.
event_reset ==
  /\ cfg.fast /\ phase = "waited"
  /\ phase' = "set" /\ asked' = [f \in Fds |-> {}]
  /\ list' = <<>> /\ rfds' = {} /\ wfds' = {}
  /\ args' = [f \in Fds |-> IF f <= maxfd THEN NoOwner ELSE args[f]] /\ maxfd' = -1
  /\ UNCHANGED <<cfg, owner>>

\* What a wait finds of an entry: poll and epoll report an error or a hangup also when
\* nothing was asked, and it is given to the caller as readable.
Revents(e, ready) ==
  IF cfg.method = "we" THEN e.flags \cap ready[e.fd]
  ELSE (e.flags \cap ready[e.fd]) \cup (IF "e" \in ready[e.fd] THEN {"r"} ELSE {})

\* po_wait, and we_wait when some event is set at once.
po_wait(ready, room) ==
  LET found == SelectSeq(list, LAMBDA e : Revents(e, ready) # {})
      ret == [i \in 1..Len(found) |-> [arg |-> <<found[i].fd, found[i].arg>>, flags |-> Revents(found[i], ready)]]
  IN  SubSeq(ret, 1, Smaller(room, Len(ret)))

\* ep_wait: the set's own array of maxevents may be shorter than the caller's.
ep_wait(ready, room) == po_wait(ready, Smaller(room, cfg.want))

\* Mutant: select's loop ends before the largest descriptor.
se_wait_return_Below(ready, room) ==
  LET F == {f \in 0..(maxfd - 1) : (f \in rfds /\ ready[f] \cap {"r", "e"} # {}) \/ (f \in wfds /\ "w" \in ready[f])}
      order == SetToSortSeq(F, LAMBDA a, b : a < b)
      ret == [i \in 1..Len(order) |->
               [arg |-> <<order[i], args[order[i]]>>,
                flags |-> (IF order[i] \in rfds /\ ready[order[i]] \cap {"r", "e"} # {} THEN {"r"} ELSE {})
                          \cup (IF order[i] \in wfds /\ "w" \in ready[order[i]] THEN {"w"} ELSE {})]]
  IN  SubSeq(ret, 1, Smaller(room, Len(ret)))

\* se_wait_return over the sets select has left; an error makes a descriptor readable.
se_wait_return(ready, room) ==
  LET F == {f \in 0..maxfd : (f \in rfds /\ ready[f] \cap {"r", "e"} # {}) \/ (f \in wfds /\ "w" \in ready[f])}
      order == SetToSortSeq(F, LAMBDA a, b : a < b)
      ret == [i \in 1..Len(order) |->
               [arg |-> <<order[i], args[order[i]]>>,
                flags |-> (IF order[i] \in rfds /\ ready[order[i]] \cap {"r", "e"} # {} THEN {"r"} ELSE {})
                          \cup (IF order[i] \in wfds /\ "w" \in ready[order[i]] THEN {"w"} ELSE {})]]
  IN  SubSeq(ret, 1, Smaller(room, Len(ret)))

\* What event_wait returns.  On Windows, when nothing is set at once, the wait ends with one
\* event whatever the room, and others that are set meanwhile are left for the next.
Returned(ready, room) ==
  CASE cfg.method = "se" -> se_wait_return(ready, room)
    [] cfg.method = "ep" -> ep_wait(ready, room)
    [] OTHER -> po_wait(ready, room)

\* event_wait: a scalable set is as before, a fast select overwrites its sets.
event_wait(ready) ==
  /\ cfg.fast /\ phase = "set"
  /\ phase' = "waited"
  /\ rfds' = {f \in rfds : ready[f] \cap {"r", "e"} # {}}
  /\ wfds' = {f \in wfds : "w" \in ready[f]}
  /\ UNCHANGED <<cfg, list, args, maxfd, asked, owner>>

Readiness == [Fds -> SUBSET {"r", "w", "e"}]

Next ==
  \/ \E f \in Fds, rw \in SUBSET {"r", "w"} : event_ctl(f, rw)
  \/ \E f \in Fds : event_del(f)
  \/ event_reset
  \/ \E ready \in Readiness : event_wait(ready)

Spec == Init /\ [][Next]_vars

-----------------------------------------------------------------------------
\* What the tables of the set wait for.
Registered ==
  IF cfg.method = "se"
  THEN [f \in Fds |-> (IF f \in rfds THEN {"r"} ELSE {}) \cup (IF f \in wfds THEN {"w"} ELSE {})]
  ELSE [f \in Fds |-> UNION {list[i].flags : i \in {k \in 1..Len(list) : list[k].fd = f}}]

TypeOK ==
  /\ cfg \in Configs /\ Len(list) <= 2 * Cardinality(Fds) /\ rfds \cup wfds \subseteq Fds
  /\ args \in [Fds -> Owners \cup {NoOwner}] /\ maxfd \in Fds \cup {-1}
  /\ asked \in [Fds -> SUBSET {"r", "w"}] /\ owner \in [Fds -> Owners] /\ phase \in {"set", "waited"}

\* Whatever the order of calls, the tables wait for nothing that was not asked last of a
\* descriptor, and for all of it unless the set was full; no descriptor has two entries
\* for one direction (the ASSERTs of we_get_rw_indices).
InterestIsAsked ==
  phase = "set" =>
    /\ \A f \in Fds : Registered[f] \subseteq asked[f]
    /\ (CASE cfg.method = "we" -> 2 * Cardinality(Fds) <= Capacity
          [] cfg.method = "se" -> Max(Fds) < Capacity
          [] OTHER -> Cardinality(Fds) <= Capacity) => Registered = asked
    /\ cfg.method # "se" => \A i, j \in 1..Len(list) :
         list[i].fd = list[j].fd /\ list[i].flags \cap list[j].flags # {} => i = j

\* A wait returns only descriptors that are ready, with the argument of the present owner
\* and never of one whose descriptor was deleted, and misses none unless the caller's array,
\* or epoll's own, is full.
WaitIsExact ==
  phase = "set" => \A ready \in Readiness, room \in Rooms :
    LET r == Returned(ready, room)
        Got(f) == UNION {r[i].flags : i \in {k \in 1..Len(r) : r[k].arg[1] = f}}
    IN  /\ \A i \in 1..Len(r) : LET f == r[i].arg[1] IN
             /\ r[i].arg[2] = owner[f]
             /\ r[i].flags \subseteq (asked[f] \cap ready[f]) \cup (IF "e" \in ready[f] THEN {"r"} ELSE {})
        /\ Len(r) < (IF cfg.method = "ep" THEN Smaller(room, cfg.want) ELSE room) => \A f \in Fds : Registered[f] \cap ready[f] \subseteq Got(f)

-----------------------------------------------------------------------------
(* Timers. *)

TimersInit ==
  /\ t = [root |-> Null, par |-> [e \in Entries |-> Null], lt |-> [e \in Entries |-> Null],
          gt |-> [e \in Entries |-> Null], pri |-> [e \in Entries |-> 0], tv |-> [e \in Entries |-> 0]]
  /\ earliest = Null

InTree(s, e) == s.pri[e] > 0

\* schedule_entry_compare: the priority decides between equal times.
Before(s, a, b) == s.tv[a] < s.tv[b] \/ (s.tv[a] = s.tv[b] /\ s.pri[a] < s.pri[b])

\* schedule_rotate_up: e takes its parent's place, the parent the subtree between them.
schedule_rotate_up(s, e) ==
  LET p == s.par[e]
      gp == s.par[p]
      right == s.gt[p] = e
      inner == IF right THEN s.lt[e] ELSE s.gt[e]
      up == IF gp = Null THEN [s EXCEPT !.root = e]
            ELSE IF s.gt[gp] = p THEN [s EXCEPT !.gt[gp] = e] ELSE [s EXCEPT !.lt[gp] = e]
      turned == IF right THEN [up EXCEPT !.par[e] = gp, !.par[p] = e, !.lt[e] = p, !.gt[p] = inner]
                ELSE [up EXCEPT !.par[e] = gp, !.par[p] = e, !.gt[e] = p, !.lt[p] = inner]
  IN  IF inner = Null THEN turned ELSE [turned EXCEPT !.par[inner] = p]

schedule_detach_parent(s, e) ==
  LET p == s.par[e]
  IN  IF p = Null THEN IF s.root = e THEN [s EXCEPT !.root = Null] ELSE s
      ELSE IF s.lt[p] = e THEN [s EXCEPT !.lt[p] = Null, !.par[e] = Null]
      ELSE [s EXCEPT !.gt[p] = Null, !.par[e] = Null]

LesserChild(s, e) ==
  IF s.lt[e] = Null THEN s.gt[e]
  ELSE IF s.gt[e] # Null /\ s.pri[s.lt[e]] >= s.pri[s.gt[e]] THEN s.gt[e] ELSE s.lt[e]

RECURSIVE schedule_remove_node(_, _)
schedule_remove_node(s, e) ==
  IF LesserChild(s, e) = Null THEN [schedule_detach_parent(s, e) EXCEPT !.pri[e] = 0]
  ELSE schedule_remove_node(schedule_rotate_up(s, LesserChild(s, e)), e)

\* schedule_insert: down from c to a free place.
RECURSIVE Place(_, _, _)
Place(s, e, c) ==
  IF Before(s, e, c)
  THEN IF s.lt[c] = Null THEN [s EXCEPT !.lt[c] = e, !.par[e] = c] ELSE Place(s, e, s.lt[c])
  ELSE IF s.gt[c] = Null THEN [s EXCEPT !.gt[c] = e, !.par[e] = c] ELSE Place(s, e, s.gt[c])

schedule_insert(s, e) == Place(s, e, s.root)

RECURSIVE Rise(_, _)
Rise(s, e) == IF s.par[e] # Null /\ s.pri[s.par[e]] > s.pri[e] THEN Rise(schedule_rotate_up(s, e), e) ELSE s

\* The priorities schedule_set_pri draws: never 0, which says not in the tree.
schedule_set_pri == 1..MaxPri

\* schedule_add_modify with the time and the priority of the entry; one that collides
\* with another of the same time is drawn again.
schedule_add_modify(s, e, time, pri) ==
  LET moved == [s EXCEPT !.tv[e] = time]
      out == IF InTree(s, e) THEN schedule_remove_node(moved, e) ELSE moved
      new == [out EXCEPT !.pri[e] = pri]
  IN  Rise(IF new.root = Null THEN [new EXCEPT !.root = e] ELSE schedule_insert(new, e), e)

RECURSIVE Leftmost(_, _)
Leftmost(s, e) == IF s.lt[e] = Null THEN e ELSE Leftmost(s, s.lt[e])

schedule_find_least(s) == IF s.root = Null THEN Null ELSE Leftmost(s, s.root)

-----------------------------------------------------------------------------
Within(a, b) == a <= b + Sigma /\ b <= a + Sigma

\* Mutant: the cached entry is kept.
schedule_add_entry_Cached(e, time, pri) ==
  /\ ~\E x \in Entries \ {e} : InTree(t, x) /\ t.tv[x] = time /\ t.pri[x] = pri
  /\ IF InTree(t, e) /\ Sigma > 0 /\ Within(time, t.tv[e])
     THEN UNCHANGED timers
     ELSE t' = schedule_add_modify(t, e, time, pri) /\ UNCHANGED earliest

\* schedule_add_entry: an entry whose time has hardly changed stays where it is.
schedule_add_entry(e, time, pri) ==
  /\ ~\E x \in Entries \ {e} : InTree(t, x) /\ t.tv[x] = time /\ t.pri[x] = pri
  /\ IF InTree(t, e) /\ Sigma > 0 /\ Within(time, t.tv[e])
     THEN UNCHANGED timers
     ELSE t' = schedule_add_modify(t, e, time, pri) /\ earliest' = Null

\* schedule_remove_entry of an entry that is in the tree.
schedule_remove_entry(e) ==
  /\ InTree(t, e)
  /\ t' = schedule_remove_node(t, e) /\ earliest' = Null

schedule_get_earliest_wakeup ==
  /\ earliest' = IF earliest = Null THEN schedule_find_least(t) ELSE earliest
  /\ UNCHANGED t

TimersNext ==
  \/ \E e \in Entries, time \in 0..MaxTime, pri \in schedule_set_pri : schedule_add_entry(e, time, pri)
  \/ \E e \in Entries : schedule_remove_entry(e)
  \/ schedule_get_earliest_wakeup

TimersSpec == TimersInit /\ [][TimersNext]_timers

-----------------------------------------------------------------------------
TimersTypeOK ==
  /\ t.root \in Entries \cup {Null} /\ earliest \in Entries \cup {Null}
  /\ t.pri \in [Entries -> 0..MaxPri] /\ t.tv \in [Entries -> 0..MaxTime]
  /\ t.par \in [Entries -> Entries \cup {Null}] /\ t.lt \in [Entries -> Entries \cup {Null}] /\ t.gt \in [Entries -> Entries \cup {Null}]

\* The links of every entry in the tree agree with each other (the ASSERTs of rotation and
\* detaching), every entry in the tree is reached from its root, one that was removed has
\* no links, and no child has a lower priority than its parent.
TreeIsTreap ==
  /\ (t.root = Null) <=> (\A e \in Entries : ~InTree(t, e))
  /\ t.root # Null => InTree(t, t.root)
  /\ \A e \in Entries :
       /\ ~InTree(t, e) => t.par[e] = Null /\ t.lt[e] = Null /\ t.gt[e] = Null
       /\ InTree(t, e) => (t.par[e] = Null) = (t.root = e)
       /\ t.lt[e] # Null => t.par[t.lt[e]] = e
       /\ t.gt[e] # Null => t.par[t.gt[e]] = e
       /\ t.par[e] # Null => /\ e \in {t.lt[t.par[e]], t.gt[t.par[e]]}
                             /\ t.pri[t.par[e]] <= t.pri[e]

\* The entry the server waits for is always one of those with the earliest wakeup: the
\* order of the tree and the cached answer survive every sequence of additions, moves and
\* removals.
EarliestIsFirst ==
  /\ earliest # Null => InTree(t, earliest) /\ \A e \in Entries : InTree(t, e) => t.tv[earliest] <= t.tv[e]
  /\ schedule_find_least(t) # Null => \A e \in Entries : InTree(t, e) => t.tv[schedule_find_least(t)] <= t.tv[e]
  /\ (schedule_find_least(t) = Null) = (\A e \in Entries : ~InTree(t, e))
===============================================================================
