----------------------------- MODULE MCReliable -----------------------------
(***************************************************************************)
(* The reliability layer for TLC: the channel between two peers, and,      *)
(* apart from it, the acknowledgement lists and the packet-id arithmetic   *)
(* it is built on.  part says which of them a behaviour is about.          *)
(***************************************************************************)
EXTENDS ReliableChannel, SequencesExt

VARIABLES part, rec_ack, lru_acks, written, out, base, dist

acks == <<rec_ack, lru_acks, written, out>>
pids == <<base, dist>>

-----------------------------------------------------------------------------
(* The two lists behind the acknowledgements of a packet: ids still to be  *)
(* acknowledged (rec_ack) and ids acknowledged most recently (lru_acks),   *)
(* which are repeated while a packet has room for them.                    *)

Room == 2          \* most ids a packet has room for
Ids == {0, 1, 2}   \* packet ids received
MaxWritten == 5    \* bound: ids written for the first time

\* One round of the loop in copy_acks_to_mru: id goes to the front, the
\* entries before its old place move one to the right, and when it was not
\* on the list the last entry moves to a new place or falls off.
MoveToFront(s, id) ==
    LET found == {j \in 1..Len(s) : s[j] = id}
        place == IF found # {} THEN CHOOSE j \in found : TRUE
                 ELSE IF Len(s) < AckSize THEN Len(s) + 1 ELSE Len(s)
    IN  [j \in 1..(IF place > Len(s) THEN place ELSE Len(s)) |->
            IF j = 1 THEN id ELSE IF j <= place THEN s[j - 1] ELSE s[j]]

\* The loop is backward, so that the list starts in the order of ack.
copy_acks_to_mru(a, s, n) ==
    FoldLeft(MoveToFront, s, Reverse(SubSeq(a.packet_id, 1, n)))

\* The ids of the packet come from the front of the list just updated.
reliable_ack_write(a, s, max) ==
    LET m == copy_acks_to_mru(a, s, AckCount(a, max))
    IN  [ack |-> AckRest(a, max), mru |-> m,
         ids |-> SubSeq(m, 1, IF Len(m) < max THEN Len(m) ELSE max)]

AcksInit ==
    /\ rec_ack = EmptyAck
    /\ lru_acks = <<>>
    /\ written = <<>>     \* history: ids written for the first time, in order
    /\ out = [room |-> 0, taken |-> {}, before |-> {}, ids |-> {}]   \* history: the last packet

AckId(id) ==
    /\ rec_ack' = reliable_ack_acknowledge_packet_id(rec_ack, id)
    /\ UNCHANGED <<lru_acks, written, out>>

AckWrite(max) ==
    LET w == reliable_ack_write(rec_ack, lru_acks, max)
        n == AckCount(rec_ack, max)
    IN  /\ Len(written) + n <= MaxWritten
        /\ rec_ack' = w.ack
        /\ lru_acks' = w.mru
        /\ written' = written \o Reverse(SubSeq(rec_ack.packet_id, 1, n))
        /\ out' = [room |-> max, taken |-> AckTaken(rec_ack, max), before |-> ToSet(lru_acks), ids |-> ToSet(w.ids)]

AcksNext == (\E max \in 1..Room : AckWrite(max)) \/ \E id \in Ids : AckId(id)

\* Position of the last time id was written.
LastWrite(id) == Max({i \in 1..Len(written) : written[i] = id})

\* lru_acks holds the ids acknowledged last, the latest first, each once.
MruIsMostRecent ==
    /\ \A i, j \in 1..Len(lru_acks) : i < j => LastWrite(lru_acks[i]) > LastWrite(lru_acks[j])
    /\ Len(lru_acks) = IF Cardinality(ToSet(written)) < AckSize
                       THEN Cardinality(ToSet(written)) ELSE AckSize
    /\ \A id \in ToSet(written) \ ToSet(lru_acks) : \A i \in 1..Len(lru_acks) :
          LastWrite(id) < LastWrite(lru_acks[i])

\* The lists do what ReliableChannel assumes of the sets: every id taken off
\* rec_ack is in the packet, the others are earlier ones, and no room is wasted.
ListsImplementSets ==
    out.ids # {} =>
        /\ ToSet(lru_acks) \in MruAfter(out.before, out.taken)
        /\ out.ids \in AcksWritten(ToSet(lru_acks), out.taken, out.room)

-----------------------------------------------------------------------------
(* Packet-id arithmetic across the wraparound: a window base that moves    *)
(* through the whole id space, and an id that is dist away from it.        *)

Extent == 3     \* size of the window
Near == 6       \* how far from the base an id can be

Test == IF dist >= 0 THEN add_pid(base, dist) ELSE subtract_pid(base, -dist)

PidsInit == base \in 0..(2 * Half - 1) /\ dist = -Near

Advance == base' = add_pid(base, 1) /\ UNCHANGED dist

OtherId == dist' = (IF dist = Near THEN -Near ELSE dist + 1) /\ UNCHANGED base

PidsNext == Advance \/ OtherId

\* An id beyond the wraparound when the window ends before it: the comparison
\* of reliable_pid_in_range2 is then a plain one, and takes it for an old one.
PastTheWrap == base + Extent < 2 * Half /\ base + dist >= 2 * Half

\* tls_pre_decrypt never refuses a packet of the window, never stores one from
\* before it, also while the window wraps, nor one from beyond it unless that
\* one is past the wraparound and the window is not.
WindowIsStored ==
    /\ dist \in 0..(Extent - 1) => reliable_pid_in_range2(Test, base, Extent)
    /\ dist \in 0..(Extent - 1) => ~reliable_pid_min(Test, base)
    /\ dist < 0 => reliable_pid_min(Test, base)
    /\ dist >= Extent /\ ~PastTheWrap => ~reliable_pid_in_range2(Test, base, Extent)

-----------------------------------------------------------------------------
\* Packet contents are compared for equality only.
DataSymmetry == Permutations(Data)

MCInit ==
    /\ Init /\ AcksInit
    /\ \/ part \in {"channel", "acks"} /\ base = 0 /\ dist = 0
       \/ part = "pids" /\ PidsInit

MCNext ==
    /\ UNCHANGED part
    /\ \/ part = "channel" /\ Next /\ UNCHANGED <<acks, pids>>
       \/ part = "acks" /\ AcksNext /\ UNCHANGED <<vars, pids>>
       \/ part = "pids" /\ PidsNext /\ UNCHANGED <<vars, acks>>

MCSpec == MCInit /\ [][MCNext]_<<vars, acks, pids, part>>

-----------------------------------------------------------------------------
\* reliable_ack_write puts every id it takes off rec_ack into the packet,
\* fills it up with earlier ones, and wastes no room; lru_acks holds the ids
\* acknowledged last, the latest first, each once (copy_acks_to_mru).
\* reliable_pid_in_range2 and reliable_pid_min never make tls_pre_decrypt
\* refuse a packet of the window nor store one from before it, also while
\* the window wraps around, nor store one from beyond it, except past the
\* wraparound that the window itself has not reached.
ListsAndWindowAreExact == ListsImplementSets /\ MruIsMostRecent /\ WindowIsStored
=============================================================================
