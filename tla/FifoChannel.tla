----------------------------- MODULE FifoChannel -----------------------------
(***************************************************************************)
(* What the reliability layer promises to the TLS engine above it: in each *)
(* direction a channel that neither loses, repeats, reorders nor invents a *)
(* packet.                                                                 *)
(***************************************************************************)
EXTENDS Integers, Sequences

CONSTANTS Peer, Data

VARIABLES
    sent,       \* sent[p]: what p has handed to the channel
    delivered   \* delivered[p]: what the channel has handed to p

vars == <<sent, delivered>>

Init ==
    /\ sent = [p \in Peer |-> <<>>]
    /\ delivered = [p \in Peer |-> <<>>]

Send(p) ==
    /\ \E d \in Data : sent' = [sent EXCEPT ![p] = Append(@, d)]
    /\ UNCHANGED delivered

\* q takes the next packet p has sent.
Deliver(p, q) ==
    /\ Len(delivered[q]) < Len(sent[p])
    /\ delivered' = [delivered EXCEPT ![q] = Append(@, sent[p][Len(@) + 1])]
    /\ UNCHANGED sent

Next == \E p \in Peer : Send(p) \/ \E q \in Peer \ {p} : Deliver(p, q)

Spec == Init /\ [][Next]_vars
=============================================================================
