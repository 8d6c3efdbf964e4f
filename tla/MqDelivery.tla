------------------------------ MODULE MqDelivery ------------------------------
(***************************************************************************)
(* What the message queue server promises of requests, with no maps, locks,*)
(* channels or connections: it takes requests from its clients one at a    *)
(* time, keeps those for one topic in the order in which it accepted them, *)
(* no more than there is room for, and gives each of them once to a client *)
(* that has joined the topic.  A client joins one topic, and only once.    *)
(***************************************************************************)
EXTENDS Naturals, Sequences

CONSTANTS Clients, Topics, Nobody, Room

VARIABLES topic,   \* what each client has joined, or Nobody
          hand,    \* the topic of the request taken from each client, or Nobody
          line,    \* the requests accepted for each topic, the oldest first
          sent,    \* number of requests of each client for each topic
          written  \* number of the last one of these that was given out

vars == <<topic, hand, line, sent, written>>

Init == /\ topic \in [Clients -> Topics \cup {Nobody}]
        /\ hand = [c \in Clients |-> Nobody]
        /\ line = [t \in Topics |-> <<>>]
        /\ sent = [c \in Clients |-> [t \in Topics |-> 0]]
        /\ written = [c \in Clients |-> [t \in Topics |-> 0]]

Join(c, t) == /\ topic[c] = Nobody
              /\ topic' = [topic EXCEPT ![c] = t]
              /\ UNCHANGED <<hand, line, sent, written>>

Take(c, t) == /\ hand[c] = Nobody
              /\ hand' = [hand EXCEPT ![c] = t]
              /\ sent' = [sent EXCEPT ![c][t] = @ + 1]
              /\ UNCHANGED <<topic, line, written>>

Accept(c, t) == /\ hand[c] = t /\ Len(line[t]) < Room
                /\ line' = [line EXCEPT ![t] = Append(@, <<c, sent[c][t]>>)]
                /\ hand' = [hand EXCEPT ![c] = Nobody]
                /\ UNCHANGED <<topic, sent, written>>

Give(t, d) == /\ line[t] # <<>> /\ topic[d] = t
              /\ line' = [line EXCEPT ![t] = Tail(@)]
              /\ LET m == Head(line[t]) IN written' = [written EXCEPT ![m[1]][t] = m[2]]
              /\ UNCHANGED <<topic, hand, sent>>

Next == \E c \in Clients, t \in Topics :
           Join(c, t) \/ Take(c, t) \/ Accept(c, t) \/ Give(t, c)

Spec == Init /\ [][Next]_vars
===============================================================================
