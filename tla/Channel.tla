------------------------------ MODULE Channel ------------------------------
(***************************************************************************)
(* What one direction of a connection promises to its users: messages      *)
(* arrive one by one, complete, in the order in which they were sent, and  *)
(* all of them unless the connection breaks.  BsonSocket and BsonRPCSocket *)
(* implement it (Framing, RpcSocket).                                      *)
(***************************************************************************)
EXTENDS Naturals, Sequences

CONSTANT Message

VARIABLES
    sent,       \* messages that the sender has handed over
    received,   \* messages that the receiver has taken out
    status      \* open; ended: the receiver left it empty; broken

channelVars == <<sent, received, status>>

Init == sent = <<>> /\ received = <<>> /\ status = "open"

Send(m) ==
    /\ status = "open"
    /\ sent' = Append(sent, m)
    /\ UNCHANGED <<received, status>>

\* The connection may break on the way.
Deliver ==
    /\ status # "ended" /\ Len(received) < Len(sent)
    /\ received' = Append(received, sent[Len(received) + 1])
    /\ status' \in {status, "broken"}
    /\ UNCHANGED sent

\* Nobody leaves a message behind, unless the connection breaks.
End ==
    /\ status # "ended" /\ received = sent
    /\ status' = "ended"
    /\ UNCHANGED <<sent, received>>

Break ==
    /\ status = "open"
    /\ status' = "broken"
    /\ UNCHANGED <<sent, received>>

Next == (\E m \in Message : Send(m)) \/ Deliver \/ End \/ Break

SafeSpec == Init /\ [][Next]_channelVars

Spec == SafeSpec /\ WF_channelVars(status = "open" /\ Deliver)
=============================================================================
