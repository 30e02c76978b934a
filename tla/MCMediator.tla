----------------------------- MODULE MCMediator -----------------------------
(* Two nodes and one topic: two publishers in turn on one node, subscribers *)
(* on both nodes.                                                           *)
EXTENDS Mediator

CONSTANTS n1, n2, t1, p1, p2, s1, s2

MCNodeOf == [o \in Objects |-> IF o = s2 THEN n2 ELSE n1]
MCTopicOf == [o \in Objects |-> t1]
=============================================================================
