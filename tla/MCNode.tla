------------------------------- MODULE MCNode -------------------------------
(* A node whose user creates two subscribers of one topic in turn, one of    *)
(* another topic, and publishers on different topics.                        *)
EXTENDS Node

CONSTANTS t1, t2, s1, s2, s3, p1, p2

MCTopicOf == [s \in Subscribers |-> IF s = s3 THEN t2 ELSE t1]
=============================================================================
