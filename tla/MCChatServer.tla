---------------------------- MODULE MCChatServer ----------------------------
(* An instance of ChatServer for TLC: one client talks, the others listen. *)
EXTENDS ChatServer, TLC

CONSTANTS c1, c2, c3

MCLines == [c \in Clients |-> IF c = c1 THEN 2 ELSE 0]
=============================================================================
