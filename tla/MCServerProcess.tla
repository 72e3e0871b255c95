---- MODULE MCServerProcess ----
(* A server with two RPCs and two workers of ServerProcess for TLC. *)
EXTENDS ServerProcess
CONSTANTS p1, p2, server, w1, w2
MCMaxStarts == [p \in Processes |-> IF p = w2 THEN 1 ELSE 2]
====
