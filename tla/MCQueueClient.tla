---- MODULE MCQueueClient ----
(* Two publishes of QueueClient for TLC. *)
EXTENDS QueueClient
CONSTANTS p1, p2
====
