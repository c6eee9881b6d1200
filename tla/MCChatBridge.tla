---- MODULE MCChatBridge ----
(* Small instances of ChatBridge. *)
EXTENDS ChatBridge, TLC

\* No action and no safety property tells connections apart.
Symmetry == Permutations(Sockets)
====
