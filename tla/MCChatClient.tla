----------------------------- MODULE MCChatClient -----------------------------
(* The chat client on a small instance. *)
EXTENDS ChatClient
=============================================================================
