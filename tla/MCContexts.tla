----------------------------- MODULE MCContexts -----------------------------
(* An instance of Contexts for TLC. *)
EXTENDS Contexts
CONSTANTS ping, pong, pang
MCCoroutines == <<ping, pong, pang>>
=============================================================================
