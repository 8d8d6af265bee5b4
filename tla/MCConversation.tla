--------------------------- MODULE MCConversation ---------------------------
(* Instance of Conversation for TLC: two requests, each repeated until it has *)
(* made a run, and two messages.                                              *)
EXTENDS Conversation
=============================================================================
