--------------------------- MODULE MCConversation ---------------------------
(* Conversation for TLC: requests are interchangeable. *)
EXTENDS Conversation, TLC

Interchangeable == Permutations(Calls)
=============================================================================
