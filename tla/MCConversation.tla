--------------------------- MODULE MCConversation ---------------------------
(* Small instances of Conversation.                                         *)
EXTENDS Conversation

\* The messages are interchangeable.
Symmetry == Permutations(Prompts)
=============================================================================
