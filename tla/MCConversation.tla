--------------------------- MODULE MCConversation ---------------------------
(* Questions asked one after the other or too fast; a line of the system   *)
(* prompt that comes in two pieces, or whole in what nobody looks at.      *)
EXTENDS Conversation

CONSTANTS half1, half2

MCSecret == <<half1, half2>>
MCRaw == {MCSecret}
=============================================================================
