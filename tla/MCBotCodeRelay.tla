--------------------------- MODULE MCBotCodeRelay ---------------------------
(* One request of a Bot, launched or adopted, and an instruction to its task.*)
EXTENDS BotCodeRelay

CONSTANTS own, instruction

MCTarget == [i \in {instruction} |-> own]
=============================================================================
