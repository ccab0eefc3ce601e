------------------------------ MODULE MCRemote ------------------------------
EXTENDS Remote

\* A page that only sends RELOAD, and a client that is no page: it asks for a log and
\* then sends a line that is too long.
Dialogues == [settings |-> <<<<"RELOAD">>>>, tool |-> <<<<"LOG">>, <<"word", "word">>>>]
OneMessage == [cmd \in {"RELOAD", "LOG", "CLOSE"} |-> IF cmd = "LOG" THEN 1 ELSE 0]
=============================================================================
