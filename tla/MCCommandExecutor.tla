-------------------------- MODULE MCCommandExecutor --------------------------
(***************************************************************************)
(* Instances of CommandExecutor: two commands, the second of which changes    *)
(* the page or competes with the first for the name of a download.            *)
(***************************************************************************)
EXTENDS CommandExecutor

CONSTANTS c1, c2

TwoCommands == {c1, c2}

ReaderAndWriter ==
    [c \in Commands |-> IF c = c1 THEN {"inspect", "snapshot", "download"}
                       ELSE {"navigate", "submit", "download"}]
=============================================================================
