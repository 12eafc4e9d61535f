--------------------------- MODULE CommandJournal ---------------------------
(***************************************************************************)
(* The command journal (crates/workflow-journal/src/lib.rs): a file of JSON   *)
(* lines that records the phases a command goes through, and the archives a   *)
(* damaged file is set aside to.                                              *)
(*                                                                           *)
(* A journal is a value, and the operations are functions of it.  Its lines   *)
(* are kept per command, as the writer's index keeps them; the order of lines *)
(* of different commands decides nothing but which line is the last one.      *)
(* Sequence numbers and bytes that change in place are left out.              *)
(***************************************************************************)
EXTENDS Naturals, Sequences, FiniteSets

CONSTANTS
    Commands,       \* command ids
    None            \* no command, no outcome

CommandPhase == {"accepted", "prepared", "executing", "resultPrepared",
                 "verifying", "completed", "failed"}

CommandOutcome == {"completed", "failed", "retryable", "reconcile", "denied"}

JournalRecord == [phase : CommandPhase, outcome : CommandOutcome \cup {None}]

(* lines: the whole lines of the file; unsynced: the command whose line, the   *)
(* last of the file, may not be on the disk yet; torn: a line without its      *)
(* newline at the end, "garbage" or still legible enough to name its command;  *)
(* archived: the commands that the archives name; damaged: there is one.       *)
EmptyJournal == [lines |-> [c \in Commands |-> <<>>], unsynced |-> None,
                 torn |-> None, archived |-> {}, damaged |-> FALSE]

Journals == [lines : [Commands -> Seq(JournalRecord)], unsynced : Commands \cup {None},
             torn : Commands \cup {None, "garbage"}, archived : SUBSET Commands,
             damaged : BOOLEAN]

\* Archives the file: no repair is inferred from its readable prefix.
archive_forgets(j) ==
    [EmptyJournal EXCEPT !.archived = j.archived, !.damaged = TRUE]

archive_damaged_journal(j) ==
    [EmptyJournal EXCEPT
        !.archived = j.archived \cup {c \in Commands : j.lines[c] # <<>>}
                                \cup ({j.torn} \cap Commands),
        !.damaged = TRUE]

\* refresh looks at the file before every operation.  A length that is not the
\* one the writer expects makes it open the file again: a torn file is archived,
\* a whole one is synced.
refresh(j) ==
    IF j.torn # None THEN archive_damaged_journal(j) ELSE [j EXCEPT !.unsynced = None]

Written(j, c, r) == [j EXCEPT !.lines[c] = Append(@, r)]

\* What an append can leave behind when it succeeds ...
Appended(j, c, r) == IF c \in refresh(j).archived THEN {} ELSE {Written(refresh(j), c, r)}

\* ... when it refuses a command whose history is in an archive ...
Refused(j, c) == IF c \in refresh(j).archived THEN {refresh(j)} ELSE {}

\* ... and when the write, the flush or the sync fails: nothing, a torn line or a
\* whole line that may not be on the disk.
Botched(j, c, r) ==
    IF c \in refresh(j).archived THEN {}
    ELSE {j, refresh(j)}
         \cup {[refresh(j) EXCEPT !.torn = t] : t \in {"garbage", c}}
         \cup {[Written(refresh(j), c, r) EXCEPT !.unsynced = c]}

\* The power goes: a line that was not synced may be whole, torn or gone.
AfterPowerLoss(j) ==
    {j}
    \cup {[j EXCEPT !.lines[j.unsynced] = SubSeq(@, 1, Len(@) - 1), !.unsynced = None, !.torn = t]
             : t \in IF j.unsynced = None THEN {} ELSE {None, "garbage", j.unsynced}}
    \cup (IF j.torn # None THEN {[j EXCEPT !.torn = None]} ELSE {})

\* history reads a command's records, from the file alone when no archive names
\* the command, and otherwise flags the archives' damage.
IsDamaged(j, c) == j.damaged /\ (c \in j.archived \/ j.lines[c] = <<>>)

HasOutcome(j, c) == \E i \in DOMAIN j.lines[c] : j.lines[c][i].outcome # None

HasPhase(j, c, p) == \E i \in DOMAIN j.lines[c] : j.lines[c][i].phase = p

LatestOutcome(j, c) ==
    LET rs == j.lines[c]
        n == CHOOSE i \in DOMAIN rs :
                 /\ rs[i].outcome # None
                 /\ \A k \in DOMAIN rs : k > i => rs[k].outcome = None
    IN  rs[n].outcome
=============================================================================
