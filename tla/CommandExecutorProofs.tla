------------------------ MODULE CommandExecutorProofs ------------------------
(***************************************************************************)
(* What holds of every command that runs, is dropped, loses its transport or  *)
(* dies with the process, for any number of commands, submissions, faults and *)
(* crashes: no mutation is replayed, no observation outlives an answered      *)
(* change, and the journal and the saved files tell the truth.                *)
(***************************************************************************)
EXTENDS CommandExecutor, Integers, TLAPS

-----------------------------------------------------------------------------
(* The inductive invariant.                                                  *)

\* An archive names only commands whose lines it took, and the line that may not be
\* on the disk is there.
JournalInv(j) ==
    /\ j \in Journals
    /\ j.archived # {} => j.damaged
    /\ \A c \in j.archived : j.lines[c] = <<>>
    /\ j.unsynced # None => j.lines[j.unsynced] # <<>>

\* The i-th line of c can no longer be lost.
Synced(j, c, i) == i < Len(j.lines[c]) \/ j.unsynced # c

\* Steps that come before the page is asked to act.
Early == {"accepted", "prepared", "executing", "lease", "attempt"}

Mutates(c) == run[c].kind # None /\ class(run[c].kind) # "Replayable"

\* Where a command can be, and with what.
RunInv(c) ==
    /\ run[c].at = "idle" <=> run[c].kind = None
    /\ run[c].at = "idle" => effects[c] = 0 /\ journal.lines[c] = <<>>
    /\ run[c].at = "recover" => run[c].error \in Errors
    /\ run[c].at = "failed" => run[c].outcome \in CommandOutcome \ {"completed"}
    /\ run[c].at = "resultPrepared" => run[c].kind \in {"inspect", "download"}
    /\ run[c].kind = "download" => run[c].at \notin {"acted", "recover"} /\ effects[c] = 0
    /\ run[c].did > 0 => Changes(run[c].kind)
    /\ run[c].did <= page.dom

\* The acts of a mutation are counted by its submissions.
CountInv(c) ==
    Mutates(c) => /\ effects[c] <= tries[c]
                  /\ run[c].at \in Early => effects[c] < tries[c]

\* Until the failure or the success of a change is processed its command is not
\* answered; from then on no observation from before it is current.
ForgetInv(c) ==
    (run[c].at \notin {"attempt", "acted", "recover"} /\ run[c].did > 0
     /\ page.observed = page.generation)
    => page.recorded >= run[c].did

CompletedLast(j, c) ==
    \/ c \in j.archived
    \/ /\ j.lines[c] # <<>>
       /\ j.lines[c][Len(j.lines[c])].outcome = "completed"
       /\ j.unsynced # c

\* A completion that was reported is the last thing the journal says of c.
AnswerInv(c) ==
    run[c].outcome = "completed" =>
        /\ run[c].at = "done"
        /\ CompletedLast(journal, c)

Saved(c) == saved.by = c /\ saved.synced

OutcomeKept(j, c) ==
    \/ c \in j.archived
    \/ \E i \in DOMAIN j.lines[c] : j.lines[c][i].outcome # None /\ Synced(j, c, i)

\* What is on the disk for a download at each step.
DownloadInv(c) ==
    /\ staging[c] = "published" => Saved(c)
    /\ staging[c] = "cleaned" => Saved(c) \/ OutcomeKept(journal, c)
    /\ run[c].kind = "download" =>
          /\ run[c].at \in {"resultPrepared", "publish"} => staging[c] = "staged"
          /\ run[c].at \in {"commit", "verifying", "verify", "completed"} => Saved(c)
          /\ HasPhase(journal, c, "completed") => Saved(c)
          /\ HasPhase(journal, c, "resultPrepared") => staging[c] # "none"

\* The journal says that c was executing, and nothing after it but verifying or an
\* outcome.
Trail(j, c) ==
    \/ c \in j.archived
    \/ \E i \in DOMAIN j.lines[c] :
        /\ j.lines[c][i].phase = "executing" /\ Synced(j, c, i)
        /\ \A k \in DOMAIN j.lines[c] :
                k > i => j.lines[c][k].phase = "verifying" \/ j.lines[c][k].outcome # None

\* Steps from the lease to the answer of the browser.
Executing == {"lease", "attempt", "acted", "recover"}

TrailInv(c) ==
    (Mutates(c) /\ (run[c].at \in Executing \/ effects[c] > 0)) => Trail(journal, c)

CommandInv(c) ==
    RunInv(c) /\ CountInv(c) /\ ForgetInv(c) /\ AnswerInv(c) /\ DownloadInv(c)

ExecutorInv == TypeOK /\ JournalInv(journal) /\ \A c \in Commands : CommandInv(c)

-----------------------------------------------------------------------------
(* Lines of the journal.                                                     *)

\* t is s and one more line.
OneMore(s, t) == Len(t) = Len(s) + 1 /\ \A i \in 1..Len(s) : t[i] = s[i]

\* What an operation that takes j to k can do with the lines of d: keep them, ...
Kept(j, k, d) ==
    /\ k.lines[d] = j.lines[d]
    /\ d \in k.archived <=> d \in j.archived
    /\ k.unsynced = d => j.unsynced = d
    /\ j.damaged => k.damaged

\* ... set them aside in an archive, ...
SetAside(j, k, d) ==
    /\ k.lines[d] = <<>> /\ k.unsynced # d /\ k.damaged
    /\ j.lines[d] # <<>> \/ d \in j.archived => d \in k.archived

\* ... lose the last one, ...
Lost(j, k, d) ==
    /\ j.unsynced = d /\ OneMore(k.lines[d], j.lines[d])
    /\ k.unsynced # d /\ d \notin j.archived /\ d \notin k.archived
    /\ j.damaged => k.damaged

\* ... and append r.
Grown(j, k, d, r) ==
    /\ OneMore(j.lines[d], k.lines[d]) /\ k.lines[d][Len(j.lines[d]) + 1] = r
    /\ d \notin j.archived /\ d \notin k.archived

NotGrown(j, k, d) == Kept(j, k, d) \/ SetAside(j, k, d) \/ Lost(j, k, d)

\* An operation on the journal for command c leaves a journal, and appends to no
\* other command's lines.
JournalStep(j, k, c, r) ==
    /\ JournalInv(k)
    /\ \A d \in Commands : NotGrown(j, k, d) \/ (d = c /\ Grown(j, k, d, r))

\* A sequence is determined by the one that has one more line.
LEMMA OneLess ==
    ASSUME NEW S, NEW s \in Seq(S), NEW u \in Seq(S), NEW t,
           OneMore(s, t), OneMore(u, t)
    PROVE  s = u
  <1>1. Len(s) = Len(u) BY DEF OneMore
  <1>2. \A i \in 1..Len(s) : s[i] = u[i] BY <1>1, Zenon DEF OneMore
  <1> QED BY <1>1, <1>2

\* Append adds one line to a command's.
LEMMA AppendIsOneMore ==
    ASSUME NEW S, NEW s \in Seq(S), NEW r \in S
    PROVE  /\ Append(s, r) \in Seq(S) /\ Append(s, r) # <<>>
           /\ OneMore(s, Append(s, r)) /\ Append(s, r)[Len(s) + 1] = r
  BY DEF OneMore

\* The power loss takes one line off.
LEMMA FrontIsOneLess ==
    ASSUME NEW S, NEW s \in Seq(S), s # <<>>
    PROVE  LET t == SubSeq(s, 1, Len(s) - 1) IN t \in Seq(S) /\ OneMore(t, s)
  <1> DEFINE t == SubSeq(s, 1, Len(s) - 1)
  <1>1. Len(s) \in Nat /\ Len(s) > 0 OBVIOUS
  <1>2. \A i \in 1..(Len(s) - 1) : s[i] \in S BY <1>1
  <1>3. /\ t \in Seq(S)
        /\ Len(t) = IF 1 <= Len(s) - 1 THEN (Len(s) - 1) - 1 + 1 ELSE 0
        /\ \A i \in 1..((Len(s) - 1) - 1 + 1) : t[i] = s[1 + i - 1]
    BY <1>1, <1>2, Len(s) - 1 \in Int, 1 \in Int
  <1> HIDE DEF t
  <1>l. Len(t) = IF 1 <= Len(s) - 1 THEN (Len(s) - 1) - 1 + 1 ELSE 0 BY <1>3, Zenon
  <1>4. Len(t) = Len(s) - 1
    <2> DEFINE n == Len(s)
               m == Len(t)
    <2>1. n \in Nat /\ n > 0 /\ m = IF 1 <= n - 1 THEN (n - 1) - 1 + 1 ELSE 0 BY <1>1, <1>l, Zenon
    <2> HIDE DEF n, m
    <2>2. m = n - 1 BY <2>1
    <2> QED BY <2>2, Zenon DEF n, m
  <1>5. \A i \in 1..Len(t) : s[i] = t[i] BY <1>1, <1>3, <1>4
  <1>6. t \in Seq(S) /\ OneMore(t, s) BY <1>1, <1>3, <1>4, <1>5 DEF OneMore
  <1> QED BY <1>6, Zenon DEF t

\* refresh keeps the lines of every command or archives them all; after it nothing
\* is torn or unsynced.
LEMMA RefreshStep ==
    ASSUME NEW j, JournalInv(j)
    PROVE  /\ JournalInv(refresh(j)) /\ refresh(j).unsynced = None /\ refresh(j).torn = None
           /\ \A d \in Commands : Kept(j, refresh(j), d) \/ SetAside(j, refresh(j), d)
  <1>0. j \in Journals BY Zenon DEF JournalInv
  <1>1. CASE j.torn = None
    <2>1. refresh(j) = [j EXCEPT !.unsynced = None] BY <1>1, Zenon DEF refresh
    <2>2. refresh(j) \in Journals BY <1>0, <2>1, Zenon DEF Journals
    <2>3. /\ refresh(j).lines = j.lines /\ refresh(j).unsynced = None
          /\ refresh(j).torn = None /\ refresh(j).archived = j.archived
          /\ refresh(j).damaged = j.damaged
      BY <1>0, <1>1, <2>1, Zenon DEF Journals
    <2>4. JournalInv(refresh(j)) BY <2>2, <2>3, Zenon DEF JournalInv
    <2>5. \A d \in Commands : Kept(j, refresh(j), d)
      BY <2>3, ExecutorAssumption, Zenon DEF Kept
    <2> QED BY <2>3, <2>4, <2>5, Zenon
  <1>2. CASE j.torn # None
    <2> DEFINE A == j.archived \cup {c \in Commands : j.lines[c] # <<>>} \cup ({j.torn} \cap Commands)
    <2>1. refresh(j) = [lines |-> [c \in Commands |-> <<>>], unsynced |-> None,
                        torn |-> None, archived |-> A, damaged |-> TRUE]
      BY <1>2, Zenon DEF refresh, archive_damaged_journal, EmptyJournal
    <2>2. A \subseteq Commands BY <1>0, Zenon DEF Journals
    <2>h. j.archived \subseteq A /\ (\A d \in Commands : j.lines[d] # <<>> => d \in A)
      BY Zenon
    <2> HIDE DEF A
    <2>3. /\ refresh(j).lines = [c \in Commands |-> <<>>] /\ refresh(j).unsynced = None
          /\ refresh(j).torn = None /\ refresh(j).archived = A
          /\ refresh(j).damaged = TRUE
      BY <2>1
    <2>4. <<>> \in Seq(JournalRecord) OBVIOUS
    <2>5. refresh(j) \in Journals BY <2>1, <2>2, <2>4 DEF Journals
    <2>6. JournalInv(refresh(j)) BY <2>2, <2>3, <2>5, Zenon DEF JournalInv
    <2>7. \A d \in Commands : SetAside(j, refresh(j), d)
      BY <2>3, <2>h, ExecutorAssumption, Zenon DEF SetAside
    <2> QED BY <2>3, <2>6, <2>7, Zenon
  <1> QED BY <1>1, <1>2, Zenon

\* Written appends r to the lines of c and touches no others.
LEMMA WrittenStep ==
    ASSUME NEW j, JournalInv(j), NEW c \in Commands, NEW r \in JournalRecord, c \notin j.archived
    PROVE  /\ Written(j, c, r) \in Journals /\ JournalInv(Written(j, c, r))
           /\ Grown(j, Written(j, c, r), c, r) /\ Written(j, c, r).lines[c] # <<>>
           /\ \A d \in Commands \ {c} : Written(j, c, r).lines[d] = j.lines[d]
           /\ Written(j, c, r).archived = j.archived /\ Written(j, c, r).damaged = j.damaged
           /\ Written(j, c, r).unsynced = j.unsynced /\ Written(j, c, r).torn = j.torn
  <1> DEFINE k == Written(j, c, r)
  <1>1. j \in Journals /\ j.lines \in [Commands -> Seq(JournalRecord)]
    BY Zenon DEF JournalInv, Journals
  <1>2. j.lines[c] \in Seq(JournalRecord) BY <1>1, Zenon
  <1>3. /\ Append(j.lines[c], r) \in Seq(JournalRecord) /\ Append(j.lines[c], r) # <<>>
        /\ OneMore(j.lines[c], Append(j.lines[c], r))
        /\ Append(j.lines[c], r)[Len(j.lines[c]) + 1] = r
    BY <1>2, AppendIsOneMore
  <1> DEFINE t == Append(j.lines[c], r)
  <1>4. k = [j EXCEPT !.lines = [j.lines EXCEPT ![c] = t]] BY Zenon DEF Written
  <1> HIDE DEF t, k
  <1>5. [j.lines EXCEPT ![c] = t] \in [Commands -> Seq(JournalRecord)]
    BY <1>1, <1>3, Zenon DEF t
  <1>6. k \in Journals BY <1>1, <1>4, <1>5, Zenon DEF Journals
  <1>7. /\ k.lines = [j.lines EXCEPT ![c] = t] /\ k.archived = j.archived
        /\ k.damaged = j.damaged /\ k.unsynced = j.unsynced /\ k.torn = j.torn
    BY <1>1, <1>4, Zenon DEF Journals
  <1>8. k.lines[c] = t /\ t # <<>> BY <1>1, <1>3, <1>7, Zenon DEF t
  <1>9. \A d \in Commands \ {c} : k.lines[d] = j.lines[d] BY <1>1, <1>7, Zenon
  <1>10. JournalInv(k)
    <2>1. \A d \in k.archived : k.lines[d] = <<>>
      BY <1>1, <1>7, <1>9 DEF JournalInv, Journals
    <2>2. j.unsynced \in Commands \cup {None} BY <1>1, Zenon DEF Journals
    <2>3. k.unsynced # None => k.lines[k.unsynced] # <<>>
      BY <1>7, <1>8, <1>9, <2>2 DEF JournalInv
    <2> QED BY <1>6, <1>7, <2>1, <2>3, Zenon DEF JournalInv
  <1>11. Grown(j, k, c, r) BY <1>3, <1>7, <1>8, Zenon DEF Grown, t
  <1> QED BY <1>6, <1>7, <1>8, <1>9, <1>10, <1>11, Zenon DEF k

\* An append that grew the lines after a refresh grew the lines it found.
LEMMA GrownAfterRefresh ==
    ASSUME NEW j, NEW k, NEW c, NEW r,
           Kept(j, refresh(j), c) \/ SetAside(j, refresh(j), c),
           c \notin refresh(j).archived, Grown(refresh(j), k, c, r)
    PROVE  Grown(j, k, c, r)
  <1>1. refresh(j).lines[c] = j.lines[c] /\ c \notin j.archived
    BY Zenon DEF Kept, SetAside
  <1> QED BY <1>1, Zenon DEF Grown

\* A successful append.
LEMMA AppendedStep ==
    ASSUME NEW j, JournalInv(j), NEW c \in Commands, NEW r \in JournalRecord,
           NEW k \in Appended(j, c, r)
    PROVE  /\ JournalStep(j, k, c, r) /\ Grown(j, k, c, r) /\ k.unsynced = None
  <1> DEFINE q == refresh(j)
  <1>1. /\ JournalInv(q) /\ q.unsynced = None /\ q.torn = None
        /\ \A d \in Commands : Kept(j, q, d) \/ SetAside(j, q, d)
    BY RefreshStep, Zenon
  <1>2. c \notin q.archived /\ k = Written(q, c, r) BY Zenon DEF Appended
  <1> HIDE DEF q
  <1>3. /\ JournalInv(k) /\ Grown(q, k, c, r)
        /\ \A d \in Commands \ {c} : k.lines[d] = q.lines[d]
        /\ k.archived = q.archived /\ k.damaged = q.damaged /\ k.unsynced = q.unsynced
    BY <1>1, <1>2, WrittenStep
  <1>4. Grown(j, k, c, r) BY <1>1, <1>2, <1>3, GrownAfterRefresh, Zenon DEF q
  <1>5. \A d \in Commands \ {c} : NotGrown(j, k, d)
    BY <1>1, <1>3, Zenon DEF NotGrown, Kept, SetAside
  <1> QED BY <1>1, <1>3, <1>4, <1>5, Zenon DEF JournalStep

\* An append that is refused.
LEMMA RefusedStep ==
    ASSUME NEW j, JournalInv(j), NEW c \in Commands, NEW r, NEW k \in Refused(j, c)
    PROVE  JournalStep(j, k, c, r) /\ \A d \in Commands : NotGrown(j, k, d)
  <1>1. k = refresh(j) BY Zenon DEF Refused
  <1> QED BY <1>1, RefreshStep, Zenon DEF JournalStep, NotGrown

\* A refresh on its own.
LEMMA RefreshIsStep ==
    ASSUME NEW j, JournalInv(j)
    PROVE  JournalInv(refresh(j)) /\ \A d \in Commands : NotGrown(j, refresh(j), d)
  BY RefreshStep, Zenon DEF NotGrown

\* A line that was written and may not be on the disk.
Unflushed(j, c, r) == [Written(refresh(j), c, r) EXCEPT !.unsynced = c]

\* What an append that failed left behind: nothing new, a torn line, or the line itself.
LEMMA BotchedCases ==
    ASSUME NEW j, JournalInv(j), NEW c \in Commands, NEW r \in JournalRecord,
           NEW k \in Botched(j, c, r)
    PROVE  /\ c \notin refresh(j).archived
           /\ \/ k = j
              \/ /\ JournalInv(k) /\ k.lines = refresh(j).lines /\ k.unsynced = None
                 /\ k.archived = refresh(j).archived /\ k.damaged = refresh(j).damaged
              \/ k = Unflushed(j, c, r)
  <1> DEFINE q == refresh(j)
  <1>1. /\ JournalInv(q) /\ q.unsynced = None /\ q \in Journals
    BY RefreshStep, Zenon DEF JournalInv
  <1>2. /\ c \notin q.archived
        /\ \/ k = j
           \/ k = q
           \/ \E t \in {"garbage", c} : k = [q EXCEPT !.torn = t]
           \/ k = [Written(q, c, r) EXCEPT !.unsynced = c]
    BY Zenon DEF Botched
  <1> HIDE DEF q
  <1>3. ASSUME NEW t \in {"garbage", c}, k = [q EXCEPT !.torn = t]
        PROVE  /\ JournalInv(k) /\ k.lines = q.lines /\ k.unsynced = None
               /\ k.archived = q.archived /\ k.damaged = q.damaged
    <2>1. k \in Journals BY <1>1, <1>3, Zenon DEF Journals
    <2>2. /\ k.lines = q.lines /\ k.unsynced = None
          /\ k.archived = q.archived /\ k.damaged = q.damaged
      BY <1>1, <1>3, Zenon DEF Journals
    <2> QED BY <1>1, <2>1, <2>2, Zenon DEF JournalInv
  <1> QED BY <1>1, <1>2, <1>3, Zenon DEF q, Unflushed

\* The line that may not be on the disk: a journal whose last line is that of c.
LEMMA UnsyncedStep ==
    ASSUME NEW j, JournalInv(j), NEW c \in Commands, NEW r \in JournalRecord, NEW k,
           c \notin refresh(j).archived, k = Unflushed(j, c, r)
    PROVE  /\ JournalStep(j, k, c, r) /\ Grown(j, k, c, r) /\ Grown(refresh(j), k, c, r)
           /\ k.unsynced = c /\ k.torn = None
           /\ k.archived = refresh(j).archived /\ k.damaged = refresh(j).damaged
           /\ \A d \in Commands \ {c} : k.lines[d] = refresh(j).lines[d]
  <1> DEFINE q == refresh(j)
             w == Written(q, c, r)
  <1>1. /\ JournalInv(q) /\ q.unsynced = None /\ q.torn = None
        /\ \A d \in Commands : Kept(j, q, d) \/ SetAside(j, q, d)
    BY RefreshStep, Zenon
  <1>2. /\ w \in Journals /\ JournalInv(w) /\ Grown(q, w, c, r) /\ w.lines[c] # <<>>
        /\ \A d \in Commands \ {c} : w.lines[d] = q.lines[d]
        /\ w.archived = q.archived /\ w.damaged = q.damaged /\ w.torn = q.torn
    BY <1>1, WrittenStep
  <1>3. k = [w EXCEPT !.unsynced = c] BY Zenon DEF Unflushed
  <1> HIDE DEF w, q
  <1>4. k \in Journals BY <1>2, <1>3, Zenon DEF Journals
  <1>5. /\ k.lines = w.lines /\ k.archived = w.archived /\ k.damaged = w.damaged
        /\ k.unsynced = c /\ k.torn = w.torn
    BY <1>2, <1>3, Zenon DEF Journals
  <1>6. JournalInv(k) BY <1>2, <1>4, <1>5 DEF JournalInv
  <1>7. Grown(q, k, c, r) BY <1>2, <1>5, Zenon DEF Grown
  <1>8. Grown(j, k, c, r) BY <1>1, <1>7, GrownAfterRefresh, Zenon DEF q
  <1>9. \A d \in Commands \ {c} : NotGrown(j, k, d)
    BY <1>1, <1>2, <1>5 DEF NotGrown, Kept, SetAside
  <1>10. JournalStep(j, k, c, r) BY <1>6, <1>8, <1>9, Zenon DEF JournalStep
  <1> QED BY <1>1, <1>2, <1>5, <1>7, <1>8, <1>10, Zenon DEF q

\* An append that fails in the write, the flush or the sync.
LEMMA BotchedStep ==
    ASSUME NEW j, JournalInv(j), NEW c \in Commands, NEW r \in JournalRecord,
           NEW k \in Botched(j, c, r)
    PROVE  JournalStep(j, k, c, r)
  <1>1. CASE k = j BY <1>1, Zenon DEF JournalStep, NotGrown, Kept
  <1>2. CASE /\ JournalInv(k) /\ k.lines = refresh(j).lines /\ k.unsynced = None
             /\ k.archived = refresh(j).archived /\ k.damaged = refresh(j).damaged
    <2>1. \A d \in Commands : Kept(j, refresh(j), d) \/ SetAside(j, refresh(j), d)
      BY RefreshStep, Zenon
    <2>2. \A d \in Commands : Kept(j, k, d) \/ SetAside(j, k, d)
      BY <1>2, <2>1, ExecutorAssumption, Zenon DEF Kept, SetAside
    <2> QED BY <1>2, <2>2, Zenon DEF JournalStep, NotGrown
  <1>3. CASE k = Unflushed(j, c, r)
    BY <1>3, BotchedCases, UnsyncedStep, Zenon
  <1> QED BY <1>1, <1>2, <1>3, BotchedCases

\* The power loss loses at most the last line of the command it was written for.
LEMMA PowerLossStep ==
    ASSUME NEW j, JournalInv(j), NEW k \in AfterPowerLoss(j)
    PROVE  JournalInv(k) /\ \A d \in Commands : Kept(j, k, d) \/ Lost(j, k, d)
  <1>0. j \in Journals BY Zenon DEF JournalInv
  <1>1. \/ k = j
        \/ \E t \in IF j.unsynced = None THEN {} ELSE {None, "garbage", j.unsynced} :
              k = [j EXCEPT !.lines[j.unsynced] = SubSeq(@, 1, Len(@) - 1),
                            !.unsynced = None, !.torn = t]
        \/ k = [j EXCEPT !.torn = None]
    BY Zenon DEF AfterPowerLoss
  <1>2. CASE k = j BY <1>2, Zenon DEF Kept
  <1>3. CASE k = [j EXCEPT !.torn = None]
    <2>1. k \in Journals BY <1>0, <1>3, Zenon DEF Journals
    <2>2. /\ k.lines = j.lines /\ k.unsynced = j.unsynced
          /\ k.archived = j.archived /\ k.damaged = j.damaged
      BY <1>0, <1>3, Zenon DEF Journals
    <2> QED BY <2>1, <2>2, Zenon DEF JournalInv, Kept
  <1>4. ASSUME NEW t \in {None, "garbage", j.unsynced}, j.unsynced # None,
               k = [j EXCEPT !.lines[j.unsynced] = SubSeq(@, 1, Len(@) - 1),
                            !.unsynced = None, !.torn = t]
        PROVE  JournalInv(k) /\ \A d \in Commands : Kept(j, k, d) \/ Lost(j, k, d)
    <2> DEFINE c == j.unsynced
    <2>1. c \in Commands /\ c # None BY <1>0, <1>4, Zenon DEF Journals
    <2>2. j.lines[c] # <<>> /\ c \notin j.archived BY <2>1, Zenon DEF JournalInv
    <2>3. j.lines \in [Commands -> Seq(JournalRecord)] BY <1>0, Zenon DEF Journals
    <2> DEFINE s == SubSeq(j.lines[c], 1, Len(j.lines[c]) - 1)
    <2>4. s \in Seq(JournalRecord) /\ OneMore(s, j.lines[c])
      BY <2>1, <2>2, <2>3, FrontIsOneLess, Zenon
    <2>5. k = [j EXCEPT !.lines = [j.lines EXCEPT ![c] = s], !.unsynced = None, !.torn = t]
      BY <1>4, Zenon
    <2>u. j.unsynced = c BY Zenon
    <2> HIDE DEF s, c
    <2>6. [j.lines EXCEPT ![c] = s] \in [Commands -> Seq(JournalRecord)] BY <2>3, <2>4, Zenon
    <2>7. t \in Commands \cup {None, "garbage"} BY <1>4, <2>1, <2>u, Zenon
    <2>8. k \in Journals BY <1>0, <2>5, <2>6, <2>7, Zenon DEF Journals
    <2>9. /\ k.lines = [j.lines EXCEPT ![c] = s] /\ k.unsynced = None
          /\ k.archived = j.archived /\ k.damaged = j.damaged
      BY <1>0, <2>5, Zenon DEF Journals
    <2>10. k.lines[c] = s /\ \A d \in Commands \ {c} : k.lines[d] = j.lines[d]
      BY <2>1, <2>3, <2>9, Zenon
    <2>11. Lost(j, k, c) BY <2>1, <2>u, <2>2, <2>4, <2>9, <2>10, Zenon DEF Lost
    <2>12. \A d \in Commands \ {c} : Kept(j, k, d)
      BY <2>9, <2>10, ExecutorAssumption, Zenon DEF Kept
    <2>13. \A d \in k.archived : k.lines[d] = <<>>
      BY <1>0, <2>2, <2>9, <2>10 DEF JournalInv, Journals
    <2>14. JournalInv(k) BY <2>8, <2>9, <2>13, Zenon DEF JournalInv
    <2> QED BY <2>11, <2>12, <2>14, Zenon
  <1> QED BY <1>1, <1>2, <1>3, <1>4, Zenon

\* A refresh after a step is part of the step.
LEMMA StepThenRefresh ==
    ASSUME NEW j, NEW q, NEW k, JournalInv(j), JournalInv(q), NEW d \in Commands, NEW r,
           Kept(q, k, d) \/ SetAside(q, k, d)
    PROVE  /\ NotGrown(j, q, d) => NotGrown(j, k, d)
           /\ Grown(j, q, d, r) => NotGrown(j, k, d) \/ Grown(j, k, d, r)
  <1>1. ASSUME Kept(j, q, d) PROVE NotGrown(j, k, d) BY <1>1, Zenon DEF NotGrown, Kept, SetAside
  <1>2. ASSUME SetAside(j, q, d) PROVE NotGrown(j, k, d) BY <1>2, Zenon DEF NotGrown, Kept, SetAside
  <1>3. ASSUME Lost(j, q, d) PROVE NotGrown(j, k, d) BY <1>3, Zenon DEF NotGrown, Kept, SetAside, Lost
  <1>4. ASSUME Grown(j, q, d, r) PROVE NotGrown(j, k, d) \/ Grown(j, k, d, r)
    <2>1. CASE Kept(q, k, d) BY <1>4, <2>1, Zenon DEF Kept, Grown
    <2>2. CASE SetAside(q, k, d)
      <3>1. j.lines[d] \in Seq(JournalRecord) /\ q.lines[d] \in Seq(JournalRecord)
        BY Zenon DEF JournalInv, Journals
      <3>2. Len(q.lines[d]) = Len(j.lines[d]) + 1 /\ Len(j.lines[d]) \in Nat
        BY <1>4, <3>1 DEF Grown, OneMore
      <3>3. q.lines[d] # <<>> BY <3>1, <3>2
      <3> QED BY <2>2, <3>3, Zenon DEF SetAside, NotGrown
    <2> QED BY <2>1, <2>2, Zenon
  <1> QED BY <1>1, <1>2, <1>3, <1>4, Zenon DEF NotGrown

\* A crash, in the middle of an append of c or not, and the journal as it is opened
\* again.
LEMMA CrashStep ==
    ASSUME NEW j, JournalInv(j), NEW c \in Commands, NEW r \in JournalRecord,
           NEW m, m = j \/ m \in Botched(j, c, r), NEW q \in AfterPowerLoss(m)
    PROVE  JournalStep(j, refresh(q), c, r)
  <1>1. JournalInv(m) /\ JournalStep(j, m, c, r)
    BY BotchedStep, Zenon DEF JournalStep, NotGrown, Kept
  <1>2. JournalInv(q) /\ \A d \in Commands : Kept(m, q, d) \/ Lost(m, q, d)
    BY <1>1, PowerLossStep, Zenon
  <1>3. \A d \in Commands : NotGrown(j, q, d) \/ (d = c /\ Grown(j, q, d, r))
    <2>1. CASE m = j BY <1>2, <2>1, Zenon DEF NotGrown
    <2>2. CASE /\ m.lines = refresh(j).lines /\ m.unsynced = None
               /\ m.archived = refresh(j).archived /\ m.damaged = refresh(j).damaged
      <3>1. \A d \in Commands : Kept(j, refresh(j), d) \/ SetAside(j, refresh(j), d)
        BY RefreshStep, Zenon
      <3>2. \A d \in Commands : Kept(j, m, d) \/ SetAside(j, m, d)
        BY <2>2, <3>1, ExecutorAssumption, Zenon DEF Kept, SetAside
      <3>3. \A d \in Commands : Kept(m, q, d)
        BY <1>2, <2>2, ExecutorAssumption, Zenon DEF Lost
      <3> QED BY <3>2, <3>3, Zenon DEF NotGrown, Kept, SetAside
    <2>3. CASE m = Unflushed(j, c, r) /\ m \in Botched(j, c, r)
      <3>1. c \notin refresh(j).archived BY <2>3, BotchedCases, Zenon
      <3>2. /\ JournalStep(j, m, c, r) /\ Grown(j, m, c, r) /\ Grown(refresh(j), m, c, r)
            /\ m.unsynced = c /\ m.archived = refresh(j).archived /\ m.damaged = refresh(j).damaged
            /\ \A d \in Commands \ {c} : m.lines[d] = refresh(j).lines[d]
        <4>1. m = Unflushed(j, c, r) BY <2>3, Zenon
        <4>2. /\ JournalStep(j, m, c, r) /\ Grown(j, m, c, r) /\ Grown(refresh(j), m, c, r)
              /\ m.unsynced = c /\ m.torn = None
              /\ m.archived = refresh(j).archived /\ m.damaged = refresh(j).damaged
              /\ \A d \in Commands \ {c} : m.lines[d] = refresh(j).lines[d]
          BY <3>1, <4>1, UnsyncedStep
        <4> QED BY <4>2, Zenon
      <3>3. /\ JournalInv(refresh(j))
            /\ \A d \in Commands : Kept(j, refresh(j), d) \/ SetAside(j, refresh(j), d)
        BY RefreshStep, Zenon
      <3>4. ASSUME NEW d \in Commands \ {c} PROVE NotGrown(j, q, d)
        <4>1. Kept(m, q, d) BY <1>2, <3>2, <3>4, Zenon DEF Lost
        <4>2. Kept(j, refresh(j), d) \/ SetAside(j, refresh(j), d) BY <3>3, Zenon
        <4>3. m.lines[d] = refresh(j).lines[d] /\ m.unsynced # d BY <3>2, Zenon
        <4> QED BY <3>2, <4>1, <4>2, <4>3, Zenon DEF NotGrown, Kept, SetAside
      <3>5. CASE Kept(m, q, c)
        <4>1. Grown(j, q, c, r) BY <3>2, <3>5, Zenon DEF Grown, Kept
        <4> QED BY <3>4, <4>1, Zenon
      <3>6. CASE Lost(m, q, c)
        <4>1. /\ OneMore(q.lines[c], m.lines[c]) /\ OneMore(refresh(j).lines[c], m.lines[c])
              /\ q.unsynced # c /\ c \notin q.archived /\ (m.damaged => q.damaged)
          BY <3>2, <3>6, Zenon DEF Lost, Grown
        <4>2. q.lines[c] \in Seq(JournalRecord) /\ refresh(j).lines[c] \in Seq(JournalRecord)
          BY <1>2, <3>3, Zenon DEF JournalInv, Journals
        <4>3. q.lines[c] = refresh(j).lines[c] BY <4>1, <4>2, OneLess
        <4>4. Kept(j, refresh(j), c) \/ SetAside(j, refresh(j), c) BY <3>3, Zenon
        <4>5. Kept(j, q, c) \/ SetAside(j, q, c)
          BY <3>1, <3>2, <4>1, <4>3, <4>4, Zenon DEF Kept, SetAside
        <4> QED BY <3>4, <4>5, Zenon DEF NotGrown
      <3> QED BY <1>2, <3>5, <3>6, Zenon
    <2> QED BY <2>1, <2>2, <2>3, BotchedCases, Zenon
  <1>4. /\ JournalInv(refresh(q))
        /\ \A d \in Commands : Kept(q, refresh(q), d) \/ SetAside(q, refresh(q), d)
    BY <1>2, RefreshStep, Zenon
  <1>5. ASSUME NEW d \in Commands
        PROVE  NotGrown(j, refresh(q), d) \/ (d = c /\ Grown(j, refresh(q), d, r))
    <2> DEFINE k == refresh(q)
    <2>1. Kept(q, k, d) \/ SetAside(q, k, d) BY <1>4, Zenon
    <2>2. NotGrown(j, q, d) \/ (d = c /\ Grown(j, q, d, r)) BY <1>3, Zenon
    <2> HIDE DEF k
    <2>3. /\ NotGrown(j, q, d) => NotGrown(j, k, d)
          /\ Grown(j, q, d, r) => NotGrown(j, k, d) \/ Grown(j, k, d, r)
      BY <1>2, <2>1, StepThenRefresh, Zenon
    <2> QED BY <2>2, <2>3, Zenon DEF k
  <1> QED BY <1>4, <1>5, Zenon DEF JournalStep

\* The lines of a command are a sequence of records.
LEMMA LinesAreSequences ==
    ASSUME NEW j, JournalInv(j), NEW d \in Commands
    PROVE  /\ j.lines[d] \in Seq(JournalRecord) /\ Len(j.lines[d]) \in Nat
           /\ DOMAIN j.lines[d] = 1..Len(j.lines[d])
           /\ j.lines[d] = <<>> <=> Len(j.lines[d]) = 0
           /\ \A i \in DOMAIN j.lines[d] : j.lines[d][i] \in JournalRecord
  <1>1. j.lines[d] \in Seq(JournalRecord) BY Zenon DEF JournalInv, Journals
  <1> QED BY <1>1

\* A step that does not append to a command's lines adds no phase to them.
LEMMA PhaseStep ==
    ASSUME NEW j, NEW k, JournalInv(j), JournalInv(k), NEW d \in Commands, NotGrown(j, k, d)
    PROVE  /\ \A p : HasPhase(k, d, p) => HasPhase(j, d, p)
           /\ j.lines[d] = <<>> => k.lines[d] = <<>>
  <1>1. CASE k.lines[d] = j.lines[d] BY <1>1, Zenon DEF HasPhase
  <1>2. CASE k.lines[d] = <<>> BY <1>2 DEF HasPhase
  <1>3. CASE Lost(j, k, d)
    <2>1. /\ Len(j.lines[d]) = Len(k.lines[d]) + 1
          /\ \A i \in 1..Len(k.lines[d]) : j.lines[d][i] = k.lines[d][i]
      BY <1>3, Zenon DEF Lost, OneMore
    <2>2. /\ Len(j.lines[d]) \in Nat /\ DOMAIN j.lines[d] = 1..Len(j.lines[d])
          /\ Len(k.lines[d]) \in Nat /\ DOMAIN k.lines[d] = 1..Len(k.lines[d])
          /\ j.lines[d] = <<>> <=> Len(j.lines[d]) = 0
      BY LinesAreSequences, Zenon
    <2>3. \A i \in DOMAIN k.lines[d] : i \in DOMAIN j.lines[d] /\ j.lines[d][i] = k.lines[d][i]
      BY <2>1, <2>2
    <2>4. j.lines[d] # <<>> BY <2>1, <2>2
    <2> QED BY <2>3, <2>4, Zenon DEF HasPhase
  <1> QED BY <1>1, <1>2, <1>3, Zenon DEF NotGrown, Kept, SetAside

\* The lines after an append: those before it, and the one it wrote.
LEMMA GrownLines ==
    ASSUME NEW j, NEW k, JournalInv(j), JournalInv(k), NEW d \in Commands, NEW r,
           Grown(j, k, d, r)
    PROVE  /\ Len(k.lines[d]) = Len(j.lines[d]) + 1 /\ Len(j.lines[d]) \in Nat
           /\ DOMAIN k.lines[d] = 1..(Len(j.lines[d]) + 1)
           /\ DOMAIN j.lines[d] = 1..Len(j.lines[d])
           /\ \A i \in DOMAIN j.lines[d] : k.lines[d][i] = j.lines[d][i]
           /\ k.lines[d][Len(j.lines[d]) + 1] = r
           /\ d \notin j.archived /\ d \notin k.archived
  <1>1. /\ Len(j.lines[d]) \in Nat /\ DOMAIN j.lines[d] = 1..Len(j.lines[d])
        /\ Len(k.lines[d]) \in Nat /\ DOMAIN k.lines[d] = 1..Len(k.lines[d])
    BY LinesAreSequences, Zenon
  <1> QED BY <1>1, Zenon DEF Grown, OneMore

\* An append adds no phase but its own.
LEMMA GrownPhase ==
    ASSUME NEW j, NEW k, JournalInv(j), JournalInv(k), NEW d \in Commands, NEW r,
           Grown(j, k, d, r)
    PROVE  \A p : HasPhase(k, d, p) => HasPhase(j, d, p) \/ r.phase = p
  <1>1. /\ Len(j.lines[d]) \in Nat
        /\ DOMAIN k.lines[d] = 1..(Len(j.lines[d]) + 1)
        /\ DOMAIN j.lines[d] = 1..Len(j.lines[d])
        /\ \A i \in DOMAIN j.lines[d] : k.lines[d][i] = j.lines[d][i]
        /\ k.lines[d][Len(j.lines[d]) + 1] = r
    BY GrownLines
  <1>2. \A i \in DOMAIN k.lines[d] : i \in DOMAIN j.lines[d] \/ i = Len(j.lines[d]) + 1
    BY <1>1
  <1> QED BY <1>1, <1>2, Zenon DEF HasPhase

\* A line that can no longer be lost is still there after a step, or archived.
LEMMA SyncedStep ==
    ASSUME NEW j, NEW k, JournalInv(j), JournalInv(k), NEW d \in Commands, NEW r,
           NotGrown(j, k, d) \/ Grown(j, k, d, r),
           NEW i \in DOMAIN j.lines[d], Synced(j, d, i), d \notin k.archived
    PROVE  i \in DOMAIN k.lines[d] /\ k.lines[d][i] = j.lines[d][i] /\ Synced(k, d, i)
  <1>1. CASE Kept(j, k, d) BY <1>1, Zenon DEF Kept, Synced
  <1>2. CASE SetAside(j, k, d)
    <2>1. j.lines[d] # <<>> OBVIOUS
    <2> QED BY <1>2, <2>1, Zenon DEF SetAside
  <1>l. /\ Len(j.lines[d]) \in Nat /\ DOMAIN j.lines[d] = 1..Len(j.lines[d])
        /\ Len(k.lines[d]) \in Nat /\ DOMAIN k.lines[d] = 1..Len(k.lines[d])
    BY LinesAreSequences, Zenon
  <1>3. CASE Lost(j, k, d)
    <2>1. i < Len(j.lines[d]) BY <1>3, Zenon DEF Lost, Synced
    <2>2. /\ Len(j.lines[d]) = Len(k.lines[d]) + 1
          /\ \A n \in 1..Len(k.lines[d]) : j.lines[d][n] = k.lines[d][n]
          /\ k.unsynced # d
      BY <1>3, Zenon DEF Lost, OneMore
    <2>3. i \in 1..Len(k.lines[d]) BY <1>l, <2>1, <2>2
    <2> QED BY <1>l, <2>2, <2>3, Zenon DEF Synced
  <1>4. CASE Grown(j, k, d, r)
    <2>1. /\ Len(k.lines[d]) = Len(j.lines[d]) + 1
          /\ \A n \in DOMAIN j.lines[d] : k.lines[d][n] = j.lines[d][n]
      BY <1>4, GrownLines
    <2>2. i \in 1..Len(k.lines[d]) /\ i < Len(k.lines[d]) BY <1>l, <2>1
    <2> QED BY <1>l, <2>1, <2>2, Zenon DEF Synced
  <1> QED BY <1>1, <1>2, <1>3, <1>4, Zenon DEF NotGrown

\* An outcome that was recorded and synced stays.
LEMMA OutcomeStep ==
    ASSUME NEW j, NEW k, JournalInv(j), JournalInv(k), NEW d \in Commands, NEW r,
           NotGrown(j, k, d) \/ Grown(j, k, d, r), OutcomeKept(j, d)
    PROVE  OutcomeKept(k, d)
  <1>1. CASE d \in j.archived
    BY <1>1, Zenon DEF OutcomeKept, NotGrown, Kept, SetAside, Lost, Grown
  <1>2. CASE d \notin j.archived /\ d \notin k.archived
    <2>1. PICK i \in DOMAIN j.lines[d] : j.lines[d][i].outcome # None /\ Synced(j, d, i)
      BY <1>2, Zenon DEF OutcomeKept
    <2>2. i \in DOMAIN k.lines[d] /\ k.lines[d][i] = j.lines[d][i] /\ Synced(k, d, i)
      BY <1>2, <2>1, SyncedStep, Zenon
    <2> QED BY <2>1, <2>2, Zenon DEF OutcomeKept
  <1> QED BY <1>1, <1>2, Zenon DEF OutcomeKept

\* A completion that was reported stays the last line until the command is
\* submitted again.
LEMMA CompletedStep ==
    ASSUME NEW j, NEW k, NEW d, NotGrown(j, k, d), CompletedLast(j, d)
    PROVE  CompletedLast(k, d)
  BY Zenon DEF CompletedLast, NotGrown, Kept, SetAside, Lost

\* The trail of an execution stays, and a later phase that verifies or ends it does
\* not cover it.
LEMMA TrailStep ==
    ASSUME NEW j, NEW k, JournalInv(j), JournalInv(k), NEW d \in Commands, NEW r,
           \/ NotGrown(j, k, d)
           \/ Grown(j, k, d, r) /\ (r.phase = "verifying" \/ r.outcome # None),
           Trail(j, d)
    PROVE  Trail(k, d)
  <1>1. CASE d \in j.archived
    BY <1>1, Zenon DEF Trail, NotGrown, Kept, SetAside, Lost, Grown
  <1>2. CASE d \notin j.archived /\ d \notin k.archived
    <2>1. PICK i \in DOMAIN j.lines[d] :
              /\ j.lines[d][i].phase = "executing" /\ Synced(j, d, i)
              /\ \A n \in DOMAIN j.lines[d] :
                    n > i => j.lines[d][n].phase = "verifying" \/ j.lines[d][n].outcome # None
      BY <1>2, Zenon DEF Trail
    <2>2. i \in DOMAIN k.lines[d] /\ k.lines[d][i] = j.lines[d][i] /\ Synced(k, d, i)
      BY <1>2, <2>1, SyncedStep, Zenon
    <2>l. /\ Len(j.lines[d]) \in Nat /\ DOMAIN j.lines[d] = 1..Len(j.lines[d])
          /\ Len(k.lines[d]) \in Nat /\ DOMAIN k.lines[d] = 1..Len(k.lines[d])
      BY LinesAreSequences, Zenon
    <2>3. ASSUME NEW n \in DOMAIN k.lines[d], n > i
          PROVE  k.lines[d][n].phase = "verifying" \/ k.lines[d][n].outcome # None
      <3>1. CASE n \in DOMAIN j.lines[d] /\ k.lines[d][n] = j.lines[d][n]
        BY <2>1, <2>3, <3>1, Zenon
      <3>2. CASE Kept(j, k, d) BY <2>1, <2>3, <3>2, Zenon DEF Kept
      <3>3. CASE SetAside(j, k, d) BY <1>2, <2>1, <3>3 DEF SetAside
      <3>4. CASE Lost(j, k, d)
        <4>1. /\ Len(j.lines[d]) = Len(k.lines[d]) + 1
              /\ \A h \in 1..Len(k.lines[d]) : j.lines[d][h] = k.lines[d][h]
          BY <3>4, Zenon DEF Lost, OneMore
        <4>2. n \in DOMAIN j.lines[d] /\ k.lines[d][n] = j.lines[d][n] BY <2>l, <2>3, <4>1
        <4> QED BY <3>1, <4>2, Zenon
      <3>5. CASE Grown(j, k, d, r) /\ (r.phase = "verifying" \/ r.outcome # None)
        <4>1. /\ DOMAIN k.lines[d] = 1..(Len(j.lines[d]) + 1)
              /\ \A h \in DOMAIN j.lines[d] : k.lines[d][h] = j.lines[d][h]
              /\ k.lines[d][Len(j.lines[d]) + 1] = r
          BY <3>5, GrownLines
        <4>2. n \in DOMAIN j.lines[d] \/ n = Len(j.lines[d]) + 1 BY <2>l, <2>3, <4>1
        <4> QED BY <3>1, <3>5, <4>1, <4>2, Zenon
      <3> QED BY <3>2, <3>3, <3>4, <3>5, Zenon DEF NotGrown
    <2> QED BY <2>1, <2>2, <2>3, Zenon DEF Trail
  <1> QED BY <1>1, <1>2, Zenon DEF Trail

\* The trail begins when "executing" is appended and synced.
LEMMA TrailBegins ==
    ASSUME NEW j, NEW k, JournalInv(j), JournalInv(k), NEW d \in Commands, NEW r,
           Grown(j, k, d, r), r.phase = "executing", k.unsynced = None
    PROVE  Trail(k, d)
  <1>1. /\ Len(k.lines[d]) = Len(j.lines[d]) + 1 /\ Len(j.lines[d]) \in Nat
        /\ DOMAIN k.lines[d] = 1..(Len(j.lines[d]) + 1)
        /\ k.lines[d][Len(j.lines[d]) + 1] = r
    BY GrownLines
  <1> DEFINE i == Len(j.lines[d]) + 1
  <1>2. /\ i \in DOMAIN k.lines[d] /\ k.lines[d][i].phase = "executing" /\ Synced(k, d, i)
        /\ \A n \in DOMAIN k.lines[d] : ~(n > i)
    BY <1>1, ExecutorAssumption DEF Synced
  <1> QED BY <1>2, Zenon DEF Trail

-----------------------------------------------------------------------------
(* The page and its entry of the context graph.                              *)

PageOK(p) ==
    /\ p \in [dom : Nat, loaded : Nat, tainted : BOOLEAN, generation : Nat,
              observed : Nat \cup {None}, recorded : Nat]
    /\ p.loaded <= p.dom
    /\ p.observed # None => p.observed <= p.generation

\* The page only gets newer, and an observation that is current afterwards was
\* current before or is one of a page at least as new.
PageStep(p, q) ==
    /\ PageOK(q) /\ p.dom <= q.dom
    /\ q.observed = q.generation =>
          \/ p.observed = p.generation /\ q.recorded = p.recorded
          \/ q.recorded >= p.dom

\* A page that stays as it is.
LEMMA PageStays == ASSUME NEW p, PageOK(p) PROVE PageStep(p, p)
  BY DEF PageStep, PageOK

\* Steps of the page compose.
LEMMA PageSteps ==
    ASSUME NEW p, NEW q, NEW r, PageOK(p), PageStep(p, q), PageStep(q, r)
    PROVE  PageStep(p, r)
  <1>1. /\ p.dom \in Nat /\ q.dom \in Nat /\ r.dom \in Nat /\ r.recorded \in Nat
        /\ p.dom <= q.dom /\ q.dom <= r.dom
    BY Zenon DEF PageStep, PageOK
  <1> QED BY <1>1 DEF PageStep

\* Forgetting leaves nothing current, unless the command changes nothing.
LEMMA InvalidateStep ==
    ASSUME NEW p, PageOK(p), NEW k
    PROVE  /\ PageStep(p, invalidate_for(p, k))
           /\ Changes(k) => invalidate_for(p, k).observed # invalidate_for(p, k).generation
  <1> DEFINE q == invalidate_for(p, k)
  <1>1. /\ p.generation \in Nat /\ p.observed \in Nat \cup {None} /\ p.dom \in Nat
        /\ p.recorded \in Nat /\ (p.observed # None => p.observed <= p.generation)
        /\ p.loaded <= p.dom
    BY Zenon DEF PageOK
  <1>2. CASE preserves_page_structure(k) \/ p.observed = None
    <2>1. q = p BY <1>2, Zenon DEF invalidate_for
    <2>2. Changes(k) => p.observed = None BY <1>2, Zenon DEF Changes, preserves_page_structure
    <2> HIDE DEF q
    <2>3. Changes(k) => q.observed # q.generation BY <1>1, <2>1, <2>2, ExecutorAssumption, Zenon
    <2> QED BY <2>1, <2>3, PageStays, Zenon DEF q
  <1>3. CASE ~(preserves_page_structure(k) \/ p.observed = None)
    <2>1. q = [p EXCEPT !.generation = p.generation + 1] BY <1>3, Zenon DEF invalidate_for
    <2> HIDE DEF q
    <2>2. /\ q.generation = p.generation + 1 /\ q.observed = p.observed /\ q.dom = p.dom
          /\ q.recorded = p.recorded /\ q.loaded = p.loaded
      BY <2>1, Zenon DEF PageOK
    <2>3. q \in [dom : Nat, loaded : Nat, tainted : BOOLEAN, generation : Nat,
                 observed : Nat \cup {None}, recorded : Nat]
      BY <1>1, <2>1 DEF PageOK
    <2>4. q.observed \in Nat /\ q.observed < q.generation BY <1>1, <1>3, <2>2
    <2>5. q.observed # q.generation BY <1>1, <2>2, <2>4
    <2>6. PageOK(q) BY <1>1, <2>2, <2>3, <2>4 DEF PageOK
    <2>7. PageStep(p, q) BY <1>1, <2>2, <2>5, <2>6 DEF PageStep
    <2> QED BY <2>5, <2>7, Zenon DEF q
  <1> QED BY <1>2, <1>3, Zenon

\* Recording a snapshot.
LEMMA RecordStep == ASSUME NEW p, PageOK(p) PROVE PageStep(p, record(p))
  <1> DEFINE q == record(p)
  <1>1. /\ p.generation \in Nat /\ p.dom \in Nat /\ p.loaded <= p.dom BY Zenon DEF PageOK
  <1>2. q = [p EXCEPT !.observed = p.generation, !.recorded = p.dom] BY Zenon DEF record
  <1> HIDE DEF q
  <1>3. /\ q.generation = p.generation /\ q.observed = p.generation /\ q.dom = p.dom
        /\ q.recorded = p.dom /\ q.loaded = p.loaded
    BY <1>2, Zenon DEF PageOK
  <1>t. q \in [dom : Nat, loaded : Nat, tainted : BOOLEAN, generation : Nat,
               observed : Nat \cup {None}, recorded : Nat]
    BY <1>1, <1>2, Zenon DEF PageOK
  <1>4. PageOK(q) BY <1>1, <1>3, <1>t DEF PageOK
  <1>5. PageStep(p, q) BY <1>1, <1>3, <1>4 DEF PageStep
  <1> QED BY <1>5, Zenon DEF q

\* The taint says nothing about the observation.
LEMMA TaintStep ==
    ASSUME NEW p, PageOK(p), NEW k, NEW b \in BOOLEAN
    PROVE  PageStep(p, record_page_taint(p, k, b))
  <1> DEFINE t == CASE k = "navigate" -> ~b
                    [] k \in {"click", "submit"} -> TRUE
                    [] OTHER -> p.tainted
             q == record_page_taint(p, k, b)
  <1>1. t \in BOOLEAN
    <2>1. CASE k = "navigate" BY <2>1, Zenon
    <2>2. CASE k \in {"click", "submit"} BY <2>2, Zenon
    <2>3. CASE k \notin {"navigate", "click", "submit"} BY <2>3, Zenon DEF PageOK
    <2> QED BY <2>1, <2>2, <2>3, Zenon
  <1>2. q = [p EXCEPT !.tainted = t] BY Zenon DEF record_page_taint
  <1> HIDE DEF t, q
  <1>3. /\ q.generation = p.generation /\ q.observed = p.observed /\ q.dom = p.dom
        /\ q.recorded = p.recorded /\ q.loaded = p.loaded
    BY <1>2, Zenon DEF PageOK
  <1>4. PageOK(q) BY <1>1, <1>2, <1>3, Zenon DEF PageOK
  <1>5. PageStep(p, q) BY <1>3, <1>4 DEF PageStep, PageOK
  <1> QED BY <1>5, Zenon DEF q

\* Processing a success forgets what the command changed.
LEMMA ContextStep ==
    ASSUME NEW p, PageOK(p), NEW c
    PROVE  /\ PageStep(p, record_execution_context(p, c))
           /\ Changes(run[c].kind) =>
                 record_execution_context(p, c).observed # record_execution_context(p, c).generation
  <1> DEFINE q == invalidate_for(p, run[c].kind)
             r == record_execution_context(p, c)
  <1>1. PageStep(p, q) /\ PageOK(q) /\ (Changes(run[c].kind) => q.observed # q.generation)
    BY InvalidateStep, Zenon DEF PageStep
  <1>2. r = IF run[c].kind = "snapshot" THEN record(q) ELSE q BY Zenon DEF record_execution_context
  <1> HIDE DEF q, r
  <1>3. PageStep(p, r) BY <1>1, <1>2, RecordStep, PageSteps, Zenon
  <1>4. Changes(run[c].kind) => r = q BY <1>2, Zenon DEF Changes
  <1> QED BY <1>1, <1>3, <1>4, Zenon DEF r

\* The page changes, or a new browser loads it.
LEMMA LoadStep ==
    ASSUME NEW p, PageOK(p), NEW v \in Nat, NEW l \in Nat, NEW q,
           v >= p.dom, l <= v, q = [p EXCEPT !.dom = v, !.loaded = l]
    PROVE  PageStep(p, q) /\ q.dom = v
  <1>1. /\ q.generation = p.generation /\ q.observed = p.observed /\ q.dom = v
        /\ q.recorded = p.recorded /\ q.loaded = l
    BY Zenon DEF PageOK
  <1>2. PageOK(q) BY <1>1, Zenon DEF PageOK
  <1> QED BY <1>1, <1>2, Zenon DEF PageStep, PageOK

-----------------------------------------------------------------------------
(* Where a command goes.                                                     *)

RunType == [at : Points, kind : AllKinds \cup {None}, live : BOOLEAN,
            again : BOOLEAN, error : Errors \cup {None}, outcome : CommandOutcome \cup {None},
            did : Nat, saw : Nat, due : SUBSET Nat]

\* Only an append or a publication goes on once its caller left.
RunOK(r) ==
    r \in RunType /\ (~r.live => r.at \in CommandPhase \cup {"publish", "idle", "gone"})

\* The fields of a run that fails.
LEMMA FailingFields ==
    ASSUME NEW c, RunOK(run[c]), NEW x \in CommandOutcome
    PROVE  /\ RunOK(Failing(c, x))
           /\ Failing(c, x).at = "failed" /\ Failing(c, x).kind = run[c].kind
           /\ Failing(c, x).outcome = x /\ Failing(c, x).did = run[c].did
  <1>1. Failing(c, x) \in RunType BY Zenon DEF Failing, RunOK, RunType, Points, CommandPhase
  <1>2. /\ Failing(c, x).at = "failed" /\ Failing(c, x).kind = run[c].kind
        /\ Failing(c, x).outcome = x /\ Failing(c, x).did = run[c].did
    BY Zenon DEF Failing, RunOK, RunType
  <1> QED BY <1>1, <1>2, Zenon DEF RunOK, CommandPhase

\* The fields of a run that has not begun.
LEMMA NotRunningFields ==
    /\ NotRunning \in RunType /\ NotRunning.at = "idle" /\ NotRunning.kind = None
    /\ ~NotRunning.live /\ NotRunning.outcome = None /\ NotRunning.did = 0
  BY Zenon DEF NotRunning, RunType, Points

\* The fields of a run whose caller left.
LEMMA GoneFields ==
    ASSUME NEW c, RunOK(run[c])
    PROVE  /\ RunOK(Gone(c)) /\ Gone(c).at = "gone" /\ Gone(c).kind = run[c].kind
           /\ Gone(c).outcome = None /\ Gone(c).did = 0
  <1>1. run[c].kind \in AllKinds \cup {None} /\ "gone" \in Points BY Zenon DEF RunOK, RunType, Points
  <1>2. Gone(c) \in RunType BY <1>1, NotRunningFields, Zenon DEF Gone, RunType
  <1>3. /\ Gone(c).at = "gone" /\ Gone(c).kind = run[c].kind
        /\ Gone(c).outcome = NotRunning.outcome /\ Gone(c).did = NotRunning.did
    BY NotRunningFields, Zenon DEF Gone, RunType
  <1> QED BY <1>2, <1>3, NotRunningFields, Zenon DEF RunOK

\* The fields of a run that is answered.
LEMMA AnsweredFields ==
    ASSUME NEW c, RunOK(run[c]), NEW x \in CommandOutcome
    PROVE  /\ RunOK(Answered(c, x)) /\ Answered(c, x).kind = run[c].kind
           /\ \/ Answered(c, x).at = "gone" /\ Answered(c, x).outcome = None /\ Answered(c, x).did = 0
              \/ Answered(c, x).at = "done" /\ Answered(c, x).outcome = x
                 /\ Answered(c, x).did = run[c].did
  <1>1. CASE run[c].live
    <2>1. Answered(c, x) = [run[c] EXCEPT !.at = "done", !.outcome = x] BY <1>1, Zenon DEF Answered
    <2>2. Answered(c, x) \in RunType BY <2>1, Zenon DEF RunOK, RunType, Points
    <2>3. /\ Answered(c, x).at = "done" /\ Answered(c, x).outcome = x
          /\ Answered(c, x).did = run[c].did /\ Answered(c, x).kind = run[c].kind
          /\ Answered(c, x).live
      BY <1>1, <2>1, Zenon DEF RunOK, RunType
    <2> QED BY <2>2, <2>3, Zenon DEF RunOK
  <1>2. CASE ~run[c].live
    <2>1. Answered(c, x) = Gone(c) BY <1>2, Zenon DEF Answered
    <2> QED BY <2>1, GoneFields, Zenon
  <1> QED BY <1>1, <1>2, Zenon

\* The fields of a run that moves on.
LEMMA MovedFields ==
    ASSUME NEW c, RunOK(run[c]), NEW x \in Points,
           run[c].live \/ x \in CommandPhase \cup {"publish"}
    PROVE  /\ RunOK(Moved(c, x)) /\ Moved(c, x).kind = run[c].kind /\ Moved(c, x).at = x
           /\ Moved(c, x).outcome = run[c].outcome /\ Moved(c, x).did = run[c].did
           /\ Moved(c, x).error = run[c].error
  <1>1. Moved(c, x) \in RunType BY Zenon DEF Moved, RunOK, RunType
  <1>2. /\ Moved(c, x).kind = run[c].kind /\ Moved(c, x).at = x
        /\ Moved(c, x).outcome = run[c].outcome /\ Moved(c, x).did = run[c].did
        /\ Moved(c, x).error = run[c].error /\ Moved(c, x).live = run[c].live
    BY Zenon DEF Moved, RunOK, RunType
  <1> QED BY <1>1, <1>2, Zenon DEF RunOK

-----------------------------------------------------------------------------
(* Steps of one command.                                                     *)

\* What the type invariant says of the page and of a run.
LEMMA TypesOf ==
    ASSUME TypeOK
    PROVE  PageOK(page) /\ \A c \in Commands : RunOK(run[c]) /\ run[c] \in RunType
  BY Zenon DEF TypeOK, PageOK, RunOK, RunType

\* A command that stays where it is keeps what does not depend on the files.
LEMMA UnmovedKeeps ==
    ASSUME ExecutorInv, NEW d \in Commands,
           run'[d] = run[d], effects'[d] = effects[d], tries'[d] = tries[d],
           PageStep(page, page'), JournalInv(journal'), NotGrown(journal, journal', d)
    PROVE  RunInv(d)' /\ CountInv(d)' /\ ForgetInv(d)' /\ AnswerInv(d)'
  <1>1. CommandInv(d) /\ JournalInv(journal) /\ TypeOK BY Zenon DEF ExecutorInv
  <1>2. PageOK(page) /\ run[d] \in RunType BY <1>1, TypesOf, Zenon
  <1>3. journal.lines[d] = <<>> => journal'.lines[d] = <<>> BY <1>1, PhaseStep, Zenon
  <1>4. RunInv(d)'
    <2>1. run[d].did \in Nat /\ page.dom \in Nat /\ page'.dom \in Nat /\ page.dom <= page'.dom
      BY <1>2, Zenon DEF PageStep, PageOK, RunType
    <2>2. run[d].did <= page'.dom BY <1>1, <2>1 DEF CommandInv, RunInv
    <2> QED BY <1>1, <1>3, <2>2, Zenon DEF CommandInv, RunInv
  <1>5. CountInv(d)' BY <1>1, Zenon DEF CommandInv, CountInv, Mutates
  <1>6. ForgetInv(d)'
    <2>1. /\ run[d].did \in Nat /\ page.dom \in Nat /\ page'.recorded \in Nat
          /\ run[d].did <= page.dom
      BY <1>1, <1>2, Zenon DEF PageStep, PageOK, RunType, CommandInv, RunInv
    <2> QED BY <1>1, <2>1 DEF CommandInv, ForgetInv, PageStep
  <1>7. AnswerInv(d)' BY <1>1, CompletedStep, Zenon DEF CommandInv, AnswerInv
  <1> QED BY <1>4, <1>5, <1>6, <1>7, Zenon

\* A command that a step is not about keeps its invariant.
LEMMA OthersKeep ==
    ASSUME ExecutorInv, NEW d \in Commands,
           run'[d] = run[d], effects'[d] = effects[d], tries'[d] = tries[d],
           staging'[d] = staging[d], PageStep(page, page'),
           JournalInv(journal'), NotGrown(journal, journal', d), Saved(d) => Saved(d)'
    PROVE  CommandInv(d)'
  <1>1. CommandInv(d) /\ JournalInv(journal) BY Zenon DEF ExecutorInv
  <1>2. RunInv(d)' /\ CountInv(d)' /\ ForgetInv(d)' /\ AnswerInv(d)' BY UnmovedKeeps, Zenon
  <1>3. \A p : HasPhase(journal', d, p) => HasPhase(journal, d, p) BY <1>1, PhaseStep, Zenon
  <1>4. OutcomeKept(journal, d) => OutcomeKept(journal', d) BY <1>1, OutcomeStep, Zenon
  <1>5. DownloadInv(d)' BY <1>1, <1>3, <1>4, Zenon DEF CommandInv, DownloadInv
  <1> QED BY <1>2, <1>5, Zenon DEF CommandInv

\* A step of one command keeps the invariant if it keeps that command's.
LEMMA OneCommandSteps ==
    ASSUME ExecutorInv, NEW c \in Commands, NEW r, RunOK(r), run' = [run EXCEPT ![c] = r],
           PageStep(page, page'), JournalInv(journal'),
           \A d \in Commands \ {c} : NotGrown(journal, journal', d),
           staging' \in [Commands -> {"none", "staged", "published", "cleaned", "discarded"}],
           \A d \in Commands \ {c} : staging'[d] = staging[d],
           saved' \in [by : Commands \cup {None}, synced : BOOLEAN],
           \A d \in Commands \ {c} : Saved(d) => Saved(d)',
           effects' \in [Commands -> Nat], \A d \in Commands \ {c} : effects'[d] = effects[d],
           tries' \in [Commands -> 0..MaxAttempts], \A d \in Commands \ {c} : tries'[d] = tries[d],
           faults' \in 0..MaxFaults, crashes' \in 0..MaxCrashes,
           CommandInv(c)'
    PROVE  ExecutorInv'
  <1>1. run \in [Commands -> RunType] /\ \A d \in Commands : RunOK(run[d])
    BY TypesOf, Zenon DEF ExecutorInv, TypeOK, RunType
  <1>2. run' \in [Commands -> RunType] /\ run'[c] = r BY <1>1, Zenon DEF RunOK
  <1>3. \A d \in Commands \ {c} : run'[d] = run[d] BY <1>1, Zenon
  <1>4. \A d \in Commands : RunOK(run'[d]) BY <1>1, <1>2, <1>3, Zenon
  <1>5. TypeOK'
    <2>1. journal' \in Journals BY Zenon DEF JournalInv
    <2>2. \A d \in Commands :
              ~run'[d].live => run'[d].at \in CommandPhase \cup {"publish", "idle", "gone"}
      BY <1>4, Zenon DEF RunOK
    <2>3. PageOK(page') BY Zenon DEF PageStep
    <2> QED BY <1>2, <2>1, <2>2, <2>3, Zenon DEF TypeOK, RunType, PageOK
  <1>6. \A d \in Commands \ {c} : CommandInv(d)'
    <2>1. SUFFICES ASSUME NEW d \in Commands \ {c} PROVE CommandInv(d)' BY Zenon
    <2>2. /\ d \in Commands /\ run'[d] = run[d] /\ effects'[d] = effects[d]
          /\ tries'[d] = tries[d] /\ staging'[d] = staging[d]
          /\ NotGrown(journal, journal', d) /\ (Saved(d) => Saved(d)')
      BY <1>3, Zenon
    <2> QED BY <2>2, OthersKeep, Zenon
  <1> QED BY <1>5, <1>6, Zenon DEF ExecutorInv

\* A journal that does not change.
LEMMA NoJournalStep ==
    ASSUME NEW j, NEW d PROVE NotGrown(j, j, d)
  BY Zenon DEF NotGrown, Kept

\* A step that moves one command and changes neither the journal, nor the files,
\* nor what the command did so far.
LEMMA QuietStep ==
    ASSUME ExecutorInv, NEW c \in Commands, NEW r, RunOK(r), run' = [run EXCEPT ![c] = r],
           PageStep(page, page'), UNCHANGED <<journal, staging, saved, effects, tries>>,
           faults' \in 0..MaxFaults, crashes' \in 0..MaxCrashes,
           run[c].at \notin {"idle", "done"}, r.at # "idle", r.kind = run[c].kind,
           r.at = "recover" => r.error \in Errors,
           r.at = "failed" => r.outcome \in CommandOutcome \ {"completed"},
           r.at = "resultPrepared" => r.kind \in {"inspect", "download"},
           r.kind = "download" =>
                /\ r.at \notin {"acted", "recover"}
                /\ r.at \in {"resultPrepared", "publish"} => staging[c] = "staged"
                /\ r.at \in {"commit", "verifying", "verify", "completed"} => Saved(c),
           r.did = run[c].did \/ r.did = 0,
           (r.at \in Early /\ Mutates(c)) => run[c].at \in Early,
           r.outcome # "completed",
           (r.at \notin {"attempt", "acted", "recover"} /\ r.did > 0
             /\ page'.observed = page'.generation) => page'.recorded >= r.did
    PROVE  ExecutorInv'
  <1>1. /\ CommandInv(c) /\ JournalInv(journal) /\ TypeOK BY Zenon DEF ExecutorInv
  <1>2. PageOK(page) /\ run[c] \in RunType BY <1>1, TypesOf, Zenon
  <1>3. run'[c] = r BY <1>1, Zenon DEF TypeOK
  <1>4. RunInv(c)'
    <2>1. /\ run[c].did \in Nat /\ page.dom \in Nat /\ page'.dom \in Nat /\ page.dom <= page'.dom
          /\ run[c].did <= page.dom
      BY <1>1, <1>2, Zenon DEF PageStep, PageOK, RunType, CommandInv, RunInv
    <2>2. r.did <= page'.dom /\ (r.did > 0 => r.did = run[c].did) BY <2>1
    <2>3. run[c].kind # None /\ effects'[c] = effects[c] BY <1>1, Zenon DEF CommandInv, RunInv
    <2> QED BY <1>1, <1>3, <2>2, <2>3, Zenon DEF CommandInv, RunInv
  <1>5. CountInv(c)'
    BY <1>1, <1>3, Zenon DEF CommandInv, CountInv, Mutates
  <1>6. ForgetInv(c)' BY <1>3, Zenon DEF ForgetInv
  <1>7. AnswerInv(c)' BY <1>3, Zenon DEF AnswerInv
  <1>8. DownloadInv(c)' BY <1>1, <1>3, Zenon DEF CommandInv, DownloadInv, Saved
  <1>9. CommandInv(c)' BY <1>4, <1>5, <1>6, <1>7, <1>8, Zenon DEF CommandInv
  <1>10. JournalInv(journal') /\ \A d \in Commands \ {c} : NotGrown(journal, journal', d)
    BY <1>1, NoJournalStep, Zenon
  <1>11. \A d \in Commands \ {c} : Saved(d) => Saved(d)' BY Zenon DEF Saved
  <1>12. /\ staging' \in [Commands -> {"none", "staged", "published", "cleaned", "discarded"}]
         /\ \A d \in Commands \ {c} : staging'[d] = staging[d]
         /\ saved' \in [by : Commands \cup {None}, synced : BOOLEAN]
         /\ effects' \in [Commands -> Nat] /\ \A d \in Commands \ {c} : effects'[d] = effects[d]
         /\ tries' \in [Commands -> 0..MaxAttempts]
         /\ \A d \in Commands \ {c} : tries'[d] = tries[d]
    BY <1>1, Zenon DEF TypeOK
  <1> QED BY <1>9, <1>10, <1>11, <1>12, OneCommandSteps, Zenon

\* A fault is counted.
LEMMA FaultCounted ==
    ASSUME TypeOK, Fault \/ UNCHANGED faults PROVE faults' \in 0..MaxFaults
  BY ExecutorAssumption DEF TypeOK, Fault

\* finish_failure, wherever the command fails: what it may have changed is forgotten
\* before the failure is recorded.
LEMMA FailingStep ==
    ASSUME ExecutorInv, NEW c \in Commands, NEW x \in CommandOutcome \ {"completed"}, NEW p,
           PageStep(page, p), page' = invalidate_for(p, run[c].kind),
           run' = [run EXCEPT ![c] = Failing(c, x)],
           UNCHANGED <<journal, staging, saved, effects, tries, crashes>>,
           Fault \/ UNCHANGED faults, run[c].at \notin {"idle", "done"}
    PROVE  ExecutorInv'
  <1>1. /\ CommandInv(c) /\ TypeOK BY Zenon DEF ExecutorInv
  <1>2. RunOK(run[c]) /\ PageOK(page) /\ PageOK(p) BY <1>1, TypesOf, Zenon DEF PageStep
  <1>3. /\ RunOK(Failing(c, x))
        /\ Failing(c, x).at = "failed" /\ Failing(c, x).kind = run[c].kind
        /\ Failing(c, x).outcome = x /\ Failing(c, x).did = run[c].did
    BY <1>2, FailingFields, Zenon
  <1>4. /\ PageStep(p, page') /\ (Changes(run[c].kind) => page'.observed # page'.generation)
    BY <1>2, InvalidateStep, Zenon
  <1>5. PageStep(page, page') BY <1>2, <1>4, PageSteps, Zenon
  <1>6. Failing(c, x).did > 0 => Changes(run[c].kind)
    BY <1>1, <1>3, Zenon DEF CommandInv, RunInv
  <1>7. faults' \in 0..MaxFaults /\ crashes' \in 0..MaxCrashes
    BY <1>1, FaultCounted, Zenon DEF TypeOK
  <1> DEFINE r == Failing(c, x)
  <1>8. /\ RunOK(r) /\ run' = [run EXCEPT ![c] = r] /\ r.at # "idle" /\ r.kind = run[c].kind
        /\ r.at = "failed" /\ r.outcome \in CommandOutcome \ {"completed"} /\ r.did = run[c].did
        /\ (r.did > 0 => page'.observed # page'.generation)
    BY <1>3, <1>4, <1>6, Zenon
  <1> HIDE DEF r
  <1> QED BY <1>5, <1>7, <1>8, QuietStep, Zenon DEF Early

\* No failure is classified as a completion.
LEMMA FailuresAreNotCompletions ==
    ASSUME NEW k, NEW e
    PROVE  classify_failure(k, e) \in CommandOutcome \ {"completed"}
  BY Zenon DEF classify_failure, CommandOutcome

\* A command that runs has no outcome "completed", has a kind, and has a caller
\* unless it is appending or publishing.
LEMMA RunningFacts ==
    ASSUME ExecutorInv, NEW c \in Commands, Running(c)
    PROVE  /\ run[c].outcome # "completed" /\ run[c].kind # None /\ run[c].kind \in AllKinds
           /\ run[c].at \notin CommandPhase \cup {"publish"} => run[c].live
           /\ run[c].at \notin {"idle", "done"}
           /\ CommandInv(c) /\ TypeOK /\ RunOK(run[c]) /\ run[c] \in RunType /\ PageOK(page)
           /\ JournalInv(journal)
  <1>1. CommandInv(c) /\ TypeOK /\ JournalInv(journal) BY Zenon DEF ExecutorInv
  <1>2. RunOK(run[c]) /\ run[c] \in RunType /\ PageOK(page) BY <1>1, TypesOf, Zenon
  <1>3. run[c].kind # None BY <1>1, Zenon DEF CommandInv, RunInv, Running
  <1>4. run[c].kind \in AllKinds BY <1>2, <1>3, Zenon DEF RunType
  <1>5. run[c].outcome # "completed" BY <1>1, Zenon DEF CommandInv, AnswerInv, Running
  <1>6. run[c].at \notin CommandPhase \cup {"publish"} => run[c].live
    BY <1>2, Zenon DEF RunOK, Running
  <1> QED BY <1>1, <1>2, <1>3, <1>4, <1>5, <1>6, Zenon DEF Running

\* lease_ok
LEMMA LeaseOkInv ==
    ASSUME ExecutorInv, NEW c \in Commands, lease_ok(c) PROVE ExecutorInv'
  <1> DEFINE r == Moved(c, "attempt")
  <1>1. run[c].at = "lease" /\ Running(c) /\ run' = [run EXCEPT ![c] = r]
    BY Zenon DEF lease_ok, Running, Go
  <1>2. /\ run[c].outcome # "completed" /\ run[c].live /\ TypeOK /\ RunOK(run[c])
        /\ PageOK(page)
    BY <1>1, RunningFacts, Zenon DEF CommandPhase
  <1>3. /\ RunOK(r) /\ r.kind = run[c].kind /\ r.at = "attempt"
        /\ r.outcome = run[c].outcome /\ r.did = run[c].did
    BY <1>2, MovedFields DEF Points
  <1>4. /\ faults' \in 0..MaxFaults /\ crashes' \in 0..MaxCrashes /\ PageStep(page, page')
        /\ UNCHANGED <<journal, staging, saved, effects, tries>>
    BY <1>2, PageStays, Zenon DEF lease_ok, TypeOK
  <1> HIDE DEF r
  <1> QED BY <1>1, <1>2, <1>3, <1>4, QuietStep, Zenon DEF Early

\* finish_failure from a page that is as it was.
LEMMA FinishFailure ==
    ASSUME ExecutorInv, NEW c \in Commands, NEW x \in CommandOutcome \ {"completed"},
           finish_failure(c, x), Running(c),
           UNCHANGED <<journal, staging, saved, effects, tries, crashes>>,
           Fault \/ UNCHANGED faults
    PROVE  ExecutorInv'
  <1>1. run[c].at \notin {"idle", "done"} /\ PageOK(page) BY RunningFacts, Zenon
  <1>2. PageStep(page, page) BY <1>1, PageStays, Zenon
  <1> QED BY <1>1, <1>2, FailingStep, Zenon DEF finish_failure, Go

\* lease_fails
LEMMA LeaseFailsInv ==
    ASSUME ExecutorInv, NEW c \in Commands, lease_fails(c) PROVE ExecutorInv'
  <1>1. PICK b \in BOOLEAN : finish_failure(c, classify_failure(run[c].kind, Error("other", b)))
    BY Zenon DEF lease_fails
  <1>2. /\ Running(c) /\ UNCHANGED <<journal, staging, saved, effects, tries, crashes>> /\ Fault
    BY Zenon DEF lease_fails, Running
  <1> QED BY <1>1, <1>2, FailuresAreNotCompletions, FinishFailure, Zenon

\* deadline
LEMMA DeadlineInv ==
    ASSUME ExecutorInv, NEW c \in Commands, deadline(c) PROVE ExecutorInv'
  <1>1. /\ Running(c) /\ UNCHANGED <<journal, staging, saved, effects, tries, crashes>> /\ Fault
        /\ finish_failure(c, classify_failure(run[c].kind, Error("other", TRUE)))
    BY Zenon DEF deadline, Running
  <1> QED BY <1>1, FailuresAreNotCompletions, FinishFailure, Zenon

\* fetch_fails
LEMMA FetchFailsInv ==
    ASSUME ExecutorInv, NEW c \in Commands, fetch_fails(c) PROVE ExecutorInv'
  <1>1. /\ Running(c) /\ UNCHANGED <<journal, staging, saved, effects, tries, crashes>>
        /\ Fault \/ UNCHANGED faults
        /\ \E e : finish_failure(c, classify_failure(run[c].kind, e))
    BY Zenon DEF fetch_fails, Running
  <1> QED BY <1>1, FailuresAreNotCompletions, FinishFailure, Zenon

\* recover_gives_up
LEMMA RecoverGivesUpInv ==
    ASSUME ExecutorInv, NEW c \in Commands, recover_gives_up(c) PROVE ExecutorInv'
  <1>1. /\ Running(c) /\ UNCHANGED <<journal, staging, saved, effects, tries, crashes>>
        /\ UNCHANGED faults
        /\ finish_failure(c, classify_failure(run[c].kind, run[c].error))
    BY Zenon DEF recover_gives_up, Running
  <1> QED BY <1>1, FailuresAreNotCompletions, FinishFailure, Zenon

\* Running a replayable command once more.
LEMMA RetryStep ==
    ASSUME ExecutorInv, NEW c \in Commands, run[c].at = "recover",
           class(run[c].kind) = "Replayable", PageStep(page, page'),
           run' = [run EXCEPT ![c] = [run[c] EXCEPT !.at = "attempt", !.again = TRUE, !.error = None]],
           UNCHANGED <<journal, staging, saved, effects, tries, faults, crashes>>
    PROVE  ExecutorInv'
  <1> DEFINE r == [run[c] EXCEPT !.at = "attempt", !.again = TRUE, !.error = None]
  <1>1. Running(c) BY Zenon DEF Running
  <1>2. /\ run[c].outcome # "completed" /\ run[c].live /\ TypeOK /\ run[c] \in RunType
        /\ PageOK(page)
    BY <1>1, RunningFacts, Zenon DEF CommandPhase
  <1>3. r \in RunType BY <1>2, Zenon DEF RunType, Points
  <1>4. /\ r.kind = run[c].kind /\ r.at = "attempt" /\ r.live
        /\ r.outcome = run[c].outcome /\ r.did = run[c].did
    BY <1>2, Zenon DEF RunType
  <1>5. RunOK(r) BY <1>3, <1>4, Zenon DEF RunOK
  <1>6. faults' \in 0..MaxFaults /\ crashes' \in 0..MaxCrashes BY <1>2, Zenon DEF TypeOK
  <1>7. ~Mutates(c) BY Zenon DEF Mutates
  <1>8. run' = [run EXCEPT ![c] = r] BY Zenon
  <1> HIDE DEF r
  <1> QED BY <1>2, <1>4, <1>5, <1>6, <1>7, <1>8, QuietStep, Zenon DEF Early

\* retry, for a transport that answers again or was attached again.
LEMMA RetryInv ==
    ASSUME ExecutorInv, NEW c \in Commands, run[c].at = "recover",
           NEW x \in CommandOutcome \ {"completed"}, retry(c, x),
           UNCHANGED <<journal, staging, saved, effects, tries, faults, crashes>>
    PROVE  ExecutorInv'
  <1>1. Running(c) BY Zenon DEF Running
  <1>2. PageStep(page, page) BY <1>1, RunningFacts, PageStays, Zenon
  <1>3. CASE class(run[c].kind) = "Replayable"
    <2>1. run' = [run EXCEPT ![c] = [run[c] EXCEPT !.at = "attempt", !.again = TRUE, !.error = None]]
          /\ page' = page
      BY <1>3, Zenon DEF retry, Go
    <2> QED BY <1>2, <1>3, <2>1, RetryStep, Zenon
  <1>4. CASE class(run[c].kind) # "Replayable"
    <2>1. finish_failure(c, x) BY <1>4, Zenon DEF retry
    <2> QED BY <1>1, <2>1, FinishFailure, Zenon
  <1> QED BY <1>3, <1>4, Zenon

\* recover
LEMMA RecoverInv ==
    ASSUME ExecutorInv, NEW c \in Commands, recover(c) PROVE ExecutorInv'
  <1>1. "failed" \in CommandOutcome \ {"completed"} BY Zenon DEF CommandOutcome
  <1> QED BY <1>1, RetryInv, Zenon DEF recover

\* after_reattach
LEMMA AfterReattachInv ==
    ASSUME ExecutorInv, NEW c \in Commands, after_reattach(c) PROVE ExecutorInv'
  BY RetryInv, FailuresAreNotCompletions, Zenon DEF after_reattach

\* revive
LEMMA ReviveInv ==
    ASSUME ExecutorInv, NEW c \in Commands, revive(c) PROVE ExecutorInv'
  <1> DEFINE p == [page EXCEPT !.dom = page.dom + 1, !.loaded = page.dom + 1]
  <1>1. run[c].at = "recover" /\ Running(c) BY Zenon DEF revive, Running
  <1>2. PageOK(page) /\ run[c].at \notin {"idle", "done"} BY <1>1, RunningFacts, Zenon
  <1>3. page.dom \in Nat BY <1>2, Zenon DEF PageOK
  <1>4. PageStep(page, p)
    <2> DEFINE v == page.dom + 1
    <2>1. v \in Nat /\ v >= page.dom /\ v <= v BY <1>3
    <2>2. p = [page EXCEPT !.dom = v, !.loaded = v] BY Zenon
    <2> HIDE DEF v, p
    <2> QED BY <1>2, <2>1, <2>2, LoadStep, Zenon
  <1>5. UNCHANGED <<journal, staging, saved, effects, tries, faults, crashes>> BY Zenon DEF revive
  <1>6. CASE class(run[c].kind) = "Replayable"
    <2>1. run' = [run EXCEPT ![c] = [run[c] EXCEPT !.at = "attempt", !.again = TRUE, !.error = None]]
          /\ page' = p
      BY <1>6, Zenon DEF revive, Go
    <2> HIDE DEF p
    <2> QED BY <1>1, <1>4, <1>5, <1>6, <2>1, RetryStep, Zenon
  <1>7. CASE class(run[c].kind) # "Replayable"
    <2> DEFINE x == classify_failure(run[c].kind, Error("detached", FALSE))
    <2>1. run' = [run EXCEPT ![c] = Failing(c, x)] /\ page' = invalidate_for(p, run[c].kind)
      BY <1>7, Zenon DEF revive, Go
    <2>2. x \in CommandOutcome \ {"completed"} BY FailuresAreNotCompletions, Zenon
    <2> HIDE DEF p, x
    <2> QED BY <1>2, <1>4, <1>5, <2>1, <2>2, FailingStep, Zenon
  <1> QED BY <1>6, <1>7, Zenon

\* returned
LEMMA ReturnedInv ==
    ASSUME ExecutorInv, NEW c \in Commands, returned(c) PROVE ExecutorInv'
  <1> DEFINE k == run[c].kind
             e == run[c].error
             p == record_page_taint(page, k, e = None)
  <1>1. /\ run[c].at = "acted" /\ Running(c)
        /\ UNCHANGED <<journal, staging, saved, effects, tries, faults, crashes>>
    BY Zenon DEF returned, Running
  <1>2. /\ run[c].outcome # "completed" /\ run[c].live /\ TypeOK /\ RunOK(run[c])
        /\ run[c] \in RunType /\ PageOK(page) /\ run[c].at \notin {"idle", "done"} /\ CommandInv(c)
    BY <1>1, RunningFacts, Zenon DEF CommandPhase
  <1>3. PageStep(page, p) /\ PageOK(p) BY <1>2, TaintStep, Zenon DEF PageStep
  <1>4. faults' \in 0..MaxFaults /\ crashes' \in 0..MaxCrashes BY <1>1, <1>2, Zenon DEF TypeOK
  <1>5. run[c].kind # "download" /\ (run[c].did > 0 => Changes(run[c].kind))
    BY <1>1, <1>2, Zenon DEF CommandInv, RunInv
  <1>6. \/ /\ page' = record_execution_context(p, c)
           /\ run' = [run EXCEPT ![c] = [run[c] EXCEPT !.at = "verifying", !.again = FALSE]]
        \/ /\ e # None /\ page' = p /\ run' = [run EXCEPT ![c] = Moved(c, "recover")]
        \/ /\ page' = invalidate_for(p, run[c].kind)
           /\ run' = [run EXCEPT ![c] = Failing(c, classify_failure(k, e))]
    BY Zenon DEF returned, Go
  <1> HIDE DEF p
  <1>7. CASE /\ page' = record_execution_context(p, c)
             /\ run' = [run EXCEPT ![c] = [run[c] EXCEPT !.at = "verifying", !.again = FALSE]]
    <2> DEFINE r == [run[c] EXCEPT !.at = "verifying", !.again = FALSE]
    <2>1. PageStep(p, page') /\ (Changes(run[c].kind) => page'.observed # page'.generation)
      BY <1>3, <1>7, ContextStep, Zenon
    <2>2. PageStep(page, page') BY <1>2, <1>3, <2>1, PageSteps, Zenon
    <2>3. r \in RunType BY <1>2, Zenon DEF RunType, Points, CommandPhase
    <2>4. /\ r.at = "verifying" /\ r.kind = run[c].kind /\ r.outcome = run[c].outcome
          /\ r.did = run[c].did
      BY <1>2, Zenon DEF RunType
    <2>5. RunOK(r) BY <2>3, <2>4, Zenon DEF RunOK, CommandPhase
    <2>6. run' = [run EXCEPT ![c] = r] BY <1>7, Zenon
    <2> HIDE DEF r
    <2> QED BY <1>1, <1>2, <1>4, <1>5, <2>1, <2>2, <2>4, <2>5, <2>6, QuietStep, Zenon DEF Early
  <1>8. CASE /\ e # None /\ page' = p /\ run' = [run EXCEPT ![c] = Moved(c, "recover")]
    <2> DEFINE r == Moved(c, "recover")
    <2>1. /\ RunOK(r) /\ r.kind = run[c].kind /\ r.at = "recover" /\ r.error = run[c].error
          /\ r.outcome = run[c].outcome /\ r.did = run[c].did
      BY <1>2, MovedFields DEF Points
    <2>2. run[c].error \in Errors BY <1>2, <1>8, Zenon DEF RunType
    <2>3. PageStep(page, page') /\ run' = [run EXCEPT ![c] = r] BY <1>3, <1>8, Zenon
    <2> HIDE DEF r
    <2> QED BY <1>1, <1>2, <1>4, <1>5, <2>1, <2>2, <2>3, QuietStep, Zenon DEF Early
  <1>9. CASE /\ page' = invalidate_for(p, run[c].kind)
             /\ run' = [run EXCEPT ![c] = Failing(c, classify_failure(k, e))]
    <2> DEFINE x == classify_failure(k, e)
    <2>1. x \in CommandOutcome \ {"completed"} BY FailuresAreNotCompletions, Zenon
    <2>2. run' = [run EXCEPT ![c] = Failing(c, x)] BY <1>9, Zenon
    <2> HIDE DEF x
    <2> QED BY <1>1, <1>2, <1>3, <1>9, <2>1, <2>2, FailingStep, Zenon
  <1> QED BY <1>6, <1>7, <1>8, <1>9, Zenon

\* commit_http_state
LEMMA CommitHttpInv ==
    ASSUME ExecutorInv, NEW c \in Commands, commit_http_state(c) PROVE ExecutorInv'
  <1>1. /\ run[c].at = "commit" /\ Running(c)
        /\ UNCHANGED <<journal, staging, saved, effects, tries, crashes>>
    BY Zenon DEF commit_http_state, Running
  <1>2. /\ run[c].outcome # "completed" /\ run[c].live /\ TypeOK /\ RunOK(run[c])
        /\ PageOK(page) /\ run[c].at \notin {"idle", "done"} /\ CommandInv(c)
    BY <1>1, RunningFacts, Zenon DEF CommandPhase
  <1>3. CASE Fault /\ finish_failure(c, "reconcile")
    <2>1. "reconcile" \in CommandOutcome \ {"completed"} BY Zenon DEF CommandOutcome
    <2> QED BY <1>1, <1>3, <2>1, FinishFailure, Zenon
  <1>4. CASE /\ page' = record_execution_context(page, c) /\ Go(c, Moved(c, "verifying"))
             /\ UNCHANGED faults
    <2> DEFINE r == Moved(c, "verifying")
    <2>1. /\ RunOK(r) /\ r.kind = run[c].kind /\ r.at = "verifying"
          /\ r.outcome = run[c].outcome /\ r.did = run[c].did
      BY <1>2, MovedFields DEF Points, CommandPhase
    <2>2. PageStep(page, page') /\ (Changes(run[c].kind) => page'.observed # page'.generation)
      BY <1>2, <1>4, ContextStep, Zenon
    <2>3. run' = [run EXCEPT ![c] = r] BY <1>4, Zenon DEF Go
    <2>4. faults' \in 0..MaxFaults /\ crashes' \in 0..MaxCrashes BY <1>1, <1>2, <1>4, Zenon DEF TypeOK
    <2>5. /\ run[c].did > 0 => Changes(run[c].kind)
          /\ run[c].kind = "download" => Saved(c)
      BY <1>1, <1>2, Zenon DEF CommandInv, RunInv, DownloadInv
    <2> HIDE DEF r
    <2> QED BY <1>1, <1>2, <2>1, <2>2, <2>3, <2>4, <2>5, QuietStep, Zenon DEF Early
  <1> QED BY <1>3, <1>4, Zenon DEF commit_http_state

\* verify
LEMMA VerifyInv ==
    ASSUME ExecutorInv, NEW c \in Commands, verify(c) PROVE ExecutorInv'
  <1>1. /\ run[c].at = "verify" /\ Running(c)
        /\ UNCHANGED <<journal, staging, saved, effects, tries, crashes>>
    BY Zenon DEF verify, Running
  <1>2. /\ run[c].outcome # "completed" /\ run[c].live /\ TypeOK /\ RunOK(run[c])
        /\ PageOK(page) /\ run[c].at \notin {"idle", "done"} /\ CommandInv(c)
    BY <1>1, RunningFacts, Zenon DEF CommandPhase
  <1>3. CASE Fault /\ \E e : finish_failure(c, classify_failure(run[c].kind, e))
    BY <1>1, <1>3, FailuresAreNotCompletions, FinishFailure, Zenon
  <1>4. CASE Go(c, Moved(c, "completed")) /\ UNCHANGED <<page, faults>>
    <2> DEFINE r == Moved(c, "completed")
    <2>1. /\ RunOK(r) /\ r.kind = run[c].kind /\ r.at = "completed"
          /\ r.outcome = run[c].outcome /\ r.did = run[c].did
      BY <1>2, MovedFields DEF Points, CommandPhase
    <2>2. PageStep(page, page') BY <1>2, <1>4, PageStays, Zenon
    <2>3. run' = [run EXCEPT ![c] = r] BY <1>4, Zenon DEF Go
    <2>4. faults' \in 0..MaxFaults /\ crashes' \in 0..MaxCrashes BY <1>1, <1>2, <1>4, Zenon DEF TypeOK
    <2>5. /\ run[c].did > 0 /\ page.observed = page.generation => page.recorded >= run[c].did
          /\ run[c].kind = "download" => Saved(c)
      BY <1>1, <1>2, Zenon DEF CommandInv, ForgetInv, DownloadInv
    <2>6. r.did > 0 /\ page'.observed = page'.generation => page'.recorded >= r.did
      BY <1>4, <2>1, <2>5, Zenon
    <2> HIDE DEF r
    <2> QED BY <1>1, <1>2, <2>1, <2>2, <2>3, <2>4, <2>5, <2>6, QuietStep, Zenon DEF Early
  <1> QED BY <1>3, <1>4, Zenon DEF verify

\* drop
LEMMA DropInv ==
    ASSUME ExecutorInv, NEW c \in Commands, drop(c) PROVE ExecutorInv'
  <1>1. /\ Running(c) /\ Fault /\ UNCHANGED <<journal, page, staging, saved, effects, tries, crashes>>
    BY Zenon DEF drop
  <1>2. /\ run[c].outcome # "completed" /\ TypeOK /\ RunOK(run[c]) /\ run[c] \in RunType
        /\ PageOK(page) /\ run[c].at \notin {"idle", "done"} /\ CommandInv(c)
    BY <1>1, RunningFacts, Zenon
  <1>3. PageStep(page, page') BY <1>1, <1>2, PageStays, Zenon
  <1>4. faults' \in 0..MaxFaults /\ crashes' \in 0..MaxCrashes
    BY <1>1, <1>2, FaultCounted, Zenon DEF TypeOK
  <1>5. CASE run[c].at \in CommandPhase \cup {"publish"}
    <2> DEFINE r == [run[c] EXCEPT !.live = FALSE]
    <2>1. r \in RunType BY <1>2, Zenon DEF RunType
    <2>2. /\ r.at = run[c].at /\ r.kind = run[c].kind /\ r.outcome = run[c].outcome
          /\ r.did = run[c].did /\ r.error = run[c].error
      BY <1>2, Zenon DEF RunType
    <2>3. RunOK(r) BY <1>5, <2>1, <2>2, Zenon DEF RunOK
    <2>4. run' = [run EXCEPT ![c] = r] BY <1>5, Zenon DEF drop, Go
    <2>5. run[c].at \notin {"idle", "attempt", "acted", "recover", "commit", "verify"}
      BY <1>5, Zenon DEF CommandPhase
    <2>6. /\ run[c].did > 0 /\ page.observed = page.generation => page.recorded >= run[c].did
          /\ run[c].kind = "download" =>
                /\ run[c].at \in {"resultPrepared", "publish"} => staging[c] = "staged"
                /\ run[c].at \in {"commit", "verifying", "verify", "completed"} => Saved(c)
          /\ run[c].at = "failed" => run[c].outcome \in CommandOutcome \ {"completed"}
          /\ run[c].at = "resultPrepared" => run[c].kind \in {"inspect", "download"}
      BY <1>2, <2>5, Zenon DEF CommandInv, ForgetInv, DownloadInv, RunInv
    <2>7. r.did > 0 /\ page'.observed = page'.generation => page'.recorded >= r.did
      BY <1>1, <2>2, <2>6, Zenon
    <2> HIDE DEF r
    <2> QED BY <1>1, <1>2, <1>3, <1>4, <2>2, <2>3, <2>4, <2>5, <2>6, <2>7, QuietStep, Zenon
  <1>6. CASE run[c].at \notin CommandPhase \cup {"publish"}
    <2> DEFINE r == Gone(c)
    <2>1. /\ RunOK(r) /\ r.at = "gone" /\ r.kind = run[c].kind /\ r.outcome = None /\ r.did = 0
      BY <1>2, GoneFields, Zenon
    <2>2. run' = [run EXCEPT ![c] = r] BY <1>6, Zenon DEF drop, Go
    <2>3. r.outcome # "completed" BY <2>1, ExecutorAssumption, Zenon DEF CommandOutcome
    <2>4. ~(r.did > 0) /\ r.at \notin Early BY <2>1 DEF Early
    <2>5. /\ UNCHANGED <<journal, staging, saved, effects, tries>>
          /\ r.at \notin {"idle", "recover", "failed", "resultPrepared", "acted", "publish",
                         "commit", "verifying", "verify", "completed"}
      BY <1>1, <2>1, Zenon
    <2> HIDE DEF r
    <2> QED BY <1>2, <1>3, <1>4, <2>1, <2>2, <2>3, <2>4, <2>5, QuietStep, Zenon
  <1> QED BY <1>5, <1>6, Zenon

\* The answered changes are versions of the page.
LEMMA SettledAreVersions == ASSUME ExecutorInv PROVE Settled \in SUBSET Nat
  <1>1. \A c \in Commands : run[c].did \in Nat
    BY TypesOf, Zenon DEF ExecutorInv, TypeOK, RunType
  <1> QED BY <1>1, Zenon DEF Settled

\* dispatch
LEMMA DispatchInv ==
    ASSUME ExecutorInv, NEW c \in Commands, dispatch(c) PROVE ExecutorInv'
  <1> DEFINE k == run[c].kind
  <1>1. /\ run[c].at = "attempt" /\ k # "download" /\ Running(c)
        /\ UNCHANGED <<journal, staging, saved, tries, crashes>>
    BY Zenon DEF dispatch, Running
  <1>2. PICK e \in DispatchErrors \cup {None}, lands \in BOOLEAN :
            LET acts == lands /\ Changes(k)
                version == IF acts THEN page.dom + 1 ELSE page.dom
            IN  /\ Fault \/ UNCHANGED faults
                /\ page' = [page EXCEPT !.dom = version,
                              !.loaded = IF acts /\ k = "navigate" THEN version ELSE @]
                /\ effects' = [effects EXCEPT ![c] = IF acts THEN @ + 1 ELSE @]
                /\ run' = [run EXCEPT ![c] =
                             [run[c] EXCEPT !.at = "acted", !.error = e,
                                   !.did = IF acts THEN version ELSE @,
                                   !.saw = IF k = "inspect" THEN page.dom ELSE 0,
                                   !.due = IF k = "inspect" THEN Settled ELSE {}]]
    BY ZenonT(60) DEF dispatch, Go
  <1>3. /\ run[c].outcome # "completed" /\ run[c].live /\ TypeOK /\ RunOK(run[c]) /\ run[c].kind # None
        /\ run[c] \in RunType /\ PageOK(page) /\ CommandInv(c) /\ JournalInv(journal)
    BY <1>1, RunningFacts, Zenon DEF CommandPhase
  <1> DEFINE acts == lands /\ Changes(k)
             v == IF acts THEN page.dom + 1 ELSE page.dom
             l == IF acts /\ k = "navigate" THEN v ELSE page.loaded
             n == IF acts THEN effects[c] + 1 ELSE effects[c]
             r == [run[c] EXCEPT !.at = "acted", !.error = e,
                        !.did = IF acts THEN v ELSE run[c].did,
                        !.saw = IF k = "inspect" THEN page.dom ELSE 0,
                        !.due = IF k = "inspect" THEN Settled ELSE {}]
  <1>4. /\ page' = [page EXCEPT !.dom = v, !.loaded = l] /\ run' = [run EXCEPT ![c] = r]
        /\ effects' = [effects EXCEPT ![c] = n] /\ (Fault \/ UNCHANGED faults)
    BY <1>2, Zenon
  <1>5. /\ page.dom \in Nat /\ page.loaded \in Nat /\ page.loaded <= page.dom
        /\ effects \in [Commands -> Nat] /\ effects[c] \in Nat
    BY <1>3, Zenon DEF PageOK, TypeOK
  <1>6. v \in Nat /\ v >= page.dom /\ (acts => v > 0) BY <1>5
  <1>7. l \in Nat /\ l <= v BY <1>5, <1>6
  <1>8. n \in Nat BY <1>5
  <1>e. e \in Errors \cup {None}
    <2>1. [code : {"dead", "other"}, retryable : BOOLEAN] \subseteq Errors BY Zenon DEF Errors, ErrorCodes
    <2>2. {Error("preEffect", FALSE), Error("postcondition", TRUE), Error("policy", FALSE)}
          \subseteq Errors
      BY DEF Error, Errors, ErrorCodes
    <2> QED BY <2>1, <2>2, Zenon DEF DispatchErrors
  <1>9. r \in RunType
    <2>1. run[c] \in RunType /\ "acted" \in Points BY <1>3, Zenon DEF Points
    <2>2. /\ (IF acts THEN v ELSE run[c].did) \in Nat
          /\ (IF k = "inspect" THEN page.dom ELSE 0) \in Nat
      BY <1>5, <1>6, <2>1, Zenon DEF RunType
    <2>3. (IF k = "inspect" THEN Settled ELSE {}) \in SUBSET Nat BY SettledAreVersions, Zenon
    <2> HIDE DEF acts, v
    <2> QED BY <1>e, <2>1, <2>2, <2>3, Zenon DEF RunType
  <1>10. /\ r.at = "acted" /\ r.kind = run[c].kind /\ r.live /\ r.outcome = run[c].outcome
         /\ r.did = IF acts THEN v ELSE run[c].did
    BY <1>3, Zenon DEF RunType
  <1>11. acts => Changes(run[c].kind) BY Zenon
  <1> HIDE DEF acts, v, l, n, r
  <1>12. RunOK(r) BY <1>9, <1>10, Zenon DEF RunOK
  <1>13. PageStep(page, page') /\ page'.dom = v
    <2> DEFINE q == [page EXCEPT !.dom = v, !.loaded = l]
    <2>1. q = [page EXCEPT !.dom = v, !.loaded = l] /\ page' = q BY <1>4, Zenon
    <2> HIDE DEF q
    <2>2. PageOK(page) /\ v \in Nat /\ v >= page.dom /\ l \in Nat /\ l <= v
      BY <1>3, <1>6, <1>7, Zenon
    <2>3. PageStep(page, q) /\ q.dom = v BY <2>1, <2>2, LoadStep, Zenon
    <2> QED BY <2>1, <2>3, Zenon
  <1>14. run'[c] = r /\ effects'[c] = n BY <1>3, <1>4, Zenon DEF TypeOK
  <1>15. CommandInv(c)'
    <2>1. RunInv(c)'
      <3>1. run[c].did \in Nat /\ run[c].did <= page.dom /\ (run[c].did > 0 => Changes(run[c].kind))
        BY <1>3, Zenon DEF RunType, CommandInv, RunInv
      <3>2. r.did <= v /\ (r.did > 0 => Changes(run[c].kind))
        BY <1>5, <1>6, <1>10, <1>11, <3>1
      <3> QED BY <1>1, <1>3, <1>10, <1>13, <1>14, <3>2, Zenon DEF RunInv
    <2>2. CountInv(c)'
      <3>1. Mutates(c)' => Mutates(c) BY <1>10, <1>14, Zenon DEF Mutates
      <3>2. Mutates(c) => effects[c] < tries[c]
        BY <1>1, <1>3, Zenon DEF CommandInv, CountInv, Early
      <3>3. tries[c] \in Nat /\ tries'[c] = tries[c]
        BY <1>1, <1>3, ExecutorAssumption DEF TypeOK
      <3>4. effects[c] < tries[c] => n <= tries[c] BY <1>5, <3>3 DEF n
      <3> QED BY <1>10, <1>14, <3>1, <3>2, <3>3, <3>4, Zenon DEF CountInv, Early
    <2>3. ForgetInv(c)' BY <1>10, <1>14, Zenon DEF ForgetInv
    <2>4. AnswerInv(c)' BY <1>3, <1>10, <1>14, Zenon DEF AnswerInv
    <2>5. DownloadInv(c)'
      BY <1>1, <1>3, <1>10, <1>14, Zenon DEF CommandInv, DownloadInv, Saved
    <2> QED BY <2>1, <2>2, <2>3, <2>4, <2>5, Zenon DEF CommandInv
  <1>16. JournalInv(journal') /\ \A d \in Commands \ {c} : NotGrown(journal, journal', d)
    BY <1>1, <1>3, NoJournalStep, Zenon
  <1>17. /\ \A d \in Commands \ {c} : Saved(d) => Saved(d)'
    BY <1>1, Zenon DEF Saved
  <1>18. /\ staging' \in [Commands -> {"none", "staged", "published", "cleaned", "discarded"}]
         /\ \A d \in Commands \ {c} : staging'[d] = staging[d]
         /\ saved' \in [by : Commands \cup {None}, synced : BOOLEAN]
         /\ tries' \in [Commands -> 0..MaxAttempts]
         /\ \A d \in Commands \ {c} : tries'[d] = tries[d]
         /\ crashes' \in 0..MaxCrashes
    BY <1>1, <1>3, Zenon DEF TypeOK
  <1>19. /\ effects' \in [Commands -> Nat] /\ \A d \in Commands \ {c} : effects'[d] = effects[d]
    BY <1>4, <1>5, <1>8, Zenon
  <1>20. faults' \in 0..MaxFaults BY <1>3, <1>4, FaultCounted, Zenon
  <1> QED BY <1>4, <1>12, <1>13, <1>15, <1>16, <1>17, <1>18, <1>19, <1>20, OneCommandSteps, Zenon

\* fetch
LEMMA FetchInv ==
    ASSUME ExecutorInv, NEW c \in Commands, fetch(c) PROVE ExecutorInv'
  <1> DEFINE k == run[c].kind
             r == [run[c] EXCEPT !.at = "resultPrepared", !.again = FALSE,
                     !.saw = IF k = "inspect" THEN page.loaded ELSE 0,
                     !.due = IF k = "inspect" THEN Settled ELSE {}]
  <1>1. /\ run[c].at = "attempt" /\ run[c].kind \in {"inspect", "download"} /\ Running(c)
        /\ UNCHANGED <<journal, page, saved, effects, tries, faults, crashes>>
        /\ staging' = IF k = "download" THEN [staging EXCEPT ![c] = "staged"] ELSE staging
        /\ run' = [run EXCEPT ![c] = r]
    BY Zenon DEF fetch, Running, ReadsDirectly, Go
  <1>2. /\ run[c].outcome # "completed" /\ run[c].kind # None /\ TypeOK
        /\ run[c] \in RunType /\ PageOK(page) /\ CommandInv(c) /\ JournalInv(journal)
    BY <1>1, RunningFacts, Zenon
  <1>3. r \in RunType
    <2>1. page.loaded \in Nat BY <1>2, Zenon DEF PageOK
    <2>2. "resultPrepared" \in Points BY Zenon DEF Points, CommandPhase
    <2> QED BY <1>2, <2>1, <2>2, SettledAreVersions, Zenon DEF RunType
  <1>4. /\ r.at = "resultPrepared" /\ r.kind = run[c].kind /\ r.outcome = run[c].outcome
        /\ r.did = run[c].did
    BY <1>2, Zenon DEF RunType
  <1> HIDE DEF r
  <1>5. RunOK(r) BY <1>3, <1>4, Zenon DEF RunOK, CommandPhase
  <1>6. run'[c] = r BY <1>1, <1>2, Zenon DEF TypeOK
  <1>7. run[c].did \in Nat /\ ~(run[c].did > 0) /\ run[c].did <= page.dom
    BY <1>1, <1>2, Zenon DEF CommandInv, RunInv, Changes, RunType
  <1>8. /\ staging' \in [Commands -> {"none", "staged", "published", "cleaned", "discarded"}]
        /\ staging'[c] = (IF k = "download" THEN "staged" ELSE staging[c])
        /\ \A d \in Commands \ {c} : staging'[d] = staging[d]
    BY <1>1, <1>2, Zenon DEF TypeOK
  <1>9. CommandInv(c)'
    <2>1. RunInv(c)' BY <1>1, <1>2, <1>4, <1>6, <1>7, Zenon DEF CommandInv, RunInv
    <2>2. CountInv(c)' BY <1>1, <1>2, <1>4, <1>6, Zenon DEF CommandInv, CountInv, Mutates, Early
    <2>3. ForgetInv(c)' BY <1>4, <1>6, <1>7, Zenon DEF ForgetInv
    <2>4. AnswerInv(c)' BY <1>2, <1>4, <1>6, Zenon DEF AnswerInv
    <2>5. DownloadInv(c)' BY <1>1, <1>2, <1>4, <1>6, <1>8 DEF CommandInv, DownloadInv, Saved
    <2> QED BY <2>1, <2>2, <2>3, <2>4, <2>5, Zenon DEF CommandInv
  <1>10. JournalInv(journal') /\ \A d \in Commands \ {c} : NotGrown(journal, journal', d)
    BY <1>1, <1>2, NoJournalStep, Zenon
  <1>11. \A d \in Commands \ {c} : Saved(d) => Saved(d)' BY <1>1, Zenon DEF Saved
  <1>12. /\ saved' \in [by : Commands \cup {None}, synced : BOOLEAN]
         /\ effects' \in [Commands -> Nat] /\ \A d \in Commands \ {c} : effects'[d] = effects[d]
         /\ tries' \in [Commands -> 0..MaxAttempts]
         /\ \A d \in Commands \ {c} : tries'[d] = tries[d]
         /\ faults' \in 0..MaxFaults /\ crashes' \in 0..MaxCrashes
    BY <1>1, <1>2, Zenon DEF TypeOK
  <1>13. PageStep(page, page') BY <1>1, <1>2, PageStays, Zenon
  <1> QED BY <1>1, <1>5, <1>8, <1>9, <1>10, <1>11, <1>12, <1>13, OneCommandSteps, Zenon

\* A step of the task that commits a result: the files may change.
LEMMA CommitStep ==
    ASSUME ExecutorInv, NEW c \in Commands, run[c].at = "publish", NEW r, RunOK(r),
           run' = [run EXCEPT ![c] = r], r.kind = run[c].kind,
           r.at \in {"commit", "done", "gone"}, r.outcome # "completed",
           r.did = run[c].did \/ r.did = 0,
           UNCHANGED <<journal, page, effects, tries, crashes>>, Fault \/ UNCHANGED faults,
           staging' \in [Commands -> {"none", "staged", "published", "cleaned", "discarded"}],
           \A d \in Commands \ {c} : staging'[d] = staging[d],
           saved' \in [by : Commands \cup {None}, synced : BOOLEAN],
           \A d \in Commands \ {c} : Saved(d) => Saved(d)', DownloadInv(c)'
    PROVE  ExecutorInv'
  <1>1. Running(c) BY Zenon DEF Running
  <1>2. /\ run[c].kind # None /\ TypeOK
        /\ run[c] \in RunType /\ PageOK(page) /\ CommandInv(c) /\ JournalInv(journal)
    BY <1>1, RunningFacts, Zenon
  <1>3. run'[c] = r BY <1>2, Zenon DEF TypeOK
  <1>4. /\ run[c].did \in Nat /\ r.did \in Nat /\ run[c].did <= page.dom /\ page.dom \in Nat
        /\ (run[c].did > 0 => Changes(run[c].kind))
    BY <1>2, Zenon DEF RunOK, RunType, CommandInv, RunInv, PageOK
  <1>5. RunInv(c)'
    <2>1. r.did <= page.dom /\ (r.did > 0 => Changes(run[c].kind)) BY <1>4
    <2> QED BY <1>2, <1>3, <2>1, Zenon DEF CommandInv, RunInv
  <1>6. CountInv(c)' BY <1>2, <1>3, Zenon DEF CommandInv, CountInv, Mutates, Early
  <1>7. ForgetInv(c)' BY <1>2, <1>3, <1>4 DEF CommandInv, ForgetInv
  <1>8. AnswerInv(c)' BY <1>3, Zenon DEF AnswerInv
  <1>9. CommandInv(c)' BY <1>5, <1>6, <1>7, <1>8, Zenon DEF CommandInv
  <1>10. JournalInv(journal') /\ \A d \in Commands \ {c} : NotGrown(journal, journal', d)
    BY <1>2, NoJournalStep, Zenon
  <1>12. /\ effects' \in [Commands -> Nat] /\ \A d \in Commands \ {c} : effects'[d] = effects[d]
         /\ tries' \in [Commands -> 0..MaxAttempts]
         /\ \A d \in Commands \ {c} : tries'[d] = tries[d]
         /\ crashes' \in 0..MaxCrashes
    BY <1>2, Zenon DEF TypeOK
  <1>13. PageStep(page, page') /\ faults' \in 0..MaxFaults BY <1>2, PageStays, FaultCounted, Zenon
  <1> QED BY <1>9, <1>10, <1>12, <1>13, OneCommandSteps, Zenon

\* commit
LEMMA CommitInv ==
    ASSUME ExecutorInv, NEW c \in Commands, commit(c) PROVE ExecutorInv'
  <1>1. /\ run[c].at = "publish" /\ Running(c)
        /\ UNCHANGED <<journal, page, effects, tries, crashes>>
    BY Zenon DEF commit, Running
  <1>2. /\ run[c].outcome # "completed" /\ run[c].kind # None /\ TypeOK /\ RunOK(run[c])
        /\ run[c] \in RunType /\ CommandInv(c) /\ JournalInv(journal)
    BY <1>1, RunningFacts, Zenon
  <1>n. c # None /\ None # "completed" BY ExecutorAssumption, Zenon DEF CommandOutcome
  <1>d. run[c].kind = "download" => staging[c] = "staged"
    BY <1>1, <1>2, Zenon DEF CommandInv, DownloadInv
  <1>t. /\ staging \in [Commands -> {"none", "staged", "published", "cleaned", "discarded"}]
        /\ saved \in [by : Commands \cup {None}, synced : BOOLEAN]
    BY <1>2, Zenon DEF TypeOK
  <1> DEFINE on == IF run[c].live THEN Moved(c, "commit") ELSE Gone(c)
             no == Answered(c, "reconcile")
  <1>3. /\ RunOK(on) /\ on.kind = run[c].kind /\ on.at \in {"commit", "gone"}
        /\ on.outcome # "completed" /\ (on.did = run[c].did \/ on.did = 0)
    <2>1. CASE run[c].live
      <3>1. "commit" \in Points BY Zenon DEF Points
      <3>2. /\ RunOK(Moved(c, "commit")) /\ Moved(c, "commit").kind = run[c].kind
            /\ Moved(c, "commit").at = "commit"
            /\ Moved(c, "commit").outcome = run[c].outcome /\ Moved(c, "commit").did = run[c].did
        BY <1>2, <2>1, <3>1, MovedFields
      <3> QED BY <1>2, <2>1, <3>2, Zenon
    <2>2. CASE ~run[c].live BY <1>2, <1>n, <2>2, GoneFields, Zenon
    <2> QED BY <2>1, <2>2, Zenon
  <1>4. /\ RunOK(no) /\ no.kind = run[c].kind /\ no.at \in {"done", "gone"}
        /\ no.outcome # "completed" /\ (no.did = run[c].did \/ no.did = 0)
    <2>1. "reconcile" \in CommandOutcome BY Zenon DEF CommandOutcome
    <2> QED BY <1>2, <1>n, <2>1, AnsweredFields
  <1>5. \/ /\ run[c].kind = "inspect" /\ run' = [run EXCEPT ![c] = on]
           /\ UNCHANGED <<staging, saved, faults>>
        \/ /\ run[c].kind = "download" /\ saved.by = None /\ publish(c)
           /\ run' = [run EXCEPT ![c] = on] /\ UNCHANGED faults
        \/ /\ run[c].kind = "download" /\ run' = [run EXCEPT ![c] = no]
           /\ UNCHANGED <<staging, saved, faults>>
        \/ /\ run[c].kind = "download" /\ saved.by = None /\ Fault
           /\ run' = [run EXCEPT ![c] = no]
           /\ saved' \in {saved, [by |-> c, synced |-> FALSE]} /\ UNCHANGED staging
    BY Zenon DEF commit, Go
  <1> HIDE DEF on, no
  <1>6. CASE /\ run[c].kind = "inspect" /\ run' = [run EXCEPT ![c] = on]
             /\ UNCHANGED <<staging, saved, faults>>
    <2>1. run'[c] = on BY <1>2, <1>6, Zenon DEF TypeOK
    <2>2. DownloadInv(c)' BY <1>1, <1>2, <1>3, <1>6, <2>1, Zenon DEF CommandInv, DownloadInv, Saved
    <2>3. \A d \in Commands \ {c} : Saved(d) => Saved(d)' BY <1>6, Zenon DEF Saved
    <2> QED BY <1>1, <1>3, <1>6, <1>t, <2>2, <2>3, CommitStep, Zenon
  <1>7. CASE /\ run[c].kind = "download" /\ saved.by = None /\ publish(c)
             /\ run' = [run EXCEPT ![c] = on] /\ UNCHANGED faults
    <2>1. run'[c] = on BY <1>2, <1>7, Zenon DEF TypeOK
    <2>2. /\ saved' = [by |-> c, synced |-> TRUE] /\ staging' = [staging EXCEPT ![c] = "published"]
      BY <1>7, Zenon DEF publish
    <2>3. Saved(c)' /\ staging'[c] = "published" BY <1>t, <2>2, Zenon DEF Saved
    <2>4. DownloadInv(c)' BY <1>3, <2>1, <2>3, Zenon DEF DownloadInv
    <2>5. \A d \in Commands \ {c} : Saved(d) => Saved(d)'
      BY <1>7, ExecutorAssumption, Zenon DEF Saved
    <2>6. /\ staging' \in [Commands -> {"none", "staged", "published", "cleaned", "discarded"}]
          /\ \A d \in Commands \ {c} : staging'[d] = staging[d]
          /\ saved' \in [by : Commands \cup {None}, synced : BOOLEAN]
      BY <1>t, <2>2, Zenon
    <2> QED BY <1>1, <1>3, <1>7, <2>4, <2>5, <2>6, CommitStep, Zenon
  <1>8. CASE /\ run[c].kind = "download" /\ run' = [run EXCEPT ![c] = no]
             /\ UNCHANGED <<staging, saved, faults>>
    <2>1. run'[c] = no BY <1>2, <1>8, Zenon DEF TypeOK
    <2>2. DownloadInv(c)' BY <1>1, <1>2, <1>4, <1>8, <2>1, Zenon DEF CommandInv, DownloadInv, Saved
    <2>3. \A d \in Commands \ {c} : Saved(d) => Saved(d)' BY <1>8, Zenon DEF Saved
    <2> QED BY <1>1, <1>4, <1>8, <1>t, <2>2, <2>3, CommitStep, Zenon
  <1>9. CASE /\ run[c].kind = "download" /\ saved.by = None /\ Fault
             /\ run' = [run EXCEPT ![c] = no]
             /\ saved' \in {saved, [by |-> c, synced |-> FALSE]} /\ UNCHANGED staging
    <2>1. run'[c] = no BY <1>2, <1>9, Zenon DEF TypeOK
    <2>2. \A d \in Commands : ~Saved(d) BY <1>9, ExecutorAssumption, Zenon DEF Saved
    <2>3. DownloadInv(c)' BY <1>1, <1>2, <1>4, <1>9, <1>d, <2>1, <2>2, Zenon DEF CommandInv, DownloadInv
    <2>4. saved' \in [by : Commands \cup {None}, synced : BOOLEAN]
      <3>1. [by |-> c, synced |-> FALSE] \in [by : Commands \cup {None}, synced : BOOLEAN] BY Zenon
      <3> QED BY <1>9, <1>t, <3>1, Zenon
    <2>5. \A d \in Commands \ {c} : staging'[d] = staging[d] BY <1>9, Zenon
    <2> QED BY <1>1, <1>4, <1>9, <1>t, <2>2, <2>3, <2>4, <2>5, CommitStep, Zenon
  <1> QED BY <1>5, <1>6, <1>7, <1>8, <1>9, Zenon

\* A command is admitted or turned away.
LEMMA AdmitStep ==
    ASSUME ExecutorInv, NEW c \in Commands, NEW k \in AllKinds,
           run[c].at = "idle" \/ (run[c].at \in {"done", "gone"} /\ run[c].kind = k),
           tries[c] < MaxAttempts, tries' = [tries EXCEPT ![c] = @ + 1],
           NEW r, RunOK(r), run' = [run EXCEPT ![c] = r], r.kind = k,
           r.at \in {"accepted", "done"}, r.outcome # "completed", r.did = 0,
           UNCHANGED <<journal, page, staging, saved, effects, crashes>>,
           Fault \/ UNCHANGED faults
    PROVE  ExecutorInv'
  <1>1. CommandInv(c) /\ JournalInv(journal) /\ TypeOK BY Zenon DEF ExecutorInv
  <1>2. PageOK(page) /\ run[c] \in RunType BY <1>1, TypesOf, Zenon
  <1>3. run'[c] = r BY <1>1, Zenon DEF TypeOK
  <1>4. /\ tries[c] \in Nat /\ effects[c] \in Nat /\ tries'[c] = tries[c] + 1
        /\ tries' \in [Commands -> 0..MaxAttempts]
        /\ \A d \in Commands \ {c} : tries'[d] = tries[d]
    BY <1>1, ExecutorAssumption DEF TypeOK
  <1>k. k # None BY ExecutorAssumption, Zenon
  <1>5. \/ run[c].at = "idle" /\ effects[c] = 0 /\ journal.lines[c] = <<>>
        \/ run[c].kind = k
    BY <1>1, Zenon DEF CommandInv, RunInv
  <1>6. RunInv(c)'
    <2>1. 0 <= page.dom BY <1>2 DEF PageOK
    <2> QED BY <1>1, <1>3, <1>5, <1>k, <2>1 DEF CommandInv, RunInv
  <1>7. CountInv(c)'
    <2>1. Mutates(c)' => effects[c] <= tries[c]
      <3>1. CASE run[c].at = "idle" /\ effects[c] = 0 BY <1>4, <3>1
      <3>2. CASE run[c].kind = k BY <1>1, <1>3, <3>2, Zenon DEF CommandInv, CountInv, Mutates
      <3> QED BY <1>5, <3>1, <3>2, Zenon
    <2>2. Mutates(c)' => effects[c] < tries'[c] /\ effects[c] <= tries'[c] BY <1>4, <2>1
    <2> QED BY <2>2, Zenon DEF CountInv
  <1>8. ForgetInv(c)'
    <2>1. ~(r.did > 0) OBVIOUS
    <2> QED BY <1>3, <2>1, Zenon DEF ForgetInv
  <1>9. AnswerInv(c)' BY <1>3, Zenon DEF AnswerInv
  <1>10. DownloadInv(c)'
    <2>1. journal.lines[c] = <<>> => \A p : ~HasPhase(journal, c, p) BY DEF HasPhase
    <2> QED BY <1>1, <1>3, <1>5, <2>1, Zenon DEF CommandInv, DownloadInv, Saved
  <1>11. CommandInv(c)' BY <1>6, <1>7, <1>8, <1>9, <1>10, Zenon DEF CommandInv
  <1>12. JournalInv(journal') /\ \A d \in Commands \ {c} : NotGrown(journal, journal', d)
    BY <1>1, NoJournalStep, Zenon
  <1>13. \A d \in Commands \ {c} : Saved(d) => Saved(d)' BY Zenon DEF Saved
  <1>14. /\ staging' \in [Commands -> {"none", "staged", "published", "cleaned", "discarded"}]
         /\ \A d \in Commands \ {c} : staging'[d] = staging[d]
         /\ saved' \in [by : Commands \cup {None}, synced : BOOLEAN]
         /\ effects' \in [Commands -> Nat] /\ \A d \in Commands \ {c} : effects'[d] = effects[d]
         /\ crashes' \in 0..MaxCrashes
    BY <1>1, Zenon DEF TypeOK
  <1>15. PageStep(page, page') /\ faults' \in 0..MaxFaults BY <1>1, <1>2, PageStays, FaultCounted, Zenon
  <1> QED BY <1>4, <1>11, <1>12, <1>13, <1>14, <1>15, OneCommandSteps, Zenon

\* submit
LEMMA SubmitInv ==
    ASSUME ExecutorInv, NEW c \in Commands, NEW k \in Kinds[c], submit(c, k) PROVE ExecutorInv'
  <1> DEFINE r == [NotRunning EXCEPT !.at = "accepted", !.kind = k, !.live = TRUE]
  <1>1. k \in AllKinds BY ExecutorAssumption, Zenon
  <1>2. RunOK(r) /\ r.at = "accepted" /\ r.kind = k /\ r.outcome = None /\ r.did = 0
    <2>1. "accepted" \in Points BY Zenon DEF Points, CommandPhase
    <2>2. r \in RunType BY <1>1, <2>1, NotRunningFields, Zenon DEF RunType
    <2>3. /\ r.at = "accepted" /\ r.kind = k /\ r.outcome = NotRunning.outcome
          /\ r.did = NotRunning.did /\ r.live
      BY NotRunningFields, Zenon DEF RunType
    <2> QED BY <2>2, <2>3, NotRunningFields, Zenon DEF RunOK
  <1>3. /\ run' = [run EXCEPT ![c] = r]
        /\ run[c].at = "idle" \/ (run[c].at \in {"done", "gone"} /\ run[c].kind = k)
        /\ tries[c] < MaxAttempts /\ tries' = [tries EXCEPT ![c] = @ + 1]
        /\ UNCHANGED <<journal, page, staging, saved, effects, crashes>> /\ UNCHANGED faults
    BY Zenon DEF submit, Go
  <1>4. r.outcome # "completed" BY <1>2, ExecutorAssumption, Zenon DEF CommandOutcome
  <1> HIDE DEF r
  <1> QED BY <1>1, <1>2, <1>3, <1>4, AdmitStep, Zenon

\* refuse
LEMMA RefuseInv ==
    ASSUME ExecutorInv, NEW c \in Commands, NEW k \in Kinds[c], refuse(c, k) PROVE ExecutorInv'
  <1> DEFINE r == [NotRunning EXCEPT !.at = "done", !.kind = k, !.live = TRUE, !.outcome = "failed"]
  <1>1. k \in AllKinds BY ExecutorAssumption, Zenon
  <1>2. RunOK(r) /\ r.at = "done" /\ r.kind = k /\ r.outcome = "failed" /\ r.did = 0
    <2>1. "done" \in Points /\ "failed" \in CommandOutcome BY Zenon DEF Points, CommandOutcome
    <2>2. r \in RunType BY <1>1, <2>1, NotRunningFields, Zenon DEF RunType
    <2>3. /\ r.at = "done" /\ r.kind = k /\ r.outcome = "failed"
          /\ r.did = NotRunning.did /\ r.live
      BY NotRunningFields, Zenon DEF RunType
    <2> QED BY <2>2, <2>3, NotRunningFields, Zenon DEF RunOK
  <1>3. /\ run' = [run EXCEPT ![c] = r] /\ run[c].at = "idle"
        /\ tries[c] < MaxAttempts /\ tries' = [tries EXCEPT ![c] = @ + 1]
        /\ UNCHANGED <<journal, page, staging, saved, effects, crashes>> /\ Fault
    BY Zenon DEF refuse, Go
  <1> HIDE DEF r
  <1> QED BY <1>1, <1>2, <1>3, AdmitStep, Zenon

\* What is appended is a record: its phase is where the command is, and it has an
\* outcome just when the command ends.
LEMMA RecordFields ==
    ASSUME ExecutorInv, NEW c \in Commands, run[c].at \in CommandPhase
    PROVE  /\ Record(c) \in JournalRecord /\ Record(c).phase = run[c].at
           /\ run[c].at = "completed" => Record(c).outcome = "completed"
           /\ run[c].at = "failed" => Record(c).outcome = run[c].outcome
           /\ run[c].at \in {"completed", "failed"} => Record(c).outcome \in CommandOutcome
  <1>1. Running(c) BY Zenon DEF CommandPhase, Running
  <1>2. run[c] \in RunType /\ CommandInv(c) BY <1>1, RunningFacts, Zenon
  <1>3. run[c].outcome \in CommandOutcome \cup {None} BY <1>2, Zenon DEF RunType
  <1> DEFINE o == CASE run[c].at = "completed" -> "completed"
                    [] run[c].at = "failed" -> run[c].outcome
                    [] OTHER -> None
  <1>4. Record(c) = [phase |-> run[c].at, outcome |-> o] BY Zenon DEF Record
  <1>5. /\ o \in CommandOutcome \cup {None}
        /\ run[c].at = "completed" => o = "completed"
        /\ run[c].at = "failed" => o = run[c].outcome
    <2>1. CASE run[c].at = "completed" BY <2>1, Zenon DEF CommandOutcome
    <2>2. CASE run[c].at = "failed" BY <1>3, <2>2, Zenon
    <2>3. CASE run[c].at \notin {"completed", "failed"} BY <2>3, Zenon
    <2> QED BY <2>1, <2>2, <2>3, Zenon
  <1>6. run[c].at \in {"completed", "failed"} => o \in CommandOutcome
    BY <1>2, <1>5, Zenon DEF CommandInv, RunInv, CommandOutcome
  <1> HIDE DEF o
  <1> QED BY <1>4, <1>5, <1>6 DEF JournalRecord

\* What an append can do with the files: a published download is cleaned up, one
\* that was not recorded is discarded.
FilesAfterAppend(c) ==
    /\ \/ UNCHANGED staging
       \/ staging[c] = "published" /\ staging' = [staging EXCEPT ![c] = "cleaned"]
       \/ staging[c] = "staged" /\ staging' = [staging EXCEPT ![c] = "discarded"]
    /\ saved' \in {saved, [saved EXCEPT !.synced = TRUE]}

\* A step that appends, or fails to.
LEMMA AppendStep ==
    ASSUME ExecutorInv, NEW c \in Commands, run[c].at \in CommandPhase,
           JournalStep(journal, journal', c, Record(c)), FilesAfterAppend(c),
           NEW r, RunOK(r), run' = [run EXCEPT ![c] = r], r.kind = run[c].kind,
           r.at \in {"prepared", "executing", "lease", "publish", "verify", "done", "gone"},
           r.at \in Early => run[c].at \in Early,
           r.did = run[c].did \/ r.did = 0,
           r.outcome = "completed" => r.at = "done" /\ CompletedLast(journal', c),
           r.at = "publish" => run[c].at = "resultPrepared" /\ UNCHANGED staging,
           r.at = "verify" => run[c].at = "verifying",
           UNCHANGED <<page, effects, tries, crashes>>, Fault \/ UNCHANGED faults
    PROVE  ExecutorInv'
  <1>1. Running(c) BY Zenon DEF Running, CommandPhase
  <1>2. /\ run[c].kind # None /\ TypeOK
        /\ run[c] \in RunType /\ PageOK(page) /\ CommandInv(c) /\ JournalInv(journal)
    BY <1>1, RunningFacts, Zenon
  <1>3. run'[c] = r BY <1>2, Zenon DEF TypeOK
  <1>4. /\ JournalInv(journal') /\ \A d \in Commands \ {c} : NotGrown(journal, journal', d)
        /\ NotGrown(journal, journal', c) \/ Grown(journal, journal', c, Record(c))
    BY Zenon DEF JournalStep
  <1>5. Record(c).phase = run[c].at BY RecordFields, Zenon
  <1>6. \A p : HasPhase(journal', c, p) => HasPhase(journal, c, p) \/ run[c].at = p
    BY <1>2, <1>4, <1>5, PhaseStep, GrownPhase
  <1>7. OutcomeKept(journal, c) => OutcomeKept(journal', c) BY <1>2, <1>4, OutcomeStep, Zenon
  <1>8. \A d \in Commands : Saved(d) => Saved(d)'
    BY <1>2 DEF FilesAfterAppend, Saved, TypeOK
  <1>9. saved' \in [by : Commands \cup {None}, synced : BOOLEAN]
    BY <1>2, Zenon DEF FilesAfterAppend, TypeOK
  <1>10. /\ staging' \in [Commands -> {"none", "staged", "published", "cleaned", "discarded"}]
         /\ \A d \in Commands \ {c} : staging'[d] = staging[d]
         /\ \/ staging'[c] = staging[c]
            \/ staging[c] = "published" /\ staging'[c] = "cleaned"
            \/ staging[c] = "staged" /\ staging'[c] = "discarded"
    BY <1>2 DEF FilesAfterAppend, TypeOK
  <1>11. RunInv(c)'
    <2>1. /\ run[c].did \in Nat /\ r.did \in Nat /\ run[c].did <= page.dom /\ page.dom \in Nat
          /\ (run[c].did > 0 => Changes(run[c].kind))
      BY <1>2, Zenon DEF RunOK, RunType, CommandInv, RunInv, PageOK
    <2>2. r.did <= page.dom /\ (r.did > 0 => Changes(run[c].kind)) BY <2>1
    <2> QED BY <1>2, <1>3, <2>2, Zenon DEF CommandInv, RunInv
  <1>12. CountInv(c)' BY <1>2, <1>3, Zenon DEF CommandInv, CountInv, Mutates
  <1>13. ForgetInv(c)'
    <2>1. run[c].at \notin {"attempt", "acted", "recover"} BY Zenon DEF CommandPhase
    <2>2. run[c].did > 0 /\ page.observed = page.generation => page.recorded >= run[c].did
      BY <1>2, <2>1, Zenon DEF CommandInv, ForgetInv
    <2> QED BY <1>3, <2>2 DEF ForgetInv
  <1>14. AnswerInv(c)' BY <1>3, Zenon DEF AnswerInv
  <1>15. DownloadInv(c)'
    <2>1. DownloadInv(c) BY <1>2, Zenon DEF CommandInv
    <2>2. staging'[c] = "published" => Saved(c)' BY <1>8, <1>10, <2>1, Zenon DEF DownloadInv
    <2>3. staging'[c] = "cleaned" => Saved(c)' \/ OutcomeKept(journal', c)
      BY <1>7, <1>8, <1>10, <2>1, Zenon DEF DownloadInv
    <2>4. ASSUME run[c].kind = "download"
          PROVE  /\ r.at \in {"resultPrepared", "publish"} => staging'[c] = "staged"
                 /\ r.at \in {"commit", "verifying", "verify", "completed"} => Saved(c)'
                 /\ HasPhase(journal', c, "completed") => Saved(c)'
                 /\ HasPhase(journal', c, "resultPrepared") => staging'[c] # "none"
      <3>1. r.at \in {"resultPrepared", "publish"} => staging'[c] = "staged"
        BY <2>1, <2>4, Zenon DEF DownloadInv
      <3>2. r.at \in {"commit", "verifying", "verify", "completed"} => Saved(c)'
        BY <1>8, <2>1, <2>4, Zenon DEF DownloadInv
      <3>3. HasPhase(journal', c, "completed") => Saved(c)'
        BY <1>6, <1>8, <2>1, <2>4, Zenon DEF DownloadInv
      <3>4. HasPhase(journal', c, "resultPrepared") => staging'[c] # "none"
        BY <1>6, <1>10, <2>1, <2>4, Zenon DEF DownloadInv
      <3> QED BY <3>1, <3>2, <3>3, <3>4, Zenon
    <2> QED BY <1>3, <2>2, <2>3, <2>4, Zenon DEF DownloadInv
  <1>16. CommandInv(c)' BY <1>11, <1>12, <1>13, <1>14, <1>15, Zenon DEF CommandInv
  <1>17. /\ effects' \in [Commands -> Nat] /\ \A d \in Commands \ {c} : effects'[d] = effects[d]
         /\ tries' \in [Commands -> 0..MaxAttempts]
         /\ \A d \in Commands \ {c} : tries'[d] = tries[d]
         /\ crashes' \in 0..MaxCrashes
    BY <1>2, Zenon DEF TypeOK
  <1>18. PageStep(page, page') /\ faults' \in 0..MaxFaults BY <1>2, PageStays, FaultCounted, Zenon
  <1> QED BY <1>4, <1>8, <1>9, <1>10, <1>16, <1>17, <1>18, OneCommandSteps, Zenon

\* append_ok
LEMMA AppendOkInv ==
    ASSUME ExecutorInv, NEW c \in Commands, append_ok(c) PROVE ExecutorInv'
  <1>1. /\ run[c].at \in CommandPhase /\ Running(c)
        /\ journal' \in Appended(journal, c, Record(c))
        /\ UNCHANGED <<page, effects, tries, faults, crashes>>
    BY Zenon DEF append_ok, CommandPhase, Running
  <1>2. /\ run[c].outcome # "completed" /\ TypeOK /\ RunOK(run[c])
        /\ CommandInv(c) /\ JournalInv(journal)
    BY <1>1, RunningFacts, Zenon
  <1>3. /\ Record(c) \in JournalRecord /\ Record(c).phase = run[c].at
        /\ run[c].at = "completed" => Record(c).outcome = "completed"
        /\ run[c].at = "failed" => Record(c).outcome = run[c].outcome
        /\ run[c].at \in {"completed", "failed"} => Record(c).outcome \in CommandOutcome
    BY <1>1, RecordFields, Zenon
  <1>4. /\ JournalStep(journal, journal', c, Record(c)) /\ Grown(journal, journal', c, Record(c))
        /\ journal'.unsynced = None /\ JournalInv(journal')
    BY <1>1, <1>2, <1>3, AppendedStep DEF JournalStep
  <1>5. CASE run[c].at \in {"completed", "failed"}
    <2> DEFINE r == Answered(c, Record(c).outcome)
    <2>1. /\ RunOK(r) /\ r.kind = run[c].kind
          /\ \/ r.at = "gone" /\ r.outcome = None /\ r.did = 0
             \/ r.at = "done" /\ r.outcome = Record(c).outcome /\ r.did = run[c].did
      BY <1>2, <1>3, <1>5, AnsweredFields, Zenon
    <2>2. run' = [run EXCEPT ![c] = r] BY <1>5, Zenon DEF append_ok, Go
    <2>3. FilesAfterAppend(c) BY <1>5, Zenon DEF append_ok, FilesAfterAppend, cleanup
    <2>4. r.outcome = "completed" => r.at = "done" /\ CompletedLast(journal', c)
      <3>1. r.outcome = "completed" => r.at = "done" /\ Record(c).outcome = "completed"
        BY <2>1, ExecutorAssumption, Zenon DEF CommandOutcome
      <3>2. /\ Len(journal'.lines[c]) = Len(journal.lines[c]) + 1
            /\ Len(journal.lines[c]) \in Nat
            /\ journal'.lines[c][Len(journal.lines[c]) + 1] = Record(c)
        BY <1>2, <1>4, GrownLines
      <3>3. journal'.lines[c] # <<>> BY <1>4, <3>2, LinesAreSequences
      <3>4. journal'.unsynced # c BY <1>4, ExecutorAssumption, Zenon
      <3> QED BY <3>1, <3>2, <3>3, <3>4, Zenon DEF CompletedLast
    <2> HIDE DEF r
    <2> QED BY <1>1, <1>4, <2>1, <2>2, <2>3, <2>4, AppendStep, Zenon DEF Early
  <1>6. CASE run[c].at \notin {"completed", "failed"}
    <2> DEFINE x == FollowedBy(run[c].at)
               r == IF run[c].live \/ run[c].at = "resultPrepared" THEN Moved(c, x) ELSE Gone(c)
    <2>1. /\ run' = [run EXCEPT ![c] = r] /\ UNCHANGED <<staging, saved>>
      BY <1>6, Zenon DEF append_ok, Go
    <2>2. \/ run[c].at = "accepted" /\ x = "prepared"
          \/ run[c].at = "prepared" /\ x = "executing"
          \/ run[c].at = "executing" /\ x = "lease"
          \/ run[c].at = "resultPrepared" /\ x = "publish"
          \/ run[c].at = "verifying" /\ x = "verify"
      BY <1>1, <1>6, Zenon DEF FollowedBy, CommandPhase
    <2>3. x \in Points BY <2>2, Zenon DEF Points, CommandPhase
    <2> HIDE DEF x
    <2>4. \/ /\ RunOK(r) /\ r.kind = run[c].kind /\ r.at = x
             /\ r.outcome = run[c].outcome /\ r.did = run[c].did
          \/ /\ RunOK(r) /\ r.kind = run[c].kind /\ r.at = "gone"
             /\ r.outcome = None /\ r.did = 0
      <3>1. CASE run[c].live \/ run[c].at = "resultPrepared"
        <4>1. run[c].live \/ x \in CommandPhase \cup {"publish"} BY <2>2, <3>1, Zenon
        <4>2. r = Moved(c, x) BY <3>1, Zenon
        <4> HIDE DEF r
        <4> QED BY <1>2, <2>3, <4>1, <4>2, MovedFields, Zenon
      <3>2. CASE ~(run[c].live \/ run[c].at = "resultPrepared")
        <4>1. r = Gone(c) BY <3>2, Zenon
        <4> HIDE DEF r
        <4> QED BY <1>2, <4>1, GoneFields, Zenon
      <3> QED BY <3>1, <3>2, Zenon
    <2> HIDE DEF r
    <2>5. r.outcome # "completed" BY <1>2, <2>4, ExecutorAssumption, Zenon DEF CommandOutcome
    <2>6. FilesAfterAppend(c) BY <2>1, Zenon DEF FilesAfterAppend
    <2>7. /\ RunOK(r) /\ r.kind = run[c].kind
          /\ r.at \in {"prepared", "executing", "lease", "publish", "verify", "done", "gone"}
          /\ r.at \in Early => run[c].at \in Early
          /\ r.did = run[c].did \/ r.did = 0
          /\ r.at = "publish" => run[c].at = "resultPrepared" /\ UNCHANGED staging
          /\ r.at = "verify" => run[c].at = "verifying"
      BY <2>1, <2>2, <2>4, Zenon DEF Early
    <2> QED BY <1>1, <1>4, <2>1, <2>5, <2>6, <2>7, AppendStep, Zenon
  <1> QED BY <1>5, <1>6, Zenon

\* append_fails
LEMMA AppendFailsInv ==
    ASSUME ExecutorInv, NEW c \in Commands, append_fails(c) PROVE ExecutorInv'
  <1> DEFINE x == IF run[c].at = "resultPrepared" THEN "reconcile"
                  ELSE journal_failure(run[c].kind,
                                       run[c].at \in {"verifying", "completed", "failed"})
             r == Answered(c, x)
  <1>1. /\ run[c].at \in CommandPhase /\ Running(c)
        /\ journal' \in Refused(journal, c) \/ journal' \in Botched(journal, c, Record(c))
        /\ Fault \/ UNCHANGED faults
        /\ run' = [run EXCEPT ![c] = r]
        /\ UNCHANGED <<page, effects, tries, crashes>>
    BY Zenon DEF append_fails, CommandPhase, Running, Go
  <1>2. TypeOK /\ RunOK(run[c]) /\ JournalInv(journal) BY <1>1, RunningFacts, Zenon
  <1>3. Record(c) \in JournalRecord BY <1>1, RecordFields, Zenon
  <1>4. JournalStep(journal, journal', c, Record(c))
    BY <1>1, <1>2, <1>3, RefusedStep, BotchedStep, Zenon
  <1>5. x \in CommandOutcome \ {"completed"} BY Zenon DEF journal_failure, CommandOutcome
  <1>6. FilesAfterAppend(c) BY Zenon DEF append_fails, FilesAfterAppend, cleanup
  <1> HIDE DEF x
  <1>7. /\ RunOK(r) /\ r.kind = run[c].kind
        /\ \/ r.at = "gone" /\ r.outcome = None /\ r.did = 0
           \/ r.at = "done" /\ r.outcome = x /\ r.did = run[c].did
    BY <1>2, <1>5, AnsweredFields, Zenon
  <1> HIDE DEF r
  <1>8. r.outcome # "completed" BY <1>5, <1>7, ExecutorAssumption, Zenon DEF CommandOutcome
  <1>9. /\ r.at \in {"prepared", "executing", "lease", "publish", "verify", "done", "gone"}
        /\ r.at \notin Early /\ r.at \notin {"publish", "verify"}
        /\ r.did = run[c].did \/ r.did = 0
    BY <1>7, Zenon DEF Early
  <1> QED BY <1>1, <1>4, <1>6, <1>7, <1>8, <1>9, AppendStep, Zenon

\* What recover_command can do with the files: a download whose outcome is recorded
\* or whose file is saved is cleaned up, and one that was prepared is saved.
FilesAfterRecovery(c, j) ==
    \/ UNCHANGED <<staging, saved>>
    \/ /\ staging' = [staging EXCEPT ![c] = "cleaned"]
       /\ \/ HasOutcome(j, c) /\ saved' = [saved EXCEPT !.synced = TRUE]
          \/ saved.by = c /\ saved' = [saved EXCEPT !.synced = TRUE]
          \/ saved.by = None /\ saved' = [by |-> c, synced |-> TRUE]

\* recover_command
LEMMA RecoverCommandInv ==
    ASSUME ExecutorInv, NEW c \in Commands, recover_command(c) PROVE ExecutorInv'
  <1> DEFINE j == refresh(journal)
  <1>1. /\ run[c].at \in {"done", "gone"} /\ journal' = j /\ FilesAfterRecovery(c, j)
        /\ UNCHANGED <<run, page, effects, tries, faults, crashes>>
    BY Zenon DEF recover_command, FilesAfterRecovery, cleanup
  <1>2. CommandInv(c) /\ JournalInv(journal) /\ TypeOK BY Zenon DEF ExecutorInv
  <1>3. PageOK(page) /\ RunOK(run[c]) BY <1>2, TypesOf, Zenon
  <1>4. JournalInv(journal') /\ \A d \in Commands : NotGrown(journal, journal', d)
    BY <1>1, <1>2, RefreshIsStep, Zenon
  <1>5. journal'.unsynced # c BY <1>1, <1>2, RefreshStep, ExecutorAssumption, Zenon
  <1> HIDE DEF j
  <1>6. PageStep(page, page') BY <1>1, <1>3, PageStays, Zenon
  <1>7. \A d \in Commands : Saved(d) => Saved(d)'
    BY <1>1, <1>2, ExecutorAssumption DEF FilesAfterRecovery, Saved, TypeOK
  <1>8. saved' \in [by : Commands \cup {None}, synced : BOOLEAN]
    <2>1. saved \in [by : Commands \cup {None}, synced : BOOLEAN] BY <1>2, Zenon DEF TypeOK
    <2>2. [saved EXCEPT !.synced = TRUE] \in [by : Commands \cup {None}, synced : BOOLEAN] BY <2>1, Zenon
    <2>3. [by |-> c, synced |-> TRUE] \in [by : Commands \cup {None}, synced : BOOLEAN] BY Zenon
    <2> QED BY <1>1, <2>1, <2>2, <2>3, Zenon DEF FilesAfterRecovery
  <1>9. /\ staging' \in [Commands -> {"none", "staged", "published", "cleaned", "discarded"}]
        /\ \A d \in Commands \ {c} : staging'[d] = staging[d]
        /\ staging'[c] = staging[c] \/ staging'[c] = "cleaned"
    BY <1>1, <1>2 DEF FilesAfterRecovery, TypeOK
  <1>10. staging'[c] = staging[c] \/ Saved(c)' \/ OutcomeKept(journal', c)
    <2>1. CASE UNCHANGED <<staging, saved>> BY <2>1, Zenon
    <2>2. CASE HasOutcome(j, c)
      BY <1>1, <1>5, <2>2, Zenon DEF HasOutcome, OutcomeKept, Synced
    <2>3. CASE saved.by = c /\ saved' = [saved EXCEPT !.synced = TRUE]
      BY <1>2, <2>3, Zenon DEF Saved, TypeOK
    <2>4. CASE saved' = [by |-> c, synced |-> TRUE] BY <2>4, Zenon DEF Saved
    <2> QED BY <1>1, <2>1, <2>2, <2>3, <2>4, Zenon DEF FilesAfterRecovery
  <1>11. RunInv(c)' /\ CountInv(c)' /\ ForgetInv(c)' /\ AnswerInv(c)'
    BY <1>1, <1>4, <1>6, UnmovedKeeps, Zenon
  <1>12. DownloadInv(c)'
    <2>1. DownloadInv(c) /\ run'[c] = run[c] BY <1>1, <1>2, Zenon DEF CommandInv
    <2>2. \A p : HasPhase(journal', c, p) => HasPhase(journal, c, p) BY <1>2, <1>4, PhaseStep, Zenon
    <2>3. OutcomeKept(journal, c) => OutcomeKept(journal', c) BY <1>2, <1>4, OutcomeStep, Zenon
    <2>4. staging'[c] = "published" => Saved(c)' BY <1>7, <1>9, <2>1, Zenon DEF DownloadInv
    <2>5. staging'[c] = "cleaned" => Saved(c)' \/ OutcomeKept(journal', c)
      BY <1>7, <1>10, <2>1, <2>3, Zenon DEF DownloadInv
    <2>6. run[c].kind = "download" =>
            /\ HasPhase(journal', c, "completed") => Saved(c)'
            /\ HasPhase(journal', c, "resultPrepared") => staging'[c] # "none"
      BY <1>7, <1>9, <2>1, <2>2, Zenon DEF DownloadInv
    <2> QED BY <1>1, <2>1, <2>4, <2>5, <2>6, Zenon DEF DownloadInv
  <1>13. CommandInv(c)' BY <1>11, <1>12, Zenon DEF CommandInv
  <1>14. run' = [run EXCEPT ![c] = run[c]] BY <1>1, <1>2, Zenon DEF TypeOK
  <1>15. /\ effects' \in [Commands -> Nat] /\ \A d \in Commands \ {c} : effects'[d] = effects[d]
         /\ tries' \in [Commands -> 0..MaxAttempts]
         /\ \A d \in Commands \ {c} : tries'[d] = tries[d]
         /\ faults' \in 0..MaxFaults /\ crashes' \in 0..MaxCrashes
    BY <1>1, <1>2, Zenon DEF TypeOK
  <1> QED BY <1>3, <1>4, <1>6, <1>7, <1>8, <1>9, <1>13, <1>14, <1>15, OneCommandSteps, Zenon

\* What a crash leaves of the files: a publication that was under way may be there,
\* and a file whose name was not synced may be gone.
FilesAfterCrash ==
    \/ /\ saved.by = None /\ saved'.by \in Commands /\ saved'.synced
       /\ saved' \in [by : Commands \cup {None}, synced : BOOLEAN]
       /\ staging' \in {staging, [staging EXCEPT ![saved'.by] = "published"]}
    \/ saved' = [saved EXCEPT !.synced = TRUE] /\ UNCHANGED staging
    \/ ~saved.synced /\ saved' = [by |-> None, synced |-> TRUE] /\ UNCHANGED staging

\* The journal and the files after a crash.
LEMMA CrashEffects ==
    ASSUME ExecutorInv, Crash
    PROVE  /\ JournalInv(journal') /\ FilesAfterCrash
           /\ \A d \in Commands :
                 \/ NotGrown(journal, journal', d)
                 \/ /\ run[d].at \in CommandPhase /\ Record(d).phase = run[d].at
                    /\ Grown(journal, journal', d, Record(d))
  <1>1. PICK c \in Commands \cup {None} :
           LET inAppend == c # None /\ run[c].at \in CommandPhase
               inPublish == c # None /\ run[c].at = "publish" /\ run[c].kind = "download"
                            /\ saved.by = None
           IN  /\ c # None => inAppend \/ inPublish
               /\ \E j \in IF inAppend THEN Botched(journal, c, Record(c)) ELSE {journal} :
                     \E k \in AfterPowerLoss(j) : journal' = refresh(k)
               /\ \/ /\ inPublish
                     /\ saved' = [by |-> c, synced |-> TRUE]
                     /\ staging' \in {staging, [staging EXCEPT ![c] = "published"]}
                  \/ /\ saved' \in {[saved EXCEPT !.synced = TRUE]}
                                 \cup (IF saved.synced THEN {}
                                       ELSE {[by |-> None, synced |-> TRUE]})
                     /\ UNCHANGED staging
    BY Zenon DEF Crash
  <1>2. JournalInv(journal) BY Zenon DEF ExecutorInv
  <1>3. FilesAfterCrash
    <2>1. CASE /\ c # None /\ saved.by = None /\ saved' = [by |-> c, synced |-> TRUE]
               /\ staging' \in {staging, [staging EXCEPT ![c] = "published"]}
      BY <2>1, Zenon DEF FilesAfterCrash
    <2>2. CASE /\ saved' \in {[saved EXCEPT !.synced = TRUE]}
                            \cup (IF saved.synced THEN {} ELSE {[by |-> None, synced |-> TRUE]})
               /\ UNCHANGED staging
      BY <2>2, Zenon DEF FilesAfterCrash
    <2> QED BY <1>1, <2>1, <2>2, Zenon
  <1>4. CASE c # None /\ run[c].at \in CommandPhase
    <2>1. c \in Commands BY <1>4, Zenon
    <2>m. PICK m \in Botched(journal, c, Record(c)) :
              \E k \in AfterPowerLoss(m) : journal' = refresh(k)
      BY <1>1, <1>4, Zenon
    <2>2. PICK q \in AfterPowerLoss(m) : journal' = refresh(q) BY <2>m, Zenon
    <2>3. Record(c) \in JournalRecord /\ Record(c).phase = run[c].at BY <1>4, <2>1, RecordFields, Zenon
    <2>4. JournalStep(journal, refresh(q), c, Record(c)) BY <1>2, <2>1, <2>3, CrashStep, Zenon
    <2> QED BY <1>3, <1>4, <2>2, <2>3, <2>4, Zenon DEF JournalStep
  <1>5. CASE ~(c # None /\ run[c].at \in CommandPhase)
    <2>1. PICK q \in AfterPowerLoss(journal) : journal' = refresh(q) BY <1>1, <1>5, Zenon
    <2>2. JournalInv(q) /\ \A d \in Commands : Kept(journal, q, d) \/ Lost(journal, q, d)
      BY <1>2, PowerLossStep, Zenon
    <2>3. /\ JournalInv(refresh(q))
          /\ \A d \in Commands : Kept(q, refresh(q), d) \/ SetAside(q, refresh(q), d)
      BY <2>2, RefreshStep, Zenon
    <2>4. ASSUME NEW d \in Commands PROVE NotGrown(journal, refresh(q), d)
      <3>1. NotGrown(journal, q, d) BY <2>2, Zenon DEF NotGrown
      <3>2. Kept(q, refresh(q), d) \/ SetAside(q, refresh(q), d) BY <2>3, Zenon
      <3> QED BY <1>2, <2>2, <3>1, <3>2, StepThenRefresh, Zenon
    <2> QED BY <1>3, <2>1, <2>3, <2>4, Zenon
  <1> QED BY <1>4, <1>5, Zenon

\* The page of a process that starts.
LEMMA FreshPageOK == PageOK(FreshPage) /\ FreshPage.dom = 0
  <1>1. FreshPage \in [dom : Nat, loaded : Nat, tainted : BOOLEAN, generation : Nat,
                       observed : Nat \cup {None}, recorded : Nat]
    BY Zenon DEF FreshPage
  <1>2. FreshPage.dom = 0 /\ FreshPage.loaded = 0 /\ FreshPage.observed = None
    BY Zenon DEF FreshPage
  <1> QED BY <1>1, <1>2 DEF PageOK

\* Crash
LEMMA CrashInv == ASSUME ExecutorInv, Crash PROVE ExecutorInv'
  <1>1. TypeOK /\ JournalInv(journal) /\ \A c \in Commands : CommandInv(c) BY Zenon DEF ExecutorInv
  <1>2. /\ JournalInv(journal') /\ FilesAfterCrash
        /\ \A d \in Commands :
                 \/ NotGrown(journal, journal', d)
                 \/ /\ run[d].at \in CommandPhase /\ Record(d).phase = run[d].at
                    /\ Grown(journal, journal', d, Record(d))
    BY CrashEffects, Zenon
  <1>c. crashes' \in 0..MaxCrashes
    <2>1. crashes \in Nat /\ MaxCrashes \in Nat BY <1>1, ExecutorAssumption DEF TypeOK
    <2>2. crashes < MaxCrashes /\ crashes' = crashes + 1 BY Zenon DEF Crash
    <2> QED BY <2>1, <2>2
  <1>3. /\ UNCHANGED <<effects, faults>> /\ page' = FreshPage
        /\ tries' = [c \in Commands |-> IF tries[c] = 0 THEN 0 ELSE MaxAttempts]
        /\ run' = [c \in Commands |->
                      IF Running(c) THEN Gone(c)
                      ELSE [run[c] EXCEPT !.did = 0, !.saw = 0, !.due = {}]]
    BY Zenon DEF Crash
  <1>4. ASSUME NEW d \in Commands
        PROVE  /\ RunOK(run'[d]) /\ run'[d].kind = run[d].kind /\ run'[d].did = 0
               /\ \/ Running(d) /\ run'[d].at = "gone" /\ run'[d].outcome = None
                  \/ ~Running(d) /\ run'[d].at = run[d].at /\ run'[d].outcome = run[d].outcome
    <2>1. RunOK(run[d]) /\ run[d] \in RunType BY <1>1, TypesOf, Zenon
    <2>2. CASE Running(d)
      <3>1. run'[d] = Gone(d) BY <1>3, <2>2, Zenon
      <3> QED BY <2>1, <2>2, <3>1, GoneFields, Zenon
    <2>3. CASE ~Running(d)
      <3> DEFINE r == [run[d] EXCEPT !.did = 0, !.saw = 0, !.due = {}]
      <3>1. run'[d] = r BY <1>3, <2>3, Zenon
      <3>2. r \in RunType BY <2>1, Zenon DEF RunType
      <3>3. /\ r.kind = run[d].kind /\ r.did = 0 /\ r.at = run[d].at
            /\ r.outcome = run[d].outcome /\ r.live = run[d].live
        BY <2>1, Zenon DEF RunType
      <3> HIDE DEF r
      <3>4. RunOK(r) BY <2>1, <3>2, <3>3, Zenon DEF RunOK
      <3> QED BY <2>3, <3>1, <3>3, <3>4, Zenon
    <2> QED BY <2>2, <2>3, Zenon
  <1>5. /\ saved' \in [by : Commands \cup {None}, synced : BOOLEAN]
        /\ staging' \in [Commands -> {"none", "staged", "published", "cleaned", "discarded"}]
        /\ \A d \in Commands : Saved(d) => Saved(d)'
        /\ \A d \in Commands : staging'[d] = staging[d] \/ (staging'[d] = "published" /\ Saved(d)')
    <2>0. /\ saved \in [by : Commands \cup {None}, synced : BOOLEAN]
          /\ staging \in [Commands -> {"none", "staged", "published", "cleaned", "discarded"}]
      BY <1>1, Zenon DEF TypeOK
    <2>1. CASE /\ saved.by = None /\ saved'.by \in Commands /\ saved'.synced
               /\ saved' \in [by : Commands \cup {None}, synced : BOOLEAN]
               /\ staging' \in {staging, [staging EXCEPT ![saved'.by] = "published"]}
      <3>1. \A d \in Commands : ~Saved(d) BY <2>1, ExecutorAssumption, Zenon DEF Saved
      <3>2. CASE staging' = staging BY <2>0, <2>1, <3>1, <3>2, Zenon
      <3>3. CASE staging' = [staging EXCEPT ![saved'.by] = "published"]
        BY <2>0, <2>1, <3>1, <3>3, Zenon DEF Saved
      <3> QED BY <2>1, <3>2, <3>3, Zenon
    <2>2. CASE saved' = [saved EXCEPT !.synced = TRUE] /\ UNCHANGED staging
      BY <2>0, <2>2, Zenon DEF Saved
    <2>3. CASE ~saved.synced /\ saved' = [by |-> None, synced |-> TRUE] /\ UNCHANGED staging
      BY <2>0, <2>3, Zenon DEF Saved
    <2> QED BY <1>2, <2>1, <2>2, <2>3, Zenon DEF FilesAfterCrash
  <1>6. tries' \in [Commands -> 0..MaxAttempts] /\ \A d \in Commands : tries[d] <= tries'[d]
    <2>1. MaxAttempts \in Nat /\ tries \in [Commands -> 0..MaxAttempts]
      BY <1>1, ExecutorAssumption, Zenon DEF TypeOK
    <2>2. ASSUME NEW d \in Commands
          PROVE  tries'[d] \in 0..MaxAttempts /\ tries[d] <= tries'[d]
      <3>1. tries[d] \in 0..MaxAttempts /\ tries'[d] = IF tries[d] = 0 THEN 0 ELSE MaxAttempts
        BY <1>3, <2>1, Zenon
      <3> QED BY <2>1, <3>1
    <2>3. tries' \in [Commands -> 0..MaxAttempts] BY <1>3, <2>2, Zenon
    <2> QED BY <2>2, <2>3, Zenon
  <1>p. PageOK(page') /\ page'.dom = 0 BY <1>3, FreshPageOK, Zenon
  <1>7. TypeOK'
    <2>1. journal' \in Journals BY <1>2, Zenon DEF JournalInv
    <2>2. run' \in [Commands -> RunType] BY <1>3, <1>4, Zenon DEF RunOK
    <2>3. \A d \in Commands :
              ~run'[d].live => run'[d].at \in CommandPhase \cup {"publish", "idle", "gone"}
      BY <1>4, Zenon DEF RunOK
    <2>4. PageOK(page') BY <1>p, Zenon
    <2>5. effects' \in [Commands -> Nat] /\ faults' \in 0..MaxFaults BY <1>1, <1>3, Zenon DEF TypeOK
    <2> QED BY <1>c, <1>5, <1>6, <2>1, <2>2, <2>3, <2>4, <2>5, Zenon DEF TypeOK, RunType, PageOK
  <1>8. ASSUME NEW d \in Commands PROVE CommandInv(d)'
    <2>1. CommandInv(d) BY <1>1, Zenon
    <2>2. /\ run'[d].kind = run[d].kind /\ run'[d].did = 0
          /\ run'[d].at \in {"idle", "done", "gone"}
          /\ run'[d].at = "idle" <=> run[d].at = "idle"
          /\ run'[d].outcome = "completed" =>
                run[d].at = "done" /\ run'[d].at = "done" /\ run[d].outcome = "completed"
      BY <1>4, <2>1, ExecutorAssumption, Zenon DEF Running, CommandInv, AnswerInv, CommandOutcome
    <2>3. RunInv(d)'
      <3>1. run[d].at = "idle" => journal'.lines[d] = <<>>
        <4>1. run[d].at = "idle" => NotGrown(journal, journal', d) BY <1>2, Zenon DEF CommandPhase
        <4> QED BY <1>1, <1>2, <2>1, <4>1, PhaseStep DEF CommandInv, RunInv
      <3>2. page'.dom = 0 /\ ~(run'[d].did > 0) /\ run'[d].did <= page'.dom
        BY <1>p, <2>2
      <3> QED BY <1>3, <2>1, <2>2, <3>1, <3>2, ZenonT(60) DEF CommandInv, RunInv
    <2>4. CountInv(d)'
      <3>1. effects[d] \in Nat /\ tries[d] \in Nat /\ tries'[d] \in Nat /\ tries[d] <= tries'[d]
        BY <1>1, <1>6, ExecutorAssumption DEF TypeOK
      <3>2. Mutates(d)' => Mutates(d) BY <2>2, Zenon DEF Mutates
      <3>3. Mutates(d) => effects[d] <= tries'[d] BY <2>1, <3>1 DEF CommandInv, CountInv
      <3> QED BY <1>3, <2>2, <3>2, <3>3, Zenon DEF CountInv, Early
    <2>5. ForgetInv(d)'
      <3>1. ~(run'[d].did > 0) BY <2>2
      <3> QED BY <3>1, Zenon DEF ForgetInv
    <2>6. AnswerInv(d)'
      <3>1. run[d].at = "done" => NotGrown(journal, journal', d) BY <1>2, Zenon DEF CommandPhase
      <3> QED BY <2>1, <2>2, <3>1, CompletedStep, Zenon DEF CommandInv, AnswerInv
    <2>7. DownloadInv(d)'
      <3>0. DownloadInv(d) BY <2>1, Zenon DEF CommandInv
      <3>1. \A p : HasPhase(journal', d, p) => HasPhase(journal, d, p) \/ run[d].at = p
        <4>1. CASE NotGrown(journal, journal', d) BY <1>1, <1>2, <4>1, PhaseStep, Zenon
        <4>2. CASE /\ Record(d).phase = run[d].at
                   /\ Grown(journal, journal', d, Record(d))
          BY <1>1, <1>2, <4>2, GrownPhase
        <4> QED BY <1>2, <4>1, <4>2, Zenon
      <3>2. OutcomeKept(journal, d) => OutcomeKept(journal', d) BY <1>1, <1>2, OutcomeStep, Zenon
      <3>3. /\ Saved(d) => Saved(d)'
            /\ staging'[d] = staging[d] \/ (staging'[d] = "published" /\ Saved(d)')
        BY <1>5, Zenon
      <3>4. staging'[d] = "published" => Saved(d)' BY <3>0, <3>3, Zenon DEF DownloadInv
      <3>5. staging'[d] = "cleaned" => Saved(d)' \/ OutcomeKept(journal', d)
        BY <3>0, <3>2, <3>3, Zenon DEF DownloadInv
      <3>6. run[d].kind = "download" =>
              /\ HasPhase(journal', d, "completed") => Saved(d)'
              /\ HasPhase(journal', d, "resultPrepared") => staging'[d] # "none"
        BY <3>0, <3>1, <3>3, Zenon DEF DownloadInv
      <3> QED BY <2>2, <3>4, <3>5, <3>6, Zenon DEF DownloadInv
    <2> QED BY <2>3, <2>4, <2>5, <2>6, <2>7, Zenon DEF CommandInv
  <1> QED BY <1>2, <1>7, <1>8, Zenon DEF ExecutorInv

\* The initial state.
LEMMA InitInv == ASSUME Init PROVE ExecutorInv
  <1>1. /\ journal = EmptyJournal /\ run = [c \in Commands |-> NotRunning] /\ page = FreshPage
        /\ staging = [c \in Commands |-> "none"] /\ saved = [by |-> None, synced |-> TRUE]
        /\ effects = [c \in Commands |-> 0] /\ tries = [c \in Commands |-> 0]
        /\ faults = 0 /\ crashes = 0
    BY Zenon DEF Init
  <1>2. /\ journal.lines = [c \in Commands |-> <<>>] /\ journal.unsynced = None
        /\ journal.archived = {} /\ journal \in Journals
    <2>1. <<>> \in Seq(JournalRecord) OBVIOUS
    <2> QED BY <1>1, <2>1, Zenon DEF EmptyJournal, Journals
  <1>3. JournalInv(journal) BY <1>2, Zenon DEF JournalInv
  <1>4. PageOK(page) /\ page.dom = 0 BY <1>1, FreshPageOK, Zenon
  <1>5. \A c \in Commands : run[c] = NotRunning BY <1>1, Zenon
  <1>6. TypeOK
    <2>1. run \in [Commands -> RunType] BY <1>1, NotRunningFields, Zenon
    <2>2. \A c \in Commands : run[c].at = "idle" BY <1>5, NotRunningFields, Zenon
    <2>3. 0 \in 0..MaxAttempts /\ 0 \in 0..MaxFaults /\ 0 \in 0..MaxCrashes
      BY ExecutorAssumption
    <2>4. saved \in [by : Commands \cup {None}, synced : BOOLEAN] BY <1>1, Zenon
    <2>5. /\ staging \in [Commands -> {"none", "staged", "published", "cleaned", "discarded"}]
          /\ effects \in [Commands -> Nat] /\ tries \in [Commands -> 0..MaxAttempts]
      BY <1>1, <2>3, Zenon
    <2> QED BY <1>1, <1>2, <1>4, <2>1, <2>2, <2>3, <2>4, <2>5, Zenon DEF TypeOK, RunType, PageOK
  <1>7. ASSUME NEW c \in Commands PROVE CommandInv(c)
    <2>1. /\ run[c].at = "idle" /\ run[c].kind = None /\ run[c].outcome = None /\ run[c].did = 0
          /\ effects[c] = 0 /\ tries[c] = 0 /\ staging[c] = "none" /\ journal.lines[c] = <<>>
      BY <1>1, <1>2, <1>5, NotRunningFields, Zenon
    <2>2. None # "completed" /\ None # "download" BY ExecutorAssumption, Zenon DEF CommandOutcome, AllKinds
    <2>3. ~(run[c].did > 0) BY <2>1
    <2>4. RunInv(c) BY <1>4, <2>1, <2>2, <2>3 DEF RunInv
    <2>5. CountInv(c) BY <2>1, Zenon DEF CountInv, Mutates
    <2>6. ForgetInv(c) BY <2>3, Zenon DEF ForgetInv
    <2>7. AnswerInv(c) BY <2>1, <2>2, Zenon DEF AnswerInv
    <2>8. DownloadInv(c) BY <2>1, <2>2, Zenon DEF DownloadInv
    <2> QED BY <2>4, <2>5, <2>6, <2>7, <2>8, Zenon DEF CommandInv
  <1> QED BY <1>3, <1>6, <1>7, Zenon DEF ExecutorInv

\* Stuttering.
LEMMA StutterInv == ASSUME ExecutorInv, UNCHANGED vars PROVE ExecutorInv'
  <1>1. UNCHANGED <<journal, run, page, staging, saved, effects, tries, faults, crashes>>
    BY Zenon DEF vars
  <1>2. TypeOK' BY <1>1, Zenon DEF ExecutorInv, TypeOK
  <1>3. JournalInv(journal') BY <1>1, Zenon DEF ExecutorInv
  <1>4. PageStep(page, page') BY <1>1, TypesOf, PageStays, Zenon DEF ExecutorInv
  <1>5. ASSUME NEW d \in Commands PROVE CommandInv(d)'
    <2>1. /\ run'[d] = run[d] /\ effects'[d] = effects[d] /\ tries'[d] = tries[d]
          /\ staging'[d] = staging[d] /\ NotGrown(journal, journal', d) /\ (Saved(d) => Saved(d)')
      BY <1>1, NoJournalStep, Zenon DEF Saved
    <2> QED BY <1>3, <1>4, <2>1, OthersKeep, Zenon
  <1> QED BY <1>2, <1>3, <1>5, Zenon DEF ExecutorInv

\* Every step keeps the invariant.
LEMMA NextInv == ASSUME ExecutorInv, [Next]_vars PROVE ExecutorInv'
  <1>1. ASSUME NEW c \in Commands, Step(c) PROVE ExecutorInv'
    BY <1>1, AppendOkInv, AppendFailsInv, LeaseOkInv, LeaseFailsInv, DispatchInv, ReturnedInv,
       DeadlineInv, FetchInv, FetchFailsInv, CommitInv, CommitHttpInv, VerifyInv,
       RecoverGivesUpInv, RecoverInv, AfterReattachInv, ReviveInv, Zenon DEF Step
  <1>2. ASSUME NEW c \in Commands, NEW k \in Kinds[c], submit(c, k) \/ refuse(c, k)
        PROVE  ExecutorInv'
    BY <1>2, SubmitInv, RefuseInv, Zenon
  <1>3. ASSUME NEW c \in Commands, drop(c) \/ recover_command(c) PROVE ExecutorInv'
    BY <1>3, DropInv, RecoverCommandInv, Zenon
  <1>4. CASE Crash BY <1>4, CrashInv, Zenon
  <1>5. CASE UNCHANGED vars BY <1>5, StutterInv, Zenon
  <1> QED BY <1>1, <1>2, <1>3, <1>4, <1>5, Zenon DEF Next

\* The inductive invariant holds in every reachable state of the executor, for any
\* commands, kinds, submissions, faults and crashes.
THEOREM ExecutorInvariant == Spec => []ExecutorInv
  <1>1. Init => ExecutorInv BY InitInv, Zenon
  <1>2. ExecutorInv /\ [Next]_vars => ExecutorInv' BY NextInv, Zenon
  <1> QED BY <1>1, <1>2, PTL DEF Spec

-----------------------------------------------------------------------------
(* What follows from the invariant.                                          *)

\* A command that is not safe to replay acts on the page at most once for each time
\* it was submitted: retry runs only replayable commands again, and nothing else
\* takes a command back to its attempt.
THEOREM MutationsAreNotReplayed == Spec => []MutationIsNotReplayed
  <1>1. ExecutorInv => MutationIsNotReplayed
    BY Zenon DEF ExecutorInv, CommandInv, CountInv, Mutates, MutationIsNotReplayed
  <1> QED BY <1>1, ExecutorInvariant, PTL

\* When a command that changed the page is answered, the context graph holds no
\* current observation from before the change: every way from the dispatch to an
\* answer passes invalidate_for, and what is recorded later is at least as new.
THEOREM ChangesAreForgotten == Spec => []ChangeIsForgotten
  <1>1. ExecutorInv => ChangeIsForgotten
    BY Zenon DEF ExecutorInv, CommandInv, ForgetInv, ChangeIsForgotten
  <1> QED BY <1>1, ExecutorInvariant, PTL

\* The journal records the completion of a download only when its file is saved
\* under the name and synced, and no later step, crash or recovery takes it away.
THEOREM CompletedDownloadsAreSaved == Spec => []CompletedDownloadIsSaved
  <1>1. ExecutorInv => CompletedDownloadIsSaved
    BY Zenon DEF ExecutorInv, CommandInv, DownloadInv, Saved, CompletedDownloadIsSaved
  <1> QED BY <1>1, ExecutorInvariant, PTL

\* A download whose prepared result is recorded and whose outcome is not is still
\* staged, was discarded, or is saved: nothing cleans up before the outcome is safe.
THEOREM PreparedDownloadsSurvive == Spec => []PreparedDownloadSurvives
  <1>1. ASSUME ExecutorInv PROVE PreparedDownloadSurvives
    <2>1. SUFFICES ASSUME NEW c \in Commands, run[c].kind = "download",
                          HasPhase(journal, c, "resultPrepared"), ~HasOutcome(journal, c)
                   PROVE  staging[c] \in {"staged", "discarded"} \/ saved.by = c
      BY Zenon DEF PreparedDownloadSurvives
    <2>2. DownloadInv(c) /\ JournalInv(journal) /\ TypeOK BY <1>1, Zenon DEF ExecutorInv, CommandInv
    <2>3. staging[c] \in {"none", "staged", "published", "cleaned", "discarded"}
      BY <2>2, Zenon DEF TypeOK
    <2>4. c \notin journal.archived BY <2>1, <2>2 DEF JournalInv, HasPhase
    <2>5. ~OutcomeKept(journal, c) BY <2>1, <2>4, Zenon DEF OutcomeKept, HasOutcome
    <2> QED BY <2>1, <2>2, <2>3, <2>5, Zenon DEF DownloadInv, Saved
  <1>2. ExecutorInv => PreparedDownloadSurvives BY <1>1, Zenon
  <1> QED BY <1>2, ExecutorInvariant, PTL

\* When the last line has an outcome it is the latest one.
LEMMA LastIsLatest ==
    ASSUME NEW j, JournalInv(j), NEW c \in Commands, j.lines[c] # <<>>,
           j.lines[c][Len(j.lines[c])].outcome # None
    PROVE  HasOutcome(j, c) /\ LatestOutcome(j, c) = j.lines[c][Len(j.lines[c])].outcome
  <1> DEFINE rs == j.lines[c]
             n == Len(rs)
             P(i) == rs[i].outcome # None /\ \A k \in DOMAIN rs : k > i => rs[k].outcome = None
  <1>1. n \in Nat /\ DOMAIN rs = 1..n /\ n # 0 BY LinesAreSequences, Zenon
  <1>2. n \in DOMAIN rs BY <1>1
  <1>3. P(n) BY <1>1
  <1>4. \A i \in DOMAIN rs : P(i) => i = n
    <2>1. SUFFICES ASSUME NEW i \in DOMAIN rs, P(i), i # n PROVE FALSE BY Zenon
    <2>2. n > i BY <1>1, <2>1
    <2> QED BY <1>2, <2>1, <2>2, Zenon
  <1>5. HasOutcome(j, c) BY <1>2, Zenon DEF HasOutcome
  <1>6. LatestOutcome(j, c) = rs[CHOOSE i \in DOMAIN rs : P(i)].outcome BY Zenon DEF LatestOutcome
  <1>7. (CHOOSE i \in DOMAIN rs : P(i)) = n
    <2> HIDE DEF P, n
    <2> QED BY <1>2, <1>3, <1>4, Zenon
  <1> QED BY <1>5, <1>6, <1>7, Zenon

\* Whoever was told that a command completed finds it so in the journal, after
\* crashes too, or finds the journal set aside: the answer follows a synced append,
\* and only a new submission appends after it.
THEOREM CompletionsAreDurable == Spec => []CompletedIsDurable
  <1>1. ASSUME ExecutorInv PROVE CompletedIsDurable
    <2> DEFINE q == refresh(journal)
    <2>1. SUFFICES ASSUME NEW c \in Commands, run[c].outcome = "completed"
                   PROVE  Recovery(q, c) = IF c \in q.archived THEN "reconcile" ELSE "completed"
      BY Zenon DEF CompletedIsDurable
    <2>2. JournalInv(journal) /\ CompletedLast(journal, c)
      BY <1>1, <2>1, Zenon DEF ExecutorInv, CommandInv, AnswerInv
    <2>3. JournalInv(q) /\ NotGrown(journal, q, c) BY <2>2, RefreshIsStep, Zenon
    <2> HIDE DEF q
    <2>4. CompletedLast(q, c) BY <2>2, <2>3, CompletedStep, Zenon
    <2>5. CASE c \in q.archived
      <3>1. IsDamaged(q, c) BY <2>3, <2>5, Zenon DEF JournalInv, IsDamaged
      <3> QED BY <2>5, <3>1, Zenon DEF Recovery
    <2>6. CASE c \notin q.archived
      <3>1. q.lines[c] # <<>> /\ q.lines[c][Len(q.lines[c])].outcome = "completed"
        BY <2>4, <2>6, Zenon DEF CompletedLast
      <3>2. "completed" # None BY ExecutorAssumption, Zenon DEF CommandOutcome
      <3>3. HasOutcome(q, c) /\ LatestOutcome(q, c) = "completed"
        BY <2>3, <3>1, <3>2, LastIsLatest, Zenon
      <3>4. ~IsDamaged(q, c) BY <2>6, <3>1, Zenon DEF IsDamaged
      <3> QED BY <2>6, <3>3, <3>4, Zenon DEF Recovery
    <2> QED BY <2>5, <2>6, Zenon
  <1>2. ExecutorInv => CompletedIsDurable BY <1>1, Zenon
  <1> QED BY <1>2, ExecutorInvariant, PTL

-----------------------------------------------------------------------------
(* Recovery from the journal, when no command id is submitted twice.          *)

\* A line appended for a mutation that acted does not cover its trail.
LEMMA LateRecords ==
    ASSUME MaxAttempts = 1, ExecutorInv, NEW d \in Commands, run[d].at \in CommandPhase,
           Mutates(d), effects[d] > 0
    PROVE  Record(d).phase = "verifying" \/ Record(d).outcome # None
  <1>1. CommandInv(d) /\ TypeOK BY Zenon DEF ExecutorInv
  <1>2. effects[d] \in Nat /\ tries[d] \in 0..1 BY <1>1, Zenon DEF TypeOK
  <1>3. run[d].at \notin Early BY <1>1, <1>2 DEF CommandInv, CountInv
  <1>4. run[d].at # "resultPrepared"
    BY <1>1, <1>2 DEF CommandInv, RunInv, Mutates, class
  <1>5. run[d].at \in {"verifying", "completed", "failed"} BY <1>3, <1>4, Zenon DEF CommandPhase, Early
  <1> QED BY <1>5, RecordFields, ExecutorAssumption, Zenon

\* A command that is not taken into its execution by a step keeps its trail.
LEMMA TrailKept ==
    ASSUME MaxAttempts = 1, ExecutorInv, JournalInv(journal'), NEW d \in Commands, TrailInv(d),
           \/ NotGrown(journal, journal', d)
           \/ run[d].at \in CommandPhase /\ Grown(journal, journal', d, Record(d)),
           effects'[d] = effects[d], run'[d].kind = run[d].kind \/ effects[d] = 0,
           run'[d].at \notin Executing \/ run'[d] = run[d]
    PROVE  TrailInv(d)'
  <1>1. SUFFICES ASSUME Mutates(d)', run'[d].at \in Executing \/ effects'[d] > 0
                 PROVE  Trail(journal', d)
    BY Zenon DEF TrailInv
  <1>2. effects[d] \in Nat /\ JournalInv(journal) BY Zenon DEF ExecutorInv, TypeOK
  <1>3. CASE run'[d] = run[d] /\ run[d].at \in Executing
    <2>1. NotGrown(journal, journal', d) BY <1>3, Zenon DEF Executing, CommandPhase
    <2>2. Trail(journal, d) BY <1>1, <1>3, Zenon DEF TrailInv, Mutates
    <2> QED BY <1>2, <2>1, <2>2, TrailStep, Zenon
  <1>4. CASE effects[d] > 0
    <2>1. run'[d].kind = run[d].kind BY <1>2, <1>4
    <2>2. Mutates(d) BY <1>1, <2>1, Zenon DEF Mutates
    <2>3. Trail(journal, d) BY <1>4, <2>2, Zenon DEF TrailInv
    <2>4. CASE NotGrown(journal, journal', d) BY <1>2, <2>3, <2>4, TrailStep, Zenon
    <2>5. CASE run[d].at \in CommandPhase /\ Grown(journal, journal', d, Record(d))
      <3>1. Record(d).phase = "verifying" \/ Record(d).outcome # None
        BY <1>4, <2>2, <2>5, LateRecords, Zenon
      <3> QED BY <1>2, <2>3, <2>5, <3>1, TrailStep, Zenon
    <2> QED BY <2>4, <2>5, Zenon
  <1> QED BY <1>1, <1>3, <1>4, Zenon

\* A step of one command keeps the trails of the others.
LEMMA TrailsKept ==
    ASSUME MaxAttempts = 1, ExecutorInv, NEW c \in Commands, NEW r, run' = [run EXCEPT ![c] = r],
           \A d \in Commands : TrailInv(d), JournalInv(journal'),
           \A d \in Commands \ {c} : NotGrown(journal, journal', d) /\ effects'[d] = effects[d],
           TrailInv(c)'
    PROVE  \A d \in Commands : TrailInv(d)'
  <1>1. ASSUME NEW d \in Commands, d # c PROVE TrailInv(d)'
    <2>1. run'[d] = run[d] BY <1>1, Zenon DEF ExecutorInv, TypeOK
    <2> QED BY <1>1, <2>1, TrailKept, Zenon
  <1> QED BY <1>1, Zenon

\* A command that executes has its trail, and takes it where it goes.
LEMMA TrailFromExecuting ==
    ASSUME MaxAttempts = 1, ExecutorInv, NEW c \in Commands, NEW r, run' = [run EXCEPT ![c] = r],
           \A d \in Commands : TrailInv(d), UNCHANGED journal,
           \A d \in Commands \ {c} : effects'[d] = effects[d],
           run[c].at \in Executing, r.kind = run[c].kind
    PROVE  \A d \in Commands : TrailInv(d)'
  <1>1. JournalInv(journal) /\ run'[c] = r BY Zenon DEF ExecutorInv, TypeOK
  <1>2. TrailInv(c)' BY <1>1, Zenon DEF TrailInv, Mutates
  <1>3. \A d \in Commands \ {c} : NotGrown(journal, journal', d) BY NoJournalStep, Zenon
  <1> QED BY <1>1, <1>2, <1>3, TrailsKept, Zenon

\* A command that does not execute and is not about to keeps its trail.
LEMMA TrailElsewhere ==
    ASSUME MaxAttempts = 1, ExecutorInv, NEW c \in Commands, NEW r, run' = [run EXCEPT ![c] = r],
           \A d \in Commands : TrailInv(d), JournalInv(journal'),
           \A d \in Commands \ {c} : NotGrown(journal, journal', d),
           \/ NotGrown(journal, journal', c)
           \/ run[c].at \in CommandPhase /\ Grown(journal, journal', c, Record(c)),
           UNCHANGED effects, r.at \notin Executing, r.kind = run[c].kind \/ effects[c] = 0
    PROVE  \A d \in Commands : TrailInv(d)'
  <1>1. run'[c] = r BY Zenon DEF ExecutorInv, TypeOK
  <1>2. TrailInv(c)' BY <1>1, TrailKept, Zenon
  <1> QED BY <1>2, TrailsKept, Zenon

\* The kind of a run stays when other fields of it change.
LEMMA KindStays ==
    ASSUME NEW c, run[c] \in RunType, NEW x \in CommandOutcome
    PROVE  /\ Failing(c, x).kind = run[c].kind /\ Failing(c, x).at = "failed"
           /\ \A y : Moved(c, y).kind = run[c].kind /\ Moved(c, y).at = y
           /\ \A e : [run[c] EXCEPT !.at = "attempt", !.again = TRUE, !.error = e].kind = run[c].kind
           /\ [run[c] EXCEPT !.at = "verifying", !.again = FALSE].kind = run[c].kind
           /\ Gone(c).kind = run[c].kind /\ Gone(c).at = "gone"
           /\ Answered(c, x).kind = run[c].kind /\ Answered(c, x).at \in {"done", "gone"}
  <1>1. Gone(c).kind = run[c].kind /\ Gone(c).at = "gone"
    BY NotRunningFields, Zenon DEF Gone, RunType
  <1>2. Answered(c, x).kind = run[c].kind /\ Answered(c, x).at \in {"done", "gone"}
    BY <1>1, Zenon DEF Answered, RunType
  <1> QED BY <1>1, <1>2, Zenon DEF Failing, Moved, RunType

\* The steps from the lease to the answer of the browser.
LEMMA ExecutingSteps ==
    ASSUME MaxAttempts = 1, ExecutorInv, \A d \in Commands : TrailInv(d), NEW c \in Commands,
           \/ lease_ok(c) \/ lease_fails(c) \/ dispatch(c) \/ returned(c) \/ deadline(c)
           \/ fetch(c) \/ fetch_fails(c)
           \/ recover_gives_up(c) \/ recover(c) \/ after_reattach(c) \/ revive(c)
    PROVE  \A d \in Commands : TrailInv(d)'
  <1>0. /\ run[c] \in RunType /\ effects \in [Commands -> Nat]
    BY TypesOf, Zenon DEF ExecutorInv, TypeOK
  <1>1. run[c].at \in Executing /\ UNCHANGED journal
    BY Zenon DEF lease_ok, lease_fails, dispatch, returned, deadline, fetch, fetch_fails,
           recover_gives_up, recover, after_reattach, revive, Executing
  <1>2. \A d \in Commands \ {c} : effects'[d] = effects[d]
    BY <1>0, Zenon DEF lease_ok, lease_fails, dispatch, returned, deadline, fetch, fetch_fails,
           recover_gives_up, recover, after_reattach, revive
  <1> DEFINE Kind(r) == run' = [run EXCEPT ![c] = r] /\ r.kind = run[c].kind
             a == [run[c] EXCEPT !.at = "attempt", !.again = TRUE, !.error = None]
  <1>f. ASSUME NEW x, run' = [run EXCEPT ![c] = Failing(c, x)] PROVE Kind(Failing(c, x))
    <2>1. Failing(c, x).kind = run[c].kind BY <1>0, Zenon DEF Failing, RunType
    <2> QED BY <1>f, <2>1, Zenon
  <1>a. ASSUME run' = [run EXCEPT ![c] = a] PROVE Kind(a)
    <2>1. a.kind = run[c].kind BY <1>0, Zenon DEF RunType
    <2> HIDE DEF a
    <2> QED BY <1>a, <2>1, Zenon
  <1>m. ASSUME NEW y, run' = [run EXCEPT ![c] = Moved(c, y)] PROVE Kind(Moved(c, y))
    <2>1. Moved(c, y).kind = run[c].kind BY <1>0, Zenon DEF Moved, RunType
    <2> QED BY <1>m, <2>1, Zenon
  <1>3. \E r : Kind(r)
    <2>1. CASE lease_ok(c)
      <3>1. run' = [run EXCEPT ![c] = Moved(c, "attempt")] BY <2>1, Zenon DEF lease_ok, Go
      <3> HIDE DEF Kind
      <3> QED BY <1>m, <3>1, Zenon
    <2>2. CASE lease_fails(c) \/ deadline(c) \/ fetch_fails(c) \/ recover_gives_up(c)
      <3>1. \E x : run' = [run EXCEPT ![c] = Failing(c, x)]
        BY <2>2, Zenon DEF lease_fails, deadline, fetch_fails, recover_gives_up, finish_failure, Go
      <3> HIDE DEF Kind
      <3> QED BY <1>f, <3>1, Zenon
    <2>3. CASE dispatch(c)
      <3>1. PICK e \in DispatchErrors \cup {None}, lands \in BOOLEAN :
               LET acts == lands /\ Changes(run[c].kind)
                   version == IF acts THEN page.dom + 1 ELSE page.dom
               IN  Go(c, [run[c] EXCEPT !.at = "acted", !.error = e,
                             !.did = IF acts THEN version ELSE @,
                             !.saw = IF run[c].kind = "inspect" THEN page.dom ELSE 0,
                             !.due = IF run[c].kind = "inspect" THEN Settled ELSE {}])
        BY <2>3, Zenon DEF dispatch
      <3> DEFINE acts == lands /\ Changes(run[c].kind)
                 version == IF acts THEN page.dom + 1 ELSE page.dom
                 r == [run[c] EXCEPT !.at = "acted", !.error = e,
                             !.did = IF acts THEN version ELSE @,
                             !.saw = IF run[c].kind = "inspect" THEN page.dom ELSE 0,
                             !.due = IF run[c].kind = "inspect" THEN Settled ELSE {}]
      <3>2. r.kind = run[c].kind BY <1>0, Zenon DEF RunType
      <3>3. run' = [run EXCEPT ![c] = r] BY <3>1, Zenon DEF Go
      <3> HIDE DEF r
      <3> QED BY <3>2, <3>3, Zenon
    <2>4. CASE fetch(c)
      <3>1. PICK w, u : run' = [run EXCEPT ![c] = [run[c] EXCEPT !.at = "resultPrepared",
                                                     !.again = FALSE, !.saw = w, !.due = u]]
        BY <2>4, Zenon DEF fetch, Go
      <3> DEFINE r == [run[c] EXCEPT !.at = "resultPrepared", !.again = FALSE, !.saw = w, !.due = u]
      <3>2. r.kind = run[c].kind BY <1>0, Zenon DEF RunType
      <3>3. run' = [run EXCEPT ![c] = r] BY <3>1, Zenon
      <3> HIDE DEF r
      <3> QED BY <3>2, <3>3, Zenon
    <2>5. CASE returned(c)
      <3> DEFINE r == [run[c] EXCEPT !.at = "verifying", !.again = FALSE]
      <3>1. \/ run' = [run EXCEPT ![c] = r]
            \/ run' = [run EXCEPT ![c] = Moved(c, "recover")]
            \/ \E x : run' = [run EXCEPT ![c] = Failing(c, x)]
        BY <2>5, Zenon DEF returned, Go
      <3>2. r.kind = run[c].kind BY <1>0, Zenon DEF RunType
      <3> HIDE DEF r
      <3>3. CASE run' = [run EXCEPT ![c] = r] BY <3>2, <3>3, Zenon
      <3> HIDE DEF Kind
      <3>4. CASE run' = [run EXCEPT ![c] = Moved(c, "recover")] BY <1>m, <3>4, Zenon
      <3>5. CASE \E x : run' = [run EXCEPT ![c] = Failing(c, x)] BY <1>f, <3>5, Zenon
      <3> QED BY <3>1, <3>3, <3>4, <3>5, Zenon
    <2>6. CASE recover(c) \/ after_reattach(c) \/ revive(c)
      <3>1. \/ run' = [run EXCEPT ![c] = a]
            \/ \E x : run' = [run EXCEPT ![c] = Failing(c, x)]
        BY <2>6, Zenon DEF recover, after_reattach, revive, retry, finish_failure, Go
      <3> HIDE DEF Kind, a
      <3> QED BY <1>a, <1>f, <3>1, Zenon
    <2> QED BY <2>1, <2>2, <2>3, <2>4, <2>5, <2>6, Zenon
  <1>4. PICK r : Kind(r) BY <1>3, Zenon
  <1>5. run' = [run EXCEPT ![c] = r] /\ r.kind = run[c].kind BY <1>4, Zenon
  <1> QED BY <1>1, <1>2, <1>5, TrailFromExecuting, Zenon

\* The other steps of a command.
LEMMA OtherSteps ==
    ASSUME MaxAttempts = 1, ExecutorInv, \A d \in Commands : TrailInv(d), NEW c \in Commands,
           \/ commit(c) \/ commit_http_state(c) \/ verify(c)
           \/ \E k \in Kinds[c] : submit(c, k) \/ refuse(c, k)
    PROVE  \A d \in Commands : TrailInv(d)'
  <1>0. /\ run[c] \in RunType /\ JournalInv(journal) /\ CommandInv(c)
    BY TypesOf, Zenon DEF ExecutorInv
  <1>1. UNCHANGED <<journal, effects>>
    BY Zenon DEF commit, commit_http_state, verify, submit, refuse
  <1> DEFINE Away(r) == /\ run' = [run EXCEPT ![c] = r] /\ r.at \notin Executing
                        /\ r.kind = run[c].kind \/ effects[c] = 0
  <1>f. ASSUME NEW x, run' = [run EXCEPT ![c] = Failing(c, x)] PROVE Away(Failing(c, x))
    <2>1. Failing(c, x).kind = run[c].kind /\ Failing(c, x).at = "failed"
      BY <1>0, Zenon DEF Failing, RunType
    <2> QED BY <1>f, <2>1, Zenon DEF Executing
  <1>m. ASSUME NEW y \in {"commit", "verifying", "completed"}, run' = [run EXCEPT ![c] = Moved(c, y)]
        PROVE  Away(Moved(c, y))
    <2>1. Moved(c, y).kind = run[c].kind /\ Moved(c, y).at = y BY <1>0, Zenon DEF Moved, RunType
    <2> QED BY <1>m, <2>1, Zenon DEF Executing
  <1>g. ASSUME run' = [run EXCEPT ![c] = Gone(c)] PROVE Away(Gone(c))
    <2>1. Gone(c).kind = run[c].kind /\ Gone(c).at = "gone"
      BY NotRunningFields, Zenon DEF Gone, RunType
    <2> QED BY <1>g, <2>1, Zenon DEF Executing
  <1>d. ASSUME run' = [run EXCEPT ![c] = Answered(c, "reconcile")] PROVE Away(Answered(c, "reconcile"))
    <2>1. "reconcile" \in CommandOutcome BY Zenon DEF CommandOutcome
    <2>2. /\ Answered(c, "reconcile").kind = run[c].kind
          /\ Answered(c, "reconcile").at \in {"done", "gone"}
      BY <1>0, <2>1, KindStays, Zenon
    <2> QED BY <1>d, <2>2, Zenon DEF Executing
  <1>2. \E r : Away(r)
    <2>1. CASE commit(c)
      <3>1. \/ run' = [run EXCEPT ![c] = Moved(c, "commit")]
            \/ run' = [run EXCEPT ![c] = Gone(c)]
            \/ run' = [run EXCEPT ![c] = Answered(c, "reconcile")]
        BY <2>1, Zenon DEF commit, Go
      <3> HIDE DEF Away
      <3> QED BY <1>m, <1>g, <1>d, <3>1, Zenon
    <2>2. CASE commit_http_state(c) \/ verify(c)
      <3>1. \/ run' = [run EXCEPT ![c] = Moved(c, "verifying")]
            \/ run' = [run EXCEPT ![c] = Moved(c, "completed")]
            \/ \E x : run' = [run EXCEPT ![c] = Failing(c, x)]
        BY <2>2, Zenon DEF commit_http_state, verify, finish_failure, Go
      <3> HIDE DEF Away
      <3> QED BY <1>m, <1>f, <3>1, Zenon
    <2>3. ASSUME NEW k \in Kinds[c], submit(c, k) PROVE \E r : Away(r)
      <3> DEFINE r == [NotRunning EXCEPT !.at = "accepted", !.kind = k, !.live = TRUE]
      <3>1. run' = [run EXCEPT ![c] = r] BY <2>3, Zenon DEF submit, Go
      <3>2. r.at = "accepted" /\ r.kind = k BY NotRunningFields, Zenon DEF RunType
      <3>3. effects[c] = 0 \/ run[c].kind = k BY <1>0, <2>3, Zenon DEF submit, CommandInv, RunInv
      <3> HIDE DEF r
      <3> QED BY <3>1, <3>2, <3>3, Zenon DEF Executing
    <2>4. ASSUME NEW k \in Kinds[c], refuse(c, k) PROVE \E r : Away(r)
      <3> DEFINE r == [NotRunning EXCEPT !.at = "done", !.kind = k, !.live = TRUE, !.outcome = "failed"]
      <3>1. run' = [run EXCEPT ![c] = r] BY <2>4, Zenon DEF refuse, Go
      <3>2. r.at = "done" BY NotRunningFields, Zenon DEF RunType
      <3>3. effects[c] = 0 BY <1>0, <2>4, Zenon DEF refuse, CommandInv, RunInv
      <3> HIDE DEF r
      <3> QED BY <3>1, <3>2, <3>3, Zenon DEF Executing
    <2> HIDE DEF Away
    <2> QED BY <2>1, <2>2, <2>3, <2>4, Zenon
  <1>3. PICK r : Away(r) BY <1>2, Zenon
  <1>4. \A d \in Commands : NotGrown(journal, journal', d) BY <1>1, NoJournalStep, Zenon
  <1>5. /\ run' = [run EXCEPT ![c] = r] /\ r.at \notin Executing
        /\ r.kind = run[c].kind \/ effects[c] = 0
    BY <1>3, Zenon
  <1> QED BY <1>0, <1>1, <1>4, <1>5, TrailElsewhere, Zenon

\* An append takes a command into its execution with the trail's first line.
LEMMA AppendSteps ==
    ASSUME MaxAttempts = 1, ExecutorInv, \A d \in Commands : TrailInv(d), NEW c \in Commands,
           append_ok(c) \/ append_fails(c)
    PROVE  \A d \in Commands : TrailInv(d)'
  <1>0. /\ run[c] \in RunType /\ JournalInv(journal) /\ run[c].at \in CommandPhase
        /\ effects' = effects
    BY TypesOf, Zenon DEF ExecutorInv, append_ok, append_fails
  <1>1. Record(c) \in JournalRecord /\ Record(c).phase = run[c].at BY <1>0, RecordFields, Zenon
  <1>2. JournalStep(journal, journal', c, Record(c))
    BY <1>0, <1>1, AppendedStep, RefusedStep, BotchedStep, Zenon DEF append_ok, append_fails
  <1>3. /\ JournalInv(journal')
        /\ \A d \in Commands \ {c} : NotGrown(journal, journal', d)
        /\ \/ NotGrown(journal, journal', c)
           \/ run[c].at \in CommandPhase /\ Grown(journal, journal', c, Record(c))
    BY <1>0, <1>2, Zenon DEF JournalStep
  <1>4. ASSUME NEW r, run' = [run EXCEPT ![c] = r], r.at \notin Executing, r.kind = run[c].kind
        PROVE  \A d \in Commands : TrailInv(d)'
    BY <1>0, <1>3, <1>4, TrailElsewhere, Zenon
  <1>5. ASSUME NEW x \in CommandOutcome, run' = [run EXCEPT ![c] = Answered(c, x)]
        PROVE  \A d \in Commands : TrailInv(d)'
    <2>1. Answered(c, x).kind = run[c].kind /\ Answered(c, x).at \in {"done", "gone"}
      BY <1>0, KindStays, Zenon
    <2>2. Answered(c, x).at \notin Executing BY <2>1, Zenon DEF Executing
    <2> QED BY <1>4, <1>5, <2>1, <2>2, Zenon
  <1>6. CASE append_fails(c)
    <2> DEFINE x == IF run[c].at = "resultPrepared" THEN "reconcile"
                    ELSE journal_failure(run[c].kind,
                                run[c].at \in {"verifying", "completed", "failed"})
    <2>1. x \in CommandOutcome BY Zenon DEF CommandOutcome, journal_failure
    <2>2. run' = [run EXCEPT ![c] = Answered(c, x)] BY <1>6, Zenon DEF append_fails, Go
    <2> HIDE DEF x
    <2> QED BY <1>5, <2>1, <2>2, Zenon
  <1>7. CASE append_ok(c) /\ run[c].at \in {"completed", "failed"}
    <2> DEFINE x == Record(c).outcome
    <2>1. x \in CommandOutcome BY <1>0, <1>7, RecordFields, Zenon
    <2>2. run' = [run EXCEPT ![c] = Answered(c, x)] BY <1>7, Zenon DEF append_ok, Go
    <2> HIDE DEF x
    <2> QED BY <1>5, <2>1, <2>2, Zenon
  <1>8. CASE append_ok(c) /\ run[c].at \notin {"completed", "failed"}
    <2> DEFINE x == FollowedBy(run[c].at)
    <2>1. \/ run' = [run EXCEPT ![c] = Moved(c, x)]
          \/ run' = [run EXCEPT ![c] = Gone(c)]
      BY <1>8, Zenon DEF append_ok, Go
    <2>2. x \in {"prepared", "executing", "publish", "verify"} \/ (x = "lease" /\ run[c].at = "executing")
      BY <1>0, <1>8, Zenon DEF FollowedBy, CommandPhase
    <2> HIDE DEF x
    <2>3. CASE run' = [run EXCEPT ![c] = Gone(c)]
      <3>1. Gone(c).kind = run[c].kind /\ Gone(c).at = "gone"
        BY NotRunningFields, Zenon DEF Gone, RunType
      <3>2. Gone(c).at \notin Executing BY <3>1, Zenon DEF Executing
      <3> QED BY <1>4, <2>3, <3>1, <3>2, Zenon
    <2>4. CASE run' = [run EXCEPT ![c] = Moved(c, x)] /\ x # "lease"
      <3>1. Moved(c, x).kind = run[c].kind /\ Moved(c, x).at = x BY <1>0, Zenon DEF Moved, RunType
      <3>2. Moved(c, x).at \notin Executing BY <2>2, <2>4, <3>1, Zenon DEF Executing
      <3> QED BY <1>4, <2>4, <3>1, <3>2, Zenon
    <2>5. CASE run' = [run EXCEPT ![c] = Moved(c, x)] /\ run[c].at = "executing"
      <3>1. Grown(journal, journal', c, Record(c)) /\ journal'.unsynced = None
        BY <1>0, <1>1, <1>8, AppendedStep, Zenon DEF append_ok
      <3>2. Trail(journal', c) BY <1>0, <1>1, <1>3, <2>5, <3>1, TrailBegins, Zenon
      <3>3. TrailInv(c)' BY <3>2, Zenon DEF TrailInv
      <3>4. \A d \in Commands \ {c} : NotGrown(journal, journal', d) /\ effects'[d] = effects[d]
        BY <1>0, <1>3, Zenon
      <3> QED BY <1>3, <2>5, <3>3, <3>4, TrailsKept, Zenon
    <2> QED BY <2>1, <2>2, <2>3, <2>4, <2>5, Zenon
  <1> QED BY <1>6, <1>7, <1>8, Zenon

\* A caller that goes away, a recovery and a crash keep every trail.
LEMMA TrailOutlives ==
    ASSUME MaxAttempts = 1, ExecutorInv, \A d \in Commands : TrailInv(d),
           Crash \/ \E c \in Commands : drop(c) \/ recover_command(c)
    PROVE  \A d \in Commands : TrailInv(d)'
  <1>0. JournalInv(journal) /\ \A c \in Commands : run[c] \in RunType
    BY TypesOf, Zenon DEF ExecutorInv
  <1>1. ASSUME NEW c \in Commands, drop(c) PROVE \A d \in Commands : TrailInv(d)'
    <2>1. UNCHANGED <<journal, effects>> BY <1>1, Zenon DEF drop
    <2>2. \A d \in Commands : NotGrown(journal, journal', d) BY <2>1, NoJournalStep, Zenon
    <2>3. CASE run[c].at \in CommandPhase \cup {"publish"}
      <3> DEFINE r == [run[c] EXCEPT !.live = FALSE]
      <3>1. run' = [run EXCEPT ![c] = r] BY <1>1, <2>3, Zenon DEF drop, Go
      <3>2. r.kind = run[c].kind /\ r.at = run[c].at BY <1>0, Zenon DEF RunType
      <3>3. r.at \notin Executing BY <2>3, <3>2, Zenon DEF Executing, CommandPhase
      <3> HIDE DEF r
      <3> QED BY <1>0, <2>1, <2>2, <3>1, <3>2, <3>3, TrailElsewhere, Zenon
    <2>4. CASE run[c].at \notin CommandPhase \cup {"publish"}
      <3>1. run' = [run EXCEPT ![c] = Gone(c)] BY <1>1, <2>4, Zenon DEF drop, Go
      <3>2. Gone(c).kind = run[c].kind /\ Gone(c).at = "gone"
        BY NotRunningFields, Zenon DEF Gone, RunType
      <3>3. Gone(c).at \notin Executing BY <3>2, Zenon DEF Executing
      <3> QED BY <1>0, <2>1, <2>2, <3>1, <3>2, <3>3, TrailElsewhere, Zenon
    <2> QED BY <2>3, <2>4, Zenon
  <1>2. ASSUME NEW c \in Commands, recover_command(c) PROVE \A d \in Commands : TrailInv(d)'
    <2>1. UNCHANGED <<run, effects>> /\ journal' = refresh(journal) BY <1>2, Zenon DEF recover_command
    <2>2. JournalInv(journal') /\ \A d \in Commands : NotGrown(journal, journal', d)
      BY <1>0, <2>1, RefreshIsStep, Zenon
    <2>3. ASSUME NEW d \in Commands PROVE TrailInv(d)'
      <3>1. effects'[d] = effects[d] /\ run'[d] = run[d] BY <2>1, Zenon
      <3> QED BY <2>2, <3>1, TrailKept, Zenon
    <2> QED BY <2>3, Zenon
  <1>3. CASE Crash
    <2>1. /\ JournalInv(journal')
          /\ \A d \in Commands :
                \/ NotGrown(journal, journal', d)
                \/ run[d].at \in CommandPhase /\ Grown(journal, journal', d, Record(d))
      BY <1>3, CrashEffects, Zenon
    <2>2. /\ UNCHANGED effects
          /\ run' = [c \in Commands |->
                        IF Running(c) THEN Gone(c)
                        ELSE [run[c] EXCEPT !.did = 0, !.saw = 0, !.due = {}]]
      BY <1>3, Zenon DEF Crash
    <2>3. ASSUME NEW d \in Commands PROVE TrailInv(d)'
      <3>1. Gone(d).kind = run[d].kind /\ Gone(d).at = "gone"
        BY NotRunningFields, Zenon DEF Gone, RunType
      <3>2. CASE Running(d)
        <4>1. run'[d] = Gone(d) BY <2>2, <3>2, Zenon
        <4>2. run'[d].kind = run[d].kind /\ run'[d].at \notin Executing
          BY <3>1, <4>1, Zenon DEF Executing
        <4>3. effects'[d] = effects[d] BY <2>2, Zenon
        <4> QED BY <2>1, <4>2, <4>3, TrailKept, Zenon
      <3>3. CASE ~Running(d)
        <4> DEFINE r == [run[d] EXCEPT !.did = 0, !.saw = 0, !.due = {}]
        <4>1. run'[d] = r BY <2>2, <3>3, Zenon
        <4>2. r.kind = run[d].kind /\ r.at = run[d].at BY <1>0, Zenon DEF RunType
        <4> HIDE DEF r
        <4>3. run'[d].at \notin Executing BY <3>3, <4>1, <4>2, Zenon DEF Running, Executing
        <4>4. effects'[d] = effects[d] /\ run'[d].kind = run[d].kind BY <2>2, <4>1, <4>2, Zenon
        <4> QED BY <2>1, <4>3, <4>4, TrailKept, Zenon
      <3> QED BY <3>2, <3>3, Zenon
    <2> QED BY <2>3, Zenon
  <1> QED BY <1>1, <1>2, <1>3, Zenon

\* Every step keeps the trails.
LEMMA TrailNext ==
    ASSUME MaxAttempts = 1, ExecutorInv, \A d \in Commands : TrailInv(d), [Next]_vars
    PROVE  \A d \in Commands : TrailInv(d)'
  <1>1. ASSUME NEW c \in Commands, Step(c) PROVE \A d \in Commands : TrailInv(d)'
    BY <1>1, AppendSteps, ExecutingSteps, OtherSteps, Zenon DEF Step
  <1>2. ASSUME NEW c \in Commands, NEW k \in Kinds[c], submit(c, k) \/ refuse(c, k)
        PROVE  \A d \in Commands : TrailInv(d)'
    BY <1>2, OtherSteps, Zenon
  <1>3. ASSUME NEW c \in Commands, drop(c) \/ recover_command(c)
        PROVE  \A d \in Commands : TrailInv(d)'
    BY <1>3, TrailOutlives, Zenon
  <1>4. CASE Crash BY <1>4, TrailOutlives, Zenon
  <1>5. CASE UNCHANGED vars BY <1>5, Zenon DEF vars, TrailInv, Mutates
  <1> QED BY <1>1, <1>2, <1>3, <1>4, <1>5, Zenon DEF Next

\* A journal with the trail of a mutation that has no outcome makes recovery ask for
\* reconciliation.
LEMMA TrailIsReconciled ==
    ASSUME NEW j, JournalInv(j), NEW c \in Commands, Trail(j, c), ~HasOutcome(j, c),
           class(run[c].kind) # "Replayable"
    PROVE  Recovery(j, c) = "reconcile"
  <1>1. CASE c \in j.archived
    <2>1. IsDamaged(j, c) BY <1>1, Zenon DEF JournalInv, IsDamaged
    <2> QED BY <2>1, Zenon DEF Recovery
  <1>2. CASE c \notin j.archived
    <2> DEFINE n == Len(j.lines[c])
    <2>1. PICK i \in DOMAIN j.lines[c] :
              /\ j.lines[c][i].phase = "executing"
              /\ \A k \in DOMAIN j.lines[c] :
                    k > i => j.lines[c][k].phase = "verifying" \/ j.lines[c][k].outcome # None
      BY <1>2, Zenon DEF Trail
    <2>2. n \in Nat /\ DOMAIN j.lines[c] = 1..n BY LinesAreSequences, Zenon
    <2>3. n \in DOMAIN j.lines[c] /\ (n = i \/ n > i) BY <2>1, <2>2
    <2>4. j.lines[c][n].outcome = None BY <2>3, Zenon DEF HasOutcome
    <2>5. j.lines[c][n].phase \in {"executing", "verifying"} BY <2>1, <2>3, <2>4, Zenon
    <2>6. j.lines[c] # <<>> BY <2>1
    <2> QED BY <2>5, <2>6, Zenon DEF Recovery
  <1> QED BY <1>1, <1>2, Zenon

\* A refreshed journal has no outcome that the journal did not have.
LEMMA RefreshAddsNoOutcome ==
    ASSUME NEW j, JournalInv(j), NEW c \in Commands, ~HasOutcome(j, c)
    PROVE  ~HasOutcome(refresh(j), c)
  <1>1. Kept(j, refresh(j), c) \/ SetAside(j, refresh(j), c) BY RefreshStep, Zenon
  <1> QED BY <1>1 DEF Kept, SetAside, HasOutcome

\* Recovery never lets a caller repeat a mutation that may have had its effect, when
\* command ids are not submitted twice: before the browser is asked the journal holds
\* a synced executing line, what is appended after it is verifying or an outcome, and
\* whatever sets the journal aside makes recovery ask for reconciliation.
THEOREM RecoveryDoesNotGuess == ASSUME MaxAttempts = 1 PROVE Spec => []RecoveryNeverGuesses
  <1> DEFINE Trails == \A d \in Commands : TrailInv(d)
  <1>1. Init => Trails
    BY NotRunningFields DEF Init, TrailInv, Executing
  <1>2. ExecutorInv /\ Trails /\ [Next]_vars => Trails' BY TrailNext, Zenon
  <1>3. ASSUME ExecutorInv, Trails PROVE RecoveryNeverGuesses
    <2> DEFINE q == refresh(journal)
    <2>1. SUFFICES ASSUME NEW c \in Commands, run[c].kind # None,
                          class(run[c].kind) # "Replayable", effects[c] > 0,
                          ~HasOutcome(journal, c)
                   PROVE  Recovery(q, c) = "reconcile"
      BY Zenon DEF RecoveryNeverGuesses
    <2>2. JournalInv(journal) BY <1>3, Zenon DEF ExecutorInv
    <2>3. Trail(journal, c) BY <1>3, <2>1, Zenon DEF TrailInv, Mutates
    <2>4. JournalInv(q) /\ NotGrown(journal, q, c) BY <2>2, RefreshIsStep, Zenon
    <2>5. ~HasOutcome(q, c) BY <2>1, <2>2, RefreshAddsNoOutcome, Zenon
    <2> HIDE DEF q
    <2>6. Trail(q, c) BY <2>2, <2>3, <2>4, TrailStep, Zenon
    <2> QED BY <2>1, <2>4, <2>5, <2>6, TrailIsReconciled, Zenon
  <1>4. ExecutorInv /\ Trails => RecoveryNeverGuesses BY <1>3, Zenon
  <1> QED BY <1>1, <1>2, <1>4, ExecutorInvariant, PTL DEF Spec
=============================================================================
