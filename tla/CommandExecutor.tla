--------------------------- MODULE CommandExecutor ---------------------------
(***************************************************************************)
(* How a page command runs (crates/page-runtime/src/executor.rs and the files *)
(* under executor/): its phases are journaled, it is dispatched to the page   *)
(* under its deadline, a lost transport is recovered, a result fetched over   *)
(* HTTP is prepared and published, and the answer is verified and recorded.   *)
(* With it go the state of the page it acts on: the taint of the adaptive     *)
(* engine and the observation that the context graph answers from.            *)
(*                                                                           *)
(* All commands here are for one page.  The caller of a command is a future:  *)
(* it can be dropped at any await, but an append and the publication of a     *)
(* prepared result run in tasks of their own and go on.                       *)
(***************************************************************************)
EXTENDS CommandJournal

CONSTANTS
    Kinds,          \* the kinds of command that are submitted under each id
    MaxAttempts,    \* bound on the submissions of one command id
    MaxFaults,      \* bound on failures, deadlines and dropped callers
    MaxCrashes      \* bound on crashes of the process

AllKinds == {"inspect", "snapshot", "navigate", "click", "submit", "download"}

ASSUME ExecutorAssumption ==
    /\ Kinds \in [Commands -> SUBSET AllKinds]
    /\ {MaxAttempts, MaxFaults, MaxCrashes} \subseteq Nat
    /\ None \notin Commands \cup CommandOutcome \cup AllKinds \cup {"garbage"}
    /\ None \notin Nat
    /\ "garbage" \notin Commands

VARIABLES
    journal,    \* the command journal
    run,        \* where each command is
    page,       \* the page, its taint and its entry of the context graph
    staging,    \* the staged download of each command
    saved,      \* the file that the downloads are saved as
    effects,    \* history: how often each command acted on the page
    tries,      \* history: how often each command was submitted
    faults, crashes

vars == <<journal, run, page, staging, saved, effects, tries, faults, crashes>>

(***************************************************************************)
(* Commands and errors.                                                       *)
(***************************************************************************)
class(k) ==
    CASE k \in {"inspect", "snapshot", "navigate"} -> "Replayable"
      [] k \in {"click", "download"} -> "Reconciliable"
      [] k = "submit" -> "Boundary"

requires_reconciliation(k) == class(k) = "Boundary" \/ k = "download"

preserves_page_structure_by_class(k) == class(k) = "Replayable"

preserves_page_structure(k) == k \in {"inspect", "snapshot"}

Changes(k) == k \in {"navigate", "click", "submit"}

\* preEffect: the command never reached the page; postcondition: it did and the
\* state it should lead to was not seen; dead: the transport to the browser is lost.
ErrorCodes == {"preEffect", "postcondition", "dead", "detached", "policy", "other"}

Errors == [code : ErrorCodes, retryable : BOOLEAN]

Error(code, retryable) == [code |-> code, retryable |-> retryable]

\* What a dispatch can fail with.
DispatchErrors ==
    {Error("preEffect", FALSE), Error("postcondition", TRUE), Error("policy", FALSE)}
    \cup [code : {"dead", "other"}, retryable : BOOLEAN]

verification_error == Error("postcondition", TRUE)

classify_failure(k, e) ==
    IF e.code = "policy" THEN "denied"
    ELSE IF requires_reconciliation(k)
            /\ e.code \notin {"preEffect", "postcondition", "detached"}
         THEN "reconcile"
    ELSE IF e.retryable THEN "retryable" ELSE "failed"

journal_failure(k, mayHaveExecuted) ==
    IF mayHaveExecuted /\ requires_reconciliation(k) THEN "reconcile" ELSE "retryable"

(***************************************************************************)
(* Where a command is.  At a phase of the journal it is appending it.         *)
(* did: the version of the page its act made; saw: the version an inspection  *)
(* read; due: the versions that the answered commands had made when it did.   *)
(***************************************************************************)
NotRunning == [at |-> "idle", kind |-> None, live |-> FALSE, again |-> FALSE,
               error |-> None, outcome |-> None, did |-> 0, saw |-> 0, due |-> {}]

Points == CommandPhase \cup {"lease", "attempt", "acted", "recover", "publish",
                             "commit", "verify", "done", "gone", "idle"}

Running(c) == run[c].at \notin {"idle", "done", "gone"}

FreshPage == [dom |-> 0, loaded |-> 0, tainted |-> FALSE, generation |-> 0,
              observed |-> None, recorded |-> 0]

Init ==
    /\ journal = EmptyJournal
    /\ run = [c \in Commands |-> NotRunning]
    /\ page = FreshPage
    /\ staging = [c \in Commands |-> "none"]
    /\ saved = [by |-> None, synced |-> TRUE]
    /\ effects = [c \in Commands |-> 0]
    /\ tries = [c \in Commands |-> 0]
    /\ faults = 0
    /\ crashes = 0

Fault == faults < MaxFaults /\ faults' = faults + 1

Go(c, r) == run' = [run EXCEPT ![c] = r]

Moved(c, point) == [run[c] EXCEPT !.at = point]

Gone(c) == [NotRunning EXCEPT !.at = "gone", !.kind = run[c].kind]

\* The answer goes to a caller who is still there.
Answered(c, outcome) ==
    IF run[c].live THEN [run[c] EXCEPT !.at = "done", !.outcome = outcome]
    ELSE Gone(c)

Failing(c, outcome) ==
    [run[c] EXCEPT !.at = "failed", !.outcome = outcome, !.error = None, !.again = FALSE]

\* The page's entry of the context graph.
invalidate_for(p, k) ==
    IF preserves_page_structure(k) \/ p.observed = None THEN p
    ELSE [p EXCEPT !.generation = @ + 1]

record(p) == [p EXCEPT !.observed = p.generation, !.recorded = p.dom]

\* finish_failure forgets before it records the failure.
finish_failure(c, outcome) ==
    /\ Go(c, Failing(c, outcome))
    /\ page' = invalidate_for(page, run[c].kind)

(***************************************************************************)
(* Admission and the journal.                                                 *)
(***************************************************************************)
submit(c, k) ==
    /\ \/ run[c].at = "idle"
       \/ run[c].at \in {"done", "gone"} /\ run[c].kind = k
    /\ tries[c] < MaxAttempts
    /\ tries' = [tries EXCEPT ![c] = @ + 1]
    /\ Go(c, [NotRunning EXCEPT !.at = "accepted", !.kind = k, !.live = TRUE])
    /\ UNCHANGED <<journal, page, staging, saved, effects, faults, crashes>>

\* validate turns a command away before anything is recorded.
refuse(c, k) ==
    /\ run[c].at = "idle"
    /\ tries[c] < MaxAttempts
    /\ Fault
    /\ tries' = [tries EXCEPT ![c] = @ + 1]
    /\ Go(c, [NotRunning EXCEPT !.at = "done", !.kind = k, !.live = TRUE,
                   !.outcome = "failed"])
    /\ UNCHANGED <<journal, page, staging, saved, effects, crashes>>

Record(c) ==
    LET phase == run[c].at
    IN  [phase |-> phase,
         outcome |-> CASE phase = "completed" -> "completed"
                       [] phase = "failed" -> run[c].outcome
                       [] OTHER -> None]

\* What follows the append of each phase.
FollowedBy(phase) ==
    CASE phase = "accepted" -> "prepared"
      [] phase = "prepared" -> "executing"
      [] phase = "executing" -> "lease"
      [] phase = "resultPrepared" -> "publish"
      [] phase = "verifying" -> "verify"

\* Removes the staged entries of a download and syncs the directory.
cleanup(c, now) ==
    /\ staging' = [staging EXCEPT ![c] = now]
    /\ saved' = [saved EXCEPT !.synced = TRUE]

append_ok(c) ==
    LET phase == run[c].at
    IN  /\ phase \in CommandPhase
        /\ journal' \in Appended(journal, c, Record(c))
        /\ IF phase \in {"completed", "failed"}
           THEN /\ Go(c, Answered(c, Record(c).outcome))
                /\ IF run[c].live /\ staging[c] = "published"
                   THEN cleanup(c, "cleaned") ELSE UNCHANGED <<staging, saved>>
           ELSE /\ Go(c, IF run[c].live \/ phase = "resultPrepared"
                         THEN Moved(c, FollowedBy(phase)) ELSE Gone(c))
                /\ UNCHANGED <<staging, saved>>
        /\ UNCHANGED <<page, effects, tries, faults, crashes>>

append_fails(c) ==
    LET phase == run[c].at
    IN  /\ phase \in CommandPhase
        /\ \/ journal' \in Refused(journal, c) /\ UNCHANGED faults
           \/ journal' \in Botched(journal, c, Record(c)) /\ Fault
        /\ Go(c, Answered(c, IF phase = "resultPrepared" THEN "reconcile"
                             ELSE journal_failure(run[c].kind,
                                    phase \in {"verifying", "completed", "failed"})))
        /\ IF phase = "resultPrepared" /\ staging[c] = "staged"
           THEN cleanup(c, "discarded") ELSE UNCHANGED <<staging, saved>>
        /\ UNCHANGED <<page, effects, tries, crashes>>

lease_ok(c) ==
    /\ run[c].at = "lease"
    /\ Go(c, Moved(c, "attempt"))
    /\ UNCHANGED <<journal, page, staging, saved, effects, tries, faults, crashes>>

\* The lease fails, the session's settings do not apply or the page is gone.
lease_fails(c) ==
    /\ run[c].at = "lease"
    /\ Fault
    /\ \E b \in BOOLEAN :
           finish_failure(c, classify_failure(run[c].kind, Error("other", b)))
    /\ UNCHANGED <<journal, staging, saved, effects, tries, crashes>>

(***************************************************************************)
(* The attempt (execution.rs, execution/deadline.rs, adaptive.rs).            *)
(***************************************************************************)
ReadsDirectly(c) ==
    \/ run[c].kind = "download"
    \/ run[c].kind = "inspect" /\ ~page.tainted

\* The changes whose commands have been answered.
Settled == {run[c].did : c \in {d \in Commands : run[d].at = "done" /\ run[d].did > 0}}

\* The browser carries the command out, or fails before or after it acted.
dispatch(c) ==
    LET k == run[c].kind
    IN  /\ run[c].at = "attempt"
        /\ k # "download"
        /\ \E e \in DispatchErrors \cup {None}, lands \in BOOLEAN :
               /\ e = None => lands /\ UNCHANGED faults
               /\ e # None => Fault /\ (e.code \in {"preEffect", "policy"} => ~lands)
                              /\ (e.code = "postcondition" => lands /\ Changes(k))
               /\ LET acts == lands /\ Changes(k)
                      version == IF acts THEN page.dom + 1 ELSE page.dom
                  IN  /\ page' = [page EXCEPT !.dom = version,
                                     !.loaded = IF acts /\ k = "navigate" THEN version ELSE @]
                      /\ effects' = [effects EXCEPT ![c] = IF acts THEN @ + 1 ELSE @]
                      /\ Go(c, [run[c] EXCEPT !.at = "acted", !.error = e,
                                   !.did = IF acts THEN version ELSE @,
                                   !.saw = IF k = "inspect" THEN page.dom ELSE 0,
                                   !.due = IF k = "inspect" THEN Settled ELSE {}])
        /\ UNCHANGED <<journal, staging, saved, tries, crashes>>

\* record_page_taint, at the end of the engine's execute.
record_page_taint(p, k, succeeded) ==
    [p EXCEPT !.tainted = CASE k = "navigate" -> ~succeeded
                            [] k \in {"click", "submit"} -> TRUE
                            [] OTHER -> @]

\* record_execution_context: invalidate first, record second.
record_execution_context(p, c) ==
    LET q == invalidate_for(p, run[c].kind)
    IN  IF run[c].kind = "snapshot" THEN record(q) ELSE q

returned(c) ==
    LET k == run[c].kind
        e == run[c].error
        p == record_page_taint(page, k, e = None)
    IN  /\ run[c].at = "acted"
        /\ \/ /\ e = None
              /\ page' = record_execution_context(p, c)
              /\ Go(c, [run[c] EXCEPT !.at = "verifying", !.again = FALSE])
           \/ /\ e # None
              /\ e.code = "dead" /\ ~run[c].again
              /\ page' = p
              /\ Go(c, Moved(c, "recover"))
           \/ /\ e # None
              /\ e.code # "dead" \/ run[c].again
              /\ page' = invalidate_for(p, k)
              /\ Go(c, Failing(c, classify_failure(k, e)))
        /\ UNCHANGED <<journal, staging, saved, effects, tries, faults, crashes>>

\* The deadline drops the engine's future where it is.
deadline(c) ==
    /\ run[c].at \in {"attempt", "acted"}
    /\ Fault
    /\ finish_failure(c, classify_failure(run[c].kind, Error("other", TRUE)))
    /\ UNCHANGED <<journal, staging, saved, effects, tries, crashes>>

(***************************************************************************)
(* Results fetched over HTTP: an inspection, or a download that is staged     *)
(* under the command's id and saved under a name.                             *)
(***************************************************************************)
fetch(c) ==
    LET k == run[c].kind
    IN  /\ run[c].at = "attempt"
        /\ ReadsDirectly(c)
        /\ k = "download" => saved.by = None /\ staging[c] = "none"
        /\ staging' = IF k = "download" THEN [staging EXCEPT ![c] = "staged"] ELSE staging
        /\ Go(c, [run[c] EXCEPT !.at = "resultPrepared", !.again = FALSE,
                     !.saw = IF k = "inspect" THEN page.loaded ELSE 0,
                     !.due = IF k = "inspect" THEN Settled ELSE {}])
        /\ UNCHANGED <<journal, page, saved, effects, tries, faults, crashes>>

\* DownloadDestination::validate turns a name that is taken away; the fetch, the
\* artifact or the staging can fail.
fetch_fails(c) ==
    LET k == run[c].kind
    IN  /\ run[c].at = "attempt"
        /\ ReadsDirectly(c)
        /\ \/ /\ k = "download" /\ saved.by # None
              /\ finish_failure(c, classify_failure(k, Error("policy", FALSE)))
              /\ UNCHANGED faults
           \/ /\ k = "download" /\ saved.by = None /\ staging[c] # "none"
              /\ finish_failure(c, classify_failure(k, Error("other", FALSE)))
              /\ UNCHANGED faults
           \/ /\ Fault
              /\ \E e \in {Error("preEffect", FALSE), Error("other", FALSE), Error("other", TRUE)} :
                    finish_failure(c, classify_failure(k, e))
        /\ UNCHANGED <<journal, staging, saved, effects, tries, crashes>>

\* publish links the staged file under its name, syncs the directory, and removes
\* the staged entry.
publish_unsynced(c) ==
    /\ saved' = [by |-> c, synced |-> FALSE]
    /\ staging' = [staging EXCEPT ![c] = "published"]

publish(c) ==
    /\ saved' = [by |-> c, synced |-> TRUE]
    /\ staging' = [staging EXCEPT ![c] = "published"]

\* The task that prepared the result commits it.
commit_waits(c) ==
    /\ run[c].at = "publish"
    /\ \/ /\ run[c].kind = "inspect"
          /\ UNCHANGED <<staging, saved>>
       \/ /\ run[c].kind = "download" /\ saved.by = None
          /\ publish(c)
    /\ Go(c, IF run[c].live THEN Moved(c, "commit") ELSE Gone(c))
    /\ UNCHANGED <<journal, page, effects, tries, faults, crashes>>

commit_takes_any(c) ==
    /\ run[c].at = "publish"
    /\ \/ /\ run[c].kind = "inspect" \/ saved.by # None
          /\ UNCHANGED <<staging, saved>>
       \/ /\ run[c].kind = "download" /\ saved.by = None
          /\ publish(c)
    /\ Go(c, IF run[c].live THEN Moved(c, "commit") ELSE Gone(c))
    /\ UNCHANGED <<journal, page, effects, tries, faults, crashes>>

commit(c) ==
    /\ run[c].at = "publish"
    /\ \/ /\ run[c].kind = "inspect"
          /\ Go(c, IF run[c].live THEN Moved(c, "commit") ELSE Gone(c))
          /\ UNCHANGED <<staging, saved, faults>>
       \/ /\ run[c].kind = "download" /\ saved.by = None
          /\ publish(c)
          /\ Go(c, IF run[c].live THEN Moved(c, "commit") ELSE Gone(c))
          /\ UNCHANGED faults
       \/ /\ run[c].kind = "download" /\ saved.by # None    \* the name is taken
          /\ Go(c, Answered(c, "reconcile"))
          /\ UNCHANGED <<staging, saved, faults>>
       \/ /\ run[c].kind = "download" /\ saved.by = None    \* the artifact or the link
          /\ Fault                                           \* or its sync fails
          /\ Go(c, Answered(c, "reconcile"))
          /\ saved' \in {saved, [by |-> c, synced |-> FALSE]}
          /\ UNCHANGED staging
    /\ UNCHANGED <<journal, page, effects, tries, crashes>>

\* The worker takes over the HTTP state the result came with.
commit_http_state(c) ==
    /\ run[c].at = "commit"
    /\ \/ /\ page' = record_execution_context(page, c)
          /\ Go(c, Moved(c, "verifying"))
          /\ UNCHANGED faults
       \/ Fault /\ finish_failure(c, "reconcile")
    /\ UNCHANGED <<journal, staging, saved, effects, tries, crashes>>

verify(c) ==
    /\ run[c].at = "verify"
    /\ \/ Go(c, Moved(c, "completed")) /\ UNCHANGED <<page, faults>>
       \/ /\ Fault
          /\ \E e \in {verification_error, Error("other", TRUE), Error("other", FALSE)} :
                finish_failure(c, classify_failure(run[c].kind, e))
    /\ UNCHANGED <<journal, staging, saved, effects, tries, crashes>>

(***************************************************************************)
(* A lost transport (execution/transport.rs, execution/revival.rs).           *)
(***************************************************************************)
\* Replayable commands run once more; no other command does.
retry_always(c, outcome) ==
    /\ Go(c, [run[c] EXCEPT !.at = "attempt", !.again = TRUE, !.error = None])
    /\ UNCHANGED page

retry(c, outcome) ==
    IF class(run[c].kind) = "Replayable"
    THEN /\ Go(c, [run[c] EXCEPT !.at = "attempt", !.again = TRUE, !.error = None])
         /\ UNCHANGED page
    ELSE finish_failure(c, outcome)

\* The browser no longer lists the page, or the revival fails.
recover_gives_up(c) ==
    /\ run[c].at = "recover"
    /\ finish_failure(c, classify_failure(run[c].kind, run[c].error))
    /\ UNCHANGED <<journal, staging, saved, effects, tries, faults, crashes>>

\* The browser and the page answer after all.
recover(c) ==
    /\ run[c].at = "recover"
    /\ retry(c, "failed")
    /\ UNCHANGED <<journal, staging, saved, effects, tries, faults, crashes>>

after_reattach(c) ==
    /\ run[c].at = "recover"
    /\ retry(c, classify_failure(run[c].kind, [run[c].error EXCEPT !.retryable = TRUE]))
    /\ UNCHANGED <<journal, staging, saved, effects, tries, faults, crashes>>

\* A new browser loads the page's last URL.
revive(c) ==
    LET k == run[c].kind
        p == [page EXCEPT !.dom = @ + 1, !.loaded = page.dom + 1]
    IN  /\ run[c].at = "recover"
        /\ IF class(k) = "Replayable"
           THEN /\ Go(c, [run[c] EXCEPT !.at = "attempt", !.again = TRUE, !.error = None])
                /\ page' = p
           ELSE /\ Go(c, Failing(c, classify_failure(k, Error("detached", FALSE))))
                /\ page' = invalidate_for(p, k)
        /\ UNCHANGED <<journal, staging, saved, effects, tries, faults, crashes>>

(***************************************************************************)
(* Callers that go away, crashes, and recovery from the journal.              *)
(***************************************************************************)
drop(c) ==
    /\ Running(c) /\ run[c].live
    /\ Fault
    /\ Go(c, IF run[c].at \in CommandPhase \cup {"publish"}
             THEN [run[c] EXCEPT !.live = FALSE] ELSE Gone(c))
    /\ UNCHANGED <<journal, page, staging, saved, effects, tries, crashes>>

\* The process dies, perhaps in the middle of an append or of a publication, and
\* starts again: the journal is opened, the pages and the context are gone.
Crash ==
    /\ crashes < MaxCrashes
    /\ crashes' = crashes + 1
    /\ \E c \in Commands \cup {None} :
           LET inAppend == c # None /\ run[c].at \in CommandPhase
               inPublish == c # None /\ run[c].at = "publish" /\ run[c].kind = "download"
                            /\ saved.by = None
           IN  /\ c # None => inAppend \/ inPublish
               /\ \E j \in IF inAppend THEN Botched(journal, c, Record(c)) ELSE {journal} :
                     \E k \in AfterPowerLoss(j) : journal' = refresh(k)
               /\ \/ /\ inPublish
                     /\ saved' = [by |-> c, synced |-> TRUE]
                     /\ staging' \in {staging, [staging EXCEPT ![c] = "published"]}
                  \/ /\ saved' \in {[saved EXCEPT !.synced = TRUE]}
                                 \cup (IF saved.synced THEN {}
                                       ELSE {[by |-> None, synced |-> TRUE]})
                     /\ UNCHANGED staging
    /\ run' = [c \in Commands |->
                  IF Running(c) THEN Gone(c)
                  ELSE [run[c] EXCEPT !.did = 0, !.saw = 0, !.due = {}]]
    /\ page' = FreshPage
    /\ tries' = [c \in Commands |-> IF tries[c] = 0 THEN 0 ELSE MaxAttempts]
    /\ UNCHANGED <<effects, faults>>

\* What recover_command answers from a journal that history has looked at.
Recovery_forgets_verifying(j, c) ==
    LET last == j.lines[c][Len(j.lines[c])].phase
    IN  IF IsDamaged(j, c) THEN "reconcile"
        ELSE IF HasOutcome(j, c) THEN LatestOutcome(j, c)
        ELSE IF HasPhase(j, c, "resultPrepared") THEN "reconcile"
        ELSE IF /\ j.lines[c] # <<>>
                /\ class(run[c].kind) # "Replayable"
                /\ last = "executing"
             THEN "reconcile"
        ELSE "retryable"

Recovery(j, c) ==
    LET last == j.lines[c][Len(j.lines[c])].phase
    IN  IF IsDamaged(j, c) THEN "reconcile"
        ELSE IF HasOutcome(j, c) THEN LatestOutcome(j, c)
        ELSE IF HasPhase(j, c, "resultPrepared") THEN "reconcile"
        ELSE IF /\ j.lines[c] # <<>>
                /\ class(run[c].kind) # "Replayable"
                /\ last \in {"executing", "verifying"}
             THEN "reconcile"
        ELSE "retryable"

\* finalize_prepared_download, and the clean-up of one whose outcome is recorded.
recover_command(c) ==
    LET j == refresh(journal)
        prepared == HasPhase(j, c, "resultPrepared") /\ run[c].kind = "download"
    IN  /\ run[c].at \in {"done", "gone"} /\ run[c].kind # None
        /\ journal' = j
        /\ IF IsDamaged(j, c) \/ ~prepared \/ staging[c] \notin {"staged", "published"}
           THEN UNCHANGED <<staging, saved>>
           ELSE IF HasOutcome(j, c) \/ saved.by = c
           THEN cleanup(c, "cleaned")
           ELSE IF saved.by = None /\ staging[c] = "staged"
           THEN /\ staging' = [staging EXCEPT ![c] = "cleaned"]
                /\ saved' = [by |-> c, synced |-> TRUE]
           ELSE UNCHANGED <<staging, saved>>
        /\ UNCHANGED <<run, page, effects, tries, faults, crashes>>

Step(c) ==
    \/ append_ok(c) \/ append_fails(c)
    \/ lease_ok(c) \/ lease_fails(c)
    \/ dispatch(c) \/ returned(c) \/ deadline(c)
    \/ fetch(c) \/ fetch_fails(c) \/ commit(c) \/ commit_http_state(c)
    \/ verify(c)
    \/ recover_gives_up(c) \/ recover(c) \/ after_reattach(c) \/ revive(c)

Next ==
    \/ \E c \in Commands :
          \/ \E k \in Kinds[c] : submit(c, k) \/ refuse(c, k)
          \/ Step(c)
          \/ drop(c)
          \/ recover_command(c)
    \/ Crash

Spec == Init /\ [][Next]_vars

(***************************************************************************)
(* A command that runs goes on: the runtime polls its future, the appends and *)
(* the publication are tasks, and every call to the browser is bounded by the *)
(* deadline or by a timeout of its own.  Nothing makes a caller go away, and  *)
(* nothing makes a client submit.                                             *)
(***************************************************************************)
Fairness == \A c \in Commands : WF_vars(Step(c))

FairSpec == Spec /\ Fairness

(***************************************************************************)
(* Properties.                                                                *)
(***************************************************************************)
\* The types, and: only an append or a publication goes on once its caller left.
TypeOK ==
    /\ journal \in Journals
    /\ run \in [Commands -> [at : Points, kind : AllKinds \cup {None}, live : BOOLEAN,
                              again : BOOLEAN, error : Errors \cup {None},
                              outcome : CommandOutcome \cup {None},
                              did : Nat, saw : Nat, due : SUBSET Nat]]
    /\ \A c \in Commands :
          ~run[c].live => run[c].at \in CommandPhase \cup {"publish", "idle", "gone"}
    /\ page \in [dom : Nat, loaded : Nat, tainted : BOOLEAN, generation : Nat,
                  observed : Nat \cup {None}, recorded : Nat]
    /\ page.loaded <= page.dom
    /\ page.observed # None => page.observed <= page.generation
    /\ staging \in [Commands -> {"none", "staged", "published", "cleaned", "discarded"}]
    /\ saved \in [by : Commands \cup {None}, synced : BOOLEAN]
    /\ effects \in [Commands -> Nat] /\ tries \in [Commands -> 0..MaxAttempts]
    /\ faults \in 0..MaxFaults /\ crashes \in 0..MaxCrashes

\* A command that is not safe to replay and that acted on the page is never
\* reported as one that can be run again, for as long as the journal has no
\* outcome for it: recover_command asks for reconciliation, whatever append
\* failed, whichever caller left and wherever the process died
\* (runtime-tests/tests/interface_recovery.rs:704).
RecoveryNeverGuesses ==
    \A c \in Commands :
        (/\ run[c].kind # None /\ class(run[c].kind) # "Replayable"
         /\ effects[c] > 0 /\ ~HasOutcome(journal, c))
        => Recovery(refresh(journal), c) = "reconcile"

\* A caller who was told that a command completed finds it so in the journal,
\* after a crash too, unless the damage of another command's line made the
\* journal be set aside with it (executor.rs:433-447).
CompletedIsDurable ==
    \A c \in Commands :
        run[c].outcome = "completed" =>
            Recovery(refresh(journal), c) =
                IF c \in refresh(journal).archived THEN "reconcile" ELSE "completed"

\* A recorded completion of a download never outlives the file it reports, nor
\* does it report the file of another download (adaptive.rs:1065).
CompletedDownloadIsSaved ==
    \A c \in Commands :
        (run[c].kind = "download" /\ HasPhase(journal, c, "completed"))
        => saved.by = c /\ saved.synced

\* A download whose prepared result is recorded and whose outcome is not can be
\* finalized from what is on the disk, unless its file was discarded because the
\* append was reported as failed, or another download took its name
\* (executor.rs:80-111).
PreparedDownloadSurvives ==
    \A c \in Commands :
        (/\ run[c].kind = "download"
         /\ HasPhase(journal, c, "resultPrepared") /\ ~HasOutcome(journal, c))
        => staging[c] \in {"staged", "discarded"} \/ saved.by = c

\* No command that is not replayable acts on the page twice in one submission,
\* whatever becomes of the transport (execution/transport.rs:1).
MutationIsNotReplayed ==
    \A c \in Commands :
        (run[c].kind # None /\ class(run[c].kind) # "Replayable") => effects[c] <= tries[c]

\* Once a command that changed the page is answered, the context graph does not
\* answer from an observation recorded before the change (executor.rs:565-570,
\* executor/context.rs:38-41).
ChangeIsForgotten ==
    \A c \in Commands :
        (run[c].at = "done" /\ run[c].did > 0 /\ page.observed = page.generation)
        => page.recorded >= run[c].did

\* A command that was submitted is answered, or its caller leaves.
CommandIsAnswered == \A c \in Commands : Running(c) ~> ~Running(c)

\* A whole-page read sees every change whose command was answered before it.
ReadSeesTheLivePage ==
    \A c \in Commands :
        (run[c].kind = "inspect" /\ run[c].outcome = "completed")
        => \A v \in run[c].due : run[c].saw >= v
=============================================================================
