------------------------- MODULE JobSchedulerArchive -------------------------
(***************************************************************************)
(* The scheduler and what its recovery does to receipts.  open archives a     *)
(* torn journal, with every receipt in it, and starts a new one, so the       *)
(* receipts are followed up to the first such archive.                        *)
(***************************************************************************)
EXTENDS JobScheduler

VARIABLE archived   \* a recovery has put a torn journal away

durableVars == <<vars, archived>>

DurableInit == Init /\ archived = FALSE

\* What open refuses to read on: the last line is torn, or a line before it.
Unreadable == store.torn \/ store.damaged

DurableNext == Next /\ archived' = (archived \/ (~Up /\ Unreadable))

DurableSpec == DurableInit /\ [][DurableNext]_durableVars

\* No two different decisions are ever acknowledged for one job, however many
\* restarts lie between them: resolve_job keeps an uncertain attestation pending
\* until reload, and answers from its receipt.
ReceiptsAgree == archived \/ \A id \in JobIds : \A d, e \in receipts[id] : d = e
=============================================================================
