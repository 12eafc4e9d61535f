---------------------------- MODULE MCWorkerPool ----------------------------
(***************************************************************************)
(* Instances of WorkerPool.                                                  *)
(***************************************************************************)
EXTENDS WorkerPool, TLC

\* Callers and slots are interchangeable.
Interchangeable ==
    Permutations(Calls) \cup Permutations(Tasks) \cup Permutations(Cleanups)
        \cup Permutations(Entries) \cup Permutations(Workers)

=============================================================================
