---------------------------- MODULE MCTaskLocks ----------------------------
(* Three runs of two jobs; the job of two of them may be cancelled. *)
EXTENDS TaskLocks, TLC

CONSTANTS r1, r2, r3, j1, j2

MCRuns == {r1, r2, r3}
MCJobs == {j1, j2}
MCJobOf == (r1 :> j1) @@ (r2 :> j1) @@ (r3 :> j2)
MCAbandon == {r1}
MCCancel == {j1}
MCNone == {}
=============================================================================
