-------------------------- MODULE MCWorkspaceLock --------------------------
(* Three runs, one of them on another host. *)
EXTENDS WorkspaceLock, TLC

CONSTANTS r1, r2, r3

MCProcesses == {r1, r2, r3}
MCHost == (r1 :> "here") @@ (r2 :> "here") @@ (r3 :> "there")
=============================================================================
