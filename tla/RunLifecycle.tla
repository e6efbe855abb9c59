---------------------------- MODULE RunLifecycle ----------------------------
(***************************************************************************)
(* What a run promises to those who look at it: it goes through its tasks  *)
(* one after the other, may be paused and resumed on the way, is complete  *)
(* only when every task is, and once it has ended it stays as it is.       *)
(*                                                                         *)
(* This is the abstract specification that WorkspaceRun implements when    *)
(* the operator acts on a run that is at rest.                             *)
(***************************************************************************)
EXTENDS Integers

CONSTANT N      (* number of tasks *)

VARIABLES
  phase,        (* where the run is                  *)
  done          (* how many of its tasks are complete *)

lifecycleVars == << phase, done >>

LifecycleInit == phase = "none" /\ done = 0

Move(from, to) == phase \in from /\ phase' = to /\ UNCHANGED done

Begin    == Move({"none"}, "running")
Pause    == Move({"running"}, "paused")
Continue == Move({"paused"}, "running")
Complete == done = N /\ Move({"running"}, "completed")
Fail     == Move({"running"}, "failed")
Cancelled == Move({"running", "paused"}, "cancelled")

(* The next task is complete: worked on, or skipped by the operator.       *)
Advance ==
  /\ phase \in {"running", "paused"}
  /\ done < N
  /\ done' = done + 1
  /\ UNCHANGED phase

LifecycleNext ==
  Begin \/ Pause \/ Continue \/ Complete \/ Fail \/ Cancelled \/ Advance

LifecycleSpec == LifecycleInit /\ [][LifecycleNext]_lifecycleVars
=============================================================================
