---------------------------- MODULE VolumeCover ----------------------------
(***************************************************************************)
(* The Volume Cover runtime: openings, detector cycles and close requests   *)
(* (PositionLifecycle) and hedge manager ticks (HedgeManager) in one        *)
(* process, over the same tables and the same venue account.                *)
(***************************************************************************)
EXTENDS PositionLifecycle, HedgeManager

allVars == <<vars, managerVars>>

RuntimeInit == Init /\ ManagerInit

RuntimeNext ==
  \/ LifecycleStep /\ UNCHANGED managerVars
  \/ (\E m \in Managers : ManagerStep(m)) /\ UNCHANGED lifecycleVars
  \/ Restart /\ ManagerRestart

RuntimeSpec == RuntimeInit /\ [][RuntimeNext]_allVars
=============================================================================
