------------------------------- MODULE Engine -------------------------------
(***************************************************************************)
(* The two pieces of engine.rs that several host threads use at once,       *)
(* side by side: the scheduler that admits their work, and the chapter      *)
(* cache that the work goes through.  Neither calls the other, so their     *)
(* steps interleave freely.                                                 *)
(***************************************************************************)
EXTENDS Scheduler, BookSession

engineVars == <<schedulerVars, sessionCacheVars>>

EngineInit == SchedulerInit /\ CacheInit

EngineNext ==
  \/ SchedulerNext /\ UNCHANGED sessionCacheVars
  \/ CacheNext /\ UNCHANGED schedulerVars

EngineSpec == EngineInit /\ [][EngineNext]_engineVars
=============================================================================
