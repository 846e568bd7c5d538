------------------------------- MODULE Hosts -------------------------------
(***************************************************************************)
(* What hosts do with pagelet: threads that share an engine (Engine), an    *)
(* application that opens and disposes of the Flutter package's objects in  *)
(* any order (FlutterSessions), and the example's reader (ReaderLoads).     *)
(* They are different hosts, so a behaviour follows one of them.            *)
(***************************************************************************)
EXTENDS Engine, ReaderLoads

CONSTANT HostGenerations   \* how many handles the application is given

VARIABLE host   \* the host that this behaviour follows

hostVars == <<host, engineVars, loadVars>>

AppNext ==
  \/ SessionsOpen /\ nextGeneration <= HostGenerations
  \/ SessionsClose

HostsInit ==
  /\ host \in {"threads", "application", "reader"}
  /\ EngineInit
  /\ IF host = "reader" THEN ReaderInit ELSE ReaderStarts(0)

HostsNext ==
  /\ UNCHANGED host
  /\ \/ host = "threads" /\ EngineNext /\ UNCHANGED loadVars
     \/ host = "application" /\ AppNext /\ UNCHANGED <<engineVars, readerVars>>
     \/ host = "reader" /\ ReaderNext /\ UNCHANGED engineVars

HostsSpec == HostsInit /\ [][HostsNext]_hostVars
=============================================================================
