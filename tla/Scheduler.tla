----------------------------- MODULE Scheduler -----------------------------
(***************************************************************************)
(* The generation-aware scheduler of crates/pagelet/src/engine.rs.          *)
(*                                                                         *)
(* The scheduler starts no thread: it admits requests, and a host runs the  *)
(* work of each on a thread of its own and hands the result back, however   *)
(* late.  Its methods take &mut self, so each is one action; a cancellation *)
(* goes through the request's shared token and may come from anywhere.      *)
(***************************************************************************)
EXTENDS Integers, FiniteSets

CONSTANTS
  ForegroundThreads, BackgroundThreads,  \* the lanes of WorkerConfig
  MaxInflight,     \* WorkerConfig::max_inflight_chapters
  MaxRequests,     \* bound on the requests ever admitted
  MaxInvalidated   \* bound on the number of invalidations

ASSUME WorkerAssumption ==
  /\ ForegroundThreads \in Nat \ {0}
  /\ BackgroundThreads \in Nat
  /\ MaxInflight \in Nat \ {0}

VARIABLES
  current,       \* Scheduler::current, a generation
  nextRequest,   \* Scheduler::next_request_id
  requests,      \* Scheduler::requests
  stopped,       \* ids whose cancellation token is set
  running,       \* requests whose work a host thread still carries out
  outdated,      \* history: ids admitted before the last invalidation
  accepted       \* history: ids whose result was reported current

schedulerVars == <<current, nextRequest, requests, stopped, running, outdated, accepted>>

Priorities == {"Foreground", "Background"}

LaneCapacity == [Foreground |-> ForegroundThreads, Background |-> BackgroundThreads]

ScheduledRequest == [id : 0 .. MaxRequests - 1, generation : 0 .. MaxInvalidated,
                     priority : Priorities]

SchedulerInit ==
  /\ current = 0
  /\ nextRequest = 0
  /\ requests = {}
  /\ stopped = {}
  /\ running = {}
  /\ outdated = {}
  /\ accepted = {}

Lane(S, priority) == {r \in S : r.priority = priority}

\* Mutant of Kept: cancelled requests keep their slot.
KeptAll == requests

\* The requests retained when the next one is scheduled.
Kept == {r \in requests : r.id \notin stopped}

Admits(priority) ==
  /\ Cardinality(Kept) < MaxInflight
  /\ Cardinality(Lane(Kept, priority)) < LaneCapacity[priority]

\* schedule_with_priority: cancelled requests are dropped first, whether or
\* not the new one is admitted.
Schedule(priority) ==
  LET request == [id |-> nextRequest, generation |-> current, priority |-> priority] IN
  /\ nextRequest < MaxRequests
  /\ IF Admits(priority)
     THEN /\ requests' = Kept \cup {request}
          /\ running' = running \cup {request}
          /\ nextRequest' = nextRequest + 1
     ELSE requests' = Kept /\ UNCHANGED <<running, nextRequest>>
  /\ UNCHANGED <<current, stopped, outdated, accepted>>

\* ScheduledRequest::cancel, by any holder of a clone.
Cancel(r) ==
  /\ stopped' = stopped \cup {r.id}
  /\ UNCHANGED <<current, nextRequest, requests, running, outdated, accepted>>

\* Mutant of Accepts: any request the scheduler still knows.
AcceptsKnown(r) == r \in running

Accepts(r) == r.generation = current

\* The work ends and its result is offered to complete.
Complete(r) ==
  /\ running' = running \ {r}
  /\ requests' = {a \in requests : a.id # r.id}
  /\ accepted' = IF Accepts(r) THEN accepted \cup {r.id} ELSE accepted
  /\ UNCHANGED <<current, nextRequest, stopped, outdated>>

Invalidate ==
  /\ current < MaxInvalidated
  /\ current' = current + 1
  /\ stopped' = stopped \cup {r.id : r \in requests}
  /\ requests' = {}
  /\ outdated' = 0 .. nextRequest - 1
  /\ UNCHANGED <<nextRequest, running, accepted>>

SchedulerNext ==
  \/ \E priority \in Priorities : Schedule(priority)
  \/ \E r \in running : Cancel(r) \/ Complete(r)
  \/ Invalidate

SchedulerSpec == SchedulerInit /\ [][SchedulerNext]_schedulerVars

-----------------------------------------------------------------------------
(* Properties *)

(* Types; the requests tracked are running ones of the current generation.  *)
SchedulerTypeOK ==
  /\ current \in 0 .. MaxInvalidated
  /\ nextRequest \in 0 .. MaxRequests
  /\ running \subseteq ScheduledRequest
  /\ requests \subseteq {r \in running : r.generation = current}
  /\ stopped \subseteq 0 .. MaxRequests - 1
  /\ accepted \subseteq 0 .. MaxRequests - 1

(* "Work may finish after invalidation, but stale results are rejected"     *)
(* (Scheduler): no result is reported current once the generation it was    *)
(* scheduled in has been invalidated.                                       *)
StaleRejected == [][(accepted' \ accepted) \cap outdated = {}]_schedulerVars

\* Work going on that nobody has told to stop.
Working == {r \in running : r.id \notin stopped}

(* The worker limits bound the threads that do work somebody still wants:   *)
(* no request falls out of the scheduler's sight without being cancelled,   *)
(* though cancelled work may still be running beside them.                  *)
WorkersWithinLimits ==
  /\ Cardinality(Working) <= MaxInflight
  /\ \A priority \in Priorities :
       Cardinality(Lane(Working, priority)) <= LaneCapacity[priority]

(* Visible-page work stays ahead of prefetch (WorkPriority): when the       *)
(* background lane cannot fill the scheduler alone, and nobody wants        *)
(* foreground work that is going on, foreground work is admitted.           *)
VisibleWorkAdmitted ==
  BackgroundThreads < MaxInflight /\ Lane(Working, "Foreground") = {} => Admits("Foreground")

(* The scheduler keeps its limits, and the limits leave room for the page    *)
(* the reader looks at (Scheduler::schedule in engine.rs).                   *)
LimitsKept == WorkersWithinLimits /\ VisibleWorkAdmitted
=============================================================================
