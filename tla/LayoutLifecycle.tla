-------------------------- MODULE LayoutLifecycle --------------------------
(***************************************************************************)
(* What the native boundary promises a host about its layout sessions       *)
(* (docs/ffi-contract.md), with no threads, locks or tokens: a session is   *)
(* ready, or measuring for one range, or paginated for good.  The pages it  *)
(* accepts are those of the range it was measuring for.                     *)
(***************************************************************************)
CONSTANTS Layouts,   \* identities a session may have
          Ranges     \* page ranges a host asks for, "none" not one of them

VARIABLE contract    \* layout -> its phase, and the range asked for or answered

Absent == [phase |-> "absent", range |-> "none"]
Ready == [phase |-> "ready", range |-> "none"]
Gone == [phase |-> "gone", range |-> "none"]
Measuring(range) == [phase |-> "measuring", range |-> range]
Paginated(range) == [phase |-> "paginated", range |-> range]

LifecycleInit == contract = [l \in Layouts |-> Absent]

Step(l, before, after) ==
  contract[l] = before /\ contract' = [contract EXCEPT ![l] = after]

Create(l) == Step(l, Absent, Ready)

Ask(l, range) == Step(l, Ready, Measuring(range))

\* The request is cancelled, or its submission is refused.
Retire(l, range) == Step(l, Measuring(range), Ready)

Accept(l, range) == Step(l, Measuring(range), Paginated(range))

(* Releasing an engine or a book closes several sessions at once; a closed  *)
(* session stays closed.                                                    *)
Close(ls) ==
  /\ \A l \in ls : contract[l] # Absent
  /\ contract' = [l \in Layouts |-> IF l \in ls THEN Gone ELSE contract[l]]

LifecycleNext ==
  \/ \E l \in Layouts : Create(l)
  \/ \E l \in Layouts, range \in Ranges :
       Ask(l, range) \/ Retire(l, range) \/ Accept(l, range)
  \/ \E ls \in SUBSET Layouts : Close(ls)

LifecycleSpec == LifecycleInit /\ [][LifecycleNext]_contract
=============================================================================
