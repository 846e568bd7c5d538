------------------------- MODULE ControlPlaneProofs -------------------------
(***************************************************************************)
(* Proofs about the control plane, for any number of threads, ranges and    *)
(* handles.                                                                 *)
(*                                                                         *)
(* First, every critical section is a step of the registry or leaves it     *)
(* alone, so everything proved of the registry holds under concurrent       *)
(* calls.  Then what a submission may do, from an invariant that says what  *)
(* each call in progress still knows to be true.  Last, what a host sees    *)
(* that makes one call at a time: the lifecycle of LayoutLifecycle, with    *)
(* the sessions, their requests and the call in progress under one          *)
(* invariant.                                                               *)
(***************************************************************************)
EXTENDS ControlPlane, HandleRegistryProofs, FiniteSetTheorems

USE DefaultRangeAssumption

-----------------------------------------------------------------------------
(* The control plane implements the registry *)

\* A cancellation in progress holds the token of a request that was live when
\* the call began: it still is, or it went and its token was cancelled.
CancelHeld ==
  \A t \in Threads :
    At(t, "cancel_set") => frame[t].handle \in LiveOf("Request") \cup cancelled

FramesTyped == frame \in [Threads -> Frame]

HeldInv == IInv /\ FramesTyped /\ CancelHeld

\* What a registry step never undoes.
LEMMA RegistryMonotone ==
  ASSUME IInv, [RegistryNext]_registryVars
  PROVE  /\ cancelled \subseteq cancelled'
         /\ LiveOf("Request") \subseteq LiveOf("Request")' \cup cancelled'
         /\ nextGeneration <= nextGeneration'
<1>1. ASSUME NEW kind \in Kinds, NEW parent, Insert(kind, parent)
      PROVE  /\ cancelled' = cancelled
             /\ LiveOf("Request") \subseteq LiveOf("Request")'
             /\ nextGeneration <= nextGeneration'
  <2>1. NextToken(kind) \notin Live
    BY RawTokenDecodes DEF NextToken, IInv, RegistryTypeOK
  <2>2. Live' = Live \cup {NextToken(kind)}
    BY <1>1 DEF Insert, Live
  <2>3. \A t \in Live : entries'[t] = entries[t]
    BY <1>1, <2>1, <2>2 DEF Insert
  <2>4. LiveOf("Request") \subseteq LiveOf("Request")'
    BY <2>2, <2>3 DEF LiveOf
  <2> QED
    BY <1>1, <2>4 DEF Insert, IInv, RegistryTypeOK
<1>2. ASSUME NEW gone \in SUBSET Live, Remove(gone)
      PROVE  /\ cancelled \subseteq cancelled'
             /\ LiveOf("Request") \subseteq LiveOf("Request")' \cup cancelled'
             /\ nextGeneration' = nextGeneration
  <2>1. Live' = Live \ gone
    BY <1>2 DEF Remove, Live
  <2>2. \A t \in Live' : entries'[t] = entries[t]
    BY <1>2, <2>1 DEF Remove
  <2> QED
    BY <1>2, <2>1, <2>2 DEF Remove, LiveOf
<1>3. nextGeneration <= nextGeneration
  BY DEF IInv, RegistryTypeOK
<1>4. CASE UNCHANGED registryVars
  BY <1>3, <1>4 DEF registryVars, LiveOf, Live
<1>5. ASSUME NEW t, CancelToken(t)
      PROVE  /\ cancelled \subseteq cancelled'
             /\ LiveOf("Request")' = LiveOf("Request")
             /\ nextGeneration' = nextGeneration
  BY <1>5 DEF CancelToken, LiveOf, Live
<1>6. ASSUME NEW t \in Live, NEW expected, Dispose(t, expected)
      PROVE  \E gone \in SUBSET Live : Remove(gone)
  BY <1>6, SubtreeClosed DEF Dispose
<1>7. DropRegistry => \E gone \in SUBSET Live : Remove(gone)
  BY DEF DropRegistry
<1> QED
  BY <1>1, <1>2, <1>3, <1>4, <1>5, <1>6, <1>7
     DEF RegistryNext, InsertEngine, InsertBook, InsertChapter,
         InsertLayoutSession, InsertRequest, Kinds

LEMMA CallIsRegistryStep ==
  ASSUME NEW t \in Threads, Call(t)
  PROVE  [RegistryNext]_registryVars
<1>1. CASE EngineCreate(t)
  BY <1>1 DEF EngineCreate, RegistryNext
<1>2. ASSUME NEW h \in Live, HandleDispose(t, h)
      PROVE  RegistryNext
  BY <1>2 DEF HandleDispose, RegistryNext
<1>3. ASSUME NEW h \in Live,
             \/ BookResolve(t, h) \/ ChapterResolve(t, h) \/ LayoutFindBook(t, h)
             \/ \E range \in Ranges : RequestCheck(t, h, range)
             \/ SubmitBegin(t, h) \/ CancelBegin(t, h)
      PROVE  UNCHANGED registryVars
  BY <1>3 DEF BookResolve, ChapterResolve, LayoutFindBook, RequestCheck,
              SubmitBegin, CancelBegin
<1> QED
  BY <1>1, <1>2, <1>3 DEF Call

\* The five ways a later critical section changes the registry.
LEMMA ContinueIsRegistryStep ==
  ASSUME CancelHeld, NEW t \in Threads, Continue(t)
  PROVE  [RegistryNext]_registryVars
<1>1. CASE BookInsert(t) \/ ChapterInsert(t) \/ LayoutInsert(t) \/ RequestInsert(t)
  BY <1>1 DEF BookInsert, ChapterInsert, LayoutInsert, RequestInsert, InsertBook,
              InsertChapter, InsertLayoutSession, InsertRequest, RequireKind,
              LiveOf, RegistryNext
<1>2. CASE SubmitRetire(t) \/ CancelRetire(t)
  BY <1>2 DEF SubmitRetire, CancelRetire, DisposeRequest, RequireKind, LiveOf,
              RegistryNext, Kinds
<1>3. CASE CancelSet(t)
  <2>1. CASE frame[t].handle \in LiveOf("Request")
    BY <1>3, <2>1 DEF CancelSet, RegistryNext
  <2>2. CASE frame[t].handle \in cancelled
    BY <1>3, <2>2 DEF CancelSet, CancelToken, registryVars
  <2> QED
    BY <1>3, <2>1, <2>2 DEF CancelSet, CancelHeld
<1>4. CASE \/ LayoutResolve(t) \/ RequestResolve(t) \/ RequestLayout(t)
           \/ SubmitCheck(t) \/ SubmitRequest(t) \/ SubmitSession(t) \/ SubmitApply(t)
  BY <1>4 DEF LayoutResolve, RequestResolve, RequestLayout, SubmitCheck,
              SubmitRequest, SubmitSession, SubmitApply
<1> QED
  BY <1>1, <1>2, <1>3, <1>4 DEF Continue

LEMMA StepIsRegistryStep ==
  ASSUME CancelHeld, [ControlNext]_controlVars
  PROVE  [RegistryNext]_registryVars
<1>1. Drop => RegistryNext
  BY DEF Drop, RegistryNext
<1> QED
  BY <1>1, CallIsRegistryStep, ContinueIsRegistryStep DEF ControlNext, controlVars

\* Each step moves the frame of one thread only.
LEMMA FramesPreserved ==
  ASSUME HeldInv, [ControlNext]_controlVars
  PROVE  FramesTyped'
<1> USE DEF HeldInv, FramesTyped
<1>1. Idle \in Frame
  <2>1. Idle.late \in BOOLEAN
    BY Zenon DEF Idle
  <2>2. NoParent \in Nat
    BY DEF NoParent
  <2> QED
    BY <2>1, <2>2 DEF Idle, Frame, Labels
<1>2. \A h \in Live : h \in Nat /\ entries[h].parent \in Nat
  BY DEF IInv, RegistryTypeOK, Entry
<1>3. ASSUME NEW t \in Threads, Call(t)
      PROVE  FramesTyped'
  <2>1. ASSUME NEW label \in Labels, NEW h \in Nat, Begin(t, label, h)
        PROVE  FramesTyped'
    BY <1>1, <2>1 DEF Begin, Idle, Frame
  <2>2. CASE EngineCreate(t) \/ \E h \in Live : HandleDispose(t, h)
    BY <2>2 DEF EngineCreate, HandleDispose
  <2>3. ASSUME NEW h \in Live, BookResolve(t, h) \/ ChapterResolve(t, h) \/ CancelBegin(t, h)
        PROVE  FramesTyped'
    BY <1>2, <2>1, <2>3 DEF BookResolve, ChapterResolve, CancelBegin, Labels
  <2>4. ASSUME NEW h \in Live, LayoutFindBook(t, h)
        PROVE  FramesTyped'
    BY <1>1, <1>2, <2>4 DEF LayoutFindBook, Idle, Frame, Labels
  <2>5. ASSUME NEW h \in Live, NEW range \in Ranges, RequestCheck(t, h, range)
        PROVE  FramesTyped'
    BY <1>1, <1>2, <2>5 DEF RequestCheck, Idle, Frame, Labels
  <2>6. ASSUME NEW h \in Live, SubmitBegin(t, h)
        PROVE  FramesTyped'
    <3>1. (h \in cancelled) \in BOOLEAN
      OBVIOUS
    <3> DEFINE begun == [Idle EXCEPT !.at = "submit_check", !.handle = h,
                                     !.late = h \in cancelled]
    <3>2. begun \in Frame
      BY <1>1, <1>2, <3>1 DEF Idle, Frame, Labels
    <3>3. frame' = [frame EXCEPT ![t] = begun]
      BY <2>6 DEF SubmitBegin
    <3> QED
      BY <3>2, <3>3
  <2> QED
    BY <1>3, <2>2, <2>3, <2>4, <2>5, <2>6 DEF Call
<1>4. ASSUME NEW t \in Threads, Continue(t)
      PROVE  FramesTyped'
  <2>1. ASSUME NEW label \in Labels, Goto(t, label)
        PROVE  FramesTyped'
    BY <2>1 DEF Goto, Frame
  <2>2. CASE Return(t)
    BY <1>1, <2>2 DEF Return
  <2>3. CASE Reject(t)
    <3> DEFINE rejected == [frame[t] EXCEPT !.at = "submit_retire", !.result = "error"]
    <3>1. rejected \in Frame
      BY DEF Frame, Labels
    <3>2. frame' = [frame EXCEPT ![t] = rejected]
      BY <2>3 DEF Reject
    <3> QED
      BY <3>1, <3>2
  <2>4. CASE SubmitRequest(t)
    BY <1>2, <2>3, <2>4 DEF SubmitRequest, Frame, Labels, RequireKind, LiveOf
  <2>5. CASE SubmitApply(t)
    BY <2>3, <2>5 DEF SubmitApply, Frame, Labels
  <2>6. CASE \/ BookInsert(t) \/ ChapterInsert(t) \/ LayoutInsert(t)
             \/ RequestInsert(t) \/ SubmitRetire(t) \/ CancelRetire(t)
    BY <2>2, <2>6 DEF BookInsert, ChapterInsert, LayoutInsert, RequestInsert,
                      SubmitRetire, CancelRetire
  <2>7. CASE \/ LayoutResolve(t) \/ RequestResolve(t) \/ RequestLayout(t)
             \/ SubmitCheck(t) \/ SubmitSession(t) \/ CancelSet(t)
    <3>1. {"layout_insert", "request_layout", "request_insert", "submit_request",
           "submit_apply", "cancel_retire"} \subseteq Labels
      BY DEF Labels
    <3> QED
      BY <2>1, <2>2, <2>3, <2>7, <3>1
         DEF LayoutResolve, RequestResolve, RequestLayout, SubmitCheck,
             SubmitSession, CancelSet
  <2> QED
    BY <1>4, <2>4, <2>5, <2>6, <2>7 DEF Continue
<1> QED
  BY <1>3, <1>4 DEF ControlNext, controlVars, Drop

LEMMA OneFrameMoves ==
  ASSUME FramesTyped, NEW t \in Threads, NEW u \in Threads, t # u,
         Call(t) \/ Continue(t)
  PROVE  frame'[u] = frame[u]
BY DEF FramesTyped, Call, EngineCreate, BookResolve, ChapterResolve,
       LayoutFindBook, RequestCheck, SubmitBegin, CancelBegin, HandleDispose,
       Begin, Continue, BookInsert, ChapterInsert, LayoutResolve, LayoutInsert,
       RequestResolve, RequestLayout, RequestInsert, SubmitCheck,
       SubmitRequest, SubmitSession, SubmitApply, SubmitRetire, CancelSet,
       CancelRetire, Goto, Return, Reject

\* A thread enters "cancel_set" only with a live request, and stays there
\* with its handle until it has cancelled.
LEMMA CancelHeldPreserved ==
  ASSUME HeldInv, [ControlNext]_controlVars
  PROVE  CancelHeld'
<1> USE DEF HeldInv, FramesTyped, At
<1>1. /\ cancelled \subseteq cancelled'
      /\ LiveOf("Request") \subseteq LiveOf("Request")' \cup cancelled'
  BY StepIsRegistryStep, RegistryMonotone
<1>2. SUFFICES ASSUME NEW u \in Threads, frame'[u].at = "cancel_set"
               PROVE  frame'[u].handle \in LiveOf("Request")' \cup cancelled'
  BY DEF CancelHeld
<1>3. CASE frame'[u] = frame[u]
  BY <1>1, <1>2, <1>3 DEF CancelHeld
<1>4. ASSUME Call(u), frame'[u] # frame[u]
      PROVE  frame'[u].handle \in LiveOf("Request")
  <2>1. ASSUME NEW h \in Live, CancelBegin(u, h)
        PROVE  frame'[u].handle \in LiveOf("Request")
    BY <2>1 DEF CancelBegin, Begin, Idle, RequireKind
  <2>2. ASSUME NEW h \in Live,
               \/ BookResolve(u, h) \/ ChapterResolve(u, h) \/ LayoutFindBook(u, h)
               \/ \E range \in Ranges : RequestCheck(u, h, range)
               \/ SubmitBegin(u, h)
        PROVE  FALSE
    BY <1>2, <2>2 DEF BookResolve, ChapterResolve, LayoutFindBook, RequestCheck,
                      SubmitBegin, Begin, Idle
  <2> QED
    BY <1>4, <2>1, <2>2 DEF Call, EngineCreate, HandleDispose
<1>5. ASSUME Continue(u)
      PROVE  frame'[u].at # "cancel_set"
  <2>1. Return(u) => frame'[u].at = "idle"
    BY DEF Return, Idle
  <2>2. Reject(u) => frame'[u].at = "submit_retire"
    BY DEF Reject, Frame
  <2>3. \A label : Goto(u, label) => frame'[u].at = label
    BY DEF Goto, Frame
  <2>4. CASE \/ BookInsert(u) \/ ChapterInsert(u) \/ LayoutInsert(u)
             \/ RequestInsert(u) \/ SubmitRetire(u) \/ CancelRetire(u)
    BY <2>1, <2>4 DEF BookInsert, ChapterInsert, LayoutInsert, RequestInsert,
                      SubmitRetire, CancelRetire
  <2>5. CASE \/ LayoutResolve(u) \/ RequestResolve(u) \/ RequestLayout(u)
             \/ SubmitCheck(u) \/ SubmitSession(u) \/ CancelSet(u)
    BY <2>1, <2>2, <2>3, <2>5
       DEF LayoutResolve, RequestResolve, RequestLayout, SubmitCheck,
           SubmitSession, CancelSet
  <2>6. CASE SubmitRequest(u) \/ SubmitApply(u)
    BY <2>2, <2>6 DEF SubmitRequest, SubmitApply, Frame
  <2> QED
    BY <1>5, <2>4, <2>5, <2>6 DEF Continue
<1>6. ASSUME NEW t \in Threads, t # u, Call(t) \/ Continue(t)
      PROVE  frame'[u] = frame[u]
  BY <1>6, OneFrameMoves
<1>7. Drop \/ UNCHANGED controlVars => frame'[u] = frame[u]
  BY DEF Drop, controlVars
<1> QED
  BY <1>1, <1>2, <1>3, <1>4, <1>5, <1>6, <1>7 DEF ControlNext

LEMMA HeldInvInit == ControlInit => HeldInv
<1> SUFFICES ASSUME ControlInit PROVE HeldInv
  OBVIOUS
<1>1. FramesTyped
  <2>1. Idle.late \in BOOLEAN
    BY Zenon DEF Idle
  <2>2. Idle \in Frame
    BY <2>1 DEF Idle, Frame, Labels, NoParent
  <2> QED
    BY <2>2 DEF ControlInit, FramesTyped
<1>2. CancelHeld
  BY DEF ControlInit, CancelHeld, At, Idle
<1> QED
  BY <1>1, <1>2, InitEstablishes DEF ControlInit, HeldInv

LEMMA HeldInvPreserved ==
  ASSUME HeldInv, [ControlNext]_controlVars
  PROVE  HeldInv'
<1>1. IInv'
  BY StepIsRegistryStep, NextPreserves DEF HeldInv
<1> QED
  BY <1>1, FramesPreserved, CancelHeldPreserved DEF HeldInv

LEMMA HeldInvHolds == ControlSpec => []HeldInv
<1>1. HeldInv /\ [ControlNext]_controlVars => HeldInv'
  BY HeldInvPreserved
<1> QED
  BY <1>1, HeldInvInit, PTL DEF ControlSpec

(* Concurrent calls on the control plane leave the registry as if its       *)
(* operations had been called one after another: each critical section is   *)
(* one of them, or leaves the registry alone.                               *)
THEOREM ControlImplementsRegistry == ControlSpec => RegistrySpec
<1>1. ControlInit => RegistryInit
  BY DEF ControlInit
<1>2. HeldInv /\ [ControlNext]_controlVars => [RegistryNext]_registryVars
  BY StepIsRegistryStep DEF HeldInv
<1> QED
  BY <1>1, <1>2, HeldInvHolds, PTL DEF ControlSpec, RegistrySpec

(* Under concurrent calls too, no object outlives its owner.                *)
THEOREM ControlNoOrphans == ControlSpec => []NoOrphans
  BY ControlImplementsRegistry, RegistryNoOrphans, PTL

(* Under concurrent calls too, a request whose handle is gone is cancelled. *)
THEOREM ControlRetiredRequestsCancelled == ControlSpec => []RetiredRequestsCancelled
  BY ControlImplementsRegistry, RegistryRetiredRequestsCancelled, PTL
-----------------------------------------------------------------------------
(* Cancelled submissions *)

\* A submission that began after its request was cancelled never passes the
\* first check.
LateHeld ==
  \A t \in Threads : frame[t].late =>
    /\ frame[t].handle \in cancelled
    /\ frame[t].at \in {"submit_check", "submit_retire"}
    /\ frame[t].result \in {"none", "error"}

LEMMA LateHeldPreserved ==
  ASSUME HeldInv, LateHeld, [ControlNext]_controlVars
  PROVE  LateHeld'
<1> USE DEF HeldInv, FramesTyped, At
<1>1. cancelled \subseteq cancelled'
  BY StepIsRegistryStep, RegistryMonotone
<1>2. SUFFICES ASSUME NEW u \in Threads, frame'[u].late
               PROVE  /\ frame'[u].handle \in cancelled'
                      /\ frame'[u].at \in {"submit_check", "submit_retire"}
                      /\ frame'[u].result \in {"none", "error"}
  BY DEF LateHeld
<1>3. CASE frame'[u] = frame[u]
  BY <1>1, <1>2, <1>3 DEF LateHeld
<1>4. ASSUME Call(u), frame'[u] # frame[u]
      PROVE  /\ frame'[u].handle \in cancelled
             /\ frame'[u].at = "submit_check"
             /\ frame'[u].result = "none"
  <2>1. ASSUME NEW h \in Live, SubmitBegin(u, h)
        PROVE  /\ frame'[u].handle \in cancelled
               /\ frame'[u].at = "submit_check"
               /\ frame'[u].result = "none"
    BY <1>2, <2>1 DEF SubmitBegin, Idle
  <2>2. ASSUME NEW h \in Live,
               \/ BookResolve(u, h) \/ ChapterResolve(u, h) \/ LayoutFindBook(u, h)
               \/ \E range \in Ranges : RequestCheck(u, h, range)
               \/ CancelBegin(u, h)
        PROVE  FALSE
    BY <1>2, <2>2 DEF BookResolve, ChapterResolve, LayoutFindBook, RequestCheck,
                      CancelBegin, Begin, Idle
  <2> QED
    BY <1>4, <2>1, <2>2 DEF Call, EngineCreate, HandleDispose
<1>5. ASSUME Continue(u)
      PROVE  /\ frame'[u].handle \in cancelled
             /\ frame'[u].at = "submit_retire"
             /\ frame'[u].result = "error"
  <2>1. ~Return(u)
    BY <1>2 DEF Return, Idle
  <2>2. Goto(u, frame'[u].at) \/ Reject(u) => frame[u].late
    BY <1>2 DEF Goto, Reject, Frame
  <2>3. CASE SubmitCheck(u)
    <3>1. frame[u].late
      BY <2>2, <2>3, <1>2 DEF SubmitCheck, Goto, Reject, Frame
    <3>2. frame[u].handle \in cancelled
      BY <3>1 DEF LateHeld
    <3> QED
      BY <2>3, <3>2 DEF SubmitCheck, Reject, Frame
  <2>4. CASE \/ LayoutResolve(u) \/ RequestResolve(u) \/ RequestLayout(u)
             \/ SubmitRequest(u) \/ SubmitSession(u) \/ SubmitApply(u) \/ CancelSet(u)
    <3>1. frame[u].late
      BY <1>2, <2>1, <2>4
         DEF LayoutResolve, RequestResolve, RequestLayout, SubmitRequest,
             SubmitSession, SubmitApply, CancelSet, Goto, Reject, Frame
    <3>2. frame[u].at \notin {"submit_check", "submit_retire"}
      BY <2>4 DEF LayoutResolve, RequestResolve, RequestLayout, SubmitRequest,
                  SubmitSession, SubmitApply, CancelSet
    <3> QED
      BY <3>1, <3>2 DEF LateHeld
  <2> QED
    BY <1>5, <2>1, <2>3, <2>4
       DEF Continue, BookInsert, ChapterInsert, LayoutInsert, RequestInsert,
           SubmitRetire, CancelRetire
<1>6. ASSUME NEW t \in Threads, t # u, Call(t) \/ Continue(t)
      PROVE  frame'[u] = frame[u]
  BY <1>6, OneFrameMoves
<1>7. Drop \/ UNCHANGED controlVars => frame'[u] = frame[u]
  BY DEF Drop, controlVars
<1> QED
  BY <1>1, <1>3, <1>4, <1>5, <1>6, <1>7 DEF ControlNext

(* However calls interleave, a submission that starts after its request is  *)
(* cancelled is refused.                                                    *)
THEOREM ControlRefusesCancelled == ControlSpec => []CancelledSubmitRefused
<1>1. ControlInit => LateHeld
  <2> SUFFICES ASSUME ControlInit, NEW t \in Threads PROVE ~frame[t].late
    BY DEF LateHeld
  <2>1. frame[t] = Idle
    BY DEF ControlInit
  <2>2. ~Idle.late
    BY DEF Idle
  <2> QED
    BY <2>1, <2>2
<1>2. LateHeld => CancelledSubmitRefused
  BY DEF LateHeld, CancelledSubmitRefused
<1> QED
  BY <1>1, <1>2, LateHeldPreserved, HeldInvHolds, PTL DEF ControlSpec
-----------------------------------------------------------------------------
(* Accepted pages *)

\* A new session's token is new to the sessions too, so none is overwritten.
SessionsOld ==
  \A s \in DOMAIN session : s \in Nat /\ Generation(s) < nextGeneration

LEMMA NewLayoutToken ==
  ASSUME IInv, SessionsOld
  PROVE  /\ NextToken("LayoutSession") \in Nat
         /\ Generation(NextToken("LayoutSession")) = nextGeneration
         /\ NextToken("LayoutSession") \notin DOMAIN session
<1>1. nextGeneration \in Nat
  BY DEF IInv, RegistryTypeOK
<1>2. /\ NextToken("LayoutSession") \in Nat
      /\ Generation(NextToken("LayoutSession")) = nextGeneration
  BY <1>1, RawTokenDecodes DEF NextToken, Kinds
<1> QED
  BY <1>1, <1>2 DEF SessionsOld

\* The ways a step changes the sessions.
LEMMA SessionSteps ==
  ASSUME [ControlNext]_controlVars
  PROVE  \/ UNCHANGED session
         \/ /\ session' = Extend(session, NextToken("LayoutSession"), Prepared)
            /\ nextGeneration' = nextGeneration + 1
         \/ \E t \in Threads : RequestLayout(t) \/ SubmitApply(t)
<1>1. ASSUME NEW t \in Threads, Call(t)
      PROVE  UNCHANGED session
  BY <1>1 DEF Call, EngineCreate, BookResolve, ChapterResolve, LayoutFindBook,
              RequestCheck, SubmitBegin, CancelBegin, HandleDispose
<1>2. ASSUME NEW t \in Threads, LayoutInsert(t)
      PROVE  \/ UNCHANGED session
             \/ /\ session' = Extend(session, NextToken("LayoutSession"), Prepared)
                /\ nextGeneration' = nextGeneration + 1
  BY <1>2 DEF LayoutInsert, InsertLayoutSession, Insert
<1>3. ASSUME NEW t \in Threads, Continue(t),
             ~LayoutInsert(t), ~RequestLayout(t), ~SubmitApply(t)
      PROVE  UNCHANGED session
  BY <1>3 DEF Continue, BookInsert, ChapterInsert, LayoutResolve, RequestResolve,
              RequestInsert, SubmitCheck, SubmitRequest, SubmitSession,
              SubmitRetire, CancelSet, CancelRetire
<1> QED
  BY <1>1, <1>2, <1>3 DEF ControlNext, controlVars, Drop

LEMMA SessionsOldPreserved ==
  ASSUME HeldInv, SessionsOld, [ControlNext]_controlVars
  PROVE  SessionsOld'
<1>1. nextGeneration \in Nat /\ nextGeneration' \in Nat /\ nextGeneration <= nextGeneration'
  BY StepIsRegistryStep, RegistryMonotone, NextPreserves DEF HeldInv, IInv, RegistryTypeOK
<1>2. \A s \in DOMAIN session : Generation(s) \in Int
  BY DEF SessionsOld, Generation
<1>3. CASE DOMAIN session' = DOMAIN session
  BY <1>1, <1>2, <1>3 DEF SessionsOld
<1>4. CASE /\ session' = Extend(session, NextToken("LayoutSession"), Prepared)
           /\ nextGeneration' = nextGeneration + 1
  <2>1. DOMAIN session' = DOMAIN session \cup {NextToken("LayoutSession")}
    BY <1>4 DEF Extend
  <2> QED
    BY <1>1, <1>2, <1>4, <2>1, NewLayoutToken DEF SessionsOld, HeldInv
<1>5. ASSUME NEW t \in Threads, RequestLayout(t) \/ SubmitApply(t)
      PROVE  DOMAIN session' = DOMAIN session
  BY <1>5 DEF RequestLayout, SubmitApply
<1> QED
  BY <1>3, <1>4, <1>5, SessionSteps

(* Once a session has accepted pages it keeps them, and the request they    *)
(* came from: no interleaving of submissions, range requests and disposals  *)
(* replaces them.                                                           *)
THEOREM ControlAcceptsPagesOnce == ControlSpec => PagesAcceptedOnce
<1> DEFINE Once ==
      \A s \in DOMAIN session : session[s].phase = "paginated" =>
        /\ session'[s].phase = "paginated"
        /\ session'[s].accepted = session[s].accepted
<1>1. ControlInit => SessionsOld
  BY DEF ControlInit, SessionsOld
<1>2. HeldInv /\ SessionsOld /\ [ControlNext]_controlVars => [Once]_session
  <2> SUFFICES ASSUME HeldInv, SessionsOld, [ControlNext]_controlVars,
                      NEW s \in DOMAIN session, session[s].phase = "paginated"
               PROVE  /\ session'[s].phase = "paginated"
                      /\ session'[s].accepted = session[s].accepted
    OBVIOUS
  <2>1. CASE session' = Extend(session, NextToken("LayoutSession"), Prepared)
    BY <2>1, NewLayoutToken DEF Extend, HeldInv
  <2>2. ASSUME NEW t \in Threads, RequestLayout(t)
        PROVE  /\ session'[s].phase = session[s].phase
               /\ session'[s].accepted = session[s].accepted
    BY <2>2 DEF RequestLayout
  <2>3. ASSUME NEW t \in Threads, SubmitApply(t)
        PROVE  session'[s] = session[s]
    BY <2>3 DEF SubmitApply
  <2> QED
    BY <2>1, <2>2, <2>3, SessionSteps
<1> QED
  BY <1>1, <1>2, SessionsOldPreserved, HeldInvHolds, PTL DEF ControlSpec, PagesAcceptedOnce

-----------------------------------------------------------------------------
(* A host that makes one call at a time *)

\* The shared sessions, and the ranges of requests, are typed; no session is
\* under a token still to come.
SessionsTyped ==
  /\ session \in [DOMAIN session -> Session]
  /\ rangeOf \in [DOMAIN rangeOf -> Ranges]
  /\ LiveOf("LayoutSession") \subseteq DOMAIN session
  /\ LiveOf("Request") \subseteq DOMAIN rangeOf
  /\ DOMAIN session \subseteq {RawToken(g, "LayoutSession") : g \in 1 .. nextGeneration - 1}

\* One request at a time, for the range the session remembers.
OneRequestEach ==
  \A l \in LiveOf("LayoutSession") : \A r \in InFlight(l) :
    /\ InFlight(l) = {r}
    /\ session[l].phase = "prepared" => rangeOf[r] = session[l].range

\* What the only call in progress knows stays true.
Alone(t) ==
  /\ frame[t].at \in {"request_resolve", "request_layout", "request_insert"} =>
       frame[t].handle \in LiveOf("LayoutSession") /\ InFlight(frame[t].handle) = {}
  /\ frame[t].at = "request_insert" =>
       /\ session[frame[t].handle].phase = "prepared"
       /\ session[frame[t].handle].range = frame[t].range
  /\ frame[t].at \in {"submit_check", "submit_request", "submit_session", "submit_apply",
                      "submit_retire", "cancel_set", "cancel_retire"} =>
       frame[t].handle \in LiveOf("Request")
  /\ frame[t].at \in {"submit_session", "submit_apply"} =>
       frame[t].owner = entries[frame[t].handle].parent

SerialInv(t) == HeldInv /\ SessionsTyped /\ OneRequestEach /\ Alone(t)

\* A session's token is one of a layout's, already given out.
LEMMA SessionTokens ==
  ASSUME IInv, SessionsTyped, NEW l \in DOMAIN session
  PROVE  /\ l \in LayoutTokens /\ l \in Nat /\ Generation(l) < nextGeneration
         /\ l \in Live => l \in LiveOf("LayoutSession")
<1>1. nextGeneration \in 1 .. MaxGeneration
  BY DEF IInv, RegistryTypeOK
<1>2. PICK g \in 1 .. nextGeneration - 1 : l = RawToken(g, "LayoutSession")
  BY DEF SessionsTyped
<1>3. /\ l \in Nat /\ Generation(l) = g /\ l % 8 = Tag["LayoutSession"]
  BY <1>1, <1>2, RawTokenDecodes DEF Kinds
<1>4. l \in LayoutTokens
  <2>1. g \in 1 .. MaxGeneration
    BY <1>1, MaxGenerationAssumption
  <2> QED
    BY <1>2, <2>1 DEF LayoutTokens
<1>5. ASSUME l \in Live PROVE l \in LiveOf("LayoutSession")
  BY <1>3, <1>5 DEF IInv, RegistryTypeOK, FromRaw, Entry, Kinds, Tag, LiveOf
<1> QED
  BY <1>1, <1>2, <1>3, <1>4, <1>5

LEMMA LiveSessions ==
  ASSUME IInv, SessionsTyped
  PROVE  Live \cap DOMAIN session = LiveOf("LayoutSession")
BY SessionTokens DEF SessionsTyped, LiveOf

\* What a host sees of a session depends on no more than this.
LEMMA SameView ==
  ASSUME NEW l,
         l \in DOMAIN session' <=> l \in DOMAIN session,
         l \in DOMAIN session => (l \in Live' <=> l \in Live),
         l \in DOMAIN session /\ l \in Live =>
           /\ session'[l].phase = session[l].phase
           /\ session[l].phase = "paginated" => session'[l].answered = session[l].answered
           /\ InFlight(l)' = InFlight(l)
           /\ \A r \in InFlight(l) : rangeOf'[r] = rangeOf[r]
  PROVE  HostView(l)' = HostView(l)
<1>1. CASE ~(l \in DOMAIN session /\ l \in Live)
  BY <1>1 DEF HostView
<1>2. CASE l \in DOMAIN session /\ l \in Live
  <2> DEFINE some == CHOOSE r \in InFlight(l) : TRUE
  <2>1. InFlight(l) # {} => some \in InFlight(l)
    OBVIOUS
  <2>2. (CHOOSE r \in InFlight(l) : TRUE)' = some
    BY <1>2
  <2> HIDE DEF some
  <2>3. InFlight(l) # {} => rangeOf'[some] = rangeOf[some]
    BY <1>2, <2>1
  <2> QED
    BY <1>2, <2>2, <2>3 DEF HostView, some
<1> QED
  BY <1>1, <1>2

\* A step that is about one session only.
SameBut(l) == \A k \in LayoutTokens \ {l} : HostView(k)' = HostView(k)
SameViews == \A k \in LayoutTokens : HostView(k)' = HostView(k)

View == [l \in LayoutTokens |-> HostView(l)]

LEMMA SameViewsStutter ==
  ASSUME SameViews PROVE UNCHANGED View
BY DEF SameViews, View

LEMMA OneViewChanges ==
  ASSUME NEW l \in LayoutTokens, SameBut(l), NEW before, NEW after,
         HostView(l) = before, HostView(l)' = after
  PROVE  Contract!Step(l, before, after)
<1>1. View[l] = before
  BY DEF View
<1>2. View' = [View EXCEPT ![l] = after]
  BY DEF View, SameBut
<1> QED
  BY <1>1, <1>2 DEF Contract!Step, View

Sound == SessionsTyped /\ OneRequestEach

LEMMA QuietStep ==
  ASSUME Sound, UNCHANGED <<entries, nextGeneration, session, rangeOf>>
  PROVE  /\ Sound' /\ SameViews
         /\ \A k \in Kinds : LiveOf(k)' = LiveOf(k)
         /\ \A l : InFlight(l)' = InFlight(l)
<1>1. /\ Live' = Live
      /\ \A k \in Kinds : LiveOf(k)' = LiveOf(k)
      /\ \A l : InFlight(l)' = InFlight(l)
  BY DEF Live, LiveOf, InFlight
<1>2. SameViews
  BY <1>1, SameView DEF SameViews
<1>3. SessionsTyped'
  BY <1>1 DEF Sound, SessionsTyped, Kinds
<1>4. OneRequestEach'
  BY <1>1 DEF Sound, OneRequestEach, Kinds
<1> QED
  BY <1>1, <1>2, <1>3, <1>4 DEF Sound

\* The requests of each session after an insertion.
LEMMA InsertedInFlight ==
  ASSUME IInv, NEW kind \in Kinds, NEW parent, Insert(kind, parent), NEW l
  PROVE  InFlight(l)' = IF kind = "Request" /\ parent = l THEN InFlight(l) \cup {NextToken(kind)}
                                                         ELSE InFlight(l)
<1> DEFINE new == NextToken(kind)
<1>1. /\ new \in Nat \ Live
      /\ Live' = Live \cup {new}
      /\ entries'[new] = [kind |-> kind, parent |-> parent]
      /\ \A t \in Live : entries'[t] = entries[t]
  BY Inserted
<1> HIDE DEF new
<1> QED
  BY <1>1 DEF InFlight, LiveOf, new

\* The typing of the sessions survives while they change within their types.
LEMMA InsertTyped ==
  ASSUME IInv, SessionsTyped, NEW kind \in Kinds, NEW parent, Insert(kind, parent),
         session' \in [DOMAIN session' -> Session], rangeOf' \in [DOMAIN rangeOf' -> Ranges],
         DOMAIN session' = IF kind = "LayoutSession" THEN DOMAIN session \cup {NextToken(kind)}
                                                     ELSE DOMAIN session,
         DOMAIN rangeOf' = IF kind = "Request" THEN DOMAIN rangeOf \cup {NextToken(kind)}
                                               ELSE DOMAIN rangeOf
  PROVE  SessionsTyped'
<1>1. /\ LiveOf(kind)' = LiveOf(kind) \cup {NextToken(kind)}
      /\ \A k \in Kinds \ {kind} : LiveOf(k)' = LiveOf(k)
  BY InsertAdds
<1>2. nextGeneration \in Nat /\ nextGeneration' = nextGeneration + 1 /\ nextGeneration >= 1
  <2>1. nextGeneration \in 1 .. MaxGeneration
    BY DEF IInv, RegistryTypeOK
  <2>2. nextGeneration' = nextGeneration + 1
    BY DEF Insert
  <2> QED
    BY <2>1, <2>2
<1>3. NextToken("LayoutSession") = RawToken(nextGeneration, "LayoutSession")
  BY DEF NextToken
<1>4. LiveOf("LayoutSession")' \subseteq DOMAIN session'
  BY <1>1 DEF SessionsTyped, Kinds
<1>5. LiveOf("Request")' \subseteq DOMAIN rangeOf'
  BY <1>1 DEF SessionsTyped, Kinds
<1>6. DOMAIN session' \subseteq {RawToken(g, "LayoutSession") : g \in 1 .. nextGeneration' - 1}
  <2>1. \A g \in 1 .. nextGeneration - 1 : g \in 1 .. nextGeneration' - 1
    BY <1>2
  <2>2. nextGeneration \in 1 .. nextGeneration' - 1
    BY <1>2
  <2> QED
    BY <1>3, <2>1, <2>2 DEF SessionsTyped
<1> QED
  BY <1>4, <1>5, <1>6 DEF SessionsTyped

LEMMA InsertObjectStep ==
  ASSUME IInv, Sound, NEW kind \in {"Engine", "Book", "Chapter"}, NEW parent,
         Insert(kind, parent), UNCHANGED <<session, rangeOf>>
  PROVE  Sound' /\ SameViews
<1>1. /\ kind \in Kinds
      /\ LiveOf("LayoutSession")' = LiveOf("LayoutSession")
      /\ \A l : InFlight(l)' = InFlight(l)
  BY InsertAdds, InsertedInFlight DEF Kinds
<1>2. SessionsTyped'
  BY <1>1, InsertTyped DEF Sound, SessionsTyped
<1>3. OneRequestEach'
  BY <1>1 DEF Sound, OneRequestEach
<1>4. \A l \in DOMAIN session : l \in Live' <=> l \in Live
  <2>1. Live' = Live \cup {NextToken(kind)} /\ Generation(NextToken(kind)) = nextGeneration
        /\ nextGeneration \in Nat
    BY <1>1, Inserted
  <2> QED
    BY <2>1, SessionTokens DEF Sound
<1>5. SameViews
  BY <1>1, <1>4, SameView DEF SameViews
<1> QED
  BY <1>2, <1>3, <1>5 DEF Sound

\* A session is created.
LEMMA InsertLayoutStep ==
  ASSUME IInv, Sound, NEW book, Insert("LayoutSession", book), UNCHANGED rangeOf,
         NEW new, new = NextToken("LayoutSession"),
         session' = Extend(session, new, Prepared)
  PROVE  Sound' /\ \E l \in LayoutTokens : Contract!Create(l)
<1>1. /\ Live' = Live \cup {new} /\ new \notin Live /\ Generation(new) = nextGeneration
      /\ nextGeneration \in Nat /\ nextGeneration' = nextGeneration + 1
      /\ new # NoParent
  BY Inserted DEF Kinds
<1>2. /\ LiveOf("LayoutSession")' = LiveOf("LayoutSession") \cup {new}
      /\ \A l : InFlight(l)' = InFlight(l)
  BY InsertAdds, InsertedInFlight DEF Kinds
<1>3. new = RawToken(nextGeneration, "LayoutSession") /\ new \in LayoutTokens
  BY DEF NextToken, LayoutTokens, IInv, RegistryTypeOK
<1>4. new \notin DOMAIN session
  BY <1>1, SessionTokens DEF Sound
<1>5. /\ DOMAIN session' = DOMAIN session \cup {new}
      /\ session'[new] = Prepared
      /\ \A l \in DOMAIN session : session'[l] = session[l]
  BY <1>4 DEF Extend
<1>6. Prepared \in Session
  BY DEF Prepared, Session, NoParent
<1>7. session' \in [DOMAIN session' -> Session]
  <2>1. \A l \in DOMAIN session' : session'[l] \in Session
    BY <1>5, <1>6 DEF Sound, SessionsTyped
  <2>2. session' = [l \in DOMAIN session' |-> session'[l]]
    BY DEF Extend
  <2> QED
    BY <2>1, <2>2
<1>8. SessionsTyped'
  BY <1>5, <1>7, InsertTyped DEF Sound, SessionsTyped, Kinds
<1>9. InFlight(new) = {}
  <2> SUFFICES ASSUME NEW r \in InFlight(new) PROVE FALSE
    OBVIOUS
  <2>1. entries[r].parent = new /\ r \in Live /\ entries[r].kind = "Request"
    BY DEF InFlight, LiveOf
  <2> QED
    BY <1>1, <2>1 DEF IInv, NoOrphans, RequireKind, LiveOf
<1>10. OneRequestEach'
  <2> SUFFICES ASSUME NEW l \in LiveOf("LayoutSession"), NEW r \in InFlight(l)
               PROVE  /\ InFlight(l) = {r}
                      /\ session'[l].phase = "prepared" => rangeOf[r] = session'[l].range
    BY <1>2, <1>9 DEF OneRequestEach
  <2>1. session'[l] = session[l]
    BY <1>5 DEF Sound, SessionsTyped
  <2> QED
    BY <2>1 DEF Sound, OneRequestEach
<1>11. SameBut(new)
  <2>1. \A l \in DOMAIN session : l # new /\ (l \in Live' <=> l \in Live)
    BY <1>1, <1>4
  <2> QED
    BY <1>2, <1>5, <2>1, SameView DEF SameBut
<1>12. HostView(new) = Contract!Absent
  BY <1>4 DEF HostView, Contract!Absent
<1>13. HostView(new)' = Contract!Ready
  <2>1. /\ new \in DOMAIN session' /\ new \in Live'
        /\ session'[new].phase = "prepared"
        /\ InFlight(new)' = {}
    BY <1>1, <1>2, <1>5, <1>9 DEF Prepared
  <2> QED
    BY <2>1 DEF HostView, Contract!Ready
<1>14. Contract!Create(new)
  <2>1. Contract!Step(new, Contract!Absent, Contract!Ready)
    BY <1>3, <1>11, <1>12, <1>13, OneViewChanges
  <2> QED
    BY <2>1 DEF Contract!Create
<1> QED
  BY <1>3, <1>8, <1>10, <1>14 DEF Sound

\* A session that had no request gets one.
LEMMA InsertRequestStep ==
  ASSUME IInv, Sound, NEW layout \in LiveOf("LayoutSession"), InFlight(layout) = {},
         session[layout].phase = "prepared", NEW range \in Ranges, session[layout].range = range,
         Insert("Request", layout), UNCHANGED session,
         NEW new, new = NextToken("Request"), rangeOf' = Extend(rangeOf, new, range)
  PROVE  Sound' /\ Contract!Ask(layout, range)
<1>1. /\ Live' = Live \cup {new} /\ new \notin Live /\ Generation(new) = nextGeneration
      /\ nextGeneration \in Nat
  BY Inserted DEF Kinds
<1>2. /\ LiveOf("LayoutSession")' = LiveOf("LayoutSession")
      /\ InFlight(layout)' = {new}
      /\ \A l : l # layout => InFlight(l)' = InFlight(l)
  BY InsertAdds, InsertedInFlight DEF Kinds
<1>3. layout \in DOMAIN session /\ layout \in Live
  BY DEF Sound, SessionsTyped, LiveOf
<1>4. /\ DOMAIN rangeOf' = DOMAIN rangeOf \cup {new}
      /\ rangeOf'[new] = range
      /\ \A r \in DOMAIN rangeOf \ {new} : rangeOf'[r] = rangeOf[r]
  BY DEF Extend
<1>5. rangeOf' \in [DOMAIN rangeOf' -> Ranges]
  <2>1. \A r \in DOMAIN rangeOf' : rangeOf'[r] \in Ranges
    BY <1>4 DEF Sound, SessionsTyped
  <2>2. rangeOf' = [r \in DOMAIN rangeOf' |-> rangeOf'[r]]
    BY DEF Extend
  <2> QED
    BY <2>1, <2>2
<1>6. SessionsTyped'
  BY <1>4, <1>5, InsertTyped DEF Sound, SessionsTyped, Kinds
<1>7. \A l : \A r \in InFlight(l) : rangeOf'[r] = rangeOf[r]
  BY <1>1, <1>4 DEF Sound, SessionsTyped, InFlight, LiveOf
<1>8. OneRequestEach'
  <2> SUFFICES ASSUME NEW l \in LiveOf("LayoutSession"), NEW r \in InFlight(l)'
               PROVE  /\ InFlight(l)' = {r}
                      /\ session[l].phase = "prepared" => rangeOf'[r] = session[l].range
    BY <1>2 DEF OneRequestEach
  <2>1. CASE l = layout
    BY <1>2, <1>4, <2>1
  <2>2. CASE l # layout
    BY <1>2, <1>7, <2>2 DEF Sound, OneRequestEach
  <2> QED
    BY <2>1, <2>2
<1>9. SameBut(layout)
  <2>1. \A l \in DOMAIN session : l \in Live' <=> l \in Live
    BY <1>1, SessionTokens DEF Sound
  <2> QED
    BY <1>2, <1>7, <2>1, SameView DEF SameBut
<1>10. HostView(layout) = Contract!Ready
  BY <1>3 DEF HostView, Contract!Ready
<1>11. HostView(layout)' = Contract!Measuring(range)
  <2>1. (CHOOSE r \in {new} : TRUE) = new
    OBVIOUS
  <2>2. /\ layout \in DOMAIN session' /\ layout \in Live'
        /\ session'[layout].phase = "prepared"
        /\ InFlight(layout)' = {new} /\ rangeOf'[new] = range
    BY <1>1, <1>2, <1>3, <1>4
  <2> QED
    BY <2>1, <2>2 DEF HostView, Contract!Measuring
<1>12. Contract!Step(layout, Contract!Ready, Contract!Measuring(range))
  BY <1>3, <1>9, <1>10, <1>11, OneViewChanges, SessionTokens DEF Sound
<1> QED
  BY <1>6, <1>8, <1>12 DEF Sound, Contract!Ask

\* A session without a request is asked for another range.
LEMMA RangeStep ==
  ASSUME Sound, NEW layout \in LiveOf("LayoutSession"), InFlight(layout) = {}, NEW range \in Ranges,
         UNCHANGED <<entries, nextGeneration, rangeOf>>,
         session' = [session EXCEPT ![layout].range = range]
  PROVE  /\ Sound' /\ SameViews
         /\ \A k \in Kinds : LiveOf(k)' = LiveOf(k)
         /\ \A l : InFlight(l)' = InFlight(l)
<1>1. /\ Live' = Live
      /\ \A k \in Kinds : LiveOf(k)' = LiveOf(k)
      /\ \A l : InFlight(l)' = InFlight(l)
  BY DEF Live, LiveOf, InFlight
<1>2. /\ DOMAIN session' = DOMAIN session
      /\ \A l \in DOMAIN session \ {layout} : session'[l] = session[l]
      /\ \A l \in DOMAIN session : /\ session'[l].phase = session[l].phase
                                   /\ session'[l].answered = session[l].answered
  BY DEF Sound, SessionsTyped, Session
<1>3. session' \in [DOMAIN session' -> Session]
  <2>1. [session[layout] EXCEPT !.range = range] \in Session
    BY DEF Sound, SessionsTyped, Session
  <2> QED
    BY <2>1 DEF Sound, SessionsTyped
<1>4. SessionsTyped'
  BY <1>1, <1>2, <1>3 DEF Sound, SessionsTyped, Kinds
<1>5. OneRequestEach'
  <2> SUFFICES ASSUME NEW l \in LiveOf("LayoutSession"), NEW r \in InFlight(l)
               PROVE  /\ InFlight(l) = {r}
                      /\ session'[l].phase = "prepared" => rangeOf[r] = session'[l].range
    BY <1>1 DEF OneRequestEach, Kinds
  <2> QED
    BY <1>2 DEF Sound, OneRequestEach, SessionsTyped
<1>6. SameViews
  BY <1>1, <1>2, SameView DEF SameViews
<1> QED
  BY <1>1, <1>4, <1>5, <1>6 DEF Sound

\* A session that measures accepts its pages.
LEMMA ApplyStep ==
  ASSUME IInv, Sound, NEW layout \in LiveOf("LayoutSession"), NEW request \in InFlight(layout),
         session[layout].phase = "prepared",
         UNCHANGED <<entries, nextGeneration, rangeOf>>,
         session' = [session EXCEPT ![layout].phase = "paginated",
                                    ![layout].accepted = request,
                                    ![layout].answered = session[layout].range]
  PROVE  /\ Sound'
         /\ \E range \in Ranges : Contract!Accept(layout, range)
         /\ \A k \in Kinds : LiveOf(k)' = LiveOf(k)
         /\ \A l : InFlight(l)' = InFlight(l)
<1> DEFINE range == session[layout].range
           accepted == [session[layout] EXCEPT !.phase = "paginated", !.accepted = request,
                                               !.answered = session[layout].range]
<1>1. /\ Live' = Live
      /\ \A k \in Kinds : LiveOf(k)' = LiveOf(k)
      /\ \A l : InFlight(l)' = InFlight(l)
  BY DEF Live, LiveOf, InFlight
<1>2. /\ session[layout] \in Session /\ layout \in DOMAIN session /\ range \in Ranges
      /\ request \in Live /\ request \in Nat /\ layout \in Live
      /\ rangeOf[request] = range /\ InFlight(layout) = {request}
  BY DEF Sound, SessionsTyped, Session, OneRequestEach, InFlight, LiveOf, IInv, RegistryTypeOK
<1>3. accepted \in Session /\ accepted.phase = "paginated" /\ accepted.answered = range
  BY <1>2 DEF Session
<1>4. session' = [session EXCEPT ![layout] = accepted]
  BY <1>2 DEF Session, Sound, SessionsTyped
<1> HIDE DEF accepted
<1>5. /\ DOMAIN session' = DOMAIN session /\ session'[layout] = accepted
      /\ \A l \in DOMAIN session \ {layout} : session'[l] = session[l]
      /\ session' \in [DOMAIN session' -> Session]
  BY <1>2, <1>3, <1>4 DEF Sound, SessionsTyped
<1>6. SessionsTyped'
  BY <1>1, <1>5 DEF Sound, SessionsTyped, Kinds
<1>7. OneRequestEach'
  <2> SUFFICES ASSUME NEW l \in LiveOf("LayoutSession"), NEW r \in InFlight(l)
               PROVE  /\ InFlight(l) = {r}
                      /\ session'[l].phase = "prepared" => rangeOf[r] = session'[l].range
    BY <1>1 DEF OneRequestEach, Kinds
  <2>1. InFlight(l) = {r} /\ (session[l].phase = "prepared" => rangeOf[r] = session[l].range)
    BY DEF Sound, OneRequestEach
  <2>2. CASE l = layout
    BY <1>3, <1>5, <2>1, <2>2
  <2>3. CASE l # layout
    <3>1. session'[l] = session[l]
      BY <1>5, <2>3 DEF Sound, SessionsTyped
    <3> QED
      BY <2>1, <3>1
  <2> QED
    BY <2>2, <2>3
<1>8. SameBut(layout)
  BY <1>1, <1>5, SameView DEF SameBut
<1>9. HostView(layout) = Contract!Measuring(range)
  <2>1. (CHOOSE r \in {request} : TRUE) = request
    OBVIOUS
  <2> QED
    BY <1>2, <2>1 DEF HostView, Contract!Measuring
<1>10. HostView(layout)' = Contract!Paginated(session[layout].range)
  BY <1>1, <1>2, <1>3, <1>5 DEF HostView, Contract!Paginated
<1>11. Contract!Step(layout, Contract!Measuring(range), Contract!Paginated(range))
  BY <1>2, <1>8, <1>9, <1>10, OneViewChanges, SessionTokens DEF Sound
<1> QED
  BY <1>1, <1>2, <1>6, <1>7, <1>11 DEF Sound, Contract!Accept

\* What a disposal leaves of the sessions that stay, and of their requests.
LEMMA DisposedInFlight ==
  ASSUME IInv, NEW raw \in Live, NEW expected, Dispose(raw, expected)
  PROVE  /\ Live' = Live \ Subtree(raw)
         /\ \A k \in Kinds : LiveOf(k)' = LiveOf(k) \ Subtree(raw)
         /\ \A l : InFlight(l)' = InFlight(l) \ Subtree(raw)
<1>1. /\ Live' = Live \ Subtree(raw)
      /\ \A t \in Live' : entries'[t] = entries[t]
  BY Removed
<1>2. \A k \in Kinds : LiveOf(k)' = LiveOf(k) \ Subtree(raw)
  BY <1>1 DEF LiveOf
<1>3. ASSUME NEW l PROVE InFlight(l)' = InFlight(l) \ Subtree(raw)
  BY <1>1 DEF InFlight, LiveOf
<1> QED
  BY <1>1, <1>2, <1>3

LEMMA RemovedTyped ==
  ASSUME SessionsTyped, UNCHANGED <<session, rangeOf, nextGeneration>>,
         LiveOf("LayoutSession")' \subseteq LiveOf("LayoutSession"),
         LiveOf("Request")' \subseteq LiveOf("Request")
  PROVE  SessionsTyped'
BY DEF SessionsTyped

LEMMA RemovedOneRequest ==
  ASSUME OneRequestEach, UNCHANGED <<session, rangeOf>>,
         LiveOf("LayoutSession")' \subseteq LiveOf("LayoutSession"),
         \A l \in LiveOf("LayoutSession") : InFlight(l)' \subseteq InFlight(l)
  PROVE  OneRequestEach'
<1> SUFFICES ASSUME NEW l \in LiveOf("LayoutSession"), NEW r \in InFlight(l)'
             PROVE  /\ InFlight(l)' = {r}
                    /\ session[l].phase = "prepared" => rangeOf[r] = session[l].range
  BY DEF OneRequestEach
<1>1. r \in InFlight(l)
  OBVIOUS
<1> QED
  BY <1>1 DEF OneRequestEach

\* A request is retired: its session is ready again, unless it has its pages.
LEMMA RetireStep ==
  ASSUME IInv, Sound, NEW request \in LiveOf("Request"), NEW expected, Dispose(request, expected),
         UNCHANGED <<session, rangeOf>>
  PROVE  /\ Sound'
         /\ SameViews \/ \E l \in LayoutTokens, range \in Ranges : Contract!Retire(l, range)
<1>1. request \in Live /\ entries[request].kind = "Request"
  BY DEF LiveOf
<1>2. PICK layout : layout = entries[request].parent
  OBVIOUS
<1>3. /\ layout \in LiveOf("LayoutSession") /\ layout \in Live /\ layout \in DOMAIN session
      /\ request \in InFlight(layout)
  BY <1>1, <1>2 DEF IInv, NoOrphans, RequireKind, ParentKind, LiveOf, Sound, SessionsTyped, InFlight
<1>4. Subtree(request) = {request}
  BY RequestOwnsNothing
<1>5. /\ Live' = Live \ {request}
      /\ LiveOf("LayoutSession")' = LiveOf("LayoutSession")
      /\ LiveOf("Request")' = LiveOf("Request") \ {request}
      /\ \A l : InFlight(l)' = InFlight(l) \ {request}
  <2>1. request \notin LiveOf("LayoutSession")
    BY <1>1 DEF LiveOf
  <2>2. /\ Live' = Live \ {request}
        /\ \A l : InFlight(l)' = InFlight(l) \ {request}
    BY <1>1, <1>4, DisposedInFlight
  <2>3. \A k \in Kinds : LiveOf(k)' = LiveOf(k) \ {request}
    BY <1>1, <1>4, DisposedInFlight
  <2>4. LiveOf("LayoutSession")' = LiveOf("LayoutSession") \ {request}
    BY <2>3 DEF Kinds
  <2>5. LiveOf("Request")' = LiveOf("Request") \ {request}
    BY <2>3 DEF Kinds
  <2> QED
    BY <2>1, <2>2, <2>4, <2>5
<1>6. UNCHANGED nextGeneration
  BY DEF Dispose, Remove
<1>7. Sound'
  BY <1>5, <1>6, RemovedTyped, RemovedOneRequest DEF Sound
<1>8. InFlight(layout) = {request} /\ InFlight(layout)' = {}
      /\ \A l : l # layout => InFlight(l)' = InFlight(l)
  <2>1. InFlight(layout) = {request}
    BY <1>3 DEF Sound, OneRequestEach
  <2>2. InFlight(layout)' = {}
    BY <1>5, <2>1
  <2>3. ASSUME NEW l, l # layout PROVE request \notin InFlight(l)
    BY <1>2, <2>3 DEF InFlight
  <2>4. \A l : l # layout => InFlight(l)' = InFlight(l)
    BY <1>5, <2>3
  <2> QED
    BY <2>1, <2>2, <2>4
<1>9. \A l \in DOMAIN session : l \in Live' <=> l \in Live
  BY <1>1, <1>5, SessionTokens DEF Sound, LiveOf
<1>10. SameBut(layout)
  BY <1>8, <1>9, SameView DEF SameBut
<1>11. CASE session[layout].phase = "paginated"
  <2>1. HostView(layout)' = HostView(layout)
    BY <1>3, <1>5, <1>9, <1>11 DEF HostView
  <2> QED
    BY <1>7, <1>10, <2>1 DEF SameBut, SameViews
<1>12. CASE session[layout].phase # "paginated"
  <2>1. rangeOf[request] \in Ranges
    BY DEF Sound, SessionsTyped
  <2>2. HostView(layout) = Contract!Measuring(rangeOf[request])
    <3>1. (CHOOSE r \in {request} : TRUE) = request
      OBVIOUS
    <3> QED
      BY <1>3, <1>8, <1>12, <3>1 DEF HostView, Contract!Measuring
  <2>3. HostView(layout)' = Contract!Ready
    BY <1>3, <1>8, <1>9, <1>12 DEF HostView, Contract!Ready
  <2>4. Contract!Step(layout, Contract!Measuring(rangeOf[request]), Contract!Ready)
    BY <1>3, <1>10, <2>2, <2>3, OneViewChanges, SessionTokens DEF Sound
  <2> QED
    BY <1>3, <1>7, <2>1, <2>4, SessionTokens DEF Sound, Contract!Retire
<1> QED
  BY <1>11, <1>12

\* Sessions that go are closed, the others are as they were.
LEMMA CloseStep ==
  ASSUME IInv, Sound, NEW ls \in SUBSET LiveOf("LayoutSession"),
         UNCHANGED <<session, rangeOf, nextGeneration>>,
         Live' \subseteq Live, LiveOf("Request")' \subseteq LiveOf("Request"),
         LiveOf("LayoutSession")' = LiveOf("LayoutSession") \ ls,
         \A l \in LiveOf("LayoutSession") \ ls : InFlight(l)' = InFlight(l),
         Live' \cap ls = {}
  PROVE  Sound' /\ Contract!Close(ls)
<1>1. SessionsTyped'
  BY RemovedTyped DEF Sound
<1>2. OneRequestEach'
  BY DEF Sound, OneRequestEach
<1>3. ls \in SUBSET LayoutTokens /\ \A l \in ls : l \in DOMAIN session
  BY SessionTokens DEF Sound, SessionsTyped
<1>4. ASSUME NEW l \in ls
      PROVE  HostView(l) # Contract!Absent /\ HostView(l)' = Contract!Gone
  <2>1. l \in DOMAIN session /\ l \in Live /\ l \notin Live' /\ session' = session
    BY <1>3 DEF LiveOf
  <2>2. HostView(l)' = Contract!Gone
    BY <2>1 DEF HostView, Contract!Gone
  <2>3. HostView(l).phase # "absent"
    BY <2>1 DEF HostView
  <2> QED
    BY <2>2, <2>3 DEF Contract!Absent
<1>5. ASSUME NEW l \in LayoutTokens \ ls
      PROVE  HostView(l)' = HostView(l)
  <2>1. ASSUME l \in DOMAIN session PROVE l \in Live' <=> l \in Live
    <3>1. l \in Live => l \in LiveOf("LayoutSession")'
      BY <1>5, <2>1, SessionTokens DEF Sound
    <3> QED
      BY <3>1 DEF LiveOf
  <2>2. ASSUME l \in DOMAIN session, l \in Live PROVE InFlight(l)' = InFlight(l)
    BY <1>5, <2>2, SessionTokens DEF Sound
  <2> QED
    BY <2>1, <2>2, SameView
<1>6. \A l \in ls : View[l] # Contract!Absent
  BY <1>3, <1>4 DEF View
<1>7. View' = [l \in LayoutTokens |-> IF l \in ls THEN Contract!Gone ELSE View[l]]
  BY <1>4, <1>5 DEF View
<1> QED
  BY <1>1, <1>2, <1>6, <1>7 DEF Sound, Contract!Close, View

\* A step of the contract, or none.
Sees == SameViews \/ Contract!LifecycleNext

LEMMA DisposeStep ==
  ASSUME IInv, Sound, NEW raw \in Live, NEW expected, Dispose(raw, expected),
         UNCHANGED <<session, rangeOf>>
  PROVE  Sound' /\ Sees
<1>1. CASE raw \in LiveOf("Request")
  BY <1>1, RetireStep DEF Sees, Contract!LifecycleNext
<1>2. CASE raw \notin LiveOf("Request")
  <2> DEFINE ls == LiveOf("LayoutSession") \cap Subtree(raw)
  <2>1. /\ Live' = Live \ Subtree(raw)
        /\ LiveOf("Request")' \subseteq LiveOf("Request")
        /\ LiveOf("LayoutSession")' = LiveOf("LayoutSession") \ ls
        /\ UNCHANGED nextGeneration
    BY DisposedInFlight DEF Kinds, Dispose, Remove
  <2>2. ASSUME NEW l \in LiveOf("LayoutSession") \ ls, NEW r \in InFlight(l)
        PROVE  r \notin Subtree(raw)
    <3>1. r \in LiveOf("Request") /\ r \in Live /\ Up(r) = l /\ r # raw /\ l \in Live
      BY <1>2 DEF InFlight, LiveOf, Up
    <3>2. l # raw /\ raw \notin Owners(l)
      BY <3>1, <2>2, SubtreeIsOwned DEF LiveOf
    <3>3. Up(l) \in Live /\ entries[Up(l)].kind = "Book"
      BY <2>2 DEF IInv, NoOrphans, RequireKind, ParentKind, LiveOf, Up
    <3>4. raw \notin Owners(r)
      BY <3>1, <3>2 DEF Owners
    <3> QED
      BY <3>1, <3>4, SubtreeIsOwned
  <2>3. \A l \in LiveOf("LayoutSession") \ ls : InFlight(l)' = InFlight(l)
    BY <2>2, DisposedInFlight
  <2>4. ls \in SUBSET LiveOf("LayoutSession") /\ Live' \cap ls = {} /\ Live' \subseteq Live
    BY <2>1
  <2>5. PICK closed : closed = ls
    OBVIOUS
  <2> HIDE DEF ls
  <2>6. Sound' /\ Contract!Close(closed)
    BY <2>1, <2>3, <2>4, <2>5, CloseStep
  <2>7. closed \in SUBSET LayoutTokens
    BY <2>4, <2>5, SessionTokens DEF Sound, SessionsTyped
  <2> QED
    BY <2>6, <2>7 DEF Sees, Contract!LifecycleNext
<1> QED
  BY <1>1, <1>2

LEMMA DropStep ==
  ASSUME IInv, Sound, DropRegistry, UNCHANGED <<session, rangeOf>>
  PROVE  Sound' /\ Sees
<1>1. Live' = {} /\ LiveOf("LayoutSession")' = {} /\ LiveOf("Request")' = {} /\ UNCHANGED nextGeneration
  BY DEF DropRegistry, Remove, Live, LiveOf
<1>2. PICK closed : closed = LiveOf("LayoutSession")
  OBVIOUS
<1>3. Sound' /\ Contract!Close(closed)
  BY <1>1, <1>2, CloseStep
<1>4. closed \in SUBSET LayoutTokens
  BY <1>2, SessionTokens DEF Sound, SessionsTyped
<1> QED
  BY <1>3, <1>4 DEF Sees, Contract!LifecycleNext

-----------------------------------------------------------------------------

(* Each call, step by step *)

LEMMA Returned ==
  ASSUME FramesTyped, NEW t \in Threads, Return(t)
  PROVE  Alone(t)'
<1>1. frame'[t].at = "idle"
  BY DEF FramesTyped, Return, Idle
<1> QED
  BY <1>1 DEF Alone

LEMMA CallSerial ==
  ASSUME NEW t \in Threads, SerialInv(t), Call(t)
  PROVE  Sound' /\ Sees /\ Alone(t)'
<1> USE DEF SerialInv, HeldInv
<1>0. Sound
  BY DEF Sound
<1>1. CASE EngineCreate(t)
  <2>1. Insert("Engine", NoParent) /\ UNCHANGED <<frame, session, rangeOf>> /\ At(t, "idle")
    BY <1>1 DEF EngineCreate, InsertEngine
  <2>2. Alone(t)'
    BY <2>1 DEF Alone, At
  <2> QED
    BY <1>0, <2>1, <2>2, InsertObjectStep DEF Sees
<1>2. ASSUME NEW h \in Live, HandleDispose(t, h)
      PROVE  Sound' /\ Sees /\ Alone(t)'
  <2>1. Alone(t)'
    BY <1>2 DEF Alone, At, HandleDispose
  <2> QED
    BY <1>0, <1>2, <2>1, DisposeStep DEF HandleDispose
<1>3. ASSUME NEW h \in Live,
             BookResolve(t, h) \/ ChapterResolve(t, h) \/ LayoutFindBook(t, h)
      PROVE  Sound' /\ Sees /\ Alone(t)'
  <2>1. UNCHANGED <<registryVars, session, rangeOf>>
    BY <1>3 DEF BookResolve, ChapterResolve, LayoutFindBook
  <2>2. frame'[t].at \in {"book_insert", "chapter_insert", "layout_resolve"}
    BY <1>3 DEF BookResolve, ChapterResolve, LayoutFindBook, Begin, Idle, FramesTyped
  <2>3. Alone(t)'
    BY <2>2 DEF Alone
  <2> QED
    BY <1>0, <2>1, <2>3, QuietStep DEF Sees, registryVars
<1>4. ASSUME NEW h \in Live, NEW range \in Ranges, RequestCheck(t, h, range)
      PROVE  Sound' /\ Sees /\ Alone(t)'
  <2>1. /\ UNCHANGED <<registryVars, session, rangeOf>>
        /\ h \in LiveOf("LayoutSession") /\ InFlight(h) = {}
    BY <1>4 DEF RequestCheck, RequireKind
  <2>2. /\ Sound' /\ SameViews
        /\ LiveOf("LayoutSession")' = LiveOf("LayoutSession")
        /\ \A l : InFlight(l)' = InFlight(l)
    BY <1>0, <2>1, QuietStep DEF registryVars, Kinds
  <2>3. frame'[t].at = "request_resolve" /\ frame'[t].handle = h
    BY <1>4 DEF RequestCheck, Idle, FramesTyped
  <2>4. Alone(t)'
    <3>1. InFlight(h)' = {} /\ h \in LiveOf("LayoutSession")'
      BY <2>1, <2>2
    <3>2. PICK g : g = frame'[t]
      OBVIOUS
    <3> QED
      BY <2>3, <3>1, <3>2 DEF Alone, InFlight
  <2> QED
    BY <2>2, <2>4 DEF Sees
<1>5. ASSUME NEW h \in Live, SubmitBegin(t, h) \/ CancelBegin(t, h)
      PROVE  Sound' /\ Sees /\ Alone(t)'
  <2>1. UNCHANGED <<registryVars, session, rangeOf>> /\ h \in LiveOf("Request")
    BY <1>5 DEF SubmitBegin, CancelBegin, RequireKind
  <2>2. /\ Sound' /\ SameViews
        /\ LiveOf("Request")' = LiveOf("Request")
    BY <1>0, <2>1, QuietStep DEF registryVars, Kinds
  <2>3. frame'[t].at \in {"submit_check", "cancel_set"} /\ frame'[t].handle = h
    BY <1>5 DEF SubmitBegin, CancelBegin, Begin, Idle, FramesTyped
  <2>4. Alone(t)'
    BY <2>1, <2>2, <2>3 DEF Alone
  <2> QED
    BY <2>2, <2>4 DEF Sees
<1> QED
  BY <1>1, <1>2, <1>3, <1>4, <1>5 DEF Call

\* A step of a call that only moves on, with the handle it has.
LEMMA MovesOn ==
  ASSUME NEW t \in Threads, SerialInv(t), Continue(t), UNCHANGED <<registryVars, session, rangeOf>>,
         \/ frame'[t].at \in {"idle", "layout_insert"}
         \/ /\ frame'[t].handle = frame[t].handle
            /\ \/ frame[t].at = "request_resolve" /\ frame'[t].at = "request_layout"
               \/ /\ frame[t].at \in {"submit_check", "submit_request", "submit_session",
                                     "submit_apply"}
                  /\ frame'[t].at \in {"submit_request", "submit_retire"}
               \/ /\ frame[t].at = "submit_request" /\ frame'[t].at = "submit_session"
                  /\ frame'[t].owner = entries[frame[t].handle].parent
               \/ /\ frame[t].at = "submit_session" /\ frame'[t].at = "submit_apply"
                  /\ frame'[t].owner = frame[t].owner
  PROVE  Sound' /\ Sees /\ Alone(t)'
<1> DEFINE Awaits == {"request_resolve", "request_layout", "request_insert"}
           Holds == {"submit_check", "submit_request", "submit_session", "submit_apply",
                     "submit_retire", "cancel_set", "cancel_retire"}
<1>1. /\ Sound' /\ SameViews
      /\ LiveOf("LayoutSession")' = LiveOf("LayoutSession")
      /\ LiveOf("Request")' = LiveOf("Request")
      /\ \A l : InFlight(l)' = InFlight(l)
  BY QuietStep DEF SerialInv, Sound, registryVars, Kinds
<1>2. entries' = entries /\ session' = session
  BY DEF registryVars
<1>3. Alone(t)'
  <2>1. CASE frame'[t].at \in {"idle", "layout_insert"}
    BY <2>1 DEF Alone
  <2>2. CASE /\ frame'[t].handle = frame[t].handle
             /\ frame[t].at = "request_resolve" /\ frame'[t].at = "request_layout"
    <3>1. frame[t].handle \in LiveOf("LayoutSession") /\ InFlight(frame[t].handle) = {}
      BY <2>2 DEF SerialInv, Alone
    <3>2. InFlight(frame[t].handle)' = {}
      BY <1>1, <1>2, <2>2, <3>1 DEF InFlight, LiveOf, Live
    <3> QED
      BY <1>1, <2>2, <3>1, <3>2 DEF Alone
  <2>3. CASE /\ frame'[t].handle = frame[t].handle
             /\ frame[t].at \in Holds
             /\ frame'[t].at \in Holds
             /\ frame'[t].at \in {"submit_session", "submit_apply"} =>
                  frame'[t].owner = entries[frame[t].handle].parent
    <3>1. frame[t].handle \in LiveOf("Request")
      BY <2>3 DEF SerialInv, Alone
    <3> QED
      BY <1>1, <1>2, <2>3, <3>1 DEF Alone
  <2>4. frame[t].at = "submit_session" => frame[t].owner = entries[frame[t].handle].parent
    BY DEF SerialInv, Alone
  <2> QED
    BY <2>1, <2>2, <2>3, <2>4
<1> QED
  BY <1>1, <1>3 DEF Sees

LEMMA InsertSerial ==
  ASSUME NEW t \in Threads, SerialInv(t), BookInsert(t) \/ ChapterInsert(t) \/ LayoutInsert(t)
  PROVE  Sound' /\ Sees /\ Alone(t)'
<1> USE DEF SerialInv, HeldInv
<1>0. Sound /\ Return(t)
  BY DEF Sound, BookInsert, ChapterInsert, LayoutInsert
<1>1. Alone(t)'
  BY <1>0, Returned
<1>2. CASE UNCHANGED <<registryVars, session, rangeOf>>
  BY <1>0, <1>1, <1>2, QuietStep DEF Sees, registryVars
<1>3. ASSUME NEW kind \in {"Engine", "Book", "Chapter"}, Insert(kind, frame[t].handle),
             UNCHANGED <<session, rangeOf>>
      PROVE  Sound' /\ Sees
  BY <1>0, <1>3, InsertObjectStep DEF Sees
<1>4. CASE BookInsert(t) \/ ChapterInsert(t)
  BY <1>1, <1>2, <1>3, <1>4 DEF BookInsert, ChapterInsert, InsertBook, InsertChapter
<1>5. CASE LayoutInsert(t)
  <2>1. CASE UNCHANGED <<registryVars, session>>
    BY <1>2, <1>5, <2>1 DEF LayoutInsert
  <2>2. CASE /\ InsertLayoutSession(frame[t].owner)
             /\ session' = Extend(session, NextToken("LayoutSession"), Prepared)
    <3>1. Insert("LayoutSession", frame[t].owner) /\ UNCHANGED rangeOf
      BY <1>5, <2>2 DEF LayoutInsert, InsertLayoutSession
    <3>2. Sound' /\ \E l \in LayoutTokens : Contract!Create(l)
      BY <1>0, <2>2, <3>1, InsertLayoutStep
    <3> QED
      BY <1>1, <3>2 DEF Sees, Contract!LifecycleNext
  <2> QED
    BY <1>5, <2>1, <2>2 DEF LayoutInsert
<1> QED
  BY <1>4, <1>5

LEMMA RequestSerial ==
  ASSUME NEW t \in Threads, SerialInv(t), RequestLayout(t) \/ RequestInsert(t)
  PROVE  Sound' /\ Sees /\ Alone(t)'
<1> USE DEF SerialInv, HeldInv
<1>0. Sound /\ frame[t] \in Frame
  BY DEF Sound, FramesTyped
<1>1. PICK layout : layout = frame[t].handle
  OBVIOUS
<1>2. PICK range \in Ranges : range = frame[t].range
  BY <1>0 DEF Frame
<1>3. layout \in LiveOf("LayoutSession") /\ InFlight(layout) = {}
  BY <1>1 DEF Alone, RequestLayout, RequestInsert, At
<1>4. layout \in DOMAIN session /\ session[layout] \in Session
  BY <1>3 DEF SessionsTyped
<1>5. CASE RequestLayout(t)
  <2>1. /\ session' = [session EXCEPT ![layout].range = range]
        /\ IF session[layout].phase = "paginated" THEN Return(t) ELSE Goto(t, "request_insert")
        /\ UNCHANGED <<registryVars, rangeOf>>
    BY <1>1, <1>2, <1>5 DEF RequestLayout
  <2>2. /\ Sound' /\ SameViews
        /\ LiveOf("LayoutSession")' = LiveOf("LayoutSession")
        /\ InFlight(layout)' = InFlight(layout)
    BY <1>0, <1>3, <2>1, RangeStep DEF registryVars, Kinds
  <2>3. CASE session[layout].phase = "paginated"
    BY <2>1, <2>2, <2>3, Returned DEF Sees
  <2>4. CASE session[layout].phase # "paginated"
    <3>1. session[layout].phase = "prepared"
      BY <1>4, <2>4 DEF Session
    <3>2. session'[layout].phase = "prepared" /\ session'[layout].range = range
      BY <1>4, <2>1, <3>1 DEF Session
    <3>3. frame'[t].at = "request_insert" /\ frame'[t].handle = layout /\ frame'[t].range = range
      BY <1>1, <1>2, <2>1, <2>4 DEF Goto, FramesTyped, Frame
    <3>4. layout \in LiveOf("LayoutSession")' /\ InFlight(layout)' = {}
      BY <1>3, <2>2
    <3>5. Alone(t)'
      BY <3>2, <3>3, <3>4 DEF Alone, InFlight
    <3> QED
      BY <2>2, <3>5 DEF Sees
  <2> QED
    BY <2>3, <2>4
<1>6. CASE RequestInsert(t)
  <2>1. Return(t) /\ UNCHANGED session
    BY <1>6 DEF RequestInsert
  <2>2. Alone(t)'
    BY <2>1, Returned
  <2>3. CASE UNCHANGED <<registryVars, rangeOf>>
    BY <1>0, <2>1, <2>2, <2>3, QuietStep DEF Sees, registryVars
  <2>4. CASE InsertRequest(layout) /\ rangeOf' = Extend(rangeOf, NextToken("Request"), range)
    <3>1. session[layout].phase = "prepared" /\ session[layout].range = range
      BY <1>1, <1>2, <1>6 DEF Alone, RequestInsert, At
    <3>2. Insert("Request", layout)
      BY <2>4 DEF InsertRequest
    <3>3. PICK new : new = NextToken("Request")
      OBVIOUS
    <3>4. rangeOf' = Extend(rangeOf, new, range)
      BY <2>4, <3>3
    <3>5. Sound' /\ Contract!Ask(layout, range)
      BY <1>0, <1>3, <2>1, <3>1, <3>2, <3>3, <3>4, InsertRequestStep
    <3>6. layout \in LayoutTokens
      BY <1>4, SessionTokens
    <3> QED
      BY <2>2, <3>5, <3>6 DEF Sees, Contract!LifecycleNext
  <2> QED
    BY <1>1, <1>2, <1>6, <2>3, <2>4 DEF RequestInsert
<1> QED
  BY <1>5, <1>6

LEMMA ApplySerial ==
  ASSUME NEW t \in Threads, SerialInv(t), SubmitApply(t)
  PROVE  Sound' /\ Sees /\ Alone(t)'
<1> USE DEF SerialInv, HeldInv
<1>0. Sound /\ frame[t] \in Frame
  BY DEF Sound, FramesTyped
<1>1. PICK request : request = frame[t].handle
  OBVIOUS
<1>2. PICK layout : layout = frame[t].owner
  OBVIOUS
<1>3. /\ request \in LiveOf("Request") /\ layout = entries[request].parent
      /\ UNCHANGED <<registryVars, rangeOf>>
  BY <1>1, <1>2 DEF Alone, SubmitApply, At
<1>4. layout \in LiveOf("LayoutSession") /\ request \in InFlight(layout)
  BY <1>3 DEF IInv, NoOrphans, RequireKind, ParentKind, LiveOf, InFlight
<1>5. frame'[t].at = "submit_retire" /\ frame'[t].handle = request
  BY <1>0, <1>1 DEF SubmitApply, Reject, FramesTyped, Frame
<1>6. ASSUME LiveOf("Request")' = LiveOf("Request") PROVE Alone(t)'
  BY <1>3, <1>5, <1>6 DEF Alone
<1>7. CASE UNCHANGED session
  BY <1>0, <1>3, <1>6, <1>7, QuietStep DEF Sees, registryVars, Kinds
<1>8. CASE /\ session[layout].phase = "prepared"
           /\ session' = [session EXCEPT ![layout].phase = "paginated",
                                         ![layout].accepted = request,
                                         ![layout].answered = session[layout].range]
  <2>1. /\ Sound' /\ LiveOf("Request")' = LiveOf("Request")
        /\ \E range \in Ranges : Contract!Accept(layout, range)
    BY <1>0, <1>3, <1>4, <1>8, ApplyStep DEF registryVars, Kinds
  <2>2. layout \in LayoutTokens
    BY <1>4, SessionTokens DEF SessionsTyped
  <2> QED
    BY <1>6, <2>1, <2>2 DEF Sees, Contract!LifecycleNext
<1> QED
  BY <1>1, <1>2, <1>7, <1>8 DEF SubmitApply

LEMMA ContinueSerial ==
  ASSUME NEW t \in Threads, SerialInv(t), Continue(t)
  PROVE  Sound' /\ Sees /\ Alone(t)'
<1> USE DEF SerialInv, HeldInv
<1>0. Sound /\ frame[t] \in Frame
  BY DEF Sound, FramesTyped
<1>1. CASE BookInsert(t) \/ ChapterInsert(t) \/ LayoutInsert(t)
  BY <1>1, InsertSerial
<1>2. CASE RequestLayout(t) \/ RequestInsert(t)
  BY <1>2, RequestSerial
<1>3. CASE SubmitApply(t)
  BY <1>3, ApplySerial
<1>4. CASE LayoutResolve(t) \/ RequestResolve(t)
  <2>1. UNCHANGED <<registryVars, session, rangeOf>>
    BY <1>4 DEF LayoutResolve, RequestResolve
  <2>2. \/ frame'[t].at \in {"idle", "layout_insert"}
        \/ /\ frame'[t].handle = frame[t].handle
           /\ frame[t].at = "request_resolve" /\ frame'[t].at = "request_layout"
    BY <1>0, <1>4 DEF LayoutResolve, RequestResolve, At, Goto, Return, Idle, FramesTyped, Frame
  <2> QED
    BY <2>1, <2>2, MovesOn
<1>5. CASE SubmitCheck(t) \/ SubmitRequest(t) \/ SubmitSession(t)
  <2>1. UNCHANGED <<registryVars, session, rangeOf>> /\ frame'[t].handle = frame[t].handle
    BY <1>0, <1>5 DEF SubmitCheck, SubmitRequest, SubmitSession, Goto, Reject, FramesTyped, Frame
  <2>2. CASE SubmitCheck(t)
    <3>1. frame[t].at = "submit_check" /\ frame'[t].at \in {"submit_request", "submit_retire"}
      BY <1>0, <2>2 DEF SubmitCheck, At, Goto, Reject, FramesTyped, Frame
    <3> QED
      BY <2>1, <3>1, MovesOn
  <2>3. CASE SubmitRequest(t)
    <3>1. /\ frame[t].at = "submit_request"
          /\ \/ frame'[t].at = "submit_retire"
             \/ frame'[t].at = "submit_session" /\ frame'[t].owner = entries[frame[t].handle].parent
      BY <1>0, <2>3 DEF SubmitRequest, At, Goto, Reject, FramesTyped, Frame
    <3> QED
      BY <2>1, <3>1, MovesOn
  <2>4. CASE SubmitSession(t)
    <3>1. /\ frame[t].at = "submit_session"
          /\ \/ frame'[t].at = "submit_retire"
             \/ frame'[t].at = "submit_apply" /\ frame'[t].owner = frame[t].owner
      BY <1>0, <2>4 DEF SubmitSession, At, Goto, Reject, FramesTyped, Frame
    <3> QED
      BY <2>1, <3>1, MovesOn
  <2> QED
    BY <1>5, <2>2, <2>3, <2>4
<1>6. CASE SubmitRetire(t) \/ CancelRetire(t)
  <2>1. /\ frame[t].handle \in LiveOf("Request") /\ Return(t) /\ UNCHANGED <<session, rangeOf>>
        /\ Dispose(frame[t].handle, "Request")
    BY <1>6 DEF SubmitRetire, CancelRetire, At, Alone, DisposeRequest, RequireKind
  <2> QED
    BY <1>0, <2>1, Returned, DisposeStep DEF LiveOf
<1>7. CASE CancelSet(t)
  <2>1. /\ UNCHANGED <<entries, nextGeneration, session, rangeOf>>
        /\ frame[t].at = "cancel_set" /\ frame'[t].at = "cancel_retire"
        /\ frame'[t].handle = frame[t].handle
    BY <1>0, <1>7 DEF CancelSet, CancelToken, At, Goto, FramesTyped, Frame
  <2>2. Sound' /\ SameViews /\ LiveOf("Request")' = LiveOf("Request")
    BY <1>0, <2>1, QuietStep DEF Kinds
  <2>3. Alone(t)'
    BY <2>1, <2>2 DEF Alone
  <2> QED
    BY <2>2, <2>3 DEF Sees
<1> QED
  BY <1>1, <1>2, <1>3, <1>4, <1>5, <1>6, <1>7 DEF Continue

\* With one thread, what its call knows stays true while it goes on.
LEMMA SerialPreserved ==
  ASSUME NEW t, Threads = {t}, SerialInv(t), [ControlNext]_controlVars
  PROVE  SerialInv(t)' /\ [Contract!LifecycleNext]_View
<1>1. HeldInv'
  BY HeldInvPreserved DEF SerialInv
<1>2. CASE Call(t)
  BY <1>1, <1>2, CallSerial, SameViewsStutter DEF SerialInv, Sound, Sees
<1>3. CASE Continue(t)
  BY <1>1, <1>3, ContinueSerial, SameViewsStutter DEF SerialInv, Sound, Sees
<1>4. CASE Drop
  <2>1. frame'[t].at = "idle"
    BY <1>4 DEF Drop, At
  <2>2. Alone(t)'
    BY <2>1 DEF Alone
  <2>3. Sound' /\ Sees
    BY <1>4, DropStep DEF Drop, SerialInv, HeldInv, Sound
  <2> QED
    BY <1>1, <2>2, <2>3, SameViewsStutter DEF SerialInv, Sound, Sees
<1>5. CASE UNCHANGED controlVars
  <2>1. Sound' /\ SameViews /\ \A k \in Kinds : LiveOf(k)' = LiveOf(k)
    BY <1>5, QuietStep DEF controlVars, registryVars, SerialInv, Sound
  <2>2. Alone(t)'
    BY <1>5 DEF controlVars, registryVars, SerialInv, Alone, LiveOf, Live, InFlight
  <2> QED
    BY <1>1, <2>1, <2>2, SameViewsStutter DEF SerialInv, Sound
<1> QED
  BY <1>2, <1>3, <1>4, <1>5 DEF ControlNext

LEMMA SerialInit ==
  ASSUME NEW t, Threads = {t}, ControlInit
  PROVE  SerialInv(t) /\ Contract!LifecycleInit
<1>1. Live = {} /\ DOMAIN session = {} /\ DOMAIN rangeOf = {} /\ frame[t].at = "idle"
  BY DEF ControlInit, RegistryInit, Live, Idle
<1>2. SessionsTyped
  BY <1>1 DEF SessionsTyped, ControlInit, LiveOf
<1>3. OneRequestEach /\ Alone(t)
  BY <1>1 DEF OneRequestEach, Alone, LiveOf
<1>4. Contract!LifecycleInit
  BY <1>1 DEF Contract!LifecycleInit, HostView, Contract!Absent
<1> QED
  BY <1>2, <1>3, <1>4, HeldInvInit DEF SerialInv

(* A host that makes one call at a time has one request in flight for each   *)
(* session, as docs/ffi-contract.md says of every host.                      *)
THEOREM SerialOneRequest ==
  ASSUME NEW CONSTANT t, Threads = {t}
  PROVE  ControlSpec => []OneRequestInFlight
<1>1. ControlInit => SerialInv(t)
  BY SerialInit
<1>2. SerialInv(t) /\ [ControlNext]_controlVars => SerialInv(t)'
  BY SerialPreserved
<1>3. ASSUME SerialInv(t), NEW l \in LiveOf("LayoutSession")
      PROVE  Cardinality(InFlight(l)) <= 1
  <2>1. CASE InFlight(l) = {}
    BY <2>1, FS_EmptySet
  <2>2. ASSUME NEW r \in InFlight(l) PROVE Cardinality(InFlight(l)) = 1
    BY <1>3, FS_Singleton DEF SerialInv, OneRequestEach
  <2> QED
    BY <2>1, <2>2
<1>4. SerialInv(t) => OneRequestInFlight
  BY <1>3 DEF OneRequestInFlight
<1> QED
  BY <1>1, <1>2, <1>4, PTL DEF ControlSpec

(* A host that makes one call at a time sees each layout session follow the  *)
(* contract: it is measured for one range at a time, keeps its pages once    *)
(* they are accepted, and the pages are those of the range its request was   *)
(* created for, although the session only remembers the range of the last    *)
(* layout call (layout_request and layout_submit_measurements).              *)
THEOREM SerialHostSeesContract ==
  ASSUME NEW CONSTANT t, Threads = {t}
  PROVE  ControlSpec => LayoutContract
<1>1. ControlInit => SerialInv(t) /\ Contract!LifecycleInit
  BY SerialInit
<1>2. SerialInv(t) /\ [ControlNext]_controlVars => SerialInv(t)' /\ [Contract!LifecycleNext]_View
  BY SerialPreserved
<1> QED
  BY <1>1, <1>2, PTL DEF ControlSpec, LayoutContract, Contract!LifecycleSpec, View
=============================================================================
