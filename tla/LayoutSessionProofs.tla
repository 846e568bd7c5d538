------------------------- MODULE LayoutSessionProofs -------------------------
(***************************************************************************)
(* A layout session's pages are what full pagination of the chapter would   *)
(* give, for a chapter of any length, any page limit and any requests.      *)
(*                                                                         *)
(* The inductive invariant ties the break token to the retained pages: a    *)
(* token that is there names the page after the last one retained, and one  *)
(* that is gone means that the whole chapter is retained, or that the next  *)
(* page failed.                                                             *)
(***************************************************************************)
EXTENDS LayoutSession, SequenceTheorems, TLAPS

USE BoundsAssumption DEF Chapter

\* What the session's state always satisfies, failing pages or not.
TokenIsNext ==
  /\ token # None => token = Len(pages)
  /\ complete => token = None

Unmeasured ==
  /\ at = "layout" => measured
  /\ at = "submit" => ~measured
  /\ ~measured => answer.state # "pages"
  /\ ~measured /\ at = "idle" => pages = <<>> /\ token = None /\ complete = FALSE

IInv == SessionTypeOK /\ PagesArePrefix /\ TokenIsNext /\ Unmeasured

LEMMA InitInvariant == SessionInit => IInv
<1> SUFFICES ASSUME SessionInit PROVE IInv
  OBVIOUS
<1>1. SessionTypeOK
  <2>1. measured \in BOOLEAN /\ complete \in BOOLEAN
    BY Zenon DEF SessionInit
  <2>2. /\ chapter \in Chapter
        /\ at \in {"idle", "layout", "submit"}
        /\ token \in {None} \cup 0 .. chapter.pages - 1
        /\ pages \in Seq(0 .. chapter.pages - 1)
        /\ request \in PageRequest
        /\ answer.state \in {"error", "need_measurements", "complete", "pages"}
    BY DEF SessionInit, PageRequest, NeedMeasurements
  <2> QED
    BY <2>1, <2>2 DEF SessionTypeOK
<1>2. PagesArePrefix /\ TokenIsNext /\ Unmeasured
  BY DEF SessionInit, PagesArePrefix, TokenIsNext, Unmeasured, None, NeedMeasurements
<1> QED
  BY <1>1, <1>2 DEF IInv

LEMMA LayoutPreserves ==
  ASSUME IInv, NEW req \in PageRequest, Layout(req)
  PROVE  IInv'
  BY DEF IInv, SessionTypeOK, PagesArePrefix, TokenIsNext, Unmeasured, Layout,
         NeedMeasurements, Complete, None

LEMMA SubmitPreserves ==
  ASSUME IInv, NEW valid \in BOOLEAN, Submit(valid)
  PROVE  IInv'
  BY DEF IInv, SessionTypeOK, PagesArePrefix, TokenIsNext, Unmeasured, Submit,
      TokenAfter, Error, Complete, None

LEMMA BuildPagePreserves ==
  ASSUME IInv, BuildPage
  PROVE  IInv'
  BY DEF IInv, SessionTypeOK, PagesArePrefix, TokenIsNext, Unmeasured, BuildPage,
      Wanting, TokenAfter, None

LEMMA FailPreserves ==
  ASSUME IInv, at # "idle", NEW kept \in {None, token}, Fail(kept)
  PROVE  IInv'
<1> USE DEF IInv, SessionTypeOK, PagesArePrefix, TokenIsNext, Unmeasured, Fail, Error
<1>1. CASE at = "submit"
  <2>1. complete' \in BOOLEAN
    BY <1>1, Zenon
  <2>2. answer'.state = "error" /\ at' = "idle" /\ pages' = <<>> /\ token' = None
    BY <1>1
  <2> QED
    BY <1>1, <2>1, <2>2 DEF None
<1>2. CASE at = "layout"
  BY <1>2 DEF None
<1> QED
  BY <1>1, <1>2

LEMMA RefusePreserves ==
  ASSUME IInv, Refuse
  PROVE  IInv'
<1> USE DEF IInv, SessionTypeOK, PagesArePrefix, TokenIsNext, Unmeasured, Refuse, Error
<1>1. complete' \in BOOLEAN
  BY Zenon
<1>2. CASE at = "submit"
  BY <1>1, <1>2 DEF None
<1>3. CASE at = "layout"
  BY <1>1, <1>3 DEF None
<1> QED
  BY <1>2, <1>3

LEMMA FinishPreserves ==
  ASSUME IInv, Finish
  PROVE  IInv'
  BY DEF IInv, SessionTypeOK, PagesArePrefix, TokenIsNext, Unmeasured, Finish,
         None

LEMMA NextInvariant == IInv /\ [SessionNext]_sessionVars => IInv'
<1> SUFFICES ASSUME IInv, [SessionNext]_sessionVars PROVE IInv'
  OBVIOUS
<1>1. CASE \E req \in PageRequest : Layout(req)
  BY <1>1, LayoutPreserves
<1>2. CASE \E valid \in BOOLEAN : Submit(valid)
  BY <1>2, SubmitPreserves
<1>3. CASE BuildPage
  BY <1>3, BuildPagePreserves
<1>4. CASE PageLimit
  BY <1>4, FailPreserves DEF PageLimit, Wanting
<1>5. CASE PageError
  BY <1>5, FailPreserves DEF PageError, Wanting
<1>6. CASE Refuse
  BY <1>6, RefusePreserves
<1>7. CASE Finish
  BY <1>7, FinishPreserves
<1>8. CASE UNCHANGED sessionVars
  BY <1>8 DEF sessionVars, IInv, SessionTypeOK, PagesArePrefix, TokenIsNext, Unmeasured
<1> QED
  BY <1>1, <1>2, <1>3, <1>4, <1>5, <1>6, <1>7, <1>8 DEF SessionNext, Continue

(* The session's state stays well typed.                                    *)
THEOREM SessionTypeCorrect == SessionSpec => []SessionTypeOK
  BY InitInvariant, NextInvariant, PTL DEF SessionSpec, IInv

(* The retained pages are a prefix of the chapter, even when pages fail or  *)
(* the page limit is reached: page_range never skips or repeats a page.     *)
THEOREM SessionPagesArePrefix == SessionSpec => []PagesArePrefix
  BY InitInvariant, NextInvariant, PTL DEF SessionSpec, IInv

-----------------------------------------------------------------------------
(* Unless a failed page took the token, what is handed out is full          *)
(* pagination.                                                              *)

\* Once there is a pagination, a token is spent at the end of the chapter,
\* or lost to a page that failed.
SpentTokenIsEnd ==
  measured \/ at = "submit" => (token = None => Len(pages) = chapter.pages \/ TokenLost)

AnswerSaysSo ==
  answer.state = "pages" /\ answer.complete => Len(pages) = chapter.pages \/ TokenLost

AnswerInv == IInv /\ SpentTokenIsEnd /\ AnswerSaysSo /\ AnswerIsFullPagination

LEMMA InitAnswer == SessionInit => AnswerInv
  BY InitInvariant
  DEF SessionInit, AnswerInv, SpentTokenIsEnd, AnswerSaysSo,
      AnswerIsFullPagination, NeedMeasurements

LEMMA SpentTokenPreserved ==
  ASSUME AnswerInv, [SessionNext]_sessionVars
  PROVE  SpentTokenIsEnd'
<1> USE DEF SpentTokenIsEnd, TokenLost, AnswerInv, IInv, SessionTypeOK, PagesArePrefix, TokenIsNext, Unmeasured
<1>1. CASE \E req \in PageRequest : Layout(req)
  BY <1>1 DEF Layout
<1>2. CASE \E valid \in BOOLEAN : Submit(valid)
  BY <1>2 DEF Submit, TokenAfter, None
<1>3. CASE BuildPage
  BY <1>3 DEF BuildPage, Wanting, TokenAfter, None
<1>4. CASE PageLimit
  BY <1>4 DEF PageLimit, Wanting, Fail
<1>5. CASE PageError
  BY <1>5 DEF PageError, Wanting, Fail, TokenLost, None, Error
<1>6. CASE Refuse
  BY <1>6 DEF Refuse, Wanting, None
<1>7. CASE Finish
  BY <1>7 DEF Finish
<1>8. CASE UNCHANGED sessionVars
  BY <1>8 DEF sessionVars
<1> QED
  BY <1>1, <1>2, <1>3, <1>4, <1>5, <1>6, <1>7, <1>8 DEF SessionNext, Continue

LEMMA AnswerSaysSoPreserved ==
  ASSUME AnswerInv, [SessionNext]_sessionVars
  PROVE  AnswerSaysSo'
<1> USE DEF AnswerSaysSo, TokenLost, AnswerInv, IInv, SessionTypeOK, PagesArePrefix, TokenIsNext, Unmeasured
<1>1. CASE \E req \in PageRequest : Layout(req)
  BY <1>1 DEF Layout, NeedMeasurements, Complete
<1>2. CASE \E valid \in BOOLEAN : Submit(valid)
  BY <1>2 DEF Submit, Complete, Error
<1>3. CASE BuildPage
  BY <1>3 DEF BuildPage, Wanting, None
<1>4. CASE PageLimit
  BY <1>4 DEF PageLimit, Fail, Error
<1>5. CASE PageError
  BY <1>5 DEF PageError, Wanting, Fail, TokenLost, None, Error
<1>6. CASE Refuse
  BY <1>6 DEF Refuse, Error
<1>7. CASE Finish
  BY <1>7 DEF Finish, SpentTokenIsEnd
<1>8. CASE UNCHANGED sessionVars
  BY <1>8 DEF sessionVars
<1> QED
  BY <1>1, <1>2, <1>3, <1>4, <1>5, <1>6, <1>7, <1>8 DEF SessionNext, Continue

\* Sequences that agree on a range have the same slice of it.
LEMMA SliceOfEquals ==
  ASSUME NEW s, NEW t, NEW m \in Int, NEW n \in Int,
         \A i \in m .. n : s[i] \in Int /\ s[i] = t[i]
  PROVE  SubSeq(s, m, n) = SubSeq(t, m, n)
<1>1. \A i \in m .. n : s[i] \in Int
  OBVIOUS
<1>2. \A i \in m .. n : t[i] \in Int
  OBVIOUS
<1>3. /\ SubSeq(s, m, n) \in Seq(Int)
      /\ Len(SubSeq(s, m, n)) = IF m <= n THEN n - m + 1 ELSE 0
      /\ \A i \in 1 .. n - m + 1 : SubSeq(s, m, n)[i] = s[m + i - 1]
  BY <1>1, SubSeqProperties
<1>4. /\ SubSeq(t, m, n) \in Seq(Int)
      /\ Len(SubSeq(t, m, n)) = IF m <= n THEN n - m + 1 ELSE 0
      /\ \A i \in 1 .. n - m + 1 : SubSeq(t, m, n)[i] = t[m + i - 1]
  BY <1>2, SubSeqProperties
<1>5. \A i \in 1 .. n - m + 1 : SubSeq(s, m, n)[i] = SubSeq(t, m, n)[i]
  <2> SUFFICES ASSUME NEW i \in 1 .. n - m + 1
               PROVE  SubSeq(s, m, n)[i] = SubSeq(t, m, n)[i]
    OBVIOUS
  <2>1. m + i - 1 \in m .. n
    OBVIOUS
  <2>2. s[m + i - 1] = t[m + i - 1]
    BY <2>1
  <2> QED
    BY <1>3, <1>4, <2>2
<1> DEFINE ss == SubSeq(s, m, n)
           tt == SubSeq(t, m, n)
<1>6. ss \in Seq(Int) /\ tt \in Seq(Int) /\ Len(ss) = Len(tt)
  BY <1>3, <1>4
<1>7. \A i \in 1 .. Len(ss) : ss[i] = tt[i]
  BY <1>3, <1>5
<1> HIDE DEF ss, tt
<1>8. ss = tt
  BY <1>6, <1>7, SeqEqual
<1> QED
  BY <1>8 DEF ss, tt

LEMMA FinishAnswers ==
  ASSUME AnswerInv, Finish
  PROVE  AnswerIsFullPagination'
<1> SUFFICES ASSUME ~TokenLost
             PROVE  AnswerIsFullPagination'
  BY DEF Finish, TokenLost, AnswerIsFullPagination
<1> DEFINE full == [i \in 1 .. chapter.pages |-> i - 1]
           retained == IF RequestedEnd < Len(pages) THEN RequestedEnd ELSE Len(pages)
           end == IF RequestedEnd < chapter.pages THEN RequestedEnd ELSE chapter.pages
           start == request.start
<1> USE DEF AnswerInv, IInv, SessionTypeOK, PagesArePrefix, TokenIsNext
<1>1. /\ RequestedEnd \in Nat /\ start \in Nat /\ Len(pages) \in Nat
      /\ start <= RequestedEnd
  BY DEF PageRequest, RequestedEnd
<1>2. full \in Seq(Int) /\ Len(full) = chapter.pages
  OBVIOUS
<1>3. retained = end
  BY <1>1 DEF Finish, Wanting, SpentTokenIsEnd, Unmeasured
<1>4. SubSeq(pages, start + 1, end) = SubSeq(full, start + 1, end)
  <2>1. end <= Len(pages) /\ end <= chapter.pages /\ end \in Nat
    BY <1>1, <1>3
  <2>2. ASSUME NEW i \in start + 1 .. end
        PROVE  pages[i] \in Int /\ pages[i] = full[i]
    <3>1. i \in 1 .. Len(pages) /\ i \in 1 .. chapter.pages
      BY <1>1, <2>1
    <3>2. full[i] = i - 1
      BY <3>1
    <3>3. pages[i] = i - 1
      BY <3>1
    <3> QED
      BY <3>1, <3>2, <3>3
  <2> HIDE DEF full, end, AnswerInv, IInv, SessionTypeOK, PagesArePrefix
  <2>3. \A i \in start + 1 .. end : pages[i] \in Int /\ pages[i] = full[i]
    BY <2>2
  <2>4. start + 1 \in Int /\ end \in Int
    BY <1>1, <2>1
  <2> QED
    BY <2>3, <2>4, SliceOfEquals
<1>5. /\ answer'.pages = SubSeq(pages, start + 1, retained)
      /\ request' = request /\ chapter' = chapter
  BY DEF Finish, Slice
<1>6. answer'.pages = SubSeq(full, start + 1, end)
  BY <1>3, <1>4, <1>5
<1> HIDE DEF AnswerInv, IInv, SessionTypeOK, PagesArePrefix, TokenIsNext
<1> QED
  BY <1>5, <1>6, Zenon DEF AnswerIsFullPagination, RequestedEnd

LEMMA AnswerPreserved ==
  ASSUME AnswerInv, [SessionNext]_sessionVars
  PROVE  AnswerIsFullPagination'
<1>1. CASE \E req \in PageRequest : Layout(req)
  BY <1>1 DEF Layout, NeedMeasurements, Complete, AnswerIsFullPagination
<1>2. CASE \E valid \in BOOLEAN : Submit(valid)
  BY <1>2 DEF Submit, Complete, Error, AnswerIsFullPagination
<1>3. CASE BuildPage
  BY <1>3 DEF BuildPage, Wanting, AnswerIsFullPagination
<1>4. CASE PageLimit \/ PageError \/ Refuse
  BY <1>4 DEF PageLimit, PageError, Refuse, Fail, Error, AnswerIsFullPagination
<1>5. CASE Finish
  BY <1>5, FinishAnswers
<1>6. CASE UNCHANGED sessionVars
  BY <1>6 DEF sessionVars, AnswerInv, AnswerIsFullPagination, RequestedEnd, TokenLost
<1> QED
  BY <1>1, <1>2, <1>3, <1>4, <1>5, <1>6 DEF SessionNext, Continue

LEMMA AnswerInvHolds ==
  SessionSpec => []AnswerInv
<1>1. AnswerInv /\ [SessionNext]_sessionVars => AnswerInv'
  <2> SUFFICES ASSUME AnswerInv, [SessionNext]_sessionVars PROVE AnswerInv'
    OBVIOUS
  <2>1. IInv'
    BY NextInvariant DEF AnswerInv
  <2> QED
    BY <2>1, SpentTokenPreserved, AnswerSaysSoPreserved, AnswerPreserved DEF AnswerInv
<1> QED
  BY <1>1, InitAnswer, PTL DEF SessionSpec

(* The chapter is only ever reported complete when every page of it is      *)
(* retained, or when the next page failed.                                  *)
THEOREM SessionCompleteUnlessLost == SessionSpec => []CompleteUnlessLost
<1>1. AnswerInv => CompleteUnlessLost
  <2> SUFFICES ASSUME AnswerInv, complete
               PROVE  Len(pages) = chapter.pages \/ TokenLost
    BY DEF AnswerInv, AnswerSaysSo, CompleteUnlessLost, SaidComplete
  <2>1. measured \/ at = "submit"
    BY DEF AnswerInv, IInv, Unmeasured, SessionTypeOK
  <2> QED
    BY <2>1 DEF AnswerInv, IInv, TokenIsNext, SpentTokenIsEnd
<1> QED
  BY <1>1, AnswerInvHolds, PTL

(* Unless a failed page took the token, each answered range is that range   *)
(* of the fully paginated chapter: progressive pagination loses nothing.    *)
THEOREM SessionAnswersFullPagination == SessionSpec => []AnswerIsFullPagination
<1>1. AnswerInv => AnswerIsFullPagination
  BY DEF AnswerInv
<1> QED
  BY <1>1, AnswerInvHolds, PTL

-----------------------------------------------------------------------------

LEMMA SubSeqAgrees ==
  ASSUME NEW S \in SUBSET Int, NEW s \in Seq(S), NEW e \in S
  PROVE  SubSeq(Append(s, e), 1, Len(s)) = s
<1>1. Len(s) \in Int
  OBVIOUS
<1>2. ASSUME NEW i \in 1 .. Len(s)
      PROVE  s[i] \in Int /\ s[i] = Append(s, e)[i]
  <2>1. s[i] \in S
    BY ElementOfSeq
  <2>2. Append(s, e)[i] = s[i]
    BY AppendProperties
  <2> QED
    BY <2>1, <2>2
<1>3. SubSeq(s, 1, Len(s)) = SubSeq(Append(s, e), 1, Len(s))
  BY <1>1, <1>2, SliceOfEquals
<1> QED
  BY <1>3, SubSeqFull

(* No call and no error takes back a page the session has handed out.       *)
THEOREM SessionRetainsPages == SessionSpec => RetainedPagesStay
<1> DEFINE Stays ==
      measured => /\ measured'
                  /\ Len(pages') >= Len(pages)
                  /\ SubSeq(pages', 1, Len(pages)) = pages
<1>1. IInv /\ [SessionNext]_sessionVars => [Stays]_sessionVars
  <2> SUFFICES ASSUME IInv, measured, [SessionNext]_sessionVars
               PROVE  Stays
    OBVIOUS
  <2> USE DEF IInv, SessionTypeOK
  <2>1. SubSeq(pages, 1, Len(pages)) = pages
    OBVIOUS
  <2>2. CASE BuildPage
    <3>1. token \in 0 .. chapter.pages - 1 /\ pages' = Append(pages, token)
      BY <2>2 DEF BuildPage, Wanting
    <3>2. SubSeq(Append(pages, token), 1, Len(pages)) = pages
      BY <3>1, SubSeqAgrees
    <3>3. Len(pages') >= Len(pages) /\ measured'
      BY <2>2, <3>1 DEF BuildPage
    <3> QED
      BY <3>1, <3>2, <3>3
  <2>3. CASE ~BuildPage
    <3>1. pages' = pages
      BY <2>3 DEF SessionNext, Continue, Layout, Submit, Finish, PageLimit,
                  PageError, Refuse, Wanting, Fail, Unmeasured, sessionVars
    <3>2. measured'
      BY <2>3, Zenon DEF SessionNext, Continue, Layout, Submit, Finish, PageLimit,
                         PageError, Refuse, Fail, sessionVars
    <3> QED
      BY <2>1, <3>1, <3>2
  <2> QED
    BY <2>2, <2>3
<1> QED
  BY <1>1, InitInvariant, NextInvariant, PTL DEF SessionSpec, RetainedPagesStay
=============================================================================
