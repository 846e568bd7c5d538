---------------------------- MODULE FormatsProofs ----------------------------
(***************************************************************************)
(* Proofs about what is read and measured: the text of a block, for any     *)
(* characters and any markup; the opening of a publication, for any         *)
(* archive and limits; the measuring of a text, for any batch; and the      *)
(* notes of a chapter, for any links.                                       *)
(*                                                                         *)
(* Each operation of the accumulator keeps it sound, whatever was collected *)
(* before: the lemmas speak of any accumulator, so they hold wherever the   *)
(* operations are used.                                                     *)
(*                                                                         *)
(* Opening is a chain of steps, each a function of the archive, the mode    *)
(* and what was made so far.  The invariant says that a mode has made what  *)
(* the chain makes, so what two modes make is compared step by step,        *)
(* whenever each of them made it.                                           *)
(*                                                                         *)
(* What measures a text walks it too: the deterministic backend draws       *)
(* character by character, the bridge line by line.  A claim about the pen  *)
(* (PenGoes), and one about the lines found so far (FoundWell), go on from  *)
(* each place to the next; from them a result fits its request (Measured),  *)
(* whatever the painter does.  The invariant of a measured batch            *)
(* (MeasureInv) says so of every result, and that what a host accepts has   *)
(* the requests of the batch: no two requests share a fingerprint.          *)
(*                                                                         *)
(* The notes of a chapter are resolved link by link, whatever chapter the   *)
(* conversion gave.  That links still asked for are the chapter's (Asking)  *)
(* is what makes a backlink one of its links.                               *)
(***************************************************************************)
EXTENDS ChapterNotes, Publication, Measurement, CascadeProofs

USE InlineAssumption

-----------------------------------------------------------------------------
(* Sound accumulators *)

Runs == [start : Nat, end : Nat, origin : Origins]
\* Where a link leads and what an anchor is called does not matter here.
Links == [href : {"href"}, start : Nat, end : Nat]
Anchors == [fragment : {"id"}, offset : Nat]

Accumulators ==
  [text : Seq(Characters), runs : Seq(Runs), links : Seq(Links), anchors : Seq(Anchors),
   pending : Origins \cup {NoOrigin}]

\* The properties of the collected text, of any accumulator.
Partitioned(a) ==
  /\ a.runs = <<>> <=> a.text = <<>>
  /\ \A i \in 1 .. Len(a.runs) :
       /\ a.runs[i].start < a.runs[i].end
       /\ a.runs[i].start = IF i = 1 THEN 0 ELSE a.runs[i - 1].end
       /\ i = Len(a.runs) => a.runs[i].end = Len(a.text)

Longest(a) == \A i \in 1 .. Len(a.runs) - 1 : a.runs[i].origin # a.runs[i + 1].origin

Covered(a) ==
  \A i \in 1 .. Len(a.links) :
    a.links[i].start < a.links[i].end /\ a.links[i].end <= Len(a.text)

Trimmed(a) ==
  \A i \in 1 .. Len(a.text) : a.text[i] = Space => i > 1 /\ a.text[i - 1] # Break

Sound(a) ==
  a \in Accumulators /\ Partitioned(a) /\ Longest(a) /\ Covered(a) /\ Trimmed(a)

LEMMA EmptySound == Sound(Empty)
  BY EmptySeq DEF Sound, Empty, Accumulators, Partitioned, Longest, Covered, Trimmed

\* Only the characters, their runs and the pending space are the segment's.
LEMMA SegmentSound ==
  ASSUME NEW a, Sound(a), NEW character \in Characters, NEW origin \in Origins,
         character = Space => ~AtLineStart(a)
  PROVE  /\ Sound(Segment(a, character, origin))
         /\ Len(Segment(a, character, origin).text) = Len(a.text) + 1
<1> DEFINE b == Segment(a, character, origin)
           last == Len(a.runs)
           length == Len(a.text)
           joins == last > 0 /\ a.runs[last].end = length /\ a.runs[last].origin = origin
           longer == Run(a.runs[last].start, length + 1, origin)
           new == Run(length, length + 1, origin)
<1>1. a \in Accumulators /\ Partitioned(a) /\ Longest(a) /\ Covered(a) /\ Trimmed(a)
  BY DEF Sound
<1>2. /\ a.text \in Seq(Characters) /\ a.runs \in Seq(Runs)
      /\ a.links \in Seq(Links) /\ a.anchors \in Seq(Anchors)
      /\ last \in Nat /\ last = Len(a.runs)
      /\ length \in Nat /\ length = Len(a.text)
  BY <1>1 DEF Accumulators
<1>3. /\ b.text = Append(a.text, character)
      /\ b.runs = IF joins THEN [a.runs EXCEPT ![last] = longer] ELSE Append(a.runs, new)
      /\ b.links = a.links
      /\ b.text \in Seq(Characters) /\ b.runs \in Seq(Runs) => b \in Accumulators
  <2> DEFINE runs == IF joins THEN [a.runs EXCEPT ![last] = longer] ELSE Append(a.runs, new)
  <2>1. b = [a EXCEPT !.text = Append(a.text, character), !.runs = runs]
    BY DEF Segment
  <2> HIDE DEF b, runs
  <2>2. b.text = Append(a.text, character) /\ b.runs = runs /\ b.links = a.links
    BY <1>1, <2>1 DEF Accumulators
  <2>3. b.text \in Seq(Characters) /\ b.runs \in Seq(Runs) => b \in Accumulators
    BY <1>1, <2>1, <2>2 DEF Accumulators
  <2> QED
    BY <2>2, <2>3 DEF runs
<1> HIDE DEF b
<1>4. /\ b.text \in Seq(Characters) /\ Len(b.text) = length + 1
      /\ \A i \in 1 .. length : b.text[i] = a.text[i]
      /\ b.text[length + 1] = character
  BY <1>2, <1>3, AppendProperties
<1>5. /\ length = 0 <=> last = 0
      /\ a.text = <<>> <=> length = 0
      /\ a.runs = <<>> <=> last = 0
  BY <1>1, <1>2 DEF Partitioned
<1>6. \A i \in 1 .. last : a.runs[i] \in Runs
  BY <1>2
<1>7. ASSUME joins
      PROVE  b.runs \in Seq(Runs) /\ Partitioned(b) /\ Longest(b)
  <2>0. last \in 1 .. last /\ a.runs[last] \in Runs
    BY <1>2, <1>6, <1>7
  <2>1. longer \in Runs /\ longer.start = a.runs[last].start /\ longer.end = length + 1
        /\ longer.origin = a.runs[last].origin
    BY <1>2, <1>7, <2>0 DEF Run, Runs
  <2> HIDE DEF longer
  <2>2. /\ b.runs \in Seq(Runs) /\ Len(b.runs) = last
        /\ \A i \in 1 .. last : b.runs[i] = IF i = last THEN longer ELSE a.runs[i]
    BY <1>2, <1>3, <1>7, <2>1, ExceptSeq
  <2>3. Partitioned(b)
    <3>1. b.runs # <<>> /\ b.text # <<>>
      BY <1>2, <1>4, <1>7, <2>2
    <3>2. ASSUME NEW i \in 1 .. last
          PROVE  /\ b.runs[i].start < b.runs[i].end
                 /\ b.runs[i].start = IF i = 1 THEN 0 ELSE b.runs[i - 1].end
                 /\ i = last => b.runs[i].end = length + 1
      <4>1. /\ a.runs[i].start < a.runs[i].end
            /\ a.runs[i].start = IF i = 1 THEN 0 ELSE a.runs[i - 1].end
            /\ i = last => a.runs[i].end = length
        BY <1>1 DEF Partitioned
      <4>2. i # 1 => i - 1 \in 1 .. last /\ i - 1 # last
        BY <1>2
      <4>3. a.runs[i].start \in Nat /\ a.runs[i].end \in Nat
        BY <1>6 DEF Runs
      <4>4. /\ i = last => b.runs[i].start = a.runs[i].start /\ b.runs[i].end = length + 1
            /\ i # last => b.runs[i] = a.runs[i]
            /\ i # 1 => b.runs[i - 1] = a.runs[i - 1]
        BY <2>1, <2>2, <4>2
      <4>5. b.runs[i].start < b.runs[i].end
        BY <1>2, <4>1, <4>3, <4>4
      <4> QED
        BY <4>1, <4>4, <4>5
    <3> QED
      BY <1>4, <2>2, <3>1, <3>2 DEF Partitioned
  <2>4. Longest(b)
    <3>1. ASSUME NEW i \in 1 .. last
          PROVE  b.runs[i].origin = a.runs[i].origin
      BY <2>1, <2>2
    <3>2. ASSUME NEW i \in 1 .. last - 1
          PROVE  b.runs[i].origin # b.runs[i + 1].origin
      <4>1. i \in 1 .. last /\ i + 1 \in 1 .. last
        BY <1>2
      <4> QED
        BY <1>1, <1>2, <3>1, <4>1 DEF Longest
    <3> QED
      BY <2>2, <3>2 DEF Longest
  <2> QED
    BY <2>2, <2>3, <2>4
<1>8. ASSUME ~joins
      PROVE  b.runs \in Seq(Runs) /\ Partitioned(b) /\ Longest(b)
  <2>1. new \in Runs /\ new.start = length /\ new.end = length + 1 /\ new.origin = origin
    BY <1>2 DEF Run, Runs
  <2> HIDE DEF new
  <2>2. /\ b.runs \in Seq(Runs) /\ Len(b.runs) = last + 1
        /\ \A i \in 1 .. last : b.runs[i] = a.runs[i]
        /\ b.runs[last + 1] = new
    BY <1>2, <1>3, <1>8, <2>1, AppendProperties
  <2>3. Partitioned(b)
    <3>1. b.runs # <<>> /\ b.text # <<>>
      BY <1>2, <1>4, <2>2
    <3>2. ASSUME NEW i \in 1 .. last + 1
          PROVE  /\ b.runs[i].start < b.runs[i].end
                 /\ b.runs[i].start = IF i = 1 THEN 0 ELSE b.runs[i - 1].end
                 /\ i = last + 1 => b.runs[i].end = length + 1
      <4>1. CASE i = last + 1
        <5>1. last > 0 => a.runs[last].end = length
          BY <1>1, <1>2 DEF Partitioned
        <5> QED
          <6>1. b.runs[i].start = length /\ b.runs[i].end = length + 1
            BY <2>1, <2>2, <4>1
          <6>2. i = 1 => length = 0
            BY <1>2, <1>5, <4>1
          <6>3. i # 1 => b.runs[i - 1] = a.runs[last] /\ last > 0
            BY <1>2, <2>2, <4>1
          <6> QED
            BY <1>2, <5>1, <6>1, <6>2, <6>3
      <4>2. CASE i \in 1 .. last
        <5>1. i # 1 => i - 1 \in 1 .. last
          BY <1>2, <4>2
        <5>2. b.runs[i] = a.runs[i] /\ (i # 1 => b.runs[i - 1] = a.runs[i - 1])
          BY <2>2, <4>2, <5>1
        <5>3. a.runs[i].start < a.runs[i].end
              /\ a.runs[i].start = IF i = 1 THEN 0 ELSE a.runs[i - 1].end
          BY <1>1, <1>2, <4>2 DEF Partitioned
        <5>4. i # last + 1
          BY <1>2, <4>2
        <5> QED
          BY <5>2, <5>3, <5>4
      <4> QED
        BY <1>2, <4>1, <4>2
    <3> QED
      BY <1>4, <2>2, <3>1, <3>2 DEF Partitioned
  <2>4. Longest(b)
    <3>1. last > 0 => a.runs[last].origin # origin
      BY <1>1, <1>2, <1>8 DEF Partitioned
    <3>2. ASSUME NEW i \in 1 .. last
          PROVE  b.runs[i].origin # b.runs[i + 1].origin
      <4>1. CASE i = last
        BY <1>2, <2>1, <2>2, <3>1, <4>1
      <4>2. CASE i # last
        <5>1. i \in 1 .. last - 1 /\ i + 1 \in 1 .. last
          BY <1>2, <4>2
        <5> QED
          BY <1>1, <1>2, <2>2, <5>1 DEF Longest
      <4> QED
        BY <4>1, <4>2
    <3>3. (last + 1) - 1 = last
      BY <1>2
    <3>4. Len(b.runs) - 1 = last
      BY <2>2, <3>3
    <3> HIDE DEF last
    <3> QED
      BY <3>2, <3>4 DEF Longest
  <2> QED
    BY <2>2, <2>3, <2>4
<1>9. b \in Accumulators /\ Partitioned(b) /\ Longest(b)
  BY <1>3, <1>4, <1>7, <1>8
<1>10. Covered(b)
  <2>1. \A i \in 1 .. Len(a.links) : a.links[i] \in Links
    BY <1>2
  <2>2. \A i \in 1 .. Len(a.links) :
          a.links[i].end \in Nat /\ a.links[i].start < a.links[i].end /\ a.links[i].end <= length
    BY <1>1, <2>1 DEF Covered, Links
  <2>3. b.links = a.links /\ Len(b.text) = length + 1 /\ length \in Nat
    BY <1>2, <1>3, <1>4
  <2> HIDE DEF length
  <2>4. \A end \in Nat : end <= length => end <= length + 1
    BY <2>3
  <2> QED
    BY <2>2, <2>3, <2>4 DEF Covered
<1>11. Trimmed(b)
  <2>1. character = Space => length > 0 /\ a.text[length] # Break
    BY <1>2 DEF AtLineStart
  <2>2. ASSUME NEW i \in 1 .. length + 1, b.text[i] = Space
        PROVE  i > 1 /\ b.text[i - 1] # Break
    <3>1. CASE i = length + 1
      <4>1. length > 0 /\ a.text[length] # Break
        BY <1>4, <2>1, <2>2, <3>1
      <4>2. i - 1 = length /\ length \in 1 .. length /\ i > 1
        BY <1>2, <3>1, <4>1
      <4> QED
        BY <1>4, <4>1, <4>2
    <3>2. CASE i \in 1 .. length
      <4>1. a.text[i] = Space
        BY <1>4, <2>2, <3>2
      <4>2. i > 1 /\ a.text[i - 1] # Break
        BY <1>1, <1>2, <3>2, <4>1 DEF Trimmed
      <4>3. i - 1 \in 1 .. length
        BY <1>2, <3>2, <4>2
      <4> QED
        BY <1>4, <4>2, <4>3
    <3>3. i = length + 1 \/ i \in 1 .. length
      <4>1. i \in 1 .. length + 1 /\ length \in Nat
        BY <1>2
      <4> HIDE DEF length
      <4> QED
        BY <4>1
    <3> QED
      BY <3>1, <3>2, <3>3
  <2> QED
    BY <1>4, <2>2 DEF Trimmed
<1> QED
  BY <1>4, <1>9, <1>10, <1>11 DEF Sound, b

\* What is pending does not matter to the text.
LEMMA PendingSound ==
  ASSUME NEW a, Sound(a), NEW origin \in Origins \cup {NoOrigin}
  PROVE  /\ Sound([a EXCEPT !.pending = origin])
         /\ [a EXCEPT !.pending = origin].text = a.text
<1> DEFINE b == [a EXCEPT !.pending = origin]
<1>1. a \in Accumulators
  BY DEF Sound
<1>2. /\ b \in Accumulators /\ b.text = a.text /\ b.runs = a.runs /\ b.links = a.links
  BY <1>1 DEF Accumulators
<1> HIDE DEF b
<1>3. Sound(b)
  BY <1>2 DEF Sound, Partitioned, Longest, Covered, Trimmed
<1> QED
  BY <1>2, <1>3 DEF b

LEMMA FlushSound ==
  ASSUME NEW a, Sound(a)
  PROVE  /\ Sound(Flush(a))
         /\ Len(Flush(a).text) >= Len(a.text)
         /\ Len(Flush(a).text) \in Nat
<1>1. a \in Accumulators
  BY DEF Sound
<1>2. a.pending \in Origins \cup {NoOrigin} /\ Len(a.text) \in Nat /\ Space \in Characters
  BY <1>1 DEF Accumulators, Characters
<1>3. CASE a.pending = NoOrigin
  BY <1>2, <1>3 DEF Flush
<1>4. CASE a.pending # NoOrigin /\ AtLineStart(a)
  <2>1. Flush(a) = [a EXCEPT !.pending = NoOrigin]
    BY <1>4 DEF Flush
  <2>2. Sound([a EXCEPT !.pending = NoOrigin]) /\ [a EXCEPT !.pending = NoOrigin].text = a.text
    BY PendingSound
  <2> QED
    BY <1>2, <2>1, <2>2
<1>5. CASE a.pending # NoOrigin /\ ~AtLineStart(a)
  <2> DEFINE b == [a EXCEPT !.pending = NoOrigin]
  <2>1. Sound(b) /\ b.text = a.text
    BY PendingSound
  <2>2. Flush(a) = Segment(b, Space, a.pending)
    BY <1>5 DEF Flush
  <2> HIDE DEF b
  <2>3. ~AtLineStart(b)
    BY <1>5, <2>1 DEF AtLineStart
  <2>4. Sound(Segment(b, Space, a.pending)) /\ Len(Segment(b, Space, a.pending).text) = Len(b.text) + 1
    BY <1>2, <1>5, <2>1, <2>3, SegmentSound
  <2> QED
    BY <1>2, <2>1, <2>2, <2>4
<1> QED
  BY <1>3, <1>4, <1>5

\* Every operation keeps an accumulator sound.
LEMMA OperationsSound ==
  ASSUME NEW a, Sound(a)
  PROVE  /\ \A origin \in Origins :
              /\ Sound(CollapseSpace(a, origin))
              /\ Sound(AppendBreak(a, origin))
              /\ \A letter \in Letters : Sound(AppendLetter(a, letter, origin))
         /\ Sound(AddAnchor(a, "id"))
         /\ \A from \in Nat : Sound(EndLink(a, from, "href"))
<1>1. a \in Accumulators
  BY DEF Sound
<1>2. Len(a.text) \in Nat /\ Break \in Characters /\ Letters \subseteq Characters
  BY <1>1 DEF Accumulators, Characters
<1>3. ASSUME NEW origin \in Origins PROVE Sound(CollapseSpace(a, origin))
  BY PendingSound DEF CollapseSpace
<1>4. ASSUME NEW origin \in Origins PROVE Sound(AppendBreak(a, origin))
  <2>1. Sound([a EXCEPT !.pending = NoOrigin])
    BY PendingSound
  <2> QED
    BY <1>2, <2>1, SegmentSound DEF AppendBreak
<1>5. ASSUME NEW origin \in Origins, NEW letter \in Letters
      PROVE  Sound(AppendLetter(a, letter, origin))
  BY <1>2, FlushSound, SegmentSound DEF AppendLetter
<1>6. Sound(AddAnchor(a, "id"))
  <2> DEFINE space == IF a.pending # NoOrigin /\ ~AtLineStart(a) THEN 1 ELSE 0
             offset == Len(a.text) + space
             anchor == [fragment |-> "id", offset |-> offset]
             b == [a EXCEPT !.anchors = Append(@, anchor)]
  <2>0. offset \in Nat
    <3>1. space \in {0, 1}
      OBVIOUS
    <3> HIDE DEF space
    <3> QED
      BY <1>2, <3>1
  <2> HIDE DEF offset
  <2>1. anchor \in Anchors
    BY <2>0 DEF Anchors
  <2> HIDE DEF anchor
  <2>2. Append(a.anchors, anchor) \in Seq(Anchors)
    BY <1>1, <2>1, AppendProperties DEF Accumulators
  <2>3. b \in Accumulators /\ b.text = a.text /\ b.runs = a.runs /\ b.links = a.links
    BY <1>1, <2>2 DEF Accumulators
  <2>4. AddAnchor(a, "id") = b
    BY DEF AddAnchor, anchor, offset
  <2> HIDE DEF b
  <2>5. Partitioned(b) /\ Longest(b)
    BY <2>3 DEF Sound, Partitioned, Longest
  <2>6. Covered(b) /\ Trimmed(b)
    BY <2>3 DEF Sound, Covered, Trimmed
  <2> QED
    BY <2>3, <2>4, <2>5, <2>6 DEF Sound
<1>7. ASSUME NEW from \in Nat PROVE Sound(EndLink(a, from, "href"))
  <2> DEFINE link == [href |-> "href", start |-> from, end |-> Len(a.text)]
             b == [a EXCEPT !.links = Append(@, link)]
  <2>1. CASE Len(a.text) <= from
    BY <1>2, <2>1 DEF EndLink
  <2>2. CASE Len(a.text) > from
    <3>1. link \in Links /\ link.start < link.end /\ link.end = Len(a.text)
      BY <1>2, <2>2 DEF Links
    <3>2. EndLink(a, from, "href") = b
      BY <2>2 DEF EndLink
    <3> HIDE DEF link
    <3>3. /\ Append(a.links, link) \in Seq(Links)
          /\ Len(Append(a.links, link)) = Len(a.links) + 1 /\ Len(a.links) \in Nat
          /\ \A i \in 1 .. Len(a.links) : Append(a.links, link)[i] = a.links[i]
          /\ Append(a.links, link)[Len(a.links) + 1] = link
      BY <1>1, <3>1, AppendProperties, LenProperties DEF Accumulators
    <3>4. /\ b \in Accumulators /\ b.text = a.text /\ b.runs = a.runs
          /\ b.links = Append(a.links, link)
      BY <1>1, <3>3 DEF Accumulators
    <3> HIDE DEF b
    <3>5. Covered(b)
      <4> SUFFICES ASSUME NEW i \in 1 .. Len(b.links)
                   PROVE  b.links[i].start < b.links[i].end /\ b.links[i].end <= Len(a.text)
        BY <3>4 DEF Covered
      <4>1. i = Len(a.links) + 1 \/ i \in 1 .. Len(a.links)
        BY <3>3, <3>4
      <4>2. Covered(a)
        BY DEF Sound
      <4> QED
        BY <1>2, <3>1, <3>3, <3>4, <4>1, <4>2 DEF Covered
    <3>6. Partitioned(b) /\ Longest(b)
      BY <3>4 DEF Sound, Partitioned, Longest
    <3>7. Trimmed(b)
      BY <3>4 DEF Sound, Trimmed
    <3> QED
      BY <3>2, <3>4, <3>5, <3>6, <3>7 DEF Sound
  <2> QED
    BY <1>2, <2>1, <2>2
<1> QED
  BY <1>3, <1>4, <1>5, <1>6, <1>7

-----------------------------------------------------------------------------
(* Collecting *)

InlineInv == Sound(acc) /\ open \in Seq(Nat)

LEMMA InlineNextPreserves ==
  ASSUME InlineInv, [InlineNext]_inlineVars
  PROVE  InlineInv'
<1> USE DEF InlineInv
<1>1. ASSUME NEW next, Sound(next), Collect(next) PROVE InlineInv'
  BY <1>1 DEF Collect
<1>2. ASSUME OpenLink PROVE InlineInv'
  <2>1. acc' = Flush(acc) /\ open' = Append(open, Len(acc'.text))
    BY <1>2 DEF OpenLink, StartLink
  <2>2. Sound(acc') /\ Len(acc'.text) \in Nat
    BY <2>1, FlushSound
  <2>3. Append(open, Len(acc'.text)) \in Seq(Nat)
    BY <2>2, AppendProperties
  <2> QED
    BY <2>1, <2>2, <2>3
<1>3. ASSUME CloseLink("href") PROVE InlineInv'
  <2>1. open # <<>> /\ acc' = EndLink(acc, open[Len(open)], "href")
        /\ open' = SubSeq(open, 1, Len(open) - 1)
    BY <1>3 DEF CloseLink
  <2>2. Len(open) \in 1 .. Len(open) /\ open[Len(open)] \in Nat
    BY <2>1
  <2>3. SubSeq(open, 1, Len(open) - 1) \in Seq(Nat)
    BY <2>2, SubSeqProperties
  <2>4. Sound(EndLink(acc, open[Len(open)], "href"))
    BY <2>2, OperationsSound
  <2> QED
    BY <2>1, <2>3, <2>4
<1>4. ASSUME UNCHANGED inlineVars PROVE InlineInv'
  BY <1>4 DEF inlineVars
<1>5. ASSUME NEW origin \in Origins,
             \/ Collect(CollapseSpace(acc, origin))
             \/ Collect(AppendBreak(acc, origin))
             \/ \E letter \in Letters : Collect(AppendLetter(acc, letter, origin))
      PROVE  InlineInv'
  BY <1>1, <1>5, OperationsSound
<1>6. ASSUME Collect(AddAnchor(acc, "id")) PROVE InlineInv'
  BY <1>1, <1>6, OperationsSound
<1> QED
  BY <1>2, <1>3, <1>4, <1>5, <1>6 DEF InlineNext

\* An anchor that is noted past the end is moved to it.
LEMMA MarksOfSound ==
  ASSUME Sound(acc)
  PROVE  MarksInText
<1>1. acc \in Accumulators /\ Covered(acc)
  BY DEF Sound
<1>2. /\ acc.anchors \in Seq(Anchors) /\ acc.links \in Seq(Links) /\ Len(acc.text) \in Nat
      /\ DOMAIN acc.anchors = 1 .. Len(acc.anchors) /\ DOMAIN acc.links = 1 .. Len(acc.links)
  BY <1>1 DEF Accumulators
<1>3. ASSUME NEW i \in DOMAIN acc.anchors
      PROVE  Finished(acc).anchors[i].offset \in 0 .. Len(acc.text)
  <2>1. acc.anchors[i] \in Anchors
    BY <1>2
  <2>2. Finished(acc).anchors[i] =
          IF acc.anchors[i].offset > Len(acc.text)
          THEN [acc.anchors[i] EXCEPT !.offset = Len(acc.text)] ELSE acc.anchors[i]
    BY <1>1 DEF Finished, Accumulators
  <2> QED
    BY <1>2, <2>1, <2>2 DEF Anchors
<1>4. ASSUME NEW i \in DOMAIN acc.links
      PROVE  /\ 0 <= acc.links[i].start /\ acc.links[i].start < acc.links[i].end
             /\ acc.links[i].end <= Len(acc.text)
  <2>1. acc.links[i] \in Links
    BY <1>2
  <2> QED
    BY <1>1, <1>2, <2>1 DEF Covered, Links
<1> QED
  BY <1>3, <1>4 DEF MarksInText

(* Whatever markup a block is collected from, its style runs partition its   *)
(* text and could not be longer, its links and anchors lie in it, and no     *)
(* line of it begins with white space (InlineAccumulator in epub.rs).        *)
THEOREM InlineTextSound == InlineSpec => []InlineSound
<1>1. InlineInit => InlineInv
  BY EmptySound, EmptySeq DEF InlineInit, InlineInv
<1>2. ASSUME InlineInv PROVE InlineSound
  <2>1. /\ acc \in Accumulators /\ Partitioned(acc) /\ Longest(acc) /\ Trimmed(acc)
    BY <1>2 DEF InlineInv, Sound
  <2>2. /\ DOMAIN acc.runs = 1 .. Len(acc.runs)
        /\ DOMAIN acc.text = 1 .. Len(acc.text)
    BY <2>1 DEF Accumulators
  <2>3. RunsPartitionText
    BY <2>1, <2>2 DEF RunsPartitionText, Partitioned
  <2>4. RunsDiffer
    BY <2>1 DEF RunsDiffer, Longest
  <2>5. LinesStartWithText
    BY <2>1, <2>2 DEF LinesStartWithText, Trimmed
  <2> QED
    BY <1>2, <2>3, <2>4, <2>5, MarksOfSound DEF InlineInv, InlineSound
<1> QED
  BY <1>1, <1>2, InlineNextPreserves, PTL DEF InlineSpec

-----------------------------------------------------------------------------
(* The steps of an opening *)

\* What a mode has made when a step ends, and that only if the last one did not fail.
Made1(m) == AfterIndex(m, Unopened)
Made2(m) == AfterContainer(m, Made1(m))
Made3(m) == AfterPackage(m, Made2(m))
Made4(m) == AfterNavigation(m, Made3(m))
Made5(m) == AfterResources(m, Made4(m))

Warnings == {"rootfiles", "container", "nav", "ncx"}
Parts == {"phase", "rootfiles", "package", "navigation", "diagnostics", "reads", "samples"}

Shaped(o) == DOMAIN o = Parts /\ o.diagnostics \in Seq(Warnings)

LEMMA ModeNames == Range(CompatibilityModes) = {"Strict", "Compatible", "Salvage"}
<1>1. DOMAIN CompatibilityModes = 1 .. 3 /\ CompatibilityModes[1] = "Strict"
      /\ CompatibilityModes[2] = "Compatible" /\ CompatibilityModes[3] = "Salvage"
  BY DEF CompatibilityModes
<1>2. 1 .. 3 = {1, 2, 3}
  OBVIOUS
<1> QED
  BY <1>1, <1>2 DEF Range

\* Diagnostics are only added.
LEMMA Joined ==
  ASSUME NEW s \in Seq(Warnings), NEW w \in Seq(Warnings)
  PROVE  s \o w \in Seq(Warnings) /\ (s \o w = <<>> => s = <<>> /\ w = <<>>)
<1>1. s \o w \in Seq(Warnings) /\ Len(s \o w) = Len(s) + Len(w)
  BY ConcatProperties
<1>2. Len(s) \in Nat /\ Len(w) \in Nat
  BY LenProperties
<1>3. ASSUME s \o w = <<>> PROVE Len(s) = 0 /\ Len(w) = 0
  <2>1. Len(s \o w) = 0
    BY <1>1, <1>3, EmptySeq
  <2> QED
    BY <1>1, <1>2, <2>1
<1> QED
  BY <1>1, <1>3, EmptySeq

LEMMA Noted ==
  ASSUME NEW s \in Seq(Warnings), NEW w \in Warnings
  PROVE  Append(s, w) \in Seq(Warnings) /\ Append(s, w) # <<>>
  BY AppendProperties

LEMMA AfterIndexShape ==
  ASSUME NEW m, NEW o, Shaped(o)
  PROVE  /\ Shaped(AfterIndex(m, o)) /\ AfterIndex(m, o).phase \in {"container", "refused"}
         /\ AfterIndex(m, o).diagnostics = o.diagnostics
BY DEF AfterIndex, Shaped, Parts, GivenUp

LEMMA AfterContainerShape ==
  ASSUME NEW m, NEW o, Shaped(o)
  PROVE  /\ Shaped(AfterContainer(m, o)) /\ AfterContainer(m, o).phase \in {"package", "refused"}
         /\ AfterContainer(m, o).diagnostics = <<>> => o.diagnostics = <<>>
<1>1. /\ Append(o.diagnostics, "rootfiles") \in Seq(Warnings) /\ Append(o.diagnostics, "rootfiles") # <<>>
      /\ Append(o.diagnostics, "container") \in Seq(Warnings) /\ Append(o.diagnostics, "container") # <<>>
  BY Noted DEF Shaped, Warnings
<1>2. ASSUME NEW rootfiles, NEW reads, NEW d \in Seq(Warnings), d = <<>> => o.diagnostics = <<>>
      PROVE  LET f == [o EXCEPT !.phase = "package", !.rootfiles = rootfiles, !.reads = reads, !.diagnostics = d] IN
             Shaped(f) /\ f.phase \in {"package", "refused"} /\ (f.diagnostics = <<>> => o.diagnostics = <<>>)
  BY <1>2 DEF Shaped, Parts
<1>3. ASSUME NEW d \in Seq(Warnings), d # <<>>
      PROVE  LET f == [o EXCEPT !.phase = "package", !.diagnostics = d] IN
             Shaped(f) /\ f.phase \in {"package", "refused"} /\ (f.diagnostics = <<>> => o.diagnostics = <<>>)
  BY <1>3 DEF Shaped, Parts
<1>4. LET f == GivenUp(o) IN
      Shaped(f) /\ f.phase \in {"package", "refused"} /\ (f.diagnostics = <<>> => o.diagnostics = <<>>)
  BY DEF Shaped, Parts, GivenUp
<1>5. o.diagnostics \in Seq(Warnings)
  BY DEF Shaped
<1>6. CASE CanParseContainer(m)
  <2> DEFINE rootfiles == Content(m, ContainerPath).rootfiles
             several == Len(rootfiles) > 1
             d == IF several THEN Append(o.diagnostics, "rootfiles") ELSE o.diagnostics
             reads == NotedRead(m, o, ContainerPath)
             made == [o EXCEPT !.phase = "package", !.rootfiles = rootfiles, !.reads = reads, !.diagnostics = d]
  <2>1. d \in Seq(Warnings) /\ (d = <<>> => o.diagnostics = <<>>)
    BY <1>1, <1>5
  <2>2. AfterContainer(m, o) = IF several /\ Full(o) THEN GivenUp(o) ELSE made
    BY <1>6 DEF AfterContainer
  <2> HIDE DEF d, rootfiles, reads, several
  <2>3. Shaped(made) /\ made.phase \in {"package", "refused"} /\ (made.diagnostics = <<>> => o.diagnostics = <<>>)
    BY <1>2, <2>1
  <2> HIDE DEF made
  <2> QED
    BY <1>4, <2>2, <2>3
<1>7. CASE ~CanParseContainer(m)
  BY <1>1, <1>3, <1>4, <1>7 DEF AfterContainer
<1> QED
  BY <1>6, <1>7

LEMMA AfterPackageShape ==
  ASSUME NEW m, NEW o, Shaped(o)
  PROVE  /\ Shaped(AfterPackage(m, o)) /\ AfterPackage(m, o).phase \in {"navigation", "refused"}
         /\ AfterPackage(m, o).diagnostics = o.diagnostics
BY DEF AfterPackage, Shaped, Parts, GivenUp

LEMMA AfterResourcesShape ==
  ASSUME NEW m, NEW o, Shaped(o)
  PROVE  /\ Shaped(AfterResources(m, o)) /\ AfterResources(m, o).phase \in {"open", "refused"}
         /\ AfterResources(m, o).diagnostics = o.diagnostics
BY DEF AfterResources, Shaped, Parts, GivenUp

Lost(m, o) == IF NavItem(o.package) = Absent \/ CanReadPath(m, NavItem(o.package).path)
              THEN <<>> ELSE <<"nav">>
LostNcx(m, o) == IF NcxItem(o.package) = Absent \/ CanReadPath(m, NcxItem(o.package).path)
                 THEN <<>> ELSE <<"ncx">>

LEMMA WarningShape ==
  ASSUME NEW m, NEW o
  PROVE  Lost(m, o) \in Seq(Warnings) /\ LostNcx(m, o) \in Seq(Warnings)
         /\ Lost(m, o) \o LostNcx(m, o) \in Seq(Warnings)
         /\ (Lost(m, o) \o LostNcx(m, o) = <<>> => Lost(m, o) = <<>> /\ LostNcx(m, o) = <<>>)
<1>1. Lost(m, o) \in Seq(Warnings) /\ LostNcx(m, o) \in Seq(Warnings)
  <2>1. <<>> \in Seq(Warnings) /\ <<"nav">> \in Seq(Warnings) /\ <<"ncx">> \in Seq(Warnings)
    BY DEF Warnings
  <2> QED
    BY <2>1 DEF Lost, LostNcx
<1> QED
  BY <1>1, Joined

LEMMA AfterNavigationShape ==
  ASSUME NEW m, NEW o, Shaped(o)
  PROVE  /\ Shaped(AfterNavigation(m, o)) /\ AfterNavigation(m, o).phase \in {"resources", "refused"}
         /\ AfterNavigation(m, o).diagnostics = <<>> => o.diagnostics = <<>>
<1>1. /\ o.diagnostics \o <<>> \in Seq(Warnings)
      /\ o.diagnostics \o Lost(m, o) \in Seq(Warnings)
      /\ o.diagnostics \o (Lost(m, o) \o LostNcx(m, o)) \in Seq(Warnings)
      /\ o.diagnostics \o <<>> = <<>> => o.diagnostics = <<>>
      /\ o.diagnostics \o Lost(m, o) = <<>> => o.diagnostics = <<>>
      /\ o.diagnostics \o (Lost(m, o) \o LostNcx(m, o)) = <<>> => o.diagnostics = <<>>
  BY WarningShape, Joined, EmptySeq DEF Shaped
<1>2. ASSUME NEW reads, NEW navigation, NEW d \in Seq(Warnings), d = <<>> => o.diagnostics = <<>>
      PROVE  LET f == [o EXCEPT !.phase = "resources", !.navigation = navigation, !.reads = reads, !.diagnostics = d]
             IN  Shaped(f) /\ f.phase \in {"resources", "refused"} /\ (f.diagnostics = <<>> => o.diagnostics = <<>>)
  BY <1>2 DEF Shaped, Parts
<1>3. ASSUME NEW navigation, NEW d \in Seq(Warnings), d = <<>> => o.diagnostics = <<>>
      PROVE  LET f == [o EXCEPT !.phase = "resources", !.navigation = navigation, !.diagnostics = d]
             IN  Shaped(f) /\ f.phase \in {"resources", "refused"} /\ (f.diagnostics = <<>> => o.diagnostics = <<>>)
  BY <1>3 DEF Shaped, Parts
<1>4. LET f == GivenUp(o) IN
      Shaped(f) /\ f.phase \in {"resources", "refused"} /\ (f.diagnostics = <<>> => o.diagnostics = <<>>)
  BY DEF Shaped, Parts, GivenUp
<1>5. ASSUME NEW item, NEW navigation, NEW warnings, o.diagnostics \o warnings \in Seq(Warnings),
             o.diagnostics \o warnings = <<>> => o.diagnostics = <<>>
      PROVE  LET f == Found(m, o, item, navigation, warnings) IN
             Shaped(f) /\ f.phase \in {"resources", "refused"} /\ (f.diagnostics = <<>> => o.diagnostics = <<>>)
  BY <1>2, <1>4, <1>5 DEF Found
<1> DEFINE nav == NavItem(o.package)
           ncx == NcxItem(o.package)
           lost == Lost(m, o)
           both == lost \o LostNcx(m, o)
           made == AfterNavigation(m, o)
           last == [o EXCEPT !.phase = "resources", !.navigation = Fallback(o.package), !.diagnostics = @ \o both]
<1>6. \/ made = GivenUp(o) \/ made = last
      \/ made = Found(m, o, nav, NavOf(Content(m, nav.path)), <<>>)
      \/ made = Found(m, o, ncx, NcxOf(Content(m, ncx.path)), lost)
  BY DEF AfterNavigation, Lost, LostNcx
<1> DEFINE Good(f) == /\ Shaped(f) /\ f.phase \in {"resources", "refused"}
                      /\ f.diagnostics = <<>> => o.diagnostics = <<>>
<1>7. Good(last)
  BY <1>1, <1>3
<1>8. /\ Good(Found(m, o, nav, NavOf(Content(m, nav.path)), <<>>))
      /\ Good(Found(m, o, ncx, NcxOf(Content(m, ncx.path)), lost))
  BY <1>1, <1>5
<1>9. Good(GivenUp(o))
  BY <1>4
<1> HIDE DEF Good, nav, ncx, lost, both, last, made
<1>10. Good(made)
  BY <1>6, <1>7, <1>8, <1>9
<1> QED
  BY <1>10 DEF Good, made

\* The archive stays what it is, so a step makes at any time the same.
LEMMA IndexKept ==
  ASSUME NEW m, NEW o, UNCHANGED archive
  PROVE  AfterIndex(m, o)' = AfterIndex(m, o)
BY DEF AfterIndex, Indexed, Files, Entries, EntryAt, CanReadPath, Content, NotedRead, GivenUp

LEMMA ContainerKept ==
  ASSUME NEW m, NEW o, UNCHANGED archive
  PROVE  AfterContainer(m, o)' = AfterContainer(m, o)
BY DEF AfterContainer, CanParseContainer, Files, Entries, EntryAt, CanReadPath, Content, NotedRead, GivenUp, ContainerPath

LEMMA PackageKept ==
  ASSUME NEW m, NEW o, UNCHANGED archive
  PROVE  AfterPackage(m, o)' = AfterPackage(m, o)
BY DEF AfterPackage, Files, Entries, EntryAt, CanReadPath, Content, NotedRead, GivenUp

LEMMA NavigationKept ==
  ASSUME NEW m, NEW o, UNCHANGED archive
  PROVE  AfterNavigation(m, o)' = AfterNavigation(m, o)
BY DEF AfterNavigation, Found, Textual, Files, Entries, EntryAt, CanReadPath, Content, NotedRead, GivenUp

LEMMA ResourcesKept ==
  ASSUME NEW m, NEW o, UNCHANGED archive
  PROVE  AfterResources(m, o)' = AfterResources(m, o)
BY DEF AfterResources, Sampled, Files, Entries, GivenUp

-----------------------------------------------------------------------------
(* The modes side by side *)

\* What is read alike in both modes is made alike.
LEMMA LooseReads ==
  ASSUME NEW path
  PROVE  /\ CanReadPath("Compatible", path) = CanReadPath("Salvage", path)
         /\ Content("Compatible", path) = Content("Salvage", path)
         /\ Textual("Compatible", path) = Textual("Salvage", path)
         /\ \A o : NotedRead("Compatible", o, path) = NotedRead("Salvage", o, path)
<1>1. Resolve(Entries, path, "Compatible") = Resolve(Entries, path, "Salvage")
  BY DEF Resolve
<1> QED
  BY <1>1 DEF CanReadPath, Content, Textual, NotedRead

LEMMA StrictReads ==
  ASSUME NEW path, CanReadPath("Strict", path)
  PROVE  /\ CanReadPath("Compatible", path)
         /\ Content("Compatible", path) = Content("Strict", path)
         /\ Textual("Compatible", path) = Textual("Strict", path)
         /\ \A o : NotedRead("Compatible", o, path) = NotedRead("Strict", o, path)
<1>1. Resolve(Entries, path, "Strict") # Absent
  BY DEF CanReadPath
<1>2. Resolve(Entries, path, "Compatible") = Resolve(Entries, path, "Strict")
  BY <1>1 DEF Resolve
<1> QED
  BY <1>2 DEF CanReadPath, Content, Textual, NotedRead

\* What a container that is good makes.
WithContainer(o, rootfiles, reads) ==
  IF Len(rootfiles) > 1 /\ Full(o) THEN GivenUp(o)
  ELSE [o EXCEPT !.phase = "package", !.rootfiles = rootfiles, !.reads = reads,
                 !.diagnostics = IF Len(rootfiles) > 1 THEN Append(@, "rootfiles") ELSE @]

LEMMA GoodContainer ==
  ASSUME NEW m, NEW o, CanParseContainer(m)
  PROVE  AfterContainer(m, o)
           = WithContainer(o, Content(m, ContainerPath).rootfiles, NotedRead(m, o, ContainerPath))
  BY DEF AfterContainer, WithContainer

LEMMA LooseSteps ==
  ASSUME NEW o
  PROVE  /\ AfterIndex("Salvage", o) = AfterIndex("Compatible", o)
         /\ CanParseContainer("Compatible") => AfterContainer("Salvage", o) = AfterContainer("Compatible", o)
         /\ AfterPackage("Salvage", o) = AfterPackage("Compatible", o)
         /\ AfterNavigation("Salvage", o) = AfterNavigation("Compatible", o)
         /\ AfterResources("Salvage", o) = AfterResources("Compatible", o)
<1>1. Indexed("Salvage") = Indexed("Compatible")
  BY DEF Indexed
<1>2. AfterIndex("Salvage", o) = AfterIndex("Compatible", o)
  BY <1>1 DEF AfterIndex
<1>3. CanParseContainer("Compatible") = CanParseContainer("Salvage")
  BY LooseReads DEF CanParseContainer
<1>4. CanParseContainer("Compatible") => AfterContainer("Salvage", o) = AfterContainer("Compatible", o)
  BY <1>3, LooseReads, GoodContainer
<1>5. AfterPackage("Salvage", o) = AfterPackage("Compatible", o)
  <2>1. Rootfile("Salvage", o.rootfiles) = Rootfile("Compatible", o.rootfiles)
    BY DEF Rootfile
  <2> QED
    BY <2>1, LooseReads DEF AfterPackage
<1>6. AfterNavigation("Salvage", o) = AfterNavigation("Compatible", o)
  <2>1. ASSUME NEW item, NEW navigation, NEW warnings
        PROVE  Found("Salvage", o, item, navigation, warnings) = Found("Compatible", o, item, navigation, warnings)
    BY LooseReads DEF Found
  <2> QED
    BY <2>1, LooseReads DEF AfterNavigation
<1>7. AfterResources("Salvage", o) = AfterResources("Compatible", o)
  BY DEF AfterResources
<1> QED
  BY <1>2, <1>4, <1>5, <1>6, <1>7

LEMMA StrictIndex ==
  ASSUME NEW o, Shaped(o), AfterIndex("Strict", o).phase = "container"
  PROVE  AfterIndex("Compatible", o) = AfterIndex("Strict", o)
<1>1. Indexed("Strict")
  BY DEF AfterIndex, GivenUp, Shaped, Parts
<1>2. Indexed("Compatible")
  BY <1>1 DEF Indexed
<1> QED
  BY <1>1, <1>2 DEF AfterIndex

LEMMA StrictContainer ==
  ASSUME NEW o, Shaped(o), AfterContainer("Strict", o).phase = "package"
  PROVE  AfterContainer("Compatible", o) = AfterContainer("Strict", o)
<1>1. CanParseContainer("Strict")
  BY DEF AfterContainer, GivenUp, Shaped, Parts
<1>2. CanReadPath("Strict", ContainerPath)
  BY <1>1 DEF CanParseContainer
<1>3. CanParseContainer("Compatible")
  BY <1>1, <1>2, StrictReads DEF CanParseContainer
<1> QED
  BY <1>1, <1>2, <1>3, StrictReads, GoodContainer

LEMMA StrictPackage ==
  ASSUME NEW o, Shaped(o), AfterPackage("Strict", o).phase = "navigation"
  PROVE  AfterPackage("Compatible", o) = AfterPackage("Strict", o)
<1> DEFINE path == Rootfile("Strict", o.rootfiles)
<1>1. path # Absent /\ CanReadPath("Strict", path)
  BY DEF AfterPackage, GivenUp, Shaped, Parts
<1>2. Rootfile("Compatible", o.rootfiles) = path
  BY <1>1 DEF Rootfile
<1> HIDE DEF path
<1> QED
  BY <1>1, <1>2, StrictReads DEF AfterPackage, path

LEMMA StrictNavigation ==
  ASSUME NEW o, Shaped(o), AfterNavigation("Strict", o).phase = "resources",
         AfterNavigation("Strict", o).diagnostics = <<>>
  PROVE  AfterNavigation("Compatible", o) = AfterNavigation("Strict", o)
<1> DEFINE package == o.package
           nav == NavItem(package)
           ncx == NcxItem(package)
<1>1. ASSUME NEW m
      PROVE  LET lost == Lost(m, o) both == lost \o LostNcx(m, o) IN
             AfterNavigation(m, o) =
               IF lost # <<>> /\ Len(o.diagnostics) + Len(lost) > MaxDiagnostics THEN GivenUp(o)
               ELSE IF nav # Absent /\ lost = <<>> THEN Found(m, o, nav, NavOf(Content(m, nav.path)), <<>>)
               ELSE IF both # <<>> /\ Len(o.diagnostics) + Len(both) > MaxDiagnostics THEN GivenUp(o)
               ELSE IF ncx # Absent /\ both = lost THEN Found(m, o, ncx, NcxOf(Content(m, ncx.path)), lost)
               ELSE [o EXCEPT !.phase = "resources", !.navigation = Fallback(package), !.diagnostics = @ \o both]
  BY DEF AfterNavigation, Lost, LostNcx
<1> HIDE DEF package, nav, ncx
<1>2. GivenUp(o).phase # "resources"
  BY DEF GivenUp, Shaped, Parts
<1>3. ASSUME NEW item, NEW navigation, NEW warnings \in Seq(Warnings), NEW m,
             Found(m, o, item, navigation, warnings).phase = "resources",
             Found(m, o, item, navigation, warnings).diagnostics = <<>>
      PROVE  warnings = <<>>
  <2> DEFINE d == o.diagnostics \o warnings
  <2>1. d = <<>> => warnings = <<>>
    BY Joined DEF Shaped
  <2> HIDE DEF d
  <2>2. Found(m, o, item, navigation, warnings).diagnostics = d
    BY <1>2, <1>3 DEF Found, Shaped, Parts, d
  <2> QED
    BY <1>3, <2>1, <2>2
<1>4. ASSUME NEW navigation, NEW warnings \in Seq(Warnings),
             [o EXCEPT !.phase = "resources", !.navigation = navigation, !.diagnostics = @ \o warnings].diagnostics = <<>>
      PROVE  warnings = <<>>
  <2> DEFINE d == o.diagnostics \o warnings
  <2>1. d = <<>> => warnings = <<>>
    BY Joined DEF Shaped
  <2> HIDE DEF d
  <2>2. [o EXCEPT !.phase = "resources", !.navigation = navigation, !.diagnostics = d].diagnostics = d
    BY DEF Shaped, Parts
  <2> QED
    BY <1>4, <2>1, <2>2 DEF d
<1>5. Lost("Strict", o) = <<>>
  <2> DEFINE lost == Lost("Strict", o)
             both == lost \o LostNcx("Strict", o)
             last == [o EXCEPT !.phase = "resources", !.navigation = Fallback(package), !.diagnostics = @ \o both]
             found == Found("Strict", o, ncx, NcxOf(Content("Strict", ncx.path)), lost)
             made == AfterNavigation("Strict", o)
  <2>1. lost \in Seq(Warnings) /\ both \in Seq(Warnings) /\ (both = <<>> => lost = <<>>)
    BY WarningShape
  <2>2. made.phase = "resources" /\ made.diagnostics = <<>>
    OBVIOUS
  <2>3. found.phase = "resources" /\ found.diagnostics = <<>> => lost = <<>>
    BY <1>3, <2>1
  <2>4. last.diagnostics = <<>> => both = <<>>
    BY <1>4, <2>1
  <2>5. lost = <<>> \/ made = GivenUp(o) \/ made = found \/ made = last
    BY <1>1
  <2> HIDE DEF lost, both, last, found, made
  <2>6. lost = <<>>
    BY <1>2, <2>1, <2>2, <2>3, <2>4, <2>5
  <2> QED
    BY <2>6 DEF lost
<1>6. nav = Absent \/ CanReadPath("Strict", nav.path)
  BY <1>5 DEF Lost, nav, package
<1>7. Lost("Compatible", o) = <<>>
  BY <1>6, StrictReads DEF Lost, nav, package
<1>8. CASE nav # Absent
  <2>1. AfterNavigation("Strict", o) = Found("Strict", o, nav, NavOf(Content("Strict", nav.path)), <<>>)
    BY <1>1, <1>5, <1>8
  <2>2. AfterNavigation("Compatible", o) = Found("Compatible", o, nav, NavOf(Content("Compatible", nav.path)), <<>>)
    BY <1>1, <1>7, <1>8
  <2>3. Content("Compatible", nav.path) = Content("Strict", nav.path)
        /\ Found("Compatible", o, nav, NavOf(Content("Strict", nav.path)), <<>>)
             = Found("Strict", o, nav, NavOf(Content("Strict", nav.path)), <<>>)
    BY <1>6, <1>8, StrictReads DEF Found
  <2> QED
    BY <2>1, <2>2, <2>3
<1>9. CASE nav = Absent
  <2>1. <<>> \o LostNcx("Strict", o) = <<>>
    <3> DEFINE both == <<>> \o LostNcx("Strict", o)
               last == [o EXCEPT !.phase = "resources", !.navigation = Fallback(package), !.diagnostics = @ \o both]
               made == AfterNavigation("Strict", o)
    <3>1. both \in Seq(Warnings)
      BY <1>5, WarningShape
    <3>2. last.diagnostics = <<>> => both = <<>>
      BY <1>4, <3>1
    <3>3. both = <<>> \/ made = GivenUp(o) \/ made = last
      BY <1>1, <1>5, <1>9
    <3>4. made.phase = "resources" /\ made.diagnostics = <<>>
      OBVIOUS
    <3> HIDE DEF both, last, made
    <3>5. both = <<>>
      BY <1>2, <3>2, <3>3, <3>4
    <3> QED
      BY <3>5 DEF both
  <2>2. LostNcx("Strict", o) = <<>>
    BY <1>5, <2>1, WarningShape
  <2>3. ncx = Absent \/ CanReadPath("Strict", ncx.path)
    BY <2>2 DEF LostNcx, ncx, package
  <2>4. LostNcx("Compatible", o) = <<>>
    BY <2>3, StrictReads DEF LostNcx, ncx, package
  <2>5. CASE ncx # Absent
    <3>1. AfterNavigation("Strict", o) = Found("Strict", o, ncx, NcxOf(Content("Strict", ncx.path)), <<>>)
      BY <1>1, <1>5, <1>9, <2>1, <2>2, <2>5
    <3>2. AfterNavigation("Compatible", o) = Found("Compatible", o, ncx, NcxOf(Content("Compatible", ncx.path)), <<>>)
      BY <1>1, <1>7, <1>9, <2>1, <2>2, <2>4, <2>5
    <3>3. Content("Compatible", ncx.path) = Content("Strict", ncx.path)
          /\ Found("Compatible", o, ncx, NcxOf(Content("Strict", ncx.path)), <<>>)
               = Found("Strict", o, ncx, NcxOf(Content("Strict", ncx.path)), <<>>)
      BY <2>3, <2>5, StrictReads DEF Found
    <3> QED
      BY <3>1, <3>2, <3>3
  <2>6. CASE ncx = Absent
    BY <1>1, <1>5, <1>7, <1>9, <2>1, <2>2, <2>4, <2>6
  <2> QED
    BY <2>5, <2>6
<1> QED
  BY <1>8, <1>9

-----------------------------------------------------------------------------
(* What a mode has made *)

\* The steps of an opening, one after the other.
Steps(m, a, b, c, d, e) ==
  /\ a = AfterIndex(m, Unopened)
  /\ b = AfterContainer(m, a)
  /\ c = AfterPackage(m, b)
  /\ d = AfterNavigation(m, c)
  /\ e = AfterResources(m, d)

\* A mode has made what one of them makes, the ones before which have not failed.
Has(m, a, b, c, d, e) ==
  \/ opening[m] = Unopened
  \/ opening[m] = a
  \/ a.phase = "container" /\ opening[m] = b
  \/ a.phase = "container" /\ b.phase = "package" /\ opening[m] = c
  \/ a.phase = "container" /\ b.phase = "package" /\ c.phase = "navigation" /\ opening[m] = d
  \/ a.phase = "container" /\ b.phase = "package" /\ c.phase = "navigation" /\ d.phase = "resources"
       /\ opening[m] = e

SoFar(m) == \E a, b, c, d, e : Steps(m, a, b, c, d, e) /\ Has(m, a, b, c, d, e)

OpeningInv ==
  /\ archive \in Archives
  /\ DOMAIN opening = Range(CompatibilityModes)
  /\ \A m \in Range(CompatibilityModes) : SoFar(m)

LEMMA UnopenedShape ==
  /\ Shaped(Unopened) /\ Unopened.phase = "index" /\ Unopened.diagnostics = <<>>
  /\ Unopened.reads = <<>> /\ DOMAIN Unopened.samples = {}
<1>1. <<>> \in Seq(Warnings) /\ DOMAIN <<>> = {}
  BY EmptySeq
<1> QED
  BY <1>1 DEF Unopened, Shaped, Parts

LEMMA StepsShape ==
  ASSUME NEW m, NEW a, NEW b, NEW c, NEW d, NEW e, Steps(m, a, b, c, d, e)
  PROVE  /\ Shaped(a) /\ a.phase \in {"container", "refused"} /\ a.diagnostics = <<>>
         /\ Shaped(b) /\ b.phase \in {"package", "refused"}
         /\ Shaped(c) /\ c.phase \in {"navigation", "refused"} /\ c.diagnostics = b.diagnostics
         /\ Shaped(d) /\ d.phase \in {"resources", "refused"} /\ (d.diagnostics = <<>> => c.diagnostics = <<>>)
         /\ Shaped(e) /\ e.phase \in {"open", "refused"} /\ e.diagnostics = d.diagnostics
<1>1. a = AfterIndex(m, Unopened) /\ b = AfterContainer(m, a) /\ c = AfterPackage(m, b)
      /\ d = AfterNavigation(m, c) /\ e = AfterResources(m, d)
  BY DEF Steps
<1>2. Shaped(a) /\ a.phase \in {"container", "refused"} /\ a.diagnostics = <<>>
  BY <1>1, UnopenedShape, AfterIndexShape
<1>3. Shaped(b) /\ b.phase \in {"package", "refused"}
  BY <1>1, <1>2, AfterContainerShape
<1>4. Shaped(c) /\ c.phase \in {"navigation", "refused"} /\ c.diagnostics = b.diagnostics
  BY <1>1, <1>3, AfterPackageShape
<1>5. Shaped(d) /\ d.phase \in {"resources", "refused"} /\ (d.diagnostics = <<>> => c.diagnostics = <<>>)
  BY <1>1, <1>4, AfterNavigationShape
<1>6. Shaped(e) /\ e.phase \in {"open", "refused"} /\ e.diagnostics = d.diagnostics
  BY <1>1, <1>5, AfterResourcesShape
<1> QED
  BY <1>2, <1>3, <1>4, <1>5, <1>6

LEMMA StepsKept ==
  ASSUME NEW m, NEW a, NEW b, NEW c, NEW d, NEW e, UNCHANGED archive, Steps(m, a, b, c, d, e)
  PROVE  Steps(m, a, b, c, d, e)'
BY IndexKept, ContainerKept, PackageKept, NavigationKept, ResourcesKept DEF Steps

\* A step goes on from what was made.
LEMMA StepSoFar ==
  ASSUME NEW m, NEW n, SoFar(m), m \in DOMAIN opening,
         Index(n) \/ Container(n) \/ OpenPackage(n) \/ OpenNavigation(n) \/ Enrich(n)
  PROVE  SoFar(m)'
<1>1. PICK a, b, c, d, e : Steps(m, a, b, c, d, e) /\ Has(m, a, b, c, d, e)
  BY DEF SoFar
<1>2. UNCHANGED archive
  BY DEF Index, Container, OpenPackage, OpenNavigation, Enrich, Does
<1>3. Steps(m, a, b, c, d, e)'
  BY <1>1, <1>2, StepsKept
<1>4. Has(m, a, b, c, d, e)'
  <2>1. CASE n # m
    <3>1. opening'[m] = opening[m]
      BY <2>1 DEF Index, Container, OpenPackage, OpenNavigation, Enrich, Does
    <3> QED
      BY <1>1, <3>1 DEF Has
  <2>2. CASE n = m
    <3>1. /\ Unopened.phase = "index"
          /\ a.phase \in {"container", "refused"} /\ b.phase \in {"package", "refused"}
          /\ c.phase \in {"navigation", "refused"} /\ d.phase \in {"resources", "refused"}
          /\ e.phase \in {"open", "refused"}
      BY <1>1, UnopenedShape, StepsShape
    <3>2. /\ a = AfterIndex(m, Unopened) /\ b = AfterContainer(m, a) /\ c = AfterPackage(m, b)
          /\ d = AfterNavigation(m, c) /\ e = AfterResources(m, d)
      BY <1>1 DEF Steps
    <3>3. CASE Index(m)
      <4>1. opening[m].phase = "index" /\ opening'[m] = AfterIndex(m, opening[m])
        BY <3>3 DEF Index, Does, Turn
      <4>2. opening[m] = Unopened
        BY <1>1, <3>1, <4>1 DEF Has
      <4> QED
        BY <3>2, <4>1, <4>2 DEF Has
    <3>4. CASE Container(m)
      <4>1. opening[m].phase = "container" /\ opening'[m] = AfterContainer(m, opening[m])
        BY <3>4 DEF Container, Does, Turn
      <4>2. opening[m] = a
        BY <1>1, <3>1, <4>1 DEF Has
      <4> QED
        BY <3>2, <4>1, <4>2 DEF Has
    <3>5. CASE OpenPackage(m)
      <4>1. opening[m].phase = "package" /\ opening'[m] = AfterPackage(m, opening[m])
        BY <3>5 DEF OpenPackage, Does, Turn
      <4>2. opening[m] = b /\ a.phase = "container"
        BY <1>1, <3>1, <4>1 DEF Has
      <4> QED
        BY <3>2, <4>1, <4>2 DEF Has
    <3>6. CASE OpenNavigation(m)
      <4>1. opening[m].phase = "navigation" /\ opening'[m] = AfterNavigation(m, opening[m])
        BY <3>6 DEF OpenNavigation, Does, Turn
      <4>2. opening[m] = c /\ a.phase = "container" /\ b.phase = "package"
        BY <1>1, <3>1, <4>1 DEF Has
      <4> QED
        BY <3>2, <4>1, <4>2 DEF Has
    <3>7. CASE Enrich(m)
      <4>1. opening[m].phase = "resources" /\ opening'[m] = AfterResources(m, opening[m])
        BY <3>7 DEF Enrich, Does, Turn
      <4>2. opening[m] = d /\ a.phase = "container" /\ b.phase = "package" /\ c.phase = "navigation"
        BY <1>1, <3>1, <4>1 DEF Has
      <4> QED
        BY <3>2, <4>1, <4>2 DEF Has
    <3> QED
      BY <2>2, <3>3, <3>4, <3>5, <3>6, <3>7
  <2> QED
    BY <2>1, <2>2
<1> QED
  BY <1>3, <1>4 DEF SoFar

LEMMA InitOpening == PublicationInit => OpeningInv
<1> SUFFICES ASSUME PublicationInit PROVE OpeningInv
  OBVIOUS
<1>1. ASSUME NEW m \in Range(CompatibilityModes) PROVE SoFar(m)
  BY <1>1 DEF PublicationInit, SoFar, Has, Steps
<1> QED
  BY <1>1 DEF PublicationInit, OpeningInv

LEMMA NextOpening == OpeningInv /\ [PublicationNext]_publicationVars => OpeningInv'
<1> SUFFICES ASSUME OpeningInv, [PublicationNext]_publicationVars PROVE OpeningInv'
  OBVIOUS
<1>1. CASE UNCHANGED publicationVars
  <2>1. ASSUME NEW m \in Range(CompatibilityModes) PROVE SoFar(m)'
    <3>1. PICK a, b, c, d, e : Steps(m, a, b, c, d, e) /\ Has(m, a, b, c, d, e)
      BY DEF OpeningInv, SoFar
    <3>2. UNCHANGED archive /\ opening' = opening
      BY <1>1 DEF publicationVars
    <3>3. Steps(m, a, b, c, d, e)' /\ Has(m, a, b, c, d, e)'
      BY <3>1, <3>2, StepsKept DEF Has
    <3> QED
      BY <3>3 DEF SoFar
  <2> QED
    BY <1>1, <2>1 DEF OpeningInv, publicationVars, CompatibilityModes
<1>2. CASE PublicationNext
  <2>1. PICK n \in Range(CompatibilityModes) :
          Index(n) \/ Container(n) \/ OpenPackage(n) \/ OpenNavigation(n) \/ Enrich(n)
    BY <1>2 DEF PublicationNext
  <2>2. UNCHANGED archive /\ DOMAIN opening' = DOMAIN opening
    BY <2>1 DEF Index, Container, OpenPackage, OpenNavigation, Enrich, Does
  <2>3. ASSUME NEW m \in Range(CompatibilityModes) PROVE SoFar(m)'
    BY <2>1, StepSoFar DEF OpeningInv
  <2> QED
    BY <2>2, <2>3 DEF OpeningInv, CompatibilityModes
<1> QED
  BY <1>1, <1>2

Passed(a, b, c, d) ==
  a.phase = "container" /\ b.phase = "package" /\ c.phase = "navigation" /\ d.phase = "resources"

\* Who has opened the book has passed every step.
LEMMA OpenedPassed ==
  ASSUME NEW m, NEW a, NEW b, NEW c, NEW d, NEW e, Steps(m, a, b, c, d, e), Has(m, a, b, c, d, e),
         Opened(m)
  PROVE  Passed(a, b, c, d) /\ opening[m] = e
BY UnopenedShape, StepsShape DEF Opened, Has, Passed

\* Who passes every step comes to the same end.
LEMMA PassedSettled ==
  ASSUME NEW m, NEW a, NEW b, NEW c, NEW d, NEW e, Steps(m, a, b, c, d, e), Has(m, a, b, c, d, e),
         Passed(a, b, c, d), Settled(m)
  PROVE  opening[m] = e
BY UnopenedShape DEF Settled, Has, Passed

LEMMA StrictSteps ==
  ASSUME NEW a, NEW b, NEW c, NEW d, NEW e, Steps("Strict", a, b, c, d, e), Passed(a, b, c, d),
         d.diagnostics = <<>>
  PROVE  Steps("Compatible", a, b, c, d, e)
<1>1. /\ a = AfterIndex("Strict", Unopened) /\ b = AfterContainer("Strict", a)
      /\ c = AfterPackage("Strict", b) /\ d = AfterNavigation("Strict", c)
      /\ e = AfterResources("Strict", d)
  BY DEF Steps
<1>2. Shaped(Unopened) /\ Shaped(a) /\ Shaped(b) /\ Shaped(c) /\ Shaped(d)
  BY UnopenedShape, StepsShape
<1>3. a = AfterIndex("Compatible", Unopened)
  BY <1>1, <1>2, StrictIndex DEF Passed
<1>4. b = AfterContainer("Compatible", a)
  BY <1>1, <1>2, StrictContainer DEF Passed
<1>5. c = AfterPackage("Compatible", b)
  BY <1>1, <1>2, StrictPackage DEF Passed
<1>6. d = AfterNavigation("Compatible", c)
  BY <1>1, <1>2, StrictNavigation DEF Passed
<1>7. e = AfterResources("Compatible", d)
  BY <1>1 DEF AfterResources
<1> QED
  BY <1>3, <1>4, <1>5, <1>6, <1>7 DEF Steps

LEMMA LooseAlike ==
  ASSUME NEW a, NEW b, NEW c, NEW d, NEW e, Steps("Compatible", a, b, c, d, e), Passed(a, b, c, d)
  PROVE  Steps("Salvage", a, b, c, d, e)
<1>1. /\ a = AfterIndex("Compatible", Unopened) /\ b = AfterContainer("Compatible", a)
      /\ c = AfterPackage("Compatible", b) /\ d = AfterNavigation("Compatible", c)
      /\ e = AfterResources("Compatible", d)
  BY DEF Steps
<1>2. CanParseContainer("Compatible")
  <2>1. Shaped(a)
    BY StepsShape
  <2> QED
    BY <1>1, <2>1 DEF Passed, AfterContainer, GivenUp, Shaped, Parts
<1> QED
  BY <1>1, <1>2, LooseSteps DEF Steps

LEMMA StepsOnce ==
  ASSUME NEW m, NEW a, NEW b, NEW c, NEW d, NEW e, Steps(m, a, b, c, d, e), SoFar(m)
  PROVE  Has(m, a, b, c, d, e)
BY DEF Steps, SoFar

(* What the modes make of a book, for any archive: strict without a          *)
(* diagnostic makes what compatible makes, and compatible what salvage makes *)
(* (open_book_context and what it calls).                                    *)
THEOREM ModesOpenAlike == PublicationSpec => []ModesAgree
<1>1. OpeningInv => ModesAgree
  <2> SUFFICES ASSUME OpeningInv PROVE ModesAgree
    OBVIOUS
  <2>1. SoFar("Strict") /\ SoFar("Compatible") /\ SoFar("Salvage")
    BY ModeNames DEF OpeningInv
  <2>2. ASSUME Opened("Strict"), opening["Strict"].diagnostics = <<>>, Settled("Compatible")
        PROVE  opening["Compatible"] = opening["Strict"]
    <3>1. PICK a, b, c, d, e : Steps("Strict", a, b, c, d, e) /\ Has("Strict", a, b, c, d, e)
      BY <2>1 DEF SoFar
    <3>2. Passed(a, b, c, d) /\ opening["Strict"] = e
      BY <2>2, <3>1, OpenedPassed
    <3>3. d.diagnostics = <<>>
      BY <2>2, <3>1, <3>2, StepsShape
    <3>4. Steps("Compatible", a, b, c, d, e)
      BY <3>1, <3>2, <3>3, StrictSteps
    <3> QED
      BY <2>1, <2>2, <3>2, <3>4, StepsOnce, PassedSettled
  <2>3. ASSUME Opened("Compatible"), Settled("Salvage")
        PROVE  opening["Salvage"] = opening["Compatible"]
    <3>1. PICK a, b, c, d, e : Steps("Compatible", a, b, c, d, e) /\ Has("Compatible", a, b, c, d, e)
      BY <2>1 DEF SoFar
    <3>2. Passed(a, b, c, d) /\ opening["Compatible"] = e
      BY <2>3, <3>1, OpenedPassed
    <3>3. Steps("Salvage", a, b, c, d, e)
      BY <3>1, <3>2, LooseAlike
    <3> QED
      BY <2>1, <2>3, <3>2, <3>3, StepsOnce, PassedSettled
  <2> QED
    BY <2>2, <2>3 DEF ModesAgree, Told, Opened
<1> QED
  BY <1>1, InitOpening, NextOpening, PTL DEF PublicationSpec

-----------------------------------------------------------------------------
(* What a path finds *)

\* The places of an archive's entries.
LEMMA EntryPlaces ==
  ASSUME archive \in Archives
  PROVE  /\ Len(Entries) \in Nat /\ DOMAIN Entries = 1 .. Len(Entries)
         /\ Files \in SUBSET (1 .. Len(Entries))
         /\ \A i \in Files : /\ Entries[i].declared \in Nat /\ Entries[i].compressed \in Nat
                             /\ Entries[i].actual \in Nat
<1>1. /\ archive.entries \in Seq(Range(archive.entries))
      /\ \A x \in Range(archive.entries) : {x.declared, x.compressed, x.actual} \subseteq Nat
  BY PublicationAssumption
<1>2. Len(Entries) \in Nat /\ DOMAIN Entries = 1 .. Len(Entries)
  <2>1. ASSUME NEW S, NEW s \in Seq(S) PROVE Len(s) \in Nat /\ DOMAIN s = 1 .. Len(s)
    BY LenProperties
  <2> QED
    BY <1>1, <2>1 DEF Entries
<1>3. \A i \in DOMAIN Entries : Entries[i] \in Range(Entries)
  BY DEF Range
<1>4. \A x \in Range(Entries) : x.declared \in Nat /\ x.compressed \in Nat /\ x.actual \in Nat
  BY <1>1 DEF Entries
<1>5. Files \in SUBSET (1 .. Len(Entries))
  BY <1>2 DEF Files, FilesOf
<1> QED
  BY <1>2, <1>3, <1>4, <1>5

\* A path that is found is that of a file.
LEMMA FoundFile ==
  ASSUME archive \in Archives, NEW path, NEW m, Resolve(Entries, path, m) # Absent
  PROVE  \E i \in Files : EntryAt(Resolve(Entries, path, m)) = Entries[i]
<1> DEFINE exact == Spelled(Entries, path)
           folded == Folded(Entries, path)
           found == Resolve(Entries, path, m)
<1>1. /\ Len(Entries) \in Nat /\ exact \in SUBSET (1 .. Len(Entries)) /\ folded \in SUBSET (1 .. Len(Entries))
      /\ exact \in SUBSET Files /\ folded \in SUBSET Files
  BY EntryPlaces DEF Spelled, Folded, Files
<1>2. exact # {} \/ Cardinality(folded) = 1
  BY DEF Resolve
<1>3. exact # {} => Max(exact) \in exact
  BY <1>1, MaxOf
<1>4. Cardinality(folded) = 1 => Max(folded) \in folded
  <2>1. IsFiniteSet(folded)
    <3>1. IsFiniteSet(1 .. Len(Entries))
      BY <1>1, FS_Interval
    <3> HIDE DEF folded
    <3> QED
      BY <1>1, <3>1, FS_Subset
  <2>2. Cardinality(folded) = 1 => folded # {}
    BY <2>1, FS_EmptySet
  <2> QED
    BY <1>1, <2>2, MaxOf
<1>5. \E i \in Files : found = Entries[i].path
  <2>1. CASE exact # {}
    <3>1. found = Entries[Max(exact)].path
      BY <2>1 DEF Resolve
    <3> QED
      BY <1>1, <1>3, <2>1, <3>1
  <2>2. CASE exact = {}
    <3>1. found = Entries[Max(folded)].path /\ Cardinality(folded) = 1
      BY <2>2 DEF Resolve
    <3> QED
      BY <1>1, <1>4, <3>1
  <2> QED
    BY <2>1, <2>2
<1> HIDE DEF found
<1>6. EntryAt(found) \in {Entries[i] : i \in Files}
  BY <1>5 DEF EntryAt
<1> QED
  BY <1>6 DEF found

-----------------------------------------------------------------------------
(* What is read *)

\* What can be read whole of this archive.
Readings == {Reading(Entries[i], Unlimited) : i \in {j \in Files : CanRead(Entries[j], Unlimited)}}

Lean(o, n) ==
  /\ o.reads \in Seq(Readings) /\ Len(o.reads) <= n
  /\ \A i \in DOMAIN o.samples : o.samples[i].size <= HeaderPrefix

LEMMA ReadOfArchive ==
  ASSUME archive \in Archives, NEW path, NEW m, CanReadPath(m, path), NEW o, NEW n \in Nat,
         o.reads \in Seq(Readings), Len(o.reads) <= n
  PROVE  NotedRead(m, o, path) \in Seq(Readings) /\ Len(NotedRead(m, o, path)) <= n + 1
<1> DEFINE e == EntryAt(Resolve(Entries, path, m))
<1>1. Resolve(Entries, path, m) # Absent /\ CanRead(e, Unlimited)
  BY DEF CanReadPath
<1>2. PICK i \in Files : e = Entries[i]
  BY <1>1, FoundFile
<1>3. Reading(e, Unlimited) \in Readings
  BY <1>1, <1>2 DEF Readings
<1>4. NotedRead(m, o, path) = Append(o.reads, Reading(e, Unlimited))
  BY DEF NotedRead
<1> HIDE DEF e
<1>5. PICK r \in Readings : r = Reading(e, Unlimited)
  BY <1>3
<1> QED
  BY <1>4, <1>5, AppendProperties, LenProperties

LEMMA IndexLean ==
  ASSUME archive \in Archives, NEW m, NEW o, Shaped(o), Lean(o, 0)
  PROVE  Lean(AfterIndex(m, o), 1)
<1> DEFINE reads == NotedRead("Strict", o, "mimetype")
           made == [o EXCEPT !.phase = "container", !.reads = reads]
<1>1. CanReadPath("Strict", "mimetype") => reads \in Seq(Readings) /\ Len(reads) <= 1
  BY ReadOfArchive DEF Lean
<1>2. AfterIndex(m, o) = GivenUp(o) \/ (CanReadPath("Strict", "mimetype") /\ AfterIndex(m, o) = made)
  BY DEF AfterIndex
<1> HIDE DEF reads
<1>3. reads \in Seq(Readings) /\ Len(reads) <= 1 => Lean(made, 1)
  BY DEF Lean, Shaped, Parts
<1>4. Lean(GivenUp(o), 1)
  BY LenProperties DEF Lean, Shaped, Parts, GivenUp
<1> HIDE DEF made
<1> QED
  BY <1>1, <1>2, <1>3, <1>4

LEMMA ContainerLean ==
  ASSUME archive \in Archives, NEW m, NEW o, Shaped(o), Lean(o, 1)
  PROVE  Lean(AfterContainer(m, o), 2)
<1> DEFINE reads == NotedRead(m, o, ContainerPath)
           rootfiles == Content(m, ContainerPath).rootfiles
           d == IF Len(rootfiles) > 1 THEN Append(o.diagnostics, "rootfiles") ELSE o.diagnostics
           made == [o EXCEPT !.phase = "package", !.rootfiles = rootfiles, !.reads = reads, !.diagnostics = d]
           bad == [o EXCEPT !.phase = "package", !.diagnostics = Append(@, "container")]
<1>1. CanParseContainer(m) => reads \in Seq(Readings) /\ Len(reads) <= 2
  BY ReadOfArchive DEF Lean, CanParseContainer
<1>2. \/ AfterContainer(m, o) = GivenUp(o) \/ AfterContainer(m, o) = bad
      \/ CanParseContainer(m) /\ AfterContainer(m, o) = made
  BY DEF AfterContainer
<1> HIDE DEF reads, rootfiles, d
<1>3. reads \in Seq(Readings) /\ Len(reads) <= 2 => Lean(made, 2)
  BY DEF Lean, Shaped, Parts
<1>4. Lean(GivenUp(o), 2) /\ Lean(bad, 2)
  BY LenProperties DEF Lean, Shaped, Parts, GivenUp
<1> HIDE DEF made, bad
<1> QED
  BY <1>1, <1>2, <1>3, <1>4

LEMMA PackageLean ==
  ASSUME archive \in Archives, NEW m, NEW o, Shaped(o), Lean(o, 2)
  PROVE  Lean(AfterPackage(m, o), 3)
<1> DEFINE path == Rootfile(m, o.rootfiles)
           reads == NotedRead(m, o, path)
           package == Package(Content(m, path))
           made == [o EXCEPT !.phase = "navigation", !.package = package, !.reads = reads]
<1>1. CanReadPath(m, path) => reads \in Seq(Readings) /\ Len(reads) <= 3
  BY ReadOfArchive DEF Lean
<1>2. AfterPackage(m, o) = GivenUp(o) \/ (CanReadPath(m, path) /\ AfterPackage(m, o) = made)
  BY DEF AfterPackage
<1> HIDE DEF reads, package, path
<1>3. reads \in Seq(Readings) /\ Len(reads) <= 3 => Lean(made, 3)
  BY DEF Lean, Shaped, Parts
<1>4. Lean(GivenUp(o), 3)
  BY LenProperties DEF Lean, Shaped, Parts, GivenUp
<1> HIDE DEF made
<1> QED
  BY <1>1, <1>2, <1>3, <1>4

LEMMA NavigationLean ==
  ASSUME archive \in Archives, NEW m, NEW o, Shaped(o), Lean(o, 3)
  PROVE  Lean(AfterNavigation(m, o), 4)
<1> DEFINE nav == NavItem(o.package)
           ncx == NcxItem(o.package)
           lost == Lost(m, o)
           both == lost \o LostNcx(m, o)
           made == AfterNavigation(m, o)
           last == [o EXCEPT !.phase = "resources", !.navigation = Fallback(o.package), !.diagnostics = @ \o both]
<1>1. ASSUME NEW item, NEW navigation, NEW warnings, CanReadPath(m, item.path)
      PROVE  Lean(Found(m, o, item, navigation, warnings), 4)
  <2> DEFINE reads == NotedRead(m, o, item.path)
             d == o.diagnostics \o warnings
  <2>1. reads \in Seq(Readings) /\ Len(reads) <= 4
    BY <1>1, ReadOfArchive DEF Lean
  <2> HIDE DEF reads, d
  <2>2. Lean([o EXCEPT !.phase = "resources", !.navigation = navigation, !.reads = reads, !.diagnostics = d], 4)
    BY <2>1 DEF Lean, Shaped, Parts
  <2>3. Lean(GivenUp(o), 4)
    BY LenProperties DEF Lean, Shaped, Parts, GivenUp
  <2> QED
    BY <2>2, <2>3 DEF Found, reads, d
<1>2. lost = <<>> => nav = Absent \/ CanReadPath(m, nav.path)
  BY DEF Lost
<1>3. both = lost => ncx = Absent \/ CanReadPath(m, ncx.path)
  <2>1. lost \in Seq(Warnings) /\ LostNcx(m, o) \in Seq(Warnings)
    BY WarningShape
  <2>2. Len(both) = Len(lost) + Len(LostNcx(m, o)) /\ Len(lost) \in Nat /\ Len(LostNcx(m, o)) \in Nat
    BY <2>1, ConcatProperties, LenProperties
  <2>3. both = lost => Len(LostNcx(m, o)) = 0
    BY <2>2
  <2>4. Len(LostNcx(m, o)) = 0 => LostNcx(m, o) = <<>>
    BY <2>1, EmptySeq
  <2> QED
    BY <2>3, <2>4 DEF LostNcx
<1>4. \/ made = GivenUp(o) \/ made = last
      \/ nav # Absent /\ lost = <<>> /\ made = Found(m, o, nav, NavOf(Content(m, nav.path)), <<>>)
      \/ ncx # Absent /\ both = lost /\ made = Found(m, o, ncx, NcxOf(Content(m, ncx.path)), lost)
  BY DEF AfterNavigation, Lost, LostNcx
<1> HIDE DEF nav, ncx, lost, both, made
<1>5. Lean(GivenUp(o), 4) /\ Lean(last, 4)
  BY LenProperties DEF Lean, Shaped, Parts, GivenUp
<1> HIDE DEF last
<1>6. Lean(made, 4)
  BY <1>1, <1>2, <1>3, <1>4, <1>5
<1> QED
  BY <1>6 DEF made

LEMMA ResourcesLean ==
  ASSUME archive \in Archives, NEW m, NEW o, Shaped(o), Lean(o, 4)
  PROVE  Lean(AfterResources(m, o), 4)
<1> DEFINE samples == [i \in Sampled |-> Reading(Entries[i], HeaderPrefix)]
           made == [o EXCEPT !.phase = "open", !.samples = samples]
<1>1. ASSUME NEW i \in DOMAIN samples PROVE samples[i].size <= HeaderPrefix
  <2>1. Entries[i].compressed \in Nat /\ Entries[i].actual \in Nat
    BY EntryPlaces DEF Sampled
  <2>2. HeaderPrefix \in Nat /\ HeaderPrefix # Unlimited
    BY PublicationAssumption DEF Unlimited
  <2>3. SizeRead(Entries[i], HeaderPrefix) <= HeaderPrefix
    BY <2>1, <2>2 DEF SizeRead
  <2> QED
    BY <2>3 DEF Reading
<1>2. AfterResources(m, o) = GivenUp(o) \/ AfterResources(m, o) = made
  BY DEF AfterResources
<1> HIDE DEF samples
<1>3. Lean(made, 4)
  BY <1>1 DEF Lean, Shaped, Parts
<1>4. Lean(GivenUp(o), 4)
  BY DEF Lean, Shaped, Parts, GivenUp
<1> HIDE DEF made
<1> QED
  BY <1>2, <1>3, <1>4

\* An entry of an indexed archive inflates to what it declares.
LEMMA SmallReadings ==
  ASSUME NEW m, Indexed(m), NEW r \in Readings, r.method = 8
  PROVE  r.size <= MaxSingle
<1>1. PICK i \in Files : CanRead(Entries[i], Unlimited) /\ r = Reading(Entries[i], Unlimited)
  BY DEF Readings
<1>2. Entries[i].method = 8 /\ r.size = SizeRead(Entries[i], Unlimited)
  BY <1>1 DEF Reading
<1>3. r.size = Entries[i].actual /\ Entries[i].actual = Entries[i].declared
  BY <1>1, <1>2 DEF CanRead, SizeRead
<1> QED
  BY <1>3 DEF Indexed

(* Opening reads no more whole than four documents, of which none inflates   *)
(* beyond the limit, and no more than a header of what it samples, for any   *)
(* archive and limits (open_book_context, read_with_limit).                  *)
THEOREM OpeningReadsLittle == PublicationSpec => []OpeningIsLazy
<1>1. OpeningInv => OpeningIsLazy
  <2> SUFFICES ASSUME OpeningInv, NEW m \in Range(CompatibilityModes)
               PROVE  /\ Len(opening[m].reads) <= 4
                      /\ \A i \in DOMAIN opening[m].reads :
                           opening[m].reads[i].method = 8 => opening[m].reads[i].size <= MaxSingle
                      /\ \A i \in DOMAIN opening[m].samples : opening[m].samples[i].size <= HeaderPrefix
    BY DEF OpeningIsLazy
  <2>1. PICK a, b, c, d, e : Steps(m, a, b, c, d, e) /\ Has(m, a, b, c, d, e)
    BY DEF OpeningInv, SoFar
  <2>2. /\ a = AfterIndex(m, Unopened) /\ b = AfterContainer(m, a) /\ c = AfterPackage(m, b)
        /\ d = AfterNavigation(m, c) /\ e = AfterResources(m, d)
    BY <2>1 DEF Steps
  <2>3. Shaped(Unopened) /\ Shaped(a) /\ Shaped(b) /\ Shaped(c) /\ Shaped(d)
    BY <2>1, UnopenedShape, StepsShape
  <2>4. archive \in Archives
    BY DEF OpeningInv
  <2>5. Lean(Unopened, 0)
    <3>1. <<>> \in Seq(Readings) /\ Len(<<>>) = 0
      BY EmptySeq
    <3> QED
      BY <3>1, UnopenedShape DEF Lean
  <2>6. Lean(a, 1)
    BY <2>2, <2>3, <2>4, <2>5, IndexLean
  <2>7. Lean(b, 2)
    BY <2>2, <2>3, <2>4, <2>6, ContainerLean
  <2>8. Lean(c, 3)
    BY <2>2, <2>3, <2>4, <2>7, PackageLean
  <2>9. Lean(d, 4)
    BY <2>2, <2>3, <2>4, <2>8, NavigationLean
  <2>10. Lean(e, 4)
    BY <2>2, <2>3, <2>4, <2>9, ResourcesLean
  <2>11. Lean(opening[m], 4)
    <3>1. ASSUME NEW o, NEW n \in Nat, n <= 4, Lean(o, n) PROVE Lean(o, 4)
      BY <3>1, LenProperties DEF Lean
    <3> QED
      BY <2>1, <2>5, <2>6, <2>7, <2>8, <2>9, <2>10, <3>1 DEF Has
  <2>12. Indexed(m) \/ opening[m].reads = <<>>
    <3>1. CASE a.phase = "container"
      BY <2>2, <2>3, <3>1 DEF AfterIndex, GivenUp, Shaped, Parts
    <3>2. CASE a.phase # "container"
      <4>1. a = GivenUp(Unopened)
        BY <2>2, <2>3, <3>2 DEF AfterIndex, Shaped, Parts
      <4>2. a.reads = <<>>
        BY <2>3, <4>1, UnopenedShape DEF GivenUp, Shaped, Parts
      <4> QED
        BY <2>1, <3>2, <4>2, UnopenedShape DEF Has
    <3> QED
      BY <3>1, <3>2
  <2>13. ASSUME NEW i \in DOMAIN opening[m].reads, opening[m].reads[i].method = 8
         PROVE  opening[m].reads[i].size <= MaxSingle
    <3>1. opening[m].reads \in Seq(Readings)
      BY <2>11 DEF Lean
    <3>2. opening[m].reads[i] \in Readings
      BY <2>13, <3>1
    <3>3. Indexed(m)
      BY <2>12, <2>13, EmptySeq
    <3> QED
      BY <2>13, <3>2, <3>3, SmallReadings
  <2> QED
    BY <2>11, <2>13 DEF Lean
<1> QED
  BY <1>1, InitOpening, NextOpening, PTL DEF PublicationSpec

-----------------------------------------------------------------------------
(* Names *)

\* A place of an archive of n entries, and that place when it is read backwards.
LEMMA Backwards ==
  ASSUME archive \in Archives
  PROVE  /\ Len(Reverse(Entries)) = Len(Entries)
         /\ DOMAIN Reverse(Entries) = 1 .. Len(Entries)
         /\ \A i \in 1 .. Len(Entries) :
              /\ Len(Entries) + 1 - i \in 1 .. Len(Entries)
              /\ Len(Entries) + 1 - (Len(Entries) + 1 - i) = i
              /\ Reverse(Entries)[i] = Entries[Len(Entries) + 1 - i]
<1> DEFINE n == Len(Entries)
<1>1. n \in Nat /\ DOMAIN Entries = 1 .. n
  BY EntryPlaces
<1>2. Reverse(Entries) = [i \in 1 .. n |-> Entries[(n - i) + 1]]
  BY DEF Reverse
<1> HIDE DEF n
<1>3. ASSUME NEW i \in 1 .. n
      PROVE  n + 1 - i \in 1 .. n /\ n + 1 - (n + 1 - i) = i /\ (n - i) + 1 = n + 1 - i
  BY <1>1
<1>4. \A i \in 1 .. n : Entries[(n - i) + 1] \in Range(Entries)
  BY <1>1, <1>3 DEF Range
<1>5. Reverse(Entries) \in Seq(Range(Entries)) /\ Len(Reverse(Entries)) = n
      /\ DOMAIN Reverse(Entries) = 1 .. n
  BY <1>1, <1>2, <1>4
<1> QED
  BY <1>2, <1>3, <1>5 DEF n

\* What is said of an entry alone is said of as many in either order.
LEMMA AsManyBackwards ==
  ASSUME archive \in Archives, NEW P, P \in SUBSET (1 .. Len(Entries)), NEW Q, Q \in SUBSET (1 .. Len(Entries)),
         \A i \in 1 .. Len(Entries) : i \in Q <=> Len(Entries) + 1 - i \in P
  PROVE  IsFiniteSet(P) /\ IsFiniteSet(Q) /\ Cardinality(P) = Cardinality(Q)
<1> DEFINE n == Len(Entries)
           turn == [i \in P |-> n + 1 - i]
<1>1. n \in Nat
  BY EntryPlaces
<1>2. IsFiniteSet(1 .. n)
  BY <1>1, FS_Interval
<1>3. IsFiniteSet(P) /\ IsFiniteSet(Q)
  BY <1>2, FS_Subset
<1>4. \A i \in 1 .. n : n + 1 - i \in 1 .. n /\ n + 1 - (n + 1 - i) = i
  BY Backwards
<1> HIDE DEF n
<1>5. \A i \in P : i \in 1 .. n /\ n + 1 - i \in Q
  BY <1>4 DEF n
<1>6. turn \in [P -> Q]
  BY <1>5
<1>7. \A i, j \in P : i # j => turn[i] # turn[j]
  BY <1>4, <1>5
<1>8. \A q \in Q : \E p \in P : turn[p] = q
  <2> TAKE q \in Q
  <2>1. q \in 1 .. n /\ n + 1 - q \in P /\ n + 1 - (n + 1 - q) = q
    BY <1>4 DEF n
  <2> QED
    BY <2>1
<1> HIDE DEF turn
<1>9. turn \in Bijection(P, Q)
  BY <1>6, <1>7, <1>8, Fun_IsBij
<1> QED
  BY <1>3, <1>9, FS_Bijection DEF ExistsBijection

\* What a path finds does not hang on the order of the entries.
LEMMA OrderDoesNotMatter ==
  ASSUME archive \in Archives, NEW path, NEW m
  PROVE  Resolve(Entries, path, m) = Resolve(Reverse(Entries), path, m)
<1> DEFINE n == Len(Entries)
           turned == Reverse(Entries)
           exact == Spelled(Entries, path)
           folded == Folded(Entries, path)
           exactTurned == Spelled(turned, path)
           foldedTurned == Folded(turned, path)
<1>1. n \in Nat /\ DOMAIN Entries = 1 .. n /\ DOMAIN turned = 1 .. n
      /\ \A i \in 1 .. n : n + 1 - i \in 1 .. n /\ turned[i] = Entries[n + 1 - i]
                           /\ n + 1 - (n + 1 - i) = i
  BY EntryPlaces, Backwards
<1> HIDE DEF turned, n
<1>2. /\ exact \in SUBSET (1 .. n) /\ exactTurned \in SUBSET (1 .. n)
      /\ folded \in SUBSET (1 .. n) /\ foldedTurned \in SUBSET (1 .. n)
  BY <1>1 DEF Spelled, Folded, FilesOf
<1>3. \A i \in 1 .. n : i \in exactTurned <=> n + 1 - i \in exact
  BY <1>1 DEF Spelled, FilesOf
<1>4. \A i \in 1 .. n : i \in foldedTurned <=> n + 1 - i \in folded
  BY <1>1 DEF Folded, FilesOf
<1>5. /\ \A i \in exact : Entries[i].path = path
      /\ \A i \in exactTurned : turned[i].path = path
  BY DEF Spelled
<1> HIDE DEF exact, folded, exactTurned, foldedTurned
<1>6. exact = {} <=> exactTurned = {}
  BY <1>1, <1>2, <1>3
<1>7. IsFiniteSet(folded) /\ IsFiniteSet(foldedTurned) /\ Cardinality(folded) = Cardinality(foldedTurned)
  BY <1>2, <1>4, AsManyBackwards DEF n
<1>8. /\ exact # {} => Entries[Max(exact)].path = path
      /\ exactTurned # {} => turned[Max(exactTurned)].path = path
  BY <1>1, <1>2, <1>5, MaxOf
<1>9. ASSUME Cardinality(folded) = 1
      PROVE  Entries[Max(folded)].path = turned[Max(foldedTurned)].path
  <2>1. PICK i : folded = {i}
    BY <1>7, <1>9, FS_Singleton
  <2>2. PICK j : foldedTurned = {j}
    BY <1>7, <1>9, FS_Singleton
  <2>3. Max(folded) = i /\ Max(foldedTurned) = j
    BY <1>1, <1>2, <2>1, <2>2, MaxOf
  <2>4. j \in 1 .. n /\ n + 1 - j = i
    BY <1>2, <1>4, <2>1, <2>2
  <2> QED
    BY <1>1, <2>3, <2>4
<1>10. Resolve(Entries, path, m) =
         IF exact # {} THEN Entries[Max(exact)].path
         ELSE IF m # "Strict" /\ Cardinality(folded) = 1 THEN Entries[Max(folded)].path ELSE Absent
  BY DEF Resolve, exact, folded
<1>11. Resolve(turned, path, m) =
         IF exactTurned # {} THEN turned[Max(exactTurned)].path
         ELSE IF m # "Strict" /\ Cardinality(foldedTurned) = 1 THEN turned[Max(foldedTurned)].path ELSE Absent
  BY DEF Resolve, exactTurned, foldedTurned
<1>12. Resolve(Entries, path, m) = Resolve(turned, path, m)
  BY <1>6, <1>7, <1>8, <1>9, <1>10, <1>11
<1> QED
  BY <1>12 DEF turned

\* A package that was read: its items are those of the manifest, which are there.
PackageOK(package) ==
  /\ package.manifest \in Seq(Range(package.manifest))
  /\ \A i \in DOMAIN package.manifest :
       package.manifest[i] # Absent /\ package.manifest[i].path # Absent

LEMMA PackageRead ==
  ASSUME archive \in Archives, NEW m, NEW o, Shaped(o), AfterPackage(m, o).phase = "navigation"
  PROVE  PackageOK(AfterPackage(m, o).package)
<1> DEFINE path == Rootfile(m, o.rootfiles)
           text == Content(m, path)
<1>1. /\ CanReadPath(m, path) /\ PackageParses(text)
      /\ AfterPackage(m, o).package = Package(text)
  <2>1. CanReadPath(m, path) /\ PackageParses(text)
    BY DEF AfterPackage, GivenUp, Shaped, Parts
  <2> DEFINE reads == NotedRead(m, o, path)
             package == Package(text)
  <2>2. AfterPackage(m, o) = [o EXCEPT !.phase = "navigation", !.package = package, !.reads = reads]
    BY DEF AfterPackage, GivenUp, Shaped, Parts
  <2> HIDE DEF path, reads, package
  <2>3. AfterPackage(m, o).package = package
    BY <2>2 DEF Shaped, Parts
  <2> QED
    BY <2>1, <2>3 DEF path, package
<1>2. PICK i \in Files : text = Entries[i].content
  BY <1>1, FoundFile DEF CanReadPath, Content
<1> HIDE DEF text
<1>3. Entries[i] \in Range(archive.entries)
  BY <1>2, EntryPlaces DEF Range, Entries
<1>4. text.kind = "package"
      /\ \A k \in DOMAIN text.manifest : text.manifest[k].path # Absent
  BY <1>1 DEF PackageParses
<1>5. text.manifest \in Seq(Range(text.manifest)) /\ Absent \notin Range(text.manifest)
  BY <1>2, <1>3, <1>4, PublicationAssumption
<1>6. \A k \in DOMAIN text.manifest : text.manifest[k] # Absent
  BY <1>5 DEF Range
<1>7. Package(text).manifest = text.manifest
  BY DEF Package
<1> QED
  BY <1>1, <1>4, <1>5, <1>6, <1>7 DEF PackageOK

LEMMA NavigationMade ==
  ASSUME NEW m, NEW o, Shaped(o), AfterNavigation(m, o).phase = "resources"
  PROVE  /\ AfterNavigation(m, o).package = o.package
         /\ AfterNavigation(m, o).navigation.source = "Spine" =>
              AfterNavigation(m, o).navigation = SpineOf(o.package)
<1> DEFINE nav == NavItem(o.package)
           ncx == NcxItem(o.package)
           both == Lost(m, o) \o LostNcx(m, o)
           made == AfterNavigation(m, o)
           d == o.diagnostics \o both
           fallback == Fallback(o.package)
           last == [o EXCEPT !.phase = "resources", !.navigation = fallback, !.diagnostics = d]
           navOf == NavOf(Content(m, nav.path))
           ncxOf == NcxOf(Content(m, ncx.path))
<1>1. navOf.source # "Spine" /\ ncxOf.source # "Spine"
  BY DEF NavOf, NcxOf
<1>2. fallback.source = "Spine" => fallback = SpineOf(o.package)
  BY DEF Fallback, GuideOf
<1>3. \/ made = GivenUp(o) \/ made = last
      \/ made = Found(m, o, nav, navOf, <<>>)
      \/ made = Found(m, o, ncx, ncxOf, Lost(m, o))
  BY DEF AfterNavigation, Lost, LostNcx
<1> HIDE DEF nav, ncx, both, made, d, fallback, navOf, ncxOf
<1>4. last.package = o.package /\ last.navigation = fallback
  BY DEF Shaped, Parts
<1>5. GivenUp(o).phase # "resources"
  BY DEF Shaped, Parts, GivenUp
<1>6. ASSUME NEW item, NEW navigation, NEW warnings,
             Found(m, o, item, navigation, warnings).phase = "resources"
      PROVE  /\ Found(m, o, item, navigation, warnings).package = o.package
             /\ Found(m, o, item, navigation, warnings).navigation = navigation
  <2> DEFINE reads == NotedRead(m, o, item.path)
             w == o.diagnostics \o warnings
             found == [o EXCEPT !.phase = "resources", !.navigation = navigation, !.reads = reads, !.diagnostics = w]
  <2>1. Found(m, o, item, navigation, warnings) = found
    BY <1>5, <1>6 DEF Found
  <2> HIDE DEF reads, w
  <2>2. found.package = o.package /\ found.navigation = navigation
    BY DEF Shaped, Parts
  <2> QED
    BY <2>1, <2>2
<1> HIDE DEF last
<1>7. made.phase = "resources"
  BY DEF made
<1>8. made.package = o.package /\ (made.navigation.source = "Spine" => made.navigation = SpineOf(o.package))
  BY <1>1, <1>2, <1>3, <1>4, <1>5, <1>6, <1>7
<1> QED
  BY <1>8 DEF made

LEMMA ResourcesMade ==
  ASSUME NEW m, NEW o, Shaped(o)
  PROVE  AfterResources(m, o).package = o.package /\ AfterResources(m, o).navigation = o.navigation
BY DEF AfterResources, GivenUp, Shaped, Parts

\* The chapter of a place in the spine, and what the book shows there.
LEMMA PlaceOfSpine ==
  ASSUME NEW package, PackageOK(package), NEW i
  PROVE  /\ ChapterPath(package, i) = SpineHref(package, i)
         /\ ItemNamed(package, package.spine[i]) # Absent <=> SpineHref(package, i) # Absent
         /\ ItemNamed(package, package.spine[i]) # Absent =>
              ItemNamed(package, package.spine[i]).path = SpineHref(package, i)
<1> DEFINE places == {k \in DOMAIN package.manifest : package.manifest[k].id = package.spine[i]}
<1>1. ItemNamed(package, package.spine[i]) =
        IF places = {} THEN Absent ELSE package.manifest[Min(places)]
  BY DEF ItemNamed, FirstItem
<1>2. SpineHref(package, i) = IF places = {} THEN Absent ELSE package.manifest[Min(places)].path
  BY DEF SpineHref
<1>3. places \in SUBSET Nat
  <2>1. DOMAIN package.manifest \in SUBSET Nat
    BY DEF PackageOK
  <2> QED
    BY <2>1
<1>4. places # {} => Min(places) \in places
  BY <1>3, MinOf
<1>5. places # {} => package.manifest[Min(places)] # Absent /\ package.manifest[Min(places)].path # Absent
  BY <1>4 DEF PackageOK
<1> HIDE DEF places
<1> QED
  BY <1>1, <1>2, <1>5 DEF ChapterPath

(* A name finds one thing whoever asks, for any archive: a path the same     *)
(* entry in either order of the entries, and a place in the spine the same   *)
(* chapter for who opens it and who shows it (resolve_path,                  *)
(* spine_manifest_item, book_ir_from_summary, spine_navigation).             *)
THEOREM NamesFindOneThing == PublicationSpec => []NamesAgree
<1>1. OpeningInv => NamesAgree
  <2> SUFFICES ASSUME OpeningInv PROVE NamesAgree
    OBVIOUS
  <2>1. archive \in Archives
    BY DEF OpeningInv
  <2>2. OrderIrrelevant
    BY <2>1, OrderDoesNotMatter DEF OrderIrrelevant
  <2>3. ASSUME NEW m \in Range(CompatibilityModes), Opened(m)
        PROVE  LET package == opening[m].package navigation == opening[m].navigation IN
               PackageOK(package)
               /\ (navigation.source = "Spine" => navigation = SpineOf(package))
    <3>1. PICK a, b, c, d, e : Steps(m, a, b, c, d, e) /\ Has(m, a, b, c, d, e)
      BY DEF OpeningInv, SoFar
    <3>2. Passed(a, b, c, d) /\ opening[m] = e
      BY <2>3, <3>1, OpenedPassed
    <3>3. c = AfterPackage(m, b) /\ d = AfterNavigation(m, c) /\ e = AfterResources(m, d)
          /\ c.phase = "navigation" /\ d.phase = "resources"
      BY <3>1, <3>2 DEF Steps, Passed
    <3>4. Shaped(b) /\ Shaped(c) /\ Shaped(d)
      BY <3>1, StepsShape
    <3>5. PackageOK(c.package)
      BY <2>1, <3>3, <3>4, PackageRead
    <3>6. d.package = c.package
          /\ (d.navigation.source = "Spine" => d.navigation = SpineOf(c.package))
      BY <3>3, <3>4, NavigationMade
    <3>7. e.package = d.package /\ e.navigation = d.navigation
      BY <3>3, <3>4, ResourcesMade
    <3> QED
      BY <3>2, <3>5, <3>6, <3>7
  <2>4. SpineAgrees
    <3> SUFFICES ASSUME NEW m \in Range(CompatibilityModes), Opened(m)
                 PROVE  LET package == opening[m].package navigation == opening[m].navigation IN
                        /\ \A i \in DOMAIN package.spine : ChapterPath(package, i) = SpineHref(package, i)
                        /\ navigation.source = "Spine" =>
                             /\ DOMAIN navigation.toc = {i \in DOMAIN package.spine : SpineHref(package, i) # Absent}
                             /\ \A i \in DOMAIN navigation.toc : navigation.toc[i].path = SpineHref(package, i)
      BY DEF SpineAgrees
    <3> DEFINE package == opening[m].package
               navigation == opening[m].navigation
               named == {i \in DOMAIN package.spine : ItemNamed(package, package.spine[i]) # Absent}
    <3>1. PackageOK(package) /\ (navigation.source = "Spine" => navigation = SpineOf(package))
      BY <2>3
    <3>2. SpineOf(package).toc =
            [i \in named |-> [label |-> package.spine[i], path |-> ItemNamed(package, package.spine[i]).path]]
      BY DEF SpineOf
    <3> HIDE DEF package, navigation
    <3>3. \A i : /\ ChapterPath(package, i) = SpineHref(package, i)
                 /\ ItemNamed(package, package.spine[i]) # Absent <=> SpineHref(package, i) # Absent
                 /\ ItemNamed(package, package.spine[i]) # Absent =>
                      ItemNamed(package, package.spine[i]).path = SpineHref(package, i)
      BY <3>1, PlaceOfSpine
    <3>4. DOMAIN SpineOf(package).toc = {i \in DOMAIN package.spine : SpineHref(package, i) # Absent}
      BY <3>2, <3>3
    <3>5. \A i \in DOMAIN SpineOf(package).toc : SpineOf(package).toc[i].path = SpineHref(package, i)
      BY <3>2, <3>3
    <3> QED
      BY <3>1, <3>3, <3>4, <3>5 DEF package, navigation
  <2> QED
    BY <2>2, <2>4 DEF NamesAgree
<1> QED
  BY <1>1, InitOpening, NextOpening, PTL DEF PublicationSpec

-----------------------------------------------------------------------------
(* Bytes and positions of a text *)

HIDE InlineAssumption

\* The byte at which a position of the text lies, from those of the positions before it.
NextByte(text, i, b) == IF i = 0 THEN 0 ELSE b[i - 1] + CharWidth[text[i]]

LEMMA BytesExist ==
  ASSUME NEW text, NEW n \in Nat
  PROVE  \E b : b = [i \in 0 .. n |-> NextByte(text, i, b)]
<1> DEFINE Upto(m) == \E b : b = [i \in 0 .. m |-> NextByte(text, i, b)]
           S == {m \in Nat : Upto(m)}
<1>1. 0 \in S
  <2> DEFINE b == [i \in 0 .. 0 |-> 0]
  <2>1. b = [i \in 0 .. 0 |-> NextByte(text, i, b)]
    BY DEF NextByte
  <2> HIDE DEF b
  <2>2. Upto(0)
    BY <2>1
  <2> QED
    BY <2>2
<1>2. ASSUME NEW m \in Nat, m \in S PROVE m + 1 \in S
  <2>1. PICK b : b = [i \in 0 .. m |-> NextByte(text, i, b)]
    BY <1>2
  <2> DEFINE more == [i \in 0 .. m + 1 |-> IF i \in 0 .. m THEN b[i] ELSE NextByte(text, i, b)]
  <2>2. ASSUME NEW i \in 0 .. m + 1 PROVE more[i] = NextByte(text, i, more)
    <3>1. more[i] = NextByte(text, i, b)
      BY <2>1
    <3>2. i # 0 => i - 1 \in 0 .. m /\ more[i - 1] = b[i - 1]
      OBVIOUS
    <3> QED
      BY <3>1, <3>2 DEF NextByte
  <2>3. more = [i \in 0 .. m + 1 |-> NextByte(text, i, more)]
    BY <2>2
  <2> HIDE DEF more
  <2>4. Upto(m + 1)
    BY <2>3
  <2> QED
    BY <2>4
<1> HIDE DEF S
<1>3. Nat \subseteq S
  BY <1>1, <1>2, Induction
<1> QED
  BY <1>3 DEF S

\* A text is written with the characters that have a width.
IsText(text) == text \in Seq(DOMAIN CharWidth)

LEMMA TextShape ==
  ASSUME NEW text, IsText(text)
  PROVE  /\ Len(text) \in Nat /\ DOMAIN text = 1 .. Len(text)
         /\ \A i \in 1 .. Len(text) : CharWidth[text[i]] \in 1 .. 4
<1>1. Len(text) \in Nat /\ DOMAIN text = 1 .. Len(text) /\ text \in [1 .. Len(text) -> DOMAIN CharWidth]
  BY LenProperties DEF IsText
<1> QED
  BY <1>1, CharWidthAssumption

\* Bytes are counted one character after the other.
LEMMA BytesAre ==
  ASSUME NEW text, IsText(text)
  PROVE  /\ ByteAt(text, 0) = 0
         /\ \A i \in 1 .. Len(text) : ByteAt(text, i) = ByteAt(text, i - 1) + CharWidth[text[i]]
<1> DEFINE b == CHOOSE f : f = [i \in 0 .. Len(text) |-> NextByte(text, i, f)]
<1>0. Len(text) \in Nat
  BY TextShape
<1>1. \E f : f = [i \in 0 .. Len(text) |-> NextByte(text, i, f)]
  BY <1>0, BytesExist
<1>2. b = [i \in 0 .. Len(text) |-> NextByte(text, i, b)]
  BY <1>1
<1>3. ASSUME NEW i PROVE ByteAt(text, i) = b[i]
  BY Zenon DEF ByteAt, NextByte
<1> HIDE DEF b
<1>4. b[0] = 0
  BY <1>0, <1>2 DEF NextByte
<1>5. ASSUME NEW i \in 1 .. Len(text) PROVE b[i] = b[i - 1] + CharWidth[text[i]]
  <2>1. i \in 0 .. Len(text) /\ i # 0
    BY <1>0
  <2>2. b[i] = NextByte(text, i, b)
    BY <1>2, <2>1
  <2> QED
    BY <2>1, <2>2 DEF NextByte
<1> QED
  BY <1>3, <1>4, <1>5

\* Later positions lie at later bytes.
LEMMA BytesRise ==
  ASSUME NEW text, IsText(text)
  PROVE  /\ \A i \in 0 .. Len(text) : ByteAt(text, i) \in Nat
         /\ \A i, j \in 0 .. Len(text) : i < j => ByteAt(text, i) < ByteAt(text, j)
<1> DEFINE n == Len(text)
           S == {k \in 0 .. n : ByteAt(text, k) \in Nat /\ \A i \in 0 .. k : ByteAt(text, i) \in Nat /\ (i # k => ByteAt(text, i) < ByteAt(text, k))}
<1>0. n \in Nat
  BY TextShape
<1>1. 0 \in S
  BY <1>0, BytesAre
<1>2. ASSUME NEW k \in 0 .. n, k + 1 \in 0 .. n, k \in S PROVE k + 1 \in S
  <2>1. k + 1 \in 1 .. n /\ (k + 1) - 1 = k
    BY <1>0, <1>2
  <2>2. ByteAt(text, k + 1) = ByteAt(text, k) + CharWidth[text[k + 1]] /\ CharWidth[text[k + 1]] \in 1 .. 4
    BY <2>1, BytesAre, TextShape
  <2>3. ByteAt(text, k) \in Nat /\ \A i \in 0 .. k : ByteAt(text, i) \in Nat /\ (i # k => ByteAt(text, i) < ByteAt(text, k))
    BY <1>2
  <2>4. ASSUME NEW i \in 0 .. k + 1, i # k + 1 PROVE ByteAt(text, i) \in Nat /\ ByteAt(text, i) < ByteAt(text, k + 1)
    <3>1. CASE i = k
      BY <2>2, <2>3, <3>1
    <3>2. CASE i # k
      <4>1. i \in 0 .. k
        BY <1>0, <2>4
      <4>2. ByteAt(text, i) < ByteAt(text, k) /\ ByteAt(text, i) \in Nat
        BY <2>3, <3>2, <4>1
      <4> QED
        BY <2>2, <2>3, <4>2
    <3> QED
      BY <3>1, <3>2
  <2> QED
    BY <1>2, <2>2, <2>3, <2>4
<1> HIDE DEF S
<1>3. 0 .. n \subseteq S
  BY <1>0, <1>1, <1>2, UpTo
<1>4. ASSUME NEW k \in 0 .. n PROVE ByteAt(text, k) \in Nat /\ \A i \in 0 .. k : ByteAt(text, i) \in Nat /\ (i # k => ByteAt(text, i) < ByteAt(text, k))
  BY <1>3 DEF S
<1>5. ASSUME NEW i \in 0 .. n, NEW j \in 0 .. n, i < j PROVE ByteAt(text, i) < ByteAt(text, j)
  <2>1. i \in 0 .. j /\ i # j
    BY <1>0, <1>5
  <2> QED
    BY <1>4, <2>1
<1> QED
  BY <1>4, <1>5

\* No two positions lie at one byte, and a byte tells its position.
LEMMA PositionOf ==
  ASSUME NEW text, IsText(text), NEW i \in 0 .. Len(text)
  PROVE  /\ CharsBefore(text, ByteAt(text, i)) = i
         /\ \A j \in 0 .. Len(text) : (ByteAt(text, i) <= ByteAt(text, j) <=> i <= j)
<1>0. Len(text) \in Nat
  BY TextShape
<1>1. ASSUME NEW j \in 0 .. Len(text) PROVE ByteAt(text, i) <= ByteAt(text, j) <=> i <= j
  <2>1. ByteAt(text, i) \in Nat /\ ByteAt(text, j) \in Nat
    BY BytesRise
  <2>2. (i < j => ByteAt(text, i) < ByteAt(text, j)) /\ (j < i => ByteAt(text, j) < ByteAt(text, i))
    BY BytesRise
  <2>3. i = j => ByteAt(text, i) = ByteAt(text, j)
    OBVIOUS
  <2>4. i < j \/ j < i \/ i = j
    BY <1>0
  <2>5. i \in Nat /\ j \in Nat
    BY <1>0
  <2> QED
    BY <2>1, <2>2, <2>3, <2>4, <2>5
<1>2. ASSUME NEW j \in 0 .. Len(text), ByteAt(text, j) = ByteAt(text, i) PROVE j = i
  <2>1. ByteAt(text, i) \in Nat /\ ByteAt(text, j) \in Nat
    BY BytesRise
  <2>2. (i < j => ByteAt(text, i) < ByteAt(text, j)) /\ (j < i => ByteAt(text, j) < ByteAt(text, i))
    BY BytesRise
  <2>3. ~(i < j) /\ ~(j < i)
    BY <1>2, <2>1, <2>2
  <2> QED
    BY <1>0, <2>3
<1> DEFINE p == CharsBefore(text, ByteAt(text, i))
<1>3. p \in 0 .. Len(text) /\ ByteAt(text, p) = ByteAt(text, i)
  BY DEF CharsBefore
<1> HIDE DEF p
<1>4. p = i
  BY <1>2, <1>3
<1> QED
  BY <1>1, <1>4 DEF p

\* From one position to a later one there is a range, and it holds the characters between.
LEMMA SpanIs ==
  ASSUME NEW text, IsText(text), NEW i \in 0 .. Len(text), NEW j \in 0 .. Len(text), i <= j
  PROVE  /\ ValidUtf8Range(text, ByteSpan(text, i, j))
         /\ SliceUtf8(text, ByteSpan(text, i, j)) = <<SubSeq(text, i + 1, j)>>
<1>1. ByteSpan(text, i, j).start = ByteAt(text, i) /\ ByteSpan(text, i, j).end = ByteAt(text, j)
  BY DEF ByteSpan, Span
<1>2. ByteAt(text, i) <= ByteAt(text, j)
  BY PositionOf
<1>3. ByteAt(text, i) \in Boundaries(text) /\ ByteAt(text, j) \in Boundaries(text)
  BY DEF Boundaries
<1>4. ValidUtf8Range(text, ByteSpan(text, i, j))
  BY <1>1, <1>2, <1>3 DEF ValidUtf8Range
<1>5. CharsBefore(text, ByteAt(text, i)) = i /\ CharsBefore(text, ByteAt(text, j)) = j
  BY PositionOf
<1> QED
  BY <1>1, <1>4, <1>5 DEF SliceUtf8

\* A valid range goes from one position to a later one.
LEMMA RangeIs ==
  ASSUME NEW text, IsText(text), NEW range, ValidUtf8Range(text, range)
  PROVE  \E i, j \in 0 .. Len(text) :
           /\ i <= j /\ range.start = ByteAt(text, i) /\ range.end = ByteAt(text, j)
           /\ SliceUtf8(text, range) = <<SubSeq(text, i + 1, j)>>
<1>1. PICK i \in 0 .. Len(text), j \in 0 .. Len(text) : range.start = ByteAt(text, i) /\ range.end = ByteAt(text, j)
  BY DEF ValidUtf8Range, Boundaries
<1>2. ByteAt(text, i) <= ByteAt(text, j)
  BY <1>1 DEF ValidUtf8Range
<1>3. i <= j
  BY <1>2, PositionOf
<1>4. CharsBefore(text, range.start) = i /\ CharsBefore(text, range.end) = j
  BY <1>1, PositionOf
<1>5. SliceUtf8(text, range) = <<SubSeq(text, i + 1, j)>>
  BY <1>4 DEF SliceUtf8
<1> QED
  BY <1>1, <1>3, <1>5

\* What is measured of a request is a text.
LEMMA MeasuredIsText ==
  ASSUME NEW request, IsRequest(request)
  PROVE  /\ IsText(request.text) /\ IsText(DefaultPart(request))
         /\ ValidUtf8Range(request.text, request.range) =>
              DefaultPart(request) = MeasuredPart(request) /\ IsText(MeasuredPart(request))
<1>1. IsText(request.text)
  BY DEF IsRequest, IsText
<1>2. ASSUME ValidUtf8Range(request.text, request.range)
      PROVE  DefaultPart(request) = MeasuredPart(request) /\ IsText(MeasuredPart(request))
  <2>1. PICK i \in 0 .. Len(request.text), j \in 0 .. Len(request.text) :
          i <= j /\ SliceUtf8(request.text, request.range) = <<SubSeq(request.text, i + 1, j)>>
    <3> DEFINE text == request.text
               range == request.range
    <3>1. IsText(text) /\ ValidUtf8Range(text, range)
      BY <1>1, <1>2
    <3> HIDE DEF text, range
    <3>2. \E i, j \in 0 .. Len(text) :
            /\ i <= j /\ range.start = ByteAt(text, i) /\ range.end = ByteAt(text, j)
            /\ SliceUtf8(text, range) = <<SubSeq(text, i + 1, j)>>
      BY ONLY <3>1, RangeIs, Zenon
    <3>3. \E i \in 0 .. Len(text), j \in 0 .. Len(text) :
            i <= j /\ SliceUtf8(text, range) = <<SubSeq(text, i + 1, j)>>
      BY ONLY <3>2, Zenon
    <3> QED
      BY <3>3 DEF text, range
  <2>2. MeasuredPart(request) = SubSeq(request.text, i + 1, j)
    BY <2>1 DEF MeasuredPart
  <2>3. Len(request.text) \in Nat
    BY <1>1, TextShape
  <2>4. SubSeq(request.text, i + 1, j) \in Seq(DOMAIN CharWidth)
    <3>1. request.text \in Seq(DOMAIN CharWidth)
      BY <1>1 DEF IsText
    <3>2. i + 1 \in 1 .. Len(request.text) + 1 /\ j \in (i + 1) - 1 .. Len(request.text)
      BY <2>1, <2>3
    <3> QED
      BY <3>1, <3>2, SubSeqProperties
  <2> QED
    BY <1>2, <2>2, <2>4 DEF DefaultPart, IsText
<1>3. IsText(DefaultPart(request))
  BY <1>1, <1>2 DEF DefaultPart
<1> QED
  BY <1>1, <1>2, <1>3

\* From a position to another there is nothing, or one line break.
IsBreak(text, at, next, hardBreak) ==
  /\ at \in 0 .. Len(text) /\ next \in 0 .. Len(text)
  /\ \/ ~hardBreak /\ next = at
     \/ hardBreak /\ next = at + 1 /\ text[next] \in {LF, CR}
     \/ hardBreak /\ next = at + 2 /\ text[at + 1] = CR /\ text[next] = LF

\* A line break is all that a line leaves between itself and the next.
LEMMA BreakIsBetween ==
  ASSUME NEW text, IsText(text), NEW at, NEW next, NEW hardBreak \in BOOLEAN, IsBreak(text, at, next, hardBreak)
  PROVE  Between(text, ByteSpan(text, at, next), hardBreak)
<1>0. Len(text) \in Nat /\ at \in 0 .. Len(text) /\ next \in 0 .. Len(text) /\ at <= next
  BY TextShape DEF IsBreak
<1>1. SliceUtf8(text, ByteSpan(text, at, next)) = <<SubSeq(text, at + 1, next)>>
  BY <1>0, SpanIs
<1>2. SubSeq(text, at + 1, next) \in (IF hardBreak THEN {<<LF>>, <<CR>>, <<CR, LF>>} ELSE {<<>>})
  <2>0. text \in Seq(DOMAIN CharWidth)
    BY DEF IsText
  <2>1. CASE ~hardBreak /\ next = at
    <3>1. SubSeq(text, at + 1, next) = <<>>
      BY <1>0, <2>0, <2>1
    <3> QED
      BY <2>1, <3>1
  <2>2. CASE hardBreak /\ next = at + 1 /\ text[next] \in {LF, CR}
    <3>1. SubSeq(text, at + 1, next) = <<text[next]>>
      <4>1. at + 1 \in 1 .. Len(text) + 1 /\ next \in (at + 1) - 1 .. Len(text) /\ next = at + 1 /\ at + 1 \in 1 .. Len(text)
        BY <1>0, <2>2
      <4> DEFINE s == SubSeq(text, at + 1, next)
      <4>5. \A k \in at + 1 .. next : text[k] \in DOMAIN CharWidth
        BY <1>0, <2>0, <4>1
      <4>6. s \in Seq(DOMAIN CharWidth)
        BY <1>0, <4>1, <4>5, SubSeqProperties
      <4>7. Len(s) = IF at + 1 <= next THEN next - (at + 1) + 1 ELSE 0
        BY <1>0, <4>1, <4>5, SubSeqProperties
      <4>8. \A k \in 1 .. next - (at + 1) + 1 : s[k] = text[(at + 1) + k - 1]
        BY <1>0, <4>1, <4>5, SubSeqProperties
      <4> HIDE DEF s
      <4>2. Len(s) = 1
        BY <1>0, <4>1, <4>7
      <4>3. s[1] = text[next]
        BY <1>0, <4>1, <4>8
      <4>4. s = <<s[1]>>
        BY <4>2, <4>6
      <4> QED
        BY <4>3, <4>4 DEF s
    <3> QED
      BY <2>2, <3>1
  <2>3. CASE hardBreak /\ next = at + 2 /\ text[at + 1] = CR /\ text[next] = LF
    <3>1. SubSeq(text, at + 1, next) = <<text[at + 1], text[next]>>
      <4>1. at + 1 \in 1 .. Len(text) + 1 /\ next \in (at + 1) - 1 .. Len(text) /\ next = at + 2 /\ at + 1 \in 1 .. Len(text)
        BY <1>0, <2>3
      <4> DEFINE s == SubSeq(text, at + 1, next)
      <4>5. \A k \in at + 1 .. next : text[k] \in DOMAIN CharWidth
        BY <1>0, <2>0, <4>1
      <4>6. s \in Seq(DOMAIN CharWidth)
        BY <1>0, <4>1, <4>5, SubSeqProperties
      <4>7. Len(s) = IF at + 1 <= next THEN next - (at + 1) + 1 ELSE 0
        BY <1>0, <4>1, <4>5, SubSeqProperties
      <4>8. \A k \in 1 .. next - (at + 1) + 1 : s[k] = text[(at + 1) + k - 1]
        BY <1>0, <4>1, <4>5, SubSeqProperties
      <4> HIDE DEF s
      <4>2. Len(s) = 2
        BY <1>0, <4>1, <4>7
      <4>3. s[1] = text[at + 1] /\ s[2] = text[next]
        BY <1>0, <4>1, <4>8
      <4>4. s = <<s[1], s[2]>>
        BY <4>2, <4>6
      <4> QED
        BY <4>3, <4>4 DEF s
    <3> QED
      BY <2>3, <3>1
  <2> QED
    BY <2>1, <2>2, <2>3 DEF IsBreak
<1> QED
  BY <1>1, <1>2 DEF Between

LEMMA BetweenGoesOn ==
  ASSUME NEW text, IsText(text), NEW range, NEW hardBreak, Between(text, range, hardBreak)
  PROVE  range.start <= range.end
<1>1. SliceUtf8(text, range) # <<>>
  BY DEF Between
<1>2. ValidUtf8Range(text, range)
  BY <1>1 DEF SliceUtf8
<1> QED
  BY <1>2 DEF ValidUtf8Range

LEMMA MaxPair ==
  ASSUME NEW a \in Int, NEW b \in Int
  PROVE  Max({a, b}) \in {a, b} /\ a <= Max({a, b}) /\ b <= Max({a, b})
<1>1. \E m \in {a, b} : \A y \in {a, b} : m >= y
  <2>1. CASE a >= b
    BY <2>1
  <2>2. CASE b >= a
    BY <2>2
  <2> QED
    BY <2>1, <2>2
<1>2. Max({a, b}) \in {a, b} /\ \A y \in {a, b} : Max({a, b}) >= y
  BY <1>1 DEF Max
<1>3. Max({a, b}) \in Int
  BY <1>2
<1> QED
  BY <1>2, <1>3

LEMMA MaxOfNat ==
  ASSUME NEW a \in Int, NEW b \in Nat
  PROVE  Max({a, b}) \in Nat /\ Max({b, a}) \in Nat /\ a <= Max({a, b}) /\ b <= Max({a, b})
<1>1. Max({a, b}) \in {a, b} /\ a <= Max({a, b}) /\ b <= Max({a, b})
  <2>1. b \in Int
    OBVIOUS
  <2> QED
    BY Zenon, <2>1, MaxPair
<1>2. {b, a} = {a, b}
  OBVIOUS
<1> QED
  BY <1>1, <1>2

LEMMA EmptyListIs ==
  ASSUME NEW list, IsList(list)
  PROVE  list = <<>> <=> Len(list) = 0
BY ListShape, EmptySeq

-----------------------------------------------------------------------------
(* What the pen has drawn *)

\* A line of the text, no wider than a limit.
LineFits(line, text, limit) == ValidLine(text, line) /\ line.width <= limit

\* Lines one after the other, up to a position of the text.
LinesGoTo(lines, text, at) ==
  /\ lines = <<>> => at = 0
  /\ lines # <<>> =>
       /\ lines[1].range.start = 0
       /\ Between(text, Span(lines[Len(lines)].range.end, ByteAt(text, at)), lines[Len(lines)].hard_break)
  /\ \A i \in 1 .. Len(lines) : i > 1 =>
       Between(text, Span(lines[i - 1].range.end, lines[i].range.start), lines[i - 1].hard_break)

\* A character before a position, in a finished line or in the one begun.
ClusterFits(cluster, pen, text, at) ==
  /\ ValidUtf8Range(text, cluster.range)
  /\ cluster.range.start < ByteAt(text, at) /\ cluster.range.end <= ByteAt(text, at)
  /\ cluster.line_index \in 0 .. Len(pen.lines)
  /\ cluster.x_start \in Nat /\ cluster.x_end \in Nat /\ cluster.x_start <= cluster.x_end
  /\ cluster.line_index < Len(pen.lines) => Inside(cluster.range, pen.lines[cluster.line_index + 1].range)
  /\ cluster.line_index = Len(pen.lines) => ByteAt(text, pen.start) <= cluster.range.start /\ cluster.x_end <= pen.width

ClustersRise(clusters) ==
  \A i, j \in 1 .. Len(clusters) : i < j =>
    clusters[i].range.start < clusters[j].range.start /\ InVisualOrder(clusters[i], clusters[j])

PenFits(pen, request, text, at) ==
  /\ at \in 0 .. Len(text) /\ pen.start \in 0 .. at
  /\ pen.width \in Nat /\ pen.width <= WidthLimit(request)
  /\ IsList(pen.lines) /\ IsList(pen.clusters)
  /\ \A i \in 1 .. Len(pen.lines) : LineFits(pen.lines[i], text, WidthLimit(request))
  /\ LinesGoTo(pen.lines, text, pen.start)
  /\ \A i \in 1 .. Len(pen.clusters) : ClusterFits(pen.clusters[i], pen, text, at)
  /\ ClustersRise(pen.clusters)

LEMMA RequestNumbers ==
  ASSUME NEW request, IsRequest(request)
  PROVE  /\ Advance(request) \in Nat \ {0}
         /\ WidthLimit(request) \in Nat /\ Advance(request) <= WidthLimit(request)
         /\ WidthLimit(request) = Max({request.max_width, Advance(request)})
         /\ DefaultAscent(request) \in Nat /\ DefaultDescent(request) \in Nat /\ DefaultLeading(request) \in Nat
<1>1. /\ request.font \in Int /\ request.spacing \in Int /\ request.max_width \in Int
      /\ request.strut.ascent \in Int /\ request.strut.descent \in Int /\ request.strut.leading \in Int
  BY DEF IsRequest
<1>2. Scale \in Int /\ 0 < Scale
  BY MeasurementAssumption
<1>3. FontRaw(request) \in Nat
  <2>1. request.font \in Int /\ Scale \in Nat
    BY <1>1, <1>2
  <2> QED
    BY Zenon, <2>1, MaxOfNat DEF FontRaw
<1> DEFINE f == FontRaw(request)
<1> HIDE DEF f
<1>4. f \in Nat /\ FontRaw(request) = f
  BY <1>3 DEF f
<1>5. (f * 4) \div 5 \in Nat /\ f \div 5 \in Nat /\ f \div 8 \in Nat /\ f \div 2 \in Nat
  BY <1>4
<1>6. Max({f \div 5, 1}) \in Nat /\ Max({f \div 8, 1}) \in Nat /\ Max({f \div 2, 1}) \in Nat
  <2>1. f \div 5 \in Int /\ f \div 8 \in Int /\ f \div 2 \in Int /\ 1 \in Nat
    BY <1>4
  <2> QED
    BY Zenon, <2>1, MaxOfNat
<1>7. DefaultAscent(request) \in Nat
  <2>1. Max({(f * 4) \div 5, request.strut.ascent}) \in Nat
    BY Zenon, <1>1, <1>5, MaxOfNat
  <2> QED
    BY <1>4, <1>5, <2>1 DEF DefaultAscent
<1>8. DefaultDescent(request) \in Nat
  <2>1. Max({Max({f \div 5, 1}), request.strut.descent}) \in Nat
    BY Zenon, <1>1, <1>6, MaxOfNat
  <2> QED
    BY <1>4, <1>6, <2>1 DEF DefaultDescent
<1>9. DefaultLeading(request) \in Nat
  <2>1. Max({Max({f \div 8, 1}), request.strut.leading}) \in Nat
    BY Zenon, <1>1, <1>6, MaxOfNat
  <2> QED
    BY <1>4, <1>6, <2>1 DEF DefaultLeading
<1>10. Advance(request) \in Nat \ {0}
  <2>1. Max({f \div 2, 1}) + request.spacing \in Int
    BY <1>1, <1>6
  <2> DEFINE a == Max({f \div 2, 1}) + request.spacing
  <2> HIDE DEF a
  <2>2. Advance(request) = Max({a, 1})
    BY <1>4 DEF Advance, a
  <2>3. a \in Int
    BY <2>1 DEF a
  <2>4. Max({a, 1}) \in Nat /\ 1 <= Max({a, 1})
    BY Zenon, <2>3, MaxOfNat, 1 \in Nat
  <2> QED
    BY <2>2, <2>4
<1>11. WidthLimit(request) = Max({request.max_width, Advance(request)})
  BY DEF WidthLimit
<1>12. WidthLimit(request) \in Nat /\ Advance(request) <= WidthLimit(request)
  <2>1. request.max_width \in Int /\ Advance(request) \in Nat
    BY <1>1, <1>10
  <2> QED
    BY Zenon, <2>1, <1>11, MaxOfNat
<1> QED
  BY <1>7, <1>8, <1>9, <1>10, <1>11, <1>12

\* A line that the deterministic backend writes down is valid, and as wide as it says.
LEMMA DefaultLineIs ==
  ASSUME NEW request, IsRequest(request), NEW text, IsText(text),
         NEW start \in 0 .. Len(text), NEW end \in 0 .. Len(text), start <= end,
         NEW width \in Nat, NEW hardBreak
  PROVE  LET line == Line(text, start, end, width, DefaultMetrics(request), hardBreak)
         IN  /\ ValidLine(text, line) /\ line.width = width /\ line.hard_break = hardBreak
             /\ line.range = ByteSpan(text, start, end)
             /\ line.range.start = ByteAt(text, start) /\ line.range.end = ByteAt(text, end)
<1> DEFINE a == DefaultAscent(request)
           d == DefaultDescent(request)
           g == DefaultLeading(request)
           m == DefaultMetrics(request)
           line == Line(text, start, end, width, m, hardBreak)
<1>1. a \in Nat /\ d \in Nat /\ g \in Nat
  BY RequestNumbers
<1>2. m.ascent = a /\ m.descent = d /\ m.line_height = a + d + g /\ m.baseline = a + g \div 2
  BY DEF DefaultMetrics, MetricsOf
<1> HIDE DEF a, d, g, m
<1>3. m.ascent \in Nat /\ m.descent \in Nat /\ m.line_height \in Nat /\ m.baseline \in Nat
  BY <1>1, <1>2
<1>4. /\ line.range = ByteSpan(text, start, end) /\ line.width = width /\ line.hard_break = hardBreak
      /\ line.ascent = m.ascent /\ line.descent = m.descent /\ line.line_height = m.line_height
      /\ line.baseline = m.baseline /\ line.ink.width = width /\ line.ink.height = m.ascent + m.descent
  BY DEF Line
<1>5. line.range.start = ByteAt(text, start) /\ line.range.end = ByteAt(text, end)
  BY <1>4 DEF ByteSpan, Span
<1>6. ValidUtf8Range(text, line.range)
  BY <1>4, SpanIs
<1> HIDE DEF line
<1>7. ValidLine(text, line)
  BY <1>3, <1>4, <1>6 DEF ValidLine
<1> QED
  BY <1>4, <1>5, <1>7 DEF line, m

\* Ending the line at hand keeps everything that holds of the pen.
LEMMA EndLineFits ==
  ASSUME NEW request, IsRequest(request), NEW text, IsText(text), NEW pen, NEW at,
         PenFits(pen, request, text, at), NEW next, NEW hardBreak \in BOOLEAN, IsBreak(text, at, next, hardBreak)
  PROVE  /\ PenFits(EndLine(pen, text, DefaultMetrics(request), at, hardBreak, next), request, text, next)
         /\ EndLine(pen, text, DefaultMetrics(request), at, hardBreak, next).start = next
         /\ EndLine(pen, text, DefaultMetrics(request), at, hardBreak, next).width = 0
         /\ Len(EndLine(pen, text, DefaultMetrics(request), at, hardBreak, next).lines) = Len(pen.lines) + 1
<1> DEFINE line == Line(text, pen.start, at, pen.width, DefaultMetrics(request), hardBreak)
           ended == EndLine(pen, text, DefaultMetrics(request), at, hardBreak, next)
           c == Len(pen.lines)
           limit == WidthLimit(request)
<1>0. /\ at \in 0 .. Len(text) /\ pen.start \in 0 .. at
      /\ pen.width \in Nat /\ pen.width <= limit
      /\ IsList(pen.lines) /\ IsList(pen.clusters)
      /\ \A i \in 1 .. c : LineFits(pen.lines[i], text, limit)
      /\ LinesGoTo(pen.lines, text, pen.start)
      /\ \A i \in 1 .. Len(pen.clusters) : ClusterFits(pen.clusters[i], pen, text, at)
      /\ ClustersRise(pen.clusters)
  BY DEF PenFits
<1>1. Len(text) \in Nat /\ next \in 0 .. Len(text) /\ at <= next /\ pen.start \in 0 .. Len(text) /\ pen.start <= at
      /\ Len(text) \in 0 .. Len(text)
  BY <1>0, TextShape DEF IsBreak
<1>2. /\ ValidLine(text, line) /\ line.width = pen.width /\ line.hard_break = hardBreak
      /\ line.range.start = ByteAt(text, pen.start) /\ line.range.end = ByteAt(text, at)
  BY <1>0, <1>1, DefaultLineIs
<1>3. Between(text, ByteSpan(text, at, next), hardBreak)
  BY BreakIsBetween
<1> HIDE DEF line
<1>4. /\ ended.start = next /\ ended.width = 0
      /\ ended.lines = Append(pen.lines, line) /\ ended.clusters = pen.clusters
  BY <1>0 DEF EndLine, line
<1> HIDE DEF ended
<1>6. /\ IsList(ended.lines) /\ Len(ended.lines) = c + 1 /\ c \in Nat
      /\ \A i \in 1 .. c : ended.lines[i] = pen.lines[i]
      /\ ended.lines[c + 1] = line
  <2> DEFINE longer == Append(pen.lines, line)
  <2>1. /\ IsList(longer) /\ Len(longer) = c + 1 /\ c \in Nat
        /\ \A i \in 1 .. c : longer[i] = pen.lines[i]
        /\ longer[c + 1] = line
    BY Zenon, <1>0, ListAppended
  <2>2. ended.lines = longer
    BY <1>4
  <2> HIDE DEF longer
  <2> QED
    BY <2>1, <2>2
<1>7. ASSUME NEW i \in 1 .. c + 1 PROVE LineFits(ended.lines[i], text, limit)
  <2>1. CASE i = c + 1
    BY <1>0, <1>2, <1>6, <2>1 DEF LineFits
  <2>2. CASE i # c + 1
    <3>1. i \in 1 .. c
      BY <1>6, <2>2
    <3> QED
      BY <1>0, <1>6, <3>1
  <2> QED
    BY <2>1, <2>2
<1>8. LinesGoTo(ended.lines, text, next)
  <2>0. Span(line.range.end, ByteAt(text, next)) = ByteSpan(text, at, next)
    BY <1>2 DEF ByteSpan
  <2>1. ended.lines # <<>> /\ ended.lines[Len(ended.lines)] = line
    BY <1>6, EmptyList
  <2>2. Between(text, Span(ended.lines[Len(ended.lines)].range.end, ByteAt(text, next)), ended.lines[Len(ended.lines)].hard_break)
    BY <1>2, <1>3, <2>0, <2>1
  <2>3. CASE pen.lines = <<>>
    <3>1. c = 0 /\ pen.start = 0
      BY <1>0, <2>3 DEF LinesGoTo
    <3>2. ended.lines[1].range.start = 0
      BY <1>1, <1>2, <1>6, <3>1, BytesAre
    <3>3. \A i \in 1 .. Len(ended.lines) : ~(i > 1)
      BY <1>6, <3>1
    <3> QED
      BY <2>1, <2>2, <3>2, <3>3 DEF LinesGoTo
  <2>4. CASE pen.lines # <<>>
    <3>1. c # 0
      BY <1>0, <2>4, EmptyListIs
    <3>2. /\ pen.lines[1].range.start = 0
          /\ Between(text, Span(pen.lines[c].range.end, line.range.start), pen.lines[c].hard_break)
      BY <1>0, <1>2, <2>4 DEF LinesGoTo
    <3>3. ended.lines[1].range.start = 0
      <4>1. 1 \in 1 .. c
        BY <1>6, <3>1
      <4> QED
        BY <1>6, <3>2, <4>1
    <3>4. ASSUME NEW i \in 1 .. Len(ended.lines), i > 1
          PROVE  Between(text, Span(ended.lines[i - 1].range.end, ended.lines[i].range.start), ended.lines[i - 1].hard_break)
      <4>1. CASE i = c + 1
        <5>1. i - 1 = c /\ c \in 1 .. c
          BY <1>6, <3>1, <4>1
        <5>2. ended.lines[i - 1] = pen.lines[c] /\ ended.lines[i] = line
          BY <1>6, <4>1, <5>1
        <5> QED
          BY <3>2, <5>2
      <4>2. CASE i # c + 1
        <5>1. i \in 1 .. c /\ i - 1 \in 1 .. c
          BY <1>6, <3>4, <4>2
        <5>2. ended.lines[i - 1] = pen.lines[i - 1] /\ ended.lines[i] = pen.lines[i]
          BY <1>6, <5>1
        <5> QED
          BY <1>0, <3>4, <5>1, <5>2 DEF LinesGoTo
      <4> QED
        BY <4>1, <4>2
    <3> QED
      BY <2>1, <2>2, <3>3, <3>4 DEF LinesGoTo
  <2> QED
    BY <2>3, <2>4
<1>9. ASSUME NEW i \in 1 .. Len(pen.clusters) PROVE ClusterFits(pen.clusters[i], ended, text, next)
  <2> DEFINE k == pen.clusters[i]
  <2> HIDE DEF k
  <2>1. /\ ValidUtf8Range(text, k.range)
        /\ k.range.start < ByteAt(text, at) /\ k.range.end <= ByteAt(text, at)
        /\ k.line_index \in 0 .. c
        /\ k.x_start \in Nat /\ k.x_end \in Nat /\ k.x_start <= k.x_end
        /\ k.line_index < c => Inside(k.range, pen.lines[k.line_index + 1].range)
        /\ k.line_index = c => ByteAt(text, pen.start) <= k.range.start
    BY <1>0 DEF ClusterFits, k
  <2>2. PICK s \in 0 .. Len(text), e \in 0 .. Len(text) : k.range.start = ByteAt(text, s) /\ k.range.end = ByteAt(text, e)
    BY <2>1, RangeIs
  <2>3. /\ ByteAt(text, at) \in Nat /\ ByteAt(text, next) \in Nat /\ k.range.start \in Nat /\ k.range.end \in Nat
        /\ ByteAt(text, at) <= ByteAt(text, next)
    BY <1>0, <1>1, <2>2, BytesRise, PositionOf
  <2>4. k.range.start < ByteAt(text, next) /\ k.range.end <= ByteAt(text, next)
    BY <2>1, <2>3
  <2>5. k.line_index \in 0 .. Len(ended.lines) /\ k.line_index # Len(ended.lines) /\ k.line_index + 1 \in 1 .. c + 1
    BY <1>6, <2>1, SMTT(60)
  <2>6. Inside(k.range, ended.lines[k.line_index + 1].range)
    <3>1. CASE k.line_index < c
      <4>1. k.line_index + 1 \in 1 .. c
        BY <1>6, <2>1, <3>1, SMTT(60)
      <4> QED
        BY <1>6, <2>1, <3>1, <4>1
    <3>2. CASE k.line_index = c
      BY <1>2, <1>6, <2>1, <3>2 DEF Inside
    <3> QED
      BY <1>6, <2>1, <3>1, <3>2
  <2>7. ClusterFits(k, ended, text, next)
    BY <2>1, <2>4, <2>5, <2>6 DEF ClusterFits
  <2> QED
    BY <2>7 DEF k
<1>10. PenFits(ended, request, text, next)
  <2>1. limit \in Nat
    BY RequestNumbers
  <2>2. ended.start \in 0 .. next /\ ended.width \in Nat /\ ended.width <= limit
    BY <1>1, <1>4, <2>1
  <2>3. LinesGoTo(ended.lines, text, ended.start)
    BY <1>4, <1>8
  <2> QED
    BY <1>0, <1>1, <1>4, <1>6, <1>7, <1>9, <2>2, <2>3 DEF PenFits
<1> QED
  BY <1>4, <1>6, <1>10 DEF ended

\* A character that still fits the line goes behind those drawn before.
LEMMA CharacterFits ==
  ASSUME NEW request, IsRequest(request), NEW text, IsText(text), NEW pen, NEW at,
         PenFits(pen, request, text, at), at < Len(text), text[at + 1] # LF,
         pen.width + Advance(request) <= WidthLimit(request)
  PROVE  PenFits(Draw(pen, request, text, at), request, text, at + 1)
<1> DEFINE c == Len(pen.lines)
           m == Len(pen.clusters)
           limit == WidthLimit(request)
           adv == Advance(request)
           new == Cluster(text, at, at + 1, c, pen.width, pen.width + adv)
           drawn == Draw(pen, request, text, at)
<1>0. /\ at \in 0 .. Len(text) /\ pen.start \in 0 .. at
      /\ pen.width \in Nat /\ pen.width <= limit
      /\ IsList(pen.lines) /\ IsList(pen.clusters)
      /\ \A i \in 1 .. c : LineFits(pen.lines[i], text, limit)
      /\ LinesGoTo(pen.lines, text, pen.start)
      /\ \A i \in 1 .. m : ClusterFits(pen.clusters[i], pen, text, at)
      /\ ClustersRise(pen.clusters)
  BY DEF PenFits
<1>1. /\ Len(text) \in Nat /\ at + 1 \in 0 .. Len(text) /\ at \in Nat /\ pen.start \in 0 .. at + 1 /\ pen.start \in 0 .. Len(text)
      /\ pen.start <= at
  BY <1>0, TextShape
<1>2. adv \in Nat \ {0} /\ limit \in Nat
  BY RequestNumbers
<1>3. /\ new.range = ByteSpan(text, at, at + 1) /\ new.range.start = ByteAt(text, at) /\ new.range.end = ByteAt(text, at + 1)
      /\ new.line_index = c /\ new.x_start = pen.width /\ new.x_end = pen.width + adv
  BY DEF Cluster, ByteSpan, Span
<1> HIDE DEF adv, limit
<1>4. /\ drawn.start = pen.start /\ drawn.width = pen.width + adv /\ drawn.lines = pen.lines
      /\ drawn.clusters = Append(pen.clusters, new)
  BY DEF Draw, adv
<1>5. /\ ByteAt(text, at) \in Nat /\ ByteAt(text, at + 1) \in Nat /\ ByteAt(text, pen.start) \in Nat
      /\ ByteAt(text, at) < ByteAt(text, at + 1) /\ ByteAt(text, pen.start) <= ByteAt(text, at)
  <2>1. at < at + 1
    BY <1>1
  <2> QED
    BY <1>0, <1>1, <2>1, BytesRise, PositionOf
<1>6. ValidUtf8Range(text, new.range)
  <2>1. at <= at + 1
    BY <1>1
  <2> QED
    BY <1>0, <1>1, <1>3, <2>1, SpanIs
<1> HIDE DEF new, drawn
<1>7. /\ IsList(drawn.clusters) /\ Len(drawn.clusters) = m + 1 /\ m \in Nat
      /\ \A i \in 1 .. m : drawn.clusters[i] = pen.clusters[i]
      /\ drawn.clusters[m + 1] = new
  <2> DEFINE longer == Append(pen.clusters, new)
  <2>1. /\ IsList(longer) /\ Len(longer) = m + 1 /\ m \in Nat
        /\ \A i \in 1 .. m : longer[i] = pen.clusters[i]
        /\ longer[m + 1] = new
    BY Zenon, <1>0, ListAppended
  <2>2. drawn.clusters = longer
    BY <1>4
  <2> HIDE DEF longer
  <2> QED
    BY <2>1, <2>2
<1>8. c \in Nat
  BY <1>0, ListShape
<1>9. ASSUME NEW i \in 1 .. m
      PROVE  /\ ClusterFits(pen.clusters[i], drawn, text, at + 1)
             /\ pen.clusters[i].range.start < new.range.start /\ InVisualOrder(pen.clusters[i], new)
  <2> DEFINE k == pen.clusters[i]
  <2> HIDE DEF k
  <2>1. /\ ValidUtf8Range(text, k.range)
        /\ k.range.start < ByteAt(text, at) /\ k.range.end <= ByteAt(text, at)
        /\ k.line_index \in 0 .. c
        /\ k.x_start \in Nat /\ k.x_end \in Nat /\ k.x_start <= k.x_end
        /\ k.line_index < c => Inside(k.range, pen.lines[k.line_index + 1].range)
        /\ k.line_index = c => ByteAt(text, pen.start) <= k.range.start /\ k.x_end <= pen.width
    BY <1>0 DEF ClusterFits, k
  <2>2. PICK s \in 0 .. Len(text), e \in 0 .. Len(text) : k.range.start = ByteAt(text, s) /\ k.range.end = ByteAt(text, e)
    BY <2>1, RangeIs
  <2>3. k.range.start \in Nat /\ k.range.end \in Nat
    BY <2>2, BytesRise
  <2>4. k.range.start < ByteAt(text, at + 1) /\ k.range.end <= ByteAt(text, at + 1)
    BY <1>5, <2>1, <2>3, SMTT(60)
  <2>5. k.line_index = c => k.x_end <= pen.width + adv
    BY <1>0, <1>2, <2>1
  <2>6. ClusterFits(k, drawn, text, at + 1)
    BY <1>4, <2>1, <2>4, <2>5 DEF ClusterFits
  <2>7. InVisualOrder(k, new)
    BY <1>0, <1>3, <1>8, <2>1, SMTT(60) DEF InVisualOrder
  <2>8. k.range.start < new.range.start
    BY <1>3, <2>1
  <2> QED
    BY <2>6, <2>7, <2>8 DEF k
<1>10. ClusterFits(new, drawn, text, at + 1)
  <2>1. /\ new.range.start < ByteAt(text, at + 1) /\ new.range.end <= ByteAt(text, at + 1)
        /\ new.line_index \in 0 .. c /\ new.line_index = c
        /\ new.x_start \in Nat /\ new.x_end \in Nat /\ new.x_start <= new.x_end
        /\ ByteAt(text, pen.start) <= new.range.start /\ new.x_end <= pen.width + adv
    BY <1>0, <1>2, <1>3, <1>5, <1>8, SMTT(60)
  <2> QED
    BY <1>4, <1>6, <1>8, <2>1 DEF ClusterFits
<1>11. ASSUME NEW i \in 1 .. m + 1 PROVE ClusterFits(drawn.clusters[i], drawn, text, at + 1)
  <2>1. CASE i = m + 1
    BY <1>7, <1>10, <2>1
  <2>2. CASE i # m + 1
    <3>1. i \in 1 .. m
      BY <1>7, <2>2
    <3> QED
      BY <1>7, <1>9, <3>1
  <2> QED
    BY <2>1, <2>2
<1>12. ASSUME NEW i \in 1 .. m + 1, NEW j \in 1 .. m + 1, i < j
       PROVE  /\ drawn.clusters[i].range.start < drawn.clusters[j].range.start
              /\ InVisualOrder(drawn.clusters[i], drawn.clusters[j])
  <2>1. i \in 1 .. m
    BY <1>7, <1>12
  <2>2. CASE j = m + 1
    <3>1. drawn.clusters[i] = pen.clusters[i] /\ drawn.clusters[j] = new
      BY <1>7, <2>1, <2>2
    <3> QED
      BY <1>9, <2>1, <3>1
  <2>3. CASE j # m + 1
    <3>1. j \in 1 .. m
      BY <1>7, <2>3
    <3>2. drawn.clusters[i] = pen.clusters[i] /\ drawn.clusters[j] = pen.clusters[j]
      BY <1>7, <2>1, <3>1
    <3> QED
      BY <1>0, <1>12, <2>1, <3>1, <3>2 DEF ClustersRise
  <2> QED
    BY <2>2, <2>3
<1>13. ClustersRise(drawn.clusters)
  BY <1>7, <1>12 DEF ClustersRise
<1>14. drawn.width \in Nat /\ drawn.width <= WidthLimit(request)
  BY <1>0, <1>2, <1>4 DEF adv, limit
<1>15. \A i \in 1 .. Len(drawn.lines) : LineFits(drawn.lines[i], text, WidthLimit(request))
  BY <1>0, <1>4 DEF limit
<1>16. PenFits(drawn, request, text, at + 1)
  BY <1>0, <1>1, <1>4, <1>7, <1>11, <1>13, <1>14, <1>15 DEF PenFits
<1> QED
  BY <1>16 DEF drawn

\* Wrapping makes room for the next character, whatever the limit is.
LEMMA WrapFits ==
  ASSUME NEW request, IsRequest(request), NEW text, IsText(text), NEW pen, NEW at,
         PenFits(pen, request, text, at), at < Len(text), pen.start = at => pen.width = 0
  PROVE  /\ PenFits(Wrap(pen, request, text, at), request, text, at)
         /\ text[at + 1] # LF => Wrap(pen, request, text, at).width + Advance(request) <= WidthLimit(request)
<1>0. at \in 0 .. Len(text) /\ pen.start \in 0 .. at /\ pen.width \in Nat /\ Len(text) \in Nat
  BY TextShape DEF PenFits
<1>1. Advance(request) \in Nat /\ WidthLimit(request) \in Nat /\ Advance(request) <= WidthLimit(request)
  BY RequestNumbers
<1>2. CASE text[at + 1] # LF /\ pen.width + Advance(request) > WidthLimit(request) /\ at > pen.start
  <2> DEFINE ended == EndLine(pen, text, DefaultMetrics(request), at, FALSE, at)
  <2>1. IsBreak(text, at, at, FALSE) /\ FALSE \in BOOLEAN
    BY <1>0 DEF IsBreak
  <2>4. ASSUME NEW hardBreak \in BOOLEAN, IsBreak(text, at, at, hardBreak)
        PROVE  /\ PenFits(EndLine(pen, text, DefaultMetrics(request), at, hardBreak, at), request, text, at)
               /\ EndLine(pen, text, DefaultMetrics(request), at, hardBreak, at).width = 0
    BY <2>4, EndLineFits
  <2>2. PenFits(ended, request, text, at) /\ ended.width = 0
    BY Zenon, <2>1, <2>4
  <2>3. Wrap(pen, request, text, at) = ended
    BY <1>2 DEF Wrap
  <2> HIDE DEF ended
  <2> QED
    BY <1>1, <2>2, <2>3
<1>3. CASE ~(text[at + 1] # LF /\ pen.width + Advance(request) > WidthLimit(request) /\ at > pen.start)
  <2>1. Wrap(pen, request, text, at) = pen
    BY <1>3 DEF Wrap
  <2>2. text[at + 1] # LF => pen.width + Advance(request) <= WidthLimit(request)
    BY <1>0, <1>1, <1>3
  <2> QED
    BY <2>1, <2>2
<1> QED
  BY <1>2, <1>3

\* Before each character, the pen fits; at the start of its line it has no width.
PenGoes(pen, request, text, at) == PenFits(pen, request, text, at) /\ (pen.start = at => pen.width = 0)

LEMMA DrawGoesOn ==
  ASSUME NEW request, IsRequest(request), NEW text, IsText(text), NEW pen, NEW at,
         PenGoes(pen, request, text, at), at < Len(text)
  PROVE  PenGoes(Draw(Wrap(pen, request, text, at), request, text, at), request, text, at + 1)
<1> DEFINE wrapped == Wrap(pen, request, text, at)
           drawn == Draw(wrapped, request, text, at)
<1>0. at \in 0 .. Len(text) /\ Len(text) \in Nat
  BY TextShape DEF PenGoes, PenFits
<1>1. /\ PenFits(wrapped, request, text, at)
      /\ text[at + 1] # LF => wrapped.width + Advance(request) <= WidthLimit(request)
  BY WrapFits DEF PenGoes
<1> HIDE DEF wrapped
<1>2. CASE text[at + 1] = LF
  <2> DEFINE ended == EndLine(wrapped, text, DefaultMetrics(request), at, TRUE, at + 1)
  <2>1. IsBreak(text, at, at + 1, TRUE) /\ TRUE \in BOOLEAN
    BY <1>0, <1>2 DEF IsBreak
  <2>4. ASSUME NEW hardBreak \in BOOLEAN, IsBreak(text, at, at + 1, hardBreak)
        PROVE  /\ PenFits(EndLine(wrapped, text, DefaultMetrics(request), at, hardBreak, at + 1), request, text, at + 1)
               /\ EndLine(wrapped, text, DefaultMetrics(request), at, hardBreak, at + 1).width = 0
    BY <1>1, <2>4, EndLineFits
  <2>2. PenFits(ended, request, text, at + 1) /\ ended.width = 0
    BY Zenon, <2>1, <2>4
  <2>3. drawn = ended
    BY <1>2 DEF Draw
  <2> HIDE DEF ended, drawn
  <2>5. PenGoes(drawn, request, text, at + 1)
    BY <2>2, <2>3 DEF PenGoes
  <2> QED
    BY <2>5 DEF drawn, wrapped
<1>3. CASE text[at + 1] # LF
  <2>1. PenFits(drawn, request, text, at + 1)
    BY <1>1, <1>3, CharacterFits
  <2>2. drawn.start = wrapped.start
    BY <1>3 DEF Draw
  <2>3. wrapped.start # at + 1
    BY <1>0, <1>1 DEF PenFits
  <2> HIDE DEF drawn
  <2>4. PenGoes(drawn, request, text, at + 1)
    BY <2>1, <2>2, <2>3 DEF PenGoes
  <2> QED
    BY <2>4 DEF drawn, wrapped
<1> QED
  BY <1>2, <1>3

-----------------------------------------------------------------------------
(* The pen, character by character *)

\* The pen before a character, from the pen before the one drawn last.
NextPen(request, text, at, pens) ==
  IF at = 0 THEN Pen ELSE Draw(Wrap(pens[at - 1], request, text, at - 1), request, text, at - 1)

LEMMA PensExist ==
  ASSUME NEW request, NEW text, NEW n \in Nat
  PROVE  \E pens : pens = [at \in 0 .. n |-> NextPen(request, text, at, pens)]
<1> DEFINE Upto(m) == \E pens : pens = [at \in 0 .. m |-> NextPen(request, text, at, pens)]
           S == {m \in Nat : Upto(m)}
<1>1. 0 \in S
  <2> DEFINE pens == [at \in 0 .. 0 |-> Pen]
  <2>1. pens = [at \in 0 .. 0 |-> NextPen(request, text, at, pens)]
    BY DEF NextPen
  <2> HIDE DEF pens
  <2>2. Upto(0)
    BY <2>1
  <2> QED
    BY <2>2
<1>2. ASSUME NEW m \in Nat, m \in S PROVE m + 1 \in S
  <2>1. PICK pens : pens = [at \in 0 .. m |-> NextPen(request, text, at, pens)]
    BY <1>2
  <2> DEFINE more == [at \in 0 .. m + 1 |-> IF at \in 0 .. m THEN pens[at] ELSE NextPen(request, text, at, pens)]
  <2>2. ASSUME NEW at \in 0 .. m + 1 PROVE more[at] = NextPen(request, text, at, more)
    <3>1. more[at] = NextPen(request, text, at, pens)
      BY <2>1
    <3>2. at # 0 => at - 1 \in 0 .. m /\ more[at - 1] = pens[at - 1]
      OBVIOUS
    <3> QED
      BY <3>1, <3>2 DEF NextPen
  <2>3. more = [at \in 0 .. m + 1 |-> NextPen(request, text, at, more)]
    BY <2>2
  <2> HIDE DEF more
  <2>4. Upto(m + 1)
    BY <2>3
  <2> QED
    BY <2>4
<1> HIDE DEF S
<1>3. Nat \subseteq S
  BY <1>1, <1>2, Induction
<1> QED
  BY <1>3 DEF S

\* What is drawn is drawn one character after the other.
LEMMA DrawnBy ==
  ASSUME NEW request, NEW text, Len(text) \in Nat
  PROVE  \E pens : /\ pens[0] = Pen
                   /\ \A at \in 0 .. Len(text) : at # 0 =>
                        pens[at] = Draw(Wrap(pens[at - 1], request, text, at - 1), request, text, at - 1)
                   /\ Drawn(request, text) = pens[Len(text)]
<1> DEFINE pens == CHOOSE f : f = [at \in 0 .. Len(text) |-> NextPen(request, text, at, f)]
<1>1. \E f : f = [at \in 0 .. Len(text) |-> NextPen(request, text, at, f)]
  BY PensExist
<1>2. pens = [at \in 0 .. Len(text) |-> NextPen(request, text, at, pens)]
  BY <1>1
<1>3. Drawn(request, text) = pens[Len(text)]
  BY Zenon DEF Drawn, NextPen
<1> HIDE DEF pens
<1>4. pens[0] = Pen /\ \A at \in 0 .. Len(text) : at # 0 =>
        pens[at] = Draw(Wrap(pens[at - 1], request, text, at - 1), request, text, at - 1)
  BY <1>2 DEF NextPen
<1> QED
  BY <1>3, <1>4

\* The pen fits when the whole text is drawn.
LEMMA DrawnFits ==
  ASSUME NEW request, IsRequest(request), NEW text, IsText(text)
  PROVE  PenGoes(Drawn(request, text), request, text, Len(text))
<1>0. Len(text) \in Nat
  BY TextShape
<1>1. PICK pens : /\ pens[0] = Pen
                  /\ \A at \in 0 .. Len(text) : at # 0 =>
                       pens[at] = Draw(Wrap(pens[at - 1], request, text, at - 1), request, text, at - 1)
                  /\ Drawn(request, text) = pens[Len(text)]
  BY <1>0, DrawnBy
<1> DEFINE n == Len(text)
           S == {at \in 0 .. n : PenGoes(pens[at], request, text, at)}
<1>5. PenGoes(Pen, request, text, 0)
  <2>1. Pen.start = 0 /\ Pen.width = 0 /\ Pen.lines = <<>> /\ Pen.clusters = <<>>
    BY DEF Pen
  <2>2. LinesGoTo(<<>>, text, 0)
    BY EmptyList DEF LinesGoTo
  <2>3. ClustersRise(<<>>)
    BY EmptyList DEF ClustersRise
  <2>4. WidthLimit(request) \in Nat
    BY RequestNumbers
  <2>5. 0 \in 0 .. Len(text) /\ 0 \in 0 .. 0 /\ 0 \in Nat /\ 0 <= WidthLimit(request) /\ 1 .. 0 = {}
    BY <1>0, <2>4
  <2>6. PenFits(Pen, request, text, 0)
    BY <2>1, <2>2, <2>3, <2>5, EmptyList DEF PenFits
  <2> QED
    BY <2>1, <2>6 DEF PenGoes
<1>6. 0 \in S
  <2>1. pens[0] = Pen
    BY <1>1
  <2> QED
    BY <1>0, <1>5, <2>1
<1>7. ASSUME NEW at \in 0 .. n, at + 1 \in 0 .. n, at \in S PROVE at + 1 \in S
  <2>1. pens[at + 1] = Draw(Wrap(pens[at], request, text, at), request, text, at)
    <3>1. at + 1 # 0 /\ (at + 1) - 1 = at
      BY <1>0, <1>7
    <3> QED
      BY <1>1, <1>7, <3>1
  <2>2. at < Len(text) /\ PenGoes(pens[at], request, text, at)
    BY <1>0, <1>7
  <2>3. PenGoes(pens[at + 1], request, text, at + 1)
    BY <2>1, <2>2, DrawGoesOn
  <2> QED
    BY <1>7, <2>3
<1> HIDE DEF S
<1>8. 0 .. n \subseteq S
  BY <1>0, <1>6, <1>7, UpTo
<1>9. n \in S
  BY <1>0, <1>8
<1> QED
  BY <1>1, <1>9 DEF S

\* What a result of the deterministic backend, or of the bridge, comes to.
Measured(request, measured) ==
  /\ measured.id = request.id /\ measured.request = request.fingerprint
  /\ ValidUtf8Range(request.text, request.range) =>
       /\ ValidateMeasuredText(request, measured)
       /\ measured.lines # <<>> => LinesCoverText(MeasuredPart(request), measured.lines)
       /\ ClustersInLines(measured)

\* So it does once the last line is ended, and then there is a line.
LEMMA LastLineFits ==
  ASSUME NEW request, IsRequest(request), NEW text, IsText(text), NEW pen, PenGoes(pen, request, text, Len(text))
  PROVE  /\ PenFits(LastLine(pen, request, text), request, text, Len(text))
         /\ LastLine(pen, request, text).start = Len(text)
         /\ LastLine(pen, request, text).lines # <<>>
<1> DEFINE n == Len(text)
           last == LastLine(pen, request, text)
<1>0. n \in Nat /\ n \in 0 .. n /\ pen.start \in 0 .. n /\ IsList(pen.lines)
  BY TextShape DEF PenGoes, PenFits
<1>1. CASE pen.start < n \/ pen.lines = <<>>
  <2> DEFINE ended == EndLine(pen, text, DefaultMetrics(request), n, FALSE, n)
  <2>1. IsBreak(text, n, n, FALSE) /\ FALSE \in BOOLEAN
    BY <1>0 DEF IsBreak
  <2>2. ASSUME NEW hardBreak \in BOOLEAN, IsBreak(text, n, n, hardBreak)
        PROVE  /\ PenFits(EndLine(pen, text, DefaultMetrics(request), n, hardBreak, n), request, text, n)
               /\ EndLine(pen, text, DefaultMetrics(request), n, hardBreak, n).start = n
               /\ Len(EndLine(pen, text, DefaultMetrics(request), n, hardBreak, n).lines) = Len(pen.lines) + 1
    BY <2>2, EndLineFits DEF PenGoes
  <2>3. PenFits(ended, request, text, n) /\ ended.start = n /\ Len(ended.lines) = Len(pen.lines) + 1
    BY Zenon, <2>1, <2>2
  <2>4. last = ended
    BY <1>1 DEF LastLine
  <2> HIDE DEF ended
  <2>5. Len(pen.lines) \in Nat
    BY <1>0, ListShape
  <2>6. ended.lines # <<>>
    BY <2>3, <2>5, EmptyList
  <2> QED
    BY <2>3, <2>4, <2>6
<1>2. CASE ~(pen.start < n \/ pen.lines = <<>>)
  <2>1. last = pen
    BY <1>2 DEF LastLine
  <2> QED
    BY <1>0, <1>2, <2>1 DEF PenGoes
<1> QED
  BY <1>1, <1>2

\* The deterministic backend's result fits its request, and no line is wider than the limit.
LEMMA DefaultIsMeasured ==
  ASSUME NEW request, IsRequest(request)
  PROVE  /\ Measured(request, MeasureDeterministic(request))
         /\ \A line \in Range(MeasureDeterministic(request).lines) : line.width <= Max({request.max_width, Advance(request)})
<1> DEFINE text == DefaultPart(request)
           n == Len(text)
           pen == LastLine(Drawn(request, text), request, text)
           measured == MeasureDeterministic(request)
           c == Len(pen.lines)
           m == Len(pen.clusters)
<1>0. IsText(text) /\ n \in Nat
  BY MeasuredIsText, TextShape
<1>1. PenFits(pen, request, text, n) /\ pen.start = n /\ pen.lines # <<>>
  BY <1>0, DrawnFits, LastLineFits
<1>2. /\ measured.id = request.id /\ measured.request = request.fingerprint
      /\ measured.lines = pen.lines /\ measured.clusters = pen.clusters
      /\ measured.line_count = Len(pen.lines) /\ measured.utf8_len = ByteLength(text)
  BY DEF MeasureDeterministic, MeasuredByDefault, DefaultResult, MeasuredText
<1>3. ValidUtf8Range(request.text, request.range) => text = MeasuredPart(request)
  BY MeasuredIsText
<1> HIDE DEF measured, pen, text
<1>4. /\ IsList(pen.lines) /\ IsList(pen.clusters)
      /\ \A i \in 1 .. c : LineFits(pen.lines[i], text, WidthLimit(request))
      /\ LinesGoTo(pen.lines, text, n)
      /\ \A i \in 1 .. m : ClusterFits(pen.clusters[i], pen, text, n)
      /\ ClustersRise(pen.clusters)
  BY <1>1 DEF PenFits
<1>5. DOMAIN pen.lines = 1 .. c /\ DOMAIN pen.clusters = 1 .. m /\ c \in Nat /\ m \in Nat /\ c # 0
  BY <1>1, <1>4, ListShape, EmptyListIs
<1>6. ASSUME NEW i \in 1 .. m
      PROVE  /\ ValidCluster(text, pen.clusters[i], c)
             /\ Inside(pen.clusters[i].range, pen.lines[pen.clusters[i].line_index + 1].range)
  <2> DEFINE k == pen.clusters[i]
  <2> HIDE DEF k
  <2>1. /\ ValidUtf8Range(text, k.range)
        /\ k.range.start < ByteAt(text, n)
        /\ k.line_index \in 0 .. c
        /\ k.x_start \in Nat /\ k.x_end \in Nat /\ k.x_start <= k.x_end
        /\ k.line_index < c => Inside(k.range, pen.lines[k.line_index + 1].range)
        /\ k.line_index = c => ByteAt(text, n) <= k.range.start
    BY <1>1, <1>4 DEF ClusterFits, k
  <2>2. k.range.start \in Nat /\ ByteAt(text, n) \in Nat
    <3>1. PICK s \in 0 .. Len(text) : k.range.start = ByteAt(text, s)
      BY <1>0, <2>1, RangeIs
    <3> QED
      BY <1>0, <3>1, BytesRise
  <2>3. k.line_index < c
    BY <1>5, <2>1, <2>2
  <2> QED
    BY <2>1, <2>3 DEF ValidCluster, k
<1>7. ASSUME NEW i \in 1 .. c, i > 1 PROVE pen.lines[i - 1].range.end <= pen.lines[i].range.start
  <2>1. Between(text, Span(pen.lines[i - 1].range.end, pen.lines[i].range.start), pen.lines[i - 1].hard_break)
    BY <1>4, <1>7 DEF LinesGoTo
  <2> DEFINE range == Span(pen.lines[i - 1].range.end, pen.lines[i].range.start)
  <2>2. range.start = pen.lines[i - 1].range.end /\ range.end = pen.lines[i].range.start
    BY DEF Span
  <2> HIDE DEF range
  <2>3. range.start <= range.end
    BY <1>0, <2>1, BetweenGoesOn DEF range
  <2> QED
    BY <2>2, <2>3
<1>8. ASSUME NEW i \in 1 .. m, i > 1 PROVE InVisualOrder(pen.clusters[i - 1], pen.clusters[i])
  <2>1. i - 1 \in 1 .. m /\ i - 1 < i
    BY <1>5, <1>8
  <2> QED
    BY <1>4, <2>1 DEF ClustersRise
<1>9. ASSUME NEW i \in 1 .. m, NEW j \in 1 .. m, pen.clusters[i].range = pen.clusters[j].range PROVE i = j
  <2>1. ASSUME NEW k \in 1 .. m PROVE pen.clusters[k].range.start \in Nat
    <3>1. ValidUtf8Range(text, pen.clusters[k].range)
      BY <1>4 DEF ClusterFits
    <3>2. PICK s \in 0 .. Len(text) : pen.clusters[k].range.start = ByteAt(text, s)
      BY <1>0, <3>1, RangeIs
    <3> QED
      BY <1>0, <3>2, BytesRise
  <2>2. i < j => pen.clusters[i].range.start < pen.clusters[j].range.start
    BY <1>4 DEF ClustersRise
  <2>3. j < i => pen.clusters[j].range.start < pen.clusters[i].range.start
    BY <1>4 DEF ClustersRise
  <2>4. pen.clusters[i].range.start \in Nat
    BY <2>1
  <2>5. ~(i < j) /\ ~(j < i)
    BY <1>9, <2>2, <2>3, <2>4
  <2> QED
    BY <1>5, <2>5
<1>10. ClustersInLines(measured)
  BY <1>2, <1>5, <1>6, <1>9 DEF ClustersInLines
<1>11. LinesCoverText(text, measured.lines)
  <2>1. Last(pen.lines) = pen.lines[c]
    BY DEF Last
  <2>2. /\ pen.lines[1].range.start = 0
        /\ Between(text, Span(pen.lines[c].range.end, ByteAt(text, n)), pen.lines[c].hard_break)
    BY <1>1, <1>4 DEF LinesGoTo
  <2>3. ASSUME NEW i \in 1 .. c - 1
        PROVE  Between(text, Span(pen.lines[i].range.end, pen.lines[i + 1].range.start), pen.lines[i].hard_break)
    <3>1. i + 1 \in 1 .. c /\ i + 1 > 1 /\ (i + 1) - 1 = i
      BY <1>5
    <3> QED
      BY <1>4, <3>1 DEF LinesGoTo
  <2> QED
    BY <1>2, <2>1, <2>2, <2>3 DEF LinesCoverText, ByteLength
<1>12. ASSUME ValidUtf8Range(request.text, request.range) PROVE ValidateMeasuredText(request, measured)
  <2>1. text = MeasuredPart(request)
    BY <1>3, <1>12
  <2>2. \A i \in 1 .. c : ValidLine(text, pen.lines[i])
    BY <1>4 DEF LineFits
  <2> QED
    BY <1>2, <1>5, <1>6, <1>7, <1>8, <1>12, <2>1, <2>2 DEF ValidateMeasuredText
<1>13. Measured(request, measured)
  BY <1>2, <1>3, <1>10, <1>11, <1>12 DEF Measured
<1>14. \A line \in Range(measured.lines) : line.width <= Max({request.max_width, Advance(request)})
  <2>1. ASSUME NEW line \in Range(pen.lines) PROVE line.width <= WidthLimit(request)
    <3>1. PICK i \in 1 .. c : line = pen.lines[i]
      BY <1>5 DEF Range
    <3> QED
      BY <1>4, <3>1 DEF LineFits
  <2> QED
    BY <1>2, <2>1, RequestNumbers
<1> QED
  BY <1>13, <1>14 DEF measured

-----------------------------------------------------------------------------
(* The painter's lines *)

\* A hard break is one or two characters of the text.
LEMMA HardBreakIs ==
  ASSUME NEW text, IsText(text), NEW at \in Nat
  PROVE  /\ HardBreakLength(text, at) \in 0 .. 2
         /\ HardBreakLength(text, at) > 0 => at + HardBreakLength(text, at) <= Len(text)
         /\ HardBreakLength(text, at) = 1 => text[at + 1] \in {LF, CR}
         /\ HardBreakLength(text, at) = 2 =>
              text[at + 1] = CR /\ text[at + 2] = LF /\ HardBreakLength(text, at + 1) = 1
<1>0. Len(text) \in Nat
  BY TextShape
<1>1. CASE at >= Len(text) \/ text[at + 1] \notin {LF, CR}
  BY <1>1 DEF HardBreakLength
<1>2. CASE at < Len(text) /\ text[at + 1] \in {LF, CR} /\ text[at + 1] = CR /\ at + 1 < Len(text) /\ text[at + 2] = LF
  <2>1. HardBreakLength(text, at) = 2
    BY <1>0, <1>2 DEF HardBreakLength
  <2>2. (at + 1) + 1 = at + 2 /\ ~(at + 1 >= Len(text)) /\ LF # CR
    BY <1>0, <1>2, MeasurementAssumption
  <2>3. HardBreakLength(text, at + 1) = 1
    BY <1>2, <2>2 DEF HardBreakLength
  <2>4. at + 2 <= Len(text)
    BY <1>0, <1>2
  <2> QED
    BY <1>2, <2>1, <2>3, <2>4
<1>3. CASE /\ at < Len(text) /\ text[at + 1] \in {LF, CR}
           /\ ~(text[at + 1] = CR /\ at + 1 < Len(text) /\ text[at + 2] = LF)
  <2>1. HardBreakLength(text, at) = 1
    BY <1>0, <1>3 DEF HardBreakLength
  <2>2. at + 1 <= Len(text)
    BY <1>0, <1>3
  <2> QED
    BY <1>3, <2>1, <2>2
<1> QED
  BY <1>0, <1>1, <1>2, <1>3

LEMMA HardBreakIsBreak ==
  ASSUME NEW text, IsText(text), NEW at \in 0 .. Len(text)
  PROVE  /\ at + HardBreakLength(text, at) \in 0 .. Len(text)
         /\ IsBreak(text, at, at + HardBreakLength(text, at), HardBreakLength(text, at) > 0)
<1>0. Len(text) \in Nat /\ at \in Nat
  BY TextShape
<1> DEFINE h == HardBreakLength(text, at)
<1>1. /\ h \in 0 .. 2 /\ (h > 0 => at + h <= Len(text))
      /\ (h = 1 => text[at + 1] \in {LF, CR}) /\ (h = 2 => text[at + 1] = CR /\ text[at + 2] = LF)
  BY <1>0, HardBreakIs
<1> HIDE DEF h
<1>2. at + h \in 0 .. Len(text)
  BY <1>0, <1>1
<1>3. IsBreak(text, at, at + h, h > 0)
  <2>1. CASE h = 0
    <3>1. at + h = at /\ ~(h > 0)
      BY <1>0, <2>1
    <3> QED
      BY <1>2, <3>1 DEF IsBreak
  <2>2. CASE h = 1
    <3>1. at + h = at + 1 /\ h > 0 /\ text[at + h] \in {LF, CR}
      BY <1>1, <2>2
    <3> QED
      BY <1>2, <3>1 DEF IsBreak
  <2>3. CASE h = 2
    <3>1. at + h = at + 2 /\ h > 0 /\ text[at + 1] = CR /\ text[at + h] = LF
      BY <1>1, <2>3
    <3> QED
      BY <1>2, <3>1 DEF IsBreak
  <2> QED
    BY <1>1, <2>1, <2>2, <2>3
<1> QED
  BY <1>2, <1>3 DEF h

\* Lines end at places of the text; a break is never cut, and no soft one follows it at once.
LEMMA LineEndsAre ==
  ASSUME NEW text, IsText(text), NEW soft
  PROVE  /\ LineEnds(text, soft) \in SUBSET (0 .. Len(text)) /\ Len(text) \in LineEnds(text, soft)
         /\ \A x \in LineEnds(text, soft) : x # Len(text) =>
              IF HardBreakLength(text, x) > 0 THEN x = 0 \/ HardBreakLength(text, x - 1) < 2
              ELSE x # 0 /\ HardBreakLength(text, x - 1) = 0
<1>0. Len(text) \in Nat
  BY TextShape
<1>1. LineEnds(text, soft) \in SUBSET (0 .. Len(text)) /\ Len(text) \in LineEnds(text, soft)
  BY <1>0 DEF LineEnds
<1>2. ASSUME NEW x \in LineEnds(text, soft), x # Len(text)
      PROVE  IF HardBreakLength(text, x) > 0 THEN x = 0 \/ HardBreakLength(text, x - 1) < 2
             ELSE x # 0 /\ HardBreakLength(text, x - 1) = 0
  BY <1>2 DEF LineEnds
<1> QED
  BY <1>1, <1>2

\* A line begins behind the break of the line before it.
LEMMA EndsApart ==
  ASSUME NEW text, IsText(text), NEW soft, NEW x \in LineEnds(text, soft), NEW y \in LineEnds(text, soft), x < y
  PROVE  /\ x + HardBreakLength(text, x) <= y
         /\ x + HardBreakLength(text, x) = y => y = Len(text) \/ HardBreakLength(text, y) > 0
<1> DEFINE h == HardBreakLength(text, x)
           n == Len(text)
<1>0. n \in Nat /\ x \in 0 .. n /\ y \in 0 .. n /\ x \in Nat /\ y \in Nat
  BY TextShape, LineEndsAre
<1>1. h \in 0 .. 2 /\ (h > 0 => x + h <= n) /\ (h = 2 => HardBreakLength(text, x + 1) = 1)
  BY <1>0, HardBreakIs
<1>2. y # n => IF HardBreakLength(text, y) > 0 THEN y = 0 \/ HardBreakLength(text, y - 1) < 2
               ELSE y # 0 /\ HardBreakLength(text, y - 1) = 0
  BY LineEndsAre
<1>3. HardBreakLength(text, y) \in 0 .. 2
  BY <1>0, HardBreakIs
<1>4. CASE h = 0
  BY <1>0, <1>4
<1>5. CASE h = 1
  <2>1. y = x + 1 => y - 1 = x
    BY <1>0
  <2>2. y = x + 1 => HardBreakLength(text, y - 1) = 1
    BY <1>5, <2>1
  <2> QED
    BY <1>0, <1>2, <1>3, <1>5, <2>2
<1>6. CASE h = 2
  <2>1. y # x + 1
    <3> SUFFICES ASSUME y = x + 1 PROVE FALSE
      OBVIOUS
    <3>1. y - 1 = x /\ y # n /\ y # 0
      BY <1>0, <1>1, <1>6
    <3>2. HardBreakLength(text, y) = 1 /\ HardBreakLength(text, y - 1) = 2
      BY <1>1, <1>6, <3>1
    <3> QED
      BY <1>2, <3>1, <3>2
  <2>2. y = x + 2 => y - 1 = x + 1
    BY <1>0
  <2>3. y = x + 2 => HardBreakLength(text, y - 1) = 1
    BY <1>1, <1>6, <2>2
  <2> QED
    BY <1>0, <1>2, <1>3, <1>6, <2>1, <2>3
<1> QED
  BY <1>1, <1>4, <1>5, <1>6

\* The painter's lines, one behind the other.
PaintedWell(text, painted) ==
  /\ IsList(painted) /\ Len(painted) # 0
  /\ \A i \in 1 .. Len(painted) :
       painted[i].start \in 0 .. Len(text) /\ painted[i].end \in 0 .. Len(text) /\ painted[i].start <= painted[i].end
  /\ painted[1].start = 0 /\ painted[Len(painted)].end = Len(text)
  /\ \A i \in 1 .. Len(painted) : i > 1 =>
       painted[i].start = painted[i - 1].end + HardBreakLength(text, painted[i - 1].end)
  /\ \A i, j \in 1 .. Len(painted) : i < j => painted[i].start < painted[j].start

LEMMA LastNth ==
  ASSUME NEW n \in Nat, NEW T \in SUBSET (0 .. n), n \in T
  PROVE  Cardinality(T) \in Nat /\ Cardinality(T) # 0 /\ Nth(T, Cardinality(T)) = n
<1>1. IsFiniteSet(T) /\ Cardinality(T) \in Nat
  BY UpToPlace, 0 \in Nat
<1>2. Cardinality(T) # 0
  BY <1>1, FS_EmptySet
<1>3. Cardinality(T) \in 1 .. Cardinality(T)
  BY <1>1, <1>2
<1> DEFINE a == Nth(T, Cardinality(T))
           upto == {j \in T : j <= a}
<1>4. a \in T /\ Cardinality(upto) = Cardinality(T)
  BY <1>3, NthUpTo
<1>5. upto \in SUBSET T
  OBVIOUS
<1> HIDE DEF a
<1>6. upto = T
  <2> HIDE DEF upto
  <2> QED
    BY <1>1, <1>4, <1>5, FS_Subset
<1>7. n <= a
  BY <1>6
<1>8. a = n
  BY <1>4, <1>7
<1> QED
  BY <1>1, <1>2, <1>8 DEF a

\* The painter paints such lines of any text, wherever it wraps.
LEMMA PaintedLinesAre ==
  ASSUME NEW text, IsText(text), NEW soft
  PROVE  PaintedWell(text, PaintedLines(text, soft))
<1> DEFINE T == LineEnds(text, soft)
           n == Len(text)
           p == PaintedLines(text, soft)
           m == Cardinality(T)
<1>0. n \in Nat /\ T \in SUBSET (0 .. n) /\ n \in T
  BY TextShape, LineEndsAre
<1>1. m \in Nat /\ m # 0 /\ Nth(T, m) = n
  <2> HIDE DEF T, n
  <2> QED
    BY <1>0, LastNth
<1>2. ASSUME NEW i \in 1 .. m PROVE Nth(T, i) \in T
  <2> HIDE DEF T, n
  <2> QED
    BY <1>0, NthUpTo
<1>3. ASSUME NEW i \in 1 .. m, NEW j \in 1 .. m, i < j PROVE Nth(T, i) < Nth(T, j)
  <2> HIDE DEF T, n
  <2> QED
    BY <1>0, <1>3, NthRises
<1>4. p = [i \in 1 .. m |-> [start |-> LineStart(text, T, i), end |-> Nth(T, i)]]
  BY DEF PaintedLines, PaintedTo
<1>5. IsList(p) /\ Len(p) = m
  <2>1. p = [i \in 1 .. m |-> p[i]]
    BY <1>4
  <2> HIDE DEF p, m
  <2> QED
    BY <1>1, <2>1, ListMade
<1>6. ASSUME NEW i \in 1 .. m PROVE p[i].end = Nth(T, i) /\ p[i].start = LineStart(text, T, i)
  BY <1>4
<1> HIDE DEF p
<1>7. p[1].start = 0 /\ p[m].end = n
  <2>1. 1 \in 1 .. m /\ m \in 1 .. m
    BY <1>1
  <2> QED
    BY <1>1, <1>6, <2>1 DEF LineStart
<1>8. ASSUME NEW i \in 1 .. m, i > 1
      PROVE  i - 1 \in 1 .. m /\ p[i].start = p[i - 1].end + HardBreakLength(text, p[i - 1].end)
  <2>1. i - 1 \in 1 .. m /\ i # 1
    BY <1>1, <1>8
  <2> QED
    BY <1>6, <2>1 DEF LineStart
<1>9. ASSUME NEW i \in 1 .. m
      PROVE  /\ p[i].end \in T /\ p[i].end \in 0 .. n /\ HardBreakLength(text, p[i].end) \in 0 .. 2
  <2>1. p[i].end \in T /\ p[i].end \in 0 .. n /\ p[i].end \in Nat
    BY <1>0, <1>2, <1>6
  <2> QED
    BY <2>1, HardBreakIs
<1>10. ASSUME NEW i \in 1 .. m, i > 1
       PROVE  /\ p[i].start <= p[i].end
              /\ p[i].start = p[i].end => p[i].end = n \/ HardBreakLength(text, p[i].end) > 0
  <2>1. i - 1 \in 1 .. m /\ i - 1 < i
    BY <1>1, <1>10
  <2>2. p[i - 1].end < p[i].end
    BY <1>3, <1>6, <2>1
  <2>3. p[i - 1].end \in T /\ p[i].end \in T
    BY <1>9, <2>1
  <2> QED
    BY <1>8, <1>10, <2>2, <2>3, EndsApart
<1>11. ASSUME NEW i \in 1 .. m
       PROVE  /\ p[i].start \in 0 .. n /\ p[i].start <= p[i].end
              /\ p[i].start = p[i].end => p[i].end = n \/ HardBreakLength(text, p[i].end) > 0
  <2>1. CASE i > 1
    <3>1. i - 1 \in 1 .. m
      BY <1>8, <2>1
    <3>2. p[i - 1].end \in 0 .. n /\ HardBreakLength(text, p[i - 1].end) \in 0 .. 2 /\ p[i].end \in 0 .. n
      BY <1>9, <3>1
    <3>3. p[i].start \in Nat /\ p[i].start <= p[i].end
      BY <1>8, <1>10, <2>1, <3>2
    <3> QED
      BY <1>0, <1>10, <2>1, <3>2, <3>3
  <2>2. CASE ~(i > 1)
    <3>1. i = 1 /\ p[i].start = 0
      BY <1>1, <1>7, <2>2
    <3>2. p[i].end \in T /\ p[i].end \in 0 .. n /\ HardBreakLength(text, p[i].end) \in 0 .. 2
      BY <1>9
    <3>3. p[i].end # n /\ ~(HardBreakLength(text, p[i].end) > 0) => p[i].end # 0
      BY <3>2, LineEndsAre
    <3> QED
      BY <1>0, <3>1, <3>2, <3>3
  <2> QED
    BY <2>1, <2>2
<1>12. ASSUME NEW i \in 1 .. m, NEW j \in 1 .. m, i < j PROVE p[i].start < p[j].start
  <2>1. j > 1 /\ j - 1 \in 1 .. m /\ i <= j - 1 /\ i < m /\ m \in 1 .. m
    BY <1>1, <1>12
  <2>2. p[j].start = p[j - 1].end + HardBreakLength(text, p[j - 1].end)
    BY <1>8, <2>1
  <2>3. /\ p[i].start \in Nat /\ p[i].end \in Nat /\ p[j - 1].end \in Nat
        /\ HardBreakLength(text, p[j - 1].end) \in 0 .. 2 /\ p[i].start <= p[i].end
    BY <1>9, <1>11, <2>1
  <2>4. CASE i < j - 1
    <3>1. p[i].end < p[j - 1].end
      BY <1>3, <1>6, <2>1, <2>4
    <3> QED
      BY <2>2, <2>3, <3>1
  <2>5. CASE i = j - 1
    <3>1. p[i].end < p[m].end
      BY <1>3, <1>6, <2>1
    <3>2. p[i].end # n
      BY <1>0, <1>7, <2>3, <3>1
    <3>3. p[i].start = p[i].end => HardBreakLength(text, p[i].end) > 0
      BY <1>11, <3>2
    <3> QED
      BY <2>2, <2>3, <2>5, <3>3
  <2> QED
    BY <2>1, <2>4, <2>5
<1> QED
  BY <1>1, <1>5, <1>7, <1>8, <1>9, <1>11, <1>12 DEF PaintedWell, p

-----------------------------------------------------------------------------
(* The bridge's ranges *)

\* Where a painted line starts, the painter says it is that line.
LEMMA LineBoundaryIs ==
  ASSUME NEW text, NEW painted, PaintedWell(text, painted), Len(text) \in Nat, NEW i \in 1 .. Len(painted)
  PROVE  LineBoundary(painted, painted[i].start) = i
<1> DEFINE m == Len(painted)
           At(k) == painted[k].start <= painted[i].start /\ (k = m \/ painted[i].start < painted[k + 1].start)
<1>0. m \in Nat /\ i \in 1 .. m /\ i \in Nat
  BY ListShape DEF PaintedWell
<1>7. DOMAIN painted = 1 .. m
  BY ListShape DEF PaintedWell
<1>1. \A k \in 1 .. m : painted[k].start \in Nat
  BY DEF PaintedWell
<1>2. \A k, l \in 1 .. m : k < l => painted[k].start < painted[l].start
  BY DEF PaintedWell
<1>3. At(i)
  <2>1. CASE i = m
    BY <1>1, <2>1
  <2>2. CASE i # m
    <3>1. i + 1 \in 1 .. m /\ i < i + 1
      BY <1>0, <2>2
    <3> QED
      BY <1>1, <1>2, <3>1
  <2> QED
    BY <2>1, <2>2
<1>4. ASSUME NEW k \in 1 .. m, At(k) PROVE k = i
  <2>1. CASE k < i
    <3>1. k # m /\ k + 1 \in 1 .. m /\ (k + 1 < i \/ k + 1 = i)
      BY <1>0, <2>1
    <3>2. painted[k + 1].start <= painted[i].start
      BY <1>1, <1>2, <3>1
    <3> QED
      BY <1>1, <1>4, <3>1, <3>2
  <2>2. CASE k > i
    <3>1. painted[i].start < painted[k].start
      BY <1>0, <1>2, <2>2
    <3> QED
      BY <1>1, <1>4, <3>1
  <2> QED
    BY <1>0, <2>1, <2>2
<1>5. LineBoundary(painted, painted[i].start) = CHOOSE k \in 1 .. m : At(k)
  BY <1>7 DEF LineBoundary
<1> HIDE DEF At
<1>6. (CHOOSE k \in 1 .. m : At(k)) = i
  BY <1>3, <1>4
<1> QED
  BY <1>5, <1>6

LEMMA ClampedIs ==
  ASSUME NEW low \in Nat, NEW high \in Nat, NEW value \in Nat, low <= value, value <= high
  PROVE  Clamped(value, low, high) = value
<1>0. low \in Int /\ value \in Int /\ high \in Int
  OBVIOUS
<1>1. Max({value, low}) \in {value, low} /\ value <= Max({value, low})
  BY Zenon, <1>0, MaxPair
<1>2. Max({value, low}) = value
  BY <1>1
<1>3. Clamped(value, low, high) = Min({value, high})
  BY <1>2 DEF Clamped
<1>4. {value, high} \in SUBSET Nat /\ {value, high} # {}
  OBVIOUS
<1> DEFINE T == {value, high}
<1> HIDE DEF T
<1>5. Min(T) \in T /\ \A y \in T : Min(T) <= y
  BY <1>4, MinOf DEF T
<1>6. Min(T) = value
  BY <1>5 DEF T
<1> QED
  BY <1>3, <1>6 DEF T

\* What the bridge has found, from what it found of the lines before.
NextFound(text, painted, i, found) ==
  IF i = 0 THEN [cursor |-> 0, ranges |-> <<>>]
  ELSE IF found[i - 1].cursor = Len(text) THEN EmptyRange(found[i - 1])
  ELSE RangeOfLine(found[i - 1], text, painted[LineBoundary(painted, found[i - 1].cursor)])

LEMMA FoundExist ==
  ASSUME NEW text, NEW painted, NEW n \in Nat
  PROVE  \E found : found = [i \in 0 .. n |-> NextFound(text, painted, i, found)]
<1> DEFINE Upto(m) == \E found : found = [i \in 0 .. m |-> NextFound(text, painted, i, found)]
           S == {m \in Nat : Upto(m)}
<1>1. 0 \in S
  <2> DEFINE found == [i \in 0 .. 0 |-> [cursor |-> 0, ranges |-> <<>>]]
  <2>1. found = [i \in 0 .. 0 |-> NextFound(text, painted, i, found)]
    BY DEF NextFound
  <2> HIDE DEF found
  <2>2. Upto(0)
    BY <2>1
  <2> QED
    BY <2>2
<1>2. ASSUME NEW m \in Nat, m \in S PROVE m + 1 \in S
  <2>1. PICK found : found = [i \in 0 .. m |-> NextFound(text, painted, i, found)]
    BY <1>2
  <2> DEFINE more == [i \in 0 .. m + 1 |-> IF i \in 0 .. m THEN found[i] ELSE NextFound(text, painted, i, found)]
  <2>2. ASSUME NEW i \in 0 .. m + 1 PROVE more[i] = NextFound(text, painted, i, more)
    <3>1. more[i] = NextFound(text, painted, i, found)
      BY <2>1
    <3>2. i # 0 => i - 1 \in 0 .. m /\ more[i - 1] = found[i - 1]
      OBVIOUS
    <3> QED
      BY <3>1, <3>2 DEF NextFound
  <2>3. more = [i \in 0 .. m + 1 |-> NextFound(text, painted, i, more)]
    BY <2>2
  <2> HIDE DEF more
  <2>4. Upto(m + 1)
    BY <2>3
  <2> QED
    BY <2>4
<1> HIDE DEF S
<1>3. Nat \subseteq S
  BY <1>1, <1>2, Induction
<1> QED
  BY <1>3 DEF S

LEMMA LineRangesBy ==
  ASSUME NEW text, NEW painted, Len(painted) \in Nat
  PROVE  \E found : /\ found[0] = [cursor |-> 0, ranges |-> <<>>]
                    /\ \A i \in 0 .. Len(painted) : i # 0 => found[i] = NextFound(text, painted, i, found)
                    /\ LineRanges(text, painted) = found[Len(painted)].ranges
<1> DEFINE found == CHOOSE f : f = [i \in 0 .. Len(painted) |-> NextFound(text, painted, i, f)]
<1>1. \E f : f = [i \in 0 .. Len(painted) |-> NextFound(text, painted, i, f)]
  BY FoundExist
<1>2. found = [i \in 0 .. Len(painted) |-> NextFound(text, painted, i, found)]
  BY <1>1
<1>3. LineRanges(text, painted) = found[Len(painted)].ranges
  BY Zenon DEF LineRanges, NextFound
<1> HIDE DEF found
<1>4. found[0] = [cursor |-> 0, ranges |-> <<>>]
  BY <1>2 DEF NextFound
<1>5. \A i \in 0 .. Len(painted) : i # 0 => found[i] = NextFound(text, painted, i, found)
  BY <1>2
<1> QED
  BY <1>3, <1>4, <1>5

\* The range of a painted line, as it ought to be.
RangeOf(text, line) == LineRange(line.start, line.end, HardBreakLength(text, line.end) > 0)

\* What the bridge has found of the first lines.
FoundWell(text, painted, i, known) ==
  /\ known.cursor = (IF i = 0 THEN 0 ELSE painted[i].end + HardBreakLength(text, painted[i].end))
  /\ IsList(known.ranges) /\ Len(known.ranges) = i
  /\ \A j \in 1 .. i : known.ranges[j] = RangeOf(text, painted[j])

\* An empty line at the end of the text.
EmptyAt(cursor) == LineRange(cursor, cursor, FALSE)

LEMMA EmptyRangeIs ==
  ASSUME NEW known
  PROVE  EmptyRange(known).cursor = known.cursor /\ EmptyRange(known).ranges = Append(known.ranges, EmptyAt(known.cursor))
BY DEF EmptyRange, EmptyAt

LEMMA FoundGoesOn ==
  ASSUME NEW text, NEW painted, NEW k \in Nat, NEW known, FoundWell(text, painted, k, known), NEW next,
         next.cursor = painted[k + 1].end + HardBreakLength(text, painted[k + 1].end),
         next.ranges = Append(known.ranges, RangeOf(text, painted[k + 1]))
  PROVE  FoundWell(text, painted, k + 1, next)
<1> DEFINE list == known.ranges
           e == RangeOf(text, painted[k + 1])
<1>1. IsList(list) /\ Len(list) = k /\ \A j \in 1 .. k : list[j] = RangeOf(text, painted[j])
  BY DEF FoundWell
<1>2. next.ranges = Append(list, e)
  OBVIOUS
<1>3. e = RangeOf(text, painted[k + 1])
  OBVIOUS
<1> HIDE DEF list, e
<1>4. /\ IsList(Append(list, e)) /\ Len(Append(list, e)) = Len(list) + 1
      /\ \A j \in 1 .. Len(list) : Append(list, e)[j] = list[j]
      /\ Append(list, e)[Len(list) + 1] = e
  BY <1>1, ListAppended
<1> DEFINE longer == Append(list, e)
<1> HIDE DEF longer
<1>5. /\ IsList(longer) /\ Len(longer) = k + 1
      /\ \A j \in 1 .. k : longer[j] = list[j]
      /\ longer[k + 1] = e
  BY <1>1, <1>4 DEF longer
<1>6. ASSUME NEW j \in 1 .. k + 1 PROVE longer[j] = RangeOf(text, painted[j])
  <2>1. CASE j = k + 1
    BY <1>3, <1>5, <2>1
  <2>2. CASE j # k + 1
    <3>1. j \in 1 .. k
      BY <2>2
    <3> QED
      BY <1>1, <1>5, <3>1
  <2> QED
    BY <2>1, <2>2
<1>7. next.ranges = longer
  BY <1>2 DEF longer
<1>8. k + 1 # 0
  OBVIOUS
<1> QED
  BY <1>5, <1>6, <1>7, <1>8 DEF FoundWell

\* The bridge finds the painter's lines again, each behind the break of the one before it.
LEMMA LineRangesAre ==
  ASSUME NEW text, IsText(text), NEW painted, PaintedWell(text, painted)
  PROVE  /\ IsList(LineRanges(text, painted)) /\ Len(LineRanges(text, painted)) = Len(painted)
         /\ \A i \in 1 .. Len(painted) : LineRanges(text, painted)[i] = RangeOf(text, painted[i])
<1> DEFINE n == Len(text)
           m == Len(painted)
<1>0. n \in Nat /\ m \in Nat /\ m # 0
  BY TextShape, ListShape DEF PaintedWell
<1>1. PICK found : /\ found[0] = [cursor |-> 0, ranges |-> <<>>]
                   /\ \A i \in 0 .. Len(painted) : i # 0 => found[i] = NextFound(text, painted, i, found)
                   /\ LineRanges(text, painted) = found[Len(painted)].ranges
  BY <1>0, LineRangesBy
<1> DEFINE S == {i \in 0 .. m : FoundWell(text, painted, i, found[i])}
<1>2. 0 \in S
  <2>1. found[0].cursor = 0 /\ found[0].ranges = <<>> /\ 1 .. 0 = {} /\ 0 \in 0 .. m
    BY <1>0, <1>1
  <2>2. FoundWell(text, painted, 0, found[0])
    BY <2>1, EmptyList DEF FoundWell
  <2> QED
    BY <2>1, <2>2
<1>3. ASSUME NEW k \in 0 .. m, k + 1 \in 0 .. m, k \in S PROVE k + 1 \in S
  <2> DEFINE i == k + 1
             known == found[k]
             line == painted[i]
             h == HardBreakLength(text, line.end)
  <2>0. i \in 1 .. m /\ i # 0 /\ i - 1 = k
    BY <1>0, <1>3
  <2>1. FoundWell(text, painted, k, known)
    BY <1>3
  <2>2. /\ line.start \in 0 .. n /\ line.end \in 0 .. n /\ line.start <= line.end
        /\ line.start \in Nat /\ line.end \in Nat
    BY <2>0 DEF PaintedWell
  <2>3. known.cursor = line.start
    <3>1. CASE k = 0
      BY <2>0, <2>1, <3>1 DEF FoundWell, PaintedWell
    <3>2. CASE k # 0
      <4>1. i > 1
        BY <1>0, <2>0, <3>2
      <4>2. line.start = painted[i - 1].end + HardBreakLength(text, painted[i - 1].end)
        BY <2>0, <4>1 DEF PaintedWell
      <4> QED
        BY <2>0, <2>1, <3>2, <4>2 DEF FoundWell
    <3> QED
      BY <3>1, <3>2
  <2>4. IsList(known.ranges) /\ Len(known.ranges) = k /\ \A j \in 1 .. k : known.ranges[j] = RangeOf(text, painted[j])
    BY <2>1 DEF FoundWell
  <2>5. found[i] = IF known.cursor = n THEN EmptyRange(known)
                   ELSE RangeOfLine(known, text, painted[LineBoundary(painted, known.cursor)])
    BY <1>1, <2>0 DEF NextFound
  <2>6. found[i].cursor = line.end + h /\ found[i].ranges = Append(known.ranges, RangeOf(text, line))
    <3>1. CASE known.cursor = n
      <4>1. line.start = n /\ line.end = n
        BY <1>0, <2>2, <2>3, <3>1
      <4>2. h = 0
        BY <1>0, <4>1 DEF HardBreakLength
      <4>3. RangeOf(text, line) = EmptyAt(known.cursor)
        <5>1. (HardBreakLength(text, line.end) > 0) = FALSE
          BY <4>2
        <5> QED
          BY <3>1, <4>1, <5>1 DEF RangeOf, EmptyAt
      <4>4. found[i] = EmptyRange(known)
        BY <2>5, <3>1
      <4>5. found[i].cursor = known.cursor /\ found[i].ranges = Append(known.ranges, EmptyAt(known.cursor))
        BY <4>4, EmptyRangeIs
      <4> QED
        BY <1>0, <3>1, <4>1, <4>2, <4>3, <4>5
    <3>2. CASE known.cursor # n
      <4>1. LineBoundary(painted, known.cursor) = i
        BY <1>0, <2>0, <2>3, LineBoundaryIs
      <4>2. Clamped(line.start, known.cursor, n) = line.start
        BY <1>0, <2>2, <2>3, ClampedIs
      <4>3. Clamped(line.end, line.start, n) = line.end
        BY <1>0, <2>2, ClampedIs
      <4>4. found[i] = NextRange(known, text, line.start, line.end)
        BY <2>5, <3>2, <4>1, <4>2, <4>3 DEF RangeOfLine
      <4> QED
        BY <4>4 DEF NextRange, RangeOf
    <3> QED
      BY <3>1, <3>2
  <2>7. FoundWell(text, painted, i, found[i])
    <3>1. k \in Nat
      BY <1>0
    <3> QED
      BY <2>1, <2>6, <3>1, FoundGoesOn
  <2> QED
    BY <1>3, <2>7
<1> HIDE DEF S
<1>4. 0 .. m \subseteq S
  BY <1>0, <1>2, <1>3, UpTo
<1>5. FoundWell(text, painted, m, found[m])
  BY <1>0, <1>4 DEF S
<1> QED
  BY <1>1, <1>5 DEF FoundWell

-----------------------------------------------------------------------------
(* The bridge's boxes *)

\* A position behind a line's end, and in no line break, lies behind the break that ends the line.
LEMMA BehindBreak ==
  ASSUME NEW text, IsText(text), NEW end \in Nat, NEW at \in Nat, end <= at, HardBreakLength(text, at) = 0
  PROVE  end + HardBreakLength(text, end) <= at
<1>1. /\ HardBreakLength(text, end) \in 0 .. 2
      /\ HardBreakLength(text, end) = 2 => HardBreakLength(text, end + 1) = 1
  BY HardBreakIs
<1>2. CASE HardBreakLength(text, end) = 0
  BY <1>2
<1>3. CASE HardBreakLength(text, end) = 1
  <2>1. end # at
    BY <1>3
  <2> QED
    BY <1>3, <2>1
<1>4. CASE HardBreakLength(text, end) = 2
  <2>1. end # at /\ end + 1 # at
    BY <1>1, <1>4
  <2> QED
    BY <1>4, <2>1
<1> QED
  BY <1>1, <1>2, <1>3, <1>4

\* Each character that is no line break is painted on a line.
LEMMA PaintedOnIs ==
  ASSUME NEW text, IsText(text), NEW painted, PaintedWell(text, painted),
         NEW at \in 0 .. Len(text) - 1, HardBreakLength(text, at) = 0
  PROVE  /\ PaintedOn(painted, at) \in 1 .. Len(painted)
         /\ painted[PaintedOn(painted, at)].start <= at /\ at < painted[PaintedOn(painted, at)].end
<1> DEFINE n == Len(text)
           m == Len(painted)
           E == {i \in 1 .. m : at < painted[i].end}
<1>0. n \in Nat /\ m \in Nat /\ m # 0 /\ at \in Nat /\ at < n
  BY TextShape, ListShape DEF PaintedWell
<1>1. DOMAIN painted = 1 .. m
  BY ListShape DEF PaintedWell
<1>2. m \in E /\ E \in SUBSET Nat
  BY <1>0 DEF PaintedWell
<1>3. PICK i : i \in E /\ \A y \in E : i <= y
  <2> HIDE DEF E
  <2> QED
    BY <1>2, MinOf
<1>4. i \in 1 .. m /\ i \in Nat /\ at < painted[i].end
  BY <1>0, <1>3
<1>5. painted[i].start <= at
  <2>1. CASE i = 1
    BY <1>0, <2>1 DEF PaintedWell
  <2>2. CASE i # 1
    <3>1. i - 1 \in 1 .. m /\ i > 1
      BY <1>0, <1>4, <2>2
    <3>2. ~(at < painted[i - 1].end)
      <4>1. ~(i <= i - 1)
        BY <1>4
      <4>2. i - 1 \notin E
        BY ONLY <1>3, <4>1
      <4> QED
        BY <3>1, <4>2
    <3>3. painted[i - 1].end \in 0 .. n
      BY <3>1 DEF PaintedWell
    <3>4. painted[i - 1].end + HardBreakLength(text, painted[i - 1].end) <= at
      <4>1. painted[i - 1].end \in Nat /\ painted[i - 1].end <= at
        BY <1>0, <3>2, <3>3
      <4> QED
        BY <1>0, <4>1, BehindBreak
    <3> QED
      BY <1>4, <3>1, <3>4 DEF PaintedWell
  <2> QED
    BY <2>1, <2>2
<1>6. \E j \in DOMAIN painted : painted[j].start <= at /\ at < painted[j].end
  BY <1>1, <1>4, <1>5
<1> DEFINE on == PaintedOn(painted, at)
<1>7. on \in DOMAIN painted /\ painted[on].start <= at /\ at < painted[on].end
  BY Zenon, <1>6 DEF PaintedOn
<1> HIDE DEF on
<1>8. on \in 1 .. m
  BY <1>1, <1>7
<1> QED
  BY <1>7, <1>8 DEF on

\* The line that a height lies in is the one it is the middle of.
LEMMA LineIndexIs ==
  ASSUME NEW painted, IsList(painted), NEW line \in 1 .. Len(painted)
  PROVE  LineIndexForY(painted, MidHeight(line)) = line
<1>0. DOMAIN painted = 1 .. Len(painted) /\ Len(painted) \in Nat /\ line \in Nat
  BY ListShape
<1>1. FlutterMetrics.line_height = 4
  BY DEF FlutterMetrics, MetricsOf
<1> DEFINE y == MidHeight(line)
           In(i) == y <= i * 4 /\ \A j \in 1 .. (i - 1) : y > j * 4
<1>2. y = (line - 1) * 4 + 2
  BY <1>0, <1>1 DEF MidHeight
<1>3. LineIndexForY(painted, y) = CHOOSE i \in 1 .. Len(painted) : In(i)
  BY <1>0, <1>1 DEF LineIndexForY
<1> HIDE DEF y
<1>4. In(line)
  BY <1>0, <1>2
<1>5. ASSUME NEW i \in 1 .. Len(painted), In(i) PROVE i = line
  <2>1. ~(i < line)
    BY <1>0, <1>2, <1>5
  <2>2. ~(line < i)
    <3> SUFFICES ASSUME line < i PROVE FALSE
      OBVIOUS
    <3>1. line \in 1 .. (i - 1)
      BY <1>0
    <3>2. y > line * 4
      BY <1>5, <3>1
    <3> QED
      BY <1>0, <1>2, <3>2
  <2> QED
    BY <1>0, <2>1, <2>2
<1> HIDE DEF In
<1>6. (CHOOSE i \in 1 .. Len(painted) : In(i)) = line
  BY <1>4, <1>5
<1> QED
  BY <1>3, <1>6 DEF y

\* The box of a character.
BoxOf(text, painted, at, direction) == ClusterOn(text, at, painted, PaintedOn(painted, at), direction)

LEMMA BoxIs ==
  ASSUME NEW text, IsText(text), NEW painted, PaintedWell(text, painted), NEW direction,
         NEW at \in 0 .. Len(text) - 1, HardBreakLength(text, at) = 0
  PROVE  /\ BoxOf(text, painted, at, direction).range = ByteSpan(text, at, at + 1)
         /\ BoxOf(text, painted, at, direction).line_index = PaintedOn(painted, at) - 1
         /\ BoxOf(text, painted, at, direction).x_start \in Nat /\ BoxOf(text, painted, at, direction).x_end \in Nat
         /\ BoxOf(text, painted, at, direction).x_start <= BoxOf(text, painted, at, direction).x_end
<1> DEFINE line == PaintedOn(painted, at)
           left == Left(painted[line], at, direction)
           cluster == BoxOf(text, painted, at, direction)
<1>0. line \in 1 .. Len(painted) /\ painted[line].start \in Nat /\ painted[line].end \in Nat /\ at \in Nat /\ IsList(painted)
  <2>1. line \in 1 .. Len(painted) /\ Len(text) \in Nat
    BY PaintedOnIs, TextShape
  <2> QED
    BY <2>1 DEF PaintedWell
<1>1. left \in Int
  BY <1>0 DEF Left
<1>2. LineIndexForY(painted, MidHeight(line)) = line
  BY <1>0, LineIndexIs
<1>3. /\ cluster.range = ByteSpan(text, at, at + 1) /\ cluster.line_index = line - 1
      /\ cluster.x_start = Max({left, 0}) /\ cluster.x_end = Max({left + 1, 0})
  BY <1>2 DEF BoxOf, ClusterOn, ClusterAt, Cluster
<1> HIDE DEF left, cluster
<1>4. 0 \in Nat /\ 0 \in Int /\ left + 1 \in Int
  BY <1>1
<1>5. /\ Max({left, 0}) \in {left, 0} /\ Max({left, 0}) \in Nat
      /\ Max({left + 1, 0}) \in Nat /\ left + 1 <= Max({left + 1, 0}) /\ 0 <= Max({left + 1, 0})
  BY Zenon, <1>1, <1>4, MaxOfNat, MaxPair
<1>6. Max({left, 0}) <= Max({left + 1, 0})
  BY <1>1, <1>5
<1> QED
  BY <1>3, <1>5, <1>6 DEF cluster, line

-----------------------------------------------------------------------------
(* The bridge's result *)

\* Where there are finitely many clusters, a sorting lists each of them once, in visual order.
LEMMA SortingIs ==
  ASSUME NEW S, IsFiniteSet(S), \A c \in S : c.line_index \in Int /\ c.x_start \in Int, NEW order \in Sortings(S)
  PROVE  /\ IsList(order) /\ DOMAIN order = 1 .. Len(order)
         /\ \A i \in 1 .. Len(order) : order[i] \in S
         /\ \A i, j \in 1 .. Len(order) : order[i] = order[j] => i = j
         /\ \A i \in 1 .. Len(order) : i > 1 => InVisualOrder(order[i - 1], order[i])
<1> DEFINE n == Cardinality(S)
<1>0. n \in Nat
  BY FS_CardinalityType
<1>1. /\ order \in [1 .. n -> S] /\ IsInjective(order)
      /\ \A i, j \in DOMAIN order : i < j => ~Before(order[j], order[i])
  BY DEF Sortings, Bijection, Injection
<1> HIDE DEF n
<1>2. IsList(order) /\ Len(order) = n /\ DOMAIN order = 1 .. n
  <2>1. order = [i \in 1 .. n |-> order[i]]
    BY <1>1
  <2> QED
    BY <1>0, <1>1, <2>1, ListMade
<1>3. \A i, j \in 1 .. n : order[i] = order[j] => i = j
  BY <1>1, <1>2 DEF IsInjective
<1>4. ASSUME NEW i \in 1 .. n, i > 1 PROVE InVisualOrder(order[i - 1], order[i])
  <2>1. i - 1 \in DOMAIN order /\ i \in DOMAIN order /\ i - 1 < i
    BY <1>0, <1>2, <1>4
  <2>2. ~Before(order[i], order[i - 1])
    BY <1>1, <2>1
  <2>3. order[i - 1] \in S /\ order[i] \in S
    BY <1>1, <1>2, <2>1
  <2>4. /\ order[i - 1].line_index \in Int /\ order[i - 1].x_start \in Int
        /\ order[i].line_index \in Int /\ order[i].x_start \in Int
    BY <2>3
  <2> QED
    BY <2>2, <2>4 DEF Before, InVisualOrder
<1> QED
  BY <1>1, <1>2, <1>3, <1>4

\* The bridge's clusters, once each, in visual order.
LEMMA ClustersAre ==
  ASSUME NEW text, Len(text) \in Nat, NEW painted, NEW boxless, NEW direction
  PROVE  /\ IsFiniteSet(Clusters(text, painted, boxless, direction))
         /\ \A c \in Clusters(text, painted, boxless, direction) :
              \E at \in 0 .. Len(text) - 1 : HardBreakLength(text, at) = 0 /\ c = BoxOf(text, painted, at, direction)
<1> DEFINE G == Graphemes(text, boxless)
           S == Clusters(text, painted, boxless, direction)
           f == [at \in G |-> BoxOf(text, painted, at, direction)]
<1>1. S = {BoxOf(text, painted, at, direction) : at \in G}
  BY DEF Clusters, BoxOf
<1>2. G \in SUBSET (0 .. Len(text) - 1) /\ \A at \in G : HardBreakLength(text, at) = 0
  BY DEF Graphemes
<1> HIDE DEF G, S
<1>3. IsFiniteSet(G)
  <2>1. IsFiniteSet(0 .. Len(text) - 1)
    BY FS_Interval, 0 \in Int, Len(text) - 1 \in Int
  <2> QED
    BY <1>2, <2>1, FS_Subset
<1>4. f \in Surjection(G, S)
  <2>1. f \in [G -> S] /\ \A c \in S : \E at \in G : f[at] = c
    BY <1>1
  <2> HIDE DEF f
  <2> QED
    BY <2>1 DEF Surjection
<1> HIDE DEF f
<1>5. IsFiniteSet(S)
  BY <1>3, <1>4, FS_Surjection
<1>6. \A c \in S : \E at \in 0 .. Len(text) - 1 : HardBreakLength(text, at) = 0 /\ c = BoxOf(text, painted, at, direction)
  BY <1>1, <1>2
<1> QED
  BY <1>5, <1>6 DEF S

LEMMA BridgeLineIs ==
  ASSUME NEW text, IsText(text), NEW start \in 0 .. Len(text), NEW end \in 0 .. Len(text), start <= end, NEW hardBreak
  PROVE  /\ ValidLine(text, Line(text, start, end, end - start, FlutterMetrics, hardBreak))
         /\ Line(text, start, end, end - start, FlutterMetrics, hardBreak).range.start = ByteAt(text, start)
         /\ Line(text, start, end, end - start, FlutterMetrics, hardBreak).range.end = ByteAt(text, end)
         /\ Line(text, start, end, end - start, FlutterMetrics, hardBreak).hard_break = hardBreak
<1> DEFINE line == Line(text, start, end, end - start, FlutterMetrics, hardBreak)
<1>1. /\ FlutterMetrics.ascent = 3 /\ FlutterMetrics.descent = 1 /\ FlutterMetrics.line_height = 4
      /\ FlutterMetrics.baseline = 3
  BY DEF FlutterMetrics, MetricsOf
<1>2. /\ line.range = ByteSpan(text, start, end) /\ line.width = end - start /\ line.hard_break = hardBreak
      /\ line.ascent = 3 /\ line.descent = 1 /\ line.line_height = 4 /\ line.baseline = 3
      /\ line.ink.width = end - start /\ line.ink.height = 4
  BY <1>1 DEF Line
<1>3. line.range.start = ByteAt(text, start) /\ line.range.end = ByteAt(text, end)
  BY <1>2 DEF ByteSpan, Span
<1>4. end - start \in Nat
  BY TextShape
<1>5. ValidUtf8Range(text, line.range)
  BY <1>2, SpanIs
<1> HIDE DEF line
<1>6. ValidLine(text, line)
  BY <1>2, <1>4, <1>5 DEF ValidLine
<1> QED
  BY <1>2, <1>3, <1>6 DEF line

\* The bridge's lines are the painter's, and nothing but line breaks lies between them.
LEMMA BridgeLinesAre ==
  ASSUME NEW text, IsText(text), NEW painted, PaintedWell(text, painted)
  PROVE  /\ IsList(BridgeLines(text, LineRanges(text, painted)))
         /\ Len(BridgeLines(text, LineRanges(text, painted))) = Len(painted)
         /\ \A i \in 1 .. Len(painted) :
              /\ ValidLine(text, BridgeLines(text, LineRanges(text, painted))[i])
              /\ BridgeLines(text, LineRanges(text, painted))[i].range.start = ByteAt(text, painted[i].start)
              /\ BridgeLines(text, LineRanges(text, painted))[i].range.end = ByteAt(text, painted[i].end)
         /\ LinesGoTo(BridgeLines(text, LineRanges(text, painted)), text, Len(text))
<1> DEFINE n == Len(text)
           m == Len(painted)
           ranges == LineRanges(text, painted)
           lines == BridgeLines(text, ranges)
<1>0. n \in Nat /\ m \in Nat /\ m # 0 /\ n \in 0 .. n
  BY TextShape, ListShape DEF PaintedWell
<1>1. IsList(ranges) /\ DOMAIN ranges = 1 .. m /\ \A i \in 1 .. m : ranges[i] = RangeOf(text, painted[i])
  BY LineRangesAre, ListShape
<1> HIDE DEF ranges
<1>2. IsList(lines) /\ Len(lines) = m
  <2>1. lines = [i \in 1 .. m |-> lines[i]]
    BY <1>1 DEF BridgeLines
  <2> HIDE DEF lines
  <2> QED
    BY <1>0, <2>1, ListMade
<1>3. ASSUME NEW i \in 1 .. m
      PROVE  lines[i] = Line(text, painted[i].start, painted[i].end, painted[i].end - painted[i].start, FlutterMetrics,
                             HardBreakLength(text, painted[i].end) > 0)
  BY <1>1 DEF BridgeLines, RangeOf, LineRange
<1> HIDE DEF lines
<1>4. ASSUME NEW i \in 1 .. m
      PROVE  /\ painted[i].start \in 0 .. n /\ painted[i].end \in 0 .. n
             /\ ValidLine(text, lines[i])
             /\ lines[i].range.start = ByteAt(text, painted[i].start) /\ lines[i].range.end = ByteAt(text, painted[i].end)
             /\ lines[i].hard_break = (HardBreakLength(text, painted[i].end) > 0)
  <2>1. painted[i].start \in 0 .. n /\ painted[i].end \in 0 .. n /\ painted[i].start <= painted[i].end
    BY DEF PaintedWell
  <2>2. ASSUME NEW hardBreak
        PROVE  /\ ValidLine(text, Line(text, painted[i].start, painted[i].end, painted[i].end - painted[i].start, FlutterMetrics, hardBreak))
               /\ Line(text, painted[i].start, painted[i].end, painted[i].end - painted[i].start, FlutterMetrics, hardBreak).range.start
                    = ByteAt(text, painted[i].start)
               /\ Line(text, painted[i].start, painted[i].end, painted[i].end - painted[i].start, FlutterMetrics, hardBreak).range.end
                    = ByteAt(text, painted[i].end)
               /\ Line(text, painted[i].start, painted[i].end, painted[i].end - painted[i].start, FlutterMetrics, hardBreak).hard_break
                    = hardBreak
    BY <2>1, BridgeLineIs
  <2> DEFINE hard == HardBreakLength(text, painted[i].end) > 0
             width == painted[i].end - painted[i].start
  <2>3. lines[i] = Line(text, painted[i].start, painted[i].end, width, FlutterMetrics, hard)
    BY <1>3
  <2>4. /\ ValidLine(text, Line(text, painted[i].start, painted[i].end, width, FlutterMetrics, hard))
        /\ Line(text, painted[i].start, painted[i].end, width, FlutterMetrics, hard).range.start = ByteAt(text, painted[i].start)
        /\ Line(text, painted[i].start, painted[i].end, width, FlutterMetrics, hard).range.end = ByteAt(text, painted[i].end)
        /\ Line(text, painted[i].start, painted[i].end, width, FlutterMetrics, hard).hard_break = hard
    BY Zenon, <2>2
  <2> HIDE DEF hard, width
  <2>5. /\ ValidLine(text, lines[i])
        /\ lines[i].range.start = ByteAt(text, painted[i].start) /\ lines[i].range.end = ByteAt(text, painted[i].end)
        /\ lines[i].hard_break = hard
    BY Zenon, <2>3, <2>4
  <2> QED
    BY <2>1, <2>5 DEF hard
<1>5. ASSUME NEW i \in 1 .. m, NEW next, next = painted[i].end + HardBreakLength(text, painted[i].end)
      PROVE  Between(text, Span(lines[i].range.end, ByteAt(text, next)), lines[i].hard_break)
  <2> DEFINE end == painted[i].end
  <2>1. end \in 0 .. n /\ lines[i].range.end = ByteAt(text, end) /\ lines[i].hard_break = (HardBreakLength(text, end) > 0)
    BY <1>4
  <2>2. next \in 0 .. n /\ IsBreak(text, end, next, HardBreakLength(text, end) > 0)
    BY <1>5, <2>1, HardBreakIsBreak
  <2>3. lines[i].hard_break \in BOOLEAN /\ IsBreak(text, end, next, lines[i].hard_break)
    BY <2>1, <2>2
  <2> HIDE DEF end
  <2>4. Between(text, ByteSpan(text, end, next), lines[i].hard_break)
    BY <2>3, BreakIsBetween
  <2> QED
    BY <2>1, <2>4 DEF ByteSpan
<1>6. LinesGoTo(lines, text, n)
  <2>1. lines # <<>>
    BY <1>0, <1>2, EmptyListIs
  <2>2. lines[1].range.start = 0
    <3>1. 1 \in 1 .. m /\ painted[1].start = 0
      BY <1>0 DEF PaintedWell
    <3> QED
      BY <1>4, <3>1, BytesAre
  <2>3. Between(text, Span(lines[m].range.end, ByteAt(text, n)), lines[m].hard_break)
    <3>1. m \in 1 .. m /\ painted[m].end = n
      BY <1>0 DEF PaintedWell
    <3>2. HardBreakLength(text, n) = 0
      BY <1>0 DEF HardBreakLength
    <3>3. n = painted[m].end + HardBreakLength(text, painted[m].end)
      BY <1>0, <3>1, <3>2
    <3> QED
      BY <1>5, <3>1, <3>3
  <2>4. ASSUME NEW i \in 1 .. m, i > 1
        PROVE  Between(text, Span(lines[i - 1].range.end, lines[i].range.start), lines[i - 1].hard_break)
    <3>1. i - 1 \in 1 .. m
      BY <1>0, <2>4
    <3>2. painted[i].start = painted[i - 1].end + HardBreakLength(text, painted[i - 1].end)
      BY <2>4 DEF PaintedWell
    <3>3. lines[i].range.start = ByteAt(text, painted[i].start)
      BY <1>4
    <3> QED
      BY <1>5, <3>1, <3>2, <3>3
  <2> QED
    BY <1>2, <2>1, <2>2, <2>3, <2>4 DEF LinesGoTo
<1> QED
  BY <1>2, <1>4, <1>6 DEF lines, ranges

LEMMA BridgeResultIs ==
  ASSUME NEW request, NEW text, NEW painted, NEW clusters
  PROVE  LET measured == BridgeResult(request, text, painted, clusters)
         IN  /\ measured.id = request.id /\ measured.request = request.fingerprint
             /\ measured.lines = BridgeLines(text, LineRanges(text, painted)) /\ measured.clusters = clusters
             /\ measured.line_count = Len(BridgeLines(text, LineRanges(text, painted)))
             /\ measured.utf8_len = ByteLength(text)
BY DEF BridgeResult, MeasuredText

\* An empty text may be painted without a line.
LEMMA UnpaintedIsMeasured ==
  ASSUME NEW request, ValidUtf8Range(request.text, request.range), NEW boxless, NEW direction,
         MeasuredPart(request) = <<>>, NEW clusters \in Sortings(Clusters(<<>>, <<>>, boxless, direction))
  PROVE  Measured(request, BridgeResult(request, MeasuredPart(request), <<>>, clusters))
<1> DEFINE measured == BridgeResult(request, MeasuredPart(request), <<>>, clusters)
           lines == BridgeLines(<<>>, LineRanges(<<>>, <<>>))
           S == Clusters(<<>>, <<>>, boxless, direction)
<1>0. Len(<<>>) = 0 /\ Len(<<>>) \in Nat /\ 0 .. Len(<<>>) - 1 = {}
  BY EmptyList
<1>1. LineRanges(<<>>, <<>>) = <<>>
  <2> DEFINE empty == <<>>
  <2>1. Len(empty) \in Nat /\ Len(empty) = 0
    BY <1>0
  <2> HIDE DEF empty
  <2>2. PICK found : /\ found[0] = [cursor |-> 0, ranges |-> <<>>]
                     /\ LineRanges(empty, empty) = found[Len(empty)].ranges
    BY <2>1, LineRangesBy
  <2>3. LineRanges(empty, empty) = <<>>
    BY <2>1, <2>2
  <2> QED
    BY <2>3 DEF empty
<1>2. IsList(lines) /\ Len(lines) = 0
  <2>1. DOMAIN <<>> = 1 .. 0
    BY EmptyList, ListShape
  <2>2. lines = [i \in 1 .. 0 |-> lines[i]]
    BY <1>1, <2>1 DEF BridgeLines
  <2> HIDE DEF lines
  <2> QED
    BY <2>2, ListMade
<1>3. IsFiniteSet(S) /\ S = {}
  <2>1. IsFiniteSet(S) /\ \A c \in S : \E at \in 0 .. Len(<<>>) - 1 : HardBreakLength(<<>>, at) = 0 /\ c = BoxOf(<<>>, <<>>, at, direction)
    BY <1>0, ClustersAre
  <2> HIDE DEF S
  <2> QED
    BY <1>0, <2>1
<1>4. IsList(clusters) /\ Len(clusters) = 0
  <2>1. /\ IsList(clusters) /\ DOMAIN clusters = 1 .. Len(clusters)
        /\ \A i \in 1 .. Len(clusters) : clusters[i] \in S
    <3>1. \A c \in S : c.line_index \in Int /\ c.x_start \in Int
      BY <1>3
    <3>2. clusters \in Sortings(S)
      OBVIOUS
    <3> HIDE DEF S
    <3> QED
      BY <1>3, <3>1, <3>2, SortingIs
  <2>2. Len(clusters) \in Nat
    BY <2>1, ListShape
  <2>3. ~(1 \in 1 .. Len(clusters))
    BY <1>3, <2>1
  <2> QED
    BY <2>1, <2>2, <2>3
<1>5. /\ measured.id = request.id /\ measured.request = request.fingerprint
      /\ measured.lines = lines /\ measured.clusters = clusters
      /\ measured.line_count = Len(lines) /\ measured.utf8_len = ByteLength(MeasuredPart(request))
  BY BridgeResultIs
<1> HIDE DEF measured, lines, S
<1>6. lines = <<>> /\ DOMAIN lines = {} /\ DOMAIN clusters = {}
  BY <1>2, <1>4, EmptyListIs, ListShape
<1>7. ValidateMeasuredText(request, measured)
  BY <1>5, <1>6 DEF ValidateMeasuredText
<1>8. ClustersInLines(measured)
  BY <1>5, <1>6 DEF ClustersInLines
<1>9. Measured(request, measured)
  BY <1>5, <1>6, <1>7, <1>8 DEF Measured
<1> QED
  BY <1>9 DEF measured

\* What is painted on at least one line fits its request.
LEMMA PaintedIsMeasured ==
  ASSUME NEW request, IsRequest(request), ValidUtf8Range(request.text, request.range), NEW boxless, NEW direction,
         NEW painted, PaintedWell(MeasuredPart(request), painted),
         NEW clusters \in Sortings(Clusters(MeasuredPart(request), painted, boxless, direction))
  PROVE  Measured(request, BridgeResult(request, MeasuredPart(request), painted, clusters))
<1> DEFINE text == MeasuredPart(request)
           n == Len(text)
           m == Len(painted)
           measured == BridgeResult(request, text, painted, clusters)
           lines == BridgeLines(text, LineRanges(text, painted))
           S == Clusters(text, painted, boxless, direction)
           Box(at) == BoxOf(text, painted, at, direction)
<1>0. IsText(text)
  BY MeasuredIsText
<1>1. /\ measured.id = request.id /\ measured.request = request.fingerprint
      /\ measured.lines = lines /\ measured.clusters = clusters
      /\ measured.line_count = Len(lines) /\ measured.utf8_len = ByteLength(text)
  BY BridgeResultIs
<1>2. clusters \in Sortings(S) /\ PaintedWell(text, painted)
  OBVIOUS
<1>3. text = MeasuredPart(request)
  OBVIOUS
<1> HIDE DEF measured, text
<1>4. n \in Nat /\ m \in Nat /\ m # 0 /\ n \in 0 .. n
  BY <1>0, <1>2, TextShape, ListShape, EmptyListIs DEF PaintedWell
<1>5. /\ IsList(lines) /\ Len(lines) = m
      /\ \A i \in 1 .. m : /\ ValidLine(text, lines[i])
                           /\ lines[i].range.start = ByteAt(text, painted[i].start)
                           /\ lines[i].range.end = ByteAt(text, painted[i].end)
      /\ LinesGoTo(lines, text, n)
  BY <1>0, <1>2, BridgeLinesAre
<1>6. DOMAIN lines = 1 .. m
  BY <1>5, ListShape
<1>7. IsFiniteSet(S) /\ \A c \in S : \E at \in 0 .. n - 1 : HardBreakLength(text, at) = 0 /\ c = Box(at)
  BY <1>4, ClustersAre
<1> HIDE DEF lines, S
<1>8. ASSUME NEW at \in 0 .. n - 1, HardBreakLength(text, at) = 0
      PROVE  /\ Box(at).range = ByteSpan(text, at, at + 1) /\ Box(at).line_index \in 0 .. m - 1
             /\ Box(at).x_start \in Nat /\ Box(at).x_end \in Nat /\ Box(at).x_start <= Box(at).x_end
             /\ ValidUtf8Range(text, Box(at).range)
             /\ Inside(Box(at).range, lines[Box(at).line_index + 1].range)
  <2> DEFINE line == PaintedOn(painted, at)
  <2>1. line \in 1 .. m /\ painted[line].start <= at /\ at < painted[line].end
    BY <1>0, <1>2, <1>8, PaintedOnIs
  <2>2. /\ Box(at).range = ByteSpan(text, at, at + 1) /\ Box(at).line_index = line - 1
        /\ Box(at).x_start \in Nat /\ Box(at).x_end \in Nat /\ Box(at).x_start <= Box(at).x_end
    BY <1>0, <1>2, <1>8, BoxIs
  <2> HIDE DEF line, Box
  <2>3. at \in 0 .. n /\ at + 1 \in 0 .. n /\ at <= at + 1 /\ painted[line].start \in 0 .. n /\ painted[line].end \in 0 .. n
        /\ at + 1 <= painted[line].end
    BY <1>2, <1>4, <2>1 DEF PaintedWell
  <2>4. ValidUtf8Range(text, Box(at).range)
    BY <1>0, <2>2, <2>3, SpanIs
  <2>5. /\ Box(at).line_index + 1 = line /\ Box(at).line_index \in 0 .. m - 1
    BY <1>4, <2>1, <2>2
  <2>6. ByteAt(text, painted[line].start) <= ByteAt(text, at) /\ ByteAt(text, at + 1) <= ByteAt(text, painted[line].end)
    BY <1>0, <2>1, <2>3, PositionOf
  <2>7. Box(at).range.start = ByteAt(text, at) /\ Box(at).range.end = ByteAt(text, at + 1)
    BY <2>2 DEF ByteSpan, Span
  <2>8. lines[line].range.start = ByteAt(text, painted[line].start) /\ lines[line].range.end = ByteAt(text, painted[line].end)
    BY <1>5, <2>1
  <2>9. Inside(Box(at).range, lines[Box(at).line_index + 1].range)
    BY <2>5, <2>6, <2>7, <2>8 DEF Inside
  <2> QED
    BY <2>2, <2>4, <2>5, <2>9
<1>9. ASSUME NEW c \in S
      PROVE  /\ ValidCluster(text, c, m) /\ Inside(c.range, lines[c.line_index + 1].range)
             /\ c.line_index \in Int /\ c.x_start \in Int
             /\ \A d \in S : c.range = d.range => c = d
  <2>1. PICK at \in 0 .. n - 1 : HardBreakLength(text, at) = 0 /\ c = Box(at)
    BY <1>7
  <2>2. /\ Box(at).line_index \in 0 .. m - 1
        /\ Box(at).x_start \in Nat /\ Box(at).x_end \in Nat /\ Box(at).x_start <= Box(at).x_end
        /\ ValidUtf8Range(text, Box(at).range)
        /\ Inside(Box(at).range, lines[Box(at).line_index + 1].range)
    BY <1>8, <2>1
  <2>3. ASSUME NEW d \in S, c.range = d.range PROVE c = d
    <3>1. PICK other \in 0 .. n - 1 : HardBreakLength(text, other) = 0 /\ d = Box(other)
      BY <1>7
    <3>2. ByteSpan(text, at, at + 1) = ByteSpan(text, other, other + 1)
      BY <1>8, <2>1, <2>3, <3>1
    <3>3. ByteAt(text, at) = ByteAt(text, other)
      BY <3>2 DEF ByteSpan, Span
    <3>4. at \in 0 .. n /\ other \in 0 .. n
      BY <1>4
    <3>5. CharsBefore(text, ByteAt(text, at)) = at /\ CharsBefore(text, ByteAt(text, other)) = other
      BY <1>0, <3>4, PositionOf
    <3>6. at = other
      BY <3>3, <3>5
    <3> QED
      BY <2>1, <3>1, <3>6
  <2> HIDE DEF Box
  <2>4. c.line_index < m /\ 0 <= c.x_start /\ c.line_index \in Int /\ c.x_start \in Int
    BY <1>4, <2>1, <2>2
  <2>5. ValidCluster(text, c, m)
    BY <2>1, <2>2, <2>4 DEF ValidCluster
  <2> QED
    BY <2>1, <2>2, <2>3, <2>4, <2>5
<1>10. /\ IsList(clusters) /\ DOMAIN clusters = 1 .. Len(clusters)
       /\ \A i \in 1 .. Len(clusters) : clusters[i] \in S
       /\ \A i, j \in 1 .. Len(clusters) : clusters[i] = clusters[j] => i = j
       /\ \A i \in 1 .. Len(clusters) : i > 1 => InVisualOrder(clusters[i - 1], clusters[i])
  BY <1>2, <1>7, <1>9, SortingIs
<1>11. ASSUME NEW i \in 1 .. m, i > 1 PROVE lines[i - 1].range.end <= lines[i].range.start
  <2> DEFINE range == Span(lines[i - 1].range.end, lines[i].range.start)
  <2>1. Between(text, range, lines[i - 1].hard_break)
    BY <1>5, <1>11 DEF LinesGoTo
  <2>2. range.start = lines[i - 1].range.end /\ range.end = lines[i].range.start
    BY DEF Span
  <2> HIDE DEF range
  <2>3. range.start <= range.end
    BY <1>0, <2>1, BetweenGoesOn
  <2> QED
    BY <2>2, <2>3
<1>12. ValidateMeasuredText(request, measured)
  BY <1>1, <1>3, <1>5, <1>6, <1>9, <1>10, <1>11 DEF ValidateMeasuredText
<1>13. ClustersInLines(measured)
  BY <1>1, <1>9, <1>10 DEF ClustersInLines
<1>14. LinesCoverText(text, lines)
  <2>1. Last(lines) = lines[m] /\ lines # <<>>
    BY <1>4, <1>5, EmptyListIs DEF Last
  <2>2. /\ lines[1].range.start = 0
        /\ Between(text, Span(lines[m].range.end, ByteAt(text, n)), lines[m].hard_break)
    BY <1>5, <2>1 DEF LinesGoTo
  <2>3. ASSUME NEW i \in 1 .. m - 1
        PROVE  Between(text, Span(lines[i].range.end, lines[i + 1].range.start), lines[i].hard_break)
    <3>1. i + 1 \in 1 .. m /\ i + 1 > 1 /\ (i + 1) - 1 = i
      BY <1>4
    <3> QED
      BY <1>5, <3>1 DEF LinesGoTo
  <2> QED
    BY <1>5, <2>1, <2>2, <2>3 DEF LinesCoverText, ByteLength
<1>15. Measured(request, measured)
  BY <1>1, <1>3, <1>12, <1>13, <1>14 DEF Measured
<1> QED
  BY <1>15 DEF measured, text

\* Whatever Flutter paints, the bridge's result fits its request.
LEMMA BridgeIsMeasured ==
  ASSUME NEW request, IsRequest(request), ValidUtf8Range(request.text, request.range),
         NEW soft, NEW boxless, NEW direction, NEW painted \in Paintings(MeasuredPart(request), soft),
         NEW clusters \in Sortings(Clusters(MeasuredPart(request), painted, boxless, direction))
  PROVE  Measured(request, BridgeResult(request, MeasuredPart(request), painted, clusters))
<1>1. IsText(MeasuredPart(request))
  BY MeasuredIsText
<1>2. painted = PaintedLines(MeasuredPart(request), soft) \/ (painted = <<>> /\ MeasuredPart(request) = <<>>)
  BY DEF Paintings
<1>3. CASE painted = PaintedLines(MeasuredPart(request), soft)
  <2>1. PaintedWell(MeasuredPart(request), painted)
    BY <1>1, <1>3, PaintedLinesAre
  <2> QED
    BY <2>1, PaintedIsMeasured
<1>4. CASE painted = <<>> /\ MeasuredPart(request) = <<>>
  <2>1. clusters \in Sortings(Clusters(<<>>, <<>>, boxless, direction))
    BY <1>4
  <2> QED
    BY <1>4, <2>1, UnpaintedIsMeasured
<1> QED
  BY <1>2, <1>3, <1>4

-----------------------------------------------------------------------------
(* What holds while a batch is measured *)

\* The steps keep: what is measured fits its request and comes in the order of the batch, a host
\* measures only batches whose requests differ in their ids, and what is accepted has their requests.
MeasureShape ==
  /\ measuring = [backend |-> measuring.backend, batch |-> measuring.batch, requested |-> measuring.requested,
                  stage |-> measuring.stage, results |-> measuring.results, painters |-> measuring.painters]
  /\ measuring.backend \in {"default", "host"}
  /\ measuring.batch \in MeasureBatches /\ measuring.requested \in MeasureBatches
  /\ IsList(measuring.results) /\ IsList(measuring.painters)
\* A result fits its request, and the deterministic backend keeps to the limit besides.
ResultFits(request, measured, backend) ==
  /\ Measured(request, measured)
  /\ IF backend = "default"
     THEN \A line \in Range(measured.lines) : line.width <= Max({request.max_width, Advance(request)})
     ELSE ValidUtf8Range(request.text, request.range)
ResultsFit ==
  /\ Len(measuring.results) <= Len(measuring.batch)
  /\ \A i \in 1 .. Len(measuring.results) : ResultFits(measuring.batch[i], measuring.results[i], measuring.backend)
  /\ measuring.backend = "host" /\ measuring.results # <<>> => DistinctIds(measuring.batch)
StageFits ==
  /\ measuring.stage \in {"returned", "accepted", "refused", "served"} => Len(measuring.results) = Len(measuring.batch)
  /\ measuring.stage \in {"asked", "returned"} => measuring.requested = measuring.batch
  /\ measuring.stage = "refused" => measuring.requested # measuring.batch
  /\ measuring.stage = "accepted" => Range(measuring.requested) = Range(measuring.batch)
  /\ measuring.stage = "served" => Range(measuring.requested) \subseteq Range(measuring.batch)
  /\ measuring.stage = "failed" => "live" \notin Range(measuring.painters)
MeasureInv == MeasureShape /\ ResultsFit /\ StageFits

LEMMA BatchShape ==
  ASSUME NEW batch \in MeasureBatches
  PROVE  /\ IsList(batch) /\ Len(batch) \in Nat /\ DOMAIN batch = 1 .. Len(batch)
         /\ \A i \in 1 .. Len(batch) : batch[i] \in Range(batch) /\ IsRequest(batch[i])
<1>1. IsList(batch) /\ \A request \in Range(batch) : IsRequest(request)
  BY BatchAssumption DEF IsList
<1> QED
  BY <1>1, ListShape

\* A list without repeated ids has as many elements as places.
LEMMA DistinctCount ==
  ASSUME NEW list, IsList(list), DistinctIds(list)
  PROVE  IsFiniteSet(Range(list)) /\ Cardinality(Range(list)) = Len(list)
<1> DEFINE n == Len(list)
<1>1. n \in Nat /\ DOMAIN list = 1 .. n /\ list \in Seq(Range(list))
  BY ListShape
<1>2. list \in [1 .. n -> Range(list)]
  BY <1>1 DEF Range
<1>3. \A i, j \in 1 .. n : list[i] = list[j] => i = j
  BY <1>1 DEF DistinctIds
<1>4. \A e \in Range(list) : \E i \in 1 .. n : list[i] = e
  BY <1>1 DEF Range
<1>5. list \in Bijection(1 .. n, Range(list))
  BY <1>1, <1>2, <1>3, <1>4 DEF Bijection, Injection, Surjection, IsInjective
<1>6. ExistsBijection(1 .. n, Range(list))
  BY <1>5 DEF ExistsBijection
<1>7. IsFiniteSet(1 .. n) /\ Cardinality(1 .. n) = n
  BY <1>1, FS_Interval
<1> QED
  BY <1>6, <1>7, FS_Bijection

\* Results that fit one batch are accepted for another only if it has the same requests.
LEMMA AcceptedIsSame ==
  ASSUME NEW batch \in MeasureBatches, NEW requested \in MeasureBatches, NEW results, IsList(results),
         Len(results) = Len(batch), \A i \in 1 .. Len(results) : Measured(batch[i], results[i]),
         HostAccepts(requested, results)
  PROVE  Range(requested) = Range(batch)
<1>0. /\ IsList(batch) /\ Len(batch) \in Nat /\ DOMAIN batch = 1 .. Len(batch)
      /\ IsList(requested) /\ DOMAIN results = 1 .. Len(batch)
  BY BatchShape, ListShape
<1>1. /\ DistinctIds(requested) /\ DistinctIds(results) /\ Len(requested) = Len(batch)
      /\ \A result \in Range(results) : \E request \in Range(requested) : ValidateMeasuredText(request, result)
  BY DEF HostAccepts
<1>2. ASSUME NEW i \in 1 .. Len(batch) PROVE batch[i] \in Range(requested)
  <2>1. results[i] \in Range(results)
    BY <1>0 DEF Range
  <2>2. PICK request \in Range(requested) : ValidateMeasuredText(request, results[i])
    BY <1>1, <2>1
  <2>3. request.fingerprint = batch[i].fingerprint
    BY <2>2 DEF ValidateMeasuredText, Measured
  <2>4. batch[i] \in Range(batch)
    BY BatchShape
  <2>5. request = batch[i]
    BY <2>3, <2>4, BatchAssumption
  <2> QED
    BY <2>5
<1>3. Range(batch) \in SUBSET Range(requested)
  BY <1>0, <1>2 DEF Range
<1>4. DistinctIds(batch)
  BY <1>0, <1>1 DEF DistinctIds, Measured
<1>5. IsFiniteSet(Range(requested)) /\ Cardinality(Range(requested)) = Cardinality(Range(batch))
  BY <1>0, <1>1, <1>4, DistinctCount
<1> QED
  BY <1>3, <1>5, FS_Subset

\* The session that asked accepts what it asked for.
LEMMA AskedIsAccepted ==
  ASSUME NEW batch \in MeasureBatches, NEW results, IsList(results), Len(results) = Len(batch),
         \A i \in 1 .. Len(results) :
           Measured(batch[i], results[i]) /\ ValidUtf8Range(batch[i].text, batch[i].range),
         results # <<>> => DistinctIds(batch)
  PROVE  HostAccepts(batch, results)
<1>0. Len(batch) \in Nat /\ DOMAIN batch = 1 .. Len(batch) /\ DOMAIN results = 1 .. Len(batch)
  BY BatchShape, ListShape
<1>1. DistinctIds(batch)
  <2>1. CASE results = <<>>
    <3>1. Len(batch) = 0
      BY <2>1, EmptyList
    <3> QED
      BY <1>0, <3>1 DEF DistinctIds
  <2> QED
    BY <2>1
<1>2. DistinctIds(results)
  BY <1>0, <1>1 DEF DistinctIds, Measured
<1>3. ASSUME NEW result \in Range(results)
      PROVE  \E request \in Range(batch) : request.id = result.id /\ ValidateMeasuredText(request, result)
  <2>1. PICK i \in 1 .. Len(batch) : result = results[i]
    BY <1>0 DEF Range
  <2>2. batch[i] \in Range(batch)
    BY BatchShape
  <2> QED
    BY <2>1, <2>2 DEF Measured
<1> QED
  BY <1>1, <1>2, <1>3 DEF HostAccepts

\* Nothing is measured at the start.
LEMMA MeasureStart == MeasureInit => MeasureInv
<1> SUFFICES ASSUME MeasureInit PROVE MeasureInv
  OBVIOUS
<1>1. PICK batch \in MeasureBatches, backend \in {"default", "host"} : measuring = Asked(batch, backend)
  BY DEF MeasureInit
<1>2. measuring = [backend |-> backend, batch |-> batch, requested |-> batch, stage |-> "asked", results |-> <<>>, painters |-> <<>>]
  BY <1>1 DEF Asked
<1>3. Len(batch) \in Nat
  BY BatchShape
<1>4. MeasureShape
  BY <1>2, EmptyList DEF MeasureShape
<1>5. ResultsFit
  <2>1. Len(measuring.results) = 0 /\ 1 .. 0 = {} /\ measuring.results = <<>> /\ measuring.batch = batch
    BY <1>2, EmptyList
  <2> QED
    BY <1>3, <2>1 DEF ResultsFit
<1>6. StageFits
  BY <1>2 DEF StageFits
<1> QED
  BY <1>4, <1>5, <1>6 DEF MeasureInv

\* A result that fits the request in hand comes behind those before it.
LEMMA ResultAppended ==
  ASSUME MeasureShape, ResultsFit, Len(measuring.results) < Len(measuring.batch),
         NEW result, ResultFits(InHand, result, measuring.backend),
         measuring.backend = "host" => DistinctIds(measuring.batch),
         measuring'.batch = measuring.batch, measuring'.backend = measuring.backend,
         measuring'.results = Append(measuring.results, result)
  PROVE  ResultsFit' /\ IsList(measuring.results)'
<1> DEFINE list == measuring.results
           more == measuring'.results
           batch == measuring.batch
           k == Len(list)
<1>0. IsList(list) /\ k \in Nat /\ Len(batch) \in Nat /\ k < Len(batch)
  BY ListShape, BatchShape DEF MeasureShape
<1>1. \A i \in 1 .. k : ResultFits(batch[i], list[i], measuring.backend)
  BY DEF ResultsFit
<1>2. ResultFits(batch[k + 1], result, measuring.backend)
  BY DEF InHand
<1>3. /\ IsList(more) /\ Len(more) = k + 1 /\ more[k + 1] = result
      /\ \A i \in 1 .. k : more[i] = list[i]
  <2> HIDE DEF list
  <2>1. /\ IsList(Append(list, result)) /\ Len(Append(list, result)) = Len(list) + 1
        /\ \A i \in 1 .. Len(list) : Append(list, result)[i] = list[i]
        /\ Append(list, result)[Len(list) + 1] = result
    BY <1>0, ListAppended
  <2>2. more = Append(list, result)
    BY DEF list
  <2> QED
    BY <2>1, <2>2
<1>4. ASSUME NEW i \in 1 .. k + 1 PROVE ResultFits(batch[i], more[i], measuring.backend)
  <2> HIDE DEF more, list, batch, k
  <2>1. CASE i = k + 1
    BY <1>2, <1>3, <2>1
  <2>2. CASE i # k + 1
    <3>1. i \in 1 .. k
      BY <1>0, <2>2
    <3> QED
      BY <1>1, <1>3, <3>1
  <2> QED
    BY <2>1, <2>2
<1>5. Len(more) <= Len(batch)
  BY <1>0, <1>3
<1> QED
  BY <1>3, <1>4, <1>5 DEF ResultsFit

-----------------------------------------------------------------------------
(* The steps of measuring *)

\* The part of the batch in hand that a step leaves alone.
SameResults ==
  /\ measuring'.backend = measuring.backend /\ measuring'.batch = measuring.batch
  /\ measuring'.results = measuring.results

LEMMA SameResultsFit ==
  ASSUME MeasureShape, ResultsFit, SameResults
  PROVE  ResultsFit' /\ IsList(measuring.results)'
BY DEF MeasureShape, ResultsFit, SameResults

\* Painters that were all disposed of.
LEMMA DisposedAre ==
  ASSUME NEW painters, IsList(painters)
  PROVE  /\ IsList([i \in DOMAIN painters |-> "disposed"])
         /\ "live" \notin Range([i \in DOMAIN painters |-> "disposed"])
<1> DEFINE d == [i \in DOMAIN painters |-> "disposed"]
<1>1. DOMAIN painters = 1 .. Len(painters) /\ Len(painters) \in Nat
  BY ListShape
<1>2. d = [i \in 1 .. Len(painters) |-> d[i]] /\ DOMAIN d = DOMAIN painters
  BY <1>1
<1>3. \A i \in DOMAIN d : d[i] = "disposed"
  OBVIOUS
<1> HIDE DEF d
<1>4. IsList(d)
  BY <1>1, <1>2, ListMade
<1>5. "live" \notin Range(d)
  BY <1>3 DEF Range
<1> QED
  BY <1>4, <1>5 DEF d

\* Measuring one more request.
LEMMA MeasuredMore ==
  ASSUME MeasureInv, Measures(measuring.backend), NEW result, ResultFits(InHand, result, measuring.backend),
         measuring.backend = "host" => DistinctIds(measuring.batch),
         NEW painters, IsList(painters), measuring' = [measuring EXCEPT !.results = Append(@, result), !.painters = painters]
  PROVE  MeasureInv'
<1>1. MeasureShape /\ ResultsFit /\ StageFits /\ measuring.stage = "asked" /\ Len(measuring.results) < Len(measuring.batch)
  BY DEF MeasureInv, Measures
<1> DEFINE longer == Append(measuring.results, result)
<1>2. measuring' = [measuring EXCEPT !.results = longer, !.painters = painters]
  OBVIOUS
<1>3. longer = Append(measuring.results, result)
  OBVIOUS
<1> HIDE DEF longer
<1>4. /\ measuring'.backend = measuring.backend /\ measuring'.batch = measuring.batch
      /\ measuring'.requested = measuring.requested /\ measuring'.stage = "asked"
      /\ measuring'.results = longer /\ measuring'.painters = painters
      /\ measuring' = [backend |-> measuring'.backend, batch |-> measuring'.batch, requested |-> measuring'.requested,
                       stage |-> measuring'.stage, results |-> measuring'.results, painters |-> measuring'.painters]
  BY <1>1, <1>2 DEF MeasureShape
<1>5. ResultsFit' /\ IsList(measuring.results)'
  BY <1>1, <1>3, <1>4, ResultAppended
<1>6. MeasureShape'
  BY <1>1, <1>4, <1>5 DEF MeasureShape
<1>7. StageFits'
  BY <1>1, <1>4 DEF StageFits
<1> QED
  BY <1>5, <1>6, <1>7 DEF MeasureInv

LEMMA InHandIs ==
  ASSUME MeasureShape, NEW backend, Measures(backend)
  PROVE  IsRequest(InHand) /\ backend = measuring.backend
<1>1. /\ measuring.batch \in MeasureBatches /\ Len(measuring.results) \in Nat
      /\ Len(measuring.results) < Len(measuring.batch) /\ Len(measuring.batch) \in Nat /\ measuring.backend = backend
  BY ListShape, BatchShape DEF MeasureShape, Measures
<1>2. Len(measuring.results) + 1 \in 1 .. Len(measuring.batch)
  BY <1>1
<1> QED
  BY <1>1, <1>2, BatchShape DEF InHand

LEMMA DefaultKeeps == MeasureInv /\ DefaultMeasures => MeasureInv'
<1> SUFFICES ASSUME MeasureInv, DefaultMeasures PROVE MeasureInv'
  OBVIOUS
<1>1. MeasureShape /\ Measures("default") /\ measuring.backend = "default" /\ IsRequest(InHand)
  BY InHandIs DEF MeasureInv, DefaultMeasures, Measures
<1> DEFINE result == MeasureDeterministic(InHand)
<1>2. ResultFits(InHand, result, "default")
  BY <1>1, DefaultIsMeasured DEF ResultFits
<1>3. measuring' = [measuring EXCEPT !.results = Append(@, result)]
  BY DEF DefaultMeasures
<1> HIDE DEF result
<1>4. measuring' = [measuring EXCEPT !.results = Append(@, result), !.painters = measuring.painters]
  BY <1>1, <1>3 DEF MeasureShape
<1>5. IsList(measuring.painters) /\ measuring.backend # "host"
  BY <1>1 DEF MeasureShape
<1> QED
  BY <1>1, <1>2, <1>4, <1>5, MeasuredMore

LEMMA BridgeKeeps == MeasureInv /\ BridgeMeasures => MeasureInv'
<1> SUFFICES ASSUME MeasureInv, BridgeMeasures PROVE MeasureInv'
  OBVIOUS
<1>1. MeasureShape /\ Measures("host") /\ measuring.backend = "host" /\ IsRequest(InHand) /\ Accepted(InHand)
  BY InHandIs DEF MeasureInv, BridgeMeasures, Measures
<1> DEFINE text == MeasuredPart(InHand)
<1>2. PICK soft, boxless, direction, painted, clusters :
        /\ painted \in Paintings(text, soft)
        /\ clusters \in Sortings(Clusters(text, painted, boxless, direction))
        /\ measuring' = Painted(InHand, BridgeResult(InHand, text, painted, clusters))
  BY DEF BridgeMeasures
<1>3. ValidUtf8Range(InHand.text, InHand.range) /\ DistinctIds(measuring.batch)
  BY <1>1 DEF Accepted, Measurable
<1> DEFINE result == BridgeResult(InHand, text, painted, clusters)
<1>4. Measured(InHand, result)
  BY <1>1, <1>2, <1>3, BridgeIsMeasured
<1>5. ResultFits(InHand, result, "host")
  BY <1>3, <1>4 DEF ResultFits
<1> DEFINE painters == Append(measuring.painters, "live")
<1>6. measuring' = [measuring EXCEPT !.results = Append(@, result), !.painters = painters]
  BY <1>2 DEF Painted
<1>7. IsList(painters)
  <2>1. IsList(measuring.painters)
    BY <1>1 DEF MeasureShape
  <2> QED
    BY <2>1, ListAppended
<1> HIDE DEF result, painters
<1> QED
  BY <1>1, <1>3, <1>5, <1>6, <1>7, MeasuredMore

\* What is thrown disposes of the painters.
LEMMA ThrownIs ==
  ASSUME MeasureShape
  PROVE  /\ Thrown.backend = measuring.backend /\ Thrown.batch = measuring.batch
         /\ Thrown.requested = measuring.requested /\ Thrown.stage = "failed" /\ Thrown.results = measuring.results
         /\ IsList(Thrown.painters) /\ "live" \notin Range(Thrown.painters)
         /\ Thrown = [backend |-> Thrown.backend, batch |-> Thrown.batch, requested |-> Thrown.requested,
                      stage |-> Thrown.stage, results |-> Thrown.results, painters |-> Thrown.painters]
<1> DEFINE painters == [i \in DOMAIN measuring.painters |-> "disposed"]
<1>1. Thrown = [measuring EXCEPT !.stage = "failed", !.painters = painters]
  BY DEF Thrown
<1>2. IsList(painters) /\ "live" \notin Range(painters)
  <2>1. IsList(measuring.painters)
    BY DEF MeasureShape
  <2> QED
    BY <2>1, DisposedAre
<1> HIDE DEF painters
<1> DEFINE thrown == Thrown
<1>3. thrown = [measuring EXCEPT !.stage = "failed", !.painters = painters]
  BY <1>1
<1> HIDE DEF thrown
<1>4. /\ thrown.backend = measuring.backend /\ thrown.batch = measuring.batch
      /\ thrown.requested = measuring.requested /\ thrown.stage = "failed" /\ thrown.results = measuring.results
      /\ thrown.painters = painters
      /\ thrown = [backend |-> thrown.backend, batch |-> thrown.batch, requested |-> thrown.requested,
                   stage |-> thrown.stage, results |-> thrown.results, painters |-> thrown.painters]
  BY <1>3 DEF MeasureShape
<1> QED
  BY <1>2, <1>4 DEF thrown

\* A step that leaves the results alone.
LEMMA RestKeeps ==
  ASSUME MeasureInv, SameResults,
         measuring' = [backend |-> measuring'.backend, batch |-> measuring'.batch, requested |-> measuring'.requested,
                       stage |-> measuring'.stage, results |-> measuring'.results, painters |-> measuring'.painters],
         measuring'.requested \in MeasureBatches, IsList(measuring'.painters), StageFits'
  PROVE  MeasureInv'
<1>1. MeasureShape /\ ResultsFit
  BY DEF MeasureInv
<1>2. ResultsFit' /\ IsList(measuring.results)'
  BY <1>1, SameResultsFit
<1>3. MeasureShape'
  BY <1>1, <1>2 DEF MeasureShape, SameResults
<1> QED
  BY <1>2, <1>3 DEF MeasureInv

LEMMA FailingKeeps == MeasureInv /\ (measuring' = Thrown \/ PainterFails) => MeasureInv'
<1> SUFFICES ASSUME MeasureInv, measuring' = Thrown \/ PainterFails PROVE MeasureInv'
  OBVIOUS
<1>0. MeasureShape
  BY DEF MeasureInv
<1> DEFINE thrown == Thrown
<1>1. /\ thrown.backend = measuring.backend /\ thrown.batch = measuring.batch
      /\ thrown.requested = measuring.requested /\ thrown.stage = "failed" /\ thrown.results = measuring.results
      /\ IsList(thrown.painters) /\ "live" \notin Range(thrown.painters)
      /\ thrown = [backend |-> thrown.backend, batch |-> thrown.batch, requested |-> thrown.requested,
                   stage |-> thrown.stage, results |-> thrown.results, painters |-> thrown.painters]
  BY <1>0, ThrownIs
<1>2. measuring' = thrown \/ measuring' = [thrown EXCEPT !.painters = Append(@, "disposed")]
  BY DEF PainterFails
<1> HIDE DEF thrown
<1>3. CASE measuring' = thrown
  <2>1. SameResults /\ StageFits'
    BY <1>1, <1>3 DEF SameResults, StageFits
  <2>2. measuring'.requested \in MeasureBatches /\ IsList(measuring'.painters)
    BY <1>0, <1>1, <1>3 DEF MeasureShape
  <2> QED
    BY <1>1, <1>3, <2>1, <2>2, RestKeeps
<1>4. CASE measuring' = [thrown EXCEPT !.painters = Append(@, "disposed")]
  <2> DEFINE painters == Append(thrown.painters, "disposed")
  <2>1. IsList(painters) /\ "live" \notin Range(painters)
    <3> DEFINE d == thrown.painters
    <3>1. IsList(d) /\ "live" \notin Range(d) /\ DOMAIN d = 1 .. Len(d) /\ Len(d) \in Nat
      BY <1>1, ListShape
    <3>2. painters = Append(d, "disposed")
      OBVIOUS
    <3> HIDE DEF d, painters
    <3>3. /\ IsList(painters) /\ Len(painters) = Len(d) + 1 /\ painters[Len(d) + 1] = "disposed"
          /\ \A i \in 1 .. Len(d) : painters[i] = d[i]
      BY <3>1, <3>2, ListAppended
    <3>4. DOMAIN painters = 1 .. Len(d) + 1
      BY <3>3, ListShape
    <3>5. ASSUME NEW i \in 1 .. Len(d) + 1 PROVE painters[i] # "live"
      <4>1. CASE i = Len(d) + 1
        BY <3>3, <4>1
      <4>2. CASE i # Len(d) + 1
        <5>1. i \in 1 .. Len(d)
          BY <3>1, <4>2
        <5>2. d[i] \in Range(d)
          BY <3>1, <5>1 DEF Range
        <5> QED
          BY <3>1, <3>3, <5>1, <5>2
      <4> QED
        BY <4>1, <4>2
    <3> QED
      BY <3>3, <3>4, <3>5 DEF Range
  <2>2. measuring' = [thrown EXCEPT !.painters = painters]
    BY <1>4
  <2> HIDE DEF painters
  <2>3. /\ measuring'.backend = thrown.backend /\ measuring'.batch = thrown.batch
        /\ measuring'.requested = thrown.requested /\ measuring'.stage = "failed" /\ measuring'.results = thrown.results
        /\ measuring'.painters = painters
        /\ measuring' = [backend |-> measuring'.backend, batch |-> measuring'.batch, requested |-> measuring'.requested,
                         stage |-> measuring'.stage, results |-> measuring'.results, painters |-> measuring'.painters]
    BY <1>1, <2>2
  <2>4. SameResults /\ StageFits'
    BY <1>1, <2>1, <2>3 DEF SameResults, StageFits
  <2>5. measuring'.requested \in MeasureBatches /\ IsList(measuring'.painters)
    BY <1>0, <1>1, <2>1, <2>3 DEF MeasureShape
  <2> QED
    BY <2>3, <2>4, <2>5, RestKeeps
<1> QED
  BY <1>2, <1>3, <1>4

LEMMA StagesKeep == MeasureInv /\ (Cancelled \/ Return) => MeasureInv'
<1> SUFFICES ASSUME MeasureInv, Cancelled \/ Return PROVE MeasureInv'
  OBVIOUS
<1>1. MeasureShape /\ StageFits
  BY DEF MeasureInv
<1>2. PICK outcome \in {"cancelled", "returned"} :
        /\ measuring' = [measuring EXCEPT !.stage = outcome] /\ measuring.stage = "asked"
        /\ outcome = "returned" => Len(measuring.results) = Len(measuring.batch)
  BY DEF Cancelled, Return, Measures
<1>3. /\ measuring'.backend = measuring.backend /\ measuring'.batch = measuring.batch
      /\ measuring'.requested = measuring.requested /\ measuring'.stage = outcome
      /\ measuring'.results = measuring.results /\ measuring'.painters = measuring.painters
      /\ measuring' = [backend |-> measuring'.backend, batch |-> measuring'.batch, requested |-> measuring'.requested,
                       stage |-> measuring'.stage, results |-> measuring'.results, painters |-> measuring'.painters]
  BY <1>1, <1>2 DEF MeasureShape
<1>4. SameResults /\ StageFits'
  BY <1>1, <1>2, <1>3 DEF SameResults, StageFits
<1>5. measuring'.requested \in MeasureBatches /\ IsList(measuring'.painters)
  BY <1>1, <1>3 DEF MeasureShape
<1> QED
  BY <1>3, <1>4, <1>5, RestKeeps

\* A response is accepted just for the requests that it answers.
LEMMA SubmitKeeps ==
  ASSUME MeasureInv, NEW requested \in MeasureBatches, Submit(requested)
  PROVE  MeasureInv'
<1>1. MeasureShape /\ ResultsFit /\ StageFits
  BY DEF MeasureInv
<1> DEFINE batch == measuring.batch
           results == measuring.results
           outcome == IF HostAccepts(requested, results) THEN "accepted" ELSE "refused"
<1>2. /\ measuring.stage = "returned" /\ measuring.backend = "host"
      /\ measuring' = [measuring EXCEPT !.requested = requested, !.stage = outcome]
  BY DEF Submit
<1>3. /\ batch \in MeasureBatches /\ IsList(results) /\ Len(results) = Len(batch)
      /\ \A i \in 1 .. Len(results) : Measured(batch[i], results[i]) /\ ValidUtf8Range(batch[i].text, batch[i].range)
      /\ results # <<>> => DistinctIds(batch)
  BY <1>1, <1>2 DEF MeasureShape, ResultsFit, ResultFits, StageFits
<1> HIDE DEF batch, results
<1>4. HostAccepts(requested, results) => Range(requested) = Range(batch)
  BY <1>3, AcceptedIsSame
<1>5. requested = batch => HostAccepts(requested, results)
  BY <1>3, AskedIsAccepted
<1>6. \/ outcome = "accepted" /\ Range(requested) = Range(batch)
      \/ outcome = "refused" /\ requested # batch
  <2>1. CASE HostAccepts(requested, results)
    <3>1. outcome = "accepted"
      BY <2>1
    <3>2. Range(requested) = Range(batch)
      BY <1>4, <2>1
    <3> QED
      BY <3>1, <3>2
  <2>2. CASE ~HostAccepts(requested, results)
    <3>1. outcome = "refused"
      BY <2>2
    <3>2. requested # batch
      BY <1>5, <2>2
    <3> QED
      BY <3>1, <3>2
  <2> QED
    BY <2>1, <2>2
<1> HIDE DEF outcome
<1>7. /\ measuring'.backend = measuring.backend /\ measuring'.batch = measuring.batch
      /\ measuring'.requested = requested /\ measuring'.stage = outcome
      /\ measuring'.results = measuring.results /\ measuring'.painters = measuring.painters
      /\ measuring' = [backend |-> measuring'.backend, batch |-> measuring'.batch, requested |-> measuring'.requested,
                       stage |-> measuring'.stage, results |-> measuring'.results, painters |-> measuring'.painters]
  BY <1>1, <1>2 DEF MeasureShape
<1>8. SameResults
  BY <1>7 DEF SameResults
<1>9. StageFits'
  <2>1. Len(measuring'.results) = Len(measuring'.batch) /\ measuring'.batch = batch
    BY <1>3, <1>7 DEF batch, results
  <2> QED
    BY <1>6, <1>7, <2>1 DEF StageFits
<1>10. measuring'.requested \in MeasureBatches /\ IsList(measuring'.painters)
  BY <1>1, <1>7 DEF MeasureShape
<1> QED
  BY <1>7, <1>8, <1>9, <1>10, RestKeeps

LEMMA ServeKeeps ==
  ASSUME MeasureInv, NEW again \in MeasureBatches, Serve(again)
  PROVE  MeasureInv'
<1>1. MeasureShape /\ StageFits
  BY DEF MeasureInv
<1> DEFINE outcome == IF HostServes(measuring.requested, again) THEN "served" ELSE "refused"
<1>2. measuring.stage = "accepted" /\ measuring' = [measuring EXCEPT !.requested = again, !.stage = outcome]
  BY DEF Serve
<1>3. Range(measuring.requested) = Range(measuring.batch) /\ Len(measuring.results) = Len(measuring.batch)
  BY <1>1, <1>2 DEF StageFits
<1>4. \/ outcome = "served" /\ Range(again) \subseteq Range(measuring.batch)
      \/ outcome = "refused" /\ again # measuring.batch
  BY <1>3 DEF HostServes
<1> HIDE DEF outcome
<1>7. /\ measuring'.backend = measuring.backend /\ measuring'.batch = measuring.batch
      /\ measuring'.requested = again /\ measuring'.stage = outcome
      /\ measuring'.results = measuring.results /\ measuring'.painters = measuring.painters
      /\ measuring' = [backend |-> measuring'.backend, batch |-> measuring'.batch, requested |-> measuring'.requested,
                       stage |-> measuring'.stage, results |-> measuring'.results, painters |-> measuring'.painters]
  BY <1>1, <1>2 DEF MeasureShape
<1>8. SameResults /\ StageFits'
  BY <1>3, <1>4, <1>7 DEF SameResults, StageFits
<1>9. measuring'.requested \in MeasureBatches /\ IsList(measuring'.painters)
  BY <1>1, <1>7 DEF MeasureShape
<1> QED
  BY <1>7, <1>8, <1>9, RestKeeps

\* Disposing of the painters, serving and returning leave the results alone.
LEMMA DisposeKeeps == MeasureInv /\ DisposeBatch => MeasureInv'
<1> SUFFICES ASSUME MeasureInv, DisposeBatch PROVE MeasureInv'
  OBVIOUS
<1>1. MeasureShape /\ StageFits
  BY DEF MeasureInv
<1> DEFINE painters == [i \in DOMAIN measuring.painters |-> "disposed"]
<1>2. measuring' = [measuring EXCEPT !.painters = painters]
  BY DEF DisposeBatch
<1>3. IsList(painters) /\ "live" \notin Range(painters)
  <2>1. IsList(measuring.painters)
    BY <1>1 DEF MeasureShape
  <2> QED
    BY <2>1, DisposedAre
<1> HIDE DEF painters
<1>4. /\ measuring'.backend = measuring.backend /\ measuring'.batch = measuring.batch
      /\ measuring'.requested = measuring.requested /\ measuring'.stage = measuring.stage
      /\ measuring'.results = measuring.results /\ measuring'.painters = painters
      /\ measuring' = [backend |-> measuring'.backend, batch |-> measuring'.batch, requested |-> measuring'.requested,
                       stage |-> measuring'.stage, results |-> measuring'.results, painters |-> measuring'.painters]
  BY <1>1, <1>2 DEF MeasureShape
<1>5. SameResults /\ StageFits'
  BY <1>1, <1>3, <1>4 DEF SameResults, StageFits
<1>6. measuring'.requested \in MeasureBatches /\ IsList(measuring'.painters)
  BY <1>1, <1>3, <1>4 DEF MeasureShape
<1> QED
  BY <1>4, <1>5, <1>6, RestKeeps

\* Every step keeps the invariant.
LEMMA MeasureKeeps == MeasureInv /\ [MeasureNext]_measuring => MeasureInv'
<1> SUFFICES ASSUME MeasureInv, [MeasureNext]_measuring PROVE MeasureInv'
  OBVIOUS
<1>1. CASE DefaultMeasures
  BY <1>1, DefaultKeeps
<1>2. CASE BridgeMeasures
  BY <1>2, BridgeKeeps
<1>3. CASE Cancelled \/ Return
  BY <1>3, StagesKeep
<1>4. CASE BridgeRefuses \/ EncodingFails
  BY <1>4, FailingKeeps DEF BridgeRefuses, EncodingFails
<1>5. CASE PainterFails
  BY <1>5, FailingKeeps
<1>6. ASSUME NEW requested \in MeasureBatches, Submit(requested) PROVE MeasureInv'
  BY <1>6, SubmitKeeps
<1>7. ASSUME NEW again \in MeasureBatches, Serve(again) PROVE MeasureInv'
  BY <1>7, ServeKeeps
<1>8. CASE DisposeBatch
  BY <1>8, DisposeKeeps
<1>9. CASE UNCHANGED measuring
  BY <1>9 DEF MeasureInv, MeasureShape, ResultsFit, StageFits
<1> QED
  BY <1>1, <1>2, <1>3, <1>4, <1>5, <1>6, <1>7, <1>8, <1>9 DEF MeasureNext

\* The invariant says more than the property asks.
LEMMA InvGivesMeasurements == MeasureInv => MeasurementsAccepted
<1> SUFFICES ASSUME MeasureInv PROVE MeasurementsAccepted
  OBVIOUS
<1>1. MeasureShape /\ ResultsFit /\ StageFits
  BY DEF MeasureInv
<1>2. ASSUME NEW i \in DOMAIN measuring.results,
             ValidUtf8Range(measuring.batch[i].text, measuring.batch[i].range)
      PROVE  /\ ValidateMeasuredText(measuring.batch[i], measuring.results[i])
             /\ measuring.results[i].lines # <<>> =>
                  LinesCoverText(MeasuredPart(measuring.batch[i]), measuring.results[i].lines)
             /\ ClustersInLines(measuring.results[i])
             /\ measuring.backend = "default" => \A line \in Range(measuring.results[i].lines) :
                  line.width <= Max({measuring.batch[i].max_width, Advance(measuring.batch[i])})
  <2>1. i \in 1 .. Len(measuring.results)
    BY <1>1, ListShape DEF MeasureShape
  <2>2. ResultFits(measuring.batch[i], measuring.results[i], measuring.backend)
    BY <1>1, <2>1 DEF ResultsFit
  <2> QED
    BY <1>2, <2>2 DEF ResultFits, Measured
<1> QED
  BY <1>1, <1>2 DEF MeasurementsAccepted, StageFits

\* Measurements fit the text they were made of, and the session that asked, for any batches
\* (DefaultTextBackend::measure_batch, TextMeasureBridge.measureBatch and text.rs's
\* HostMeasuredTextBackend::new).
THEOREM MeasurementIsAccepted == MeasureSpec => []MeasurementsAccepted
<1>1. MeasureSpec => []MeasureInv
  BY MeasureStart, MeasureKeeps, PTL DEF MeasureSpec
<1> QED
  BY <1>1, InvGivesMeasurements, PTL

-----------------------------------------------------------------------------
(* The notes of a chapter *)

\* The notes of a chapter, and what leads back from them to one of its links.
NotesStand(ir) ==
  \A n \in Notes(ir) :
    /\ \A m \in Notes(ir) \ {n} : ir.nodes[n].range = <<>> => ir.nodes[m].note # ir.nodes[n].note
    /\ ir.nodes[n].backlink # NoPath =>
         ir.nodes[n].backlink \in Range(ir.links) /\ ir.nodes[n].backlink.fragment = ir.nodes[n].note

\* The links that are still asked for are the chapter's.
Asking ==
  /\ unresolved \in Seq(Range(chapter.links))
  /\ Len(unresolved) <= Cardinality(FootnoteLinks(chapter))
  /\ Cardinality(FootnoteLinks(chapter)) \in Nat

NotesInv ==
  /\ NotesOnce
  /\ NotesStand(chapter)
  /\ stage = "waiting" => chapter = EmptyChapter
  /\ stage = "notes" => IsChapter(chapter) /\ Asking

\* NotesOnce, by its two parts.
LEMMA NotesAre ==
  NotesOnce <=> /\ stage = "notes" /\ Len(unresolved) = Cardinality(FootnoteLinks(chapter)) => Fresh(chapter)
                /\ NotesStand(chapter)
BY DEF NotesOnce, NotesStand

\* A chapter and its parts.
LEMMA ChapterIs ==
  ASSUME NEW ir, IsChapter(ir)
  PROVE  /\ Len(ir.nodes) \in Nat /\ DOMAIN ir.nodes = 1 .. Len(ir.nodes) /\ ir.nodes \in Seq(Range(ir.nodes))
         /\ ir = [nodes |-> ir.nodes, root |-> ir.root, links |-> ir.links, anchors |-> ir.anchors]
         /\ \A n \in 1 .. Len(ir.nodes) : IsIrNode(ir.nodes[n])
         /\ ir.root \in 1 .. Len(ir.nodes)
         /\ Len(ir.links) \in Nat /\ DOMAIN ir.links = 1 .. Len(ir.links)
<1>1. IsList(ir.nodes) /\ IsList(ir.links)
  BY DEF IsChapter, IsList
<1>2. /\ Len(ir.nodes) \in Nat /\ DOMAIN ir.nodes = 1 .. Len(ir.nodes)
      /\ Len(ir.links) \in Nat /\ DOMAIN ir.links = 1 .. Len(ir.links)
  BY <1>1, ListShape
<1> QED
  BY <1>2 DEF IsChapter

\* As many links as there are can be counted.
LEMMA LinksCount ==
  ASSUME NEW ir, IsChapter(ir)
  PROVE  Cardinality(FootnoteLinks(ir)) \in Nat
<1>1. Len(ir.links) \in Nat /\ DOMAIN ir.links = 1 .. Len(ir.links)
  BY ChapterIs
<1>2. FootnoteLinks(ir) \in SUBSET (1 .. Len(ir.links))
  BY <1>1 DEF FootnoteLinks
<1>3. IsFiniteSet(1 .. Len(ir.links))
  BY <1>1, FS_Interval
<1> QED
  BY <1>2, <1>3, FS_Subset, FS_CardinalityType

\* A chapter with other nodes.
LEMMA OtherNodes ==
  ASSUME NEW ir, IsChapter(ir), NEW list, list \in Seq(Range(list)), Len(list) >= Len(ir.nodes),
         \A n \in 1 .. Len(list) : IsIrNode(list[n])
  PROVE  /\ IsChapter([ir EXCEPT !.nodes = list])
         /\ [ir EXCEPT !.nodes = list].nodes = list /\ [ir EXCEPT !.nodes = list].links = ir.links
<1>1. IsList(list)
  BY DEF IsList
<1>2. Len(list) \in Nat /\ DOMAIN list = 1 .. Len(list)
  BY <1>1, ListShape
<1>3. ir.root \in 1 .. Len(list)
  BY <1>2, ChapterIs
<1>4. [ir EXCEPT !.nodes = list] = [nodes |-> list, root |-> ir.root, links |-> ir.links, anchors |-> ir.anchors]
  BY ChapterIs
<1> HIDE DEF IsIrNode
<1> QED
  BY <1>2, <1>3, <1>4 DEF IsChapter

\* A node with another backlink or other children is otherwise what it was.
LEMMA BacklinkChanged ==
  ASSUME NEW node, IsIrNode(node), NEW value
  PROVE  LET now == [node EXCEPT !.backlink = value] IN
         /\ IsIrNode(now) /\ now.kind = node.kind /\ now.note = node.note
         /\ now.range = node.range /\ now.backlink = value
<1> DEFINE now == [node EXCEPT !.backlink = value]
<1>1. now = [kind |-> node.kind, text |-> node.text, runs |-> node.runs, children |-> node.children,
             range |-> node.range, note |-> node.note, backlink |-> value, path |-> node.path,
             role |-> node.role]
  BY DEF IsIrNode
<1> HIDE DEF now
<1> QED
  BY <1>1 DEF IsIrNode, now

LEMMA ChildrenChanged ==
  ASSUME NEW node, IsIrNode(node), NEW value
  PROVE  LET now == [node EXCEPT !.children = value] IN
         /\ IsIrNode(now) /\ now.kind = node.kind /\ now.note = node.note
         /\ now.range = node.range /\ now.backlink = node.backlink
<1> DEFINE now == [node EXCEPT !.children = value]
<1>1. now = [kind |-> node.kind, text |-> node.text, runs |-> node.runs, children |-> value,
             range |-> node.range, note |-> node.note, backlink |-> node.backlink, path |-> node.path,
             role |-> node.role]
  BY DEF IsIrNode
<1> HIDE DEF now
<1> QED
  BY <1>1 DEF IsIrNode, now

\* The nodes of a note that was fetched.
LEMMA PlacelessIs ==
  ASSUME NEW kind, NEW text, NEW children, NEW note, NEW backlink
  PROVE  LET node == Placeless(kind, text, children, note, backlink) IN
         /\ IsIrNode(node) /\ node.kind = kind /\ node.range = <<>>
         /\ node.note = note /\ node.backlink = backlink
BY DEF Placeless, IsIrNode

\* A list with a place changed.
LEMMA PlaceChanged ==
  ASSUME NEW list, list \in Seq(Range(list)), NEW i \in 1 .. Len(list), NEW value
  PROVE  LET now == [list EXCEPT ![i] = value] IN
         now \in Seq(Range(now)) /\ Len(now) = Len(list) /\ DOMAIN now = 1 .. Len(list)
         /\ \A n \in 1 .. Len(list) : now[n] = IF n = i THEN value ELSE list[n]
<1> DEFINE now == [list EXCEPT ![i] = value]
<1>1. IsList(list)
  BY DEF IsList
<1>2. Len(list) \in Nat /\ DOMAIN list = 1 .. Len(list)
  BY <1>1, ListShape
<1>3. now = [n \in 1 .. Len(list) |-> IF n = i THEN value ELSE list[n]]
  BY <1>2
<1>4. now = [n \in 1 .. Len(list) |-> now[n]]
  BY <1>3
<1> HIDE DEF now
<1>5. IsList(now) /\ Len(now) = Len(list)
  BY <1>2, <1>4, ListMade
<1>6. DOMAIN now = 1 .. Len(list) /\ \A n \in 1 .. Len(list) : now[n] = IF n = i THEN value ELSE list[n]
  BY <1>3
<1> QED
  BY <1>5, <1>6 DEF IsList, now

\* A list that goes on with two values.
LEMMA TwoMore ==
  ASSUME NEW list, list \in Seq(Range(list)), NEW one, NEW two
  PROVE  LET now == list \o <<one, two>> IN
         now \in Seq(Range(now)) /\ Len(now) = Len(list) + 2 /\ DOMAIN now = 1 .. Len(list) + 2
         /\ now[Len(list) + 1] = one /\ now[Len(list) + 2] = two
         /\ \A n \in 1 .. Len(list) : now[n] = list[n]
<1> DEFINE now == list \o <<one, two>>
           S == Range(list) \cup {one, two}
<1>1. IsList(list)
  BY DEF IsList
<1>2. Len(list) \in Nat /\ DOMAIN list = 1 .. Len(list) /\ \A n \in 1 .. Len(list) : list[n] \in S
  BY <1>1, ListShape
<1>3. list \in Seq(S)
  BY <1>2
<1>4. <<one, two>> \in Seq(S) /\ Len(<<one, two>>) = 2 /\ <<one, two>>[1] = one /\ <<one, two>>[2] = two
  OBVIOUS
<1> HIDE DEF S
<1>5. /\ now \in Seq(S) /\ Len(now) = Len(list) + 2
      /\ \A n \in 1 .. Len(list) + 2 : now[n] = IF n <= Len(list) THEN list[n] ELSE <<one, two>>[n - Len(list)]
  BY <1>3, <1>4, ConcatProperties
<1> HIDE DEF now
<1>6. IsList(now) /\ DOMAIN now = 1 .. Len(now)
  BY <1>5, ListOf, ListShape
<1>7. now[Len(list) + 1] = one /\ now[Len(list) + 2] = two /\ \A n \in 1 .. Len(list) : now[n] = list[n]
  BY <1>2, <1>4, <1>5
<1> QED
  BY <1>5, <1>6, <1>7 DEF IsList, now

-----------------------------------------------------------------------------
(* Resolving a link *)

\* What a link that is resolved finds.
LEMMA LinkIs ==
  ASSUME NotesInv, stage = "notes", unresolved # <<>>
  PROVE  /\ NoteLink \in Range(chapter.links) /\ Tail(unresolved) \in Seq(Range(chapter.links))
         /\ Len(Tail(unresolved)) < Cardinality(FootnoteLinks(chapter)) /\ Len(Tail(unresolved)) \in Nat
<1>1. /\ unresolved \in Seq(Range(chapter.links)) /\ Len(unresolved) <= Cardinality(FootnoteLinks(chapter))
      /\ Cardinality(FootnoteLinks(chapter)) \in Nat
  BY DEF NotesInv, Asking
<1>2. /\ Head(unresolved) \in Range(chapter.links) /\ Tail(unresolved) \in Seq(Range(chapter.links))
      /\ Len(Tail(unresolved)) = Len(unresolved) - 1 /\ Len(unresolved) \in Nat /\ Len(Tail(unresolved)) \in Nat
  BY <1>1, HeadTailProperties
<1> QED
  BY <1>1, <1>2 DEF NoteLink

\* After a link, whatever became of the nodes: it is enough that notes stand as they should.
LEMMA LinkDone ==
  ASSUME NotesInv, stage = "notes", unresolved # <<>>, unresolved' = Tail(unresolved),
         IsChapter(chapter'), chapter'.links = chapter.links, NotesStand(chapter'),
         stage' \in {"notes", "failed"}
  PROVE  NotesInv'
<1>1. FootnoteLinks(chapter') = FootnoteLinks(chapter)
  BY DEF FootnoteLinks
<1>2. /\ unresolved' \in Seq(Range(chapter'.links))
      /\ Len(unresolved') < Cardinality(FootnoteLinks(chapter')) /\ Len(unresolved') \in Nat
      /\ Cardinality(FootnoteLinks(chapter')) \in Nat
  BY <1>1, LinkIs DEF NotesInv, Asking
<1>3. Asking'
  BY <1>2 DEF Asking
<1>4. NotesOnce'
  BY <1>2, NotesAre DEF NotesOnce, NotesStand, Notes, Fresh
<1> QED
  BY <1>3, <1>4 DEF NotesInv

\* The link a note leads back to is that of its name.
LEMMA BacklinkStep ==
  ASSUME NotesInv, stage = "notes", unresolved # <<>>, unresolved' = Tail(unresolved), Backlink
  PROVE  NotesInv'
<1> DEFINE named == NotesNamed(NoteLink.fragment)
           i == Min(named)
           value == [chapter.nodes[i] EXCEPT !.backlink = NoteLink]
           list == [chapter.nodes EXCEPT ![i] = value]
<1>1. IsChapter(chapter) /\ NotesStand(chapter)
  BY DEF NotesInv
<1>2. /\ Len(chapter.nodes) \in Nat /\ DOMAIN chapter.nodes = 1 .. Len(chapter.nodes)
      /\ chapter.nodes \in Seq(Range(chapter.nodes))
      /\ \A n \in 1 .. Len(chapter.nodes) : IsIrNode(chapter.nodes[n])
      /\ chapter = [nodes |-> chapter.nodes, root |-> chapter.root, links |-> chapter.links, anchors |-> chapter.anchors]
  BY <1>1, ChapterIs
<1>3. i \in 1 .. Len(chapter.nodes) /\ chapter.nodes[i].kind = "Footnote" /\ chapter.nodes[i].note = NoteLink.fragment
  <2>1. named \in SUBSET (1 .. Len(chapter.nodes)) /\ named # {}
    BY <1>2 DEF NotesNamed, Backlink
  <2>2. named \in SUBSET Nat
    BY <2>1
  <2> HIDE DEF named
  <2>3. i \in named
    BY <2>1, <2>2, MinOf
  <2> QED
    BY <2>1, <2>3 DEF named, NotesNamed
<1>4. /\ IsIrNode(value) /\ value.kind = "Footnote" /\ value.note = NoteLink.fragment
      /\ value.backlink = NoteLink /\ value.range = chapter.nodes[i].range
  <2>1. IsIrNode(chapter.nodes[i])
    BY <1>2, <1>3
  <2> QED
    BY <1>3, <2>1, BacklinkChanged
<1> HIDE DEF i, value
<1>5. /\ list \in Seq(Range(list)) /\ Len(list) = Len(chapter.nodes) /\ DOMAIN list = 1 .. Len(chapter.nodes)
      /\ \A n \in 1 .. Len(chapter.nodes) : list[n] = IF n = i THEN value ELSE chapter.nodes[n]
  BY <1>2, <1>3, PlaceChanged
<1>6. chapter' = [chapter EXCEPT !.nodes = list] /\ stage' = "notes"
  BY <1>2 DEF Backlink, i, value
<1> HIDE DEF list
<1>7. \A n \in 1 .. Len(list) : IsIrNode(list[n])
  BY <1>2, <1>4, <1>5
<1>8. IsChapter(chapter') /\ chapter'.nodes = list /\ chapter'.links = chapter.links
  BY <1>1, <1>2, <1>5, <1>6, <1>7, OtherNodes
<1>9. Notes(chapter') = Notes(chapter)
  BY <1>2, <1>3, <1>4, <1>5, <1>8 DEF Notes
<1>10. \A n \in Notes(chapter) : list[n].range = chapter.nodes[n].range /\ list[n].note = chapter.nodes[n].note
  BY <1>2, <1>3, <1>4, <1>5 DEF Notes
<1>11. \A n \in Notes(chapter) : list[n].backlink = IF n = i THEN NoteLink ELSE chapter.nodes[n].backlink
  BY <1>2, <1>4, <1>5 DEF Notes
<1>12. NoteLink \in Range(chapter.links)
  BY LinkIs
<1>13. NotesStand(chapter')
  BY <1>1, <1>3, <1>8, <1>9, <1>10, <1>11, <1>12 DEF NotesStand
<1> QED
  BY <1>6, <1>8, <1>13, LinkDone

\* A note is fetched when the chapter has none of its name.
LEMMA ExternalStep ==
  ASSUME NotesInv, stage = "notes", unresolved # <<>>, unresolved' = Tail(unresolved), ExternalNote
  PROVE  NotesInv'
<1>1. IsChapter(chapter) /\ NotesStand(chapter)
  BY DEF NotesInv
<1>2. CASE chapter' = chapter /\ stage' \in {"notes", "failed"}
  BY <1>1, <1>2, LinkDone
<1>3. CASE ~ (chapter' = chapter /\ stage' \in {"notes", "failed"})
  <2> DEFINE next == Len(chapter.nodes) + 1
             rooted == [chapter.nodes[chapter.root] EXCEPT !.children = Append(@, next + 1)]
             list == [chapter.nodes EXCEPT ![chapter.root] = rooted]
             note == Placeless("Footnote", <<>>, <<next>>, NoteLink.fragment, NoteLink)
  <2>1. PICK text :
          /\ chapter' = [chapter EXCEPT !.nodes = [chapter.nodes EXCEPT ![chapter.root].children = Append(@, next + 1)]
                                                    \o <<Placeless("Paragraph", text, <<>>, NoPath, NoPath), note>>]
          /\ stage' = "notes"
    BY <1>3 DEF ExternalNote
  <2> DEFINE paragraph == Placeless("Paragraph", text, <<>>, NoPath, NoPath)
             now == list \o <<paragraph, note>>
  <2>2. /\ Len(chapter.nodes) \in Nat /\ DOMAIN chapter.nodes = 1 .. Len(chapter.nodes)
        /\ chapter.nodes \in Seq(Range(chapter.nodes)) /\ chapter.root \in 1 .. Len(chapter.nodes)
        /\ \A n \in 1 .. Len(chapter.nodes) : IsIrNode(chapter.nodes[n])
        /\ chapter = [nodes |-> chapter.nodes, root |-> chapter.root, links |-> chapter.links, anchors |-> chapter.anchors]
    BY <1>1, ChapterIs
  <2>3. /\ IsIrNode(paragraph) /\ paragraph.kind = "Paragraph"
        /\ IsIrNode(note) /\ note.kind = "Footnote" /\ note.range = <<>> /\ note.note = NoteLink.fragment
        /\ note.backlink = NoteLink
    BY PlacelessIs
  <2>4. /\ IsIrNode(rooted) /\ rooted.kind = chapter.nodes[chapter.root].kind
        /\ rooted.note = chapter.nodes[chapter.root].note /\ rooted.range = chapter.nodes[chapter.root].range
        /\ rooted.backlink = chapter.nodes[chapter.root].backlink
    <3>1. IsIrNode(chapter.nodes[chapter.root])
      BY <2>2
    <3> QED
      BY <3>1, ChildrenChanged
  <2>5. chapter' = [chapter EXCEPT !.nodes = now]
    <3>1. [chapter.nodes EXCEPT ![chapter.root].children = Append(@, next + 1)] = list
      BY <2>2
    <3> HIDE DEF paragraph, note, list, next
    <3>2. chapter' = [chapter EXCEPT !.nodes = [chapter.nodes EXCEPT ![chapter.root].children = Append(@, next + 1)]
                                                 \o <<paragraph, note>>]
      BY <2>1 DEF paragraph
    <3> QED
      BY <3>1, <3>2
  <2> HIDE DEF paragraph, note, rooted
  <2>6. /\ list \in Seq(Range(list)) /\ Len(list) = Len(chapter.nodes)
        /\ \A n \in 1 .. Len(chapter.nodes) : list[n] = IF n = chapter.root THEN rooted ELSE chapter.nodes[n]
    BY <2>2, PlaceChanged
  <2> HIDE DEF list
  <2>7. /\ now \in Seq(Range(now)) /\ Len(now) = Len(list) + 2 /\ DOMAIN now = 1 .. Len(list) + 2
        /\ now[Len(list) + 1] = paragraph /\ now[Len(list) + 2] = note
        /\ \A n \in 1 .. Len(list) : now[n] = list[n]
    BY <2>6, TwoMore
  <2> HIDE DEF now
  <2>8. \A n \in 1 .. Len(now) : IsIrNode(now[n])
    <3>1. \A n \in 1 .. Len(list) : IsIrNode(now[n])
      BY <2>2, <2>4, <2>6, <2>7
    <3>2. IsIrNode(now[Len(list) + 1]) /\ IsIrNode(now[Len(list) + 2])
      BY <2>3, <2>7
    <3>3. \A n \in 1 .. Len(now) : n \in 1 .. Len(list) \/ n = Len(list) + 1 \/ n = Len(list) + 2
      BY <2>2, <2>6, <2>7
    <3> HIDE DEF IsIrNode
    <3> QED
      BY <3>1, <3>2, <3>3
  <2>9. IsChapter(chapter') /\ chapter'.nodes = now /\ chapter'.links = chapter.links
    <3>1. Len(now) >= Len(chapter.nodes)
      BY <2>2, <2>6, <2>7
    <3> QED
      BY <1>1, <2>5, <2>7, <2>8, <3>1, OtherNodes
  <2>10. \A n \in 1 .. Len(chapter.nodes) :
           /\ now[n].kind = chapter.nodes[n].kind /\ now[n].note = chapter.nodes[n].note
           /\ now[n].range = chapter.nodes[n].range /\ now[n].backlink = chapter.nodes[n].backlink
    BY <2>2, <2>4, <2>6, <2>7
  <2>11. Notes(chapter') = Notes(chapter) \cup {Len(list) + 2} /\ Len(list) + 2 \notin Notes(chapter)
    <3>1. Len(list) = Len(chapter.nodes) /\ Len(list) \in Nat
      BY <2>2, <2>6
    <3>2. now[Len(list) + 1].kind = "Paragraph" /\ now[Len(list) + 2].kind = "Footnote"
      BY <2>3, <2>7
    <3>3. DOMAIN now = 1 .. Len(list) + 2
      BY <2>7
    <3>4. DOMAIN chapter.nodes = 1 .. Len(list)
      BY <2>2, <2>6
    <3>5. \A n \in 1 .. Len(list) : now[n].kind = chapter.nodes[n].kind
      BY <2>10, <3>1
    <3>6. Notes(chapter') = {n \in 1 .. Len(list) + 2 : now[n].kind = "Footnote"}
      BY <2>9, <3>3 DEF Notes
    <3>7. Notes(chapter) = {n \in 1 .. Len(list) : chapter.nodes[n].kind = "Footnote"}
      BY <3>4 DEF Notes
    <3> QED
      BY <3>1, <3>2, <3>5, <3>6, <3>7
  <2>12. \A n \in Notes(chapter) :
           /\ now[n].note = chapter.nodes[n].note /\ now[n].range = chapter.nodes[n].range
           /\ now[n].backlink = chapter.nodes[n].backlink
    BY <2>2, <2>10 DEF Notes
  <2>13. \A n \in Notes(chapter) : chapter.nodes[n].note # NoteLink.fragment
    BY DEF ExternalNote, NotesNamed, Notes
  <2>14. NoteLink \in Range(chapter.links)
    BY LinkIs
  <2>15. NotesStand(chapter')
    <3>1. ASSUME NEW n \in Notes(chapter'), n # Len(list) + 2
          PROVE  /\ \A m \in Notes(chapter') \ {n} : now[n].range = <<>> => now[m].note # now[n].note
                 /\ now[n].backlink # NoPath => now[n].backlink \in Range(chapter.links) /\ now[n].backlink.fragment = now[n].note
      BY <1>1, <2>3, <2>7, <2>11, <2>12, <2>13, <3>1 DEF NotesStand
    <3>2. ASSUME NEW n \in Notes(chapter'), n = Len(list) + 2
          PROVE  /\ \A m \in Notes(chapter') \ {n} : now[n].range = <<>> => now[m].note # now[n].note
                 /\ now[n].backlink # NoPath => now[n].backlink \in Range(chapter.links) /\ now[n].backlink.fragment = now[n].note
      BY <2>3, <2>7, <2>11, <2>12, <2>13, <2>14, <3>2
    <3> QED
      BY <2>9, <3>1, <3>2 DEF NotesStand
  <2> QED
    BY <2>1, <2>9, <2>15, LinkDone
<1> QED
  BY <1>2, <1>3

\* The role of an image is no part of a note.
LEMMA FinishNotes ==
  ASSUME NotesInv, FinishChapter
  PROVE  NotesInv'
<1>1. IsChapter(chapter) /\ NotesStand(chapter) /\ chapter' = Classified(chapter) /\ stage' = "built"
  BY DEF NotesInv, FinishChapter
<1>2. CASE chapter' = chapter
  BY <1>1, <1>2 DEF NotesInv, NotesOnce, NotesStand
<1>3. CASE chapter' # chapter
  <2> DEFINE list == [n \in 1 .. Len(chapter.nodes) |->
                        IF n \in Images(chapter) /\ chapter.nodes[n].role = "Block"
                        THEN [chapter.nodes[n] EXCEPT !.role = "Standalone"] ELSE chapter.nodes[n]]
  <2>1. /\ DOMAIN chapter.nodes = 1 .. Len(chapter.nodes)
        /\ \A n \in 1 .. Len(chapter.nodes) : IsIrNode(chapter.nodes[n])
        /\ chapter = [nodes |-> chapter.nodes, root |-> chapter.root, links |-> chapter.links, anchors |-> chapter.anchors]
    BY <1>1, ChapterIs
  <2>2. chapter' = [chapter EXCEPT !.nodes = list]
    BY <1>1, <1>3, <2>1 DEF Classified
  <2>3. chapter'.nodes = list /\ chapter'.links = chapter.links
    <3> HIDE DEF list
    <3>1. chapter' = [nodes |-> list, root |-> chapter.root, links |-> chapter.links, anchors |-> chapter.anchors]
      BY <2>1, <2>2
    <3> QED
      BY <3>1
  <2>4. DOMAIN list = 1 .. Len(chapter.nodes)
    OBVIOUS
  <2>5. \A n \in 1 .. Len(chapter.nodes) :
          /\ list[n].kind = chapter.nodes[n].kind /\ list[n].note = chapter.nodes[n].note
          /\ list[n].range = chapter.nodes[n].range /\ list[n].backlink = chapter.nodes[n].backlink
    BY <2>1 DEF IsIrNode
  <2> HIDE DEF list
  <2>6. Notes(chapter') = Notes(chapter)
    BY <2>1, <2>3, <2>4, <2>5 DEF Notes
  <2>7. NotesStand(chapter')
    BY <1>1, <2>1, <2>3, <2>5, <2>6 DEF NotesStand, Notes
  <2>8. NotesOnce'
    BY <1>1, <2>7 DEF NotesOnce, NotesStand
  <2> QED
    BY <1>1, <2>7, <2>8 DEF NotesInv
<1> QED
  BY <1>2, <1>3

-----------------------------------------------------------------------------
(* The invariant *)

LEMMA NotesStart ==
  ASSUME BuilderInit
  PROVE  NotesInv
<1>1. chapter = EmptyChapter /\ stage = "waiting" /\ Notes(chapter) = {}
  BY DEF BuilderInit, EmptyChapter, Notes
<1> QED
  BY <1>1 DEF NotesInv, NotesOnce, NotesStand

\* What the conversion gives is in order, because nothing was fetched yet.
LEMMA ConvertedNotes ==
  ASSUME NotesInv, Converted
  PROVE  NotesInv'
<1>1. CASE stage' = "failed" /\ UNCHANGED <<chapter, unresolved>>
  BY <1>1 DEF NotesInv, NotesOnce, NotesStand, Converted
<1>2. CASE IsChapter(chapter') /\ Fresh(chapter') /\ stage' # "failed"
  <2>1. NotesStand(chapter')
    BY <1>2 DEF NotesStand, Fresh
  <2>2. NotesOnce'
    BY <1>2, <2>1 DEF NotesOnce, NotesStand, Fresh, Notes
  <2>3. stage' = "notes" => Asking'
    <3>1. Cardinality(FootnoteLinks(chapter')) \in Nat
      BY <1>2, LinksCount
    <3>2. stage' = "notes" => AsksNotes(unresolved', chapter')
      BY <1>2 DEF Converted
    <3> QED
      BY <3>1, <3>2 DEF Asking, AsksNotes
  <2>4. stage' # "waiting"
    BY <1>2 DEF Converted
  <2> QED
    BY <1>2, <2>1, <2>2, <2>3, <2>4 DEF NotesInv
<1> QED
  BY <1>1, <1>2 DEF Converted

LEMMA NotesStep ==
  ASSUME NotesInv, [NotesNext]_builderVars
  PROVE  NotesInv'
<1>1. CASE UNCHANGED builderVars
  BY <1>1 DEF NotesInv, NotesOnce, NotesStand, Asking, builderVars
<1>2. CASE Converted
  BY <1>2, ConvertedNotes
<1>3. CASE ResolveNote
  <2>1. stage = "notes" /\ unresolved # <<>> /\ unresolved' = Tail(unresolved)
    BY <1>3 DEF ResolveNote
  <2>2. CASE Backlink
    BY <2>1, <2>2, BacklinkStep
  <2>3. CASE ExternalNote
    BY <2>1, <2>3, ExternalStep
  <2>4. CASE UNCHANGED <<chapter, stage>>
    <3>1. IsChapter(chapter') /\ chapter'.links = chapter.links /\ NotesStand(chapter') /\ stage' = "notes"
      BY <2>1, <2>4 DEF NotesInv
    <3> QED
      BY <2>1, <3>1, LinkDone
  <2> QED
    BY <1>3, <2>2, <2>3, <2>4 DEF ResolveNote
<1>4. CASE FinishChapter
  BY <1>4, FinishNotes
<1> QED
  BY <1>1, <1>2, <1>3, <1>4 DEF NotesNext

\* Whatever links a chapter has, and whatever the other documents hold, a fetched note is the only
\* one of its name, and a backlink is a link of the chapter to its note (resolve_footnotes,
\* set_footnote_backlink and add_external_footnote in epub.rs).
THEOREM NotesComeOnce == NotesSpec => []NotesOnce
<1>1. NotesInv => NotesOnce
  BY DEF NotesInv
<1> QED
  BY <1>1, NotesStart, NotesStep, PTL DEF NotesSpec
=============================================================================
