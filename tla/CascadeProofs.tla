---------------------------- MODULE CascadeProofs ----------------------------
(***************************************************************************)
(* Proofs about the styles of a chapter, for any sheets, imports and        *)
(* elements: which declaration wins, what matching a selector finds, and    *)
(* what a computed style hands down.                                        *)
(*                                                                         *)
(* The code walks lists, and so does the model.  What a walk comes to is    *)
(* proved by induction over places in a list: the smallest place at which   *)
(* a claim fails is found by counting (MinOf), so a claim that holds at 0   *)
(* and goes on from each place to the next holds everywhere (UpTo).  That   *)
(* there is a function that satisfies the equation of such a walk is        *)
(* itself proved that way (PlacesExist, FlatExists, WinnersExist,           *)
(* StylesExist).                                                            *)
(*                                                                         *)
(* Loading keeps the rules in the order that they count (CssInv), so of     *)
(* two declarations that are equal otherwise the one that is met later has  *)
(* the larger source order, and the winner that is carried along beats all  *)
(* those met so far.  What is inherited only stands where nothing is        *)
(* declared; a length that was resolved is settled, and resolving it again  *)
(* with another font leaves it alone.                                       *)
(***************************************************************************)
EXTENDS ComputedStyle, FiniteSetTheorems, FunctionTheorems, SequenceTheorems, TLAPS

-----------------------------------------------------------------------------
(* Places in a list, one after the other *)

\* The greatest lower bound is found by counting the lower bounds.
LEMMA MinOf ==
  ASSUME NEW T \in SUBSET Nat, T # {}
  PROVE  Min(T) \in T /\ \A y \in T : Min(T) <= y
<1>1. PICK n \in Nat : n \in T
  OBVIOUS
<1> DEFINE L == {m \in 0 .. n : \A y \in T : m <= y}
           c == Cardinality(L)
<1>2. IsFiniteSet(L) /\ c \in Nat
  <2>1. IsFiniteSet(0 .. n) /\ L \in SUBSET (0 .. n)
    BY FS_Interval
  <2> HIDE DEF L
  <2>2. IsFiniteSet(L)
    BY <2>1, FS_Subset
  <2> QED
    BY <2>2, FS_CardinalityType
<1>3. 0 \in L
  BY <1>1
<1>4. ASSUME NEW x \in L PROVE 0 .. x \in SUBSET L /\ x \in Nat
  BY <1>1
<1> HIDE DEF L
<1>5. ASSUME NEW x \in L PROVE x + 1 <= c
  <2>1. Cardinality(0 .. x) = x + 1
    BY <1>4, FS_Interval
  <2>2. Cardinality(0 .. x) <= c
    BY <1>2, <1>4, FS_Subset DEF c
  <2> QED
    BY <2>1, <2>2
<1>6. c \in Nat \ {0}
  BY <1>2, <1>3, <1>5
<1> HIDE DEF c
<1>7. L = 0 .. c - 1
  <2>1. L \in SUBSET (0 .. c - 1)
    BY <1>4, <1>5, <1>6
  <2>2. IsFiniteSet(0 .. c - 1) /\ Cardinality(0 .. c - 1) = c
    BY <1>6, FS_Interval
  <2> QED
    BY <2>1, <2>2, FS_Subset DEF c
<1>8. c \notin L /\ c - 1 \in L
  BY <1>6, <1>7
<1>9. PICK y \in T : y < c
  BY <1>1, <1>6, <1>8 DEF L
<1>10. y = c - 1 /\ \A z \in T : c - 1 <= z
  BY <1>6, <1>8, <1>9 DEF L
<1>11. \E x \in T : \A z \in T : x <= z
  BY <1>10
<1> QED
  BY <1>11 DEF Min

\* The last of finitely many places.
LEMMA MaxOfUpTo ==
  ASSUME NEW n \in Nat, NEW T \in SUBSET (0 .. n), T # {}
  PROVE  Max(T) \in T /\ \A y \in T : y <= Max(T)
<1> DEFINE U == {n - y : y \in T}
<1>1. U \in SUBSET Nat /\ U # {}
  <2>1. \A y \in 0 .. n : n - y \in Nat
    OBVIOUS
  <2> QED
    BY <2>1
<1>2. PICK k : k = Min(U) /\ k \in U /\ \A y \in U : k <= y
  BY <1>1, MinOf
<1>3. PICK x \in T : k = n - x
  BY <1>2
<1>4. \A y \in T : y <= x
  <2> TAKE y \in T
  <2>1. n - y \in U
    OBVIOUS
  <2>2. k <= n - y
    BY <1>2, <2>1
  <2> QED
    BY <1>3, <2>2
<1>5. \E z \in T : \A y \in T : z >= y
  BY <1>4
<1>6. Max(T) \in T /\ \A y \in T : Max(T) >= y
  BY <1>5 DEF Max
<1> QED
  BY <1>6

LEMMA MaxOf ==
  ASSUME NEW n \in Nat, NEW T \in SUBSET (1 .. n), T # {}
  PROVE  Max(T) \in T /\ \A y \in T : y <= Max(T)
<1>1. T \in SUBSET (0 .. n)
  OBVIOUS
<1> QED
  BY <1>1, MaxOfUpTo

LEMMA Induction ==
  ASSUME NEW S, 0 \in S, \A n \in Nat : n \in S => n + 1 \in S
  PROVE  Nat \subseteq S
<1> DEFINE T == Nat \ S
<1> SUFFICES ASSUME T # {} PROVE FALSE
  OBVIOUS
<1>1. PICK m : m = Min(T) /\ m \in T /\ \A y \in T : m <= y
  BY MinOf
<1>2. m # 0 /\ m - 1 \in Nat
  BY <1>1
<1>3. m - 1 \in S
  BY <1>1, <1>2
<1> QED
  BY <1>1, <1>2, <1>3

LEMMA UpTo ==
  ASSUME NEW n \in Nat, NEW S, 0 \in S, \A k \in 0 .. n : k + 1 \in 0 .. n /\ k \in S => k + 1 \in S
  PROVE  0 .. n \subseteq S
<1> DEFINE T == S \cup {k \in Nat : k > n}
<1>1. 0 \in T /\ \A k \in Nat : k \in T => k + 1 \in T
  OBVIOUS
<1>2. Nat \subseteq T
  BY <1>1, Induction
<1> QED
  BY <1>2

-----------------------------------------------------------------------------
(* Matching a selector *)

\* What a selector's matching has found: the place of each part, from the last.
NextPlace(parts, chain, k, place) ==
  IF k = 0 THEN Len(chain)
  ELSE IF place[k - 1] = 0 THEN 0 ELSE NearestFit(parts[Len(parts) - k], chain, place[k - 1])

LEMMA PlacesExist ==
  ASSUME NEW parts, NEW chain, NEW n \in Nat
  PROVE  \E place : place = [k \in 0 .. n |-> NextPlace(parts, chain, k, place)]
<1> DEFINE Upto(m) == \E place : place = [k \in 0 .. m |-> NextPlace(parts, chain, k, place)]
           S == {m \in Nat : Upto(m)}
<1>1. 0 \in S
  <2> DEFINE place == [k \in 0 .. 0 |-> Len(chain)]
  <2>1. place = [k \in 0 .. 0 |-> NextPlace(parts, chain, k, place)]
    BY DEF NextPlace
  <2> QED
    BY <2>1
<1>2. ASSUME NEW m \in Nat, m \in S PROVE m + 1 \in S
  <2>1. PICK place : place = [k \in 0 .. m |-> NextPlace(parts, chain, k, place)]
    BY <1>2
  <2> DEFINE more == [k \in 0 .. m + 1 |-> IF k \in 0 .. m THEN place[k] ELSE NextPlace(parts, chain, k, place)]
  <2>2. ASSUME NEW k \in 0 .. m + 1 PROVE more[k] = NextPlace(parts, chain, k, more)
    <3>1. more[k] = NextPlace(parts, chain, k, place)
      BY <2>1
    <3>2. k # 0 => k - 1 \in 0 .. m /\ more[k - 1] = place[k - 1]
      OBVIOUS
    <3> QED
      BY <3>1, <3>2 DEF NextPlace
  <2>3. more = [k \in 0 .. m + 1 |-> NextPlace(parts, chain, k, more)]
    BY <2>2
  <2> HIDE DEF more
  <2>4. Upto(m + 1)
    BY <2>3
  <2> QED
    BY <2>4
<1> HIDE DEF S
<1>3. Nat \subseteq S
  BY <1>1, <1>2, Induction
<1> QED
  BY <1>3 DEF S

LEMMA MatchesBy ==
  ASSUME NEW parts, NEW chain, Len(parts) \in Nat \ {0}
  PROVE  \E place : /\ place = [k \in 0 .. Len(parts) - 1 |-> NextPlace(parts, chain, k, place)]
                    /\ SelectorMatches(parts, chain) <=>
                         Fits(Last(parts), Last(chain)) /\ place[Len(parts) - 1] > 0
<1> DEFINE place == CHOOSE f : f = [k \in 0 .. Len(parts) - 1 |-> NextPlace(parts, chain, k, f)]
<1>1. \E f : f = [k \in 0 .. Len(parts) - 1 |-> NextPlace(parts, chain, k, f)]
  <2>1. Len(parts) - 1 \in Nat
    OBVIOUS
  <2> QED
    BY ONLY <2>1, PlacesExist
<1>2. place = [k \in 0 .. Len(parts) - 1 |-> NextPlace(parts, chain, k, place)]
  BY <1>1
<1>3. SelectorMatches(parts, chain) <=> Fits(Last(parts), Last(chain)) /\ place[Len(parts) - 1] > 0
  BY Zenon DEF SelectorMatches, NextPlace
<1> QED
  BY <1>2, <1>3

\* A place found is a place of the chain, or none.
LEMMA NearestFits ==
  ASSUME NEW part, NEW chain, NEW place \in Nat
  PROVE  LET found == NearestFit(part, chain, place) IN
         /\ found \in 0 .. place
         /\ found # 0 => found < place /\ Fits(part, chain[found])
         /\ \A i \in 1 .. place - 1 : Fits(part, chain[i]) => i <= found
<1> DEFINE T == {0} \cup {i \in 1 .. place - 1 : Fits(part, chain[i])}
           U == {i + 1 : i \in T}
<1>1. T \subseteq 0 .. place /\ 0 \in T /\ \A i \in T : i # 0 => i < place /\ Fits(part, chain[i])
  OBVIOUS
<1>2. \A i \in 1 .. place - 1 : Fits(part, chain[i]) => i \in T
  OBVIOUS
<1>3. NearestFit(part, chain, place) = Max(T)
  BY DEF NearestFit
<1> HIDE DEF T
<1>4. Max(T) \in T /\ \A y \in T : y <= Max(T)
  BY <1>1, MaxOfUpTo
<1> QED
  BY <1>1, <1>2, <1>3, <1>4

\* A selector's parts and a chain: what matching is asked about.
IsMatch(parts, chain) ==
  /\ parts # <<>> /\ parts \in Seq(Range(parts))
  /\ chain # <<>> /\ chain \in Seq(Range(chain))

LEMMA MatchShape ==
  ASSUME NEW parts, NEW chain, IsMatch(parts, chain)
  PROVE  /\ Len(parts) \in Nat \ {0} /\ DOMAIN parts = 1 .. Len(parts) /\ Last(parts) = parts[Len(parts)]
         /\ Len(chain) \in Nat \ {0} /\ DOMAIN chain = 1 .. Len(chain) /\ Last(chain) = chain[Len(chain)]
BY EmptySeq, LenProperties DEF IsMatch, Last

\* What matching finds fits, further out with every part, as far as it comes.
LEMMA PlacesFit ==
  ASSUME NEW parts, NEW chain, IsMatch(parts, chain), NEW place,
         place = [k \in 0 .. Len(parts) - 1 |-> NextPlace(parts, chain, k, place)]
  PROVE  /\ \A k \in 0 .. Len(parts) - 1 : place[k] \in 0 .. Len(chain)
         /\ place[0] = Len(chain)
         /\ \A k \in 1 .. Len(parts) - 1 : place[k] > 0 =>
              /\ place[k - 1] > place[k]
              /\ Fits(parts[Len(parts) - k], chain[place[k]])
         /\ \A k \in 1 .. Len(parts) - 1 : place[k - 1] > 0 =>
              \A i \in 1 .. place[k - 1] - 1 : Fits(parts[Len(parts) - k], chain[i]) => i <= place[k]
<1> DEFINE n == Len(parts) - 1
<1>1. n \in Nat /\ Len(chain) \in Nat /\ place[0] = Len(chain)
  BY MatchShape DEF NextPlace
<1>2. ASSUME NEW k \in 1 .. n
      PROVE  place[k] = IF place[k - 1] = 0 THEN 0 ELSE NearestFit(parts[Len(parts) - k], chain, place[k - 1])
  <2>1. k \in 0 .. n /\ k # 0
    BY <1>1
  <2>2. place[k] = NextPlace(parts, chain, k, place)
    BY <2>1
  <2> QED
    BY <2>1, <2>2 DEF NextPlace
<1> DEFINE S == {k \in 0 .. n : place[k] \in 0 .. Len(chain)}
<1> HIDE DEF n
<1>3. 0 .. n \subseteq S
  <2>1. 0 \in S
    BY <1>1
  <2>2. ASSUME NEW k \in 0 .. n, k + 1 \in 0 .. n, k \in S PROVE k + 1 \in S
    <3>1. k + 1 \in 1 .. n /\ (k + 1) - 1 = k /\ place[k] \in 0 .. Len(chain) /\ place[k] \in Nat
      BY <1>1, <2>2
    <3>2. place[k + 1] = IF place[k] = 0 THEN 0 ELSE NearestFit(parts[Len(parts) - (k + 1)], chain, place[k])
      BY <1>2, <3>1
    <3>3. NearestFit(parts[Len(parts) - (k + 1)], chain, place[k]) \in 0 .. place[k]
      BY <3>1, NearestFits
    <3>4. place[k + 1] \in 0 .. Len(chain)
      BY <1>1, <3>1, <3>2, <3>3
    <3> QED
      BY <2>2, <3>4
  <2> HIDE DEF S
  <2> QED
    BY <1>1, <2>1, <2>2, UpTo
<1>4. ASSUME NEW k \in 1 .. n
      PROVE  /\ place[k] > 0 => place[k - 1] > place[k] /\ Fits(parts[Len(parts) - k], chain[place[k]])
             /\ place[k - 1] > 0 =>
                  \A i \in 1 .. place[k - 1] - 1 : Fits(parts[Len(parts) - k], chain[i]) => i <= place[k]
  <2>1. k - 1 \in 0 .. n
    BY <1>1
  <2>2. place[k - 1] \in Nat
    <3>1. k - 1 \in S
      BY ONLY <1>3, <2>1
    <3> QED
      BY <1>1, <3>1
  <2>3. LET found == NearestFit(parts[Len(parts) - k], chain, place[k - 1]) IN
         /\ found \in 0 .. place[k - 1]
         /\ found # 0 => found < place[k - 1] /\ Fits(parts[Len(parts) - k], chain[found])
         /\ \A i \in 1 .. place[k - 1] - 1 : Fits(parts[Len(parts) - k], chain[i]) => i <= found
    BY <2>2, NearestFits
  <2> QED
    BY <1>2, <2>2, <2>3, SMTT(60)
<1> QED
  BY <1>1, <1>3, <1>4 DEF n

\* A selector matches exactly when its parts fit the element and ancestors.
LEMMA NearestIsEnough ==
  ASSUME NEW parts, NEW chain, IsMatch(parts, chain)
  PROVE  SelectorMatches(parts, chain) <=> Embeds(parts, chain)
<1> DEFINE n == Len(parts)
<1>1. /\ n \in Nat \ {0} /\ DOMAIN parts = 1 .. n /\ Last(parts) = parts[n]
      /\ Len(chain) \in Nat \ {0} /\ DOMAIN chain = 1 .. Len(chain) /\ Last(chain) = chain[Len(chain)]
  BY MatchShape
<1>2. PICK place : /\ place = [k \in 0 .. n - 1 |-> NextPlace(parts, chain, k, place)]
                   /\ SelectorMatches(parts, chain) <=> Fits(Last(parts), Last(chain)) /\ place[n - 1] > 0
  BY <1>1, MatchesBy
<1>3. /\ \A k \in 0 .. n - 1 : place[k] \in 0 .. Len(chain)
      /\ place[0] = Len(chain)
      /\ \A k \in 1 .. n - 1 : place[k] > 0 =>
           place[k - 1] > place[k] /\ Fits(parts[n - k], chain[place[k]])
      /\ \A k \in 1 .. n - 1 : place[k - 1] > 0 =>
           \A i \in 1 .. place[k - 1] - 1 : Fits(parts[n - k], chain[i]) => i <= place[k]
  BY <1>2, PlacesFit
<1> HIDE DEF n
<1>4. ASSUME SelectorMatches(parts, chain) PROVE Embeds(parts, chain)
  <2> DEFINE S == {k \in 0 .. n - 1 : place[n - 1 - k] > 0}
             f == [i \in 1 .. n |-> place[n - i]]
  <2>1. 0 .. n - 1 \subseteq S
    <3>1. 0 \in S
      BY <1>1, <1>2, <1>4
    <3>2. ASSUME NEW k \in 0 .. n - 1, k + 1 \in 0 .. n - 1, k \in S PROVE k + 1 \in S
      <4>1. n - 1 - k \in 1 .. n - 1 /\ (n - 1 - k) - 1 = n - 1 - (k + 1) /\ place[n - 1 - k] > 0
        BY <1>1, <3>2
      <4>2. place[n - 1 - (k + 1)] > place[n - 1 - k]
        BY <1>3, <4>1
      <4>3. n - 1 - k \in 0 .. n - 1 /\ n - 1 - (k + 1) \in 0 .. n - 1
        BY <1>1, <4>1
      <4>4. place[n - 1 - k] \in Int /\ place[n - 1 - (k + 1)] \in Int
        BY <1>1, <1>3, <4>3
      <4>5. place[n - 1 - (k + 1)] > 0
        BY <4>1, <4>2, <4>4
      <4> QED
        BY <3>2, <4>5
    <3> HIDE DEF S
    <3>3. n - 1 \in Nat
      BY <1>1
    <3> QED
      BY <3>1, <3>2, <3>3, UpTo
  <2>2. \A k \in 0 .. n - 1 : place[k] > 0
    <3> SUFFICES ASSUME NEW k \in 0 .. n - 1 PROVE place[k] > 0
      OBVIOUS
    <3>1. n - 1 - k \in 0 .. n - 1 /\ n - 1 - (n - 1 - k) = k
      BY <1>1
    <3> QED
      BY <2>1, <3>1
  <2>3. \A i \in 1 .. n : n - i \in 0 .. n - 1 /\ f[i] = place[n - i]
    BY <1>1
  <2>4. f \in [DOMAIN parts -> DOMAIN chain]
    <3>1. \A i \in 1 .. n : place[n - i] \in 1 .. Len(chain)
      BY <1>1, <1>3, <2>2, <2>3
    <3> QED
      BY <1>1, <3>1
  <2>5. f[n] = Len(chain)
    BY <1>1, <1>3, <2>3
  <2>6. ASSUME NEW i \in 1 .. n - 1 PROVE f[i] < f[i + 1] /\ Fits(parts[i], chain[f[i]])
    <3>1. n - i \in 1 .. n - 1 /\ (n - i) - 1 = n - (i + 1) /\ n - (n - i) = i /\ i + 1 \in 1 .. n /\ i \in 1 .. n
      BY <1>1
    <3>2. place[n - i] > 0
      BY <2>2, <2>3, <3>1
    <3>3. place[n - (i + 1)] > place[n - i] /\ Fits(parts[i], chain[place[n - i]])
      BY <1>3, <3>1, <3>2
    <3>4. place[n - (i + 1)] \in Int /\ place[n - i] \in Int
      BY <1>1, <1>3, <2>3, <3>1
    <3> QED
      BY <2>3, <3>1, <3>3, <3>4
  <2>7. \A i \in 1 .. n : Fits(parts[i], chain[f[i]])
    <3> SUFFICES ASSUME NEW i \in 1 .. n PROVE Fits(parts[i], chain[f[i]])
      OBVIOUS
    <3>1. CASE i = n
      BY <1>1, <1>2, <1>4, <2>5, <3>1
    <3>2. CASE i \in 1 .. n - 1
      BY <2>6, <3>2
    <3> QED
      BY <1>1, <3>1, <3>2
  <2> HIDE DEF f
  <2> QED
    BY <1>1, <2>4, <2>5, <2>6, <2>7 DEF Embeds, n
<1>5. ASSUME Embeds(parts, chain) PROVE SelectorMatches(parts, chain)
  <2>1. PICK f \in [1 .. n -> 1 .. Len(chain)] :
               /\ f[n] = Len(chain)
               /\ \A i \in 1 .. n - 1 : f[i] < f[i + 1]
               /\ \A i \in 1 .. n : Fits(parts[i], chain[f[i]])
    BY <1>1, <1>5 DEF Embeds, n
  <2> DEFINE S == {k \in 0 .. n - 1 : place[k] >= f[n - k]}
  <2>2. 0 .. n - 1 \subseteq S
    <3>1. 0 \in S
      BY <1>1, <1>3, <2>1
    <3>2. ASSUME NEW k \in 0 .. n - 1, k + 1 \in 0 .. n - 1, k \in S PROVE k + 1 \in S
      <4>1. k + 1 \in 1 .. n - 1 /\ (k + 1) - 1 = k /\ n - (k + 1) \in 1 .. n - 1 /\ (n - (k + 1)) + 1 = n - k
            /\ n - k \in 1 .. n
        BY <1>1, <3>2
      <4>2. f[n - (k + 1)] < f[n - k] /\ Fits(parts[n - (k + 1)], chain[f[n - (k + 1)]])
        BY <1>1, <2>1, <4>1
      <4>3. f[n - (k + 1)] \in 1 .. Len(chain) /\ f[n - k] \in 1 .. Len(chain)
        BY <1>1, <2>1, <4>1
      <4>4. place[k] \in 0 .. Len(chain) /\ place[k] >= f[n - k]
        BY <1>3, <3>2
      <4>5. place[k] > 0 /\ f[n - (k + 1)] \in 1 .. place[k] - 1
        BY <1>1, <4>2, <4>3, <4>4
      <4>6. f[n - (k + 1)] <= place[k + 1]
        BY <1>3, <4>1, <4>2, <4>5
      <4>7. place[k + 1] \in 0 .. Len(chain)
        BY <1>3, <3>2
      <4> QED
        BY <1>1, <3>2, <4>3, <4>6, <4>7
    <3> HIDE DEF S
    <3>3. n - 1 \in Nat
      BY <1>1
    <3> QED
      BY <3>1, <3>2, <3>3, UpTo
  <2>3. n - 1 \in S /\ n - (n - 1) = 1 /\ 1 \in 1 .. n /\ n - 1 \in 0 .. n - 1
    BY <1>1, <2>2
  <2>4. place[n - 1] >= f[1] /\ f[1] \in 1 .. Len(chain) /\ place[n - 1] \in 0 .. Len(chain)
    BY <1>3, <2>1, <2>3
  <2>5. place[n - 1] > 0
    BY <1>1, <2>4
  <2>6. Fits(Last(parts), Last(chain))
    BY <1>1, <2>1
  <2> QED
    BY <1>2, <2>5, <2>6
<1> QED
  BY <1>4, <1>5

-----------------------------------------------------------------------------
(* Lists *)

\* Lists are functions on 1 .. n.
LEMMA ListShape ==
  ASSUME NEW list, IsList(list)
  PROVE  /\ Len(list) \in Nat /\ DOMAIN list = 1 .. Len(list) /\ list \in Seq(Range(list))
         /\ \A i \in 1 .. Len(list) : list[i] \in Range(list)
BY LenProperties DEF IsList, Range

LEMMA ListOf ==
  ASSUME NEW S, NEW list \in Seq(S)
  PROVE  IsList(list) /\ Range(list) \subseteq S
<1>1. list \in [1 .. Len(list) -> S] /\ DOMAIN list = 1 .. Len(list) /\ Len(list) \in Nat
  BY LenProperties
<1>2. list \in [1 .. Len(list) -> Range(list)] /\ Range(list) \subseteq S
  BY <1>1 DEF Range
<1> QED
  BY <1>1, <1>2, SeqDef DEF IsList

LEMMA ListMade ==
  ASSUME NEW n \in Nat, NEW f, f = [i \in 1 .. n |-> f[i]]
  PROVE  IsList(f) /\ Len(f) = n /\ Range(f) = {f[i] : i \in 1 .. n}
<1>1. f \in [1 .. n -> Range(f)] /\ DOMAIN f = 1 .. n /\ Range(f) = {f[i] : i \in 1 .. n}
  BY DEF Range
<1>2. IsList(f)
  BY <1>1, SeqDef DEF IsList
<1>3. Len(f) = n
  BY <1>1, <1>2, ListShape
<1> QED
  BY <1>1, <1>2, <1>3

-----------------------------------------------------------------------------
(* Picking from a list *)

\* How many of the places come up to i.
LEMMA UpToPlace ==
  ASSUME NEW n \in Nat, NEW T \in SUBSET (0 .. n), NEW i \in Nat
  PROVE  /\ IsFiniteSet(T) /\ Cardinality(T) \in Nat
         /\ IsFiniteSet({j \in T : j <= i}) /\ Cardinality({j \in T : j <= i}) \in 0 .. Cardinality(T)
         /\ IsFiniteSet({j \in T : j < i}) /\ Cardinality({j \in T : j < i}) \in 0 .. Cardinality(T)
<1>1. IsFiniteSet(0 .. n)
  BY FS_Interval
<1>2. IsFiniteSet(T)
  BY <1>1, FS_Subset
<1>3. IsFiniteSet({j \in T : j <= i}) /\ Cardinality({j \in T : j <= i}) <= Cardinality(T)
  BY <1>2, FS_Subset
<1>4. IsFiniteSet({j \in T : j < i}) /\ Cardinality({j \in T : j < i}) <= Cardinality(T)
  BY <1>2, FS_Subset
<1> QED
  BY <1>2, <1>3, <1>4, FS_CardinalityType

\* The k-th place is the last of the first k.
LEMMA NthUpTo ==
  ASSUME NEW n \in Nat, NEW T \in SUBSET (0 .. n), NEW k \in 1 .. Cardinality(T)
  PROVE  Nth(T, k) \in T /\ Cardinality({j \in T : j <= Nth(T, k)}) = k
<1> DEFINE below == [i \in 0 .. n + 1 |-> Cardinality({j \in T : j < i})]
           E == {i \in 0 .. n + 1 : below[i] >= k}
<1>0. \A j \in T : j \in Nat /\ j <= n
  OBVIOUS
<1>1. Cardinality(T) \in Nat /\ k \in Nat \ {0} /\ k <= Cardinality(T)
  <2>1. Cardinality(T) \in Nat
    BY UpToPlace, 0 \in Nat
  <2> QED
    BY <2>1
<1>2. \A i \in 0 .. n + 1 : below[i] = Cardinality({j \in T : j < i})
  OBVIOUS
<1> HIDE DEF below
<1>3. \A i \in 0 .. n + 1 : below[i] \in Nat
  <2> SUFFICES ASSUME NEW i \in 0 .. n + 1 PROVE below[i] \in Nat
    OBVIOUS
  <2>1. i \in Nat
    OBVIOUS
  <2> QED
    BY <1>1, <1>2, <2>1, UpToPlace
<1>4. below[0] = 0 /\ below[n + 1] = Cardinality(T)
  <2>1. {j \in T : j < 0} = {} /\ {j \in T : j < n + 1} = T
    <3>1. \A j \in T : ~(j < 0) /\ j < n + 1
      BY <1>0
    <3> QED
      BY ONLY <3>1
  <2>2. 0 \in 0 .. n + 1 /\ n + 1 \in 0 .. n + 1
    OBVIOUS
  <2> QED
    BY <1>2, <2>1, <2>2, FS_EmptySet
<1>5. ASSUME NEW i \in 0 .. n
      PROVE  IF i \in T THEN below[i + 1] = below[i] + 1 ELSE below[i + 1] = below[i]
  <2> DEFINE before == {j \in T : j < i}
  <2>1. i \in Nat /\ i \in 0 .. n + 1 /\ i + 1 \in 0 .. n + 1
    OBVIOUS
  <2>2. IsFiniteSet(before)
    BY <2>1, UpToPlace
  <2>3. CASE i \in T
    <3>1. {j \in T : j < i + 1} = before \cup {i} /\ i \notin before
      <4>1. \A j \in T : j < i + 1 <=> j < i \/ j = i
        BY <1>0
      <4>2. ~(i < i)
        OBVIOUS
      <4> QED
        BY ONLY <2>3, <4>1, <4>2
    <3>2. Cardinality(before \cup {i}) = Cardinality(before) + 1
      BY <2>2, <3>1, FS_AddElement
    <3>3. below[i + 1] = Cardinality(before \cup {i}) /\ below[i] = Cardinality(before)
      BY <1>2, <2>1, <3>1
    <3> QED
      BY <2>3, <3>2, <3>3
  <2>4. CASE i \notin T
    <3>1. {j \in T : j < i + 1} = before
      <4>1. \A j \in T : j < i + 1 <=> j < i
        BY <1>0, <2>4
      <4> QED
        BY ONLY <4>1
    <3>2. below[i + 1] = Cardinality(before) /\ below[i] = Cardinality(before)
      BY <1>2, <2>1, <3>1
    <3> QED
      BY <2>4, <3>2
  <2> QED
    BY <2>3, <2>4
<1>6. E \in SUBSET Nat /\ n + 1 \in E
  BY <1>1, <1>4
<1>7. PICK next : next = Min(E) /\ next \in E /\ \A y \in E : next <= y
  BY <1>6, MinOf
<1>8. next \in 0 .. n + 1 /\ below[next] >= k /\ next # 0
  BY <1>1, <1>4, <1>7
<1>9. PICK i \in 0 .. n : next = i + 1 /\ i \in 0 .. n + 1
  <2>1. next - 1 \in 0 .. n /\ next = (next - 1) + 1
    BY <1>8
  <2> QED
    BY <2>1
<1>10. ~(below[i] >= k)
  <2>1. ~(next <= i)
    BY <1>9
  <2>2. i \notin E
    BY ONLY <1>7, <2>1
  <2> QED
    BY <1>9, <2>2
<1>11. i \in T /\ below[i + 1] = k
  <2>1. below[i] \in Nat /\ below[i + 1] \in Nat /\ below[i + 1] >= k
    BY <1>3, <1>8, <1>9
  <2>2. CASE i \in T
    <3>1. below[i + 1] = below[i] + 1
      BY <1>5, <2>2
    <3> QED
      BY <1>1, <1>10, <2>1, <2>2, <3>1
  <2>3. CASE i \notin T
    <3>1. below[i + 1] = below[i]
      BY <1>5, <2>3
    <3> QED
      BY <1>10, <2>1, <3>1
  <2> QED
    BY <2>2, <2>3
<1>12. Cardinality({j \in T : j <= i}) = k
  <2>1. \A j \in T : j <= i <=> j < i + 1
    BY <1>0
  <2>2. {j \in T : j <= i} = {j \in T : j < i + 1}
    BY ONLY <2>1
  <2>3. i + 1 \in 0 .. n + 1
    BY <1>9
  <2> QED
    BY <1>2, <1>11, <2>2, <2>3
<1>13. \E x \in T : Cardinality({j \in T : j <= x}) = k
  BY <1>11, <1>12
<1> QED
  BY <1>13 DEF Nth

LEMMA NthRises ==
  ASSUME NEW n \in Nat, NEW T \in SUBSET (0 .. n), NEW k \in 1 .. Cardinality(T), NEW l \in 1 .. Cardinality(T), k < l
  PROVE  Nth(T, k) < Nth(T, l)
<1> DEFINE a == Nth(T, k)
           b == Nth(T, l)
<1>1. a \in T /\ Cardinality({j \in T : j <= a}) = k
  BY NthUpTo
<1>2. b \in T /\ Cardinality({j \in T : j <= b}) = l
  BY NthUpTo
<1> HIDE DEF a, b
<1>0. a \in Nat /\ b \in Nat
  BY <1>1, <1>2
<1>9. Cardinality(T) \in Nat
  BY UpToPlace, 0 \in Nat
<1> SUFFICES ASSUME b <= a PROVE FALSE
  BY <1>0 DEF a, b
<1>3. {j \in T : j <= b} \in SUBSET {j \in T : j <= a}
  <2>1. \A j \in T : j <= b => j <= a
    BY <1>0
  <2> QED
    BY ONLY <2>1
<1>4. IsFiniteSet({j \in T : j <= a})
  BY <1>0, UpToPlace
<1>5. l <= k
  BY <1>1, <1>2, <1>3, <1>4, FS_Subset
<1> QED
  BY <1>5, <1>9

LEMMA NthIsPlace ==
  ASSUME NEW n \in Nat, NEW T \in SUBSET (1 .. n), NEW k \in 1 .. Cardinality(T)
  PROVE  Nth(T, k) \in T /\ Cardinality({j \in T : j <= Nth(T, k)}) = k
<1>1. T \in SUBSET (0 .. n)
  OBVIOUS
<1> QED
  BY <1>1, NthUpTo

LEMMA NthInOrder ==
  ASSUME NEW n \in Nat, NEW T \in SUBSET (1 .. n), NEW k \in 1 .. Cardinality(T), NEW l \in 1 .. Cardinality(T), k < l
  PROVE  Nth(T, k) < Nth(T, l)
<1>1. T \in SUBSET (0 .. n)
  OBVIOUS
<1> QED
  BY <1>1, NthRises

LEMMA PickedIs ==
  ASSUME NEW list, NEW n \in Nat, NEW T \in SUBSET (1 .. n)
  PROVE  /\ IsList(Picked(list, T)) /\ Len(Picked(list, T)) = Cardinality(T)
         /\ Cardinality(T) \in Nat
         /\ \A k \in 1 .. Cardinality(T) : Picked(list, T)[k] = list[Nth(T, k)] /\ Nth(T, k) \in T
<1>1. Cardinality(T) \in Nat
  <2>1. T \in SUBSET (0 .. n)
    OBVIOUS
  <2> QED
    BY <2>1, UpToPlace, 0 \in Nat
<1>2. IsList(Picked(list, T)) /\ Len(Picked(list, T)) = Cardinality(T)
  BY <1>1, ListMade DEF Picked
<1> QED
  BY <1>1, <1>2, NthIsPlace DEF Picked

-----------------------------------------------------------------------------
(* One list after the other *)

LEMMA ListsJoined ==
  ASSUME NEW a, NEW b, IsList(a), IsList(b)
  PROVE  /\ IsList(a \o b) /\ Len(a \o b) = Len(a) + Len(b) /\ Len(a) \in Nat /\ Len(b) \in Nat
         /\ \A i \in 1 .. Len(a) : (a \o b)[i] = a[i]
         /\ \A i \in Len(a) + 1 .. Len(a) + Len(b) : (a \o b)[i] = b[i - Len(a)] /\ i - Len(a) \in 1 .. Len(b)
<1> DEFINE S == Range(a) \cup Range(b)
<1>1. a \in Seq(Range(a)) /\ b \in Seq(Range(b)) /\ Len(a) \in Nat /\ Len(b) \in Nat
  BY ListShape
<1>2. a \in Seq(S) /\ b \in Seq(S)
  BY <1>1, SeqMonotonic
<1> HIDE DEF S
<1>3. /\ a \o b \in Seq(S) /\ Len(a \o b) = Len(a) + Len(b)
      /\ \A i \in 1 .. Len(a) + Len(b) : (a \o b)[i] = IF i <= Len(a) THEN a[i] ELSE b[i - Len(a)]
  BY <1>2, ConcatProperties
<1>4. IsList(a \o b)
  BY <1>3, ListOf
<1> QED
  BY <1>1, <1>3, <1>4

NextFlat(seqs, i, flat) == IF i = 1 THEN seqs[i] ELSE flat[i - 1] \o seqs[i]

LEMMA FlatExists ==
  ASSUME NEW seqs, NEW n \in Nat
  PROVE  \E flat : flat = [i \in 1 .. n |-> NextFlat(seqs, i, flat)]
<1> DEFINE Upto(m) == \E flat : flat = [i \in 1 .. m |-> NextFlat(seqs, i, flat)]
           S == {m \in Nat : Upto(m)}
<1>1. 0 \in S
  <2> DEFINE flat == [i \in 1 .. 0 |-> <<>>]
  <2>1. flat = [i \in 1 .. 0 |-> NextFlat(seqs, i, flat)]
    OBVIOUS
  <2> HIDE DEF flat
  <2>2. Upto(0)
    BY <2>1
  <2> QED
    BY <2>2
<1>2. ASSUME NEW m \in Nat, m \in S PROVE m + 1 \in S
  <2>1. PICK flat : flat = [i \in 1 .. m |-> NextFlat(seqs, i, flat)]
    BY <1>2
  <2> DEFINE more == [i \in 1 .. m + 1 |-> IF i \in 1 .. m THEN flat[i] ELSE NextFlat(seqs, i, flat)]
  <2>2. ASSUME NEW i \in 1 .. m + 1 PROVE more[i] = NextFlat(seqs, i, more)
    <3>1. more[i] = NextFlat(seqs, i, flat)
      BY <2>1
    <3>2. i # 1 => i - 1 \in 1 .. m /\ more[i - 1] = flat[i - 1]
      OBVIOUS
    <3> QED
      BY <3>1, <3>2 DEF NextFlat
  <2>3. more = [i \in 1 .. m + 1 |-> NextFlat(seqs, i, more)]
    BY <2>2
  <2> HIDE DEF more
  <2>4. Upto(m + 1)
    BY <2>3
  <2> QED
    BY <2>4
<1> HIDE DEF S
<1>3. Nat \subseteq S
  BY <1>1, <1>2, Induction
<1> QED
  BY <1>3 DEF S

LEMMA FlattenedBy ==
  ASSUME NEW seqs, Len(seqs) \in Nat \ {0}
  PROVE  \E flat : /\ flat = [i \in 1 .. Len(seqs) |-> NextFlat(seqs, i, flat)]
                   /\ FlattenSeq(seqs) = flat[Len(seqs)]
<1> DEFINE flat == CHOOSE f : f = [i \in 1 .. Len(seqs) |-> NextFlat(seqs, i, f)]
<1>1. \E f : f = [i \in 1 .. Len(seqs) |-> NextFlat(seqs, i, f)]
  <2>1. Len(seqs) \in Nat
    OBVIOUS
  <2> QED
    BY ONLY <2>1, FlatExists
<1>2. flat = [i \in 1 .. Len(seqs) |-> NextFlat(seqs, i, flat)]
  BY <1>1
<1>3. Len(seqs) # 0
  OBVIOUS
<1>4. FlattenSeq(seqs) = flat[Len(seqs)]
  BY <1>3, Zenon DEF FlattenSeq, NextFlat
<1> QED
  BY <1>2, <1>4

\* What stands in a flattened list comes from one list, in the order of the lists.
Gathered(list, seqs, n) ==
  /\ IsList(list)
  /\ \E from \in [1 .. Len(list) -> 1 .. n] :
       /\ \A i \in 1 .. Len(list) : list[i] \in Range(seqs[from[i]])
       /\ \A i, j \in 1 .. Len(list) : i <= j => from[i] <= from[j]

LEMMA GatheredMore ==
  ASSUME NEW list, NEW seqs, NEW n \in Nat, Gathered(list, seqs, n), IsList(seqs[n + 1])
  PROVE  Gathered(list \o seqs[n + 1], seqs, n + 1)
<1> DEFINE next == seqs[n + 1]
           both == list \o next
<1>1. PICK from \in [1 .. Len(list) -> 1 .. n] :
               /\ \A i \in 1 .. Len(list) : list[i] \in Range(seqs[from[i]])
               /\ \A i, j \in 1 .. Len(list) : i <= j => from[i] <= from[j]
  BY DEF Gathered
<1>2. /\ IsList(both) /\ Len(both) = Len(list) + Len(next) /\ Len(list) \in Nat /\ Len(next) \in Nat
      /\ \A i \in 1 .. Len(list) : both[i] = list[i]
      /\ \A i \in Len(list) + 1 .. Len(list) + Len(next) : both[i] = next[i - Len(list)] /\ i - Len(list) \in 1 .. Len(next)
  BY ListsJoined DEF Gathered
<1> DEFINE more == [i \in 1 .. Len(both) |-> IF i <= Len(list) THEN from[i] ELSE n + 1]
<1> HIDE DEF both, next
<1>3. more \in [1 .. Len(both) -> 1 .. n + 1]
  BY <1>1, <1>2
<1>4. ASSUME NEW i \in 1 .. Len(both) PROVE both[i] \in Range(seqs[more[i]])
  <2>1. CASE i <= Len(list)
    BY <1>1, <1>2, <2>1
  <2>2. CASE i > Len(list)
    <3>1. both[i] = next[i - Len(list)] /\ i - Len(list) \in 1 .. Len(next) /\ more[i] = n + 1
      BY <1>2, <2>2
    <3>2. next[i - Len(list)] \in Range(next)
      BY <3>1, ListShape DEF next
    <3> QED
      BY <3>1, <3>2 DEF next
  <2> QED
    BY <1>2, <2>1, <2>2
<1>5. ASSUME NEW i \in 1 .. Len(both), NEW j \in 1 .. Len(both), i <= j PROVE more[i] <= more[j]
  BY <1>1, <1>2, <1>5
<1> HIDE DEF more
<1> QED
  BY <1>2, <1>3, <1>4, <1>5 DEF Gathered, both, next

LEMMA Flattened ==
  ASSUME NEW seqs, IsList(seqs), \A i \in 1 .. Len(seqs) : IsList(seqs[i])
  PROVE  Gathered(FlattenSeq(seqs), seqs, Len(seqs))
<1>1. Len(seqs) \in Nat
  BY ListShape
<1>2. CASE Len(seqs) = 0
  <2>1. FlattenSeq(seqs) = seqs
    BY <1>2 DEF FlattenSeq
  <2>2. [i \in {} |-> 0] \in [1 .. Len(seqs) -> 1 .. Len(seqs)]
    BY <1>2
  <2> QED
    BY <1>2, <2>1, <2>2 DEF Gathered
<1>3. CASE Len(seqs) \in Nat \ {0}
  <2>1. PICK flat : /\ flat = [i \in 1 .. Len(seqs) |-> NextFlat(seqs, i, flat)]
                    /\ FlattenSeq(seqs) = flat[Len(seqs)]
    BY <1>3, FlattenedBy
  <2> DEFINE n == Len(seqs)
             S == {k \in 0 .. n - 1 : Gathered(flat[k + 1], seqs, k + 1)}
  <2>2. \A i \in 1 .. n : flat[i] = IF i = 1 THEN seqs[1] ELSE flat[i - 1] \o seqs[i]
    BY <2>1 DEF NextFlat
  <2> HIDE DEF n
  <2>3. n \in Nat \ {0} /\ \A i \in 1 .. n : IsList(seqs[i])
    BY <1>3 DEF n
  <2>4. 0 \in S
    <3> DEFINE from == [i \in 1 .. Len(seqs[1]) |-> 1]
    <3>1. flat[1] = seqs[1] /\ IsList(seqs[1]) /\ 0 \in 0 .. n - 1
      BY <2>2, <2>3
    <3>2. \A i \in 1 .. Len(seqs[1]) : seqs[1][i] \in Range(seqs[1])
      BY <3>1, ListShape
    <3>3. /\ from \in [1 .. Len(seqs[1]) -> 1 .. 1]
          /\ \A i \in 1 .. Len(seqs[1]) : from[i] = 1
      OBVIOUS
    <3> HIDE DEF from
    <3>4. /\ \A i \in 1 .. Len(seqs[1]) : seqs[1][i] \in Range(seqs[from[i]])
          /\ \A i, j \in 1 .. Len(seqs[1]) : i <= j => from[i] <= from[j]
      BY <3>2, <3>3
    <3>5. Gathered(seqs[1], seqs, 1)
      BY <3>1, <3>3, <3>4 DEF Gathered
    <3> QED
      BY <3>1, <3>5
  <2>5. ASSUME NEW k \in 0 .. n - 1, k + 1 \in 0 .. n - 1, k \in S PROVE k + 1 \in S
    <3>1. k + 2 \in 1 .. n /\ k + 2 # 1 /\ (k + 2) - 1 = k + 1 /\ (k + 1) + 1 = k + 2 /\ k + 1 \in Nat
      BY <2>3, <2>5
    <3>2. flat[k + 2] = flat[k + 1] \o seqs[k + 2]
      BY <2>2, <3>1
    <3>3. Gathered(flat[k + 1], seqs, k + 1) /\ IsList(seqs[k + 2])
      BY <2>3, <2>5, <3>1
    <3>4. Gathered(flat[k + 2], seqs, k + 2)
      BY <3>1, <3>2, <3>3, GatheredMore
    <3> QED
      BY <2>5, <3>1, <3>4
  <2> HIDE DEF S
  <2>6. 0 .. n - 1 \subseteq S
    <3>1. n - 1 \in Nat
      BY <2>3
    <3> QED
      BY <2>4, <2>5, <3>1, UpTo
  <2>7. n - 1 \in S /\ (n - 1) + 1 = n
    BY <2>3, <2>6
  <2>8. Gathered(flat[n], seqs, n)
    BY <2>7 DEF S
  <2> QED
    BY <2>1, <2>8 DEF n
<1> QED
  BY <1>1, <1>2, <1>3

\* What the flattened list has comes from one of the lists.
LEMMA FlattenedList ==
  ASSUME NEW seqs, IsList(seqs), \A i \in 1 .. Len(seqs) : IsList(seqs[i])
  PROVE  /\ IsList(FlattenSeq(seqs))
         /\ \A i \in 1 .. Len(FlattenSeq(seqs)) : \E k \in 1 .. Len(seqs) : FlattenSeq(seqs)[i] \in Range(seqs[k])
BY Flattened DEF Gathered

-----------------------------------------------------------------------------
(* Declarations and rules *)

\* What is kept of a list of declarations.
AreSet(list) ==
  IsList(list) /\ \A i \in 1 .. Len(list) : IsDeclaration(list[i]) /\ list[i].values # <<>>

LEMMA SidesAreSet ==
  ASSUME NEW declaration, IsDeclaration(declaration), declaration.values # <<>>
  PROVE  AreSet(Expanded(declaration))
<1> DEFINE values == declaration.values
           sides == Sides(declaration.property)
           four == [i \in 1 .. 4 |-> [property |-> sides[i], values |-> <<values[SideOf(Len(values))[i]]>>,
                                      important |-> declaration.important]]
<1>1. AreSet(<<declaration>>)
  <2>1. <<declaration>> \in Seq({declaration}) /\ Len(<<declaration>>) = 1 /\ <<declaration>>[1] = declaration
    OBVIOUS
  <2>2. IsList(<<declaration>>)
    BY <2>1, ListOf
  <2>3. \A i \in 1 .. 1 : <<declaration>>[i] = declaration
    BY <2>1
  <2> QED
    BY <2>1, <2>2, <2>3 DEF AreSet
<1>2. ASSUME Len(values) \in 1 .. 4 PROVE AreSet(four)
  <2>1. DOMAIN values = 1 .. Len(values) /\ \A i \in 1 .. Len(values) : values[i] \in Range(values)
    BY ListShape DEF IsDeclaration
  <2>2. ASSUME NEW i \in 1 .. 4 PROVE SideOf(Len(values))[i] \in 1 .. Len(values)
    <3>1. CASE Len(values) = 1
      BY <3>1 DEF SideOf
    <3>2. CASE Len(values) = 2
      BY <3>2 DEF SideOf
    <3>3. CASE Len(values) = 3
      BY <3>3 DEF SideOf
    <3>4. CASE Len(values) = 4
      BY <3>4 DEF SideOf
    <3> QED
      BY <1>2, <3>1, <3>2, <3>3, <3>4
  <2>3. ASSUME NEW i \in 1 .. 4
        PROVE  IsDeclaration(four[i]) /\ four[i].values # <<>>
    <3> DEFINE v == values[SideOf(Len(values))[i]]
    <3>1. IsValue(v)
      BY <2>1, <2>2 DEF IsDeclaration
    <3>2. four[i].values = <<v>> /\ four[i].important = declaration.important
      OBVIOUS
    <3> HIDE DEF v, four
    <3>3. <<v>> \in Seq({v}) /\ <<v>> # <<>>
      OBVIOUS
    <3>4. IsList(<<v>>) /\ Range(<<v>>) \subseteq {v}
      BY <3>3, ListOf
    <3> QED
      BY <3>1, <3>2, <3>3, <3>4 DEF IsDeclaration
  <2>4. four = [i \in 1 .. 4 |-> four[i]]
    OBVIOUS
  <2> HIDE DEF four
  <2>5. IsList(four) /\ Len(four) = 4
    BY <2>4, ListMade
  <2> QED
    BY <2>3, <2>5 DEF AreSet
<1> HIDE DEF four
<1>3. Expanded(declaration) = <<declaration>> \/ (Len(values) \in 1 .. 4 /\ Expanded(declaration) = four)
  BY DEF Expanded, four
<1> QED
  BY <1>1, <1>2, <1>3

LEMMA DeclarationsAreSet ==
  ASSUME NEW list, IsDeclarations(list)
  PROVE  AreSet(Declarations(list))
<1> DEFINE parts == [i \in DOMAIN list |->
                      IF list[i].values = <<>> \/ list[i].property \notin Supported THEN <<>> ELSE Expanded(list[i])]
<1>1. /\ DOMAIN list = 1 .. Len(list) /\ Len(list) \in Nat
      /\ \A i \in 1 .. Len(list) : IsDeclaration(list[i])
  BY ListShape DEF IsDeclarations
<1>2. AreSet(<<>>)
  <2>1. <<>> \in Seq({}) /\ Len(<<>>) = 0
    OBVIOUS
  <2>2. IsList(<<>>)
    BY <2>1, ListOf
  <2> QED
    BY <2>1, <2>2 DEF AreSet
<1>3. ASSUME NEW i \in 1 .. Len(list) PROVE AreSet(parts[i])
  <2>1. parts[i] = <<>> \/ (list[i].values # <<>> /\ parts[i] = Expanded(list[i]))
    BY <1>1
  <2> HIDE DEF parts
  <2> QED
    BY <1>1, <1>2, <2>1, SidesAreSet
<1>4. parts = [i \in 1 .. Len(list) |-> parts[i]]
  BY <1>1
<1>5. Declarations(list) = FlattenSeq(parts)
  BY DEF Declarations
<1> HIDE DEF parts
<1>6. IsList(parts) /\ Len(parts) = Len(list)
  BY <1>1, <1>4, ListMade
<1>7. /\ IsList(FlattenSeq(parts))
      /\ \A i \in 1 .. Len(FlattenSeq(parts)) : \E k \in 1 .. Len(parts) : FlattenSeq(parts)[i] \in Range(parts[k])
  BY <1>3, <1>6, FlattenedList DEF AreSet
<1>8. ASSUME NEW k \in 1 .. Len(parts), NEW d \in Range(parts[k])
      PROVE  IsDeclaration(d) /\ d.values # <<>>
  <2>1. AreSet(parts[k])
    BY <1>3, <1>6
  <2>2. DOMAIN parts[k] = 1 .. Len(parts[k])
    BY <2>1, ListShape DEF AreSet
  <2> QED
    BY <2>1, <2>2 DEF AreSet, Range
<1> QED
  BY <1>5, <1>7, <1>8 DEF AreSet

\* A selector that was kept has parts, and none that is not supported.
IsKept(parts) ==
  parts # <<>> /\ IsList(parts) /\ \A i \in 1 .. Len(parts) : IsFiniteSet(parts[i].classes)

IsRule(rule) ==
  /\ DOMAIN rule = {"selectors", "declarations", "order"}
  /\ IsList(rule.selectors) /\ \A s \in 1 .. Len(rule.selectors) : IsKept(rule.selectors[s])
  /\ AreSet(rule.declarations)
  /\ rule.order \in Nat

LEMMA SelectorsKept ==
  ASSUME NEW list, IsList(list), \A parts \in Range(list) : IsSelector(parts)
  PROVE  /\ IsList(Selectors(list))
         /\ \A s \in 1 .. Len(Selectors(list)) : IsKept(Selectors(list)[s])
<1> DEFINE T == {i \in DOMAIN list : list[i] # <<>> /\ Unsupported \notin Range(list[i])}
<1>1. DOMAIN list = 1 .. Len(list) /\ Len(list) \in Nat /\ \A i \in 1 .. Len(list) : IsSelector(list[i])
  BY ListShape
<1>2. T \in SUBSET (1 .. Len(list))
  BY <1>1
<1>3. ASSUME NEW i \in T PROVE IsKept(list[i])
  <2>1. i \in 1 .. Len(list) /\ list[i] # <<>> /\ Unsupported \notin Range(list[i])
    BY <1>2
  <2>2. IsList(list[i]) /\ \A part \in Range(list[i]) : part # Unsupported => IsFiniteSet(part.classes)
    BY <1>1, <2>1 DEF IsSelector
  <2>3. \A k \in 1 .. Len(list[i]) : list[i][k] \in Range(list[i])
    BY <2>2, ListShape
  <2> QED
    BY <2>1, <2>2, <2>3 DEF IsKept
<1>4. Selectors(list) = Picked(list, T)
  BY DEF Selectors
<1> HIDE DEF T
<1>5. /\ IsList(Picked(list, T)) /\ Len(Picked(list, T)) = Cardinality(T)
      /\ \A k \in 1 .. Cardinality(T) : Picked(list, T)[k] = list[Nth(T, k)] /\ Nth(T, k) \in T
  BY <1>1, <1>2, PickedIs
<1> QED
  BY <1>3, <1>4, <1>5

-----------------------------------------------------------------------------
(* The rules of a sheet *)

\* Source orders do not fall, and none is more than the rules there are.
InOrder(list) == \A i, j \in 1 .. Len(list) : i <= j => list[i].order <= list[j].order
Within(list, n) == \A i \in 1 .. Len(list) : list[i].order <= n

LEMMA OrdersRise ==
  ASSUME NEW items, NEW n \in Nat, NEW i \in 1 .. n
  PROVE  /\ Order(items, i) \in Nat
         /\ IsFiniteSet({j \in 1 .. i - 1 : Counts(items[j])})
         /\ \A k \in 1 .. i : Order(items, k) <= Order(items, i)
<1> DEFINE Before(k) == {j \in 1 .. k - 1 : Counts(items[j])}
<1>1. ASSUME NEW k \in 1 .. n PROVE IsFiniteSet(Before(k)) /\ Order(items, k) = Cardinality(Before(k))
  <2>1. IsFiniteSet(1 .. k - 1) /\ Before(k) \in SUBSET (1 .. k - 1)
    BY FS_Interval
  <2> QED
    BY <2>1, FS_Subset DEF Order
<1>2. ASSUME NEW k \in 1 .. i PROVE Before(k) \in SUBSET Before(i)
  <2>1. \A j \in 1 .. k - 1 : j \in 1 .. i - 1
    OBVIOUS
  <2> QED
    BY ONLY <2>1
<1> HIDE DEF Before
<1>3. \A k \in 1 .. i : Order(items, k) <= Order(items, i)
  <2> TAKE k \in 1 .. i
  <2>1. k \in 1 .. n
    OBVIOUS
  <2> QED
    BY <1>1, <1>2, <2>1, FS_Subset
<1>4. Order(items, i) \in Nat
  BY <1>1, FS_CardinalityType
<1> QED
  BY <1>1, <1>3, <1>4 DEF Before

LEMMA RuleIsRule ==
  ASSUME NEW items, IsSheet(items), NEW i \in RulePlaces(items)
  PROVE  IsRule(RuleAt(items, i))
<1>1. DOMAIN items = 1 .. Len(items) /\ Len(items) \in Nat
  BY ListShape DEF IsSheet
<1>2. i \in DOMAIN items /\ items[i].kind = "rule"
  BY DEF RulePlaces
<1>3. /\ IsList(items[i].selectors) /\ \A parts \in Range(items[i].selectors) : IsSelector(parts)
      /\ IsDeclarations(items[i].declarations)
  BY <1>2 DEF IsSheet
<1>4. /\ IsList(Selectors(items[i].selectors))
      /\ \A s \in 1 .. Len(Selectors(items[i].selectors)) : IsKept(Selectors(items[i].selectors)[s])
  BY <1>3, SelectorsKept
<1>5. AreSet(Declarations(items[i].declarations))
  BY <1>3, DeclarationsAreSet
<1>6. Order(items, i) \in Nat
  BY <1>1, <1>2, OrdersRise
<1>7. DOMAIN RuleAt(items, i) = {"selectors", "declarations", "order"}
  BY DEF RuleAt
<1> QED
  BY <1>4, <1>5, <1>6, <1>7 DEF IsRule, RuleAt

\* With at most one import, a sheet's orders stay within its number of rules.
LEMMA OrdersWithin ==
  ASSUME NEW items, IsSheet(items), ~Leaps(items), NEW i \in RulePlaces(items)
  PROVE  Order(items, i) <= Cardinality(RulePlaces(items))
<1> DEFINE n == Len(items)
           T == RulePlaces(items)
           I == {k \in 1 .. n : items[k].kind = "import"}
           B == {j \in 1 .. i - 1 : Counts(items[j])}
<1>1. DOMAIN items = 1 .. n /\ n \in Nat
  BY ListShape DEF IsSheet
<1>2. i \in 1 .. n /\ T \in SUBSET (1 .. n) /\ I \in SUBSET (1 .. n)
  BY <1>1 DEF RulePlaces
<1>3. IsFiniteSet(T) /\ IsFiniteSet(I) /\ Cardinality(T) \in Nat /\ Cardinality(I) \in Nat
  <2>1. T \in SUBSET (0 .. n) /\ I \in SUBSET (0 .. n)
    BY <1>1, <1>2
  <2> QED
    BY <1>1, <2>1, UpToPlace, 0 \in Nat
<1>4. Cardinality(I) <= 1
  <2>1. ImportsOf(items) = [k \in DOMAIN Picked(items, I) |-> Picked(items, I)[k].href]
    BY <1>1 DEF ImportsOf
  <2>2. IsList(Picked(items, I)) /\ Len(Picked(items, I)) = Cardinality(I)
    BY <1>1, <1>2, PickedIs
  <2> HIDE DEF I
  <2>3. DOMAIN Picked(items, I) = 1 .. Cardinality(I)
    BY <2>2, ListShape
  <2>4. ImportsOf(items) = [k \in 1 .. Cardinality(I) |-> ImportsOf(items)[k]]
    BY <2>1, <2>3
  <2>5. Len(ImportsOf(items)) = Cardinality(I)
    BY <1>3, <2>4, ListMade
  <2> QED
    BY <1>3, <2>5 DEF Leaps
<1>5. B \in SUBSET ((T \ {i}) \cup I)
  <2>1. \A j \in 1 .. i - 1 : j \in 1 .. n /\ j # i
    BY <1>1, <1>2
  <2> QED
    BY <1>1, <2>1 DEF Counts, RulePlaces
<1>6. Order(items, i) = Cardinality(B) /\ IsFiniteSet(B)
  BY <1>1, <1>2, OrdersRise DEF Order
<1> HIDE DEF B, I, T
<1>7. IsFiniteSet(T \ {i}) /\ Cardinality(T \ {i}) = Cardinality(T) - 1
  <2>1. i \in T
    BY DEF T
  <2> QED
    BY <1>3, <2>1, FS_RemoveElement
<1>8. /\ IsFiniteSet((T \ {i}) \cup I)
      /\ Cardinality((T \ {i}) \cup I) <= Cardinality(T \ {i}) + Cardinality(I)
  <2>1. IsFiniteSet((T \ {i}) \cap I) /\ Cardinality((T \ {i}) \cap I) \in Nat
    BY <1>3, <1>7, FS_Intersection, FS_CardinalityType
  <2>2. /\ IsFiniteSet((T \ {i}) \cup I)
        /\ Cardinality((T \ {i}) \cup I)
             = Cardinality(T \ {i}) + Cardinality(I) - Cardinality((T \ {i}) \cap I)
    BY <1>3, <1>7, FS_Union
  <2> QED
    BY <1>3, <1>7, <2>1, <2>2
<1>9. Cardinality(B) <= Cardinality((T \ {i}) \cup I)
  BY <1>5, <1>8, FS_Subset
<1>10. Cardinality(B) \in Nat /\ Cardinality((T \ {i}) \cup I) \in Nat
  BY <1>6, <1>8, FS_CardinalityType
<1> QED
  BY <1>3, <1>4, <1>6, <1>7, <1>8, <1>9, <1>10 DEF T

LEMMA RulesAre ==
  ASSUME NEW items, IsSheet(items)
  PROVE  /\ IsList(RulesOf(items)) /\ \A k \in 1 .. Len(RulesOf(items)) : IsRule(RulesOf(items)[k])
         /\ InOrder(RulesOf(items))
         /\ ~Leaps(items) => Within(RulesOf(items), Len(RulesOf(items)))
<1> DEFINE n == Len(items)
           T == RulePlaces(items)
           all == [i \in DOMAIN items |-> RuleAt(items, i)]
<1>1. DOMAIN items = 1 .. n /\ n \in Nat
  BY ListShape DEF IsSheet
<1>2. T \in SUBSET (1 .. n)
  BY <1>1 DEF RulePlaces
<1>3. /\ IsList(RulesOf(items)) /\ Len(RulesOf(items)) = Cardinality(T) /\ Cardinality(T) \in Nat
      /\ \A k \in 1 .. Cardinality(T) : RulesOf(items)[k] = all[Nth(T, k)] /\ Nth(T, k) \in T
  <2> HIDE DEF all, T
  <2>1. RulesOf(items) = Picked(all, T)
    BY DEF RulesOf, all, T
  <2> QED
    BY <1>1, <1>2, <2>1, PickedIs
<1>4. \A k \in 1 .. Cardinality(T) : RulesOf(items)[k] = RuleAt(items, Nth(T, k)) /\ Nth(T, k) \in T
  <2> SUFFICES ASSUME NEW k \in 1 .. Cardinality(T)
               PROVE  RulesOf(items)[k] = RuleAt(items, Nth(T, k)) /\ Nth(T, k) \in T
    OBVIOUS
  <2>1. Nth(T, k) \in DOMAIN items
    BY <1>1, <1>2, <1>3
  <2>2. RulesOf(items)[k] = all[Nth(T, k)] /\ Nth(T, k) \in T
    BY <1>3
  <2> QED
    BY <2>1, <2>2
<1> HIDE DEF all
<1>5. \A k \in 1 .. Cardinality(T) : RulesOf(items)[k].order = Order(items, Nth(T, k))
  <2>1. \A i : RuleAt(items, i).order = Order(items, i)
    BY DEF RuleAt
  <2> QED
    BY <1>4, <2>1
<1>6. \A k \in 1 .. Len(RulesOf(items)) : IsRule(RulesOf(items)[k])
  BY <1>3, <1>4, RuleIsRule
<1>7. InOrder(RulesOf(items))
  <2>1. ASSUME NEW k \in 1 .. Cardinality(T), NEW l \in 1 .. Cardinality(T), k <= l
        PROVE  Order(items, Nth(T, k)) <= Order(items, Nth(T, l))
    <3>1. k < l => Nth(T, k) < Nth(T, l)
      BY <1>1, <1>2, NthInOrder
    <3>2. Nth(T, k) \in 1 .. n /\ Nth(T, l) \in 1 .. n
      BY <1>2, <1>4
    <3>3. Nth(T, k) \in 1 .. Nth(T, l)
      BY <2>1, <3>1, <3>2
    <3> QED
      BY <1>1, <3>2, <3>3, OrdersRise
  <2> QED
    BY <1>3, <1>5, <2>1 DEF InOrder
<1>8. ASSUME ~Leaps(items) PROVE Within(RulesOf(items), Len(RulesOf(items)))
  BY <1>3, <1>4, <1>5, <1>8, OrdersWithin DEF Within
<1> QED
  BY <1>3, <1>6, <1>7, <1>8

-----------------------------------------------------------------------------
(* Merging *)

AreRules(list) == IsList(list) /\ \A k \in 1 .. Len(list) : IsRule(list[k])

Moved(sheet, by) == [i \in DOMAIN sheet |-> [sheet[i] EXCEPT !.order = @ + by]]

LEMMA MovedIs ==
  ASSUME NEW sheet, AreRules(sheet), NEW by \in Nat
  PROVE  /\ AreRules(Moved(sheet, by)) /\ Len(Moved(sheet, by)) = Len(sheet)
         /\ \A i \in 1 .. Len(sheet) : Moved(sheet, by)[i].order = sheet[i].order + by
<1>1. DOMAIN sheet = 1 .. Len(sheet) /\ Len(sheet) \in Nat
  BY ListShape DEF AreRules
<1>2. IsList(Moved(sheet, by)) /\ Len(Moved(sheet, by)) = Len(sheet)
  BY <1>1, ListMade DEF Moved
<1>3. ASSUME NEW i \in 1 .. Len(sheet)
      PROVE  Moved(sheet, by)[i].order = sheet[i].order + by /\ IsRule(Moved(sheet, by)[i])
  <2>1. Moved(sheet, by)[i] = [sheet[i] EXCEPT !.order = @ + by]
    BY <1>1 DEF Moved
  <2>2. IsRule(sheet[i])
    BY DEF AreRules
  <2> DEFINE before == sheet[i] after == [sheet[i] EXCEPT !.order = @ + by]
  <2>3. DOMAIN before = {"selectors", "declarations", "order"}
    BY <2>2 DEF IsRule
  <2> QED
    BY <2>1, <2>2, <2>3 DEF IsRule
<1> QED
  BY <1>1, <1>2, <1>3 DEF AreRules

\* A cascade grows in order, sheet by sheet.
LEMMA MergedIs ==
  ASSUME NEW cascade, AreRules(cascade), NEW sheet, AreRules(sheet)
  PROVE  /\ AreRules(Merged(cascade, sheet))
         /\ InOrder(cascade) /\ Within(cascade, Len(cascade)) /\ InOrder(sheet) /\ Within(sheet, Len(sheet)) =>
              InOrder(Merged(cascade, sheet)) /\ Within(Merged(cascade, sheet), Len(Merged(cascade, sheet)))
<1> DEFINE base == Len(cascade)
           moved == Moved(sheet, base)
           merged == Merged(cascade, sheet)
<1>1. base \in Nat /\ Len(sheet) \in Nat /\ \A i \in 1 .. base : cascade[i].order \in Nat
  BY ListShape DEF AreRules, IsRule
<1>2. /\ AreRules(moved) /\ Len(moved) = Len(sheet)
      /\ \A i \in 1 .. Len(sheet) : moved[i].order = sheet[i].order + base
  BY <1>1, MovedIs
<1>3. merged = cascade \o moved
  BY DEF Merged, Moved
<1> HIDE DEF moved, merged
<1>4. /\ IsList(merged) /\ Len(merged) = base + Len(sheet)
      /\ \A i \in 1 .. base : merged[i] = cascade[i]
      /\ \A i \in base + 1 .. base + Len(sheet) : merged[i] = moved[i - base] /\ i - base \in 1 .. Len(sheet)
  <2>1. IsList(cascade) /\ IsList(moved)
    BY <1>2 DEF AreRules
  <2>2. /\ IsList(cascade \o moved) /\ Len(cascade \o moved) = Len(cascade) + Len(moved)
        /\ \A i \in 1 .. Len(cascade) : (cascade \o moved)[i] = cascade[i]
        /\ \A i \in Len(cascade) + 1 .. Len(cascade) + Len(moved) :
             (cascade \o moved)[i] = moved[i - Len(cascade)] /\ i - Len(cascade) \in 1 .. Len(moved)
    BY <2>1, ListsJoined
  <2>3. Len(moved) = Len(sheet)
    BY <1>2
  <2> QED
    BY ONLY <1>3, <2>2, <2>3
<1>5. AreRules(merged)
  <2> SUFFICES ASSUME NEW i \in 1 .. Len(merged) PROVE IsRule(merged[i])
    BY <1>4 DEF AreRules
  <2>1. i \in 1 .. base \/ i \in base + 1 .. base + Len(sheet)
    BY <1>1, <1>4
  <2> QED
    BY <1>2, <1>4, <2>1 DEF AreRules
<1>6. ASSUME InOrder(cascade), Within(cascade, base), InOrder(sheet), Within(sheet, Len(sheet))
      PROVE  InOrder(merged) /\ Within(merged, Len(merged))
  <2>1. \A i \in 1 .. base : merged[i].order = cascade[i].order /\ cascade[i].order \in Nat /\ cascade[i].order <= base
    BY <1>1, <1>4, <1>6 DEF Within
  <2>2. \A i \in base + 1 .. base + Len(sheet) :
          /\ merged[i].order = sheet[i - base].order + base /\ i - base \in 1 .. Len(sheet)
          /\ sheet[i - base].order \in Nat /\ sheet[i - base].order <= Len(sheet)
    BY <1>2, <1>4, <1>6 DEF Within, AreRules, IsRule
  <2>3. ASSUME NEW i \in 1 .. Len(merged), NEW j \in 1 .. Len(merged), i <= j
        PROVE  merged[i].order <= merged[j].order
    <3>1. CASE j <= base
      <4>1. i \in 1 .. base /\ j \in 1 .. base /\ cascade[i].order <= cascade[j].order
        BY <1>1, <1>4, <1>6, <2>3, <3>1 DEF InOrder
      <4> QED
        BY <2>1, <4>1
    <3>2. CASE i <= base /\ j > base
      <4>1. i \in 1 .. base /\ j \in base + 1 .. base + Len(sheet)
        BY <1>1, <1>4, <3>2
      <4> QED
        BY <1>1, <2>1, <2>2, <4>1, SMTT(60)
    <3>3. CASE i > base
      <4>1. i \in base + 1 .. base + Len(sheet) /\ j \in base + 1 .. base + Len(sheet) /\ i - base <= j - base
        BY <1>1, <1>4, <2>3, <3>3
      <4>2. sheet[i - base].order <= sheet[j - base].order
        BY <1>6, <2>2, <4>1 DEF InOrder
      <4> QED
        BY <1>1, <2>2, <4>1, <4>2, SMTT(60)
    <3> QED
      BY <1>1, <1>4, <3>1, <3>2, <3>3
  <2>4. ASSUME NEW i \in 1 .. Len(merged) PROVE merged[i].order <= Len(merged)
    <3>1. i \in 1 .. base \/ i \in base + 1 .. base + Len(sheet)
      BY <1>1, <1>4
    <3> QED
      BY <1>1, <1>4, <2>1, <2>2, <3>1
  <2> QED
    BY <2>3, <2>4 DEF InOrder, Within
<1> QED
  BY <1>5, <1>6 DEF merged

-----------------------------------------------------------------------------
(* Loading *)

Straight == \A i \in DOMAIN arrival : ~Leaps(arrival[i])

\* The sheets being loaded are sheets of the book.
AreFrames(list, b) ==
  IsList(list) /\ \A k \in 1 .. Len(list) :
    DOMAIN list[k] = {"path", "imports"} /\ list[k].path \in DOMAIN b

AreSheets(list) == IsList(list) /\ \A k \in 1 .. Len(list) : IsSheet(list[k])

\* What a chapter's loading keeps: what is merged are rules, and as long as no
\* sheet leaps they stand in the order that they count.
CssInv ==
  /\ book \in Sheets
  /\ AreSheets(embedded)
  /\ AreFrames(loading, book)
  /\ IsList(arrival)
  /\ AreRules(rules)
  /\ Straight => InOrder(rules) /\ Within(rules, Len(rules))

LEMMA EmptyList == IsList(<<>>) /\ Len(<<>>) = 0
<1>1. <<>> \in Seq({})
  OBVIOUS
<1> QED
  BY <1>1, ListOf

LEMMA ListAppended ==
  ASSUME NEW list, IsList(list), NEW e
  PROVE  /\ IsList(Append(list, e)) /\ Len(Append(list, e)) = Len(list) + 1 /\ Len(list) \in Nat
         /\ \A i \in 1 .. Len(list) : Append(list, e)[i] = list[i]
         /\ Append(list, e)[Len(list) + 1] = e
<1> DEFINE S == Range(list) \cup {e}
<1>1. list \in Seq(Range(list)) /\ Len(list) \in Nat
  BY ListShape
<1>2. list \in Seq(S) /\ e \in S
  BY <1>1, SeqMonotonic
<1> HIDE DEF S
<1>3. /\ Append(list, e) \in Seq(S) /\ Len(Append(list, e)) = Len(list) + 1
      /\ \A i \in 1 .. Len(list) : Append(list, e)[i] = list[i]
      /\ Append(list, e)[Len(list) + 1] = e
  BY <1>2, AppendProperties
<1>4. IsList(Append(list, e))
  BY <1>3, ListOf
<1> QED
  BY <1>1, <1>3, <1>4

LEMMA ListsCut ==
  ASSUME NEW list, IsList(list), list # <<>>
  PROVE  /\ Len(list) \in Nat \ {0}
         /\ IsList(Tail(list)) /\ Len(Tail(list)) = Len(list) - 1
         /\ \A i \in 1 .. Len(list) - 1 : Tail(list)[i] = list[i + 1]
         /\ IsList(Front(list)) /\ Len(Front(list)) = Len(list) - 1
         /\ \A i \in 1 .. Len(list) - 1 : Front(list)[i] = list[i]
         /\ Head(list) = list[1]
<1> DEFINE S == Range(list)
<1>1. list \in Seq(S) /\ Len(list) \in Nat
  BY ListShape
<1> HIDE DEF S
<1>2. Len(list) \in Nat \ {0}
  BY <1>1, EmptySeq
<1>3. Tail(list) \in Seq(S) /\ Len(Tail(list)) = Len(list) - 1 /\ \A i \in 1 .. Len(list) - 1 : Tail(list)[i] = list[i + 1]
  BY <1>1, <1>2, HeadTailProperties
<1>4. Front(list) \in Seq(S) /\ Len(Front(list)) = Len(list) - 1 /\ \A i \in 1 .. Len(list) - 1 : Front(list)[i] = list[i]
  <2> DEFINE m == Len(list) - 1
             front == SubSeq(list, 1, m)
  <2>1. m \in Nat /\ \A i \in 1 .. m : list[i] \in S
    BY <1>1, <1>2
  <2> HIDE DEF m
  <2>2. /\ front \in Seq(S)
        /\ Len(front) = IF 1 <= m THEN m - 1 + 1 ELSE 0
        /\ \A i \in 1 .. m - 1 + 1 : front[i] = list[1 + i - 1]
    BY <2>1, SubSeqProperties
  <2> HIDE DEF front
  <2>3. Len(front) = m /\ m - 1 + 1 = m
    BY <2>1, <2>2
  <2>4. \A i \in 1 .. m : front[i] = list[i]
    <3> TAKE i \in 1 .. m
    <3>1. 1 + i - 1 = i
      BY <2>1
    <3> QED
      BY <2>2, <2>3, <3>1
  <2> QED
    BY <2>2, <2>3, <2>4 DEF Front, front, m
<1>5. Head(list) = list[1]
  BY <1>1, <1>2
<1> QED
  BY <1>2, <1>3, <1>4, <1>5, ListOf

LEMMA FramesKept ==
  ASSUME NEW list, NEW b, AreFrames(list, b)
  PROVE  /\ \A path \in DOMAIN b : \A imports :
              AreFrames(Append(list, [path |-> path, imports |-> imports]), b)
         /\ list # <<>> =>
              /\ AreFrames(Front(list), b)
              /\ AreFrames([list EXCEPT ![Len(list)].imports = Tail(@)], b)
              /\ list[Len(list)].path \in DOMAIN b
<1>1. IsList(list) /\ Len(list) \in Nat /\ DOMAIN list = 1 .. Len(list)
  BY ListShape DEF AreFrames
<1>2. ASSUME NEW path \in DOMAIN b, NEW imports
      PROVE  AreFrames(Append(list, [path |-> path, imports |-> imports]), b)
  <2> DEFINE frame == [path |-> path, imports |-> imports]
             more == Append(list, frame)
  <2>1. DOMAIN frame = {"path", "imports"} /\ frame.path \in DOMAIN b
    OBVIOUS
  <2> HIDE DEF frame
  <2>2. IsList(more) /\ Len(more) = Len(list) + 1 /\ \A i \in 1 .. Len(list) : more[i] = list[i]
    BY <1>1, ListAppended
  <2>3. more[Len(list) + 1] = frame
    BY <1>1, ListAppended
  <2> HIDE DEF more
  <2>4. ASSUME NEW k \in 1 .. Len(list) + 1 PROVE DOMAIN more[k] = {"path", "imports"} /\ more[k].path \in DOMAIN b
    <3>1. k \in 1 .. Len(list) \/ k = Len(list) + 1
      BY <1>1
    <3> QED
      BY <2>1, <2>2, <2>3, <3>1 DEF AreFrames
  <2> QED
    BY <2>2, <2>4 DEF AreFrames, more, frame
<1>3. ASSUME list # <<>>
      PROVE  /\ AreFrames(Front(list), b)
             /\ AreFrames([list EXCEPT ![Len(list)].imports = Tail(@)], b)
             /\ list[Len(list)].path \in DOMAIN b
  <2>1. /\ Len(list) \in Nat \ {0} /\ IsList(Front(list)) /\ Len(Front(list)) = Len(list) - 1
        /\ \A i \in 1 .. Len(list) - 1 : Front(list)[i] = list[i]
    BY <1>1, <1>3, ListsCut
  <2>2. AreFrames(Front(list), b)
    BY <2>1 DEF AreFrames
  <2> DEFINE rest == [list EXCEPT ![Len(list)].imports = Tail(@)]
  <2>3. rest = [k \in 1 .. Len(list) |-> rest[k]]
    BY <1>1
  <2>4. IsList(rest) /\ Len(rest) = Len(list)
    <3> HIDE DEF rest
    <3> QED
      BY <1>1, <2>3, ListMade
  <2>5. ASSUME NEW k \in 1 .. Len(list) PROVE DOMAIN rest[k] = {"path", "imports"} /\ rest[k].path \in DOMAIN b
    <3>1. DOMAIN list[k] = {"path", "imports"} /\ list[k].path \in DOMAIN b
      BY DEF AreFrames
    <3>2. CASE k # Len(list)
      BY <1>1, <3>1, <3>2
    <3>3. CASE k = Len(list)
      <4>1. rest[k] = [list[k] EXCEPT !.imports = Tail(@)]
        BY <1>1, <3>3
      <4> HIDE DEF rest
      <4> QED
        BY <3>1, <4>1
    <3> QED
      BY <3>2, <3>3
  <2>6. AreFrames(rest, b)
    <3> HIDE DEF rest
    <3> QED
      BY <2>4, <2>5 DEF AreFrames
  <2> QED
    BY <2>1, <2>2, <2>6, SMTT(60) DEF AreFrames
<1> QED
  BY <1>2, <1>3

LEMMA SheetOfBook ==
  ASSUME NEW b \in Sheets, NEW path
  PROVE  /\ path \in DOMAIN b => IsSheet(b[path])
         /\ path \in Readable => path \in DOMAIN b
BY CssAssumption

\* One more sheet is merged.
LEMMA MergeKeeps ==
  ASSUME CssInv, NEW sheet, IsSheet(sheet),
         rules' = Merged(rules, RulesOf(sheet)), arrival' = Append(arrival, sheet)
  PROVE  IsList(arrival') /\ AreRules(rules') /\ (Straight' => InOrder(rules') /\ Within(rules', Len(rules')))
<1> DEFINE new == RulesOf(sheet)
<1>1. /\ AreRules(new) /\ InOrder(new)
      /\ ~Leaps(sheet) => Within(new, Len(new))
  BY RulesAre DEF AreRules
<1>2. /\ IsList(arrival') /\ Len(arrival') = Len(arrival) + 1 /\ Len(arrival) \in Nat
      /\ \A i \in 1 .. Len(arrival) : arrival'[i] = arrival[i]
      /\ arrival'[Len(arrival) + 1] = sheet
  BY ListAppended DEF CssInv
<1>3. DOMAIN arrival = 1 .. Len(arrival) /\ DOMAIN arrival' = 1 .. Len(arrival) + 1
  BY <1>2, ListShape DEF CssInv
<1>4. Straight' => Straight /\ ~Leaps(sheet)
  <2> SUFFICES ASSUME Straight' PROVE Straight /\ ~Leaps(sheet)
    OBVIOUS
  <2>1. \A i \in 1 .. Len(arrival) + 1 : ~Leaps(arrival'[i])
    BY <1>3 DEF Straight
  <2>2. \A i \in 1 .. Len(arrival) : i \in 1 .. Len(arrival) + 1
    BY <1>2
  <2>3. Len(arrival) + 1 \in 1 .. Len(arrival) + 1
    BY <1>2
  <2> QED
    BY <1>2, <1>3, <2>1, <2>2, <2>3 DEF Straight
<1> HIDE DEF new
<1>5. /\ AreRules(Merged(rules, new))
      /\ InOrder(rules) /\ Within(rules, Len(rules)) /\ InOrder(new) /\ Within(new, Len(new)) =>
           InOrder(Merged(rules, new)) /\ Within(Merged(rules, new), Len(Merged(rules, new)))
  BY <1>1, MergedIs DEF CssInv
<1>6. rules' = Merged(rules, new)
  BY DEF new
<1> QED
  BY <1>1, <1>2, <1>4, <1>5, <1>6 DEF CssInv

LEMMA CssStart == CssInit => CssInv
<1> SUFFICES ASSUME CssInit PROVE CssInv
  OBVIOUS
<1>1. AreSheets(embedded)
  <2>1. IsList(embedded) /\ \A sheet \in Range(embedded) : IsSheet(sheet)
    BY CssAssumption DEF CssInit
  <2> QED
    BY <2>1, ListShape DEF AreSheets
<1>2. AreFrames(loading, book) /\ IsList(arrival) /\ AreRules(rules)
  BY EmptyList DEF CssInit, AreFrames, AreRules
<1>3. InOrder(rules) /\ Within(rules, Len(rules))
  BY EmptyList DEF CssInit, InOrder, Within
<1> QED
  BY <1>1, <1>2, <1>3 DEF CssInit, CssInv

LEMMA CssKeeps == CssInv /\ [CssNext]_cssVars => CssInv'
<1> SUFFICES ASSUME CssInv, [CssNext]_cssVars PROVE CssInv'
  OBVIOUS
<1> USE DEF CssInv
<1>1. CASE LoadLinked
  <2>1. AreFrames(loading', book)
    <3>1. CASE UNCHANGED loading
      BY <3>1
    <3>2. CASE loading' # loading
      <4>1. Head(hrefs) \in DOMAIN book /\ Enter(Head(hrefs))
        BY <1>1, <3>2 DEF LoadLinked
      <4>2. loading' = Append(loading, [path |-> Head(hrefs), imports |-> ImportsOf(book[Head(hrefs)])])
        BY <3>2, <4>1 DEF Enter
      <4> QED
        BY <4>1, <4>2, FramesKept
    <3> QED
      BY <3>1, <3>2
  <2> QED
    BY <1>1, <2>1 DEF LoadLinked, Straight
<1>2. CASE LoadImport
  <2>1. AreFrames(loading', book)
    <3>1. CASE UNCHANGED loading
      BY <3>1
    <3>2. CASE loading' # loading
      <4> DEFINE path == Head(Innermost.imports)
                 rest == [loading EXCEPT ![Len(loading)].imports = Tail(@)]
      <4>1. loading # <<>> /\ ~Refused(path, Len(loading))
            /\ loading' = Append(rest, [path |-> path, imports |-> ImportsOf(book[path])])
        BY <1>2, <3>2 DEF LoadImport
      <4>2. path \in DOMAIN book
        BY <4>1, SheetOfBook DEF Refused
      <4>3. AreFrames(rest, book)
        BY <4>1, FramesKept
      <4> HIDE DEF rest, path
      <4> QED
        BY <4>1, <4>2, <4>3, FramesKept
    <3> QED
      BY <3>1, <3>2
  <2> QED
    BY <1>2, <2>1 DEF LoadImport, Straight
<1>3. CASE MergeSheet
  <2>1. Innermost.path \in DOMAIN book /\ AreFrames(loading', book)
    BY <1>3, FramesKept DEF MergeSheet, Innermost
  <2>2. IsSheet(book[Innermost.path])
    BY <2>1, SheetOfBook
  <2>3. rules' = Merged(rules, RulesOf(book[Innermost.path])) /\ arrival' = Append(arrival, book[Innermost.path])
        /\ UNCHANGED <<book, embedded>>
    BY <1>3 DEF MergeSheet
  <2>4. IsList(arrival') /\ AreRules(rules') /\ (Straight' => InOrder(rules') /\ Within(rules', Len(rules')))
    BY <2>2, <2>3, MergeKeeps
  <2> QED
    BY <2>1, <2>3, <2>4
<1>4. CASE MergeEmbedded
  <2>1. embedded # <<>> /\ embedded' = Tail(embedded) /\ UNCHANGED <<book, loading>>
    BY <1>4 DEF MergeEmbedded
  <2>2. AreSheets(embedded') /\ IsSheet(Head(embedded))
    <3>1. /\ Len(embedded) \in Nat \ {0} /\ IsList(embedded') /\ Len(embedded') = Len(embedded) - 1
          /\ \A i \in 1 .. Len(embedded) - 1 : embedded'[i] = embedded[i + 1]
          /\ Head(embedded) = embedded[1]
      BY <2>1, ListsCut DEF AreSheets
    <3> QED
      BY <3>1 DEF AreSheets
  <2>3. CASE UNCHANGED <<rules, arrival>>
    BY <2>1, <2>2, <2>3 DEF Straight
  <2>4. CASE rules' = Merged(rules, RulesOf(Head(embedded))) /\ arrival' = Append(arrival, Head(embedded))
    <3>1. IsList(arrival') /\ AreRules(rules') /\ (Straight' => InOrder(rules') /\ Within(rules', Len(rules')))
      BY <2>2, <2>4, MergeKeeps
    <3> QED
      BY <2>1, <2>2, <3>1
  <2> QED
    BY <1>4, <2>3, <2>4 DEF MergeEmbedded
<1>5. CASE LoadingDone
  BY <1>5 DEF LoadingDone, Straight
<1>6. CASE UNCHANGED cssVars
  BY <1>6 DEF cssVars, Straight
<1> QED
  BY <1>1, <1>2, <1>3, <1>4, <1>5, <1>6 DEF CssNext

-----------------------------------------------------------------------------
(* Specificity *)

Specificities == Nat \X Nat \X Nat

LEMMA SpecificityIs ==
  ASSUME NEW parts, IsKept(parts)
  PROVE  Specificity(parts) \in Specificities
<1>1. DOMAIN parts = 1 .. Len(parts) /\ Len(parts) \in Nat /\ IsFiniteSet(1 .. Len(parts))
  BY ListShape, FS_Interval DEF IsKept
<1>2. Cardinality({i \in DOMAIN parts : parts[i].id # NoId}) \in Nat
  <2>1. {i \in DOMAIN parts : parts[i].id # NoId} \in SUBSET (1 .. Len(parts))
    BY <1>1
  <2> QED
    BY <1>1, <2>1, FS_Subset, FS_CardinalityType
<1>3. Cardinality({i \in DOMAIN parts : parts[i].name # NoName}) \in Nat
  <2>1. {i \in DOMAIN parts : parts[i].name # NoName} \in SUBSET (1 .. Len(parts))
    BY <1>1
  <2> QED
    BY <1>1, <2>1, FS_Subset, FS_CardinalityType
<1>4. Cardinality(UNION {{i} \X parts[i].classes : i \in DOMAIN parts}) \in Nat
  <2> DEFINE D == 1 .. Len(parts)
             T == {{i} \X parts[i].classes : i \in D}
             f == [i \in D |-> {i} \X parts[i].classes]
  <2>1. f \in Surjection(D, T)
    BY DEF Surjection
  <2>2. IsFiniteSet(T)
    BY <1>1, <2>1, FS_Surjection
  <2>3. \A t \in T : IsFiniteSet(t)
    <3> SUFFICES ASSUME NEW i \in D PROVE IsFiniteSet({i} \X parts[i].classes)
      OBVIOUS
    <3>1. IsFiniteSet({i}) /\ IsFiniteSet(parts[i].classes)
      BY FS_Singleton DEF IsKept
    <3> QED
      BY <3>1, FS_Product
  <2> HIDE DEF T
  <2>4. Cardinality(UNION T) \in Nat
    BY <2>2, <2>3, FS_UNION, FS_CardinalityType
  <2> QED
    BY <1>1, <2>4 DEF T
<1> QED
  BY <1>2, <1>3, <1>4 DEF Specificity, Specificities

\* More specific is a total order.
LEMMA AtLeastOrders ==
  ASSUME NEW a \in Specificities, NEW b \in Specificities, NEW c \in Specificities
  PROVE  /\ AtLeast(a, b) \/ AtLeast(b, a)
         /\ AtLeast(a, b) /\ AtLeast(b, a) => a = b
         /\ AtLeast(a, b) /\ AtLeast(b, c) => AtLeast(a, c)
<1> USE DEF Specificities, AtLeast
<1>1. /\ a[1] \in Nat /\ a[2] \in Nat /\ a[3] \in Nat /\ a = <<a[1], a[2], a[3]>>
      /\ b[1] \in Nat /\ b[2] \in Nat /\ b[3] \in Nat /\ b = <<b[1], b[2], b[3]>>
      /\ c[1] \in Nat /\ c[2] \in Nat /\ c[3] \in Nat
  OBVIOUS
<1>2. AtLeast(a, b) \/ AtLeast(b, a)
  BY <1>1
<1>3. ASSUME AtLeast(a, b), AtLeast(b, a) PROVE a = b
  <2>1. a[1] = b[1] /\ a[2] = b[2] /\ a[3] = b[3]
    BY <1>1, <1>3
  <2> QED
    BY <1>1, <2>1
<1>4. AtLeast(a, b) /\ AtLeast(b, c) => AtLeast(a, c)
  BY <1>1
<1> QED
  BY <1>2, <1>3, <1>4

-----------------------------------------------------------------------------
(* Candidates *)

IsCandidate(c) == c.important \in BOOLEAN /\ c.specificity \in Specificities /\ c.order \in Nat

LEMMA CandidatesOfAre ==
  ASSUME NEW rule, IsRule(rule), NEW s \in 1 .. Len(rule.selectors), NEW chain
  PROVE  LET list == CandidatesOf(rule, rule.selectors[s], chain) IN
         /\ IsList(list)
         /\ \A c \in Range(list) : /\ IsCandidate(c) /\ c.order = rule.order
                                   /\ \E d \in 1 .. Len(rule.declarations) : c.value = rule.declarations[d].values
<1> DEFINE parts == rule.selectors[s]
           D == rule.declarations
           all == [d \in DOMAIN D |-> Candidate(D[d], parts, rule.order)]
<1>1. AreSet(D) /\ rule.order \in Nat /\ Specificity(parts) \in Specificities
  BY SpecificityIs DEF IsRule
<1>2. DOMAIN D = 1 .. Len(D) /\ Len(D) \in Nat /\ \A d \in 1 .. Len(D) : D[d].important \in BOOLEAN
  BY <1>1, ListShape DEF AreSet, IsDeclaration
<1> HIDE DEF parts, D
<1>3. IsList(<<>>) /\ Range(<<>>) = {}
  BY EmptyList DEF Range
<1>4. \A d \in 1 .. Len(D) : /\ IsCandidate(Candidate(D[d], parts, rule.order))
                             /\ Candidate(D[d], parts, rule.order).order = rule.order
                             /\ Candidate(D[d], parts, rule.order).value = D[d].values
  BY <1>1, <1>2 DEF IsCandidate, Candidate
<1>5. all = [d \in 1 .. Len(D) |-> all[d]] /\ \A d \in 1 .. Len(D) : all[d] = Candidate(D[d], parts, rule.order)
  BY <1>2
<1> HIDE DEF all
<1>6. IsList(all) /\ Range(all) = {all[d] : d \in 1 .. Len(D)}
  BY <1>2, <1>5, ListMade
<1>7. CandidatesOf(rule, parts, chain) = <<>> \/ CandidatesOf(rule, parts, chain) = all
  BY DEF CandidatesOf, all, D
<1>8. \A c \in Range(all) : /\ IsCandidate(c) /\ c.order = rule.order
                            /\ \E d \in 1 .. Len(D) : c.value = D[d].values
  BY <1>4, <1>5, <1>6
<1> QED
  BY <1>3, <1>6, <1>7, <1>8 DEF parts, D

\* Those of one rule, of all its selectors.
OfRule(rule, chain) ==
  FlattenSeq([s \in DOMAIN rule.selectors |-> CandidatesOf(rule, rule.selectors[s], chain)])

LEMMA OfRuleAre ==
  ASSUME NEW rule, IsRule(rule), NEW chain
  PROVE  /\ IsList(OfRule(rule, chain))
         /\ \A c \in Range(OfRule(rule, chain)) :
              /\ IsCandidate(c) /\ c.order = rule.order
              /\ \E d \in 1 .. Len(rule.declarations) : c.value = rule.declarations[d].values
<1> DEFINE n == Len(rule.selectors)
           lists == [s \in DOMAIN rule.selectors |-> CandidatesOf(rule, rule.selectors[s], chain)]
           flat == OfRule(rule, chain)
<1>1. DOMAIN rule.selectors = 1 .. n /\ n \in Nat
  BY ListShape DEF IsRule
<1>2. lists = [s \in 1 .. n |-> lists[s]] /\ \A s \in 1 .. n : lists[s] = CandidatesOf(rule, rule.selectors[s], chain)
  BY <1>1
<1>3. flat = FlattenSeq(lists)
  BY DEF OfRule
<1> HIDE DEF lists, flat
<1>4. IsList(lists) /\ Len(lists) = n
  BY <1>1, <1>2, ListMade
<1>5. \A s \in 1 .. n :
        /\ IsList(lists[s])
        /\ \A c \in Range(lists[s]) : /\ IsCandidate(c) /\ c.order = rule.order
                                      /\ \E d \in 1 .. Len(rule.declarations) : c.value = rule.declarations[d].values
  <2> SUFFICES ASSUME NEW s \in 1 .. n
               PROVE  /\ IsList(lists[s])
                      /\ \A c \in Range(lists[s]) :
                           /\ IsCandidate(c) /\ c.order = rule.order
                           /\ \E d \in 1 .. Len(rule.declarations) : c.value = rule.declarations[d].values
    OBVIOUS
  <2> DEFINE one == CandidatesOf(rule, rule.selectors[s], chain)
  <2>1. /\ IsList(one)
        /\ \A c \in Range(one) : /\ IsCandidate(c) /\ c.order = rule.order
                                 /\ \E d \in 1 .. Len(rule.declarations) : c.value = rule.declarations[d].values
    BY CandidatesOfAre
  <2>2. lists[s] = one
    BY <1>2
  <2> HIDE DEF one
  <2> QED
    BY <2>1, <2>2
<1>6. IsList(flat) /\ \A i \in 1 .. Len(flat) : \E s \in 1 .. n : flat[i] \in Range(lists[s])
  BY <1>3, <1>4, <1>5, FlattenedList
<1>7. DOMAIN flat = 1 .. Len(flat)
  BY <1>6, ListShape
<1>8. \A c \in Range(flat) : \E s \in 1 .. n : c \in Range(lists[s])
  BY <1>6, <1>7 DEF Range
<1> QED
  BY <1>5, <1>6, <1>8 DEF flat

\* All that reach an element, in the order of the rules.
LEMMA CandidatesAre ==
  ASSUME NEW sheet, AreRules(sheet), NEW chain
  PROVE  LET list == Candidates(chain, sheet) IN
         /\ IsList(list)
         /\ \A i \in 1 .. Len(list) :
              /\ IsCandidate(list[i])
              /\ \E r \in 1 .. Len(sheet) : \E d \in 1 .. Len(sheet[r].declarations) :
                   list[i].value = sheet[r].declarations[d].values
         /\ InOrder(sheet) => InOrder(list)
<1> DEFINE n == Len(sheet)
           lists == [r \in DOMAIN sheet |-> OfRule(sheet[r], chain)]
           list == Candidates(chain, sheet)
<1>1. DOMAIN sheet = 1 .. n /\ n \in Nat /\ \A r \in 1 .. n : IsRule(sheet[r])
  BY ListShape DEF AreRules
<1>2. lists = [r \in 1 .. n |-> lists[r]] /\ \A r \in 1 .. n : lists[r] = OfRule(sheet[r], chain)
  BY <1>1
<1>3. list = FlattenSeq(lists)
  BY Zenon DEF Candidates, OfRule
<1> HIDE DEF lists, list
<1>4. IsList(lists) /\ Len(lists) = n
  BY <1>1, <1>2, ListMade
<1>5. \A r \in 1 .. n : IsList(lists[r])
  BY <1>1, <1>2, OfRuleAre
<1>6. Gathered(list, lists, n)
  <2>1. \A r \in 1 .. Len(lists) : IsList(lists[r])
    BY <1>4, <1>5
  <2>2. Gathered(FlattenSeq(lists), lists, Len(lists))
    BY <1>4, <2>1, Flattened
  <2> QED
    BY <1>3, <1>4, <2>2
<1>7. PICK from \in [1 .. Len(list) -> 1 .. n] :
               /\ \A i \in 1 .. Len(list) : list[i] \in Range(lists[from[i]])
               /\ \A i, j \in 1 .. Len(list) : i <= j => from[i] <= from[j]
  BY <1>6 DEF Gathered
<1>8. \A i \in 1 .. Len(list) :
        /\ IsCandidate(list[i]) /\ list[i].order = sheet[from[i]].order
        /\ \E d \in 1 .. Len(sheet[from[i]].declarations) : list[i].value = sheet[from[i]].declarations[d].values
  <2> SUFFICES ASSUME NEW i \in 1 .. Len(list)
               PROVE  /\ IsCandidate(list[i]) /\ list[i].order = sheet[from[i]].order
                      /\ \E d \in 1 .. Len(sheet[from[i]].declarations) :
                           list[i].value = sheet[from[i]].declarations[d].values
    OBVIOUS
  <2>1. from[i] \in 1 .. n /\ list[i] \in Range(lists[from[i]])
    BY <1>7
  <2> QED
    BY <1>1, <1>2, <2>1, OfRuleAre
<1>9. InOrder(sheet) => InOrder(list)
  BY <1>7, <1>8, SMTT(60) DEF InOrder
<1> QED
  BY <1>6, <1>7, <1>8, <1>9 DEF list, Gathered

-----------------------------------------------------------------------------
(* Winners *)

NextWinner(start, candidates, k, w) == IF k = 0 THEN start ELSE Taken(w[k - 1], candidates[k])

LEMMA WinnersExist ==
  ASSUME NEW start, NEW candidates, NEW n \in Nat
  PROVE  \E w : w = [k \in 0 .. n |-> NextWinner(start, candidates, k, w)]
<1> DEFINE Upto(m) == \E w : w = [k \in 0 .. m |-> NextWinner(start, candidates, k, w)]
           S == {m \in Nat : Upto(m)}
<1>1. 0 \in S
  <2> DEFINE w == [k \in 0 .. 0 |-> start]
  <2>1. w = [k \in 0 .. 0 |-> NextWinner(start, candidates, k, w)]
    BY DEF NextWinner
  <2> HIDE DEF w
  <2>2. Upto(0)
    BY <2>1
  <2> QED
    BY <2>2
<1>2. ASSUME NEW m \in Nat, m \in S PROVE m + 1 \in S
  <2>1. PICK w : w = [k \in 0 .. m |-> NextWinner(start, candidates, k, w)]
    BY <1>2
  <2> DEFINE more == [k \in 0 .. m + 1 |-> IF k \in 0 .. m THEN w[k] ELSE NextWinner(start, candidates, k, w)]
  <2>2. ASSUME NEW k \in 0 .. m + 1 PROVE more[k] = NextWinner(start, candidates, k, more)
    <3>1. more[k] = NextWinner(start, candidates, k, w)
      BY <2>1
    <3>2. k # 0 => k - 1 \in 0 .. m /\ more[k - 1] = w[k - 1]
      OBVIOUS
    <3> QED
      BY <3>1, <3>2 DEF NextWinner
  <2>3. more = [k \in 0 .. m + 1 |-> NextWinner(start, candidates, k, more)]
    BY <2>2
  <2> HIDE DEF more
  <2>4. Upto(m + 1)
    BY <2>3
  <2> QED
    BY <2>4
<1> HIDE DEF S
<1>3. Nat \subseteq S
  BY <1>1, <1>2, Induction
<1> QED
  BY <1>3 DEF S

LEMMA WinnersBy ==
  ASSUME NEW start, NEW candidates, Len(candidates) \in Nat
  PROVE  \E w : /\ w[0] = start
                /\ \A k \in 0 .. Len(candidates) : k # 0 => w[k] = Taken(w[k - 1], candidates[k])
                /\ Winners(start, candidates) = w[Len(candidates)]
<1> DEFINE w == CHOOSE f : f = [k \in 0 .. Len(candidates) |-> NextWinner(start, candidates, k, f)]
<1>1. \E f : f = [k \in 0 .. Len(candidates) |-> NextWinner(start, candidates, k, f)]
  BY WinnersExist
<1>2. w = [k \in 0 .. Len(candidates) |-> NextWinner(start, candidates, k, w)]
  BY <1>1
<1>3. Winners(start, candidates) = w[Len(candidates)]
  BY Zenon DEF Winners, NextWinner
<1> HIDE DEF w
<1>4. w[0] = start /\ \A k \in 0 .. Len(candidates) : k # 0 => w[k] = Taken(w[k - 1], candidates[k])
  BY <1>2 DEF NextWinner
<1> QED
  BY <1>3, <1>4

LEMMA TakenIs ==
  ASSUME NEW winners, NEW c
  PROVE  /\ DOMAIN Taken(winners, c) = DOMAIN winners \cup {c.property}
         /\ \A p \in DOMAIN winners : p # c.property => Taken(winners, c)[p] = winners[p]
         /\ Taken(winners, c)[c.property] =
              IF c.property \in DOMAIN winners /\ ~Wins(c, winners[c.property]) THEN winners[c.property] ELSE c
BY DEF Taken, WithValue

\* What Best asks of the i-th candidate, against the j-th.
BeatsIn(candidates, i, j) ==
  LET a == candidates[i] b == candidates[j] IN
  IF a.important # b.important THEN a.important
  ELSE IF a.specificity # b.specificity THEN AtLeast(a.specificity, b.specificity) ELSE i >= j

LEMMA BeatsItself ==
  ASSUME NEW list, NEW k \in Nat
  PROVE  BeatsIn(list, k, k)
BY DEF BeatsIn

\* A later candidate wins exactly when it beats the earlier one, and beating is transitive.
LEMMA WinsBeats ==
  ASSUME NEW list, NEW n \in Nat, \A i \in 1 .. n : IsCandidate(list[i]),
         \A i, j \in 1 .. n : i <= j => list[i].order <= list[j].order,
         NEW i \in 1 .. n, NEW k \in 1 .. n, i <= k
  PROVE  /\ BeatsIn(list, k, k)
         /\ i < k /\ ~Wins(list[k], list[i]) => BeatsIn(list, i, k)
         /\ Wins(list[k], list[i]) => BeatsIn(list, k, i)
         /\ \A j \in 1 .. n : BeatsIn(list, k, i) /\ BeatsIn(list, i, j) /\ j <= k => BeatsIn(list, k, j)
<1>1. /\ IsCandidate(list[i]) /\ IsCandidate(list[k]) /\ list[i].order <= list[k].order
  OBVIOUS
<1>2. i \in Nat /\ k \in Nat
  OBVIOUS
<1>3. i < k /\ ~Wins(list[k], list[i]) => BeatsIn(list, i, k)
  <2>1. AtLeast(list[i].specificity, list[k].specificity) \/ AtLeast(list[k].specificity, list[i].specificity)
    BY <1>1, AtLeastOrders DEF IsCandidate
  <2> HIDE DEF AtLeast
  <2> QED
    BY <1>1, <2>1 DEF Wins, BeatsIn, IsCandidate
<1>4. Wins(list[k], list[i]) => BeatsIn(list, k, i)
  BY <1>1, <1>2 DEF Wins, BeatsIn, IsCandidate
<1>5. ASSUME NEW j \in 1 .. n, BeatsIn(list, k, i), BeatsIn(list, i, j), j <= k PROVE BeatsIn(list, k, j)
  <2>1. IsCandidate(list[j])
    OBVIOUS
  <2> DEFINE a == list[k].specificity b == list[i].specificity c == list[j].specificity
  <2>2. AtLeast(a, b) /\ AtLeast(b, c) => AtLeast(a, c)
    BY <1>1, <2>1, AtLeastOrders DEF IsCandidate
  <2>3. AtLeast(a, b) /\ AtLeast(b, a) => a = b
    BY <1>1, <2>1, AtLeastOrders DEF IsCandidate
  <2> QED
    BY <1>1, <1>5, <2>1, <2>2, <2>3 DEF BeatsIn, IsCandidate
<1>6. BeatsIn(list, k, k)
  BY <1>2 DEF BeatsIn
<1> QED
  BY <1>3, <1>4, <1>5, <1>6

\* Of the first k, the i-th beats all with its property.
IsBest(list, k, p, c) ==
  \E i \in 1 .. k :
    c = list[i] /\ list[i].property = p /\ \A j \in 1 .. k : list[j].property = p => BeatsIn(list, i, j)

LEMMA BestGoesOn ==
  ASSUME NEW list, NEW n \in Nat, \A i \in 1 .. n : IsCandidate(list[i]),
         \A i, j \in 1 .. n : i <= j => list[i].order <= list[j].order,
         NEW k \in 0 .. n, k + 1 \in 0 .. n,
         NEW w, DOMAIN w = {list[j].property : j \in 1 .. k}, \A p \in DOMAIN w : IsBest(list, k, p, w[p])
  PROVE  LET next == Taken(w, list[k + 1]) IN
         DOMAIN next = {list[j].property : j \in 1 .. k + 1} /\ \A p \in DOMAIN next : IsBest(list, k + 1, p, next[p])
<1> DEFINE c == list[k + 1]
           next == Taken(w, c)
<1>1. /\ DOMAIN next = DOMAIN w \cup {c.property}
      /\ \A p \in DOMAIN w : p # c.property => next[p] = w[p]
      /\ next[c.property] = IF c.property \in DOMAIN w /\ ~Wins(c, w[c.property]) THEN w[c.property] ELSE c
  <2> HIDE DEF c
  <2> QED
    BY TakenIs
<1>2. k + 1 \in 1 .. n /\ \A j \in 1 .. k + 1 : j = k + 1 \/ j \in 1 .. k
  OBVIOUS
<1>3. \A j \in 1 .. k : j \in 1 .. n /\ j < k + 1 /\ j \in 1 .. k + 1
  BY <1>2
<1> HIDE DEF next
<1>4. DOMAIN next = {list[j].property : j \in 1 .. k + 1}
  BY <1>1, <1>2, <1>3
<1>5. ASSUME NEW p \in DOMAIN next PROVE IsBest(list, k + 1, p, next[p])
  <2>1. CASE p # c.property
    <3>1. p \in DOMAIN w /\ next[p] = w[p]
      BY <1>1, <2>1
    <3>2. PICK i \in 1 .. k : /\ w[p] = list[i] /\ list[i].property = p
                              /\ \A j \in 1 .. k : list[j].property = p => BeatsIn(list, i, j)
      BY <3>1 DEF IsBest
    <3>3. \A j \in 1 .. k + 1 : list[j].property = p => BeatsIn(list, i, j)
      BY <1>2, <2>1, <3>2
    <3> QED
      BY <1>3, <3>1, <3>2, <3>3 DEF IsBest
  <2>2. CASE p = c.property /\ p \notin DOMAIN w
    <3>1. next[p] = c /\ \A j \in 1 .. k : list[j].property # p
      BY <1>1, <2>2
    <3>2. BeatsIn(list, k + 1, k + 1)
      BY BeatsItself
    <3>3. \A j \in 1 .. k + 1 : list[j].property = p => BeatsIn(list, k + 1, j)
      BY <1>2, <3>1, <3>2
    <3>4. k + 1 \in 1 .. k + 1
      BY <1>2
    <3> QED
      BY <2>2, <3>1, <3>3, <3>4 DEF IsBest
  <2>3. CASE p = c.property /\ p \in DOMAIN w
    <3>1. PICK i \in 1 .. k : /\ w[p] = list[i] /\ list[i].property = p
                              /\ \A j \in 1 .. k : list[j].property = p => BeatsIn(list, i, j)
      BY <2>3 DEF IsBest
    <3>2. i \in 1 .. n /\ i < k + 1 /\ i <= k + 1 /\ i \in 1 .. k + 1 /\ k + 1 \in 1 .. k + 1
      BY <1>2, <1>3
    <3>3. /\ BeatsIn(list, k + 1, k + 1)
          /\ ~Wins(c, list[i]) => BeatsIn(list, i, k + 1)
          /\ Wins(c, list[i]) => BeatsIn(list, k + 1, i)
          /\ \A j \in 1 .. n : BeatsIn(list, k + 1, i) /\ BeatsIn(list, i, j) /\ j <= k + 1 => BeatsIn(list, k + 1, j)
      BY <1>2, <3>2, WinsBeats
    <3>4. CASE Wins(c, list[i])
      <4>1. next[p] = c
        BY <1>1, <2>3, <3>1, <3>4
      <4>2. \A j \in 1 .. k + 1 : list[j].property = p => BeatsIn(list, k + 1, j)
        <5> SUFFICES ASSUME NEW j \in 1 .. k + 1, list[j].property = p PROVE BeatsIn(list, k + 1, j)
          OBVIOUS
        <5>1. CASE j \in 1 .. k
          BY <1>3, <3>1, <3>3, <3>4, <5>1
        <5>2. CASE j = k + 1
          BY <3>3, <5>2
        <5> QED
          BY <1>2, <5>1, <5>2
      <4> QED
        BY <2>3, <3>2, <4>1, <4>2 DEF IsBest
    <3>5. CASE ~Wins(c, list[i])
      <4>1. next[p] = list[i]
        BY <1>1, <2>3, <3>1, <3>5
      <4>2. \A j \in 1 .. k + 1 : list[j].property = p => BeatsIn(list, i, j)
        BY <1>2, <3>1, <3>3, <3>5
      <4> QED
        BY <3>1, <3>2, <4>1, <4>2 DEF IsBest
    <3> QED
      BY <3>4, <3>5
  <2> QED
    BY <2>1, <2>2, <2>3
<1> QED
  BY <1>4, <1>5 DEF next

\* Starting from nothing, what wins is the best of the candidates.
LEMMA WinnersAreBest ==
  ASSUME NEW list, IsList(list), \A i \in 1 .. Len(list) : IsCandidate(list[i]), InOrder(list),
         NEW start, DOMAIN start = {}
  PROVE  /\ DOMAIN Winners(start, list) = {list[j].property : j \in 1 .. Len(list)}
         /\ \A p \in DOMAIN Winners(start, list) : IsBest(list, Len(list), p, Winners(start, list)[p])
<1> DEFINE n == Len(list)
<1>1. n \in Nat /\ \A i, j \in 1 .. n : i <= j => list[i].order <= list[j].order
  BY ListShape DEF InOrder
<1>2. PICK w : /\ w[0] = start
               /\ \A k \in 0 .. n : k # 0 => w[k] = Taken(w[k - 1], list[k])
               /\ Winners(start, list) = w[n]
  <2>1. Len(list) \in Nat
    BY <1>1
  <2> QED
    BY ONLY <2>1, WinnersBy
<1> DEFINE Good(k) == DOMAIN w[k] = {list[j].property : j \in 1 .. k} /\ \A p \in DOMAIN w[k] : IsBest(list, k, p, w[k][p])
           S == {k \in 0 .. n : Good(k)}
<1>3. 0 \in S
  <2>1. {list[j].property : j \in 1 .. 0} = {}
    OBVIOUS
  <2>2. 0 \in 0 .. n
    BY <1>1
  <2> QED
    BY <1>2, <2>1, <2>2
<1> HIDE DEF n
<1>4. ASSUME NEW k \in 0 .. n, k + 1 \in 0 .. n, k \in S PROVE k + 1 \in S
  <2>1. DOMAIN w[k] = {list[j].property : j \in 1 .. k} /\ \A p \in DOMAIN w[k] : IsBest(list, k, p, w[k][p])
    BY <1>4
  <2>2. w[k + 1] = Taken(w[k], list[k + 1])
    <3>1. k + 1 # 0 /\ (k + 1) - 1 = k
      BY <1>1
    <3> QED
      BY <1>2, <1>4, <3>1
  <2>3. \A i \in 1 .. n : IsCandidate(list[i])
    BY DEF n
  <2> DEFINE next == Taken(w[k], list[k + 1])
  <2>4. DOMAIN next = {list[j].property : j \in 1 .. k + 1} /\ \A p \in DOMAIN next : IsBest(list, k + 1, p, next[p])
    BY <1>1, <1>4, <2>1, <2>3, BestGoesOn
  <2> HIDE DEF next
  <2>5. Good(k + 1)
    BY <2>2, <2>4 DEF next
  <2> QED
    BY <1>4, <2>5
<1> HIDE DEF S
<1>5. 0 .. n \subseteq S
  BY <1>1, <1>3, <1>4, UpTo
<1>6. n \in S
  BY <1>1, <1>5
<1>7. Good(n)
  BY <1>6 DEF S
<1> QED
  BY <1>2, <1>7 DEF n

\* The same, of importance and specificity alone, whatever the order.
LEMMA StrongerOrders ==
  ASSUME NEW a, NEW b, NEW c, IsCandidate(a), IsCandidate(b), IsCandidate(c)
  PROVE  /\ ~Stronger(a, a)
         /\ Wins(a, b) => ~Stronger(b, a)
         /\ ~Wins(a, b) => ~Stronger(a, b)
         /\ ~Stronger(b, a) /\ ~Stronger(c, b) => ~Stronger(c, a)
<1> DEFINE x == a.specificity y == b.specificity z == c.specificity
<1>1. /\ x \in Specificities /\ y \in Specificities /\ z \in Specificities
      /\ a.important \in BOOLEAN /\ b.important \in BOOLEAN /\ c.important \in BOOLEAN
  BY DEF IsCandidate
<1>2. /\ AtLeast(x, y) \/ AtLeast(y, x)
      /\ AtLeast(y, z) \/ AtLeast(z, y)
      /\ AtLeast(x, y) /\ AtLeast(y, x) => x = y
      /\ AtLeast(y, z) /\ AtLeast(z, y) => y = z
      /\ AtLeast(z, x) /\ AtLeast(x, z) => x = z
      /\ AtLeast(x, y) /\ AtLeast(y, z) => AtLeast(x, z)
  BY <1>1, AtLeastOrders
<1>3. ~Stronger(a, a)
  BY DEF Stronger
<1>4. Wins(a, b) => ~Stronger(b, a)
  BY <1>1, <1>2 DEF Stronger, Wins
<1>5. ~Wins(a, b) => ~Stronger(a, b)
  BY <1>1, <1>2 DEF Stronger, Wins
<1>6. ~Stronger(b, a) /\ ~Stronger(c, b) => ~Stronger(c, a)
  BY <1>1, <1>2 DEF Stronger
<1> QED
  BY <1>3, <1>4, <1>5, <1>6

\* Of the first k, none with its property is stronger than the i-th.
IsStrongest(list, k, p, c) ==
  \E i \in 1 .. k :
    c = list[i] /\ list[i].property = p /\ \A j \in 1 .. k : list[j].property = p => ~Stronger(list[j], list[i])

LEMMA StrongestGoesOn ==
  ASSUME NEW list, NEW n \in Nat, \A i \in 1 .. n : IsCandidate(list[i]),
         NEW k \in 0 .. n, k + 1 \in 0 .. n,
         NEW w, DOMAIN w = {list[j].property : j \in 1 .. k}, \A p \in DOMAIN w : IsStrongest(list, k, p, w[p])
  PROVE  LET next == Taken(w, list[k + 1]) IN
         /\ DOMAIN next = {list[j].property : j \in 1 .. k + 1}
         /\ \A p \in DOMAIN next : IsStrongest(list, k + 1, p, next[p])
<1> DEFINE c == list[k + 1]
           next == Taken(w, c)
<1>1. /\ DOMAIN next = DOMAIN w \cup {c.property}
      /\ \A p \in DOMAIN w : p # c.property => next[p] = w[p]
      /\ next[c.property] = IF c.property \in DOMAIN w /\ ~Wins(c, w[c.property]) THEN w[c.property] ELSE c
  <2> HIDE DEF c
  <2> QED
    BY TakenIs
<1>2. k + 1 \in 1 .. n /\ k + 1 \in 1 .. k + 1 /\ \A j \in 1 .. k + 1 : j = k + 1 \/ j \in 1 .. k
  OBVIOUS
<1>3. \A j \in 1 .. k : j \in 1 .. n /\ j \in 1 .. k + 1
  BY <1>2
<1> HIDE DEF next
<1>4. DOMAIN next = {list[j].property : j \in 1 .. k + 1}
  BY <1>1, <1>2, <1>3
<1>5. ASSUME NEW p \in DOMAIN next PROVE IsStrongest(list, k + 1, p, next[p])
  <2>1. CASE p # c.property
    <3>1. p \in DOMAIN w /\ next[p] = w[p]
      BY <1>1, <2>1
    <3>2. PICK i \in 1 .. k : /\ w[p] = list[i] /\ list[i].property = p
                              /\ \A j \in 1 .. k : list[j].property = p => ~Stronger(list[j], list[i])
      BY <3>1 DEF IsStrongest
    <3>3. \A j \in 1 .. k + 1 : list[j].property = p => ~Stronger(list[j], list[i])
      BY <1>2, <2>1, <3>2
    <3> QED
      BY <1>3, <3>1, <3>2, <3>3 DEF IsStrongest
  <2>2. CASE p = c.property /\ p \notin DOMAIN w
    <3>1. next[p] = c /\ \A j \in 1 .. k : list[j].property # p
      BY <1>1, <2>2
    <3>2. ~Stronger(c, c)
      BY <1>2, StrongerOrders
    <3>3. \A j \in 1 .. k + 1 : list[j].property = p => ~Stronger(list[j], c)
      BY <1>2, <3>1, <3>2
    <3> QED
      BY <1>2, <2>2, <3>1, <3>3 DEF IsStrongest
  <2>3. CASE p = c.property /\ p \in DOMAIN w
    <3>1. PICK i \in 1 .. k : /\ w[p] = list[i] /\ list[i].property = p
                              /\ \A j \in 1 .. k : list[j].property = p => ~Stronger(list[j], list[i])
      BY <2>3 DEF IsStrongest
    <3>2. IsCandidate(c) /\ IsCandidate(list[i]) /\ \A j \in 1 .. k : IsCandidate(list[j])
      BY <1>2, <1>3
    <3>3. /\ ~Stronger(c, c)
          /\ ~Wins(c, list[i]) => ~Stronger(c, list[i])
          /\ \A j \in 1 .. k : Wins(c, list[i]) /\ ~Stronger(list[j], list[i]) => ~Stronger(list[j], c)
      <4> HIDE DEF c
      <4> QED
        BY <3>2, StrongerOrders
    <3>4. CASE Wins(c, list[i])
      <4>1. next[p] = c
        BY <1>1, <2>3, <3>1, <3>4
      <4>2. \A j \in 1 .. k + 1 : list[j].property = p => ~Stronger(list[j], c)
        BY <1>2, <3>1, <3>3, <3>4
      <4> QED
        BY <1>2, <2>3, <4>1, <4>2 DEF IsStrongest
    <3>5. CASE ~Wins(c, list[i])
      <4>1. next[p] = list[i]
        BY <1>1, <2>3, <3>1, <3>5
      <4>2. \A j \in 1 .. k + 1 : list[j].property = p => ~Stronger(list[j], list[i])
        BY <1>2, <3>1, <3>3, <3>5
      <4> QED
        BY <1>3, <3>1, <4>1, <4>2 DEF IsStrongest
    <3> QED
      BY <3>4, <3>5
  <2> QED
    BY <2>1, <2>2, <2>3
<1> QED
  BY <1>4, <1>5 DEF next

\* Starting from nothing, what wins is among the strongest of the candidates.
LEMMA WinnersAreStrongest ==
  ASSUME NEW list, IsList(list), \A i \in 1 .. Len(list) : IsCandidate(list[i]),
         NEW start, DOMAIN start = {}
  PROVE  /\ DOMAIN Winners(start, list) = {list[j].property : j \in 1 .. Len(list)}
         /\ \A p \in DOMAIN Winners(start, list) : IsStrongest(list, Len(list), p, Winners(start, list)[p])
<1> DEFINE n == Len(list)
<1>1. n \in Nat
  BY ListShape
<1>2. PICK w : /\ w[0] = start
               /\ \A k \in 0 .. n : k # 0 => w[k] = Taken(w[k - 1], list[k])
               /\ Winners(start, list) = w[n]
  <2>1. Len(list) \in Nat
    BY <1>1
  <2> QED
    BY ONLY <2>1, WinnersBy
<1> DEFINE Good(k) == /\ DOMAIN w[k] = {list[j].property : j \in 1 .. k}
                      /\ \A p \in DOMAIN w[k] : IsStrongest(list, k, p, w[k][p])
           S == {k \in 0 .. n : Good(k)}
<1>3. 0 \in S
  <2>1. {list[j].property : j \in 1 .. 0} = {}
    OBVIOUS
  <2>2. 0 \in 0 .. n
    BY <1>1
  <2> QED
    BY <1>2, <2>1, <2>2
<1> HIDE DEF n
<1>4. ASSUME NEW k \in 0 .. n, k + 1 \in 0 .. n, k \in S PROVE k + 1 \in S
  <2>1. DOMAIN w[k] = {list[j].property : j \in 1 .. k} /\ \A p \in DOMAIN w[k] : IsStrongest(list, k, p, w[k][p])
    BY <1>4
  <2>2. w[k + 1] = Taken(w[k], list[k + 1])
    <3>1. k + 1 # 0 /\ (k + 1) - 1 = k
      BY <1>1
    <3> QED
      BY <1>2, <1>4, <3>1
  <2>3. \A i \in 1 .. n : IsCandidate(list[i])
    BY DEF n
  <2> DEFINE next == Taken(w[k], list[k + 1])
  <2>4. /\ DOMAIN next = {list[j].property : j \in 1 .. k + 1}
        /\ \A p \in DOMAIN next : IsStrongest(list, k + 1, p, next[p])
    BY <1>1, <1>4, <2>1, <2>3, StrongestGoesOn
  <2> HIDE DEF next
  <2>5. Good(k + 1)
    BY <2>2, <2>4 DEF next
  <2> QED
    BY <1>4, <2>5
<1> HIDE DEF S
<1>5. 0 .. n \subseteq S
  BY <1>1, <1>3, <1>4, UpTo
<1>6. n \in S
  BY <1>1, <1>5
<1>7. Good(n)
  BY <1>6 DEF S
<1> QED
  BY <1>2, <1>7 DEF n

LEMMA StrongestIs ==
  ASSUME NEW list, IsList(list), NEW p, NEW c, IsStrongest(list, Len(list), p, c)
  PROVE  c.value \in Strongest(list, p)
<1>1. DOMAIN list = 1 .. Len(list)
  BY ListShape
<1>2. PICK i \in 1 .. Len(list) :
               /\ c = list[i] /\ list[i].property = p
               /\ \A j \in 1 .. Len(list) : list[j].property = p => ~Stronger(list[j], list[i])
  BY DEF IsStrongest
<1> QED
  BY <1>1, <1>2 DEF Strongest

LEMMA BestIs ==
  ASSUME NEW list, IsList(list), NEW p, NEW c, IsBest(list, Len(list), p, c)
  PROVE  c.value \in Best(list, p)
<1>1. DOMAIN list = 1 .. Len(list)
  BY ListShape
<1>2. PICK i \in 1 .. Len(list) :
               /\ c = list[i] /\ list[i].property = p
               /\ \A j \in 1 .. Len(list) : list[j].property = p => BeatsIn(list, i, j)
  BY DEF IsBest
<1>3. Best(list, p) =
        LET mine == {k \in DOMAIN list : list[k].property = p} IN
        {list[k].value : k \in {k \in mine : \A j \in mine : BeatsIn(list, k, j)}}
  BY Zenon DEF Best, BeatsIn
<1> QED
  BY <1>1, <1>2, <1>3

\* What an element's own declarations change is what they name, and the last counts.
LEMMA OverriddenIs ==
  ASSUME NEW winners, NEW own, IsList(own)
  PROVE  LET style == Overridden(winners, own) IN
         /\ \A p \in DOMAIN style : p \in DOMAIN winners \/ InlineOf(own, p) # {}
         /\ \A p \in DOMAIN style : InlineOf(own, p) = {} => style[p] = winners[p].value
         /\ \A p \in DOMAIN style : InlineOf(own, p) # {} =>
              \E i \in InlineOf(own, p) : style[p] = own[i].values /\ \A j \in InlineOf(own, p) : j <= i
<1> DEFINE style == Overridden(winners, own)
<1>1. /\ DOMAIN style = DOMAIN winners \cup {own[i].property : i \in DOMAIN own}
      /\ \A p \in DOMAIN style :
           style[p] = IF InlineOf(own, p) = {} THEN winners[p].value ELSE own[Max(InlineOf(own, p))].values
  BY DEF Overridden, InlineOf
<1>2. ASSUME NEW p \in DOMAIN style, p \notin DOMAIN winners PROVE InlineOf(own, p) # {}
  BY <1>1, <1>2 DEF InlineOf
<1>3. ASSUME NEW p, InlineOf(own, p) # {}
      PROVE  Max(InlineOf(own, p)) \in InlineOf(own, p) /\ \A j \in InlineOf(own, p) : j <= Max(InlineOf(own, p))
  <2>1. DOMAIN own = 1 .. Len(own) /\ Len(own) \in Nat
    BY ListShape
  <2>2. InlineOf(own, p) \subseteq 1 .. Len(own)
    BY <2>1 DEF InlineOf
  <2> QED
    BY <1>3, <2>1, <2>2, MaxOf
<1> HIDE DEF style
<1>4. ASSUME NEW p \in DOMAIN style, InlineOf(own, p) # {}
      PROVE  \E i \in InlineOf(own, p) : style[p] = own[i].values /\ \A j \in InlineOf(own, p) : j <= i
  BY <1>1, <1>3, <1>4
<1> QED
  BY <1>1, <1>2, <1>4 DEF style

LEMMA ChainIs ==
  ASSUME NEW chain \in Elements
  PROVE  chain # <<>> /\ IsList(chain) /\ \A i \in 1 .. Len(chain) : IsDeclarations(chain[i].style)
<1>1. chain # <<>> /\ IsList(chain) /\ \A element \in Range(chain) : IsDeclarations(element.style)
  BY CssAssumption
<1> QED
  BY <1>1, ListShape

LEMMA InvGivesNearest == CssInv => NearestSuffices
<1> SUFFICES ASSUME CssInv, NEW chain \in Elements, NEW r \in DOMAIN rules, NEW s \in DOMAIN rules[r].selectors
             PROVE  SelectorMatches(rules[r].selectors[s], chain) <=> Embeds(rules[r].selectors[s], chain)
  BY DEF NearestSuffices
<1>1. IsRule(rules[r])
  BY ListShape DEF CssInv, AreRules
<1>2. IsKept(rules[r].selectors[s])
  BY <1>1, ListShape DEF IsRule
<1>3. IsMatch(rules[r].selectors[s], chain)
  BY <1>2, ChainIs DEF IsMatch, IsKept, IsList
<1> QED
  BY <1>3, NearestIsEnough

\* What is set inline and what is not, once the sheets are loaded.
LEMMA InlineIs ==
  ASSUME NEW chain \in Elements
  PROVE  LET list == Candidates(chain, rules)
             winners == Winners(Handed(NoStyle), list)
             own == Declarations(Last(chain).style)
             style == Cascade(chain, rules, NoStyle) IN
         /\ DOMAIN Handed(NoStyle) = {}
         /\ \A p \in DOMAIN style : InlineOf(own, p) = {} => p \in DOMAIN winners /\ style[p] = winners[p].value
         /\ \A p \in DOMAIN style : InlineOf(own, p) # {} =>
              \E i \in InlineOf(own, p) : style[p] = own[i].values /\ \A j \in InlineOf(own, p) : j <= i
<1> DEFINE winners == Winners(Handed(NoStyle), Candidates(chain, rules))
           own == Declarations(Last(chain).style)
<1>1. IsList(own)
  <2>1. /\ chain # <<>> /\ Len(chain) \in Nat /\ DOMAIN chain = 1 .. Len(chain)
        /\ \A i \in 1 .. Len(chain) : IsDeclarations(chain[i].style)
    BY ChainIs, ListShape
  <2>2. Len(chain) \in 1 .. Len(chain) /\ Last(chain) = chain[Len(chain)]
    BY <2>1, ChainIs, EmptySeq, LenProperties DEF IsList, Last
  <2>3. IsDeclarations(Last(chain).style)
    BY <2>1, <2>2
  <2> QED
    BY <2>3, DeclarationsAreSet DEF AreSet, own
<1>2. Cascade(chain, rules, NoStyle) = Overridden(winners, own)
  BY DEF Cascade
<1>3. DOMAIN Handed(NoStyle) = {}
  BY DEF Handed, NoStyle
<1> HIDE DEF winners, own
<1> QED
  BY <1>1, <1>2, <1>3, OverriddenIs DEF winners, own

LEMMA InvGivesStrongest == CssInv => StrongestWins
<1> SUFFICES ASSUME CssInv, css = "loaded", NEW chain \in Elements, NEW p \in DOMAIN Cascade(chain, rules, NoStyle)
             PROVE  LET style == Cascade(chain, rules, NoStyle) own == Declarations(Last(chain).style) IN
                    IF InlineOf(own, p) # {}
                    THEN \E i \in InlineOf(own, p) : style[p] = own[i].values /\ \A j \in InlineOf(own, p) : j <= i
                    ELSE style[p] \in Strongest(Candidates(chain, rules), p)
  BY DEF StrongestWins
<1> DEFINE list == Candidates(chain, rules)
           start == Handed(NoStyle)
           winners == Winners(start, list)
           own == Declarations(Last(chain).style)
           style == Cascade(chain, rules, NoStyle)
<1>1. IsList(list) /\ \A i \in 1 .. Len(list) : IsCandidate(list[i])
  BY CandidatesAre DEF CssInv
<1>2. /\ DOMAIN start = {}
      /\ InlineOf(own, p) = {} => p \in DOMAIN winners /\ style[p] = winners[p].value
      /\ InlineOf(own, p) # {} =>
           \E i \in InlineOf(own, p) : style[p] = own[i].values /\ \A j \in InlineOf(own, p) : j <= i
  BY InlineIs
<1> HIDE DEF list, start
<1>3. \A q \in DOMAIN winners : IsStrongest(list, Len(list), q, winners[q])
  BY <1>1, <1>2, WinnersAreStrongest
<1> HIDE DEF winners, own, style
<1>4. InlineOf(own, p) = {} => style[p] \in Strongest(list, p)
  BY <1>1, <1>2, <1>3, StrongestIs
<1> QED
  BY <1>2, <1>4 DEF style, list, own

LEMMA InvGivesLater == CssInv => LaterSheetWins
<1> SUFFICES ASSUME CssInv, \A i \in DOMAIN arrival : ~Leaps(arrival[i]), NEW chain \in Elements,
                    NEW p \in DOMAIN Cascade(chain, rules, NoStyle),
                    InlineOf(Declarations(Last(chain).style), p) = {}
             PROVE  Cascade(chain, rules, NoStyle)[p] \in Best(Candidates(chain, rules), p)
  BY DEF LaterSheetWins
<1> DEFINE list == Candidates(chain, rules)
           start == Handed(NoStyle)
           winners == Winners(start, list)
           style == Cascade(chain, rules, NoStyle)
<1>1. IsList(list) /\ InOrder(list) /\ \A i \in 1 .. Len(list) : IsCandidate(list[i])
  BY CandidatesAre DEF CssInv, Straight
<1>2. DOMAIN start = {} /\ p \in DOMAIN winners /\ style[p] = winners[p].value
  BY InlineIs
<1> HIDE DEF list, start
<1>3. \A q \in DOMAIN winners : IsBest(list, Len(list), q, winners[q])
  BY <1>1, <1>2, WinnersAreBest
<1> HIDE DEF winners, style
<1>4. style[p] \in Best(list, p)
  BY <1>1, <1>2, <1>3, BestIs
<1> QED
  BY <1>4 DEF style, list

(* However sheets import one another and whichever of them can be read, once *)
(* the styles of a chapter are loaded, matching a selector succeeds exactly  *)
(* when its parts fit the element and ancestors of it in order.  What wins   *)
(* is the last the style attribute says of it, even over what a sheet calls  *)
(* important; else a declaration of the sheets that none is stronger than by *)
(* importance, then specificity, and of equals the last in the order of the  *)
(* sheets, this last part unless some sheet has several imports.             *)
THEOREM CascadeIsSound == CssSpec => []CascadeSound
<1>1. CssInv => CascadeSound
  BY InvGivesNearest, InvGivesStrongest, InvGivesLater DEF CascadeSound
<1> QED
  BY <1>1, CssStart, CssKeeps, PTL DEF CssSpec

-----------------------------------------------------------------------------
(* What is inherited stands under what is declared *)

\* Any declaration beats what is handed down.
LEMMA HandedLoses ==
  ASSUME NEW inherited
  PROVE  /\ DOMAIN Handed(inherited) = DOMAIN inherited \cap Inherited
         /\ \A p \in DOMAIN Handed(inherited) :
              /\ Handed(inherited)[p].value = inherited[p]
              /\ \A c : IsCandidate(c) => Wins(c, Handed(inherited)[p])
<1> DEFINE low == [important |-> FALSE, specificity |-> <<0, 0, 0>>, order |-> 0]
<1>1. DOMAIN Handed(inherited) = DOMAIN inherited \cap Inherited
  BY DEF Handed
<1>2. ASSUME NEW p \in DOMAIN inherited \cap Inherited, NEW c, IsCandidate(c)
      PROVE  Wins(c, Handed(inherited)[p])
  <2> DEFINE h == Handed(inherited)[p]
  <2>1. h.important = FALSE /\ h.specificity = <<0, 0, 0>> /\ h.order = 0
    BY DEF Handed
  <2>2. c.specificity[1] \in Nat /\ c.specificity[2] \in Nat /\ c.specificity[3] \in Nat
    BY <1>2 DEF IsCandidate, Specificities
  <2> HIDE DEF h
  <2>3. AtLeast(c.specificity, h.specificity)
    BY <2>1, <2>2 DEF AtLeast
  <2>4. c.important \in BOOLEAN /\ c.order >= 0
    BY <1>2 DEF IsCandidate
  <2>5. CASE c.important # h.important
    BY <2>1, <2>4, <2>5 DEF Wins, h
  <2>6. CASE c.important = h.important
    BY <2>1, <2>3, <2>4, <2>6 DEF Wins, h
  <2> QED
    BY <2>5, <2>6
<1>3. \A p \in DOMAIN inherited \cap Inherited : Handed(inherited)[p].value = inherited[p]
  BY DEF Handed
<1> QED
  BY <1>1, <1>2, <1>3

\* What wins over something is what wins over nothing, and what is left of it.
Overlaid(full, bare, start) ==
  /\ DOMAIN full = DOMAIN bare \cup DOMAIN start
  /\ \A p \in DOMAIN full : full[p] = IF p \in DOMAIN bare THEN bare[p] ELSE start[p]

LEMMA OverlaidGoesOn ==
  ASSUME NEW full, NEW bare, NEW start, Overlaid(full, bare, start), NEW c,
         \A p \in DOMAIN start : Wins(c, start[p])
  PROVE  Overlaid(Taken(full, c), Taken(bare, c), start)
<1> DEFINE f == Taken(full, c)
           b == Taken(bare, c)
<1>1. /\ DOMAIN f = DOMAIN full \cup {c.property}
      /\ \A p \in DOMAIN full : p # c.property => f[p] = full[p]
      /\ f[c.property] = IF c.property \in DOMAIN full /\ ~Wins(c, full[c.property]) THEN full[c.property] ELSE c
  BY TakenIs
<1>2. /\ DOMAIN b = DOMAIN bare \cup {c.property}
      /\ \A p \in DOMAIN bare : p # c.property => b[p] = bare[p]
      /\ b[c.property] = IF c.property \in DOMAIN bare /\ ~Wins(c, bare[c.property]) THEN bare[c.property] ELSE c
  BY TakenIs
<1> HIDE DEF f, b
<1>3. f[c.property] = b[c.property]
  <2>1. CASE c.property \in DOMAIN bare
    BY <1>1, <1>2, <2>1 DEF Overlaid
  <2>2. CASE c.property \notin DOMAIN bare
    BY <1>1, <1>2, <2>2 DEF Overlaid
  <2> QED
    BY <2>1, <2>2
<1>4. DOMAIN f = DOMAIN b \cup DOMAIN start
  BY <1>1, <1>2 DEF Overlaid
<1>5. ASSUME NEW p \in DOMAIN f PROVE f[p] = IF p \in DOMAIN b THEN b[p] ELSE start[p]
  <2>1. CASE p = c.property
    BY <1>2, <1>3, <2>1
  <2>2. CASE p # c.property
    BY <1>1, <1>2, <2>2 DEF Overlaid
  <2> QED
    BY <2>1, <2>2
<1> QED
  BY <1>4, <1>5 DEF Overlaid, f, b

LEMMA WinnersOverlay ==
  ASSUME NEW list, IsList(list), NEW start, NEW none, DOMAIN none = {},
         \A i \in 1 .. Len(list) : \A p \in DOMAIN start : Wins(list[i], start[p])
  PROVE  Overlaid(Winners(start, list), Winners(none, list), start)
<1> DEFINE n == Len(list)
<1>1. n \in Nat
  BY ListShape
<1>2. PICK f : /\ f[0] = start
               /\ \A k \in 0 .. n : k # 0 => f[k] = Taken(f[k - 1], list[k])
               /\ Winners(start, list) = f[n]
  <2>1. Len(list) \in Nat
    BY <1>1
  <2> QED
    BY ONLY <2>1, WinnersBy
<1>3. PICK b : /\ b[0] = none
               /\ \A k \in 0 .. n : k # 0 => b[k] = Taken(b[k - 1], list[k])
               /\ Winners(none, list) = b[n]
  <2>1. Len(list) \in Nat
    BY <1>1
  <2> QED
    BY ONLY <2>1, WinnersBy
<1> DEFINE S == {k \in 0 .. n : Overlaid(f[k], b[k], start)}
<1>4. 0 \in S
  <2>1. 0 \in 0 .. n
    BY <1>1
  <2> QED
    BY <1>2, <1>3, <2>1 DEF Overlaid
<1> HIDE DEF n
<1>5. ASSUME NEW k \in 0 .. n, k + 1 \in 0 .. n, k \in S PROVE k + 1 \in S
  <2>1. k + 1 # 0 /\ (k + 1) - 1 = k /\ k + 1 \in 1 .. n
    BY <1>1, <1>5
  <2>2. f[k + 1] = Taken(f[k], list[k + 1]) /\ b[k + 1] = Taken(b[k], list[k + 1])
    BY <1>2, <1>3, <1>5, <2>1
  <2>3. \A p \in DOMAIN start : Wins(list[k + 1], start[p])
    BY <2>1 DEF n
  <2>4. Overlaid(Taken(f[k], list[k + 1]), Taken(b[k], list[k + 1]), start)
    BY <1>5, <2>3, OverlaidGoesOn
  <2> QED
    BY <1>5, <2>2, <2>4
<1> HIDE DEF S
<1>6. 0 .. n \subseteq S
  BY <1>1, <1>4, <1>5, UpTo
<1>7. n \in S
  BY <1>1, <1>6
<1>8. Overlaid(f[n], b[n], start)
  BY <1>7 DEF S
<1> QED
  BY <1>2, <1>3, <1>8 DEF n

\* A cascade over inherited values is the bare cascade, and under it what is inherited.
OverInherited(full, bare, inherited) ==
  /\ DOMAIN full = DOMAIN bare \cup (DOMAIN inherited \cap Inherited)
  /\ \A p \in DOMAIN full : full[p] = IF p \in DOMAIN bare THEN bare[p] ELSE inherited[p]

LEMMA CascadeOverlays ==
  ASSUME NEW sheet, AreRules(sheet), NEW chain, NEW inherited
  PROVE  OverInherited(Cascade(chain, sheet, inherited), Cascade(chain, sheet, NoStyle), inherited)
<1> DEFINE list == Candidates(chain, sheet)
           start == Handed(inherited)
           none == Handed(NoStyle)
           own == Declarations(Last(chain).style)
           f == Winners(start, list)
           b == Winners(none, list)
           bare == Cascade(chain, sheet, NoStyle)
           full == Cascade(chain, sheet, inherited)
<1>1. IsList(list) /\ \A i \in 1 .. Len(list) : IsCandidate(list[i])
  BY CandidatesAre
<1>2. DOMAIN none = {}
  BY DEF Handed, NoStyle
<1>3. full = Overridden(f, own) /\ bare = Overridden(b, own)
  BY DEF Cascade
<1> HIDE DEF list, own, none
<1>4. \A i \in 1 .. Len(list) : \A p \in DOMAIN start : Wins(list[i], start[p])
  BY <1>1, HandedLoses
<1>5. DOMAIN start = DOMAIN inherited \cap Inherited /\ \A p \in DOMAIN start : start[p].value = inherited[p]
  BY HandedLoses
<1> HIDE DEF start
<1>6. Overlaid(f, b, start)
  BY <1>1, <1>2, <1>4, WinnersOverlay
<1> HIDE DEF f, b, full, bare
<1> DEFINE named == {own[i].property : i \in DOMAIN own}
           at(p) == {i \in DOMAIN own : own[i].property = p}
<1>7. DOMAIN full = DOMAIN f \cup named /\ DOMAIN bare = DOMAIN b \cup named
  BY <1>3 DEF Overridden
<1>8. \A p \in DOMAIN full : full[p] = IF at(p) = {} THEN f[p].value ELSE own[Max(at(p))].values
  BY <1>3 DEF Overridden
<1>9. \A p \in DOMAIN bare : bare[p] = IF at(p) = {} THEN b[p].value ELSE own[Max(at(p))].values
  BY <1>3 DEF Overridden
<1>10. \A p : p \in named <=> at(p) # {}
  OBVIOUS
<1> HIDE DEF at, named
<1>11. DOMAIN full = DOMAIN bare \cup (DOMAIN inherited \cap Inherited)
  BY <1>5, <1>6, <1>7 DEF Overlaid
<1>12. ASSUME NEW p \in DOMAIN full PROVE full[p] = IF p \in DOMAIN bare THEN bare[p] ELSE inherited[p]
  <2>1. CASE p \in named
    BY <1>7, <1>8, <1>9, <1>10, <2>1
  <2>2. CASE p \notin named
    <3>1. p \in DOMAIN f /\ full[p] = f[p].value /\ (p \in DOMAIN bare <=> p \in DOMAIN b)
      BY <1>7, <1>8, <1>10, <2>2
    <3>2. p \in DOMAIN bare => bare[p] = b[p].value
      BY <1>9, <1>10, <2>2
    <3> QED
      BY <1>5, <1>6, <3>1, <3>2 DEF Overlaid
  <2> QED
    BY <2>1, <2>2
<1> QED
  BY <1>11, <1>12 DEF OverInherited, full, bare

\* What a property is given is a list of values that has a first.
AreValues(values) == values # <<>> /\ IsList(values) /\ \A value \in Range(values) : IsValue(value)

LEMMA FirstIsValue ==
  ASSUME NEW values, AreValues(values)
  PROVE  IsValue(values[1])
<1>1. Len(values) \in Nat /\ Len(values) # 0 /\ \A i \in 1 .. Len(values) : values[i] \in Range(values)
  BY ListShape, EmptySeq DEF AreValues
<1> QED
  BY <1>1 DEF AreValues

LEMMA SetIsValues ==
  ASSUME NEW list, AreSet(list), NEW i \in 1 .. Len(list)
  PROVE  AreValues(list[i].values)
BY DEF AreSet, AreValues, IsDeclaration

\* Whatever the orders, a winner is one of the candidates.
LEMMA WinnersAreCandidates ==
  ASSUME NEW list, IsList(list), NEW none, DOMAIN none = {}
  PROVE  LET winners == Winners(none, list) IN
         \A p \in DOMAIN winners : \E i \in 1 .. Len(list) : winners[p] = list[i]
<1> DEFINE n == Len(list)
<1>1. n \in Nat
  BY ListShape
<1>2. PICK w : /\ w[0] = none
               /\ \A k \in 0 .. n : k # 0 => w[k] = Taken(w[k - 1], list[k])
               /\ Winners(none, list) = w[n]
  <2>1. Len(list) \in Nat
    BY <1>1
  <2> QED
    BY ONLY <2>1, WinnersBy
<1> DEFINE Good(k) == \A p \in DOMAIN w[k] : \E i \in 1 .. n : w[k][p] = list[i]
           S == {k \in 0 .. n : Good(k)}
<1> HIDE DEF n
<1>3. 0 \in S
  BY <1>1, <1>2
<1>4. ASSUME NEW k \in 0 .. n, k + 1 \in 0 .. n, k \in S PROVE k + 1 \in S
  <2>1. k + 1 # 0 /\ (k + 1) - 1 = k /\ k + 1 \in 1 .. n
    BY <1>1, <1>4
  <2>2. w[k + 1] = Taken(w[k], list[k + 1])
    BY <1>2, <1>4, <2>1
  <2> DEFINE c == list[k + 1]
             next == w[k + 1]
             last == w[k]
  <2>4. Good(k)
    BY <1>4
  <2>6. next = Taken(last, c)
    BY <2>2
  <2> HIDE DEF c, next, last
  <2>3. /\ DOMAIN next = DOMAIN last \cup {c.property}
        /\ \A p \in DOMAIN last : p # c.property => next[p] = last[p]
        /\ next[c.property] = IF c.property \in DOMAIN last /\ ~Wins(c, last[c.property]) THEN last[c.property] ELSE c
    <3>1. /\ DOMAIN Taken(last, c) = DOMAIN last \cup {c.property}
          /\ \A p \in DOMAIN last : p # c.property => Taken(last, c)[p] = last[p]
          /\ Taken(last, c)[c.property] =
               IF c.property \in DOMAIN last /\ ~Wins(c, last[c.property]) THEN last[c.property] ELSE c
      BY ONLY TakenIs
    <3> QED
      BY ONLY <2>6, <3>1
  <2>5. \A p \in DOMAIN next : \E i \in 1 .. n : next[p] = list[i]
    BY <2>1, <2>3, <2>4 DEF c, last
  <2> QED
    BY <1>4, <2>5 DEF next
<1> HIDE DEF S
<1>5. 0 .. n \subseteq S
  BY <1>1, <1>3, <1>4, UpTo
<1>6. n \in S
  BY <1>1, <1>5
<1>7. Good(n)
  BY <1>6 DEF S
<1> QED
  BY <1>2, <1>7 DEF n

LEMMA CascadeIsValues ==
  ASSUME NEW sheet, AreRules(sheet), NEW chain, IsDeclarations(Last(chain).style)
  PROVE  LET bare == Cascade(chain, sheet, NoStyle) IN \A p \in DOMAIN bare : AreValues(bare[p])
<1> DEFINE list == Candidates(chain, sheet)
           none == Handed(NoStyle)
           own == Declarations(Last(chain).style)
           b == Winners(none, list)
           bare == Cascade(chain, sheet, NoStyle)
<1>1. /\ IsList(list)
      /\ \A i \in 1 .. Len(list) : \E r \in 1 .. Len(sheet) : \E d \in 1 .. Len(sheet[r].declarations) :
           list[i].value = sheet[r].declarations[d].values
  BY CandidatesAre
<1>2. DOMAIN none = {}
  BY DEF Handed, NoStyle
<1>3. bare = Overridden(b, own)
  BY DEF Cascade
<1>4. AreSet(own) /\ DOMAIN own = 1 .. Len(own) /\ Len(own) \in Nat
  BY DeclarationsAreSet, ListShape DEF AreSet
<1> HIDE DEF list, own, none
<1>5. \A i \in 1 .. Len(list) : AreValues(list[i].value)
  <2> SUFFICES ASSUME NEW i \in 1 .. Len(list) PROVE AreValues(list[i].value)
    OBVIOUS
  <2>1. PICK r \in 1 .. Len(sheet) : \E d \in 1 .. Len(sheet[r].declarations) :
               list[i].value = sheet[r].declarations[d].values
    BY <1>1
  <2>2. AreSet(sheet[r].declarations)
    BY DEF AreRules, IsRule
  <2> QED
    BY <2>1, <2>2, SetIsValues
<1>6. \A p \in DOMAIN b : \E i \in 1 .. Len(list) : b[p] = list[i]
  <2>1. IsList(list) /\ DOMAIN none = {}
    BY <1>1, <1>2
  <2> QED
    BY ONLY <2>1, WinnersAreCandidates
<1> HIDE DEF b, bare
<1> DEFINE at(p) == {i \in DOMAIN own : own[i].property = p}
<1>7. DOMAIN bare = DOMAIN b \cup {own[i].property : i \in DOMAIN own}
  BY <1>3 DEF Overridden
<1>8. \A p \in DOMAIN bare : bare[p] = IF at(p) = {} THEN b[p].value ELSE own[Max(at(p))].values
  BY <1>3 DEF Overridden
<1>9. ASSUME NEW p \in DOMAIN bare PROVE AreValues(bare[p])
  <2>1. CASE at(p) = {}
    <3>1. p \in DOMAIN b /\ bare[p] = b[p].value
      BY <1>7, <1>8, <2>1
    <3> QED
      BY <1>5, <1>6, <3>1
  <2>2. CASE at(p) # {}
    <3>1. at(p) \in SUBSET (1 .. Len(own))
      BY <1>4
    <3>2. bare[p] = own[Max(at(p))].values
      BY <1>8, <2>2
    <3> HIDE DEF at
    <3>3. Max(at(p)) \in 1 .. Len(own)
      BY <1>4, <2>2, <3>1, MaxOf
    <3> QED
      BY <1>4, <3>2, <3>3, SetIsValues
  <2> QED
    BY <2>1, <2>2
<1> QED
  BY <1>9 DEF bare

-----------------------------------------------------------------------------
(* Lengths *)

LEMMA GeometryIs ==
  /\ Padding = {"padding-top", "padding-right", "padding-bottom", "padding-left"}
  /\ Geometry = Padding \cup {"margin-top", "margin-right", "margin-bottom", "margin-left",
                              "text-indent", "letter-spacing"}
<1>1. \A a, b, c, d : Range(<<a, b, c, d>>) = {a, b, c, d}
  <2> TAKE a, b, c, d
  <2> DEFINE t == <<a, b, c, d>>
  <2>1. DOMAIN t = 1 .. 4 /\ t[1] = a /\ t[2] = b /\ t[3] = c /\ t[4] = d
    OBVIOUS
  <2> HIDE DEF t
  <2>2. Range(t) = {a, b, c, d}
    BY <2>1 DEF Range
  <2> QED
    BY <2>2 DEF t
<1>2. Padding = {"padding-top", "padding-right", "padding-bottom", "padding-left"}
  BY <1>1 DEF Padding, Sides
<1>3. Range(Sides("margin")) = {"margin-top", "margin-right", "margin-bottom", "margin-left"}
  BY <1>1 DEF Sides
<1> QED
  BY <1>2, <1>3 DEF Geometry

\* The lengths that are handed down.
HandedLengths == {"text-indent", "letter-spacing"}

LEMMA HandedLengthsAre ==
  /\ HandedLengths = Geometry \cap Inherited
  /\ HandedLengths \cap Padding = {}
  /\ \A p \in Geometry : p \notin {"font-size", "line-height", "direction", "-pagelet-locale", "font-style", "font-weight"}
  /\ "line-height" \notin Geometry
BY GeometryIs DEF HandedLengths, Inherited

LEMMA ScaledIs ==
  ASSUME NEW font \in Nat, NEW n \in Int
  PROVE  /\ (font * n) \div 100 \in Int
         /\ n >= 0 => (font * n) \div 100 >= 0
<1>1. font * n \in Int /\ (n >= 0 => font * n >= 0)
  OBVIOUS
<1> DEFINE x == font * n
<1> HIDE DEF x
<1>2. x \in Int => x \div 100 \in Int /\ (x >= 0 => x \div 100 >= 0)
  OBVIOUS
<1> QED
  BY <1>1, <1>2 DEF x

\* A value that resolving leaves alone, whatever the font.
FixedLength(v) ==
  \/ v = Px(v.n)
  \/ v.unit \notin {"em", "rem", "px"} /\ ~(v.unit = "number" /\ v.n = 0)

LEMMA AbsoluteIs ==
  ASSUME NEW p, NEW v, IsValue(v), NEW font \in Nat, NEW root \in Nat
  PROVE  LET a == Absolute(p, v, font, root) IN
         /\ IsValue(a)
         /\ a.unit \in {"em", "rem"} => p \in Padding /\ a.n < 0
         /\ p \notin Padding => FixedLength(a)
         /\ p \notin Padding /\ v.unit = "em" => a = Px((font * v.n) \div 100)
         /\ p \notin Padding /\ FixedLength(v) => a = v
<1> DEFINE a == Absolute(p, v, font, root)
           e == (font * v.n) \div 100
           r == (root * v.n) \div 100
<1>1. v.unit \in {"em", "rem", "px", "number"} => v.n \in Int
  BY DEF IsValue
<1>2. v.unit \in {"em", "rem"} => e \in Int /\ r \in Int /\ (v.n >= 0 => e >= 0 /\ r >= 0)
  BY <1>1, ScaledIs
<1> HIDE DEF e, r
<1>3. \A n : Px(n).unit = "px" /\ Px(n).n = n
  BY DEF Px
<1>4. CASE v.unit = "em"
  <2>1. a = IF p \in Padding => e >= 0 THEN Px(e) ELSE v
    BY <1>4 DEF Absolute, e
  <2> HIDE DEF a
  <2> QED
    BY <1>1, <1>2, <1>3, <1>4, <2>1 DEF FixedLength, IsValue, a, e
<1>5. CASE v.unit = "rem"
  <2>1. a = IF p \in Padding => r >= 0 THEN Px(r) ELSE v
    BY <1>5 DEF Absolute, r
  <2> HIDE DEF a
  <2> QED
    BY <1>1, <1>2, <1>3, <1>5, <2>1 DEF FixedLength, IsValue, a, r
<1>6. CASE v.unit = "px"
  <2>1. a = IF p \in Padding => v.n >= 0 THEN Px(v.n) ELSE v
    BY <1>6 DEF Absolute
  <2> HIDE DEF a
  <2> QED
    BY <1>1, <1>3, <1>6, <2>1 DEF FixedLength, IsValue, a
<1>7. CASE v.unit = "number" /\ v.n = 0
  <2>1. a = Px(0)
    BY <1>7 DEF Absolute
  <2> HIDE DEF a
  <2> QED
    BY <1>3, <1>7, <2>1 DEF FixedLength, IsValue, a
<1>8. CASE v.unit \notin {"em", "rem", "px"} /\ ~(v.unit = "number" /\ v.n = 0)
  <2>1. a = v
    BY <1>8 DEF Absolute
  <2> HIDE DEF a
  <2> QED
    BY <1>8, <2>1 DEF FixedLength, a
<1> QED
  BY <1>4, <1>5, <1>6, <1>7, <1>8

LEMMA CssLengthIs ==
  ASSUME NEW value, IsValue(value), NEW em \in Nat, NEW rem \in Nat, NEW percent \in Nat
  PROVE  CssLength(value, em, rem, percent) \in Nat \cup {Invalid}
<1>1. value.unit \in {"em", "rem", "%", "px"} => value.n \in Int
  BY DEF IsValue
<1> DEFINE l == CssLength(value, em, rem, percent)
<1>2. CASE value.unit \in {"em", "rem", "%", "px"} /\ value.n < 0
  BY <1>2 DEF CssLength
<1>3. CASE value.unit \in {"em", "rem", "%", "px"} /\ ~(value.n < 0)
  <2>1. value.n \in Nat /\ value.n \in Int /\ value.n >= 0
    BY <1>1, <1>3
  <2>2. /\ (em * value.n) \div 100 \in Nat /\ (rem * value.n) \div 100 \in Nat
        /\ (percent * value.n) \div 100 \in Nat
    BY <2>1, ScaledIs
  <2> DEFINE a == (em * value.n) \div 100 b == (rem * value.n) \div 100 c == (percent * value.n) \div 100
  <2>3. /\ value.unit = "em" => l = a
        /\ value.unit = "rem" => l = b
        /\ value.unit = "%" => l = c
        /\ value.unit = "px" => l = value.n
    BY <1>3 DEF CssLength
  <2> HIDE DEF l, a, b, c
  <2> QED
    BY <1>3, <2>1, <2>2, <2>3 DEF l, a, b, c
<1>4. CASE value.unit \notin {"em", "rem", "%", "px"}
  <2>1. l = 0 \/ l = Invalid
    BY <1>4 DEF CssLength
  <2> QED
    BY <2>1
<1> QED
  BY <1>2, <1>3, <1>4

LEMMA FontSizeIs ==
  ASSUME NEW value, IsValue(value), NEW parent \in Nat, NEW root \in Nat
  PROVE  FontSize(value, parent, root) \in Nat \cup {Invalid}
<1>1. CASE value.unit # "keyword"
  <2>1. FontSize(value, parent, root) = CssLength(value, parent, root, parent)
    BY <1>1 DEF FontSize
  <2> QED
    BY <2>1, CssLengthIs
<1>2. CASE value.unit = "keyword"
  <2>1. (parent * 80) \div 100 \in Nat /\ (parent * 120) \div 100 \in Nat
    BY ScaledIs
  <2>2. \A name \in DOMAIN FontKeyword : FontKeyword[name] \in Nat
    BY DEF FontKeyword
  <2> DEFINE small == (parent * 80) \div 100 large == (parent * 120) \div 100
  <2>3. FontSize(value, parent, root) \in {parent, small, large, Invalid}
        \/ (value.name \in DOMAIN FontKeyword /\ FontSize(value, parent, root) = FontKeyword[value.name])
    <3> HIDE DEF FontKeyword
    <3> QED
      BY <1>2 DEF FontSize
  <2> QED
    BY <2>1, <2>2, <2>3
<1> QED
  BY <1>1, <1>2

\* What is kept of a computed style.
IsStyled(s) ==
  /\ s.font.size \in Nat
  /\ \A p \in HandedLengths \cap DOMAIN s.style :
       \E v : s.style[p] = <<v>> /\ IsValue(v) /\ FixedLength(v)

LEMMA UserAgentIs ==
  ASSUME NEW name, NEW style, NEW p, p \notin {"font-style", "font-weight"}
  PROVE  LET s == UserAgent(name, style) IN
         (p \in DOMAIN s <=> p \in DOMAIN style) /\ (p \in DOMAIN style => s[p] = style[p])
<1>1. \A q, value : q # p => LET s == WithValue(style, q, value) IN
        (p \in DOMAIN s <=> p \in DOMAIN style) /\ (p \in DOMAIN style => s[p] = style[p])
  BY DEF WithValue
<1>2. "font-style" # p /\ "font-weight" # p
  OBVIOUS
<1>3. \/ UserAgent(name, style) = style
      \/ UserAgent(name, style) = WithValue(style, "font-style", <<Keyword("italic")>>)
      \/ UserAgent(name, style) = WithValue(style, "font-weight", <<Keyword("bold")>>)
  BY DEF UserAgent
<1> QED
  BY <1>1, <1>2, <1>3

\* Locale and direction leave other properties alone.
LEMMA LocaleIs ==
  ASSUME NEW style, NEW locale, NEW element, NEW authored, NEW p, p \notin {"-pagelet-locale", "direction"}
  PROVE  LET s == WithDirection(WithLocale(style, locale), element, authored) IN
         (p \in DOMAIN s <=> p \in DOMAIN style) /\ (p \in DOMAIN style => s[p] = style[p])
<1> DEFINE a == WithLocale(style, locale)
           s == WithDirection(a, element, authored)
<1>1. ASSUME NEW t, NEW q, NEW value, q # p
      PROVE  LET u == WithValue(t, q, value) IN
             (p \in DOMAIN u <=> p \in DOMAIN t) /\ (p \in DOMAIN t => u[p] = t[p])
  BY <1>1 DEF WithValue
<1>2. a = style \/ a = WithValue(style, "-pagelet-locale", locale)
  BY DEF WithLocale
<1> HIDE DEF a
<1>3. s = a \/ s = WithValue(a, "direction", <<Keyword(element.dir)>>)
  BY DEF WithDirection
<1> HIDE DEF s
<1>4. (p \in DOMAIN a <=> p \in DOMAIN style) /\ (p \in DOMAIN style => a[p] = style[p])
  BY <1>1, <1>2
<1>5. (p \in DOMAIN s <=> p \in DOMAIN a) /\ (p \in DOMAIN a => s[p] = a[p])
  BY <1>1, <1>3
<1> QED
  BY <1>4, <1>5 DEF s, a

LEMMA SizedIs ==
  ASSUME NEW style, NEW shown, NEW font, NEW root
  PROVE  LET own == Sized(style, shown, font, root) IN
         /\ own.font = font
         /\ \A p \in Geometry :
              /\ p \in DOMAIN own.style <=> p \in DOMAIN style
              /\ p \in DOMAIN style => own.style[p] = <<Absolute(p, style[p][1], font.size, root)>>
         /\ "line-height" \in shown => own.style["line-height"] = <<ShownLine(font.line, font.size)>>
<1> DEFINE t == WithFont(style, shown, font)
           g == WithGeometry(t, font.size, root)
           own == Sized(style, shown, font, root)
<1>1. own.font = font /\ own.style = g
  BY DEF Sized
<1>2. DOMAIN t = DOMAIN style \cup (shown \cap {"font-size", "line-height"})
  BY DEF WithFont
<1>3. \A p \in DOMAIN t : p \notin {"font-size", "line-height"} => t[p] = style[p]
  BY DEF WithFont
<1>4. "line-height" \in shown => t["line-height"] = <<ShownLine(font.line, font.size)>>
  BY DEF WithFont
<1> HIDE DEF t, own
<1>5. DOMAIN g = DOMAIN t
  BY DEF WithGeometry
<1>6. \A p \in DOMAIN t : g[p] = IF p \in Geometry THEN <<Absolute(p, t[p][1], font.size, root)>> ELSE t[p]
  BY DEF WithGeometry
<1> HIDE DEF g
<1>7. \A p \in Geometry : p \notin {"font-size", "line-height"}
  BY HandedLengthsAre
<1>8. \A p \in Geometry :
        /\ p \in DOMAIN g <=> p \in DOMAIN style
        /\ p \in DOMAIN style => g[p] = <<Absolute(p, style[p][1], font.size, root)>>
  BY <1>2, <1>3, <1>5, <1>6, <1>7
<1>9. "line-height" \in shown => g["line-height"] = <<ShownLine(font.line, font.size)>>
  BY <1>2, <1>4, <1>6, HandedLengthsAre
<1> QED
  BY <1>1, <1>8, <1>9 DEF own

LEMMA FontIs ==
  ASSUME NEW name, NEW authored, \A p \in DOMAIN authored : AreValues(authored[p]), NEW inherited,
         NEW parent, parent.size \in Nat, NEW root \in Nat
  PROVE  LET font == Font(name, authored, inherited, parent, root) IN
         /\ font.size \in Nat
         /\ "font-size" \notin DOMAIN authored => font.size = parent.size \/ "font-size" \notin DOMAIN inherited
         /\ "line-height" \notin DOMAIN authored /\ "line-height" \in DOMAIN inherited => font.line = parent.line
<1> DEFINE font == Font(name, authored, inherited, parent, root)
           ownSize == IF "font-size" \in DOMAIN authored THEN FontSize(authored["font-size"][1], parent.size, root)
                      ELSE Invalid
           size == SizeOf(name, inherited, parent, ownSize)
<1>1. ownSize \in Nat \cup {Invalid} /\ ("font-size" \notin DOMAIN authored => ownSize = Invalid)
  BY FontSizeIs, FirstIsValue
<1>2. font.size = size
  BY DEF Font, FontOf
<1>3. "line-height" \notin DOMAIN authored => font.line = HeightOf(inherited, parent, Keyword("invalid"))
  BY DEF Font, FontOf
<1> HIDE DEF ownSize, font
<1>4. DefaultFontSize(name) \in Nat
  BY DEF DefaultFontSize
<1>5. size \in Nat /\ (ownSize = Invalid => size = parent.size \/ "font-size" \notin DOMAIN inherited)
  BY <1>1, <1>4 DEF SizeOf, Invalid
<1>6. "line-height" \in DOMAIN inherited => HeightOf(inherited, parent, Keyword("invalid")) = parent.line
  BY DEF HeightOf
<1> QED
  BY <1>1, <1>2, <1>3, <1>5, <1>6 DEF font

LEMMA StyledIs ==
  ASSUME AreRules(rules), NEW chain, IsDeclarations(Last(chain).style),
         NEW parent, IsStyled(parent), NEW root \in Nat
  PROVE  LET authored == Cascade(chain, rules, NoStyle) own == Styled(chain, authored, parent, root) IN
         /\ IsStyled(own)
         /\ LengthsFixed(authored, own, parent)
         /\ FontsInherited(authored, own, parent)
<1> DEFINE element == Last(chain)
           authored == Cascade(chain, rules, NoStyle)
           agent == UserAgent(element.name, parent.style)
           full == Cascade(chain, rules, agent)
           placed == WithDirection(WithLocale(full, Locale(element, parent.style)), element, authored)
           shown == DOMAIN authored \cup DOMAIN parent.style
           font == Font(element.name, authored, parent.style, parent.font, root)
           own == Styled(chain, authored, parent, root)
<1>1. own = Sized(placed, shown, font, root)
  BY DEF Styled
<1>2. \A p \in DOMAIN authored : AreValues(authored[p]) /\ IsValue(authored[p][1])
  BY CascadeIsValues, FirstIsValue
<1>3. OverInherited(full, authored, agent)
  BY CascadeOverlays
<1> HIDE DEF own
<1> HIDE DEF authored, full
<1> USE DEF OverInherited
<1>4. \A p \in Geometry : (p \in DOMAIN agent <=> p \in DOMAIN parent.style)
                          /\ (p \in DOMAIN parent.style => agent[p] = parent.style[p])
  <2> TAKE p \in Geometry
  <2>1. p \notin {"font-style", "font-weight"}
    BY HandedLengthsAre
  <2> QED
    BY <2>1, UserAgentIs
<1>5. \A p \in Geometry : (p \in DOMAIN placed <=> p \in DOMAIN full) /\ (p \in DOMAIN full => placed[p] = full[p])
  <2> TAKE p \in Geometry
  <2>1. p \notin {"-pagelet-locale", "direction"}
    BY HandedLengthsAre
  <2> QED
    BY <2>1, LocaleIs
<1>6. /\ font.size \in Nat
      /\ "font-size" \notin DOMAIN authored => font.size = parent.font.size \/ "font-size" \notin DOMAIN parent.style
      /\ "line-height" \notin DOMAIN authored /\ "line-height" \in DOMAIN parent.style => font.line = parent.font.line
  BY <1>2, FontIs DEF IsStyled
<1> HIDE DEF agent, placed, font
<1>7. /\ own.font = font
      /\ \A p \in Geometry :
           /\ p \in DOMAIN own.style <=> p \in DOMAIN placed
           /\ p \in DOMAIN placed => own.style[p] = <<Absolute(p, placed[p][1], font.size, root)>>
      /\ "line-height" \in shown => own.style["line-height"] = <<ShownLine(font.line, font.size)>>
  BY <1>1, SizedIs
<1>8. \A p \in Geometry : p \in DOMAIN own.style => own.style[p] = <<Absolute(p, full[p][1], font.size, root)>>
  BY <1>5, <1>7
<1>9. ASSUME NEW p \in Geometry, p \in DOMAIN full
      PROVE  /\ IsValue(full[p][1])
             /\ p \notin DOMAIN authored =>
                  p \in HandedLengths /\ p \in DOMAIN parent.style /\ full[p] = parent.style[p]
  <2>1. CASE p \in DOMAIN authored
    BY <1>2, <1>3, <1>9, <2>1
  <2>2. CASE p \notin DOMAIN authored
    <3>1. p \in HandedLengths /\ p \in DOMAIN parent.style /\ full[p] = parent.style[p]
      BY <1>3, <1>4, <1>9, <2>2, HandedLengthsAre
    <3>2. PICK v : parent.style[p] = <<v>> /\ IsValue(v)
      BY <3>1 DEF IsStyled
    <3>3. full[p][1] = v
      BY <3>1, <3>2
    <3> QED
      BY <3>1, <3>2, <3>3
  <2> QED
    BY <2>1, <2>2
<1>10. ASSUME NEW p \in Geometry, p \in DOMAIN own.style
       PROVE  LET v == full[p][1] a == Absolute(p, v, font.size, root) IN
              /\ own.style[p] = <<a>> /\ own.style[p][1] = a /\ p \in DOMAIN full
              /\ IsValue(a)
              /\ a.unit \in {"em", "rem"} => p \in Padding /\ a.n < 0
              /\ p \notin Padding => FixedLength(a)
              /\ p \notin Padding /\ v.unit = "em" => a = Px((font.size * v.n) \div 100)
              /\ p \notin Padding /\ FixedLength(v) => a = v
  <2>1. p \in DOMAIN full
    BY <1>5, <1>7, <1>10
  <2> DEFINE v == full[p][1] a == Absolute(p, v, font.size, root)
  <2>2. IsValue(v)
    BY <1>9, <2>1
  <2>3. own.style[p] = <<a>>
    BY <1>8, <1>10
  <2> HIDE DEF v
  <2>4. /\ IsValue(a)
        /\ a.unit \in {"em", "rem"} => p \in Padding /\ a.n < 0
        /\ p \notin Padding => FixedLength(a)
        /\ p \notin Padding /\ v.unit = "em" => a = Px((font.size * v.n) \div 100)
        /\ p \notin Padding /\ FixedLength(v) => a = v
    BY <1>6, <2>2, AbsoluteIs
  <2> HIDE DEF a
  <2>5. own.style[p][1] = a
    BY <2>3
  <2> QED
    BY <2>1, <2>3, <2>4, <2>5 DEF v, a
<1>11. IsStyled(own)
  <2>1. ASSUME NEW p \in HandedLengths \cap DOMAIN own.style
        PROVE  \E v : own.style[p] = <<v>> /\ IsValue(v) /\ FixedLength(v)
    <3>1. p \in Geometry /\ p \notin Padding
      BY HandedLengthsAre
    <3> QED
      BY <1>10, <3>1
  <2> QED
    BY <1>6, <1>7, <2>1 DEF IsStyled
<1>12. LengthsFixed(authored, own, parent)
  <2>1. \A p \in Geometry \cap DOMAIN own.style :
          own.style[p][1].unit \in {"em", "rem"} => p \in Padding /\ own.style[p][1].n < 0
    BY <1>10
  <2>2. ASSUME NEW p \in HandedLengths, p \notin DOMAIN authored
        PROVE  /\ p \in DOMAIN own.style <=> p \in DOMAIN parent.style
               /\ p \in DOMAIN own.style => own.style[p] = parent.style[p]
    <3>1. p \in Geometry /\ p \notin Padding /\ p \in Inherited
      BY HandedLengthsAre
    <3>2. p \in DOMAIN own.style <=> p \in DOMAIN parent.style
      BY <1>3, <1>4, <1>5, <1>7, <2>2, <3>1
    <3>3. ASSUME p \in DOMAIN own.style PROVE own.style[p] = parent.style[p]
      <4>1. p \in DOMAIN full /\ full[p] = parent.style[p]
        BY <1>9, <1>10, <2>2, <3>1, <3>3
      <4>2. PICK v : parent.style[p] = <<v>> /\ FixedLength(v)
        BY <3>2, <3>3 DEF IsStyled
      <4>3. full[p][1] = v
        BY <4>1, <4>2
      <4>4. Absolute(p, full[p][1], font.size, root) = full[p][1]
        BY <1>10, <3>1, <3>3, <4>2, <4>3
      <4> QED
        BY <1>8, <3>1, <3>3, <4>2, <4>3, <4>4
    <3> QED
      BY <3>2, <3>3
  <2>3. ASSUME NEW p \in HandedLengths, p \in DOMAIN authored, authored[p][1].unit = "em"
        PROVE  own.style[p] = <<Px((own.font.size * authored[p][1].n) \div 100)>>
    <3>1. p \in Geometry /\ p \notin Padding
      BY HandedLengthsAre
    <3>2. p \in DOMAIN full /\ full[p] = authored[p] /\ p \in DOMAIN own.style
      BY <1>3, <1>5, <1>7, <2>3, <3>1
    <3> QED
      BY <1>7, <1>10, <2>3, <3>1, <3>2
  <2> QED
    BY <2>1, <2>2, <2>3 DEF LengthsFixed, HandedLengths
<1>13. FontsInherited(authored, own, parent)
  <2>1. ASSUME "line-height" \notin DOMAIN authored, "line-height" \in DOMAIN parent.style
        PROVE  ShownLine(own.font.line, own.font.size) = own.style["line-height"][1] /\ own.font.line = parent.font.line
    BY <1>6, <1>7, <2>1
  <2> QED
    BY <1>6, <1>7, <2>1 DEF FontsInherited
<1> QED
  BY <1>11, <1>12, <1>13 DEF own, authored

-----------------------------------------------------------------------------
(* From the root inwards *)

RootParent == [style |-> NoStyle, font |-> [size |-> HtmlFont, line |-> NormalLine]]

NextStyled(chain, i, computed) ==
  IF i = 0 THEN RootParent
  ELSE Styled(SubSeq(chain, 1, i), Cascade(SubSeq(chain, 1, i), rules, NoStyle), computed[i - 1],
              IF i = 1 THEN HtmlFont ELSE computed[1].font.size)

LEMMA StylesExist ==
  ASSUME NEW chain, NEW n \in Nat
  PROVE  \E computed : computed = [i \in 0 .. n |-> NextStyled(chain, i, computed)]
<1> DEFINE Upto(m) == \E computed : computed = [i \in 0 .. m |-> NextStyled(chain, i, computed)]
           S == {m \in Nat : Upto(m)}
<1>1. 0 \in S
  <2> DEFINE computed == [i \in 0 .. 0 |-> RootParent]
  <2>1. computed = [i \in 0 .. 0 |-> NextStyled(chain, i, computed)]
    BY DEF NextStyled
  <2> HIDE DEF computed
  <2>2. Upto(0)
    BY <2>1
  <2> QED
    BY <2>2
<1>2. ASSUME NEW m \in Nat, m \in S PROVE m + 1 \in S
  <2>1. PICK computed : computed = [i \in 0 .. m |-> NextStyled(chain, i, computed)]
    BY <1>2
  <2> DEFINE more == [i \in 0 .. m + 1 |-> IF i \in 0 .. m THEN computed[i] ELSE NextStyled(chain, i, computed)]
  <2>2. ASSUME NEW i \in 0 .. m + 1 PROVE more[i] = NextStyled(chain, i, more)
    <3>1. more[i] = NextStyled(chain, i, computed)
      BY <2>1
    <3>2. i # 0 => i - 1 \in 0 .. m /\ more[i - 1] = computed[i - 1]
      OBVIOUS
    <3>3. i # 0 /\ i # 1 => 1 \in 0 .. m /\ more[1] = computed[1]
      OBVIOUS
    <3> HIDE DEF more
    <3> QED
      BY <3>1, <3>2, <3>3 DEF NextStyled
  <2>3. more = [i \in 0 .. m + 1 |-> NextStyled(chain, i, more)]
    BY <2>2
  <2> HIDE DEF more
  <2>4. Upto(m + 1)
    BY <2>3
  <2> QED
    BY <2>4
<1> HIDE DEF S
<1>3. Nat \subseteq S
  BY <1>1, <1>2, Induction
<1> QED
  BY <1>3 DEF S

LEMMA ComputedBy ==
  ASSUME NEW chain, Len(chain) \in Nat
  PROVE  /\ Computed(chain)[0] = RootParent
         /\ \A i \in 1 .. Len(chain) :
              Computed(chain)[i] =
                Styled(SubSeq(chain, 1, i), Cascade(SubSeq(chain, 1, i), rules, NoStyle), Computed(chain)[i - 1],
                       IF i = 1 THEN HtmlFont ELSE Computed(chain)[1].font.size)
<1> DEFINE c == CHOOSE f : f = [i \in 0 .. Len(chain) |-> NextStyled(chain, i, f)]
<1>1. \E f : f = [i \in 0 .. Len(chain) |-> NextStyled(chain, i, f)]
  BY StylesExist
<1>2. c = [i \in 0 .. Len(chain) |-> NextStyled(chain, i, c)]
  BY <1>1
<1>3. Computed(chain) = c
  BY Zenon DEF Computed, NextStyled, RootParent
<1> HIDE DEF c
<1>4. c[0] = RootParent
  BY <1>2 DEF NextStyled
<1>5. \A i \in 1 .. Len(chain) :
        c[i] = Styled(SubSeq(chain, 1, i), Cascade(SubSeq(chain, 1, i), rules, NoStyle), c[i - 1],
                      IF i = 1 THEN HtmlFont ELSE c[1].font.size)
  <2> TAKE i \in 1 .. Len(chain)
  <2>1. i \in 0 .. Len(chain) /\ i # 0
    OBVIOUS
  <2>2. c[i] = NextStyled(chain, i, c)
    BY <1>2, <2>1
  <2> QED
    BY <2>1, <2>2 DEF NextStyled
<1> QED
  BY <1>3, <1>4, <1>5

LEMMA PrefixLast ==
  ASSUME NEW chain, IsList(chain), NEW i \in 1 .. Len(chain)
  PROVE  Last(SubSeq(chain, 1, i)) = chain[i]
<1>1. Len(chain) \in Nat /\ \A k \in 1 .. i : chain[k] \in Range(chain)
  BY ListShape
<1>2. /\ Len(SubSeq(chain, 1, i)) = IF 1 <= i THEN i - 1 + 1 ELSE 0
      /\ \A k \in 1 .. i - 1 + 1 : SubSeq(chain, 1, i)[k] = chain[1 + k - 1]
  BY <1>1, SubSeqProperties
<1>3. Len(SubSeq(chain, 1, i)) = i /\ i \in 1 .. i - 1 + 1 /\ 1 + i - 1 = i
  BY <1>1, <1>2
<1> QED
  BY <1>2, <1>3 DEF Last

LEMMA StylesAre ==
  ASSUME AreRules(rules), NEW chain \in Elements
  PROVE  StylesHandedDown(chain, Computed(chain))
<1> DEFINE n == Len(chain)
           c == Computed(chain)
<1>1. /\ IsList(chain) /\ n \in Nat /\ DOMAIN chain = 1 .. n
      /\ \A i \in 1 .. n : IsDeclarations(chain[i].style)
  BY ChainIs, ListShape
<1>2. /\ c[0] = RootParent
      /\ \A i \in 1 .. n :
           c[i] = Styled(SubSeq(chain, 1, i), Cascade(SubSeq(chain, 1, i), rules, NoStyle), c[i - 1],
                         IF i = 1 THEN HtmlFont ELSE c[1].font.size)
  BY <1>1, ComputedBy
<1> HIDE DEF n, c
<1>3. ASSUME NEW i \in 1 .. n, IsStyled(c[i - 1]), i # 1 => IsStyled(c[1])
      PROVE  LET authored == Cascade(SubSeq(chain, 1, i), rules, NoStyle) IN
             /\ IsStyled(c[i])
             /\ LengthsFixed(authored, c[i], c[i - 1])
             /\ FontsInherited(authored, c[i], c[i - 1])
  <2> DEFINE root == IF i = 1 THEN HtmlFont ELSE c[1].font.size
             sub == SubSeq(chain, 1, i)
  <2>1. root \in Nat
    BY <1>3 DEF IsStyled, HtmlFont
  <2>2. IsDeclarations(Last(sub).style)
    BY <1>1, PrefixLast DEF n
  <2>3. c[i] = Styled(sub, Cascade(sub, rules, NoStyle), c[i - 1], root)
    BY <1>2
  <2> HIDE DEF root, sub
  <2>4. LET authored == Cascade(sub, rules, NoStyle) own == Styled(sub, authored, c[i - 1], root) IN
        IsStyled(own) /\ LengthsFixed(authored, own, c[i - 1]) /\ FontsInherited(authored, own, c[i - 1])
    BY <1>3, <2>1, <2>2, StyledIs
  <2> QED
    BY <2>3, <2>4 DEF sub
<1> DEFINE S == {k \in 0 .. n : IsStyled(c[k]) /\ (k # 0 => IsStyled(c[1]))}
<1>4. 0 \in S
  <2>1. IsStyled(RootParent)
    <3>1. DOMAIN NoStyle = {}
      BY DEF NoStyle
    <3>2. RootParent.style = NoStyle /\ RootParent.font.size = 16
      BY DEF RootParent, HtmlFont
    <3> QED
      BY <3>1, <3>2 DEF IsStyled
  <2> QED
    BY <1>1, <1>2, <2>1
<1>5. ASSUME NEW k \in 0 .. n, k + 1 \in 0 .. n, k \in S PROVE k + 1 \in S
  <2>1. k + 1 \in 1 .. n /\ (k + 1) - 1 = k /\ (k + 1 # 1 => k # 0) /\ k + 1 # 0
    BY <1>1, <1>5
  <2>2. IsStyled(c[k + 1])
    BY <1>3, <1>5, <2>1
  <2>3. IsStyled(c[1])
    BY <1>5, <2>1, <2>2
  <2> QED
    BY <1>5, <2>2, <2>3
<1> HIDE DEF S
<1>6. 0 .. n \subseteq S
  BY <1>1, <1>4, <1>5, UpTo
<1>7. \A i \in 1 .. n : IsStyled(c[i - 1]) /\ (i # 1 => IsStyled(c[1]))
  <2> TAKE i \in 1 .. n
  <2>1. i - 1 \in 0 .. n /\ (i # 1 => i - 1 # 0)
    BY <1>1
  <2>2. i - 1 \in S
    BY <1>6, <2>1
  <2> QED
    BY <2>1, <2>2 DEF S
<1>8. ASSUME NEW i \in DOMAIN chain
      PROVE  LET authored == Cascade(SubSeq(chain, 1, i), rules, NoStyle) IN
             /\ LengthsFixed(authored, c[i], c[i - 1])
             /\ i > 1 => FontsInherited(authored, c[i], c[i - 1])
  BY <1>1, <1>3, <1>7
<1> QED
  BY <1>8 DEF StylesHandedDown, c

(* At any depth and with any sheets, lengths that follow a font are fixed   *)
(* where they are set, with the font of that element, and handed down as    *)
(* they are; fonts are those of the parent unless set.                      *)
THEOREM StylesComputedOnce == CssSpec => []ComputedOnce
<1>1. CssInv => ComputedOnce
  BY StylesAre DEF ComputedOnce, CssInv
<1> QED
  BY <1>1, CssStart, CssKeeps, PTL DEF CssSpec
=============================================================================
