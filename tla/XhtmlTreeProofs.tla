-------------------------- MODULE XhtmlTreeProofs --------------------------
(***************************************************************************)
(* Proofs about the tree of an XHTML document, for any sequence of pieces,  *)
(* in strict mode or repaired.                                              *)
(*                                                                         *)
(* That ranges nest is no invariant while elements are open, for their end  *)
(* is that of their start tag.  What is (Nested) says that only the last    *)
(* child of an open element is open, and TreeFits that the stack holds the  *)
(* open elements from the outside in: closing from the inside out then      *)
(* finds every range already under its parent.                              *)
(***************************************************************************)
EXTENDS XhtmlTree, CascadeProofs

-----------------------------------------------------------------------------
(* Trees and stacks *)

\* Nodes of a tree that is read up to a place of the source.
IsNode(node) ==
  /\ node = [kind |-> node.kind, name |-> node.name, attrs |-> node.attrs,
             start |-> node.start, end |-> node.end, children |-> node.children]
  /\ node.start \in Nat /\ node.end \in Nat /\ node.start <= node.end
  /\ node.children \in Seq(Nat)

\* What is used of a node, without what a node is.
LEMMA NodeIs ==
  ASSUME NEW node, IsNode(node)
  PROVE  /\ node.start \in Nat /\ node.end \in Nat /\ node.start <= node.end
         /\ node.children \in Seq(Nat) /\ Len(node.children) \in Nat
<1>1. node.children \in Seq(Nat)
  BY DEF IsNode
<1> QED
  BY <1>1 DEF IsNode

\* A tree of the pieces up to a place: children come after their parent.
NodesFit(tree, place) ==
  /\ IsList(tree) /\ Len(tree) # 0
  /\ \A n \in 1 .. Len(tree) :
       /\ IsNode(tree[n]) /\ tree[n].end <= place
       /\ \A k \in 1 .. Len(tree[n].children) : tree[n].children[k] \in n + 1 .. Len(tree)

\* Every node but the root is the child of one, once.
OneParent(tree) ==
  /\ \A n, m \in 1 .. Len(tree) : \A k \in 1 .. Len(tree[n].children), j \in 1 .. Len(tree[m].children) :
       tree[n].children[k] = tree[m].children[j] => n = m /\ k = j
  /\ \A c \in 2 .. Len(tree) : \E n \in 1 .. Len(tree) : \E k \in 1 .. Len(tree[n].children) : tree[n].children[k] = c

\* Elements are opened from the outside in.
OpenFit(open, tree) ==
  /\ open \in Seq(Nat)
  /\ \A k \in 1 .. Len(open) : open[k] \in 1 .. Len(tree)
  /\ \A j, k \in 1 .. Len(open) : j < k => open[j] < open[k]

\* An element that is on the stack.
IsOpen(n, open) == \E k \in 1 .. Len(open) : open[k] = n

\* Only the last child may be open, and then its parent is; what is closed holds its children.
Nested(tree, open) ==
  \A n \in 1 .. Len(tree) : \A k \in 1 .. Len(tree[n].children) :
    /\ tree[n].start <= tree[tree[n].children[k]].start
    /\ k # Len(tree[n].children) => tree[tree[n].children[k]].end <= tree[tree[n].children[k + 1]].start
    /\ IsOpen(tree[n].children[k], open) => k = Len(tree[n].children) /\ (n = 1 \/ IsOpen(n, open))
    /\ n = 1 \/ IsOpen(n, open) \/ tree[tree[n].children[k]].end <= tree[n].end

\* The tree and the stack, between two pieces.
TreeFits(tree, open, place) ==
  NodesFit(tree, place) /\ OneParent(tree) /\ OpenFit(open, tree) /\ Nested(tree, open)

\* Top and PushChild, of any tree and stack.
TopOf(open) == IF open = <<>> THEN 1 ELSE open[Len(open)]
Pushed(tree, top, node) == Append([tree EXCEPT ![top].children = Append(@, Len(tree) + 1)], node)

\* The open elements are none behind the top.
LEMMA TopIs ==
  ASSUME NEW tree, NEW place \in Nat, NEW open, NodesFit(tree, place), OpenFit(open, tree)
  PROVE  /\ Len(tree) \in Nat /\ TopOf(open) \in 1 .. Len(tree)
         /\ \A n \in 1 .. Len(tree) : IsOpen(n, open) => n <= TopOf(open)
         /\ \A n \in 1 .. Len(tree) : IsOpen(n, open) => IsOpen(TopOf(open), open)
         /\ TopOf(open) = 1 \/ IsOpen(TopOf(open), open)
<1>1. Len(tree) \in Nat /\ Len(tree) # 0
  BY ListShape DEF NodesFit
<1>2. open \in Seq(Nat) /\ Len(open) \in Nat
  BY DEF OpenFit
<1>3. CASE open = <<>>
  BY <1>1, <1>3 DEF TopOf, IsOpen
<1>4. CASE open # <<>>
  <2>1. Len(open) \in 1 .. Len(open) /\ TopOf(open) = open[Len(open)]
    BY <1>2, <1>4 DEF TopOf
  <2>2. \A k \in 1 .. Len(open) : open[k] \in 1 .. Len(tree) /\ (k = Len(open) \/ open[k] < open[Len(open)])
    BY <1>2, <2>1 DEF OpenFit
  <2>3. IsOpen(TopOf(open), open)
    BY <2>1 DEF IsOpen
  <2>4. ASSUME NEW n \in 1 .. Len(tree), IsOpen(n, open) PROVE n <= TopOf(open)
    <3>1. PICK k \in 1 .. Len(open) : open[k] = n
      BY <2>4 DEF IsOpen
    <3> QED
      BY <2>1, <2>2, <3>1
  <2> QED
    BY <1>1, <2>1, <2>2, <2>3, <2>4
<1> QED
  BY <1>3, <1>4

\* A parent with another list of children is otherwise what it was.
LEMMA ParentIs ==
  ASSUME NEW node, IsNode(node), NEW more
  PROVE  [node EXCEPT !.children = more] =
           [kind |-> node.kind, name |-> node.name, attrs |-> node.attrs, start |-> node.start, end |-> node.end,
            children |-> more]
  BY DEF IsNode

\* What a node that is pushed leaves of the tree.
LEMMA PushedIs ==
  ASSUME NEW tree, NEW place \in Nat, NodesFit(tree, place), NEW top \in 1 .. Len(tree), NEW node
  PROVE  /\ IsList(Pushed(tree, top, node)) /\ Len(Pushed(tree, top, node)) = Len(tree) + 1
         /\ Pushed(tree, top, node)[Len(tree) + 1] = node
         /\ \A n \in 1 .. Len(tree) : n # top => Pushed(tree, top, node)[n] = tree[n]
         /\ Pushed(tree, top, node)[top] =
              [kind |-> tree[top].kind, name |-> tree[top].name, attrs |-> tree[top].attrs, start |-> tree[top].start,
               end |-> tree[top].end, children |-> Append(tree[top].children, Len(tree) + 1)]
<1>1. IsList(tree) /\ Len(tree) \in Nat /\ DOMAIN tree = 1 .. Len(tree) /\ IsNode(tree[top])
  BY ListShape DEF NodesFit
<1> DEFINE grown == [tree EXCEPT ![top].children = Append(@, Len(tree) + 1)]
           parent == [tree[top] EXCEPT !.children = Append(@, Len(tree) + 1)]
<1>2. tree = [n \in 1 .. Len(tree) |-> tree[n]]
  BY <1>1, LenProperties DEF IsList
<1>3. /\ grown = [n \in 1 .. Len(tree) |-> grown[n]]
      /\ \A n \in 1 .. Len(tree) : grown[n] = IF n = top THEN parent ELSE tree[n]
  BY <1>1, <1>2
<1>4. parent = [kind |-> tree[top].kind, name |-> tree[top].name, attrs |-> tree[top].attrs, start |-> tree[top].start,
                end |-> tree[top].end, children |-> Append(tree[top].children, Len(tree) + 1)]
  <2> DEFINE more == Append(tree[top].children, Len(tree) + 1)
  <2>1. parent = [tree[top] EXCEPT !.children = more]
    OBVIOUS
  <2> HIDE DEF more, parent
  <2>2. parent = [kind |-> tree[top].kind, name |-> tree[top].name, attrs |-> tree[top].attrs,
                  start |-> tree[top].start, end |-> tree[top].end, children |-> more]
    BY <1>1, <2>1, ParentIs
  <2> QED
    BY <2>2 DEF more
<1> HIDE DEF parent, grown
<1>5. IsList(grown) /\ Len(grown) = Len(tree)
  BY <1>1, <1>3, ListMade
<1>6. /\ IsList(Append(grown, node)) /\ Len(Append(grown, node)) = Len(grown) + 1
      /\ \A n \in 1 .. Len(grown) : Append(grown, node)[n] = grown[n]
      /\ Append(grown, node)[Len(grown) + 1] = node
  BY <1>5, ListAppended
<1>7. Pushed(tree, top, node) = Append(grown, node)
  BY DEF Pushed, grown
<1> QED
  BY <1>3, <1>4, <1>5, <1>6, <1>7

\* The tree with one more node, in terms of the tree before.
Grown(more, tree, top, node) ==
         /\ IsList(more) /\ Len(tree) \in Nat /\ Len(more) = Len(tree) + 1 /\ more[Len(tree) + 1] = node
         /\ \A n \in 1 .. Len(tree) : IsNode(more[n]) /\ more[n].start = tree[n].start /\ more[n].end = tree[n].end
         /\ \A n \in 1 .. Len(tree) : more[n].kind = tree[n].kind /\ more[n].attrs = tree[n].attrs
         /\ \A n \in 1 .. Len(tree) : n # top => more[n].children = tree[n].children
         /\ Len(tree[top].children) \in Nat /\ Len(more[top].children) = Len(tree[top].children) + 1
         /\ \A k \in 1 .. Len(tree[top].children) : more[top].children[k] = tree[top].children[k]
         /\ more[top].children[Len(tree[top].children) + 1] = Len(tree) + 1

\* PushChild makes that tree, node for node.
LEMMA PushedNodes ==
  ASSUME NEW tree, NEW place \in Nat, NodesFit(tree, place), NEW top \in 1 .. Len(tree),
         NEW node, IsNode(node), node.children = <<>>,
         NEW more, more = Pushed(tree, top, node)
  PROVE  Grown(more, tree, top, node)
<1>1. /\ IsList(tree) /\ Len(tree) \in Nat
      /\ \A n \in 1 .. Len(tree) : IsNode(tree[n])
  BY ListShape DEF NodesFit
<1> DEFINE kids == tree[top].children
<1>2. kids \in Seq(Nat) /\ Len(kids) \in Nat
  BY <1>1, NodeIs
<1>3. /\ IsList(more) /\ Len(more) = Len(tree) + 1 /\ more[Len(tree) + 1] = node
      /\ \A n \in 1 .. Len(tree) : n # top => more[n] = tree[n]
      /\ more[top] =
           [kind |-> tree[top].kind, name |-> tree[top].name, attrs |-> tree[top].attrs, start |-> tree[top].start,
            end |-> tree[top].end, children |-> Append(kids, Len(tree) + 1)]
  BY PushedIs
<1>4. IsList(kids)
  BY <1>2, ListOf
<1>5. /\ Len(Append(kids, Len(tree) + 1)) = Len(kids) + 1
      /\ \A k \in 1 .. Len(kids) : Append(kids, Len(tree) + 1)[k] = kids[k]
      /\ Append(kids, Len(tree) + 1)[Len(kids) + 1] = Len(tree) + 1
  BY <1>4, ListAppended
<1>6. Append(kids, Len(tree) + 1) \in Seq(Nat)
  BY <1>1, <1>2
<1> DEFINE grown == Append(kids, Len(tree) + 1)
<1> HIDE DEF kids, grown
<1>7. /\ more[top].children = grown /\ more[top].start = tree[top].start /\ more[top].end = tree[top].end
      /\ more[top] = [kind |-> more[top].kind, name |-> more[top].name, attrs |-> more[top].attrs,
                      start |-> more[top].start, end |-> more[top].end, children |-> more[top].children]
  BY <1>3 DEF grown
<1>9. more[top].kind = tree[top].kind /\ more[top].attrs = tree[top].attrs
  BY <1>3
<1>8. IsNode(more[top])
  BY <1>1, <1>6, <1>7 DEF IsNode, grown
<1> QED
  BY <1>1, <1>2, <1>3, <1>5, <1>7, <1>8, <1>9 DEF grown, kids, Grown

\* The larger tree is whole and nested, whichever of the new node and its siblings is open.
LEMMA PushFits ==
  ASSUME NEW tree, NEW open, NEW place \in Nat, TreeFits(tree, open, place),
         NEW node, IsNode(node), node.start = place, node.end = place + 1, node.children = <<>>,
         NEW more, more = Pushed(tree, TopOf(open), node)
  PROVE  /\ NodesFit(more, place + 1) /\ OneParent(more) /\ Len(more) = Len(tree) + 1 /\ Len(tree) \in Nat
         /\ \A now : (\A n \in 1 .. Len(tree) : IsOpen(n, now) <=> IsOpen(n, open)) => Nested(more, now)
<1> DEFINE N == Len(tree)
           top == TopOf(open)
           had == Len(tree[top].children)
<1>1. NodesFit(tree, place) /\ OneParent(tree) /\ OpenFit(open, tree) /\ Nested(tree, open)
  BY DEF TreeFits
<1>2. /\ N \in Nat /\ top \in 1 .. N
      /\ \A n \in 1 .. N : IsOpen(n, open) => n <= top
      /\ top = 1 \/ IsOpen(top, open)
  BY <1>1, TopIs
<1> HIDE DEF N, top
<1>0. Grown(more, tree, top, node)
  <2>1. top \in 1 .. Len(tree) /\ more = Pushed(tree, top, node)
    BY <1>2 DEF N, top
  <2> QED
    BY <1>1, <2>1, PushedNodes
<1>3. /\ IsList(more) /\ Len(more) = N + 1 /\ more[N + 1] = node
      /\ had \in Nat /\ Len(tree[top].children) = had /\ Len(more[top].children) = had + 1
      /\ more[top].children[had + 1] = N + 1
  BY <1>0 DEF N, Grown
<1>4. \A n \in 1 .. N : IsNode(more[n]) /\ more[n].start = tree[n].start /\ more[n].end = tree[n].end
  BY <1>0 DEF N, Grown
<1>5. \A n \in 1 .. N : n # top => more[n].children = tree[n].children
  BY <1>0 DEF N, Grown
<1>6. \A k \in 1 .. had : more[top].children[k] = tree[top].children[k]
  BY <1>0 DEF N, Grown
<1> HIDE DEF had
<1>7. /\ N # 0
      /\ \A n \in 1 .. N : /\ IsNode(tree[n]) /\ tree[n].end <= place
                         /\ tree[n].end \in Nat /\ tree[n].start \in Nat /\ tree[n].start <= tree[n].end
  <2>1. N # 0 /\ \A n \in 1 .. N : IsNode(tree[n]) /\ tree[n].end <= place
    BY <1>1 DEF NodesFit, N
  <2> QED
    BY <2>1, NodeIs
<1>8. \A n \in 1 .. N : \A k \in 1 .. Len(tree[n].children) : tree[n].children[k] \in n + 1 .. N
  BY <1>1 DEF NodesFit, N

\* A child is one the tree had, or the node that is pushed.
<1>9. ASSUME NEW n \in 1 .. N + 1, NEW k \in 1 .. Len(more[n].children)
      PROVE  \/ /\ n \in 1 .. N /\ k \in 1 .. Len(tree[n].children) /\ more[n].children[k] = tree[n].children[k]
                /\ more[n].children[k] \in n + 1 .. N
             \/ n = top /\ k = had + 1 /\ more[n].children[k] = N + 1
  <2>1. n # N + 1
    BY <1>3
  <2>2. CASE n # top
    <3>1. n \in 1 .. N /\ more[n].children = tree[n].children
      BY <1>2, <1>5, <2>1, <2>2
    <3>2. k \in 1 .. Len(tree[n].children) /\ more[n].children[k] = tree[n].children[k]
      BY <3>1
    <3>3. tree[n].children[k] \in n + 1 .. N
      BY <1>8, <3>1, <3>2
    <3> QED
      BY <3>1, <3>2, <3>3
  <2>3. CASE n = top /\ k = had + 1
    BY <1>3, <2>3
  <2>4. CASE n = top /\ k # had + 1
    <3>1. k \in 1 .. had
      <4>1. Len(more[n].children) = had + 1 /\ had \in Nat
        BY <1>3, <2>4
      <4> QED
        BY <2>4, <4>1
    <3>2. more[n].children[k] = tree[n].children[k]
      BY <1>6, <2>4, <3>1
    <3>3. n \in 1 .. N /\ k \in 1 .. Len(tree[n].children)
      BY <1>2, <1>3, <2>4, <3>1
    <3>4. tree[n].children[k] \in n + 1 .. N
      BY <1>8, <3>3
    <3> QED
      BY <3>2, <3>3, <3>4
  <2> QED
    BY <2>2, <2>3, <2>4
<1>10. NodesFit(more, place + 1)
  <2>1. \A n \in 1 .. N + 1 : IsNode(more[n]) /\ more[n].end <= place + 1
    <3> TAKE n \in 1 .. N + 1
    <3>1. CASE n = N + 1
      BY <1>3, <3>1
    <3>2. CASE n # N + 1
      <4>1. n \in 1 .. N
        BY <1>2, <3>2
      <4>2. IsNode(more[n]) /\ more[n].end = tree[n].end /\ tree[n].end <= place /\ tree[n].end \in Nat
        BY <1>4, <1>7, <4>1
      <4> QED
        BY <4>2
    <3> QED
      BY <3>1, <3>2
  <2>2. \A n \in 1 .. N + 1 : \A k \in 1 .. Len(more[n].children) : more[n].children[k] \in n + 1 .. N + 1
    <3> TAKE n \in 1 .. N + 1
    <3> TAKE k \in 1 .. Len(more[n].children)
    <3>1. more[n].children[k] \in n + 1 .. N \/ (n = top /\ more[n].children[k] = N + 1)
      BY <1>9
    <3> QED
      BY <1>2, <3>1
  <2> QED
    BY <1>2, <1>3, <2>1, <2>2 DEF NodesFit
<1>11. OneParent(more)
  <2>1. ASSUME NEW n \in 1 .. N + 1, NEW m \in 1 .. N + 1,
               NEW k \in 1 .. Len(more[n].children), NEW j \in 1 .. Len(more[m].children),
               more[n].children[k] = more[m].children[j]
        PROVE  n = m /\ k = j
    <3>1. CASE more[n].children[k] = N + 1
      <4>1. n = top /\ k = had + 1
        <5>1. more[n].children[k] \notin n + 1 .. N
          BY <1>2, <3>1
        <5> QED
          BY <1>9, <5>1
      <4>2. m = top /\ j = had + 1
        <5>1. more[m].children[j] \notin m + 1 .. N
          BY <1>2, <2>1, <3>1
        <5> QED
          BY <1>9, <5>1
      <4> QED
        BY <4>1, <4>2
    <3>2. CASE more[n].children[k] # N + 1
      <4>1. n \in 1 .. N /\ k \in 1 .. Len(tree[n].children) /\ more[n].children[k] = tree[n].children[k]
        BY <1>9, <3>2
      <4>2. m \in 1 .. N /\ j \in 1 .. Len(tree[m].children) /\ more[m].children[j] = tree[m].children[j]
        BY <1>9, <2>1, <3>2
      <4> QED
        <5>1. tree[n].children[k] = tree[m].children[j]
          BY <2>1, <4>1, <4>2
        <5>2. n \in 1 .. Len(tree) /\ m \in 1 .. Len(tree)
          BY <4>1, <4>2 DEF N
        <5> QED
          BY <1>1, <4>1, <4>2, <5>1, <5>2 DEF OneParent
    <3> QED
      BY <3>1, <3>2
  <2>2. ASSUME NEW c \in 2 .. N + 1
        PROVE  \E n \in 1 .. N + 1 : \E k \in 1 .. Len(more[n].children) : more[n].children[k] = c
    <3>1. CASE c = N + 1
      <4>1. top \in 1 .. N + 1 /\ had + 1 \in 1 .. Len(more[top].children)
        BY <1>2, <1>3
      <4> QED
        BY <1>3, <3>1, <4>1
    <3>2. CASE c # N + 1
      <4>1. PICK n \in 1 .. N : \E k \in 1 .. Len(tree[n].children) : tree[n].children[k] = c
        <5>1. c \in 2 .. Len(tree)
          BY <1>2, <3>2 DEF N
        <5>2. \E n \in 1 .. Len(tree) : \E k \in 1 .. Len(tree[n].children) : tree[n].children[k] = c
          BY <1>1, <5>1 DEF OneParent
        <5> QED
          BY <5>2 DEF N
      <4>2. PICK k \in 1 .. Len(tree[n].children) : tree[n].children[k] = c
        BY <4>1
      <4>3. k \in 1 .. Len(more[n].children) /\ more[n].children[k] = c
        <5>1. CASE n = top
          <6>1. k \in 1 .. had
            BY <1>3, <4>2, <5>1
          <6>2. more[n].children[k] = tree[n].children[k]
            BY <1>6, <5>1, <6>1
          <6>3. Len(more[n].children) = had + 1 /\ had \in Nat
            BY <1>3, <5>1
          <6>4. k \in 1 .. Len(more[n].children)
            BY <6>1, <6>3
          <6> QED
            BY <4>2, <6>2, <6>4
        <5>2. CASE n # top
          BY <1>5, <4>2, <5>2
        <5> QED
          BY <5>1, <5>2
      <4>4. n \in 1 .. N + 1
        BY <1>2
      <4> QED
        BY <4>3, <4>4
    <3> QED
      BY <3>1, <3>2
  <2>3. Len(more) = N + 1
    BY <1>3
  <2> QED
    BY <2>1, <2>2, <2>3 DEF OneParent
<1>12. ASSUME NEW now, \A n \in 1 .. N : IsOpen(n, now) <=> IsOpen(n, open)
      PROVE  Nested(more, now)
  <2> SUFFICES ASSUME NEW n \in 1 .. N + 1, NEW k \in 1 .. Len(more[n].children)
               PROVE  /\ more[n].start <= more[more[n].children[k]].start
                      /\ k # Len(more[n].children) => more[more[n].children[k]].end <= more[more[n].children[k + 1]].start
                      /\ IsOpen(more[n].children[k], now) => k = Len(more[n].children) /\ (n = 1 \/ IsOpen(n, now))
                      /\ n = 1 \/ IsOpen(n, now) \/ more[more[n].children[k]].end <= more[n].end
    BY <1>3 DEF Nested
  <2>1. CASE n \in 1 .. N /\ k \in 1 .. Len(tree[n].children) /\ more[n].children[k] = tree[n].children[k]
             /\ more[n].children[k] \in n + 1 .. N
    <3> DEFINE c == tree[n].children[k]
    <3>1. /\ tree[n].start <= tree[c].start
          /\ k # Len(tree[n].children) => tree[c].end <= tree[tree[n].children[k + 1]].start
          /\ IsOpen(c, open) => k = Len(tree[n].children) /\ (n = 1 \/ IsOpen(n, open))
          /\ n = 1 \/ IsOpen(n, open) \/ tree[c].end <= tree[n].end
      BY <1>1, <2>1 DEF Nested, N
    <3> HIDE DEF c
    <3>2. c = more[n].children[k] /\ c \in n + 1 .. N /\ c \in 1 .. N
      BY <1>2, <2>1 DEF c
    <3>3. CASE n # top
      <4>1. more[n].children = tree[n].children
        BY <1>5, <2>1, <3>3
      <4>2. k # Len(tree[n].children) => tree[n].children[k + 1] \in 1 .. N
        <5>1. tree[n].children \in Seq(Nat) /\ Len(tree[n].children) \in Nat
          BY <1>7, <2>1, NodeIs
        <5>2. k # Len(tree[n].children) => k + 1 \in 1 .. Len(tree[n].children)
          BY <2>1, <5>1
        <5>3. k # Len(tree[n].children) => tree[n].children[k + 1] \in n + 1 .. N
          BY <1>8, <2>1, <5>2
        <5> QED
          BY <1>2, <2>1, <5>3
      <4> QED
        <5>1. /\ more[n].start = tree[n].start /\ more[n].end = tree[n].end
              /\ more[c].start = tree[c].start /\ more[c].end = tree[c].end
          BY <1>4, <2>1, <3>2
        <5>2. k # Len(tree[n].children) =>
                more[tree[n].children[k + 1]].start = tree[tree[n].children[k + 1]].start
          BY <1>4, <4>2
        <5>3. (IsOpen(n, now) <=> IsOpen(n, open)) /\ (IsOpen(c, now) <=> IsOpen(c, open))
          BY <1>12, <2>1, <3>2
        <5> QED
          BY <3>1, <3>2, <4>1, <5>1, <5>2, <5>3
    <3>4. CASE n = top
      <4>1. ~IsOpen(c, now)
        BY <1>2, <1>12, <3>2, <3>4
      <4>2. more[c].end <= more[more[n].children[k + 1]].start
        <5>1. CASE k = had
          <6>1. more[n].children[k + 1] = N + 1 /\ more[N + 1].start = place
            BY <1>3, <3>4, <5>1
          <6>2. more[c].end = tree[c].end /\ tree[c].end <= place
            BY <1>4, <1>7, <3>2
          <6> QED
            BY <6>1, <6>2
        <5>2. CASE k # had
          <6>1. k + 1 \in 1 .. had /\ k # Len(tree[n].children)
            BY <1>3, <2>1, <3>4, <5>2
          <6>2. more[n].children[k + 1] = tree[n].children[k + 1] /\ tree[n].children[k + 1] \in 1 .. N
            <7>1. more[top].children[k + 1] = tree[top].children[k + 1]
              BY <1>6, <6>1
            <7>2. k + 1 \in 1 .. Len(tree[top].children)
              BY <1>3, <6>1
            <7>3. tree[top].children[k + 1] \in top + 1 .. N
              BY <1>2, <1>8, <7>2
            <7> QED
              BY <1>2, <3>4, <7>1, <7>3
          <6> QED
            <7>1. more[c].end = tree[c].end
              BY <1>4, <3>2
            <7>2. more[tree[n].children[k + 1]].start = tree[tree[n].children[k + 1]].start
              BY <1>4, <6>2
            <7> QED
              BY <3>1, <6>1, <6>2, <7>1, <7>2
        <5> QED
          BY <5>1, <5>2
      <4> QED
        <5>1. /\ more[n].start = tree[n].start /\ more[n].end = tree[n].end
              /\ more[c].start = tree[c].start /\ more[c].end = tree[c].end
          BY <1>4, <2>1, <3>2
        <5>2. (IsOpen(n, now) <=> IsOpen(n, open)) /\ (n = 1 \/ IsOpen(n, open))
          BY <1>2, <1>12, <3>4
        <5> QED
          BY <3>1, <3>2, <4>1, <4>2, <5>1, <5>2
    <3> QED
      BY <3>3, <3>4
  <2>2. CASE n = top /\ k = had + 1 /\ more[n].children[k] = N + 1
    <3>1. more[n].start = tree[top].start /\ tree[top].start \in Nat /\ tree[top].start <= place
      BY <1>2, <1>4, <1>7, <2>2
    <3>2. more[N + 1].start = place
      BY <1>3
    <3>3. n = 1 \/ IsOpen(n, now)
      BY <1>2, <1>12, <2>2
    <3>4. k = Len(more[n].children)
      BY <1>3, <2>2
    <3> QED
      BY <2>2, <3>1, <3>2, <3>3, <3>4
  <2> QED
    BY <1>9, <2>1, <2>2
<1> QED
  BY <1>2, <1>3, <1>10, <1>11, <1>12 DEF N

-----------------------------------------------------------------------------
(* Ends *)

\* The tree with some ends set.
Closed(tree, closed, last) ==
  [n \in DOMAIN tree |-> IF n \in closed THEN [tree[n] EXCEPT !.end = last] ELSE tree[n]]

\* A node whose end is set is otherwise what it was.
LEMMA EndedIs ==
  ASSUME NEW node, IsNode(node), NEW last
  PROVE  [node EXCEPT !.end = last] =
           [kind |-> node.kind, name |-> node.name, attrs |-> node.attrs, start |-> node.start, end |-> last,
            children |-> node.children]
  BY DEF IsNode

\* A node may end later.
LEMMA EndedFits ==
  ASSUME NEW node, IsNode(node), NEW last \in Nat, node.end <= last, NEW ended, ended = [node EXCEPT !.end = last]
  PROVE  /\ IsNode(ended) /\ ended.start = node.start /\ ended.end = last /\ ended.children = node.children
         /\ ended.kind = node.kind /\ ended.attrs = node.attrs
<1>1. node.start \in Nat /\ node.end \in Nat /\ node.start <= node.end /\ node.children \in Seq(Nat)
  BY NodeIs
<1>2. ended = [kind |-> node.kind, name |-> node.name, attrs |-> node.attrs, start |-> node.start, end |-> last,
               children |-> node.children]
  BY EndedIs
<1>3. /\ ended.start = node.start /\ ended.end = last /\ ended.children = node.children
      /\ ended.kind = node.kind /\ ended.name = node.name /\ ended.attrs = node.attrs
  BY <1>2
<1>4. ended = [kind |-> ended.kind, name |-> ended.name, attrs |-> ended.attrs, start |-> ended.start,
               end |-> ended.end, children |-> ended.children]
  BY <1>2, <1>3
<1>5. ended.start <= ended.end
  BY <1>1, <1>3
<1> QED
  BY <1>1, <1>3, <1>4, <1>5 DEF IsNode

\* What an end tag, or the end of the document, leaves of the tree.
Shut(shut, tree, closed, last) ==
  /\ IsList(shut) /\ Len(tree) \in Nat /\ Len(shut) = Len(tree)
  /\ \A n \in 1 .. Len(tree) :
       /\ IsNode(shut[n]) /\ shut[n].start = tree[n].start /\ shut[n].children = tree[n].children
       /\ shut[n].kind = tree[n].kind /\ shut[n].attrs = tree[n].attrs
       /\ shut[n].end = IF n \in closed THEN last ELSE tree[n].end

\* EndAt makes that tree, node for node.
LEMMA ClosedNodes ==
  ASSUME NEW tree, NEW place \in Nat, NodesFit(tree, place), NEW last \in Nat, place <= last,
         NEW closed, NEW shut, shut = Closed(tree, closed, last)
  PROVE  Shut(shut, tree, closed, last)
<1>1. /\ IsList(tree) /\ Len(tree) \in Nat /\ DOMAIN tree = 1 .. Len(tree)
      /\ \A n \in 1 .. Len(tree) : IsNode(tree[n]) /\ tree[n].end <= place
  BY ListShape DEF NodesFit
<1>2. /\ shut = [n \in 1 .. Len(tree) |-> shut[n]]
      /\ \A n \in 1 .. Len(tree) : shut[n] = IF n \in closed THEN [tree[n] EXCEPT !.end = last] ELSE tree[n]
  BY <1>1 DEF Closed
<1>3. IsList(shut) /\ Len(shut) = Len(tree)
  BY <1>1, <1>2, ListMade
<1>4. ASSUME NEW n \in 1 .. Len(tree)
      PROVE  /\ IsNode(shut[n]) /\ shut[n].start = tree[n].start /\ shut[n].children = tree[n].children
             /\ shut[n].kind = tree[n].kind /\ shut[n].attrs = tree[n].attrs
             /\ shut[n].end = IF n \in closed THEN last ELSE tree[n].end
  <2>1. CASE n \in closed
    <3>1. shut[n] = [tree[n] EXCEPT !.end = last] /\ IsNode(tree[n]) /\ tree[n].end <= last
      <4>1. tree[n].end \in Nat
        BY <1>1, NodeIs
      <4> QED
        BY <1>1, <1>2, <2>1, <4>1
    <3> QED
      BY <2>1, <3>1, EndedFits
  <2>2. CASE n \notin closed
    BY <1>1, <1>2, <2>2
  <2> QED
    BY <2>1, <2>2
<1> QED
  BY <1>1, <1>3, <1>4 DEF Shut

\* A tree that is whole and nested up to a place, with the elements that are open now.
ShutFits(shut, now, last, tree) ==
  NodesFit(shut, last) /\ OneParent(shut) /\ Nested(shut, now) /\ Len(shut) = Len(tree)

\* Closing open elements from the inside out keeps the tree whole and nested.
LEMMA ClosedFits ==
  ASSUME NEW tree, NEW open, NEW place \in Nat, TreeFits(tree, open, place),
         NEW last \in Nat, place <= last, NEW closed, NEW now,
         \A n \in closed : n = 1 \/ IsOpen(n, open),
         \A n \in 1 .. Len(tree) : IsOpen(n, now) <=> IsOpen(n, open) /\ n \notin closed,
         \A n, c \in 1 .. Len(tree) : n < c /\ IsOpen(n, open) /\ IsOpen(c, now) => IsOpen(n, now),
         NEW shut, shut = Closed(tree, closed, last)
  PROVE  ShutFits(shut, now, last, tree)
<1> DEFINE N == Len(tree)
<1>1. NodesFit(tree, place) /\ OneParent(tree) /\ OpenFit(open, tree) /\ Nested(tree, open)
  BY DEF TreeFits
<1>2. /\ IsList(shut) /\ N \in Nat /\ Len(shut) = N
      /\ \A n \in 1 .. N :
           /\ IsNode(shut[n]) /\ shut[n].start = tree[n].start /\ shut[n].children = tree[n].children
           /\ shut[n].end = IF n \in closed THEN last ELSE tree[n].end
  <2>1. Shut(shut, tree, closed, last)
    BY <1>1, ClosedNodes
  <2> QED
    BY <2>1 DEF Shut
<1>3. /\ N # 0
      /\ \A n \in 1 .. N : tree[n].end <= place /\ tree[n].end \in Nat /\ tree[n].start \in Nat
      /\ \A n \in 1 .. N : \A k \in 1 .. Len(tree[n].children) : tree[n].children[k] \in n + 1 .. N
  <2>1. /\ N # 0
        /\ \A n \in 1 .. N : IsNode(tree[n]) /\ tree[n].end <= place
        /\ \A n \in 1 .. N : \A k \in 1 .. Len(tree[n].children) : tree[n].children[k] \in n + 1 .. N
    BY <1>1 DEF NodesFit
  <2> QED
    BY <2>1, NodeIs
<1>4. NodesFit(shut, last)
  <2>1. ASSUME NEW n \in 1 .. N PROVE IsNode(shut[n]) /\ shut[n].end <= last
    BY <1>2, <1>3
  <2>2. ASSUME NEW n \in 1 .. N, NEW k \in 1 .. Len(shut[n].children) PROVE shut[n].children[k] \in n + 1 .. N
    BY <1>2, <1>3
  <2> QED
    BY <1>2, <1>3, <2>1, <2>2 DEF NodesFit
<1>5. OneParent(shut)
  <2>1. \A n \in 1 .. N : shut[n].children = tree[n].children
    BY <1>2
  <2>2. ASSUME NEW n \in 1 .. N, NEW m \in 1 .. N,
               NEW k \in 1 .. Len(shut[n].children), NEW j \in 1 .. Len(shut[m].children),
               shut[n].children[k] = shut[m].children[j]
        PROVE  n = m /\ k = j
    <3>1. k \in 1 .. Len(tree[n].children) /\ j \in 1 .. Len(tree[m].children)
          /\ tree[n].children[k] = tree[m].children[j]
      BY <2>1, <2>2
    <3> QED
      BY <1>1, <3>1 DEF OneParent
  <2>3. ASSUME NEW c \in 2 .. N
        PROVE  \E n \in 1 .. N : \E k \in 1 .. Len(shut[n].children) : shut[n].children[k] = c
    <3>1. PICK n \in 1 .. N : \E k \in 1 .. Len(tree[n].children) : tree[n].children[k] = c
      BY <1>1 DEF OneParent
    <3> QED
      BY <2>1, <3>1
  <2> QED
    BY <1>2, <2>2, <2>3 DEF OneParent
<1>6. Nested(shut, now)
  <2> SUFFICES ASSUME NEW n \in 1 .. N, NEW k \in 1 .. Len(shut[n].children)
               PROVE  /\ shut[n].start <= shut[shut[n].children[k]].start
                      /\ k # Len(shut[n].children) => shut[shut[n].children[k]].end <= shut[shut[n].children[k + 1]].start
                      /\ IsOpen(shut[n].children[k], now) => k = Len(shut[n].children) /\ (n = 1 \/ IsOpen(n, now))
                      /\ n = 1 \/ IsOpen(n, now) \/ shut[shut[n].children[k]].end <= shut[n].end
    BY <1>2 DEF Nested
  <2> DEFINE c == tree[n].children[k]
             size == Len(tree[n].children)
  <2>1. /\ shut[n].children = tree[n].children /\ k \in 1 .. size
        /\ c \in n + 1 .. N /\ c \in 1 .. N
    BY <1>2, <1>3
  <2>2. /\ tree[n].start <= tree[c].start
        /\ k # size => tree[c].end <= tree[tree[n].children[k + 1]].start
        /\ IsOpen(c, open) => k = size /\ (n = 1 \/ IsOpen(n, open))
        /\ n = 1 \/ IsOpen(n, open) \/ tree[c].end <= tree[n].end
    BY <1>1, <2>1 DEF Nested
  <2>3. size \in Nat
    <3>1. IsNode(shut[n])
      BY <1>2
    <3> QED
      BY <2>1, <3>1, NodeIs
  <2>4. c # 1 /\ n < c
    BY <2>1
  <2>5. /\ shut[n].start = tree[n].start /\ shut[c].start = tree[c].start
        /\ shut[c].end = IF c \in closed THEN last ELSE tree[c].end
        /\ shut[n].end = IF n \in closed THEN last ELSE tree[n].end
        /\ tree[c].end <= place /\ tree[c].end \in Nat /\ tree[n].end \in Nat
    BY <1>2, <1>3, <2>1
  <2>6. k # size => shut[tree[n].children[k + 1]].start = tree[tree[n].children[k + 1]].start
    <3>1. k # size => k + 1 \in 1 .. size
      BY <2>1, <2>3
    <3>2. k # size => tree[n].children[k + 1] \in 1 .. N
      BY <1>2, <1>3, <3>1
    <3> QED
      BY <1>2, <3>2
  <2>7. c \in closed => IsOpen(c, open)
    BY <2>4
  <2>8. IsOpen(c, now) => IsOpen(c, open)
    BY <2>1
  <2>9. IsOpen(n, open) /\ IsOpen(c, now) => IsOpen(n, now)
    BY <2>1, <2>4
  <2>10. IsOpen(n, now) <=> IsOpen(n, open) /\ n \notin closed
    OBVIOUS
  <2> HIDE DEF c, size
  <2>11. k # size => shut[c].end <= shut[tree[n].children[k + 1]].start
    BY <2>2, <2>5, <2>6, <2>7
  <2>12. IsOpen(c, now) => k = size /\ (n = 1 \/ IsOpen(n, now))
    BY <2>2, <2>8, <2>9
  <2>13. n = 1 \/ IsOpen(n, now) \/ shut[c].end <= shut[n].end
    BY <2>2, <2>5, <2>7, <2>10
  <2>14. shut[n].start <= shut[c].start
    BY <2>2, <2>5
  <2>15. shut[n].children[k] = c /\ shut[n].children[k + 1] = tree[n].children[k + 1] /\ Len(shut[n].children) = size
    BY <2>1 DEF c, size
  <2> QED
    BY <2>11, <2>12, <2>13, <2>14, <2>15
<1> QED
  BY <1>2, <1>4, <1>5, <1>6 DEF ShutFits

\* The stack of open elements with the newest on it.
OpensMore(now, open, more, tree) ==
  /\ OpenFit(open, more) /\ OpenFit(now, more)
  /\ \A n \in 1 .. Len(tree) : IsOpen(n, now) <=> IsOpen(n, open)

\* An element may be opened when the tree has it last.
LEMMA OpenedMore ==
  ASSUME NEW tree, NEW open, OpenFit(open, tree), Len(tree) \in Nat, NEW more, Len(more) = Len(tree) + 1,
         NEW now, now = Append(open, Len(tree) + 1)
  PROVE  OpensMore(now, open, more, tree)
<1> DEFINE N == Len(tree)
           size == Len(open)
<1>1. /\ open \in Seq(Nat) /\ size \in Nat
      /\ \A k \in 1 .. size : open[k] \in 1 .. N
      /\ \A j, k \in 1 .. size : j < k => open[j] < open[k]
  BY DEF OpenFit
<1>2. OpenFit(open, more)
  <2>1. \A k \in 1 .. size : open[k] \in 1 .. N + 1
    BY <1>1
  <2> QED
    BY <1>1, <2>1 DEF OpenFit
<1>3. IsList(open)
  BY <1>1, ListOf
<1>4. /\ now \in Seq(Nat) /\ Len(now) = size + 1
      /\ \A k \in 1 .. size : now[k] = open[k]
      /\ now[size + 1] = N + 1
  <2>1. now \in Seq(Nat)
    BY <1>1
  <2>2. /\ Len(Append(open, N + 1)) = size + 1
        /\ \A k \in 1 .. size : Append(open, N + 1)[k] = open[k]
        /\ Append(open, N + 1)[size + 1] = N + 1
    BY <1>3, ListAppended
  <2> QED
    BY <2>1, <2>2
<1> HIDE DEF N, size
<1>5. Len(more) = N + 1 /\ N \in Nat
  BY DEF N
<1>6. ASSUME NEW k \in 1 .. size + 1 PROVE now[k] \in 1 .. N + 1
  <2>1. CASE k = size + 1
    BY <1>4, <1>5, <2>1
  <2>2. CASE k # size + 1
    <3>1. k \in 1 .. size
      BY <1>1, <2>2
    <3> QED
      BY <1>1, <1>4, <1>5, <3>1
  <2> QED
    BY <2>1, <2>2
<1>7. ASSUME NEW j \in 1 .. size + 1, NEW k \in 1 .. size + 1, j < k PROVE now[j] < now[k]
  <2>1. j \in 1 .. size
    BY <1>1, <1>7
  <2>2. CASE k = size + 1
    BY <1>1, <1>4, <1>5, <2>1, <2>2
  <2>3. CASE k # size + 1
    <3>1. k \in 1 .. size
      BY <1>1, <2>3
    <3>2. open[j] < open[k]
      BY <1>1, <1>7, <2>1, <3>1
    <3> QED
      BY <1>4, <2>1, <3>1, <3>2
  <2> QED
    BY <2>2, <2>3
<1>8. OpenFit(now, more)
  BY <1>4, <1>5, <1>6, <1>7 DEF OpenFit
<1>9. ASSUME NEW n \in 1 .. N PROVE IsOpen(n, now) <=> IsOpen(n, open)
  <2>1. ASSUME IsOpen(n, now) PROVE IsOpen(n, open)
    <3>1. PICK k \in 1 .. size + 1 : now[k] = n
      BY <1>4, <2>1 DEF IsOpen
    <3>2. k \in 1 .. size
      BY <1>1, <1>4, <1>5, <3>1
    <3>3. open[k] = n
      BY <1>4, <3>1, <3>2
    <3> QED
      BY <3>2, <3>3 DEF IsOpen, size
  <2>2. ASSUME IsOpen(n, open) PROVE IsOpen(n, now)
    <3>1. PICK k \in 1 .. size : open[k] = n
      BY <2>2 DEF IsOpen, size
    <3>2. k \in 1 .. size + 1 /\ now[k] = n
      BY <1>1, <1>4, <3>1
    <3> QED
      BY <1>4, <3>2 DEF IsOpen
  <2> QED
    BY <2>1, <2>2
<1> QED
  BY <1>2, <1>8, <1>9 DEF N, OpensMore

\* A node is pushed under the top, and opened or not.
LEMMA PushKeeps ==
  ASSUME NEW tree, NEW open, NEW place \in Nat, TreeFits(tree, open, place),
         NEW node, IsNode(node), node.start = place, node.end = place + 1, node.children = <<>>,
         NEW more, more = Pushed(tree, TopOf(open), node)
  PROVE  TreeFits(more, open, place + 1) /\ TreeFits(more, Append(open, Len(tree) + 1), place + 1)
<1>1. OpenFit(open, tree)
  BY DEF TreeFits
<1>2. /\ NodesFit(more, place + 1) /\ OneParent(more) /\ Len(more) = Len(tree) + 1 /\ Len(tree) \in Nat
      /\ \A now : (\A n \in 1 .. Len(tree) : IsOpen(n, now) <=> IsOpen(n, open)) => Nested(more, now)
  BY PushFits
<1> DEFINE now == Append(open, Len(tree) + 1)
<1>0. now = Append(open, Len(tree) + 1)
  OBVIOUS
<1> HIDE DEF now
<1>3. /\ OpenFit(open, more) /\ OpenFit(now, more)
      /\ \A n \in 1 .. Len(tree) : IsOpen(n, now) <=> IsOpen(n, open)
  <2>1. Len(more) = Len(tree) + 1 /\ Len(tree) \in Nat
    BY <1>2
  <2>2. OpensMore(now, open, more, tree)
    BY <1>0, <1>1, <2>1, OpenedMore
  <2> QED
    BY <2>2 DEF OpensMore
<1>4. Nested(more, open)
  BY <1>2
<1>5. Nested(more, now)
  BY <1>2, <1>3
<1>6. TreeFits(more, open, place + 1) /\ TreeFits(more, now, place + 1)
  BY <1>2, <1>3, <1>4, <1>5 DEF TreeFits
<1> QED
  BY <1>6 DEF now

\* An end tag closes the elements from a place of the stack on.
LEMMA CloseKeeps ==
  ASSUME NEW tree, NEW open, NEW place \in Nat, TreeFits(tree, open, place), NEW from \in 1 .. Len(open),
         NEW shut, shut = Closed(tree, {open[j] : j \in from .. Len(open)}, place + 1)
  PROVE  TreeFits(shut, SubSeq(open, 1, from - 1), place + 1)
<1> DEFINE closed == {open[j] : j \in from .. Len(open)}
           now == SubSeq(open, 1, from - 1)
           size == Len(open)
<1>1. NodesFit(tree, place) /\ OpenFit(open, tree)
  BY DEF TreeFits
<1>2. /\ open \in Seq(Nat) /\ size \in Nat
      /\ \A k \in 1 .. size : open[k] \in 1 .. Len(tree)
      /\ \A j, k \in 1 .. size : j < k => open[j] < open[k]
  BY <1>1 DEF OpenFit
<1>3. from - 1 \in Nat /\ from - 1 <= size /\ from \in Nat
  BY <1>2
<1>4. now \in Seq(Nat) /\ Len(now) = from - 1 /\ \A k \in 1 .. from - 1 : now[k] = open[k]
  BY <1>2, <1>3, SubSeqProperties
<1>5. closed = {open[j] : j \in from .. size}
  OBVIOUS
<1> HIDE DEF now, closed, size
<1>6. ASSUME NEW n \in closed PROVE n = 1 \/ IsOpen(n, open)
  <2>1. PICK j \in from .. size : open[j] = n
    BY <1>5
  <2>2. j \in 1 .. size
    BY <1>2, <1>3
  <2> QED
    BY <2>1, <2>2 DEF IsOpen, size
<1>7. ASSUME NEW n, IsOpen(n, now) PROVE \E k \in 1 .. from - 1 : open[k] = n
  BY <1>4, <1>7 DEF IsOpen
<1>8. ASSUME NEW k \in 1 .. from - 1 PROVE IsOpen(open[k], now)
  BY <1>4 DEF IsOpen
<1>9. ASSUME NEW n \in 1 .. Len(tree) PROVE IsOpen(n, now) <=> IsOpen(n, open) /\ n \notin closed
  <2>1. ASSUME IsOpen(n, now) PROVE IsOpen(n, open) /\ n \notin closed
    <3>1. PICK k \in 1 .. from - 1 : open[k] = n
      BY <1>7, <2>1
    <3>2. k \in 1 .. size
      BY <1>2, <1>3
    <3>3. IsOpen(n, open)
      BY <3>1, <3>2 DEF IsOpen, size
    <3>4. ASSUME NEW j \in from .. size PROVE open[j] # n
      <4>1. j \in 1 .. size /\ k < j
        BY <1>2, <1>3
      <4>2. open[k] < open[j] /\ open[k] \in Nat /\ open[j] \in Nat
        BY <1>2, <3>2, <4>1
      <4> QED
        BY <3>1, <4>2
    <3> QED
      BY <1>5, <3>3, <3>4
  <2>2. ASSUME IsOpen(n, open), n \notin closed PROVE IsOpen(n, now)
    <3>1. PICK k \in 1 .. size : open[k] = n
      BY <2>2 DEF IsOpen, size
    <3>2. k \notin from .. size
      BY <1>5, <2>2, <3>1
    <3>3. k \in 1 .. from - 1
      BY <1>2, <1>3, <3>2
    <3> QED
      BY <1>8, <3>1, <3>3
  <2> QED
    BY <2>1, <2>2
<1>10. ASSUME NEW n \in 1 .. Len(tree), NEW c \in 1 .. Len(tree), n < c, IsOpen(n, open), IsOpen(c, now)
       PROVE  IsOpen(n, now)
  <2>1. PICK k \in 1 .. size : open[k] = n
    BY <1>10 DEF IsOpen, size
  <2>2. PICK j \in 1 .. from - 1 : open[j] = c
    BY <1>7, <1>10
  <2>3. j \in 1 .. size
    BY <1>2, <1>3
  <2>4. k <= j
    <3>1. ~(j < k)
      <4>1. j < k => c < n
        BY <1>2, <2>1, <2>2, <2>3
      <4>2. n \in Nat /\ c \in Nat
        BY <1>2, <2>1, <2>2, <2>3
      <4> QED
        BY <1>10, <4>1, <4>2
    <3> QED
      BY <1>2, <2>3, <3>1
  <2>5. k \in 1 .. from - 1
    BY <1>2, <1>3, <2>4
  <2> QED
    BY <1>8, <2>1, <2>5
<1>11. NodesFit(shut, place + 1) /\ OneParent(shut) /\ Nested(shut, now) /\ Len(shut) = Len(tree)
  <2>1. place + 1 \in Nat /\ place <= place + 1 /\ shut = Closed(tree, closed, place + 1)
    BY DEF closed
  <2>2. \A n \in closed : n = 1 \/ IsOpen(n, open)
    BY <1>6
  <2>3. \A n \in 1 .. Len(tree) : IsOpen(n, now) <=> IsOpen(n, open) /\ n \notin closed
    BY <1>9
  <2>4. \A n, c \in 1 .. Len(tree) : n < c /\ IsOpen(n, open) /\ IsOpen(c, now) => IsOpen(n, now)
    BY <1>10
  <2>5. ShutFits(shut, now, place + 1, tree)
    BY <2>1, <2>2, <2>3, <2>4, ClosedFits
  <2> QED
    BY <2>5 DEF ShutFits
<1>12. OpenFit(now, shut)
  <2>1. \A k \in 1 .. from - 1 : now[k] = open[k] /\ k \in 1 .. size
    BY <1>2, <1>3, <1>4
  <2>2. \A k \in 1 .. from - 1 : now[k] \in 1 .. Len(shut)
    BY <1>2, <1>11, <2>1
  <2>3. \A j, k \in 1 .. from - 1 : j < k => now[j] < now[k]
    BY <1>2, <2>1
  <2> QED
    BY <1>4, <2>2, <2>3 DEF OpenFit
<1>13. TreeFits(shut, now, place + 1)
  BY <1>11, <1>12 DEF TreeFits
<1> QED
  BY <1>13 DEF now

\* The root alone, where every attempt starts.
LEMMA RootFits ==
  ASSUME NEW tree, tree = <<Root>>, NEW open \in Seq(Nat), Len(open) = 1, open[1] = 1
  PROVE  TreeFits(tree, open, 0)
<1>1. IsNode(Root) /\ Root.children = <<>> /\ Root.end = 0
  BY DEF Root, IsNode
<1>2. Len(tree) = 1 /\ tree[1] = Root /\ tree = [n \in 1 .. 1 |-> tree[n]]
  OBVIOUS
<1> HIDE DEF Root
<1>3. IsList(tree)
  BY <1>2, ListMade
<1>4. Len(Root.children) = 0
  BY <1>1
<1>5. \A n \in 1 .. Len(tree) : n = 1 /\ tree[n] = Root /\ Len(tree[n].children) = 0
  BY <1>2, <1>4
<1>6. NodesFit(tree, 0)
  <2>1. \A n \in 1 .. Len(tree) : IsNode(tree[n]) /\ tree[n].end <= 0
    BY <1>1, <1>5
  <2>2. \A n \in 1 .. Len(tree) : \A k \in 1 .. Len(tree[n].children) : tree[n].children[k] \in n + 1 .. Len(tree)
    BY <1>5
  <2> QED
    BY <1>2, <1>3, <2>1, <2>2 DEF NodesFit
<1>7. OneParent(tree)
  BY <1>2, <1>5 DEF OneParent
<1>8. OpenFit(open, tree)
  BY <1>2 DEF OpenFit
<1>9. Nested(tree, open)
  BY <1>5 DEF Nested
<1> QED
  BY <1>6, <1>7, <1>8, <1>9 DEF TreeFits

\* The end of the document, which closes the root and every element but one taken for it.
LEMMA FinishFits ==
  ASSUME NEW tree, NEW open, NEW place \in Nat, TreeFits(tree, open, place),
         NEW shut, shut = Closed(tree, {1} \cup {open[k] : k \in 2 .. Len(open)}, place)
  PROVE  /\ NodesFit(shut, place) /\ OneParent(shut) /\ shut[1].end = place
         /\ open = <<>> \/ open[1] = 1 => Nested(shut, <<>>)
<1> DEFINE closed == {1} \cup {open[k] : k \in 2 .. Len(open)}
           taken == open # <<>> /\ open[1] # 1
           now == IF taken THEN <<open[1]>> ELSE <<>>
<1>1. /\ NodesFit(tree, place) /\ OpenFit(open, tree) /\ place <= place
  BY DEF TreeFits
<1>2. /\ open \in Seq(Nat) /\ Len(open) \in Nat
      /\ \A k \in 1 .. Len(open) : open[k] \in 1 .. Len(tree)
      /\ \A j, k \in 1 .. Len(open) : j < k => open[j] < open[k]
  BY <1>1 DEF OpenFit
<1>3. open # <<>> => 1 \in 1 .. Len(open)
  BY <1>2
<1>4. ASSUME NEW n PROVE IsOpen(n, now) <=> taken /\ n = open[1]
  <2>1. CASE taken
    <3>1. Len(<<open[1]>>) = 1 /\ <<open[1]>>[1] = open[1]
      OBVIOUS
    <3> QED
      BY <2>1, <3>1 DEF IsOpen
  <2>2. CASE ~taken
    <3>1. now = <<>> /\ Len(<<>>) = 0
      BY <2>2
    <3> HIDE DEF now, taken
    <3> QED
      BY <2>2, <3>1 DEF IsOpen
  <2> QED
    BY <2>1, <2>2
<1>5. ~taken => now = <<>>
  OBVIOUS
<1>6. ASSUME NEW n PROVE n \in closed <=> n = 1 \/ (\E k \in 2 .. Len(open) : open[k] = n)
  OBVIOUS
<1>7. taken <=> open # <<>> /\ open[1] # 1
  OBVIOUS
<1>8. shut = Closed(tree, closed, place)
  OBVIOUS
<1> HIDE DEF now, taken, closed
<1>9. \A n \in closed : n = 1 \/ IsOpen(n, open)
  <2> TAKE n \in closed
  <2>1. ASSUME NEW k \in 2 .. Len(open), open[k] = n PROVE IsOpen(n, open)
    BY <1>2, <2>1 DEF IsOpen
  <2> QED
    BY <1>6, <2>1
<1>10. ASSUME NEW n \in 1 .. Len(tree) PROVE IsOpen(n, now) <=> IsOpen(n, open) /\ n \notin closed
  <2>1. ASSUME taken, n = open[1] PROVE IsOpen(n, open) /\ n \notin closed
    <3>1. 1 \in 1 .. Len(open) /\ n # 1
      BY <1>3, <1>7, <2>1
    <3>2. IsOpen(n, open)
      BY <2>1, <3>1 DEF IsOpen
    <3>3. ASSUME NEW k \in 2 .. Len(open) PROVE open[k] # n
      <4>1. k \in 1 .. Len(open) /\ 1 < k
        BY <1>2
      <4>2. open[1] < open[k] /\ open[1] \in Nat /\ open[k] \in Nat
        BY <1>2, <3>1, <4>1
      <4> QED
        BY <2>1, <4>2
    <3> QED
      BY <1>6, <3>1, <3>2, <3>3
  <2>2. ASSUME IsOpen(n, open), n \notin closed PROVE taken /\ n = open[1]
    <3>1. PICK k \in 1 .. Len(open) : open[k] = n
      BY <2>2 DEF IsOpen
    <3>2. n # 1 /\ k \notin 2 .. Len(open)
      BY <1>6, <2>2, <3>1
    <3>3. k = 1
      BY <1>2, <3>2
    <3>4. open # <<>>
      BY <1>2, <3>1
    <3> QED
      BY <1>7, <3>1, <3>2, <3>3, <3>4
  <2> QED
    BY <1>4, <2>1, <2>2
<1>11. ASSUME NEW n \in 1 .. Len(tree), NEW c \in 1 .. Len(tree), n < c, IsOpen(n, open), IsOpen(c, now)
       PROVE  IsOpen(n, now)
  <2>1. taken /\ c = open[1] /\ 1 \in 1 .. Len(open)
    BY <1>3, <1>4, <1>7, <1>11
  <2>2. PICK k \in 1 .. Len(open) : open[k] = n
    BY <1>11 DEF IsOpen
  <2>3. CASE k = 1
    BY <1>4, <2>1, <2>2, <2>3
  <2>4. CASE k # 1
    <3>1. 1 < k
      BY <1>2, <2>4
    <3>2. c < n
      BY <1>2, <2>1, <2>2, <3>1
    <3> QED
      BY <1>1, <1>11, <3>2
  <2> QED
    BY <2>3, <2>4
<1>12. \A n \in 1 .. Len(tree) : IsOpen(n, now) <=> IsOpen(n, open) /\ n \notin closed
  BY <1>10
<1>13. \A n, c \in 1 .. Len(tree) : n < c /\ IsOpen(n, open) /\ IsOpen(c, now) => IsOpen(n, now)
  BY <1>11
<1>14. NodesFit(shut, place) /\ OneParent(shut) /\ Nested(shut, now) /\ Len(shut) = Len(tree)
  <2>1. ShutFits(shut, now, place, tree)
    BY <1>1, <1>8, <1>9, <1>12, <1>13, ClosedFits
  <2> QED
    BY <2>1 DEF ShutFits
<1>15. shut[1].end = place
  <2>1. Shut(shut, tree, closed, place)
    BY <1>1, <1>8, ClosedNodes
  <2>2. Len(tree) # 0 /\ 1 \in closed
    BY <1>1, <1>6 DEF NodesFit
  <2> QED
    BY <2>1, <2>2 DEF Shut
<1>16. open = <<>> \/ open[1] = 1 => Nested(shut, <<>>)
  BY <1>5, <1>7, <1>14
<1> QED
  BY <1>14, <1>15, <1>16

\* A closed tree nests.
LEMMA ClosedNests ==
  ASSUME NEW tree, NEW place \in Nat, NodesFit(tree, place), Nested(tree, <<>>), tree[1].end = place
  PROVE  \A n \in DOMAIN tree : LET kids == tree[n].children IN
           /\ \A k \in DOMAIN kids : tree[n].start <= tree[kids[k]].start /\ tree[kids[k]].end <= tree[n].end
           /\ \A k \in 1 .. Len(kids) - 1 : tree[kids[k]].end <= tree[kids[k + 1]].start
<1>1. /\ IsList(tree) /\ Len(tree) \in Nat /\ DOMAIN tree = 1 .. Len(tree)
      /\ \A n \in 1 .. Len(tree) : IsNode(tree[n]) /\ tree[n].end <= place
      /\ \A n \in 1 .. Len(tree) : \A k \in 1 .. Len(tree[n].children) : tree[n].children[k] \in n + 1 .. Len(tree)
  BY ListShape DEF NodesFit
<1>2. \A n : ~IsOpen(n, <<>>)
  BY DEF IsOpen
<1> SUFFICES ASSUME NEW n \in 1 .. Len(tree)
             PROVE  /\ \A k \in DOMAIN tree[n].children :
                         tree[n].start <= tree[tree[n].children[k]].start /\ tree[tree[n].children[k]].end <= tree[n].end
                    /\ \A k \in 1 .. Len(tree[n].children) - 1 :
                         tree[tree[n].children[k]].end <= tree[tree[n].children[k + 1]].start
  BY <1>1
<1>3. tree[n].children \in Seq(Nat) /\ Len(tree[n].children) \in Nat /\ DOMAIN tree[n].children = 1 .. Len(tree[n].children)
  BY <1>1, NodeIs
<1>4. \A k \in 1 .. Len(tree[n].children) :
        /\ tree[n].start <= tree[tree[n].children[k]].start
        /\ k # Len(tree[n].children) => tree[tree[n].children[k]].end <= tree[tree[n].children[k + 1]].start
        /\ n = 1 \/ tree[tree[n].children[k]].end <= tree[n].end
  BY <1>2 DEF Nested
<1>5. ASSUME NEW k \in 1 .. Len(tree[n].children), n = 1 PROVE tree[tree[n].children[k]].end <= tree[n].end
  BY <1>1, <1>5
<1>6. ASSUME NEW k \in 1 .. Len(tree[n].children) - 1
      PROVE  k \in 1 .. Len(tree[n].children) /\ k # Len(tree[n].children)
  BY <1>3
<1> QED
  BY <1>3, <1>4, <1>5, <1>6

-----------------------------------------------------------------------------
(* Texts *)

\* The nodes of a tree are those of the pieces up to a place, in their order, and every text has one.
Reads(tree, document, place) ==
  /\ \A n \in 2 .. Len(tree) : tree[n].start < place
  /\ \A n, m \in 2 .. Len(tree) : n < m => tree[n].start < tree[m].start
  /\ \A n \in 1 .. Len(tree) : tree[n].kind = "text" => document[tree[n].start + 1].kind = "text"
  /\ \A p \in 1 .. place : document[p].kind = "text" =>
       \E n \in 1 .. Len(tree) :
         tree[n].kind = "text" /\ tree[n].attrs = document[p].attrs /\ tree[n].start = p - 1

\* The root alone has read nothing.
LEMMA RootReads ==
  ASSUME NEW tree, tree = <<Root>>, NEW document
  PROVE  Reads(tree, document, 0)
<1>1. Len(tree) = 1 /\ tree[1].kind = "element"
  BY DEF Root
<1>2. \A n \in 1 .. Len(tree) : n = 1
  BY <1>1
<1>3. \A n \in 2 .. Len(tree) : FALSE
  BY <1>1
<1>4. \A n \in 1 .. Len(tree) : tree[n].kind # "text"
  BY <1>1, <1>2
<1>5. \A p \in 1 .. 0 : FALSE
  OBVIOUS
<1> HIDE DEF Root
<1> QED
  BY <1>3, <1>4, <1>5 DEF Reads

\* A piece that is no text needs no node.
LEMMA OnReads ==
  ASSUME NEW tree, NEW place \in Nat, NodesFit(tree, place), NEW document, Reads(tree, document, place),
         document[place + 1].kind # "text"
  PROVE  Reads(tree, document, place + 1)
<1>1. \A n \in 1 .. Len(tree) : tree[n].start \in Nat
  BY NodeIs DEF NodesFit
<1>2. \A n \in 2 .. Len(tree) : tree[n].start < place + 1
  <2> TAKE n \in 2 .. Len(tree)
  <2>1. n \in 1 .. Len(tree) /\ tree[n].start < place
    <3>1. Len(tree) \in Nat
      BY ListShape DEF NodesFit
    <3> QED
      BY <3>1 DEF Reads
  <2> QED
    BY <1>1, <2>1
<1>3. \A p \in 1 .. place + 1 : p \in 1 .. place \/ p = place + 1
  OBVIOUS
<1> QED
  BY <1>2, <1>3 DEF Reads

\* The node that is pushed is that of the next piece.
LEMMA PushReads ==
  ASSUME NEW tree, NEW place \in Nat, NodesFit(tree, place), NEW top \in 1 .. Len(tree), NEW node, NEW more,
         Grown(more, tree, top, node), NEW document, Reads(tree, document, place),
         node.start = place, node.attrs = document[place + 1].attrs,
         node.kind = "text" <=> document[place + 1].kind = "text"
  PROVE  Reads(more, document, place + 1)
<1> DEFINE N == Len(tree)
<1>1. /\ N \in Nat /\ N # 0 /\ \A n \in 1 .. N : tree[n].start \in Nat
  BY NodeIs, ListShape DEF NodesFit
<1>2. /\ Len(more) = N + 1 /\ more[N + 1] = node
      /\ \A n \in 1 .. N : more[n].start = tree[n].start /\ more[n].kind = tree[n].kind /\ more[n].attrs = tree[n].attrs
  BY DEF Grown
<1>3. /\ \A n \in 2 .. N : tree[n].start < place
      /\ \A n, m \in 2 .. N : n < m => tree[n].start < tree[m].start
      /\ \A n \in 1 .. N : tree[n].kind = "text" => document[tree[n].start + 1].kind = "text"
      /\ \A p \in 1 .. place : document[p].kind = "text" =>
           \E n \in 1 .. N :
             tree[n].kind = "text" /\ tree[n].attrs = document[p].attrs /\ tree[n].start = p - 1
  BY DEF Reads
<1> HIDE DEF N
<1>4. ASSUME NEW n \in 2 .. N + 1 PROVE n = N + 1 \/ (n \in 2 .. N /\ n \in 1 .. N)
  BY <1>1
<1>5. \A n \in 2 .. N + 1 : more[n].start < place + 1
  <2> TAKE n \in 2 .. N + 1
  <2>1. CASE n = N + 1
    BY <1>2, <2>1
  <2>2. CASE n \in 2 .. N /\ n \in 1 .. N
    BY <1>1, <1>2, <1>3, <2>2
  <2> QED
    BY <1>4, <2>1, <2>2
<1>6. ASSUME NEW n \in 2 .. N + 1, NEW m \in 2 .. N + 1, n < m PROVE more[n].start < more[m].start
  <2>1. n \in 2 .. N /\ n \in 1 .. N
    BY <1>1, <1>6
  <2>2. more[n].start = tree[n].start /\ tree[n].start < place
    BY <1>2, <1>3, <2>1
  <2>3. CASE m = N + 1
    BY <1>2, <2>2, <2>3
  <2>4. CASE m \in 2 .. N /\ m \in 1 .. N
    <3>1. more[m].start = tree[m].start /\ tree[n].start < tree[m].start
      BY <1>2, <1>3, <1>6, <2>1, <2>4
    <3> QED
      BY <2>2, <3>1
  <2> QED
    BY <1>4, <2>3, <2>4
<1>7. ASSUME NEW n \in 1 .. N + 1, more[n].kind = "text" PROVE document[more[n].start + 1].kind = "text"
  <2>1. CASE n = N + 1
    BY <1>2, <1>7, <2>1
  <2>2. CASE n # N + 1
    <3>1. n \in 1 .. N
      BY <1>1, <2>2
    <3> QED
      BY <1>2, <1>3, <1>7, <3>1
  <2> QED
    BY <2>1, <2>2
<1>8. ASSUME NEW p \in 1 .. place + 1, document[p].kind = "text"
      PROVE  \E n \in 1 .. N + 1 :
               more[n].kind = "text" /\ more[n].attrs = document[p].attrs /\ more[n].start = p - 1
  <2>1. CASE p = place + 1
    <3>1. N + 1 \in 1 .. N + 1 /\ p - 1 = place
      BY <1>1, <2>1
    <3> QED
      BY <1>2, <1>8, <2>1, <3>1
  <2>2. CASE p # place + 1
    <3>1. p \in 1 .. place
      BY <2>2
    <3>2. PICK n \in 1 .. N : tree[n].kind = "text" /\ tree[n].attrs = document[p].attrs /\ tree[n].start = p - 1
      BY <1>3, <1>8, <3>1
    <3>3. n \in 1 .. N + 1
      BY <1>1
    <3> QED
      BY <1>2, <3>2, <3>3
  <2> QED
    BY <2>1, <2>2
<1> QED
  BY <1>2, <1>5, <1>6, <1>7, <1>8 DEF Reads

\* Closing elements changes no text and no order.
LEMMA ShutReads ==
  ASSUME NEW tree, NEW place, NEW document, Reads(tree, document, place),
         NEW shut, NEW closed, NEW last, Shut(shut, tree, closed, last)
  PROVE  Reads(shut, document, place)
<1>1. /\ Len(shut) = Len(tree) /\ Len(tree) \in Nat
      /\ \A n \in 1 .. Len(tree) :
           shut[n].start = tree[n].start /\ shut[n].kind = tree[n].kind /\ shut[n].attrs = tree[n].attrs
  BY DEF Shut
<1>2. \A n \in 2 .. Len(tree) : n \in 1 .. Len(tree)
  BY <1>1
<1> QED
  BY <1>1, <1>2 DEF Reads

-----------------------------------------------------------------------------
(* Reading a document *)

\* A tree that was read is whole.
TreeWhole == reading = "parsed" => NodesFit(nodes, Len(tokens)) /\ OneParent(nodes)

\* The invariant: the tree fits while it is built, and is what it should be once it is read.
TreeInv ==
  /\ source \in Documents
  /\ Len(tokens) \in Nat /\ pos \in Nat
  /\ reading = "tree" =>
       /\ pos <= Len(tokens) /\ TreeFits(nodes, stack, pos)
       /\ tokens = source /\ Reads(nodes, source, pos)
  /\ TreeWhole
  /\ RangesNest
  /\ TextsInTree

\* Nothing is read at first.
LEMMA TreeStarts == TreeInit => TreeInv
<1> HAVE TreeInit
<1>1. Len(<<>>) = 0 /\ tokens = <<>> /\ pos = 0 /\ reading = "tokenize"
  BY DEF TreeInit
<1> QED
  BY <1>1 DEF TreeInit, TreeInv, TreeWhole, RangesNest, TextsInTree

\* An attempt starts with the root.
LEMMA AttemptFits ==
  ASSUME NEW mode, Attempt(mode), Len(tokens') \in Nat, source' \in Documents, tokens' = source'
  PROVE  TreeInv'
<1>1. reading' = "tree" /\ nodes' = <<Root>> /\ stack' = <<1>> /\ pos' = 0
  BY DEF Attempt
<1>2. TreeFits(nodes', stack', 0)
  <2>1. stack' \in Seq(Nat) /\ Len(stack') = 1 /\ stack'[1] = 1
    BY <1>1
  <2> QED
    BY <1>1, <2>1, RootFits
<1>3. 0 <= Len(tokens')
  OBVIOUS
<1>4. Reads(nodes', source', 0)
  BY <1>1, RootReads
<1> QED
  BY <1>1, <1>2, <1>3, <1>4 DEF TreeInv, TreeWhole, RangesNest, TextsInTree

\* A node for a token.
LEMMA NodeOfFits ==
  ASSUME NEW token, pos \in Nat
  PROVE  /\ IsNode(NodeOf(token)) /\ NodeOf(token).start = pos /\ NodeOf(token).end = pos + 1
         /\ NodeOf(token).children = <<>> /\ NodeOf(token).attrs = token.attrs
         /\ NodeOf(token).kind = "text" <=> token.kind = "text"
<1> DEFINE kind == IF token.kind = "text" THEN "text" ELSE "element"
           node == [kind |-> kind, name |-> token.name, attrs |-> token.attrs, start |-> pos, end |-> pos + 1,
                    children |-> <<>>]
<1>1. NodeOf(token) = node
  BY DEF NodeOf
<1>0. kind = "text" <=> token.kind = "text"
  OBVIOUS
<1> HIDE DEF kind
<1>2. /\ node.start = pos /\ node.end = pos + 1 /\ node.children = <<>> /\ node.kind = kind
      /\ node.name = token.name /\ node.attrs = token.attrs
  OBVIOUS
<1>3. IsNode(node)
  <2>1. node = [kind |-> node.kind, name |-> node.name, attrs |-> node.attrs, start |-> node.start,
                end |-> node.end, children |-> node.children]
    OBVIOUS
  <2>2. node.start \in Nat /\ node.end \in Nat /\ node.start <= node.end /\ node.children \in Seq(Nat)
    OBVIOUS
  <2> QED
    BY <2>1, <2>2 DEF IsNode
<1> QED
  BY <1>0, <1>1, <1>2, <1>3

\* A node that is pushed, with the stack as it was or the node on it.
LEMMA PushStep ==
  ASSUME TreeInv, reading = "tree", pos < Len(tokens), NEW token, token = Next1, PushChild(NodeOf(token)),
         stack' = stack \/ stack' = Append(stack, Len(nodes) + 1),
         pos' = pos + 1, UNCHANGED <<source, tokens, reading>>
  PROVE  TreeInv'
<1>1. /\ Len(tokens) \in Nat /\ pos \in Nat /\ TreeFits(nodes, stack, pos) /\ source' \in Documents
      /\ tokens = source /\ Reads(nodes, source, pos)
  BY DEF TreeInv
<1> DEFINE node == NodeOf(token)
<1>2. /\ IsNode(node) /\ node.start = pos /\ node.end = pos + 1 /\ node.children = <<>>
      /\ node.attrs = source[pos + 1].attrs
      /\ node.kind = "text" <=> source[pos + 1].kind = "text"
  BY <1>1, NodeOfFits DEF Next1
<1> HIDE DEF node
<1>3. nodes' = Pushed(nodes, TopOf(stack), node)
  BY DEF PushChild, Pushed, Top, TopOf, node
<1>4. TreeFits(nodes', stack, pos + 1) /\ TreeFits(nodes', Append(stack, Len(nodes) + 1), pos + 1)
  BY <1>1, <1>2, <1>3, PushKeeps
<1>5. TreeFits(nodes', stack', pos')
  BY <1>4
<1>6. pos' \in Nat /\ pos' <= Len(tokens') /\ Len(tokens') \in Nat
  BY <1>1
<1>7. NodesFit(nodes, pos) /\ OpenFit(stack, nodes)
  BY <1>1 DEF TreeFits
<1>8. TopOf(stack) \in 1 .. Len(nodes)
  BY <1>1, <1>7, TopIs
<1>9. Grown(nodes', nodes, TopOf(stack), node)
  BY <1>1, <1>2, <1>3, <1>7, <1>8, PushedNodes
<1>10. Reads(nodes', source, pos + 1)
  BY <1>1, <1>2, <1>7, <1>8, <1>9, PushReads
<1>11. Reads(nodes', source', pos') /\ tokens' = source' /\ reading' = "tree"
  BY <1>1, <1>10
<1> QED
  BY <1>1, <1>5, <1>6, <1>11 DEF TreeInv, TreeWhole, RangesNest, TextsInTree

\* The end tag of an open element.
LEMMA CloseStep ==
  ASSUME TreeInv, CloseElement
  PROVE  TreeInv'
<1>1. /\ Len(tokens) \in Nat /\ pos \in Nat /\ TreeFits(nodes, stack, pos) /\ pos < Len(tokens)
      /\ reading' = "tree" /\ pos' = pos + 1 /\ tokens' = tokens /\ source' \in Documents
      /\ tokens = source /\ tokens' = source' /\ Reads(nodes, source, pos) /\ source[pos + 1].kind = "end"
  BY DEF TreeInv, CloseElement, Next1
<1> DEFINE places == Named(Next1.name)
           from == Max(places)
<1>2. places # {} /\ CloseTo(from)
  BY DEF CloseElement
<1>3. stack \in Seq(Nat) /\ Len(stack) \in Nat /\ DOMAIN stack = 1 .. Len(stack)
  BY <1>1 DEF TreeFits, OpenFit
<1>4. places \subseteq 1 .. Len(stack)
  BY <1>3 DEF Named
<1> HIDE DEF places, from
<1>5. from \in 1 .. Len(stack)
  <2>1. Max(places) \in places
    BY <1>2, <1>3, <1>4, MaxOf
  <2> QED
    BY <1>4, <2>1 DEF from
<1>6. /\ nodes' = Closed(nodes, {stack[j] : j \in from .. Len(stack)}, pos + 1)
      /\ stack' = SubSeq(stack, 1, from - 1)
  BY <1>2 DEF CloseTo, EndAt, Closed
<1>7. TreeFits(nodes', stack', pos')
  BY <1>1, <1>5, <1>6, CloseKeeps
<1>8. pos' \in Nat /\ pos' <= Len(tokens') /\ Len(tokens') \in Nat
  BY <1>1
<1>9. NodesFit(nodes, pos) /\ pos + 1 \in Nat /\ pos <= pos + 1
  BY <1>1 DEF TreeFits
<1>10. Shut(nodes', nodes, {stack[j] : j \in from .. Len(stack)}, pos + 1)
  BY <1>1, <1>6, <1>9, ClosedNodes
<1>11. Reads(nodes, source, pos + 1)
  BY <1>1, <1>9, OnReads
<1>12. Reads(nodes', source', pos')
  BY <1>1, <1>10, <1>11, ShutReads
<1> QED
  BY <1>1, <1>7, <1>8, <1>12 DEF TreeInv, TreeWhole, RangesNest, TextsInTree

\* The end of the document.
LEMMA FinishStep ==
  ASSUME TreeInv, FinishTree
  PROVE  TreeInv'
<1>1. /\ Len(tokens) \in Nat /\ pos \in Nat /\ TreeFits(nodes, stack, pos) /\ pos = Len(tokens)
      /\ reading' = "parsed" /\ pos' = pos /\ tokens' = tokens /\ stack' = stack /\ source' \in Documents
      /\ nodes' = EndAt({1} \cup {stack[k] : k \in 2 .. Len(stack)}, Len(tokens))
      /\ tokens = source /\ source' = source /\ Reads(nodes, source, pos) /\ source \in Documents
  BY DEF TreeInv, FinishTree
<1>2. nodes' = Closed(nodes, {1} \cup {stack[k] : k \in 2 .. Len(stack)}, pos)
  BY <1>1 DEF EndAt, Closed
<1>3. /\ NodesFit(nodes', pos) /\ OneParent(nodes') /\ nodes'[1].end = pos
      /\ stack = <<>> \/ stack[1] = 1 => Nested(nodes', <<>>)
  BY <1>1, <1>2, FinishFits
<1>4. ASSUME ~TakenForRoot'
      PROVE  \A n \in DOMAIN nodes' : LET kids == nodes'[n].children IN
               /\ \A k \in DOMAIN kids : nodes'[n].start <= nodes'[kids[k]].start /\ nodes'[kids[k]].end <= nodes'[n].end
               /\ \A k \in 1 .. Len(kids) - 1 : nodes'[kids[k]].end <= nodes'[kids[k + 1]].start
  <2>1. Nested(nodes', <<>>)
    BY <1>1, <1>3, <1>4 DEF TakenForRoot
  <2>2. pos \in Nat /\ NodesFit(nodes', pos) /\ nodes'[1].end = pos
    BY <1>1, <1>3
  <2> QED
    BY <2>1, <2>2, ClosedNests
<1>5. RangesNest'
  BY <1>4 DEF RangesNest
<1>6. TreeWhole'
  BY <1>1, <1>3 DEF TreeWhole
<1>7. TextsInTree'
  <2>1. NodesFit(nodes, pos) /\ pos <= pos
    BY <1>1 DEF TreeFits
  <2>2. Shut(nodes', nodes, {1} \cup {stack[k] : k \in 2 .. Len(stack)}, pos)
    BY <1>1, <1>2, <2>1, ClosedNodes
  <2>3. Reads(nodes', source, pos)
    BY <1>1, <2>2, ShutReads
  <2>4. DOMAIN source = 1 .. pos
    <3>1. source \in Seq(Range(source))
      BY <1>1, TreeAssumption
    <3> QED
      BY <1>1, <3>1, LenProperties
  <2>5. DOMAIN nodes' = 1 .. Len(nodes')
    BY <1>3, ListShape DEF NodesFit
  <2>6. source' = source
    BY <1>1
  <2>7. /\ \A p \in 1 .. pos : source[p].kind = "text" =>
             \E n \in 1 .. Len(nodes') :
               nodes'[n].kind = "text" /\ nodes'[n].attrs = source[p].attrs /\ nodes'[n].start = p - 1
        /\ \A n \in 1 .. Len(nodes') : nodes'[n].kind = "text" => source[nodes'[n].start + 1].kind = "text"
        /\ \A n, m \in 2 .. Len(nodes') : n < m => nodes'[n].start < nodes'[m].start
    BY <2>3 DEF Reads
  <2> QED
    BY <2>4, <2>5, <2>6, <2>7 DEF TextsInTree
<1> QED
  BY <1>1, <1>5, <1>6, <1>7 DEF TreeInv

\* A tree that fits up to a place fits up to the next.
LEMMA FitsOn ==
  ASSUME NEW tree, NEW open, NEW place \in Nat, TreeFits(tree, open, place)
  PROVE  TreeFits(tree, open, place + 1)
<1>1. NodesFit(tree, place)
  BY DEF TreeFits
<1>2. \A n \in 1 .. Len(tree) : tree[n].end \in Nat /\ tree[n].end <= place
  BY <1>1, NodeIs DEF NodesFit
<1>3. \A n \in 1 .. Len(tree) : tree[n].end <= place + 1
  BY <1>2
<1>4. NodesFit(tree, place + 1)
  BY <1>1, <1>3 DEF NodesFit
<1> QED
  BY <1>4 DEF TreeFits

\* Every step of reading a document keeps the tree whole.
LEMMA TreeStep ==
  ASSUME TreeInv, [TreeNext]_treeVars
  PROVE  TreeInv'
<1>1. CASE UNCHANGED treeVars
  BY <1>1 DEF TreeInv, treeVars, TreeWhole, RangesNest, TextsInTree, TakenForRoot
<1>2. CASE Tokenize
  <2>1. tokens' = source /\ source' = source /\ Attempt("Strict")
    BY <1>2 DEF Tokenize
  <2>2. source \in Documents
    BY DEF TreeInv
  <2>3. Len(source) \in Nat
    <3>1. source \in Seq(Range(source))
      BY <2>2, TreeAssumption
    <3> QED
      BY <3>1, LenProperties
  <2> QED
    BY <2>1, <2>2, <2>3, AttemptFits
<1>3. CASE OpenElement
  <2>1. /\ reading = "tree" /\ pos < Len(tokens) /\ PushChild(NodeOf(Next1)) /\ pos' = pos + 1
        /\ stack' = stack \/ stack' = Append(stack, Len(nodes) + 1)
        /\ UNCHANGED <<source, tokens, reading>>
    BY <1>3 DEF OpenElement
  <2> QED
    BY <2>1, PushStep
<1>4. CASE AddText
  <2>1. /\ reading = "tree" /\ pos < Len(tokens) /\ PushChild(NodeOf(Next1)) /\ pos' = pos + 1
        /\ stack' = stack /\ UNCHANGED <<source, tokens, reading>>
    BY <1>4 DEF AddText
  <2> QED
    BY <2>1, PushStep
<1>5. CASE Skip \/ StrayEnd
  <2>1. /\ reading = "tree" /\ pos < Len(tokens) /\ pos' = pos + 1
        /\ UNCHANGED <<source, tokens, reading, nodes, stack>> /\ tokens[pos + 1].kind # "text"
    BY <1>5 DEF Skip, StrayEnd, Next1
  <2>2. /\ Len(tokens) \in Nat /\ pos \in Nat /\ TreeFits(nodes, stack, pos) /\ source \in Documents
        /\ tokens = source /\ Reads(nodes, source, pos) /\ NodesFit(nodes, pos)
    BY <2>1 DEF TreeInv, TreeFits
  <2>3. TreeFits(nodes, stack, pos + 1)
    BY <2>2, FitsOn
  <2>4. pos + 1 \in Nat /\ pos + 1 <= Len(tokens)
    BY <2>1, <2>2
  <2>5. Reads(nodes, source, pos + 1)
    BY <2>1, <2>2, OnReads
  <2> QED
    BY <2>1, <2>2, <2>3, <2>4, <2>5 DEF TreeInv, TreeWhole, RangesNest, TextsInTree
<1>6. CASE CloseElement
  BY <1>6, CloseStep
<1>7. CASE FinishTree
  BY <1>7, FinishStep
<1>8. CASE GiveUp
  <2>1. source' = source /\ tokens' = tokens /\ source \in Documents /\ Len(tokens) \in Nat
    BY <1>8 DEF GiveUp, TreeInv
  <2>2. CASE reading = "tree" /\ Attempt("Compatible")
    <3>1. tokens = source
      BY <2>2 DEF TreeInv
    <3> QED
      BY <2>1, <2>2, <3>1, AttemptFits
  <2>3. CASE reading' \in {"refused", "salvage"} /\ pos' = pos
    BY <2>1, <2>3 DEF TreeInv, TreeWhole, RangesNest, TextsInTree
  <2> QED
    BY <1>8, <2>2, <2>3 DEF GiveUp
<1> QED
  BY <1>1, <1>2, <1>3, <1>4, <1>5, <1>6, <1>7, <1>8 DEF TreeNext

\* However broken the markup of a document and whatever had to be repaired, every node of its
\* tree has one parent, and the source ranges follow the tree, unless an element behind the end
\* tag of the root was taken for it (build_xhtml_tree and close_xhtml_element in epub.rs).
THEOREM TreeRangesNest == TreeSpec => [](RangesNest /\ TreeWhole)
<1>1. TreeInv => RangesNest /\ TreeWhole
  BY DEF TreeInv
<1> QED
  BY <1>1, TreeStarts, TreeStep, PTL DEF TreeSpec

\* No text is lost, repeated, made up or moved on the way from any document to its tree, in strict
\* mode or repaired (build_xhtml_tree in epub.rs).
THEOREM TextsAreInTree == TreeSpec => []TextsInTree
<1>1. TreeInv => TextsInTree
  BY DEF TreeInv
<1> QED
  BY <1>1, TreeStarts, TreeStep, PTL DEF TreeSpec
=============================================================================
