----------------------------- MODULE SfmmProofs -----------------------------
(***************************************************************************)
(* Proofs about the heap of sfmm.c, for every page size, number of pages   *)
(* and set of request sizes.                                               *)
(***************************************************************************)
EXTENDS Sfmm, SequenceTheorems, WellFoundedInduction, TLAPS

(***************************************************************************)
(* A tiling of the units 0 to end by the blocks of B.                      *)
(***************************************************************************)
Block == [size : Nat, req : Nat, alloc : BOOLEAN, prevAlloc : BOOLEAN]

End(B, a) == a + B[a].size

\* prev_allocated of what begins at a: a header or, at end, the epilogue.
Tag(B, e, end, a) == IF a = end THEN e ELSE B[a].prevAlloc

Shape(B, e, end) ==
  /\ end \in Nat /\ e \in BOOLEAN
  /\ DOMAIN B \subseteq Nat /\ B \in [DOMAIN B -> Block]
  /\ 0 \in DOMAIN B /\ B[0].prevAlloc

Chain(B, end) ==
  /\ \A a \in DOMAIN B : B[a].size >= 2 /\ End(B, a) \in DOMAIN B \cup {end} /\ End(B, a) <= end
  /\ \A a \in DOMAIN B : a # 0 => \E b \in DOMAIN B : End(B, b) = a
  /\ \E b \in DOMAIN B : End(B, b) = end
  /\ \A a, b \in DOMAIN B : b <= a \/ End(B, a) <= b

Tags(B, e, end) ==
  \A a \in DOMAIN B : /\ Tag(B, e, end, End(B, a)) = B[a].alloc
                      /\ B[a].alloc => B[a].req + 8 <= 16 * B[a].size

Tiling(B, e, end) == Shape(B, e, end) /\ Chain(B, end) /\ Tags(B, e, end)

\* No two free blocks are neighbours, but for the one that begins at x and its predecessor.
Merged(B, x) ==
  \A a \in DOMAIN B : End(B, a) \in DOMAIN B /\ End(B, a) # x => B[a].alloc \/ B[End(B, a)].alloc

\* Where blocks end, and that two of them share nothing.
LEMMA TilingFacts ==
  ASSUME NEW B, NEW e, NEW end, Tiling(B, e, end)
  PROVE  /\ DOMAIN B \subseteq Nat /\ end \in Nat /\ e \in BOOLEAN
         /\ \A a \in DOMAIN B :
              /\ B[a] \in Block /\ B[a].size \in Nat /\ B[a].size >= 2
              /\ End(B, a) \in Nat /\ a < End(B, a) /\ End(B, a) <= end
              /\ End(B, a) \in DOMAIN B \cup {end}
              /\ Tag(B, e, end, End(B, a)) = B[a].alloc
         /\ \A a, b \in DOMAIN B : b <= a \/ End(B, a) <= b
         /\ \A a, b \in DOMAIN B : End(B, a) = End(B, b) => a = b
         /\ end \notin DOMAIN B
  <1>1. /\ DOMAIN B \subseteq Nat /\ end \in Nat /\ e \in BOOLEAN
        /\ \A a \in DOMAIN B : B[a] \in Block /\ B[a].size \in Nat
    BY DEF Tiling, Shape, Block
  <1>2. \A a \in DOMAIN B :
          /\ B[a].size >= 2
          /\ End(B, a) \in Nat /\ a < End(B, a) /\ End(B, a) <= end
          /\ End(B, a) \in DOMAIN B \cup {end}
    BY <1>1 DEF Tiling, Chain, End
  <1>3. \A a, b \in DOMAIN B : b <= a \/ End(B, a) <= b
    BY DEF Tiling, Chain
  <1>4. ASSUME NEW a \in DOMAIN B, NEW b \in DOMAIN B, End(B, a) = End(B, b)
        PROVE  a = b
    BY <1>1, <1>2, <1>3, <1>4
  <1>5. end \notin DOMAIN B
    BY <1>1, <1>2
  <1> QED BY <1>1, <1>2, <1>3, <1>4, <1>5 DEF Tiling, Tags

\* C is B with another status of block a.
IsFlip(B, C, a) ==
  /\ DOMAIN C = DOMAIN B /\ C \in [DOMAIN B -> Block]
  /\ \A b \in DOMAIN B : C[b].size = B[b].size
  /\ \A b \in DOMAIN B \ {a} : C[b].alloc = B[b].alloc /\ C[b].req = B[b].req
  /\ C[a].alloc => C[a].req + 8 <= 16 * C[a].size
  /\ \A b \in DOMAIN B \ {End(B, a)} : C[b].prevAlloc = B[b].prevAlloc

\* What follows the block is told of its new status.
LEMMA FlipTiled ==
  ASSUME NEW B, NEW C, NEW e, NEW f, NEW end, Tiling(B, e, end),
         NEW a \in DOMAIN B, IsFlip(B, C, a), f \in BOOLEAN,
         Tag(C, f, end, End(B, a)) = C[a].alloc,
         End(B, a) # end => f = e
  PROVE  Tiling(C, f, end)
  <1> USE DEF IsFlip
  <1>1. /\ DOMAIN B \subseteq Nat /\ end \in Nat /\ a \in Nat
        /\ \A b \in DOMAIN B : B[b] \in Block /\ C[b] \in Block /\ B[b].size \in Nat
    BY DEF Tiling, Shape, Block
  <1>2. \A b \in DOMAIN B : End(C, b) = End(B, b)
    BY DEF End
  <1>3. End(B, a) # 0 /\ end # 0
    BY <1>1 DEF Tiling, Chain, End
  <1>4. Shape(C, f, end)
    BY <1>1, <1>3 DEF Tiling, Shape
  <1>5. Chain(C, end)
    BY <1>1, <1>2 DEF Tiling, Chain
  <1>6. ASSUME NEW b \in DOMAIN B, b # a
        PROVE  End(B, b) # End(B, a)
    BY <1>1, <1>6 DEF Tiling, Chain, End
  <1>7. Tags(C, f, end)
    <2> SUFFICES ASSUME NEW b \in DOMAIN B
                 PROVE  /\ Tag(C, f, end, End(C, b)) = C[b].alloc
                        /\ C[b].alloc => C[b].req + 8 <= 16 * C[b].size
      BY DEF Tags
    <2>1. CASE b = a
      BY <1>2, <2>1
    <2>2. CASE b # a
      <3>1. Tag(B, e, end, End(B, b)) = B[b].alloc /\ End(B, b) \in DOMAIN B \cup {end}
        BY DEF Tiling, Tags, Chain
      <3>2. Tag(C, f, end, End(B, b)) = Tag(B, e, end, End(B, b))
        BY <1>6, <2>2, <3>1 DEF Tag
      <3> QED BY <1>2, <2>2, <3>1, <3>2 DEF Tiling, Tags
    <2> QED BY <2>1, <2>2
  <1> QED BY <1>4, <1>5, <1>7 DEF Tiling

\* C is B with block a cut after w units; the rest is free.
IsSplit(B, C, a, w, cut) ==
  /\ cut = a + w /\ DOMAIN C = DOMAIN B \cup {cut} /\ C \in [DOMAIN C -> Block]
  /\ C[a].size = w /\ (C[a].alloc => C[a].req + 8 <= 16 * w)
  /\ C[cut].size = B[a].size - w /\ ~ C[cut].alloc /\ C[cut].prevAlloc = C[a].alloc
  /\ \A b \in DOMAIN B \ {a} : C[b].size = B[b].size /\ C[b].alloc = B[b].alloc /\ C[b].req = B[b].req
  /\ \A b \in DOMAIN B \ {End(B, a)} : C[b].prevAlloc = B[b].prevAlloc

\* What follows the block is told of the cut.
LEMMA SplitTiled ==
  ASSUME NEW B, NEW C, NEW e, NEW f, NEW end, Tiling(B, e, end),
         NEW a \in DOMAIN B, NEW w \in Nat, w >= 2, B[a].size - w >= 2, NEW cut,
         IsSplit(B, C, a, w, cut), f \in BOOLEAN,
         ~ Tag(C, f, end, End(B, a)),
         End(B, a) # end => f = e
  PROVE  Tiling(C, f, end) /\ End(C, cut) = End(B, a)
  <1> USE DEF IsSplit
  <1> DEFINE n == End(B, a)
  <1>1. /\ DOMAIN B \subseteq Nat /\ end \in Nat /\ a \in Nat /\ cut \in Nat
        /\ \A b \in DOMAIN B : B[b] \in Block /\ B[b].size \in Nat
        /\ \A b \in DOMAIN C : C[b] \in Block
    BY DEF Tiling, Shape, Block
  <1>2. /\ \A b \in DOMAIN B : B[b].size >= 2 /\ End(B, b) \in DOMAIN B \cup {end} /\ End(B, b) <= end
        /\ \A b, c \in DOMAIN B : c <= b \/ End(B, b) <= c
        /\ \A b \in DOMAIN B : End(B, b) \in Nat /\ b < End(B, b)
    BY <1>1 DEF Tiling, Chain, End
  <1>3. a < cut /\ cut < n /\ n \in Nat /\ n <= end
    BY <1>1, <1>2 DEF End
  <1>4. cut \notin DOMAIN B
    BY <1>1, <1>2, <1>3
  <1>5. /\ End(C, a) = cut /\ End(C, cut) = n
        /\ \A b \in DOMAIN B \ {a} : End(C, b) = End(B, b)
    BY <1>1, <1>3 DEF End
  <1>6. ASSUME NEW b \in DOMAIN B \ {a}
        PROVE  End(B, b) # n /\ End(B, b) # cut
    <2>1. (a <= b \/ End(B, b) <= a) /\ (b <= a \/ n <= b) /\ b \in Nat /\ End(B, b) \in Nat /\ b < End(B, b)
      BY <1>1, <1>2
    <2>2. End(B, b) # n
      BY <1>1, <1>3, <2>1
    <2>3. End(B, b) # cut
      BY <1>2, <1>3, <1>4
    <2> QED BY <2>2, <2>3
  <1>7. Shape(C, f, end)
    <2>1. 0 \in DOMAIN B /\ B[0].prevAlloc /\ 0 # n
      BY <1>1, <1>3 DEF Tiling, Shape
    <2>2. C[0].prevAlloc
      BY <2>1
    <2> QED BY <1>1, <2>1, <2>2 DEF Shape
  <1>8. Chain(C, end)
    <2>1. ASSUME NEW b \in DOMAIN C
          PROVE  C[b].size >= 2 /\ End(C, b) \in DOMAIN C \cup {end} /\ End(C, b) <= end
      BY <1>1, <1>2, <1>3, <1>5
    <2>2. ASSUME NEW x \in DOMAIN C \cup {end}, x # 0
          PROVE  \E b \in DOMAIN C : End(C, b) = x
      <3>1. CASE x = cut
        BY <1>5, <3>1
      <3>2. CASE x # cut
        <4>1. PICK b \in DOMAIN B : End(B, b) = x
          BY <2>2, <3>2 DEF Tiling, Chain
        <4>2. CASE b = a
          BY <1>5, <4>1, <4>2
        <4>3. CASE b # a
          BY <1>5, <4>1, <4>3
        <4> QED BY <4>2, <4>3
      <3> QED BY <3>1, <3>2
    <2>3. ASSUME NEW b \in DOMAIN C, NEW c \in DOMAIN C
          PROVE  c <= b \/ End(C, b) <= c
      <3>1. CASE b \in DOMAIN B \ {a} /\ c \in DOMAIN B
        BY <1>2, <1>5, <3>1
      <3>2. CASE b = a /\ c \in DOMAIN B
        BY <1>1, <1>2, <1>3, <1>5, <3>2
      <3>3. CASE b = cut /\ c \in DOMAIN B
        BY <1>1, <1>2, <1>3, <1>5, <3>3
      <3>4. CASE b \in DOMAIN B \ {a} /\ c = cut
        <4>1. a <= b \/ End(B, b) <= a
          BY <1>2, <3>4
        <4>2. b <= a \/ n <= b
          BY <1>2, <3>4
        <4> QED BY <1>1, <1>2, <1>3, <1>5, <3>4, <4>1, <4>2
      <3>5. CASE b \in {a, cut} /\ c = cut
        BY <1>1, <1>3, <1>5, <3>5
      <3> QED BY <3>1, <3>2, <3>3, <3>4, <3>5
    <2>4. end # 0
      BY <1>1, <1>3
    <2> QED BY <2>1, <2>2, <2>3, <2>4 DEF Chain
  <1>9. Tags(C, f, end)
    <2> SUFFICES ASSUME NEW b \in DOMAIN C
                 PROVE  /\ Tag(C, f, end, End(C, b)) = C[b].alloc
                        /\ C[b].alloc => C[b].req + 8 <= 16 * C[b].size
      BY DEF Tags
    <2>1. CASE b = a
      BY <1>1, <1>3, <1>5, <2>1 DEF Tag
    <2>2. CASE b = cut
      <3>1. Tag(C, f, end, n) \in BOOLEAN
        BY <1>1, <1>2 DEF Tag, Block
      <3> QED BY <1>1, <1>5, <2>2, <3>1 DEF Block
    <2>3. CASE b \in DOMAIN B \ {a}
      <3>1. Tag(B, e, end, End(B, b)) = B[b].alloc /\ End(B, b) \in DOMAIN B \cup {end}
        BY <2>3 DEF Tiling, Tags, Chain
      <3>2. Tag(C, f, end, End(B, b)) = Tag(B, e, end, End(B, b))
        BY <1>6, <2>3, <3>1 DEF Tag
      <3> QED BY <1>5, <2>3, <3>1, <3>2 DEF Tiling, Tags
    <2> QED BY <2>1, <2>2, <2>3
  <1> QED BY <1>4, <1>5, <1>7, <1>8, <1>9 DEF Tiling

\* The free block after a is merged into a, which is free as well.
LEMMA MergeTiled ==
  ASSUME NEW B, NEW C, NEW e, NEW end, Tiling(B, e, end),
         NEW a \in DOMAIN B, End(B, a) \in DOMAIN B, ~ B[End(B, a)].alloc,
         DOMAIN C = DOMAIN B \ {End(B, a)}, C \in [DOMAIN C -> Block],
         C[a].size = B[a].size + B[End(B, a)].size, ~ C[a].alloc,
         C[a].prevAlloc = B[a].prevAlloc,
         \A b \in DOMAIN C \ {a} : C[b] = B[b]
  PROVE  Tiling(C, e, end) /\ End(C, a) = End(B, End(B, a))
  <1> DEFINE n == End(B, a)
             m == End(B, n)
  <1>1. /\ DOMAIN B \subseteq Nat /\ end \in Nat /\ e \in BOOLEAN
        /\ \A x \in DOMAIN B :
             /\ B[x].size \in Nat /\ B[x].size >= 2
             /\ End(B, x) \in Nat /\ x < End(B, x) /\ End(B, x) <= end
             /\ End(B, x) \in DOMAIN B \cup {end}
        /\ \A x, y \in DOMAIN B : y <= x \/ End(B, x) <= y
        /\ \A x, y \in DOMAIN B : End(B, x) = End(B, y) => x = y
        /\ end \notin DOMAIN B
    BY TilingFacts
  <1>2. a < n /\ n < m /\ n # 0 /\ m \in DOMAIN C \cup {end} /\ m <= end /\ a \in DOMAIN C
    BY <1>1
  <1>3. /\ End(C, a) = m
        /\ \A b \in DOMAIN C \ {a} : End(C, b) = End(B, b) /\ End(B, b) # n
    BY <1>1, <1>2 DEF End
  <1>4. Shape(C, e, end)
    <2>1. 0 \in DOMAIN B /\ B[0].prevAlloc
      BY DEF Tiling, Shape
    <2>2. 0 \in DOMAIN C /\ C[0].prevAlloc
      BY <1>2, <2>1
    <2> QED BY <1>1, <2>2 DEF Shape
  <1>5. Chain(C, end)
    <2>1. ASSUME NEW b \in DOMAIN C
          PROVE  C[b].size >= 2 /\ End(C, b) \in DOMAIN C \cup {end} /\ End(C, b) <= end
      <3>1. CASE b = a
        BY <1>1, <1>2, <1>3, <3>1
      <3>2. CASE b # a
        BY <1>1, <1>3, <3>2
      <3> QED BY <3>1, <3>2
    <2>2. ASSUME NEW x \in DOMAIN C \cup {end}, x # 0
          PROVE  \E b \in DOMAIN C : End(C, b) = x
      <3>1. PICK b \in DOMAIN B : End(B, b) = x
        BY <2>2 DEF Tiling, Chain
      <3>2. CASE b = n
        BY <1>2, <1>3, <3>1, <3>2
      <3>3. CASE b # n
        <4>1. x # n
          BY <1>1
        <4>2. b # a
          BY <3>1, <4>1
        <4> QED BY <1>3, <3>1, <3>3, <4>2
      <3> QED BY <3>2, <3>3
    <2>3. ASSUME NEW b \in DOMAIN C, NEW c \in DOMAIN C
          PROVE  c <= b \/ End(C, b) <= c
      <3>1. CASE b = a
        <4>1. c <= a \/ n <= c
          BY <1>1
        <4>2. c <= n \/ m <= c
          BY <1>1
        <4>3. c # n /\ c \in Nat /\ n \in Nat /\ m \in Nat /\ a \in Nat
          BY <1>1
        <4> QED BY <1>3, <3>1, <4>1, <4>2, <4>3
      <3>2. CASE b # a
        BY <1>1, <1>3, <3>2
      <3> QED BY <3>1, <3>2
    <2>4. end # 0
      BY <1>1, <1>2
    <2> QED BY <2>1, <2>2, <2>3, <2>4 DEF Chain
  <1>6. Tags(C, e, end)
    <2> SUFFICES ASSUME NEW b \in DOMAIN C
                 PROVE  /\ Tag(C, e, end, End(C, b)) = C[b].alloc
                        /\ C[b].alloc => C[b].req + 8 <= 16 * C[b].size
      BY DEF Tags
    <2>1. \A x \in DOMAIN C \cup {end} : Tag(C, e, end, x) = Tag(B, e, end, x)
      BY <1>1 DEF Tag
    <2>2. CASE b = a
      <3>1. Tag(B, e, end, m) = B[n].alloc
        BY DEF Tiling, Tags
      <3>2. B[n].alloc = FALSE /\ C[a].alloc = FALSE
        BY <1>1, <1>2 DEF Tiling, Shape, Block
      <3> QED BY <1>2, <1>3, <2>1, <2>2, <3>1, <3>2
    <2>3. CASE b # a
      <3>1. Tag(B, e, end, End(B, b)) = B[b].alloc
        BY DEF Tiling, Tags
      <3>2. End(B, b) \in DOMAIN C \cup {end}
        BY <1>1, <1>3, <2>3
      <3> QED BY <1>3, <2>1, <2>3, <3>1, <3>2 DEF Tiling, Tags
    <2> QED BY <2>2, <2>3
  <1> QED BY <1>3, <1>4, <1>5, <1>6 DEF Tiling

\* C is B with block a and the free one behind it as one free block.
IsMerge(B, C, a, n) ==
  /\ a \in DOMAIN B /\ n \in DOMAIN B /\ End(B, a) = n /\ ~ B[n].alloc
  /\ DOMAIN C = DOMAIN B \ {n} /\ C \in [DOMAIN C -> Block]
  /\ C[a].size = B[a].size + B[n].size /\ ~ C[a].alloc /\ C[a].prevAlloc = B[a].prevAlloc
  /\ \A b \in DOMAIN C \ {a} : C[b] = B[b]

LEMMA IsMergeTiled ==
  ASSUME NEW B, NEW C, NEW e, NEW end, Tiling(B, e, end), NEW a, NEW n, IsMerge(B, C, a, n)
  PROVE  Tiling(C, e, end) /\ End(C, a) = End(B, n)
  <1>1. a \in DOMAIN B /\ End(B, a) = n
    BY DEF IsMerge
  <1>2. /\ End(B, a) \in DOMAIN B /\ ~ B[End(B, a)].alloc
        /\ DOMAIN C = DOMAIN B \ {End(B, a)} /\ C \in [DOMAIN C -> Block]
        /\ C[a].size = B[a].size + B[End(B, a)].size /\ ~ C[a].alloc
        /\ C[a].prevAlloc = B[a].prevAlloc
        /\ \A b \in DOMAIN C \ {a} : C[b] = B[b]
    BY <1>1 DEF IsMerge
  <1>3. Tiling(C, e, end) /\ End(C, a) = End(B, End(B, a))
    BY <1>1, <1>2, MergeTiled
  <1> QED BY <1>1, <1>3

\* The block x of D has another size.
LEMMA SizeChanged ==
  ASSUME NEW D, D \in [DOMAIN D -> Block], NEW x \in DOMAIN D, NEW n \in Nat,
         NEW E, E = [D EXCEPT ![x].size = n]
  PROVE  /\ DOMAIN E = DOMAIN D /\ E \in [DOMAIN D -> Block] /\ \A b \in DOMAIN D \ {x} : E[b] = D[b]
         /\ E[x].size = n /\ E[x].alloc = D[x].alloc /\ E[x].prevAlloc = D[x].prevAlloc
  BY DEF Block

\* A new page becomes a free block, because the last block is allocated.
LEMMA AppendTiled ==
  ASSUME NEW B, NEW C, NEW end, Tiling(B, TRUE, end),
         NEW p \in Nat, p >= 2,
         DOMAIN C = DOMAIN B \cup {end}, C \in [DOMAIN C -> Block],
         \A b \in DOMAIN B : C[b] = B[b],
         C[end].size = p, ~ C[end].alloc, C[end].prevAlloc
  PROVE  Tiling(C, FALSE, end + p)
  <1>1. /\ DOMAIN B \subseteq Nat /\ end \in Nat
        /\ \A x \in DOMAIN B :
             /\ B[x].size \in Nat /\ B[x].size >= 2
             /\ End(B, x) \in Nat /\ x < End(B, x) /\ End(B, x) <= end
             /\ End(B, x) \in DOMAIN B \cup {end}
        /\ \A x, y \in DOMAIN B : y <= x \/ End(B, x) <= y
        /\ end \notin DOMAIN B
    BY TilingFacts
  <1>2. /\ End(C, end) = end + p
        /\ \A b \in DOMAIN B : End(C, b) = End(B, b)
    BY DEF End
  <1>3. Shape(C, FALSE, end + p)
    <2>1. 0 \in DOMAIN B /\ B[0].prevAlloc
      BY DEF Tiling, Shape
    <2>2. C[0].prevAlloc
      BY <2>1
    <2> QED BY <1>1, <2>1, <2>2 DEF Shape
  <1>4. Chain(C, end + p)
    <2>1. ASSUME NEW b \in DOMAIN C
          PROVE  C[b].size >= 2 /\ End(C, b) \in DOMAIN C \cup {end + p} /\ End(C, b) <= end + p
      BY <1>1, <1>2
    <2>2. ASSUME NEW x \in DOMAIN C, x # 0
          PROVE  \E b \in DOMAIN C : End(C, b) = x
      <3>1. \E b \in DOMAIN B : End(B, b) = x
        BY <2>2 DEF Tiling, Chain
      <3> QED BY <1>2, <3>1
    <2>3. ASSUME NEW b \in DOMAIN C, NEW c \in DOMAIN C
          PROVE  c <= b \/ End(C, b) <= c
      <3>1. CASE b = end
        BY <1>1, <3>1
      <3>2. CASE b # end /\ c = end
        BY <1>1, <1>2, <3>2
      <3>3. CASE b # end /\ c # end
        BY <1>1, <1>2, <3>3
      <3> QED BY <3>1, <3>2, <3>3
    <2> QED BY <1>2, <2>1, <2>2, <2>3 DEF Chain
  <1>5. Tags(C, FALSE, end + p)
    <2> SUFFICES ASSUME NEW b \in DOMAIN C
                 PROVE  /\ Tag(C, FALSE, end + p, End(C, b)) = C[b].alloc
                        /\ C[b].alloc => C[b].req + 8 <= 16 * C[b].size
      BY DEF Tags
    <2>1. CASE b = end
      BY <1>2, <2>1 DEF Tag, Block
    <2>2. CASE b # end
      <3>1. Tag(B, TRUE, end, End(B, b)) = B[b].alloc
        BY <2>2 DEF Tiling, Tags
      <3>2. End(B, b) # end + p
        BY <1>1, <2>2
      <3>3. Tag(C, FALSE, end + p, End(B, b)) = Tag(B, TRUE, end, End(B, b))
        <4>1. CASE End(B, b) = end
          BY <1>1, <3>2, <4>1 DEF Tag, Block
        <4>2. CASE End(B, b) # end
          BY <1>1, <2>2, <3>2, <4>2 DEF Tag
        <4> QED BY <4>1, <4>2
      <3> QED BY <1>2, <2>2, <3>1, <3>3 DEF Tiling, Tags
    <2> QED BY <2>1, <2>2
  <1> QED BY <1>3, <1>4, <1>5 DEF Tiling

\* A new page is added to the last block, which is free.
LEMMA StretchTiled ==
  ASSUME NEW B, NEW C, NEW end, Tiling(B, FALSE, end),
         NEW p \in Nat, NEW a \in DOMAIN B, End(B, a) = end,
         C = [B EXCEPT ![a].size = B[a].size + p]
  PROVE  Tiling(C, FALSE, end + p)
  <1>1. /\ DOMAIN B \subseteq Nat /\ end \in Nat
        /\ \A x \in DOMAIN B :
             /\ B[x] \in Block /\ B[x].size \in Nat /\ B[x].size >= 2
             /\ End(B, x) \in Nat /\ x < End(B, x) /\ End(B, x) <= end
             /\ End(B, x) \in DOMAIN B \cup {end}
        /\ \A x, y \in DOMAIN B : y <= x \/ End(B, x) <= y
        /\ \A x, y \in DOMAIN B : End(B, x) = End(B, y) => x = y
        /\ end \notin DOMAIN B
    BY TilingFacts
  <1>2. /\ DOMAIN C = DOMAIN B /\ C \in [DOMAIN C -> Block]
        /\ C[a].size = B[a].size + p
        /\ \A b \in DOMAIN B : /\ C[b].alloc = B[b].alloc /\ C[b].prevAlloc = B[b].prevAlloc
                               /\ C[b].req = B[b].req
        /\ \A b \in DOMAIN B \ {a} : C[b] = B[b]
    BY <1>1 DEF Tiling, Shape, Block
  <1>3. /\ End(C, a) = end + p
        /\ \A b \in DOMAIN B \ {a} : End(C, b) = End(B, b) /\ End(B, b) \in DOMAIN B
    <2>1. \A b \in DOMAIN B \ {a} : End(C, b) = End(B, b) /\ End(B, b) # end
      BY <1>1, <1>2 DEF End
    <2> QED BY <1>1, <1>2, <2>1 DEF End
  <1>4. Shape(C, FALSE, end + p)
    BY <1>1, <1>2 DEF Tiling, Shape
  <1>5. Chain(C, end + p)
    <2>1. ASSUME NEW b \in DOMAIN C
          PROVE  C[b].size >= 2 /\ End(C, b) \in DOMAIN C \cup {end + p} /\ End(C, b) <= end + p
      <3>1. CASE b = a
        BY <1>1, <1>2, <1>3, <3>1
      <3>2. CASE b # a
        <4>1. b \in DOMAIN B /\ C[b] = B[b] /\ End(C, b) = End(B, b) /\ End(B, b) \in DOMAIN B
          BY <1>2, <1>3, <3>2
        <4>2. B[b].size >= 2 /\ End(B, b) <= end /\ End(B, b) \in Nat
          BY <1>1, <4>1
        <4>3. End(B, b) <= end + p
          BY <1>1, <4>2
        <4> QED BY <1>2, <4>1, <4>2, <4>3
      <3> QED BY <3>1, <3>2
    <2>2. ASSUME NEW x \in DOMAIN C, x # 0
          PROVE  \E b \in DOMAIN C : End(C, b) = x
      <3>1. PICK b \in DOMAIN B : End(B, b) = x
        BY <1>2, <2>2 DEF Tiling, Chain
      <3> QED BY <1>1, <1>2, <1>3, <3>1
    <2>3. ASSUME NEW b \in DOMAIN C, NEW c \in DOMAIN C
          PROVE  c <= b \/ End(C, b) <= c
      <3>1. CASE b = a
        <4>1. c <= a \/ end <= c
          BY <1>1, <1>2
        <4>2. c < End(B, c) /\ End(B, c) <= end /\ c \in Nat /\ End(B, c) \in Nat
          BY <1>1, <1>2
        <4> QED BY <1>1, <3>1, <4>1, <4>2
      <3>2. CASE b # a
        BY <1>1, <1>2, <1>3, <3>2
      <3> QED BY <3>1, <3>2
    <2> QED BY <1>2, <1>3, <2>1, <2>2, <2>3 DEF Chain
  <1>6. Tags(C, FALSE, end + p)
    <2> SUFFICES ASSUME NEW b \in DOMAIN C
                 PROVE  /\ Tag(C, FALSE, end + p, End(C, b)) = C[b].alloc
                        /\ C[b].alloc => C[b].req + 8 <= 16 * C[b].size
      BY DEF Tags
    <2>1. Tag(B, FALSE, end, End(B, b)) = B[b].alloc
      BY <1>2 DEF Tiling, Tags
    <2>2. CASE b = a
      <3>1. B[a].alloc = FALSE
        BY <2>1, <2>2 DEF Tag
      <3> QED BY <1>2, <1>3, <2>2, <3>1 DEF Tag
    <2>3. CASE b # a
      <3>1. End(B, b) # end /\ End(B, b) # end + p
        BY <1>1, <1>2, <1>3, <2>3
      <3>2. Tag(C, FALSE, end + p, End(C, b)) = B[b].alloc
        BY <1>2, <1>3, <2>1, <2>3, <3>1 DEF Tag
      <3> QED BY <1>2, <2>3, <3>2 DEF Tiling, Tags
    <2> QED BY <2>2, <2>3
  <1> QED BY <1>4, <1>5, <1>6 DEF Tiling

(***************************************************************************)
(* The lists do not touch the blocks.                                      *)
(***************************************************************************)
IsHeap(H) == DOMAIN H = {"pages", "blk", "epi", "next", "prev", "order", "sizes", "ok"}

\* H but for the links and the lists.
Same(G, H) == IsHeap(G) /\ G.pages = H.pages /\ G.blk = H.blk /\ G.epi = H.epi

LEMMA LinkSame ==
  ASSUME NEW H, IsHeap(H), NEW a, NEW v
  PROVE  Same(SetPrev(H, a, v), H) /\ Same(SetNext(H, a, v), H)
  BY DEF IsHeap, Same, SetPrev, SetNext, Stray

LEMMA UnlinkSame == ASSUME NEW H, IsHeap(H), NEW b PROVE Same(Unlink(H, b), H)
  <1> DEFINE G == SetPrev(H, H.next[b], H.prev[b])
  <1>1. Same(G, H)
    BY LinkSame
  <1>2. Same(SetNext(G, G.prev[b], G.next[b]), G)
    BY <1>1, LinkSame DEF Same
  <1> QED BY <1>1, <1>2 DEF Same, Unlink

LEMMA NewListSame ==
  ASSUME NEW H, IsHeap(H), NEW k, NEW n, NEW b
  PROVE  Same(NewList(H, k, n, b), H)
  BY DEF IsHeap, Same, NewList

LEMMA HangSame == ASSUME NEW H, IsHeap(H), NEW k, NEW b PROVE Same(HangBehind(H, k, b), H)
  <1> DEFINE first == H.next[NodeAt(H, k)]
             G == [H EXCEPT !.next[b] = H.next[first], !.prev[b] = first]
  <1>1. Same(G, H) /\ Same(Stray(H), H)
    BY DEF IsHeap, Same, Stray
  <1> HIDE DEF G
  <1>2. Same(SetPrev(G, H.next[first], b), G)
    BY <1>1, LinkSame DEF Same
  <1> USE DEF G
  <1> QED BY <1>1, <1>2 DEF Same, HangBehind

LEMMA PushSame == ASSUME NEW H, IsHeap(H), NEW k, NEW b PROVE Same(PushList(H, k, b), H)
  <1> DEFINE node == NodeAt(H, k)
             G == SetPrev(H, H.next[node], b)
  <1>1. Same(G, H)
    BY LinkSame
  <1>2. Same([G EXCEPT !.next[b] = G.next[node], !.prev[b] = node, !.next[node] = b], G)
    BY <1>1 DEF IsHeap, Same
  <1> QED BY <1>1, <1>2 DEF Same, PushList

LEMMA InsertSame ==
  ASSUME NEW H, IsHeap(H), NEW b
  PROVE  Same(InsertRest(H, b), H) /\ Same(InsertPage(H, b), H) /\ Same(InsertFreed(H, b), H)
  <1>1. Same(H, H)
    BY DEF Same
  <1> QED BY <1>1, NewListSame, HangSame, PushSame DEF InsertRest, InsertPage, InsertFreed

\* What MakeFree writes into a header.
FreeRecord(n, bit) == [size |-> n, req |-> 0, alloc |-> FALSE, prevAlloc |-> bit]

(***************************************************************************)
(* The heap between two calls: tiled, merged, and with known owners.       *)
(***************************************************************************)
Apart(B) == \A a \in DOMAIN B : End(B, a) \in DOMAIN B => B[a].alloc \/ B[End(B, a)].alloc

Tiled(H) == IsHeap(H) /\ H.pages \in 1..MaxPages /\ Tiling(H.blk, H.epi, Epilogue(H))

Ready(H) == Tiled(H) /\ Apart(H.blk)

Owned(H) == {a \in DOMAIN H.blk : H.blk[a].alloc}
FreeSet(H) == DOMAIN H.blk \ Owned(H)

\* The free block x has a in it.
Covers(G, x, a) == x \in FreeSet(G) /\ x <= a /\ a < End(G.blk, x)

\* The regions of G are those of H for the blocks in S.
KeepsRegions(G, H, S) == \A a \in S : G.blk[a].req = H.blk[a].req

SameOwners(G, H) == Owned(G) = Owned(H) /\ KeepsRegions(G, H, Owned(H))

LEMMA SameReady ==
  ASSUME NEW H, NEW G, Same(G, H)
  PROVE  /\ Ready(H) => Ready(G)
         /\ Tiled(H) => Tiled(G)
         /\ Owned(G) = Owned(H) /\ KeepsRegions(G, H, Owned(H))
         /\ Epilogue(G) = Epilogue(H)
  BY DEF Same, Ready, Tiled, Owned, KeepsRegions, Epilogue

\* The block before a, when there is one.
LEMMA BeforeEnds ==
  ASSUME NEW H, Tiled(H), NEW a \in DOMAIN H.blk \cup {Epilogue(H)}, a # 0
  PROVE  Before(H, a) \in DOMAIN H.blk /\ End(H.blk, Before(H, a)) = a
  <1>1. \E b \in DOMAIN H.blk : b + H.blk[b].size = a
    BY DEF Tiled, Tiling, Chain, End
  <1> QED BY <1>1 DEF Before, End

LEMMA BootReady == ASSUME NEW H, H = EmptyHeap
                   PROVE  Ready(Boot(H)) /\ Owned(Boot(H)) = {}
  <1> DEFINE n == PageUnits - 3
  <1>1. PICK G0 : G0 = [H EXCEPT !.pages = 1]
    OBVIOUS
  <1>2. PICK G1 : G1 = MakeFree(G0, 0, n, TRUE)
    OBVIOUS
  <1>3. PICK B : B = [x \in {0} |-> FreeRecord(n, TRUE)]
    OBVIOUS
  <1>4. IsHeap(G0) /\ G0.pages = 1 /\ G0.epi = FALSE /\ G0.blk = << >>
    BY <1>1 DEF EmptyHeap, IsHeap
  <1>5. IsHeap(G1) /\ G1.pages = 1 /\ G1.epi = FALSE /\ G1.blk = B
    <2>1. Put(<< >>, 0, FreeRecord(n, TRUE)) = B
      BY <1>3 DEF Put
    <2>2. /\ IsHeap(G1) /\ G1.pages = G0.pages /\ G1.epi = G0.epi
          /\ G1.blk = Put(G0.blk, 0, FreeRecord(n, TRUE))
      BY <1>2, <1>4 DEF MakeFree, IsHeap, FreeRecord
    <2> QED BY <1>4, <2>1, <2>2
  <1>6. n \in Nat /\ n >= 2 /\ MaxPages \in Nat /\ MaxPages >= 1
    BY SfmmAssumption
  <1>7. Epilogue(G1) = n
    BY <1>5, <1>6, SfmmAssumption DEF Epilogue
  <1>8. DOMAIN B = {0} /\ B \in [{0} -> Block] /\ End(B, 0) = n
        /\ B[0].size = n /\ B[0].req = 0 /\ B[0].alloc = FALSE /\ B[0].prevAlloc = TRUE
    <2>1. B[0] = FreeRecord(n, TRUE) /\ DOMAIN B = {0}
      BY <1>3, Zenon
    <2>2. FreeRecord(n, TRUE) \in Block
      BY <1>6 DEF Block, FreeRecord
    <2>3. B \in [{0} -> Block]
      BY <1>3, <2>2
    <2>4. B[0].size = n /\ B[0].req = 0 /\ B[0].alloc = FALSE /\ B[0].prevAlloc = TRUE
      BY <2>1 DEF FreeRecord
    <2>5. End(B, 0) = n
      BY <1>6, <2>4 DEF End
    <2> QED BY <2>1, <2>3, <2>4, <2>5, Zenon
  <1>9. Tiling(B, FALSE, n) /\ Apart(B)
    <2>1. Shape(B, FALSE, n)
      BY <1>6, <1>8 DEF Shape
    <2>2. Chain(B, n)
      BY <1>6, <1>8 DEF Chain
    <2>3. Tags(B, FALSE, n)
      BY <1>6, <1>8 DEF Tags, Tag
    <2>4. Apart(B)
      BY <1>6, <1>8 DEF Apart
    <2> QED BY <2>1, <2>2, <2>3, <2>4, Zenon DEF Tiling
  <1>10. Ready(G1)
    <2>1. Tiling(G1.blk, G1.epi, Epilogue(G1)) /\ Apart(G1.blk)
      BY <1>5, <1>7, <1>9, Zenon
    <2> QED BY <1>5, <1>6, <2>1 DEF Ready, Tiled
  <1>11. Owned(G1) = {}
    BY <1>5, <1>8 DEF Owned
  <1>12. Boot(H) = NewList(G1, 0, n, 0)
    BY <1>1, <1>2 DEF Boot
  <1>13. Same(Boot(H), G1)
    BY <1>5, <1>12, NewListSame
  <1> QED BY <1>10, <1>11, <1>13, SameReady

LEMMA GrowReady == ASSUME NEW H, Ready(H), H.pages < MaxPages
                   PROVE  Ready(Grow(H)) /\ SameOwners(Grow(H), H)
  <1> DEFINE end == Epilogue(H)
             last == Before(H, end)
             B == H.blk
  <1>0. PICK G : G = [H EXCEPT !.pages = @ + 1, !.epi = FALSE]
    OBVIOUS
  <1>1. /\ IsHeap(H) /\ H.pages \in 1..MaxPages /\ Tiling(B, H.epi, end) /\ Apart(B)
        /\ H.epi \in BOOLEAN /\ end \in Nat
    BY DEF Ready, Tiled, Tiling, Shape
  <1>2. /\ IsHeap(G) /\ G.pages = H.pages + 1 /\ G.epi = FALSE /\ G.blk = B
    BY <1>0, <1>1 DEF IsHeap
  <1>3. PageUnits \in Nat /\ PageUnits >= 5 /\ MaxPages \in Nat /\ G.pages \in 1..MaxPages
    BY <1>1, <1>2, SfmmAssumption
  <1>4. ASSUME NEW F, F.pages = H.pages + 1
        PROVE  Epilogue(F) = end + PageUnits
    BY <1>1, <1>3, <1>4 DEF Epilogue
  <1>5. end # 0 /\ last \in DOMAIN B /\ End(B, last) = end
    <2>1. end # 0
      BY <1>1, TilingFacts DEF Tiling, Shape
    <2> QED BY <2>1, BeforeEnds DEF Ready
  <1>6. Tag(B, H.epi, end, end) = B[last].alloc
    BY <1>1, <1>5 DEF Tiling, Tags
  <1>7. CASE H.epi
    <2>0. PICK M : M = MakeFree(G, end, PageUnits, TRUE)
      OBVIOUS
    <2>1. /\ IsHeap(M) /\ M.pages = H.pages + 1 /\ M.epi = FALSE
          /\ M.blk = Put(B, end, FreeRecord(PageUnits, TRUE))
      <3>1. /\ IsHeap(M) /\ M.pages = G.pages /\ M.epi = G.epi
            /\ M.blk = Put(G.blk, end, FreeRecord(PageUnits, TRUE))
        BY <1>2, <2>0 DEF MakeFree, IsHeap, FreeRecord
      <3> QED BY <1>2, <3>1
    <2>2. Grow(H) = InsertPage(M, end)
      BY <1>0, <1>7, <2>0 DEF Grow
    <2>3. end \notin DOMAIN B /\ \A b \in DOMAIN B : B[b] \in Block
      BY <1>1, TilingFacts
    <2>4. /\ DOMAIN M.blk = DOMAIN B \cup {end} /\ M.blk \in [DOMAIN M.blk -> Block]
          /\ \A b \in DOMAIN B : M.blk[b] = B[b]
          /\ M.blk[end].size = PageUnits /\ ~ M.blk[end].alloc /\ M.blk[end].prevAlloc
      BY <1>3, <2>1, <2>3 DEF Put, Block, FreeRecord
    <2>5. Tiling(M.blk, FALSE, end + PageUnits)
      <3>1. Tiling(B, TRUE, end)
        BY <1>1, <1>7
      <3>2. PageUnits >= 2
        BY <1>3
      <3> QED BY <1>3, <2>4, <3>1, <3>2, AppendTiled
    <2>6. Tiled(M)
      BY <1>2, <1>3, <1>4, <2>1, <2>5 DEF Tiled
    <2>7. Apart(M.blk)
      <3> SUFFICES ASSUME NEW a \in DOMAIN M.blk, End(M.blk, a) \in DOMAIN M.blk
                   PROVE  M.blk[a].alloc \/ M.blk[End(M.blk, a)].alloc
        BY DEF Apart
      <3>1. a # end
        BY <1>1, <1>3, <2>3, <2>4, TilingFacts DEF End
      <3>2. End(M.blk, a) = End(B, a)
        BY <2>4, <3>1 DEF End
      <3>3. CASE End(B, a) = end
        <4>1. a = last
          BY <1>1, <1>5, <2>4, <3>1, <3>3, TilingFacts
        <4>2. B[last].alloc = H.epi
          BY <1>6 DEF Tag
        <4>3. M.blk[a].alloc
          BY <1>5, <1>7, <2>4, <4>1, <4>2
        <4> QED BY <4>3
      <3>4. CASE End(B, a) # end
        BY <1>1, <2>4, <3>1, <3>2, <3>4 DEF Apart
      <3> QED BY <3>3, <3>4
    <2>8. SameOwners(M, H)
      BY <2>3, <2>4 DEF SameOwners, Owned, KeepsRegions
    <2>9. Same(Grow(H), M)
      BY <2>1, <2>2, InsertSame
    <2> QED BY <2>6, <2>7, <2>8, <2>9, SameReady DEF Ready, SameOwners, KeepsRegions
  <1>8. CASE ~ H.epi
    <2> DEFINE p == G.blk[last].size + PageUnits
    <2>0. PICK R : R = Resize(G, last, p)
      OBVIOUS
    <2> DEFINE U == Unlink(R, last)
    <2>1. IsHeap(R) /\ R.pages = H.pages + 1 /\ R.epi = FALSE /\ R.blk = [B EXCEPT ![last].size = p]
      <3>1. /\ IsHeap(R) /\ R.pages = G.pages /\ R.epi = G.epi
            /\ R.blk = [G.blk EXCEPT ![last].size = p]
        BY <1>2, <2>0 DEF Resize, IsHeap
      <3> QED BY <1>2, <3>1
    <2>2. Grow(H) = InsertPage(U, last)
      BY <1>0, <1>8, <2>0 DEF Grow
    <2>3. Same(U, R)
      BY <2>1, UnlinkSame
    <2>4. Same(Grow(H), U)
      BY <2>2, <2>3, InsertSame DEF Same
    <2>5. p = B[last].size + PageUnits
      BY <1>2
    <2>6. Tiling(R.blk, FALSE, end + PageUnits)
      <3>1. Tiling(B, FALSE, end)
        BY <1>1, <1>8
      <3> QED BY <1>3, <1>5, <2>1, <2>5, <3>1, StretchTiled
    <2>7. Tiled(R)
      BY <1>2, <1>3, <1>4, <2>1, <2>6 DEF Tiled
    <2>8. /\ DOMAIN R.blk = DOMAIN B
          /\ \A b \in DOMAIN B : R.blk[b].alloc = B[b].alloc /\ R.blk[b].req = B[b].req
          /\ \A b \in DOMAIN B \ {last} : R.blk[b].size = B[b].size
          /\ R.blk[last].size = B[last].size + PageUnits
      <3>1. \A b \in DOMAIN B : B[b] \in Block
        BY <1>1, TilingFacts
      <3> QED BY <1>5, <2>1, <2>5, <3>1 DEF Block
    <2>9. Apart(R.blk)
      <3> SUFFICES ASSUME NEW a \in DOMAIN B, End(R.blk, a) \in DOMAIN B
                   PROVE  B[a].alloc \/ B[End(R.blk, a)].alloc
        BY <2>8 DEF Apart
      <3>1. a # last
        <4>1. /\ \A b \in DOMAIN B : b \in Nat /\ b < end
              /\ End(B, last) = end /\ B[last].size \in Nat
          BY <1>1, <1>5, TilingFacts
        <4> QED BY <1>3, <1>5, <2>8, <4>1 DEF End
      <3> QED BY <1>1, <2>8, <3>1 DEF Apart, End
    <2>10. SameOwners(R, H)
      BY <2>8 DEF SameOwners, Owned, KeepsRegions
    <2> QED BY <2>3, <2>4, <2>7, <2>9, <2>10, SameReady DEF Ready, SameOwners, KeepsRegions
  <1> QED BY <1>7, <1>8

(***************************************************************************)
(* sf_free.                                                                *)
(***************************************************************************)
\* G is H after a was freed and merged with what follows it.
Freed(G, H, a) ==
  /\ Tiled(G) /\ Merged(G.blk, a)
  /\ a \in DOMAIN G.blk /\ ~ G.blk[a].alloc /\ G.blk[a].prevAlloc = H.blk[a].prevAlloc
  /\ \A b \in DOMAIN H.blk : b < a => b \in DOMAIN G.blk /\ G.blk[b].size = H.blk[b].size
  /\ Owned(G) = Owned(H) \ {a} /\ KeepsRegions(G, H, Owned(H) \ {a})
  /\ Epilogue(G) = Epilogue(H)

LEMMA FreeAlone ==
  ASSUME NEW H, Ready(H), NEW a \in Owned(H), ~ NextFree(H, a)
  PROVE  Freed(SetPrevAlloc(MakeFree(H, a, H.blk[a].size, H.blk[a].prevAlloc), a + H.blk[a].size, FALSE), H, a)
  <1> DEFINE B == H.blk
             n == a + B[a].size
             end == Epilogue(H)
  <1>1. PICK G : G = MakeFree(H, a, B[a].size, B[a].prevAlloc)
    OBVIOUS
  <1>2. PICK F : F = SetPrevAlloc(G, n, FALSE)
    OBVIOUS
  <1>3. /\ IsHeap(H) /\ H.pages \in 1..MaxPages /\ Tiling(B, H.epi, end) /\ Apart(B)
        /\ a \in DOMAIN B /\ B[a].alloc /\ n = End(B, a)
    BY DEF Ready, Tiled, Owned, End
  <1>4. /\ DOMAIN B \subseteq Nat /\ H.epi \in BOOLEAN /\ end \notin DOMAIN B
        /\ \A b \in DOMAIN B : B[b] \in Block /\ B[b].size \in Nat /\ b < End(B, b)
        /\ n \in DOMAIN B \cup {end} /\ n # a
        /\ \A b, c \in DOMAIN B : End(B, b) = End(B, c) => b = c
    BY <1>3, TilingFacts
  <1>5. IsHeap(G) /\ G.pages = H.pages /\ G.epi = H.epi /\ G.blk = Put(B, a, FreeRecord(B[a].size, B[a].prevAlloc))
    BY <1>1, <1>3 DEF MakeFree, IsHeap, FreeRecord
  <1>6. /\ DOMAIN G.blk = DOMAIN B /\ \A b \in DOMAIN B \ {a} : G.blk[b] = B[b]
        /\ G.blk[a] = FreeRecord(B[a].size, B[a].prevAlloc)
    BY <1>3, <1>5 DEF Put
  <1>7. /\ G.blk[a].size = B[a].size /\ ~ G.blk[a].alloc /\ G.blk[a].prevAlloc = B[a].prevAlloc
        /\ G.blk[a] \in Block
    BY <1>3, <1>4, <1>6 DEF FreeRecord, Block
  <1>8. /\ Epilogue(G) = end
        /\ G.blk \in [DOMAIN B -> Block]
        /\ \A b \in DOMAIN B : G.blk[b].size = B[b].size /\ G.blk[b].prevAlloc = B[b].prevAlloc
        /\ \A b \in DOMAIN B \ {a} : G.blk[b].alloc = B[b].alloc /\ G.blk[b].req = B[b].req
    <2>1. G.blk \in [DOMAIN B -> Block]
      BY <1>4, <1>5, <1>6, <1>7 DEF Put
    <2> QED BY <1>5, <1>6, <1>7, <2>1 DEF Epilogue
  <1>9. /\ IsHeap(F) /\ F.pages = H.pages
        /\ n = end => F.blk = G.blk /\ F.epi = FALSE
        /\ n # end => F.blk = [G.blk EXCEPT ![n].prevAlloc = FALSE] /\ F.epi = H.epi
    BY <1>2, <1>5, <1>8 DEF SetPrevAlloc, IsHeap
  <1>10. /\ DOMAIN F.blk = DOMAIN B /\ F.blk \in [DOMAIN B -> Block] /\ F.epi \in BOOLEAN
         /\ \A b \in DOMAIN B : F.blk[b].size = B[b].size
         /\ \A b \in DOMAIN B \ {a} : F.blk[b].alloc = B[b].alloc /\ F.blk[b].req = B[b].req
         /\ ~ F.blk[a].alloc
         /\ \A b \in DOMAIN B \ {n} : F.blk[b].prevAlloc = B[b].prevAlloc
         /\ n # end => F.epi = H.epi
    <2>1. CASE n = end
      <3>1. F.blk = G.blk /\ F.epi = FALSE
        BY <1>9, <2>1
      <3> HIDE DEF n, B
      <3> QED BY <1>3, <1>6, <1>7, <1>8, <2>1, <3>1
    <2>2. CASE n # end
      <3>1. F.blk = [G.blk EXCEPT ![n].prevAlloc = FALSE] /\ F.epi = H.epi /\ n \in DOMAIN B
        BY <1>4, <1>9, <2>2
      <3> HIDE DEF n, B
      <3>2. F.blk \in [DOMAIN B -> Block]
        BY <1>8, <3>1, ZenonT(60) DEF Block
      <3>3. \A b \in DOMAIN B : /\ F.blk[b].size = G.blk[b].size /\ F.blk[b].alloc = G.blk[b].alloc
                               /\ F.blk[b].req = G.blk[b].req
                               /\ b # n => F.blk[b].prevAlloc = G.blk[b].prevAlloc
        BY <1>8, <3>1 DEF Block
      <3> QED BY <1>3, <1>4, <1>7, <1>8, <3>1, <3>2, <3>3
    <2> QED BY <2>1, <2>2
  <1>11. Tag(F.blk, F.epi, end, n) = FALSE
    <2>1. CASE n = end
      BY <1>9, <2>1 DEF Tag
    <2>2. CASE n # end
      <3>1. n \in DOMAIN B /\ F.blk = [G.blk EXCEPT ![n].prevAlloc = FALSE]
        BY <1>4, <1>9, <2>2
      <3>2. G.blk[n] \in Block
        BY <1>4, <1>6, <3>1
      <3> HIDE DEF n
      <3> QED BY <1>6, <2>2, <3>1, <3>2 DEF Tag, Block
    <2> QED BY <2>1, <2>2
  <1>12. Tiling(F.blk, F.epi, end)
    <2>1. F.blk[a].alloc = FALSE /\ Tag(F.blk, F.epi, end, End(B, a)) = F.blk[a].alloc
      BY <1>3, <1>10, <1>11 DEF Block
    <2> HIDE DEF n, B
    <2>2. n # end => F.epi = H.epi
      BY <1>10
    <2>3. IsFlip(B, F.blk, a)
      BY <1>3, <1>10 DEF IsFlip
    <2>4. PICK C : C = F.blk
      OBVIOUS
    <2>5. PICK f : f = F.epi
      OBVIOUS
    <2>6. Tiling(C, f, end)
      BY <1>3, <1>10, <2>1, <2>2, <2>3, <2>4, <2>5, FlipTiled
    <2> QED BY <2>4, <2>5, <2>6
  <1>13. Tiled(F) /\ Epilogue(F) = end
    BY <1>3, <1>9, <1>12 DEF Tiled, Epilogue
  <1>14. Merged(F.blk, a)
    <2> SUFFICES ASSUME NEW b \in DOMAIN B, End(F.blk, b) \in DOMAIN B, End(F.blk, b) # a
                 PROVE  F.blk[b].alloc \/ F.blk[End(F.blk, b)].alloc
      BY <1>10 DEF Merged
    <2>1. End(F.blk, b) = End(B, b)
      BY <1>10 DEF End
    <2>2. CASE b = a
      BY <1>3, <1>4, <1>10, <2>1, <2>2 DEF NextFree, IsFree
    <2>3. CASE b # a
      BY <1>3, <1>10, <2>1, <2>3 DEF Apart
    <2> QED BY <2>2, <2>3
  <1>15. Owned(F) = Owned(H) \ {a} /\ KeepsRegions(F, H, Owned(H) \ {a})
    BY <1>3, <1>10 DEF Owned, KeepsRegions
  <1>16. F.blk[a].prevAlloc = B[a].prevAlloc /\ a \in DOMAIN F.blk
    BY <1>3, <1>4, <1>10
  <1> QED BY <1>1, <1>2, <1>10, <1>13, <1>14, <1>15, <1>16 DEF Freed

LEMMA FreeJoinNext ==
  ASSUME NEW H, Ready(H), NEW a \in Owned(H), NextFree(H, a),
         NEW U, Same(U, MakeFree(H, a, H.blk[a].size, H.blk[a].prevAlloc))
  PROVE  LET n == a + H.blk[a].size
         IN  Freed(Forget(Resize(U, a, U.blk[a].size + U.blk[n].size), n), H, a)
  <1> DEFINE B == H.blk
             n == a + B[a].size
             end == Epilogue(H)
             m == End(B, n)
  <1>1. PICK G : G = MakeFree(H, a, B[a].size, B[a].prevAlloc)
    OBVIOUS
  <1>2. PICK s : s = U.blk[a].size + U.blk[n].size
    OBVIOUS
  <1>3. PICK R : R = Resize(U, a, s)
    OBVIOUS
  <1>4. PICK F : F = Forget(R, n)
    OBVIOUS
  <1>5. /\ IsHeap(H) /\ H.pages \in 1..MaxPages /\ Tiling(B, H.epi, end) /\ Apart(B)
        /\ a \in DOMAIN B /\ B[a].alloc /\ n = End(B, a)
        /\ n \in DOMAIN B /\ ~ B[n].alloc
    BY DEF Ready, Tiled, Owned, End, NextFree, IsFree
  <1>6. /\ DOMAIN B \subseteq Nat /\ H.epi \in BOOLEAN /\ end \notin DOMAIN B
        /\ \A b \in DOMAIN B : /\ B[b] \in Block /\ B[b].size \in Nat /\ b < End(B, b)
                               /\ End(B, b) \in DOMAIN B \cup {end}
        /\ n # a
        /\ \A b, c \in DOMAIN B : End(B, b) = End(B, c) => b = c
    BY <1>5, TilingFacts
  <1>7. IsHeap(G) /\ G.pages = H.pages /\ G.epi = H.epi /\ G.blk = Put(B, a, FreeRecord(B[a].size, B[a].prevAlloc))
    BY <1>1, <1>5 DEF MakeFree, IsHeap, FreeRecord
  <1>8. IsHeap(U) /\ U.pages = H.pages /\ U.epi = H.epi /\ U.blk = G.blk
    BY <1>1, <1>7 DEF Same
  <1>9. /\ DOMAIN U.blk = DOMAIN B /\ \A b \in DOMAIN B \ {a} : U.blk[b] = B[b]
        /\ U.blk[a] = FreeRecord(B[a].size, B[a].prevAlloc)
    BY <1>5, <1>7, <1>8 DEF Put
  <1>10. /\ U.blk[a].size = B[a].size /\ ~ U.blk[a].alloc /\ U.blk[a].prevAlloc = B[a].prevAlloc
         /\ U.blk[a] \in Block /\ s = B[a].size + B[n].size /\ s \in Nat
    <2>1. /\ U.blk[a].size = B[a].size /\ ~ U.blk[a].alloc /\ U.blk[a].prevAlloc = B[a].prevAlloc
          /\ U.blk[a] \in Block
      BY <1>5, <1>6, <1>9 DEF FreeRecord, Block
    <2>2. U.blk[n] = B[n]
      BY <1>5, <1>6, <1>9
    <2> QED BY <1>2, <1>5, <1>6, <2>1, <2>2
  <1>11. IsHeap(R) /\ R.pages = H.pages /\ R.epi = H.epi /\ R.blk = [U.blk EXCEPT ![a].size = s]
    BY <1>3, <1>8 DEF Resize, IsHeap
  <1>12. IsHeap(F) /\ F.pages = H.pages /\ F.epi = H.epi /\ F.blk = [x \in DOMAIN R.blk \ {n} |-> R.blk[x]]
    BY <1>4, <1>11 DEF Forget, Restrict, IsHeap
  <1> HIDE DEF n
  <1>13. /\ DOMAIN F.blk = DOMAIN B \ {n} /\ F.blk \in [DOMAIN B \ {n} -> Block]
         /\ F.blk[a].size = B[a].size + B[n].size /\ ~ F.blk[a].alloc
         /\ F.blk[a].prevAlloc = B[a].prevAlloc
         /\ \A b \in (DOMAIN B \ {n}) \ {a} : F.blk[b] = B[b]
    <2>1. PICK C : C = U.blk
      OBVIOUS
    <2>2. PICK E : E = R.blk
      OBVIOUS
    <2>3. C \in [DOMAIN C -> Block] /\ a \in DOMAIN C /\ s \in Nat /\ E = [C EXCEPT ![a].size = s]
      <3>1. DOMAIN C = DOMAIN B /\ a \in DOMAIN B /\ C[a] \in Block /\ \A b \in DOMAIN B \ {a} : C[b] = B[b]
        BY <1>5, <1>9, <1>10, <2>1
      <3>2. \A b \in DOMAIN B : C[b] \in Block
        BY <1>6, <3>1
      <3>3. C = [b \in DOMAIN C |-> C[b]]
        BY <1>7, <1>8, <2>1 DEF Put
      <3> QED BY <1>10, <1>11, <2>1, <2>2, <3>1, <3>2, <3>3
    <2>4. /\ DOMAIN E = DOMAIN C /\ E \in [DOMAIN C -> Block] /\ \A b \in DOMAIN C \ {a} : E[b] = C[b]
          /\ E[a].size = s /\ E[a].alloc = C[a].alloc /\ E[a].prevAlloc = C[a].prevAlloc
      BY <2>3, SizeChanged
    <2>5. F.blk = [x \in DOMAIN B \ {n} |-> E[x]] /\ DOMAIN C = DOMAIN B
      BY <1>9, <1>12, <2>1, <2>2, <2>4
    <2>6. a \in DOMAIN B \ {n} /\ F.blk[a] = E[a]
      BY <1>5, <1>6, <2>5
    <2>7. F.blk[a].size = s /\ ~ F.blk[a].alloc /\ F.blk[a].prevAlloc = B[a].prevAlloc
      BY <1>10, <2>1, <2>4, <2>6
    <2>8. F.blk \in [DOMAIN B \ {n} -> Block]
      BY <2>4, <2>5
    <2>9. \A b \in (DOMAIN B \ {n}) \ {a} : F.blk[b] = B[b]
      BY <1>9, <2>1, <2>4, <2>5
    <2> QED BY <1>10, <2>5, <2>7, <2>8, <2>9
  <1>14. Tiling(F.blk, F.epi, end) /\ End(F.blk, a) = m
    <2> HIDE DEF B
    <2>1. /\ Tiling(B, F.epi, end) /\ End(B, a) \in DOMAIN B /\ ~ B[End(B, a)].alloc
          /\ DOMAIN F.blk = DOMAIN B \ {End(B, a)} /\ F.blk \in [DOMAIN F.blk -> Block]
          /\ F.blk[a].size = B[a].size + B[End(B, a)].size
          /\ \A b \in DOMAIN F.blk \ {a} : F.blk[b] = B[b]
      BY <1>5, <1>12, <1>13
    <2>2. a \in DOMAIN B /\ ~ F.blk[a].alloc /\ F.blk[a].prevAlloc = B[a].prevAlloc
      BY <1>5, <1>13
    <2>3. PICK C : C = F.blk
      OBVIOUS
    <2>4. PICK f : f = F.epi
      OBVIOUS
    <2>5. PICK x : x = End(B, a)
      OBVIOUS
    <2> HIDE DEF end
    <2>6. /\ Tiling(B, f, end) /\ End(B, a) \in DOMAIN B /\ ~ B[End(B, a)].alloc
          /\ DOMAIN C = DOMAIN B \ {End(B, a)} /\ C \in [DOMAIN C -> Block]
          /\ C[a].size = B[a].size + B[End(B, a)].size
          /\ \A b \in DOMAIN C \ {a} : C[b] = B[b]
      BY <2>1, <2>3, <2>4
    <2>7. a \in DOMAIN B /\ ~ C[a].alloc /\ C[a].prevAlloc = B[a].prevAlloc
      BY <2>2, <2>3
    <2>8. Tiling(C, f, end) /\ End(C, a) = End(B, End(B, a))
      BY <2>6, <2>7, MergeTiled
    <2> QED BY <1>5, <2>3, <2>4, <2>8
  <1>15. Tiled(F) /\ Epilogue(F) = end
    BY <1>5, <1>12, <1>14 DEF Tiled, Epilogue
  <1>16. Merged(F.blk, a)
    <2> SUFFICES ASSUME NEW b \in DOMAIN B \ {n}, End(F.blk, b) \in DOMAIN B \ {n}, End(F.blk, b) # a
                 PROVE  F.blk[b].alloc \/ F.blk[End(F.blk, b)].alloc
      BY <1>13 DEF Merged
    <2>1. CASE b = a
      BY <1>5, <1>6, <1>13, <1>14, <2>1 DEF Apart
    <2>2. CASE b # a
      BY <1>5, <1>13, <2>2 DEF Apart, End
    <2> QED BY <2>1, <2>2
  <1>17. Owned(F) = Owned(H) \ {a} /\ KeepsRegions(F, H, Owned(H) \ {a})
    BY <1>5, <1>13 DEF Owned, KeepsRegions
  <1>18. \A b \in DOMAIN B : b < a => b \in DOMAIN F.blk /\ F.blk[b].size = B[b].size
    BY <1>5, <1>6, <1>13
  <1>19. a \in DOMAIN F.blk
    BY <1>5, <1>6, <1>13
  <1> QED BY <1>1, <1>2, <1>3, <1>4, <1>13, <1>15, <1>16, <1>17, <1>18, <1>19 DEF Freed, n

\* Two free neighbours of a tiled heap become one block.
LEMMA JoinTiled ==
  ASSUME NEW U, Tiled(U), NEW a \in DOMAIN U.blk, NEW n \in DOMAIN U.blk, n = End(U.blk, a),
         ~ U.blk[a].alloc, ~ U.blk[n].alloc,
         NEW s, s = U.blk[a].size + U.blk[n].size,
         NEW K, K = Forget(Resize(U, a, s), n)
  PROVE  /\ Tiled(K) /\ Epilogue(K) = Epilogue(U)
         /\ DOMAIN K.blk = DOMAIN U.blk \ {n} /\ a \in DOMAIN K.blk
         /\ End(K.blk, a) = End(U.blk, n) /\ ~ K.blk[a].alloc
         /\ \A b \in DOMAIN K.blk \ {a} : K.blk[b] = U.blk[b]
         /\ Owned(K) = Owned(U) /\ KeepsRegions(K, U, Owned(U))
  <1>1. PICK B : B = U.blk
    OBVIOUS
  <1>2. PICK C : C = K.blk
    OBVIOUS
  <1>3. PICK e : e = U.epi
    OBVIOUS
  <1>4. PICK end : end = Epilogue(U)
    OBVIOUS
  <1>5. PICK R : R = Resize(U, a, s)
    OBVIOUS
  <1>6. /\ IsHeap(U) /\ U.pages \in 1..MaxPages /\ Tiling(B, e, end)
    BY <1>1, <1>3, <1>4 DEF Tiled
  <1>7. /\ \A b \in DOMAIN B : B[b] \in Block /\ B[b].size \in Nat /\ b < End(B, b)
        /\ DOMAIN B \subseteq Nat /\ a # n /\ s \in Nat
        /\ \A b \in DOMAIN B : End(B, b) \in Nat
    BY <1>1, <1>6, TilingFacts
  <1>8. IsHeap(R) /\ R.pages = U.pages /\ R.epi = e /\ R.blk = [B EXCEPT ![a].size = s]
    BY <1>1, <1>3, <1>5, <1>6 DEF Resize, IsHeap
  <1>9. K = Forget(R, n)
    BY <1>5
  <1>10. IsHeap(K) /\ K.pages = U.pages /\ K.epi = e /\ C = [x \in DOMAIN R.blk \ {n} |-> R.blk[x]]
    BY <1>2, <1>8, <1>9 DEF Forget, Restrict, IsHeap
  <1>11. /\ DOMAIN C = DOMAIN B \ {n} /\ C \in [DOMAIN C -> Block]
         /\ C[a].size = B[a].size + B[n].size /\ ~ C[a].alloc
         /\ C[a].prevAlloc = B[a].prevAlloc /\ a \in DOMAIN C
         /\ \A b \in DOMAIN C \ {a} : C[b] = B[b]
    <2>1. PICK D, r : D = R.blk /\ r = [B[a] EXCEPT !.size = s]
      OBVIOUS
    <2>2. B[a] \in Block /\ a \in DOMAIN B /\ s \in Nat /\ s = B[a].size + B[n].size /\ B[a].alloc = FALSE
      BY <1>1, <1>7 DEF Block
    <2>3. r \in Block /\ r.size = s /\ r.alloc = FALSE /\ r.prevAlloc = B[a].prevAlloc
      BY <2>1, <2>2 DEF Block
    <2>4. DOMAIN D = DOMAIN B /\ D[a] = r /\ \A b \in DOMAIN B \ {a} : D[b] = B[b]
      BY <1>8, <2>1, <2>2
    <2>5. C = [x \in DOMAIN B \ {n} |-> D[x]] /\ a # n
      BY <1>7, <1>10, <2>1, <2>4
    <2>6. C[a] = r /\ DOMAIN C = DOMAIN B \ {n} /\ \A b \in DOMAIN C \ {a} : C[b] = B[b]
      BY <2>2, <2>4, <2>5
    <2>7. \A b \in DOMAIN C : C[b] \in Block
      BY <1>7, <2>3, <2>6
    <2>8. C \in [DOMAIN C -> Block]
      BY <2>5, <2>7
    <2>9. a \in DOMAIN C /\ C[a].size = B[a].size + B[n].size /\ C[a].prevAlloc = B[a].prevAlloc
      BY ONLY <2>2, <2>3, <2>5, <2>6
    <2>10. ~ C[a].alloc
      BY ONLY <2>3, <2>6
    <2> QED BY ONLY <2>6, <2>8, <2>9, <2>10
  <1>12. Tiling(C, e, end) /\ End(C, a) = End(B, n)
    <2>1. /\ a \in DOMAIN B /\ End(B, a) \in DOMAIN B /\ ~ B[End(B, a)].alloc
          /\ DOMAIN C = DOMAIN B \ {End(B, a)}
          /\ C[a].size = B[a].size + B[End(B, a)].size
      BY <1>1, <1>11
    <2>2. Tiling(C, e, end) /\ End(C, a) = End(B, End(B, a))
      BY <1>6, <1>11, <2>1, MergeTiled
    <2> QED BY <1>1, <2>2
  <1>13. Epilogue(K) = end
    BY <1>4, <1>10 DEF Epilogue
  <1>14. Tiled(K)
    BY <1>2, <1>6, <1>10, <1>12, <1>13 DEF Tiled
  <1>15. Owned(K) = Owned(U) /\ KeepsRegions(K, U, Owned(U))
    BY <1>1, <1>2, <1>11, ZenonT(60) DEF Owned, KeepsRegions
  <1> QED BY <1>1, <1>2, <1>4, <1>11, <1>12, <1>13, <1>14, <1>15

\* G is H after a was taken from its owner.
GivenBack(G, H, a) == Ready(G) /\ Owned(G) = Owned(H) \ {a} /\ KeepsRegions(G, H, Owned(H) \ {a})

LEMMA FreeJoinBefore ==
  ASSUME NEW H, Ready(H), NEW a \in Owned(H), ~ H.blk[a].prevAlloc,
         NEW G, Freed(G, H, a), NEW U, Same(U, G),
         NEW p, p = Before(H, a),
         NEW s, s = U.blk[p].size + U.blk[a].size,
         NEW K, K = Forget(Resize(U, p, s), a)
  PROVE  GivenBack(K, H, a) /\ Covers(K, p, a)
  <1>1. /\ Tiled(H) /\ a \in DOMAIN H.blk /\ Tiling(H.blk, H.epi, Epilogue(H)) /\ a # 0
    BY DEF Ready, Tiled, Owned, Tiling, Shape
  <1>2. p \in DOMAIN H.blk /\ End(H.blk, p) = a
    BY <1>1, BeforeEnds
  <1>3. p < a
    BY <1>1, <1>2, TilingFacts
  <1>4. /\ p \in DOMAIN G.blk /\ End(G.blk, p) = a /\ a \in DOMAIN G.blk
        /\ ~ G.blk[a].alloc /\ ~ G.blk[a].prevAlloc
        /\ Tiled(G) /\ Merged(G.blk, a) /\ Epilogue(G) = Epilogue(H)
        /\ Owned(G) = Owned(H) \ {a} /\ KeepsRegions(G, H, Owned(H) \ {a})
    BY <1>2, <1>3 DEF Freed, End
  <1>5. PICK C : C = U.blk
    OBVIOUS
  <1>6. C = G.blk /\ Tiled(U) /\ Owned(U) = Owned(G) /\ KeepsRegions(U, G, Owned(G)) /\ Epilogue(U) = Epilogue(G)
    BY <1>4, <1>5, SameReady DEF Same
  <1>7. Tiling(C, U.epi, Epilogue(U)) /\ a # Epilogue(U)
    BY <1>4, <1>5, <1>6, TilingFacts DEF Tiled
  <1>8. C[p].alloc = FALSE
    <2>1. Tag(C, U.epi, Epilogue(U), a) = C[p].alloc
      BY <1>4, <1>6, <1>7 DEF Tiling, Tags
    <2>2. C[a].prevAlloc = FALSE
      BY <1>4, <1>6, <1>7 DEF Tiling, Shape, Block
    <2> QED BY <1>7, <2>1, <2>2 DEF Tag
  <1>11. /\ Tiled(K) /\ Epilogue(K) = Epilogue(U)
         /\ DOMAIN K.blk = DOMAIN C \ {a} /\ p \in DOMAIN K.blk
         /\ End(K.blk, p) = End(C, a) /\ ~ K.blk[p].alloc
         /\ \A b \in DOMAIN K.blk \ {p} : K.blk[b] = C[b]
         /\ Owned(K) = Owned(U) /\ KeepsRegions(K, U, Owned(U))
    <2>1. /\ p \in DOMAIN U.blk /\ a \in DOMAIN U.blk /\ a = End(U.blk, p)
          /\ ~ U.blk[p].alloc /\ ~ U.blk[a].alloc
      BY <1>4, <1>5, <1>6, <1>8
    <2>2. /\ Tiled(K) /\ Epilogue(K) = Epilogue(U)
          /\ DOMAIN K.blk = DOMAIN U.blk \ {a} /\ p \in DOMAIN K.blk
          /\ End(K.blk, p) = End(U.blk, a) /\ ~ K.blk[p].alloc
          /\ \A b \in DOMAIN K.blk \ {p} : K.blk[b] = U.blk[b]
          /\ Owned(K) = Owned(U) /\ KeepsRegions(K, U, Owned(U))
      <3>1. Tiled(U)
        BY <1>6
      <3>2. s = U.blk[p].size + U.blk[a].size /\ K = Forget(Resize(U, p, s), a)
        OBVIOUS
      <3> QED BY ONLY <2>1, <3>1, <3>2, JoinTiled
    <2> QED BY <1>5, <2>2, Zenon
  <1>12. Apart(K.blk)
    <2> SUFFICES ASSUME NEW b \in DOMAIN K.blk, End(K.blk, b) \in DOMAIN K.blk
                 PROVE  K.blk[b].alloc \/ K.blk[End(K.blk, b)].alloc
      BY DEF Apart
    <2>1. CASE b = p
      <3>1. End(C, a) \in DOMAIN C /\ End(C, a) # a
        BY <1>11, <2>1
      <3>2. C[End(C, a)].alloc
        BY <1>4, <1>6, <3>1 DEF Merged
      <3>3. End(C, a) # p
        BY <1>4, <1>6, <1>7, <1>8, <3>2
      <3>4. End(K.blk, p) = End(C, a) /\ DOMAIN K.blk = DOMAIN C \ {a}
            /\ \A x \in DOMAIN K.blk \ {p} : K.blk[x] = C[x]
        BY <1>11
      <3>5. K.blk[End(C, a)] = C[End(C, a)]
        BY ONLY <3>1, <3>3, <3>4
      <3> QED BY ONLY <2>1, <3>2, <3>4, <3>5
    <2>2. CASE b # p
      <3>1. K.blk[b] = C[b] /\ End(K.blk, b) = End(C, b) /\ b \in DOMAIN C
        BY <1>11, <2>2 DEF End
      <3>2. C[b].alloc \/ C[End(C, b)].alloc
        BY <1>4, <1>6, <1>11, <3>1 DEF Merged
      <3>3. CASE End(C, b) = p
        BY <1>8, <3>1, <3>2, <3>3
      <3>4. CASE End(C, b) # p
        BY <1>11, <3>1, <3>2, <3>4
      <3> QED BY <3>3, <3>4
    <2> QED BY <2>1, <2>2
  <1>13. KeepsRegions(K, H, Owned(H) \ {a})
    <2>1. Owned(U) = Owned(H) \ {a} /\ Owned(G) = Owned(U)
      BY <1>4, <1>6
    <2>2. /\ KeepsRegions(K, U, Owned(U)) /\ KeepsRegions(U, G, Owned(U))
          /\ KeepsRegions(G, H, Owned(U))
      BY <1>4, <1>6, <1>11, <2>1
    <2>3. KeepsRegions(K, H, Owned(U))
      BY <2>2 DEF KeepsRegions
    <2> QED BY <2>1, <2>3
  <1>14. Covers(K, p, a)
    <2>1. a < End(C, a) /\ p <= a
      BY <1>1, <1>2, <1>3, <1>4, <1>6, <1>7, TilingFacts
    <2> QED BY <1>11, <2>1 DEF Covers, FreeSet, Owned
  <1> QED BY <1>4, <1>6, <1>11, <1>12, <1>13, <1>14 DEF Ready, GivenBack

(***************************************************************************)
(* sf_malloc.                                                              *)
(***************************************************************************)
Nodes(H) == {-k : k \in 1..Len(H.sizes)}

\* The lists: every node has a size and a link, every free block has links.
Listed(H) ==
  /\ IsHeap(H) /\ DOMAIN H.blk \subseteq Nat /\ H.blk \in [DOMAIN H.blk -> Block]
  /\ H.ok \in BOOLEAN /\ H.sizes \in Seq(Nat) /\ H.order \in Seq(Nat)
  /\ Len(H.sizes) >= 1 /\ Len(H.order) = Len(H.sizes) /\ ToSet(H.order) = DOMAIN H.sizes
  /\ DOMAIN H.next = FreeSet(H) \cup Nodes(H) /\ DOMAIN H.prev = FreeSet(H)

LEMMA FirstFound ==
  ASSUME NEW S, S \subseteq Nat, S # {}
  PROVE  FirstIn(S) \in S /\ \A j \in S : FirstIn(S) <= j
  <1>1. PICK x \in S : TRUE
    OBVIOUS
  <1>2. \E x1 \in S : \A y \in S : ~ (<<y, x1>> \in OpToRel(<, Nat))
    BY <1>1, NatLessThanWellFounded, WFMin
  <1>3. PICK m \in S : \A y \in S : ~ (<<y, m>> \in OpToRel(<, Nat))
    BY <1>2
  <1>4. ASSUME NEW y \in S
        PROVE  m <= y
    <2>1. ~ (y < m)
      BY <1>3 DEF OpToRel
    <2> QED BY <2>1
  <1> QED BY <1>4 DEF FirstIn

LEMMA SizeTyped ==
  ASSUME NEW H, Listed(H), NEW k \in 1..Len(H.order)
  PROVE  /\ Len(H.order) \in Nat /\ k \in Nat
         /\ H.order[k] \in 1..Len(H.sizes) /\ SizeAt(H, k) \in Nat
  <1>1. Len(H.order) \in Nat /\ k \in DOMAIN H.order /\ k \in Nat
    BY DEF Listed
  <1>2. H.order[k] \in ToSet(H.order)
    BY <1>1 DEF ToSet
  <1>3. H.order[k] \in 1..Len(H.sizes)
    BY <1>2 DEF Listed
  <1> QED BY <1>1, <1>3, SMTT(30) DEF SizeAt, Listed

LEMMA FitsFirst ==
  ASSUME NEW H, Listed(H), NEW bytes \in Nat, Fits(H, bytes) # {}, NEW k, k = FirstIn(Fits(H, bytes))
  PROVE  /\ k \in 1..Len(H.order) /\ SizeAt(H, k) \in Nat /\ bytes + 8 <= 16 * SizeAt(H, k)
         /\ H.next[NodeAt(H, k)] # NodeAt(H, k)
  <1>1. Fits(H, bytes) \subseteq 1..Len(H.order) /\ Len(H.order) \in Nat
    BY DEF Fits, Listed
  <1>2. k \in Fits(H, bytes)
    BY <1>1, FirstFound
  <1> QED BY <1>1, <1>2, SizeTyped DEF Fits

\* A payload of bytes and a header fit in the units, which a block that is long enough has.
LEMMA UnitsFit ==
  ASSUME NEW bytes \in Nat, NEW n \in Nat, n >= 2
  PROVE  /\ Units(bytes) \in Nat /\ Units(bytes) >= 2 /\ bytes + 8 <= 16 * Units(bytes)
         /\ bytes + 8 <= 16 * n => Units(bytes) <= n
  BY DEF Units

\* G is H after the block h was given n units and a payload of bytes.
Taken(G, H, h, n, bytes) ==
  /\ IsHeap(G) /\ G.pages = H.pages /\ G.epi = H.epi
  /\ DOMAIN G.blk = DOMAIN H.blk /\ G.blk \in [DOMAIN H.blk -> Block]
  /\ G.blk[h].size = n /\ G.blk[h].req = bytes /\ G.blk[h].alloc = TRUE
  /\ G.blk[h].prevAlloc = H.blk[h].prevAlloc
  /\ \A b \in DOMAIN H.blk \ {h} : G.blk[b] = H.blk[b]

LEMMA TakeBlock ==
  ASSUME NEW H, IsHeap(H), H.blk \in [DOMAIN H.blk -> Block], NEW h \in DOMAIN H.blk, NEW node,
         NEW n \in Nat, NEW bytes \in Nat,
         NEW G, G = Take(H, node, h, n, bytes)
  PROVE  Taken(G, H, h, n, bytes)
  <1>1. PICK B : B = H.blk
    OBVIOUS
  <1>2. IsHeap(G) /\ G.pages = H.pages /\ G.epi = H.epi
        /\ G.blk = [B EXCEPT ![h].size = n, ![h].req = bytes, ![h].alloc = TRUE]
    BY <1>1 DEF Take, IsHeap
  <1>3. /\ DOMAIN G.blk = DOMAIN B /\ \A b \in DOMAIN B \ {h} : G.blk[b] = B[b]
        /\ G.blk[h] = [[[B[h] EXCEPT !.size = n] EXCEPT !.req = bytes] EXCEPT !.alloc = TRUE]
    BY <1>1, <1>2
  <1>4. G.blk[h] = [size |-> n, req |-> bytes, alloc |-> TRUE, prevAlloc |-> B[h].prevAlloc]
    <2>1. PICK r \in Block : r = B[h]
      BY <1>1
    <2>2. PICK r1 : r1 = [r EXCEPT !.size = n]
      OBVIOUS
    <2>3. r1 = [size |-> n, req |-> r.req, alloc |-> r.alloc, prevAlloc |-> r.prevAlloc]
      BY <2>1, <2>2 DEF Block
    <2>4. PICK r2 : r2 = [r1 EXCEPT !.req = bytes]
      OBVIOUS
    <2>5. r2 = [size |-> n, req |-> bytes, alloc |-> r.alloc, prevAlloc |-> r.prevAlloc]
      BY <2>3, <2>4
    <2>6. G.blk[h] = [r2 EXCEPT !.alloc = TRUE]
      BY <1>3, <2>1, <2>2, <2>4
    <2> QED BY <2>1, <2>5, <2>6
  <1>5. G.blk[h] \in Block
    BY <1>1, <1>4 DEF Block
  <1>6. G.blk \in [DOMAIN B -> Block]
    <2>1. G.blk = [x \in DOMAIN B |-> G.blk[x]]
      BY <1>2
    <2>2. \A b \in DOMAIN B : G.blk[b] \in Block
      BY <1>1, <1>3, <1>5
    <2> QED BY <2>1, <2>2
  <1> QED BY <1>1, <1>2, <1>3, <1>4, <1>6 DEF Taken

\* A cut that leaves two units on both sides is inside the block.
LEMMA CutFresh ==
  ASSUME NEW B, NEW e, NEW end, Tiling(B, e, end),
         NEW a \in DOMAIN B, NEW w \in Nat, w >= 2, B[a].size - w >= 2
  PROVE  a + w \notin DOMAIN B /\ a + w # end /\ a + w \in Nat /\ a < a + w /\ a + w < End(B, a)
  <1>1. /\ a \in Nat /\ B[a].size \in Nat /\ End(B, a) <= end /\ end \in Nat
        /\ \A b \in DOMAIN B : b <= a \/ End(B, a) <= b
    BY TilingFacts
  <1> QED BY <1>1 DEF End

\* The heap after a block was granted at ptr, or none was.
Granted(G, ptr, H, bytes) ==
  /\ Ready(G)
  /\ ptr = NULL => SameOwners(G, H)
  /\ ptr # NULL => /\ ptr \notin Owned(H) /\ Owned(G) = Owned(H) \cup {ptr}
                   /\ KeepsRegions(G, H, Owned(H)) /\ G.blk[ptr].req = bytes

\* The rest of a free block that is cut is a free block.
LEMMA PlaceSplit ==
  ASSUME NEW H, Ready(H), NEW bytes \in Nat, NEW h \in DOMAIN H.blk, ~ H.blk[h].alloc,
         NEW node, NEW n \in Nat, NEW want \in Nat, n = H.blk[h].size,
         want >= 2, bytes + 8 <= 16 * want, n - want >= 2,
         NEW T, T = Take(H, node, h, want, bytes),
         NEW M, M = MakeFree(T, h + want, n - want, TRUE)
  PROVE  /\ Granted(M, h, H, bytes)
         /\ h + want \in DOMAIN M.blk /\ ~ M.blk[h + want].alloc
         /\ M.next = Put(T.next, h + want, Garbage) /\ M.prev = Put(T.prev, h + want, Garbage)
         /\ M.ok = T.ok /\ M.order = T.order /\ M.sizes = T.sizes
  <1>1. PICK B : B = H.blk
    OBVIOUS
  <1>2. PICK C : C = M.blk
    OBVIOUS
  <1>3. PICK end : end = Epilogue(H)
    OBVIOUS
  <1>4. PICK cut : cut = h + want
    OBVIOUS
  <1>5. /\ IsHeap(H) /\ H.pages \in 1..MaxPages /\ Tiling(B, H.epi, end) /\ Apart(B)
        /\ h \in DOMAIN B /\ B \in [DOMAIN B -> Block]
    BY <1>1, <1>3 DEF Ready, Tiled, Tiling, Shape
  <1>6. /\ cut \notin DOMAIN B /\ cut # end /\ cut \in Nat /\ cut # h /\ cut < End(B, h)
        /\ DOMAIN B \subseteq Nat /\ H.epi \in BOOLEAN /\ end \notin DOMAIN B
        /\ \A b \in DOMAIN B : End(B, b) \in DOMAIN B \cup {end} /\ b < End(B, b) /\ End(B, b) \in Nat
    BY <1>1, <1>4, <1>5, CutFresh, TilingFacts
  <1>7. /\ IsHeap(T) /\ T.pages = H.pages /\ T.epi = H.epi
        /\ DOMAIN T.blk = DOMAIN B /\ T.blk \in [DOMAIN B -> Block]
        /\ T.blk[h].size = want /\ T.blk[h].req = bytes /\ T.blk[h].alloc = TRUE
        /\ T.blk[h].prevAlloc = B[h].prevAlloc
        /\ \A b \in DOMAIN B \ {h} : T.blk[b] = B[b]
    <2>1. H.blk \in [DOMAIN H.blk -> Block]
      BY <1>1, <1>5
    <2>2. Taken(T, H, h, want, bytes)
      BY <1>5, <2>1, TakeBlock
    <2> QED BY <1>1, <2>2, Zenon DEF Taken
  <1>8. /\ IsHeap(M) /\ M.pages = H.pages /\ M.epi = H.epi
        /\ C = Put(T.blk, cut, FreeRecord(n - want, TRUE))
        /\ M.next = Put(T.next, cut, Garbage) /\ M.prev = Put(T.prev, cut, Garbage)
        /\ M.ok = T.ok /\ M.order = T.order /\ M.sizes = T.sizes
    BY <1>2, <1>4, <1>7 DEF MakeFree, IsHeap, FreeRecord
  <1>9. /\ DOMAIN C = DOMAIN B \cup {cut}
        /\ C[cut] = FreeRecord(n - want, TRUE)
        /\ \A b \in DOMAIN B : C[b] = T.blk[b]
    BY <1>6, <1>7, <1>8, Zenon DEF Put
  <1>10. /\ C[cut].size = n - want /\ C[cut].alloc = FALSE /\ C[cut].prevAlloc = TRUE
         /\ C[cut] \in Block
    BY <1>9 DEF FreeRecord, Block
  <1>11. /\ C \in [DOMAIN C -> Block]
         /\ C[h].size = want /\ C[h].req = bytes /\ C[h].alloc = TRUE /\ C[h].prevAlloc = B[h].prevAlloc
         /\ \A b \in DOMAIN B \ {h} : C[b] = B[b]
    <2>1. \A b \in DOMAIN C : C[b] \in Block
      BY <1>7, <1>9, <1>10
    <2>2. C = [x \in DOMAIN C |-> C[x]]
      BY <1>8 DEF Put
    <2>3. C \in [DOMAIN C -> Block]
      BY <2>1, <2>2
    <2> QED BY <1>5, <1>7, <1>9, <2>3
  <1>12. Tiling(C, H.epi, end) /\ End(C, cut) = End(B, h)
    <2>1. PICK e : e = H.epi
      OBVIOUS
    <2>2. ~ Tag(C, e, end, End(B, h))
      <3>1. Tag(B, e, end, End(B, h)) = B[h].alloc
        BY <1>5, <2>1 DEF Tiling, Tags
      <3>2. End(B, h) # h /\ End(B, h) \in DOMAIN B \cup {end}
        BY <1>5, <1>6
      <3> QED BY <1>1, <1>11, <3>1, <3>2 DEF Tag
    <2>3. /\ Tiling(B, e, end) /\ e \in BOOLEAN /\ B[h].size - want >= 2
      BY <1>1, <1>5, <1>6, <2>1
    <2>4. IsSplit(B, C, h, want, cut)
      <3>1. /\ C[cut].size = B[h].size - want /\ ~ C[cut].alloc /\ C[cut].prevAlloc = C[h].alloc
            /\ C[h].alloc => C[h].req + 8 <= 16 * want
        BY <1>1, <1>10, <1>11
      <3>2. DOMAIN C = DOMAIN B \cup {cut}
        BY <1>9, Zenon
      <3> QED BY <1>4, <1>11, <3>1, <3>2 DEF IsSplit
    <2>5. PICK f : f = e
      OBVIOUS
    <2>6. /\ ~ Tag(C, f, end, End(B, h)) /\ f \in BOOLEAN
          /\ End(B, h) # end => f = e
      BY <2>2, <2>3, <2>5
    <2>7. Tiling(C, f, end) /\ End(C, cut) = End(B, h)
      BY <1>5, <2>3, <2>4, <2>6, SplitTiled
    <2> QED BY <2>1, <2>5, <2>7
  <1>13. Epilogue(M) = end
    BY <1>3, <1>8 DEF Epilogue
  <1>14. Tiled(M)
    BY <1>2, <1>5, <1>8, <1>12, <1>13 DEF Tiled
  <1>15. Apart(C)
    <2> SUFFICES ASSUME NEW b \in DOMAIN C, End(C, b) \in DOMAIN C
                 PROVE  C[b].alloc \/ C[End(C, b)].alloc
      BY DEF Apart
    <2>1. CASE b = h
      BY <1>11, <2>1
    <2>2. CASE b = cut
      <3>1. End(B, h) \in DOMAIN B /\ End(B, h) # h
        BY <1>5, <1>6, <1>9, <1>12, <2>2
      <3>2. B[End(B, h)].alloc
        BY <1>1, <1>5, <3>1 DEF Apart
      <3> QED BY <1>11, <1>12, <2>2, <3>1, <3>2
    <2>3. CASE b # h /\ b # cut
      <3>1. b \in DOMAIN B /\ C[b] = B[b] /\ End(C, b) = End(B, b)
        BY <1>9, <1>11, <2>3 DEF End
      <3>2. End(B, b) \in DOMAIN B
        BY <1>6, <1>9, <3>1
      <3>3. CASE End(B, b) = h
        BY <1>11, <3>1, <3>3
      <3>4. CASE End(B, b) # h
        BY <1>5, <1>11, <3>1, <3>2, <3>4 DEF Apart
      <3> QED BY <3>3, <3>4
    <2> QED BY <2>1, <2>2, <2>3
  <1>16. h \notin Owned(H) /\ Owned(M) = Owned(H) \cup {h}
    <2>1. h \notin Owned(H)
      BY DEF Owned
    <2>2. ASSUME NEW b
          PROVE  b \in Owned(M) <=> b \in Owned(H) \cup {h}
      <3>1. CASE b = cut
        BY <1>1, <1>2, <1>6, <1>10, <3>1 DEF Owned
      <3>2. CASE b # cut
        BY <1>1, <1>2, <1>5, <1>9, <1>11, <3>2, ZenonT(60) DEF Owned
      <3> QED BY <3>1, <3>2
    <2> QED BY <2>1, <2>2
  <1>17. KeepsRegions(M, H, Owned(H)) /\ M.blk[h].req = bytes
    BY <1>1, <1>2, <1>11, <1>16 DEF KeepsRegions, Owned
  <1>18. h # NULL
    BY <1>5, <1>6 DEF NULL
  <1>19. Granted(M, h, H, bytes)
    BY <1>2, <1>14, <1>15, <1>16, <1>17, <1>18 DEF Granted, Ready
  <1>20. cut \in DOMAIN M.blk /\ ~ M.blk[cut].alloc
    BY <1>2, <1>9, <1>10
  <1> QED BY <1>4, <1>8, <1>19, <1>20

\* A free block is granted as a whole.
LEMMA PlaceWhole ==
  ASSUME NEW H, Ready(H), NEW bytes \in Nat, NEW h \in DOMAIN H.blk, ~ H.blk[h].alloc,
         NEW node, NEW n \in Nat, n = H.blk[h].size, bytes + 8 <= 16 * n,
         NEW T, T = Take(H, node, h, n, bytes),
         NEW M, M = SetPrevAlloc(T, h + n, TRUE)
  PROVE  /\ Granted(M, h, H, bytes)
         /\ M.next = T.next /\ M.prev = T.prev
         /\ M.ok = T.ok /\ M.order = T.order /\ M.sizes = T.sizes
  <1>1. PICK B : B = H.blk
    OBVIOUS
  <1>2. PICK C : C = M.blk
    OBVIOUS
  <1>3. PICK end : end = Epilogue(H)
    OBVIOUS
  <1>4. PICK x : x = End(B, h)
    OBVIOUS
  <1>5. /\ IsHeap(H) /\ H.pages \in 1..MaxPages /\ Tiling(B, H.epi, end) /\ Apart(B)
        /\ h \in DOMAIN B /\ B \in [DOMAIN B -> Block] /\ H.epi \in BOOLEAN
    BY <1>1, <1>3 DEF Ready, Tiled, Tiling, Shape
  <1>6. /\ DOMAIN B \subseteq Nat /\ end \notin DOMAIN B
        /\ x = h + n /\ x \in DOMAIN B \cup {end} /\ x # h
    BY <1>1, <1>4, <1>5, TilingFacts DEF End
  <1>7. /\ IsHeap(T) /\ T.pages = H.pages /\ T.epi = H.epi
        /\ DOMAIN T.blk = DOMAIN B /\ T.blk \in [DOMAIN B -> Block]
        /\ T.blk[h].size = n /\ T.blk[h].req = bytes /\ T.blk[h].alloc = TRUE
        /\ T.blk[h].prevAlloc = B[h].prevAlloc
        /\ \A b \in DOMAIN B \ {h} : T.blk[b] = B[b]
    <2>1. H.blk \in [DOMAIN H.blk -> Block]
      BY <1>1, <1>5
    <2>2. Taken(T, H, h, n, bytes)
      BY <1>5, <2>1, TakeBlock
    <2> QED BY <1>1, <2>2, Zenon DEF Taken
  <1>8. /\ IsHeap(M) /\ M.pages = H.pages /\ M.epi \in BOOLEAN
        /\ x = end => C = T.blk /\ M.epi = TRUE
        /\ x # end => C = [T.blk EXCEPT ![x].prevAlloc = TRUE] /\ M.epi = H.epi
        /\ M.next = T.next /\ M.prev = T.prev
        /\ M.ok = T.ok /\ M.order = T.order /\ M.sizes = T.sizes
    <2>1. Epilogue(T) = end
      BY <1>3, <1>7 DEF Epilogue
    <2> QED BY <1>2, <1>5, <1>6, <1>7, <2>1 DEF SetPrevAlloc, IsHeap
  <1>9. /\ C \in [DOMAIN B -> Block]
        /\ \A b \in DOMAIN B : /\ C[b].size = T.blk[b].size /\ C[b].alloc = T.blk[b].alloc
                               /\ C[b].req = T.blk[b].req
        /\ \A b \in DOMAIN B \ {x} : C[b].prevAlloc = T.blk[b].prevAlloc
    <2>1. CASE x = end
      BY <1>7, <1>8, <2>1
    <2>2. CASE x # end
      <3>1. PICK D : D = T.blk
        OBVIOUS
      <3>2. x \in DOMAIN B /\ C = [D EXCEPT ![x].prevAlloc = TRUE] /\ D \in [DOMAIN B -> Block]
        BY <1>6, <1>7, <1>8, <2>2, <3>1
      <3>3. C \in [DOMAIN B -> Block]
        BY <3>2 DEF Block
      <3>4. \A b \in DOMAIN B : C[b].size = D[b].size /\ C[b].alloc = D[b].alloc /\ C[b].req = D[b].req
        BY <3>2 DEF Block
      <3>5. \A b \in DOMAIN B \ {x} : C[b] = D[b]
        BY <3>2
      <3> QED BY <3>1, <3>3, <3>4, <3>5
    <2> QED BY <2>1, <2>2
  <1>10. Tag(C, M.epi, end, x) = TRUE
    <2>1. CASE x = end
      BY <1>8, <2>1 DEF Tag
    <2>2. CASE x # end
      BY <1>6, <1>7, <1>8, <2>2, ZenonT(60) DEF Tag, Block
    <2> QED BY <2>1, <2>2
  <1>11. IsFlip(B, C, h)
    <2>1. DOMAIN C = DOMAIN B
      BY <1>9
    <2>0. PICK D : D = T.blk
      OBVIOUS
    <2>a. /\ \A b \in DOMAIN B : C[b].size = D[b].size /\ C[b].alloc = D[b].alloc /\ C[b].req = D[b].req
          /\ \A b \in DOMAIN B \ {x} : C[b].prevAlloc = D[b].prevAlloc
      BY <1>9, <2>0
    <2>b. /\ \A b \in DOMAIN B \ {h} : D[b] = B[b]
          /\ D[h].size = n /\ D[h].prevAlloc = B[h].prevAlloc
      BY <1>7, <2>0
    <2>2. \A b \in DOMAIN B : C[b].size = B[b].size
      <3>1. B[h].size = n
        BY <1>1
      <3>2. \A b \in DOMAIN B : D[b].size = B[b].size
        BY <2>b, <3>1
      <3> QED BY <2>a, <3>2
    <2>3. \A b \in DOMAIN B \ {h} : C[b].alloc = B[b].alloc /\ C[b].req = B[b].req
      BY <2>a, <2>b
    <2>4. C[h].req + 8 <= 16 * C[h].size
      BY <1>5, <1>7, <1>9
    <2>5. \A b \in DOMAIN B \ {End(B, h)} : C[b].prevAlloc = B[b].prevAlloc
      <3>1. \A b \in DOMAIN B : D[b].prevAlloc = B[b].prevAlloc
        BY <2>b
      <3> QED BY <1>4, <2>a, <3>1
    <2> QED BY <1>9, <2>1, <2>2, <2>3, <2>4, <2>5 DEF IsFlip
  <1>12. Tiling(C, M.epi, end)
    <2>1. PICK e : e = H.epi
      OBVIOUS
    <2>2. PICK f : f = M.epi
      OBVIOUS
    <2>3. Tag(C, f, end, End(B, h)) = C[h].alloc
      BY <1>4, <1>5, <1>7, <1>9, <1>10, <2>2
    <2>4. f \in BOOLEAN /\ (End(B, h) # end => f = e) /\ Tiling(B, e, end)
      BY <1>4, <1>5, <1>8, <2>1, <2>2
    <2>5. Tiling(C, f, end)
      BY <1>5, <1>11, <2>3, <2>4, FlipTiled
    <2> QED BY <2>2, <2>5
  <1>13. Epilogue(M) = end
    BY <1>3, <1>8 DEF Epilogue
  <1>14. Tiled(M)
    BY <1>2, <1>5, <1>8, <1>12, <1>13 DEF Tiled
  <1>15. Apart(C)
    <2> SUFFICES ASSUME NEW b \in DOMAIN B, End(C, b) \in DOMAIN B
                 PROVE  C[b].alloc \/ C[End(C, b)].alloc
      BY <1>9 DEF Apart
    <2>1. End(C, b) = End(B, b) /\ (B[b].alloc \/ B[End(B, b)].alloc)
      BY <1>5, <1>11 DEF End, IsFlip, Apart
    <2>2. \A y \in DOMAIN B : B[y].alloc => C[y].alloc
      BY <1>1, <1>11 DEF IsFlip
    <2> QED BY <2>1, <2>2
  <1>16. h \notin Owned(H) /\ Owned(M) = Owned(H) \cup {h}
    <2>1. h \notin Owned(H)
      BY DEF Owned
    <2>2. ASSUME NEW b
          PROVE  b \in Owned(M) <=> b \in Owned(H) \cup {h}
      <3>1. CASE b = h
        BY <1>2, <1>5, <1>7, <1>9, <3>1 DEF Owned
      <3>2. CASE b # h
        BY <1>1, <1>2, <1>9, <1>11, <3>2 DEF Owned, IsFlip
      <3> QED BY <3>1, <3>2
    <2> QED BY <2>1, <2>2
  <1>17. KeepsRegions(M, H, Owned(H)) /\ M.blk[h].req = bytes
    <2>1. M.blk[h].req = bytes
      BY <1>2, <1>5, <1>7, <1>9
    <2>2. \A b \in Owned(H) : b \in DOMAIN B \ {h}
      BY <1>1, <1>16 DEF Owned
    <2> QED BY <1>1, <1>2, <1>11, <2>1, <2>2 DEF KeepsRegions, IsFlip
  <1>18. h # NULL
    BY <1>5, <1>6 DEF NULL
  <1>19. Granted(M, h, H, bytes)
    BY <1>2, <1>14, <1>15, <1>16, <1>17, <1>18 DEF Granted, Ready
  <1> QED BY <1>8, <1>19

(***************************************************************************)
(* The lists keep their shape.                                             *)
(***************************************************************************)
\* G is H with other links, or strayed.
Kept(G, H) ==
  /\ Same(G, H) /\ G.order = H.order /\ G.sizes = H.sizes
  /\ DOMAIN G.next = DOMAIN H.next /\ DOMAIN G.prev = DOMAIN H.prev
  /\ G.ok = H.ok \/ G.ok = FALSE

LEMMA LinkKept ==
  ASSUME NEW H, IsHeap(H), NEW a, NEW v
  PROVE  Kept(SetPrev(H, a, v), H) /\ Kept(SetNext(H, a, v), H)
  BY DEF IsHeap, Kept, Same, SetPrev, SetNext, Stray

LEMMA UnlinkKept == ASSUME NEW H, IsHeap(H), NEW b PROVE Kept(Unlink(H, b), H)
  <1> DEFINE G == SetPrev(H, H.next[b], H.prev[b])
  <1>1. Kept(G, H)
    BY LinkKept
  <1>2. IsHeap(G)
    BY <1>1 DEF Kept, Same
  <1> HIDE DEF G
  <1>3. PICK U : U = SetNext(G, G.prev[b], G.next[b]) /\ Kept(U, G)
    BY <1>2, LinkKept
  <1>4. Kept(U, H)
    BY <1>1, <1>3 DEF Kept, Same
  <1>5. U = Unlink(H, b)
    BY <1>3 DEF Unlink, G
  <1> QED BY <1>4, <1>5

LEMMA HangKept == ASSUME NEW H, IsHeap(H), NEW k, NEW b PROVE Kept(HangBehind(H, k, b), H)
  <1> DEFINE first == H.next[NodeAt(H, k)]
             G == [H EXCEPT !.next[b] = H.next[first], !.prev[b] = first]
  <1>1. Kept(G, H) /\ Kept(Stray(H), H)
    BY DEF IsHeap, Kept, Same, Stray
  <1>2. PICK F : F = G
    OBVIOUS
  <1>3. Kept(F, H)
    BY <1>1, <1>2
  <1>4. IsHeap(F)
    BY <1>3 DEF Kept, Same
  <1>5. PICK U : U = SetPrev(F, H.next[first], b) /\ Kept(U, F)
    BY <1>4, LinkKept
  <1>6. Kept(U, H)
    BY <1>3, <1>5 DEF Kept, Same
  <1>7. HangBehind(H, k, b) = Stray(H) \/ HangBehind(H, k, b) = U
    BY <1>2, <1>5 DEF HangBehind
  <1> QED BY <1>1, <1>6, <1>7

LEMMA PushKept == ASSUME NEW H, IsHeap(H), NEW k, NEW b PROVE Kept(PushList(H, k, b), H)
  <1> DEFINE node == NodeAt(H, k)
  <1>1. PICK G : G = SetPrev(H, H.next[node], b)
    OBVIOUS
  <1>2. Kept(G, H)
    BY <1>1, LinkKept
  <1>3. PICK U : U = [G EXCEPT !.next[b] = G.next[node], !.prev[b] = node, !.next[node] = b]
    OBVIOUS
  <1>4. Kept(U, G)
    BY <1>2, <1>3 DEF IsHeap, Kept, Same
  <1>5. U = PushList(H, k, b)
    BY <1>1, <1>3 DEF PushList
  <1>6. Kept(U, H)
    BY <1>2, <1>4 DEF Kept, Same
  <1> QED BY <1>5, <1>6

LEMMA KeptListed == ASSUME NEW H, Listed(H), NEW G, Kept(G, H) PROVE Listed(G) /\ FreeSet(G) = FreeSet(H)
  BY DEF Listed, Kept, Same, FreeSet, Owned, Nodes

\* t is the sequence s with e in the place i.
WithAt(s, t, i, e) ==
  t \in Seq(Nat) /\ Len(t) = Len(s) + 1 /\ t[i] = e /\ ToSet(t) = ToSet(s) \cup {e}

LEMMA InsertAtFacts ==
  ASSUME NEW s \in Seq(Nat), NEW k \in 0..Len(s), NEW e \in Nat
  PROVE  WithAt(s, InsertAt(s, k + 1, e), k + 1, e)
  <1>0. PICK t : t = InsertAt(s, k + 1, e)
    OBVIOUS
  <1>1. PICK u : u = SubSeq(s, 1, k)
    OBVIOUS
  <1>2. PICK v : v = SubSeq(s, k + 1, Len(s))
    OBVIOUS
  <1>3. PICK w : w = u \o <<e>>
    OBVIOUS
  <1>4. /\ Len(s) \in Nat /\ k \in Nat /\ k <= Len(s) /\ k \in Int /\ Len(s) \in Int
        /\ \A i \in 1..Len(s) : s[i] \in Nat
    BY LenProperties
  <1>5. u \in Seq(Nat) /\ Len(u) = k
    <2>1. \A i \in 1..k : s[i] \in Nat
      BY <1>4
    <2>2. u \in Seq(Nat) /\ Len(u) = IF 1 <= k THEN k - 1 + 1 ELSE 0
      BY <1>1, <1>4, <2>1, SubSeqProperties
    <2> QED BY <1>4, <2>2
  <1>6. v \in Seq(Nat) /\ Len(v) = Len(s) - k
    <2>1. \A i \in (k + 1)..Len(s) : s[i] \in Nat
      BY <1>4
    <2>2. k + 1 \in Int
      BY <1>4
    <2>3. v \in Seq(Nat) /\ Len(v) = IF k + 1 <= Len(s) THEN Len(s) - (k + 1) + 1 ELSE 0
      BY <1>2, <1>4, <2>1, <2>2, SubSeqProperties
    <2> QED BY <1>4, <2>3
  <1>7. s = u \o v
    <2>1. 1 \in 1..(Len(s) + 1) /\ k \in (1 - 1)..Len(s) /\ Len(s) \in k..Len(s)
      BY <1>4
    <2>2. SubSeq(s, 1, k) \o SubSeq(s, k + 1, Len(s)) = SubSeq(s, 1, Len(s))
      BY <2>1, ConcatAdjacentSubSeq
    <2> QED BY <1>1, <1>2, <2>2, SubSeqFull
  <1>8. <<e>> \in Seq(Nat) /\ Len(<<e>>) = 1 /\ <<e>>[1] = e /\ Range(<<e>>) = {e}
    BY DEF Range
  <1>9. w \in Seq(Nat) /\ Len(w) = k + 1 /\ w[k + 1] = e
    <2>1. /\ w \in Seq(Nat) /\ Len(w) = Len(u) + Len(<<e>>)
          /\ \A i \in 1 .. Len(u) + Len(<<e>>) : w[i] = IF i <= Len(u) THEN u[i] ELSE <<e>>[i - Len(u)]
      BY <1>3, <1>5, <1>8, ConcatProperties
    <2>2. k + 1 \in 1 .. Len(u) + Len(<<e>>) /\ ~ (k + 1 <= Len(u)) /\ (k + 1) - Len(u) = 1
      BY <1>4, <1>5, <1>8
    <2> QED BY <1>5, <1>8, <2>1, <2>2
  <1>10. t = w \o v
    <2>1. (k + 1) - 1 = k
      BY <1>4
    <2> QED BY <1>0, <1>1, <1>2, <1>3, <2>1 DEF InsertAt
  <1>11. t \in Seq(Nat) /\ Len(t) = Len(s) + 1 /\ t[k + 1] = e
    <2>1. /\ t \in Seq(Nat) /\ Len(t) = Len(w) + Len(v)
          /\ \A i \in 1 .. Len(w) + Len(v) : t[i] = IF i <= Len(w) THEN w[i] ELSE v[i - Len(w)]
      <3>1. w \o v \in Seq(Nat)
        BY <1>6, <1>9, ConcatProperties
      <3>2. Len(w \o v) = Len(w) + Len(v)
        BY <1>6, <1>9, ConcatProperties
      <3>3. \A i \in 1 .. Len(w) + Len(v) : (w \o v)[i] = IF i <= Len(w) THEN w[i] ELSE v[i - Len(w)]
        BY <1>6, <1>9, ConcatProperties
      <3> QED BY <1>10, <3>1, <3>2, <3>3
    <2>2. Len(t) = Len(s) + 1
      BY <1>4, <1>6, <1>9, <2>1
    <2>3. k + 1 \in 1 .. Len(w) + Len(v) /\ k + 1 <= Len(w)
      BY <1>4, <1>6, <1>9
    <2>4. t[k + 1] = w[k + 1]
      BY <2>1, <2>3
    <2> QED BY <1>9, <2>1, <2>2, <2>4
  <1>12. Range(t) = (Range(u) \cup Range(<<e>>)) \cup Range(v) /\ Range(s) = Range(u) \cup Range(v)
    <2>1. Range(t) = Range(w) \cup Range(v)
      <3>1. w \in Seq(Nat) /\ v \in Seq(Nat)
        BY <1>6, <1>9
      <3> QED BY <1>10, <3>1, RangeConcatenation, ZenonT(30)
    <2>2. Range(w) = Range(u) \cup Range(<<e>>)
      <3>1. u \in Seq(Nat) /\ <<e>> \in Seq(Nat)
        BY <1>5, <1>8
      <3> QED BY <1>3, <3>1, RangeConcatenation, ZenonT(30)
    <2>3. Range(s) = Range(u) \cup Range(v)
      <3>1. u \in Seq(Nat) /\ v \in Seq(Nat)
        BY <1>5, <1>6
      <3> QED BY <1>7, <3>1, RangeConcatenation, ZenonT(30)
    <2> QED BY <2>1, <2>2, <2>3, Zenon
  <1>13. ToSet(t) = Range(t) /\ ToSet(s) = Range(s)
    BY DEF ToSet, Range
  <1>14. Range(t) = Range(s) \cup {e}
    BY <1>8, <1>12
  <1>15. ToSet(t) = ToSet(s) \cup {e}
    BY <1>13, <1>14, Zenon
  <1> QED BY <1>0, <1>11, <1>15 DEF WithAt

\* The lists and the domains of the links are those of H, but for the free blocks.
LEMMA ListedAs ==
  ASSUME NEW H, Listed(H), NEW G, IsHeap(G), G.sizes = H.sizes, G.order = H.order, G.ok = H.ok,
         DOMAIN G.blk \subseteq Nat, G.blk \in [DOMAIN G.blk -> Block],
         \A x : x \in DOMAIN G.next <=> x \in FreeSet(G) \/ x \in Nodes(H),
         \A x : x \in DOMAIN G.prev <=> x \in FreeSet(G)
  PROVE  Listed(G)
  <1>1. Nodes(G) = Nodes(H)
    BY DEF Nodes
  <1> QED BY <1>1 DEF Listed

LEMMA NodesNegative ==
  ASSUME NEW H, Listed(H)
  PROVE  /\ \A x \in Nodes(H) : x \notin Nat
         /\ \A k \in 1..Len(H.order) : NodeAt(H, k) \in Nodes(H)
  <1>1. Len(H.sizes) \in Nat
    BY LenProperties DEF Listed
  <1>2. \A x \in Nodes(H) : x \notin Nat
    BY <1>1 DEF Nodes
  <1> QED BY <1>2, SizeTyped DEF Nodes, NodeAt

LEMMA MakeFreeListed ==
  ASSUME NEW H, Listed(H), NEW a \in Nat, NEW n \in Nat, NEW bit \in BOOLEAN,
         NEW G, G = MakeFree(H, a, n, bit)
  PROVE  Listed(G)
  <1>1. PICK r : r = FreeRecord(n, bit)
    OBVIOUS
  <1>2. r \in Block /\ r.alloc = FALSE
    BY <1>1 DEF FreeRecord, Block
  <1>3. /\ IsHeap(G) /\ G.sizes = H.sizes /\ G.order = H.order /\ G.ok = H.ok
        /\ G.blk = Put(H.blk, a, r)
        /\ DOMAIN G.next = DOMAIN H.next \cup {a} /\ DOMAIN G.prev = DOMAIN H.prev \cup {a}
    BY <1>1 DEF MakeFree, IsHeap, FreeRecord, Put, Listed
  <1>4. /\ DOMAIN G.blk = DOMAIN H.blk \cup {a} /\ G.blk[a] = r
        /\ \A b \in DOMAIN H.blk \ {a} : G.blk[b] = H.blk[b]
    BY <1>3 DEF Put
  <1>5. G.blk \in [DOMAIN G.blk -> Block] /\ DOMAIN G.blk \subseteq Nat
    <2>1. G.blk = [x \in DOMAIN G.blk |-> G.blk[x]]
      BY <1>3 DEF Put
    <2>2. \A b \in DOMAIN G.blk : G.blk[b] \in Block
      BY <1>2, <1>4 DEF Listed
    <2> QED BY <1>4, <2>1, <2>2 DEF Listed
  <1>6. ASSUME NEW x
        PROVE  x \in FreeSet(G) <=> x \in FreeSet(H) \/ x = a
    BY <1>2, <1>4 DEF FreeSet, Owned
  <1>7. DOMAIN H.next = FreeSet(H) \cup Nodes(H) /\ DOMAIN H.prev = FreeSet(H)
    BY DEF Listed
  <1>8. /\ \A x : x \in DOMAIN G.next <=> x \in FreeSet(G) \/ x \in Nodes(H)
        /\ \A x : x \in DOMAIN G.prev <=> x \in FreeSet(G)
    BY <1>3, <1>6, <1>7
  <1> QED BY <1>3, <1>5, <1>8, ListedAs

LEMMA ForgetListed ==
  ASSUME NEW H, Listed(H), NEW a \in Nat, NEW G, G = Forget(H, a)
  PROVE  Listed(G)
  <1>1. /\ IsHeap(G) /\ G.sizes = H.sizes /\ G.order = H.order /\ G.ok = H.ok
        /\ G.blk = [x \in DOMAIN H.blk \ {a} |-> H.blk[x]]
        /\ DOMAIN G.next = DOMAIN H.next \ {a} /\ DOMAIN G.prev = DOMAIN H.prev \ {a}
    BY DEF Forget, Restrict, IsHeap, Listed
  <1>2. G.blk \in [DOMAIN G.blk -> Block] /\ DOMAIN G.blk \subseteq Nat
    BY <1>1 DEF Listed
  <1>3. ASSUME NEW x
        PROVE  x \in FreeSet(G) <=> x \in FreeSet(H) /\ x # a
    BY <1>1 DEF FreeSet, Owned
  <1>4. DOMAIN H.next = FreeSet(H) \cup Nodes(H) /\ DOMAIN H.prev = FreeSet(H)
    BY DEF Listed
  <1>5. /\ \A x : x \in DOMAIN G.next <=> x \in FreeSet(G) \/ x \in Nodes(H)
        /\ \A x : x \in DOMAIN G.prev <=> x \in FreeSet(G)
    BY <1>1, <1>3, <1>4, NodesNegative
  <1> QED BY <1>1, <1>2, <1>5, ListedAs

\* The lists do not depend on what else the headers say.
LEMMA HeaderListed ==
  ASSUME NEW H, Listed(H), NEW G, IsHeap(G), G.sizes = H.sizes, G.order = H.order, G.ok = H.ok,
         G.next = H.next, G.prev = H.prev,
         DOMAIN G.blk = DOMAIN H.blk, G.blk \in [DOMAIN H.blk -> Block],
         \A b \in DOMAIN H.blk : G.blk[b].alloc = H.blk[b].alloc
  PROVE  Listed(G)
  <1>1. FreeSet(G) = FreeSet(H)
    BY DEF FreeSet, Owned
  <1>2. Nodes(G) = Nodes(H)
    BY DEF Nodes
  <1> QED BY <1>1, <1>2 DEF Listed

LEMMA ResizeListed ==
  ASSUME NEW H, Listed(H), NEW a \in DOMAIN H.blk, NEW n \in Nat, NEW G,
         G = Resize(H, a, n) \/ G = [H EXCEPT !.blk[a].req = n]
  PROVE  Listed(G)
  <1>1. PICK B : B = H.blk
    OBVIOUS
  <1>2. /\ IsHeap(G) /\ G.sizes = H.sizes /\ G.order = H.order /\ G.ok = H.ok
        /\ G.next = H.next /\ G.prev = H.prev
        /\ G.blk = [B EXCEPT ![a].size = n] \/ G.blk = [B EXCEPT ![a].req = n]
    BY <1>1 DEF Resize, IsHeap, Listed
  <1>3. B \in [DOMAIN B -> Block]
    BY <1>1 DEF Listed
  <1>4. G.blk \in [DOMAIN B -> Block] /\ \A b \in DOMAIN B : G.blk[b].alloc = B[b].alloc
    BY <1>1, <1>2, <1>3 DEF Block
  <1> QED BY <1>1, <1>2, <1>4, HeaderListed

LEMMA TagListed ==
  ASSUME NEW H, Listed(H), NEW a, a = Epilogue(H) \/ a \in DOMAIN H.blk, NEW bit \in BOOLEAN,
         NEW G, G = SetPrevAlloc(H, a, bit)
  PROVE  Listed(G)
  <1>1. PICK B : B = H.blk
    OBVIOUS
  <1>2. /\ IsHeap(G) /\ G.sizes = H.sizes /\ G.order = H.order /\ G.ok = H.ok
        /\ G.next = H.next /\ G.prev = H.prev
        /\ G.blk = B \/ (a \in DOMAIN B /\ G.blk = [B EXCEPT ![a].prevAlloc = bit])
    BY <1>1 DEF SetPrevAlloc, IsHeap, Listed
  <1>3. B \in [DOMAIN B -> Block]
    BY <1>1 DEF Listed
  <1>4. G.blk \in [DOMAIN B -> Block] /\ \A b \in DOMAIN B : G.blk[b].alloc = B[b].alloc
    BY <1>1, <1>2, <1>3 DEF Block
  <1> QED BY <1>1, <1>2, <1>4, HeaderListed

LEMMA TakeListed ==
  ASSUME NEW H, Listed(H), NEW k \in 1..Len(H.order), NEW h \in FreeSet(H),
         NEW n \in Nat, NEW bytes \in Nat, NEW G, G = Take(H, NodeAt(H, k), h, n, bytes)
  PROVE  Listed(G)
  <1>1. PICK node : node = NodeAt(H, k)
    OBVIOUS
  <1>2. node \in Nodes(H) /\ node \notin Nat /\ h \in Nat /\ h \in DOMAIN H.blk
    BY <1>1, NodesNegative DEF FreeSet, Listed
  <1>3. IsHeap(H) /\ H.blk \in [DOMAIN H.blk -> Block]
    BY DEF Listed
  <1>4. Taken(G, H, h, n, bytes)
    BY <1>1, <1>2, <1>3, TakeBlock
  <1>5. /\ IsHeap(G) /\ G.sizes = H.sizes /\ G.order = H.order /\ G.ok = H.ok
        /\ DOMAIN G.next = (DOMAIN H.next \ {h}) \cup {node}
        /\ DOMAIN G.prev = DOMAIN H.prev \ {h}
    BY <1>1, <1>3 DEF Take, IsHeap, Restrict, Put
  <1>6. /\ DOMAIN G.blk = DOMAIN H.blk /\ G.blk \in [DOMAIN H.blk -> Block] /\ G.blk[h].alloc
        /\ \A b \in DOMAIN H.blk \ {h} : G.blk[b] = H.blk[b]
    BY <1>4 DEF Taken
  <1>7. ASSUME NEW x
        PROVE  x \in FreeSet(G) <=> x \in FreeSet(H) /\ x # h
    BY <1>6 DEF FreeSet, Owned
  <1>8. DOMAIN H.next = FreeSet(H) \cup Nodes(H) /\ DOMAIN H.prev = FreeSet(H) /\ DOMAIN H.blk \subseteq Nat
    BY DEF Listed
  <1>9. /\ \A x : x \in DOMAIN G.next <=> x \in FreeSet(G) \/ x \in Nodes(H)
        /\ \A x : x \in DOMAIN G.prev <=> x \in FreeSet(G)
    <2>1. \A x \in Nodes(H) : x # h
      BY <1>2, NodesNegative
    <2> QED BY <1>2, <1>5, <1>7, <1>8, <2>1
  <1> QED BY <1>5, <1>6, <1>8, <1>9, ListedAs

\* b is the first block of the list at position k, whose size is that of b.
Heads(G, k, b) ==
  k \in 1..Len(G.order) /\ G.next[NodeAt(G, k)] = b /\ SizeAt(G, k) = G.blk[b].size

LEMMA NewListListed ==
  ASSUME NEW H, Listed(H), NEW k \in 0..Len(H.order), NEW b \in FreeSet(H), NEW n, n = H.blk[b].size,
         NEW G, G = NewList(H, k, n, b)
  PROVE  Listed(G) /\ Heads(G, k + 1, b)
  <1>1. PICK id : id = Len(H.sizes) + 1
    OBVIOUS
  <1>2. /\ IsHeap(H) /\ H.sizes \in Seq(Nat) /\ H.order \in Seq(Nat) /\ Len(H.sizes) \in Nat
        /\ Len(H.order) = Len(H.sizes) /\ ToSet(H.order) = DOMAIN H.sizes
        /\ DOMAIN H.next = FreeSet(H) \cup Nodes(H) /\ DOMAIN H.prev = FreeSet(H)
        /\ b \in DOMAIN H.blk /\ b \in Nat /\ n \in Nat /\ id \in Nat /\ k \in Nat
    <2>1. Len(H.sizes) \in Nat
      BY LenProperties DEF Listed
    <2> QED BY <1>1, <2>1 DEF Listed, FreeSet, Block
  <1>3. /\ IsHeap(G) /\ G.pages = H.pages /\ G.blk = H.blk /\ G.epi = H.epi /\ G.ok = H.ok
        /\ G.order = InsertAt(H.order, k + 1, id) /\ G.sizes = Append(H.sizes, n)
        /\ G.next = Put(Put(H.next, b, -id), -id, b) /\ G.prev = Put(H.prev, b, -id)
    BY <1>1, <1>2 DEF NewList, IsHeap
  <1>4. /\ DOMAIN G.next = (DOMAIN H.next \cup {b}) \cup {-id} /\ G.next[-id] = b
        /\ DOMAIN G.prev = DOMAIN H.prev \cup {b}
    BY <1>3 DEF Put
  <1>5. /\ G.sizes \in Seq(Nat) /\ Len(G.sizes) = id /\ G.sizes[id] = n
    BY <1>1, <1>2, <1>3, AppendProperties
  <1>6. /\ G.order \in Seq(Nat) /\ Len(G.order) = Len(H.order) + 1 /\ G.order[k + 1] = id
        /\ ToSet(G.order) = ToSet(H.order) \cup {id}
    <2>1. WithAt(H.order, InsertAt(H.order, k + 1, id), k + 1, id)
      BY <1>2, InsertAtFacts
    <2> QED BY <1>3, <2>1, Zenon DEF WithAt
  <1>7. ToSet(G.order) = DOMAIN G.sizes
    <2>1. DOMAIN H.sizes = 1..Len(H.sizes) /\ DOMAIN G.sizes = 1..id
      BY <1>2, <1>5, LenProperties
    <2>2. 1..id = 1..Len(H.sizes) \cup {id}
      BY <1>1, <1>2
    <2> QED BY <1>2, <1>6, <2>1, <2>2
  <1>8. ASSUME NEW x
        PROVE  x \in Nodes(G) <=> x \in Nodes(H) \/ x = -id
    <2>1. x \in Nodes(G) <=> \E j \in 1..id : x = -j
      BY <1>5 DEF Nodes
    <2>2. x \in Nodes(H) <=> \E j \in 1..Len(H.sizes) : x = -j
      BY DEF Nodes
    <2>3. 1..id = 1..Len(H.sizes) \cup {id}
      BY <1>1, <1>2
    <2> QED BY <2>1, <2>2, <2>3
  <1>9. FreeSet(G) = FreeSet(H)
    BY <1>3 DEF FreeSet, Owned
  <1>10. /\ DOMAIN G.next = FreeSet(G) \cup Nodes(G)
         /\ DOMAIN G.prev = FreeSet(G)
    BY <1>2, <1>4, <1>8, <1>9
  <1>11. Listed(G)
    <2>1. Len(G.order) = Len(G.sizes) /\ Len(G.sizes) >= 1
      BY <1>1, <1>2, <1>5, <1>6
    <2>2. DOMAIN G.blk \subseteq Nat /\ G.blk \in [DOMAIN G.blk -> Block] /\ G.ok \in BOOLEAN
      BY <1>3 DEF Listed
    <2> QED BY <1>3, <1>5, <1>6, <1>7, <1>10, <2>1, <2>2 DEF Listed
  <1>12. k + 1 \in 1..Len(G.order) /\ NodeAt(G, k + 1) = -id /\ SizeAt(G, k + 1) = n
    BY <1>2, <1>5, <1>6 DEF NodeAt, SizeAt
  <1> QED BY <1>3, <1>4, <1>11, <1>12 DEF Heads

LEMMA FoundFacts ==
  ASSUME NEW H, Listed(H), NEW m, m \in {Len(H.order) - 1, Len(H.order)}, NEW n, Found(H, m, n) # 0
  PROVE  Found(H, m, n) \in 1..Len(H.order) /\ SizeAt(H, Found(H, m, n)) = n
  <1> DEFINE big == {k \in 1..m : SizeAt(H, k) >= n}
  <1>1. Len(H.order) \in Nat
    BY LenProperties DEF Listed
  <1>2. big \subseteq Nat /\ big \subseteq 1..Len(H.order)
    BY <1>1
  <1>3. big # {} /\ SizeAt(H, FirstIn(big)) = n /\ Found(H, m, n) = FirstIn(big)
    BY DEF Found
  <1> HIDE DEF big
  <1>4. FirstIn(big) \in big
    BY <1>2, <1>3, FirstFound
  <1> QED BY <1>2, <1>3, <1>4

LEMMA PushHeads ==
  ASSUME NEW H, Listed(H), NEW k \in 1..Len(H.order), NEW b \in FreeSet(H), SizeAt(H, k) = H.blk[b].size
  PROVE  Heads(PushList(H, k, b), k, b)
  <1>1. PICK node : node = NodeAt(H, k)
    OBVIOUS
  <1>2. PICK G : G = SetPrev(H, H.next[node], b)
    OBVIOUS
  <1>3. Kept(G, H) /\ IsHeap(G)
    <2>1. IsHeap(H)
      BY DEF Listed
    <2>2. Kept(G, H)
      BY <1>2, <2>1, LinkKept
    <2> QED BY <2>2 DEF Kept, Same
  <1>4. PICK U : U = [G EXCEPT !.next[b] = G.next[node], !.prev[b] = node, !.next[node] = b]
    OBVIOUS
  <1>5. U = PushList(H, k, b)
    BY <1>1, <1>2, <1>4 DEF PushList
  <1>6. node \in DOMAIN H.next
    BY <1>1, NodesNegative DEF Listed
  <1>7. U.next[node] = b /\ U.order = G.order /\ U.sizes = G.sizes /\ U.blk = G.blk
    BY <1>3, <1>4, <1>6 DEF IsHeap, Kept
  <1> QED BY <1>1, <1>3, <1>5, <1>7 DEF Heads, Kept, Same, NodeAt, SizeAt

LEMMA InsertListed ==
  ASSUME NEW H, Listed(H), NEW b \in FreeSet(H)
  PROVE  /\ Listed(InsertRest(H, b)) /\ Listed(InsertPage(H, b)) /\ Listed(InsertFreed(H, b))
         /\ \E k : Heads(InsertFreed(H, b), k, b)
  <1>1. PICK n : n = H.blk[b].size
    OBVIOUS
  <1>2. Len(H.order) \in Nat /\ Len(H.order) >= 1 /\ IsHeap(H)
    BY LenProperties DEF Listed
  <1>3. Listed(InsertRest(H, b))
    <2> DEFINE k == Found(H, Len(H.order) - 1, n)
               gaps == {j \in 0..Len(H.order) : Gap(H, j, n)}
    <2>1. CASE k # 0
      BY <1>1, <1>2, <2>1, HangKept, KeptListed DEF InsertRest
    <2>2. CASE k = 0 /\ gaps # {}
      <3>1. gaps \subseteq 0..Len(H.order) /\ gaps \subseteq Nat
        BY <1>2
      <3>2. InsertRest(H, b) = NewList(H, FirstIn(gaps), n, b)
        BY <1>1, <2>2 DEF InsertRest
      <3> HIDE DEF gaps
      <3>3. FirstIn(gaps) \in 0..Len(H.order)
        BY <2>2, <3>1, FirstFound
      <3> QED BY <1>1, <3>2, <3>3, NewListListed
    <2>3. CASE k = 0 /\ gaps = {}
      BY <1>1, <2>3 DEF InsertRest
    <2> QED BY <2>1, <2>2, <2>3
  <1> DEFINE ends == {j \in 1..Len(H.order) : Gap(H, j, n) \/ j = Len(H.order)}
  <1>4. FirstIn(ends) \in 0..Len(H.order)
    <2>1. ends \subseteq 0..Len(H.order) /\ ends \subseteq Nat /\ Len(H.order) \in ends
      BY <1>2
    <2> HIDE DEF ends
    <2> QED BY <2>1, FirstFound
  <1>5. Listed(InsertPage(H, b))
    <2> DEFINE k == Found(H, Len(H.order) - 1, n)
    <2>1. CASE k # 0
      BY <1>1, <1>2, <2>1, HangKept, KeptListed DEF InsertPage
    <2>2. CASE k = 0
      <3>1. InsertPage(H, b) = NewList(H, FirstIn(ends), n, b)
        BY <1>1, <2>2 DEF InsertPage
      <3> HIDE DEF ends
      <3> QED BY <1>1, <1>4, <3>1, NewListListed
    <2> QED BY <2>1, <2>2
  <1>6. Listed(InsertFreed(H, b)) /\ \E k : Heads(InsertFreed(H, b), k, b)
    <2>1. PICK k : k = Found(H, Len(H.order), n)
      OBVIOUS
    <2>2. CASE k # 0
      <3>1. InsertFreed(H, b) = PushList(H, k, b)
        BY <1>1, <2>1, <2>2 DEF InsertFreed
      <3>2. k \in 1..Len(H.order) /\ SizeAt(H, k) = n
        BY <2>1, <2>2, FoundFacts
      <3>3. Heads(PushList(H, k, b), k, b)
        BY <1>1, <3>2, PushHeads
      <3> QED BY <1>2, <3>1, <3>3, PushKept, KeptListed
    <2>3. CASE k = 0
      <3>1. PICK j \in 0..Len(H.order) : InsertFreed(H, b) = NewList(H, j, n, b)
        <4>1. 0 \in 0..Len(H.order)
          BY <1>2
        <4>2. \/ InsertFreed(H, b) = NewList(H, 0, n, b)
              \/ InsertFreed(H, b) = NewList(H, FirstIn(ends), n, b)
          BY <1>1, <2>1, <2>3 DEF InsertFreed
        <4> QED BY <1>4, <4>1, <4>2
      <3> QED BY <1>1, <3>1, NewListListed
    <2> QED BY <2>2, <2>3
  <1> QED BY <1>3, <1>5, <1>6

(***************************************************************************)
(* sf_malloc, from the first list that fits.                               *)
(***************************************************************************)
LEMMA SameGranted ==
  ASSUME NEW H, NEW G, NEW F, Same(F, G), NEW ptr, NEW bytes, Granted(G, ptr, H, bytes)
  PROVE  Granted(F, ptr, H, bytes)
  <1>1. Ready(F) /\ Owned(F) = Owned(G) /\ F.blk = G.blk
    BY SameReady DEF Granted, Same
  <1> QED BY <1>1 DEF Granted, SameOwners, KeepsRegions

LEMMA PlaceReady ==
  ASSUME NEW H, Ready(H), Listed(H), NEW bytes \in Nat, Fits(H, bytes) # {}
  PROVE  LET m == Place(H, bytes) IN m.heap.ok => Granted(m.heap, m.ptr, H, bytes) /\ Listed(m.heap)
  <1>1. PICK k : k = FirstIn(Fits(H, bytes))
    OBVIOUS
  <1>2. PICK n : n = SizeAt(H, k)
    OBVIOUS
  <1>3. PICK h : h = H.next[NodeAt(H, k)]
    OBVIOUS
  <1>4. PICK want : want = Units(bytes)
    OBVIOUS
  <1>5. PICK node : node = NodeAt(H, k)
    OBVIOUS
  <1>6. k \in 1..Len(H.order) /\ n \in Nat /\ bytes + 8 <= 16 * n
    BY <1>1, <1>2, FitsFirst
  <1>7. CASE ~ IsFree(H, h) \/ H.blk[h].size # n
    <2>1. Place(H, bytes) = [heap |-> Stray(H), ptr |-> h]
      BY <1>1, <1>2, <1>3, <1>7 DEF Place
    <2>2. ~ Stray(H).ok
      BY DEF Listed, IsHeap, Stray
    <2> QED BY <2>1, <2>2
  <1>8. CASE IsFree(H, h) /\ H.blk[h].size = n
    <2>1. h \in DOMAIN H.blk /\ ~ H.blk[h].alloc /\ h \in FreeSet(H) /\ h \in Nat
      BY <1>8 DEF IsFree, FreeSet, Owned, Listed
    <2>2. n >= 2 /\ h + n = End(H.blk, h) /\ h + n \in DOMAIN H.blk \cup {Epilogue(H)}
      BY <1>8, <2>1, TilingFacts DEF Ready, Tiled, End
    <2>3. want \in Nat /\ want >= 2 /\ bytes + 8 <= 16 * want /\ want <= n
      BY <1>4, <1>6, <2>2, UnitsFit
    <2>4. CASE n - want >= 2
      <3>1. PICK T : T = Take(H, node, h, want, bytes)
        OBVIOUS
      <3>2. PICK M : M = MakeFree(T, h + want, n - want, TRUE)
        OBVIOUS
      <3>3. PICK G : G = InsertRest(M, h + want)
        OBVIOUS
      <3>4. Place(H, bytes) = [heap |-> G, ptr |-> h]
        BY <1>1, <1>2, <1>3, <1>4, <1>5, <1>8, <2>4, <3>1, <3>2, <3>3 DEF Place
      <3>5. Granted(M, h, H, bytes) /\ h + want \in DOMAIN M.blk /\ ~ M.blk[h + want].alloc
        BY <1>6, <1>8, <2>1, <2>3, <2>4, <3>1, <3>2, PlaceSplit, ZenonT(60)
      <3>6. Listed(M)
        <4>1. Listed(T)
          BY <1>5, <1>6, <2>1, <2>3, <3>1, TakeListed
        <4>2. h + want \in Nat /\ n - want \in Nat /\ TRUE \in BOOLEAN
          BY <1>6, <2>1, <2>3
        <4> QED BY <3>2, <4>1, <4>2, MakeFreeListed
      <3>7. h + want \in FreeSet(M)
        BY <3>5 DEF FreeSet, Owned
      <3>8. Listed(G) /\ Same(G, M)
        <4>1. IsHeap(M)
          BY <3>6 DEF Listed
        <4>2. Listed(InsertRest(M, h + want))
          BY <3>6, <3>7, InsertListed
        <4>3. Same(InsertRest(M, h + want), M)
          BY <4>1, InsertSame
        <4> QED BY <3>3, <4>2, <4>3
      <3>9. Granted(G, h, H, bytes)
        BY <3>5, <3>8, SameGranted
      <3> QED BY <3>4, <3>8, <3>9
    <2>5. CASE ~ (n - want >= 2)
      <3>1. PICK T : T = Take(H, node, h, n, bytes)
        OBVIOUS
      <3>2. PICK M : M = SetPrevAlloc(T, h + n, TRUE)
        OBVIOUS
      <3>3. Place(H, bytes) = [heap |-> M, ptr |-> h]
        BY <1>1, <1>2, <1>3, <1>4, <1>5, <1>8, <2>5, <3>1, <3>2 DEF Place
      <3>4. Granted(M, h, H, bytes)
        BY <1>6, <1>8, <2>1, <3>1, <3>2, PlaceWhole
      <3>5. Listed(T)
        BY <1>5, <1>6, <2>1, <3>1, TakeListed
      <3>6. h + n = Epilogue(T) \/ h + n \in DOMAIN T.blk
        <4>1. Taken(T, H, h, n, bytes)
          BY <1>6, <2>1, <3>1, TakeBlock DEF Listed
        <4> QED BY <2>2, <4>1 DEF Taken, Epilogue
      <3>7. Listed(M)
        BY <3>2, <3>5, <3>6, TagListed
      <3> QED BY <3>3, <3>4, <3>7
    <2> QED BY <2>4, <2>5
  <1> QED BY <1>7, <1>8

LEMMA JoinListed ==
  ASSUME NEW V, Listed(V), NEW x \in DOMAIN V.blk, NEW y \in DOMAIN V.blk,
         NEW s, s = V.blk[x].size + V.blk[y].size
  PROVE  Listed(Forget(Resize(V, x, s), y))
  <1>1. s \in Nat /\ y \in Nat
    BY DEF Listed, Block
  <1>2. Listed(Resize(V, x, s))
    BY <1>1, ResizeListed
  <1> QED BY <1>1, <1>2, ForgetListed

\* sf_free takes the block from its owner and nothing else, leaves no two free neighbours,
\* and the block that holds the freed one heads a list of its size.
LEMMA FreeReady ==
  ASSUME NEW H, Ready(H), Listed(H), NEW a \in Owned(H)
  PROVE  /\ GivenBack(FreeBlock(H, a), H, a) /\ Listed(FreeBlock(H, a))
         /\ \E x, k : Covers(FreeBlock(H, a), x, a) /\ Heads(FreeBlock(H, a), k, x)
  <1> DEFINE n == a + H.blk[a].size
             p == Before(H, a)
             G == MakeFree(H, a, H.blk[a].size, H.blk[a].prevAlloc)
             G1 == IF NextFree(H, a) THEN Unlink(G, n) ELSE SetPrevAlloc(G, n, FALSE)
             G2 == IF NextFree(H, a) THEN Forget(Resize(G1, a, G1.blk[a].size + G1.blk[n].size), n) ELSE G1
             U == Unlink(G2, p)
             G3 == IF H.blk[a].prevAlloc THEN G2
                   ELSE Forget(Resize(U, p, U.blk[p].size + U.blk[a].size), a)
             c == IF H.blk[a].prevAlloc THEN a ELSE p
  <1>1. FreeBlock(H, a) = InsertFreed(G3, c)
    BY Zenon DEF FreeBlock
  <1>2. IsHeap(G)
    BY DEF MakeFree, IsHeap, Ready, Tiled
  <1>2a. Listed(G) /\ a \in DOMAIN G.blk
    <2>1. a \in DOMAIN H.blk /\ a \in Nat /\ H.blk[a].size \in Nat /\ H.blk[a].prevAlloc \in BOOLEAN
      BY DEF Listed, Owned, Block
    <2>2. DOMAIN G.blk = DOMAIN H.blk \cup {a}
      BY DEF MakeFree, Listed, IsHeap, Put
    <2> QED BY <2>1, <2>2, MakeFreeListed
  <1>3. Freed(G2, H, a) /\ Listed(G2)
    <2>1. CASE NextFree(H, a)
      <3>1. Same(Unlink(G, n), G)
        BY <1>2, UnlinkSame
      <3> HIDE DEF G
      <3>2. PICK V : V = Unlink(G, n)
        OBVIOUS
      <3>3. Same(V, G) /\ G2 = Forget(Resize(V, a, V.blk[a].size + V.blk[n].size), n)
        BY <2>1, <3>1, <3>2
      <3>4. Listed(V)
        BY <1>2, <1>2a, <3>2, UnlinkKept, KeptListed
      <3>5. a \in DOMAIN V.blk /\ n \in DOMAIN V.blk
        <4>1. DOMAIN G.blk = DOMAIN H.blk \cup {a}
          BY DEF MakeFree, Listed, IsHeap, Put, G
        <4>2. n \in DOMAIN H.blk
          BY <2>1 DEF NextFree, IsFree
        <4> QED BY <3>3, <4>1, <4>2 DEF Same
      <3>6. Listed(G2)
        BY <3>3, <3>4, <3>5, JoinListed
      <3> USE DEF G
      <3> QED BY <2>1, <3>3, <3>6, FreeJoinNext
    <2>2. CASE ~ NextFree(H, a)
      <3>1. G2 = SetPrevAlloc(G, n, FALSE)
        BY <2>2
      <3>2. n = Epilogue(G) \/ n \in DOMAIN G.blk
        <4>1. n = End(H.blk, a) /\ n \in DOMAIN H.blk \cup {Epilogue(H)}
          BY TilingFacts DEF Ready, Tiled, Owned, End
        <4>2. DOMAIN G.blk = DOMAIN H.blk \cup {a} /\ Epilogue(G) = Epilogue(H)
          BY DEF MakeFree, Listed, IsHeap, Put, Epilogue
        <4> QED BY <4>1, <4>2
      <3>3. Listed(G2)
        <4>1. PICK V : V = G
          OBVIOUS
        <4>2. Listed(V) /\ G2 = SetPrevAlloc(V, n, FALSE) /\ (n = Epilogue(V) \/ n \in DOMAIN V.blk)
          BY <1>2a, <3>1, <3>2, <4>1
        <4>3. PICK W : W = SetPrevAlloc(V, n, FALSE) /\ Listed(W)
          BY <4>2, TagListed
        <4> QED BY <4>2, <4>3
      <3> QED BY <2>2, <3>3, FreeAlone
    <2> QED BY <2>1, <2>2
  <1> HIDE DEF G2
  <1>4. GivenBack(G3, H, a) /\ Listed(G3) /\ Covers(G3, c, a)
    <2>1. CASE H.blk[a].prevAlloc
      <3>1. Tiled(G2) /\ Merged(G2.blk, a) /\ Owned(G2) = Owned(H) \ {a} /\ KeepsRegions(G2, H, Owned(H) \ {a})
        BY <1>3 DEF Freed
      <3>2. Apart(G2.blk)
        <4> SUFFICES ASSUME NEW b \in DOMAIN G2.blk, End(G2.blk, b) \in DOMAIN G2.blk
                     PROVE  G2.blk[b].alloc \/ G2.blk[End(G2.blk, b)].alloc
          BY DEF Apart
        <4>1. CASE End(G2.blk, b) = a
          <5>1. Tiling(G2.blk, G2.epi, Epilogue(G2)) /\ a \in DOMAIN G2.blk /\ G2.blk[a].prevAlloc
            BY <1>3, <2>1 DEF Freed, Tiled
          <5>2. Tag(G2.blk, G2.epi, Epilogue(G2), a) = G2.blk[b].alloc
            BY <4>1, <5>1 DEF Tiling, Tags
          <5>3. a # Epilogue(G2)
            BY <5>1, TilingFacts
          <5> QED BY <5>1, <5>2, <5>3 DEF Tag
        <4>2. CASE End(G2.blk, b) # a
          BY <3>1, <4>2 DEF Merged
        <4> QED BY <4>1, <4>2
      <3>3. Covers(G2, a, a)
        <4>1. a \in DOMAIN G2.blk /\ ~ G2.blk[a].alloc
          BY <1>3 DEF Freed
        <4>2. a \in Nat /\ a < End(G2.blk, a)
          BY <3>1, <4>1, TilingFacts DEF Tiled
        <4> QED BY <4>1, <4>2 DEF Covers, FreeSet, Owned
      <3> QED BY <1>3, <2>1, <3>1, <3>2, <3>3 DEF Ready, GivenBack
    <2>2. CASE ~ H.blk[a].prevAlloc
      <3>1. IsHeap(G2)
        BY <1>3 DEF Freed, Tiled
      <3>2. PICK V : V = Unlink(G2, p)
        OBVIOUS
      <3>3. Same(V, G2) /\ G3 = Forget(Resize(V, p, V.blk[p].size + V.blk[a].size), a)
        BY <2>2, <3>1, <3>2, UnlinkSame
      <3>4. PICK q : q = p
        OBVIOUS
      <3>5. PICK s : s = V.blk[q].size + V.blk[a].size
        OBVIOUS
      <3>6. PICK K : K = Forget(Resize(V, q, s), a)
        OBVIOUS
      <3>7. GivenBack(K, H, a) /\ Covers(K, q, a)
        <4>1. PICK G4 : G4 = G2
          OBVIOUS
        <4>2. Freed(G4, H, a) /\ Same(V, G4)
          BY <1>3, <3>3, <4>1
        <4>3. q = Before(H, a)
          BY <3>4
        <4>4. Ready(H) /\ a \in Owned(H) /\ ~ H.blk[a].prevAlloc
          BY <2>2
        <4> QED BY <3>5, <3>6, <4>2, <4>3, <4>4, FreeJoinBefore
      <3>8. K = G3
        BY <3>3, <3>4, <3>5, <3>6, Zenon
      <3>9. Listed(K)
        <4>1. Listed(V)
          BY <1>3, <3>1, <3>2, UnlinkKept, KeptListed
        <4>2. a \in DOMAIN V.blk /\ q \in DOMAIN V.blk
          <5>1. Tiled(H) /\ a \in DOMAIN H.blk /\ a # 0
            BY <2>2 DEF Ready, Tiled, Tiling, Shape, Owned
          <5>2. q \in DOMAIN H.blk /\ End(H.blk, q) = a
            BY <3>4, <5>1, BeforeEnds
          <5>3. q < a
            BY <5>1, <5>2, TilingFacts DEF Tiled
          <5> QED BY <1>3, <3>3, <5>2, <5>3 DEF Freed, Same
        <4> QED BY <3>5, <3>6, <4>1, <4>2, JoinListed
      <3>10. c = q
        BY <2>2, <3>4
      <3> QED BY <3>7, <3>8, <3>9, <3>10, Zenon
    <2> QED BY <2>1, <2>2
  <1> HIDE DEF G3, c
  <1>5. c \in FreeSet(G3) /\ IsHeap(G3)
    BY <1>4 DEF Covers, Listed
  <1>6. PICK F : F = FreeBlock(H, a)
    OBVIOUS
  <1>7. Same(F, G3) /\ Listed(F) /\ \E k : Heads(F, k, c)
    <2>1. Same(InsertFreed(G3, c), G3)
      BY <1>5, InsertSame
    <2>2. Listed(InsertFreed(G3, c)) /\ \E k : Heads(InsertFreed(G3, c), k, c)
      BY <1>4, <1>5, InsertListed
    <2> QED BY <1>1, <1>6, <2>1, <2>2
  <1>8. GivenBack(F, H, a)
    BY <1>4, <1>7, SameReady DEF KeepsRegions, GivenBack
  <1>9. Covers(F, c, a)
    BY <1>4, <1>7 DEF Covers, FreeSet, Owned, Same
  <1> QED BY <1>6, <1>7, <1>8, <1>9

(***************************************************************************)
(* sf_realloc to a smaller size.                                           *)
(***************************************************************************)
\* G is H with the block a cut at cut and a payload of bytes, before what follows is told.
CutOff(G, H, a, want, cut, bytes) ==
  /\ IsHeap(G) /\ G.pages = H.pages /\ G.epi = H.epi
  /\ DOMAIN G.blk = DOMAIN H.blk \cup {cut} /\ G.blk \in [DOMAIN G.blk -> Block]
  /\ G.blk[a].size = want /\ G.blk[a].req = bytes /\ G.blk[a].alloc = TRUE
  /\ G.blk[a].prevAlloc = H.blk[a].prevAlloc
  /\ G.blk[cut].size = H.blk[a].size - want /\ G.blk[cut].alloc = FALSE /\ G.blk[cut].prevAlloc = TRUE
  /\ \A b \in DOMAIN H.blk \ {a} : G.blk[b] = H.blk[b]

LEMMA CutBlock ==
  ASSUME NEW H, Listed(H), NEW a \in Owned(H), NEW want \in Nat, NEW bytes \in Nat,
         NEW cut \in Nat, cut \notin DOMAIN H.blk, NEW rest \in Nat, rest = H.blk[a].size - want,
         NEW R, R = Resize([H EXCEPT !.blk[a].req = bytes], a, want),
         NEW G, G = MakeFree(R, cut, rest, TRUE)
  PROVE  CutOff(G, H, a, want, cut, bytes) /\ Listed(G)
  <1>1. PICK B : B = H.blk
    OBVIOUS
  <1>2. PICK Q : Q = [H EXCEPT !.blk[a].req = bytes]
    OBVIOUS
  <1>3. /\ IsHeap(H) /\ B \in [DOMAIN B -> Block] /\ a \in DOMAIN B /\ DOMAIN B \subseteq Nat
        /\ B[a] \in Block /\ B[a].alloc = TRUE
    BY <1>1 DEF Listed, Owned, Block
  <1>4. Listed(Q) /\ DOMAIN Q.blk = DOMAIN B /\ Q.pages = H.pages /\ Q.epi = H.epi /\ Q.blk = [B EXCEPT ![a].req = bytes]
    <2>1. Listed(Q)
      BY <1>1, <1>2, <1>3, ResizeListed
    <2> QED BY <1>1, <1>2, <1>3, <2>1 DEF IsHeap
  <1>5. R = Resize(Q, a, want)
    BY <1>2
  <1>6. Listed(R) /\ R.pages = H.pages /\ R.epi = H.epi /\ R.blk = [Q.blk EXCEPT ![a].size = want]
    <2>1. Listed(R)
      BY <1>3, <1>4, <1>5, ResizeListed
    <2> QED BY <1>4, <1>5, <2>1 DEF Resize, Listed, IsHeap
  <1>7. /\ DOMAIN R.blk = DOMAIN B /\ R.blk \in [DOMAIN B -> Block]
        /\ \A b \in DOMAIN B \ {a} : R.blk[b] = B[b]
        /\ R.blk[a].size = want /\ R.blk[a].req = bytes /\ R.blk[a].alloc = TRUE
        /\ R.blk[a].prevAlloc = B[a].prevAlloc
    <2>1. PICK C : C = Q.blk
      OBVIOUS
    <2>2. PICK D : D = R.blk
      OBVIOUS
    <2>3. C = [B EXCEPT ![a].req = bytes] /\ D = [C EXCEPT ![a].size = want]
      BY <1>4, <1>6, <2>1, <2>2
    <2>4. /\ C \in [DOMAIN B -> Block] /\ \A b \in DOMAIN B \ {a} : C[b] = B[b]
          /\ C[a].req = bytes /\ C[a].alloc = TRUE /\ C[a].prevAlloc = B[a].prevAlloc
      BY <1>3, <2>3 DEF Block
    <2>5. /\ D \in [DOMAIN B -> Block] /\ \A b \in DOMAIN B \ {a} : D[b] = B[b]
          /\ D[a].size = want /\ D[a].req = bytes /\ D[a].alloc = TRUE /\ D[a].prevAlloc = B[a].prevAlloc
      BY <1>3, <2>3, <2>4 DEF Block
    <2> QED BY <2>2, <2>5
  <1>8. Listed(G)
    <2>1. TRUE \in BOOLEAN
      OBVIOUS
    <2> QED BY <1>6, <2>1, MakeFreeListed
  <1>9. PICK r : r = FreeRecord(rest, TRUE)
    OBVIOUS
  <1>10. IsHeap(G) /\ G.pages = H.pages /\ G.epi = H.epi /\ G.blk = Put(R.blk, cut, r)
    BY <1>6, <1>9 DEF MakeFree, FreeRecord, Listed, IsHeap
  <1>11. /\ DOMAIN G.blk = DOMAIN B \cup {cut} /\ G.blk[cut] = r
         /\ \A b \in DOMAIN B : G.blk[b] = R.blk[b]
    <2>1. PICK C : C = R.blk
      OBVIOUS
    <2>2. PICK D : D = G.blk
      OBVIOUS
    <2>3. D = [y \in DOMAIN C \cup {cut} |-> IF y = cut THEN r ELSE C[y]]
      BY <1>10, <2>1, <2>2 DEF Put
    <2>4. DOMAIN C = DOMAIN B /\ cut \notin DOMAIN B
      BY <1>1, <1>7, <2>1
    <2>5. DOMAIN D = DOMAIN B \cup {cut} /\ D[cut] = r /\ \A b \in DOMAIN B : D[b] = C[b]
      BY <2>3, <2>4
    <2> QED BY <2>1, <2>2, <2>5
  <1>12. G.blk[cut].size = H.blk[a].size - want /\ G.blk[cut].alloc = FALSE /\ G.blk[cut].prevAlloc = TRUE
    <2>1. r.size = rest /\ r.alloc = FALSE /\ r.prevAlloc = TRUE
      BY <1>9 DEF FreeRecord
    <2>2. G.blk[cut] = r
      BY <1>11
    <2> QED BY <2>1, <2>2
  <1>13. G.blk \in [DOMAIN G.blk -> Block]
    BY <1>8 DEF Listed
  <1>14. /\ DOMAIN G.blk = DOMAIN H.blk \cup {cut}
         /\ G.blk[a].size = want /\ G.blk[a].req = bytes /\ G.blk[a].alloc = TRUE
         /\ G.blk[a].prevAlloc = H.blk[a].prevAlloc
         /\ \A b \in DOMAIN H.blk \ {a} : G.blk[b] = H.blk[b]
    <2>1. DOMAIN G.blk = DOMAIN H.blk \cup {cut}
      BY <1>1, <1>11
    <2>2. G.blk[a] = R.blk[a] /\ \A b \in DOMAIN B \ {a} : G.blk[b] = R.blk[b]
      BY <1>3, <1>11
    <2>3. /\ G.blk[a].size = want /\ G.blk[a].req = bytes /\ G.blk[a].alloc = TRUE
          /\ G.blk[a].prevAlloc = B[a].prevAlloc
      BY <1>7, <2>2
    <2>4. \A b \in DOMAIN B \ {a} : G.blk[b] = B[b]
      <3>1. \A b \in DOMAIN B \ {a} : R.blk[b] = B[b]
        BY <1>7
      <3> QED BY <2>2, <3>1
    <2>5. \A b \in DOMAIN H.blk \ {a} : G.blk[b] = H.blk[b]
      BY <1>1, <2>4
    <2>6. G.blk[a].prevAlloc = H.blk[a].prevAlloc
      BY <1>1, <2>3
    <2> QED BY <2>1, <2>3, <2>5, <2>6
  <1> QED BY <1>8, <1>10, <1>12, <1>13, <1>14, Zenon DEF CutOff

\* The heap after the payload of a shrank to bytes.
Shrunk(F, H, a, bytes) ==
  /\ Ready(F) /\ Owned(F) = Owned(H)
  /\ F.blk[a].req = bytes /\ KeepsRegions(F, H, Owned(H) \ {a})

LEMMA SameShrunk ==
  ASSUME NEW H, NEW G, NEW F, Same(F, G), NEW a, NEW bytes, Shrunk(G, H, a, bytes)
  PROVE  Shrunk(F, H, a, bytes)
  <1>1. Ready(F) /\ Owned(F) = Owned(G) /\ F.blk = G.blk
    BY SameReady DEF Shrunk, Same
  <1> QED BY <1>1 DEF Shrunk, KeepsRegions

\* Too little is left to cut off.
LEMMA ShrinkInPlace ==
  ASSUME NEW H, Ready(H), NEW a \in Owned(H), NEW bytes \in Nat, bytes + 8 <= 16 * H.blk[a].size,
         NEW G, G = [H EXCEPT !.blk[a].req = bytes]
  PROVE  Shrunk(G, H, a, bytes)
  <1>1. PICK B : B = H.blk
    OBVIOUS
  <1>2. PICK C : C = G.blk
    OBVIOUS
  <1>3. PICK end : end = Epilogue(H)
    OBVIOUS
  <1>4. PICK e : e = H.epi
    OBVIOUS
  <1>5. /\ IsHeap(H) /\ H.pages \in 1..MaxPages /\ Tiling(B, e, end) /\ Apart(B) /\ e \in BOOLEAN
        /\ B \in [DOMAIN B -> Block] /\ a \in DOMAIN B /\ B[a].alloc = TRUE
    BY <1>1, <1>3, <1>4 DEF Ready, Tiled, Tiling, Shape, Owned, Block
  <1>6. IsHeap(G) /\ G.pages = H.pages /\ G.epi = e /\ C = [B EXCEPT ![a].req = bytes]
    BY <1>1, <1>2, <1>4, <1>5 DEF IsHeap
  <1>7. /\ DOMAIN C = DOMAIN B /\ C \in [DOMAIN B -> Block]
        /\ \A b \in DOMAIN B : C[b].size = B[b].size /\ C[b].alloc = B[b].alloc /\ C[b].prevAlloc = B[b].prevAlloc
        /\ \A b \in DOMAIN B \ {a} : C[b].req = B[b].req
        /\ C[a].req = bytes
    BY <1>5, <1>6 DEF Block
  <1>8. IsFlip(B, C, a)
    BY <1>1, <1>5, <1>7 DEF IsFlip
  <1>9. Tag(C, e, end, End(B, a)) = C[a].alloc
    <2>1. Tag(B, e, end, End(B, a)) = B[a].alloc /\ End(B, a) \in DOMAIN B \cup {end}
      BY <1>5, TilingFacts
    <2> QED BY <1>5, <1>7, <2>1 DEF Tag
  <1>10. Tiling(C, e, end)
    BY <1>5, <1>8, <1>9, FlipTiled
  <1>11. Apart(C)
    <2>1. \A b \in DOMAIN B : End(C, b) = End(B, b)
      BY <1>7 DEF End
    <2> QED BY <1>5, <1>7, <2>1 DEF Apart
  <1>12. Epilogue(G) = end
    BY <1>3, <1>6 DEF Epilogue
  <1>13. Ready(G)
    BY <1>2, <1>5, <1>6, <1>10, <1>11, <1>12 DEF Ready, Tiled
  <1>14. Owned(G) = Owned(H) /\ KeepsRegions(G, H, Owned(H) \ {a})
    BY <1>1, <1>2, <1>7 DEF Owned, KeepsRegions
  <1> QED BY <1>2, <1>7, <1>13, <1>14 DEF Shrunk

\* The rest becomes a free block of its own.
LEMMA ShrinkAlone ==
  ASSUME NEW H, Ready(H), NEW a \in Owned(H), NEW want \in Nat, NEW bytes \in Nat,
         want >= 2, bytes + 8 <= 16 * want, H.blk[a].size - want >= 2,
         NEW cut, cut = a + want, NEW G, CutOff(G, H, a, want, cut, bytes), ~ NextFree(H, a),
         NEW F, F = SetPrevAlloc(G, a + H.blk[a].size, FALSE)
  PROVE  Shrunk(F, H, a, bytes) /\ cut \in FreeSet(F)
  <1>1. PICK B : B = H.blk
    OBVIOUS
  <1>2. PICK C : C = F.blk
    OBVIOUS
  <1>3. PICK end : end = Epilogue(H)
    OBVIOUS
  <1>4. PICK n : n = a + B[a].size
    OBVIOUS
  <1>5. PICK D : D = G.blk
    OBVIOUS
  <1>6. /\ IsHeap(H) /\ H.pages \in 1..MaxPages /\ Tiling(B, H.epi, end) /\ Apart(B) /\ H.epi \in BOOLEAN
        /\ a \in DOMAIN B /\ B[a].alloc = TRUE /\ B \in [DOMAIN B -> Block]
    BY <1>1, <1>3 DEF Ready, Tiled, Tiling, Shape, Owned, Block
  <1>7. /\ DOMAIN B \subseteq Nat /\ end \notin DOMAIN B /\ n = End(B, a) /\ n \in DOMAIN B \cup {end} /\ n # a
        /\ \A b \in DOMAIN B : End(B, b) \in DOMAIN B \cup {end}
        /\ \A b, c \in DOMAIN B : End(B, b) = End(B, c) => b = c
    BY <1>4, <1>6, TilingFacts DEF End
  <1>8. cut \notin DOMAIN B /\ cut # end /\ cut # a /\ cut # n
    BY <1>1, <1>6, <1>7, CutFresh
  <1>9. n \in DOMAIN B => B[n].alloc = TRUE
    BY <1>1, <1>4, <1>6 DEF NextFree, IsFree, Block
  <1>10. /\ IsHeap(G) /\ G.pages = H.pages /\ G.epi = H.epi
         /\ DOMAIN D = DOMAIN B \cup {cut} /\ D \in [DOMAIN D -> Block]
         /\ D[a].size = want /\ D[a].req = bytes /\ D[a].alloc = TRUE /\ D[a].prevAlloc = B[a].prevAlloc
         /\ D[cut].size = B[a].size - want /\ D[cut].alloc = FALSE /\ D[cut].prevAlloc = TRUE
         /\ \A b \in DOMAIN B \ {a} : D[b] = B[b]
    BY <1>1, <1>5, Zenon DEF CutOff
  <1>11. /\ IsHeap(F) /\ F.pages = H.pages /\ F.epi \in BOOLEAN
         /\ n = end => C = D /\ F.epi = FALSE
         /\ n # end => C = [D EXCEPT ![n].prevAlloc = FALSE] /\ F.epi = H.epi
    <2>1. Epilogue(G) = end
      BY <1>3, <1>10 DEF Epilogue
    <2>2. F = SetPrevAlloc(G, n, FALSE)
      BY <1>1, <1>4
    <2> QED BY <1>2, <1>5, <1>6, <1>10, <2>1, <2>2 DEF SetPrevAlloc, IsHeap
  <1>12. /\ DOMAIN C = DOMAIN D /\ C \in [DOMAIN C -> Block]
         /\ \A b \in DOMAIN D : C[b].size = D[b].size /\ C[b].alloc = D[b].alloc /\ C[b].req = D[b].req
         /\ \A b \in DOMAIN D \ {n} : C[b].prevAlloc = D[b].prevAlloc
    <2>1. CASE n = end
      BY <1>10, <1>11, <2>1
    <2>2. CASE n # end
      <3>1. n \in DOMAIN D /\ C = [D EXCEPT ![n].prevAlloc = FALSE]
        BY <1>7, <1>10, <1>11, <2>2
      <3>2. C \in [DOMAIN D -> Block]
        BY <1>10, <3>1, ZenonT(60) DEF Block
      <3>3. \A b \in DOMAIN D : C[b].size = D[b].size /\ C[b].alloc = D[b].alloc /\ C[b].req = D[b].req
        BY <1>10, <3>1 DEF Block
      <3>4. \A b \in DOMAIN D \ {n} : C[b] = D[b]
        BY <3>1
      <3> QED BY <3>2, <3>3, <3>4
    <2> QED BY <2>1, <2>2
  <1>13. Tag(C, F.epi, end, n) = FALSE
    <2>1. CASE n = end
      BY <1>11, <2>1 DEF Tag
    <2>2. CASE n # end
      BY <1>7, <1>10, <1>11, <2>2 DEF Tag, Block
    <2> QED BY <2>1, <2>2
  <1>14. IsSplit(B, C, a, want, cut)
    <2>1. DOMAIN C = DOMAIN B \cup {cut}
      BY <1>10, <1>12
    <2>2. C[a].size = want /\ C[a].alloc = TRUE /\ C[a].req = bytes
      BY <1>6, <1>10, <1>12
    <2>3. C[cut].size = B[a].size - want /\ C[cut].alloc = FALSE /\ C[cut].prevAlloc = TRUE
      BY <1>8, <1>10, <1>12
    <2>4. \A b \in DOMAIN B \ {a} : C[b].size = B[b].size /\ C[b].alloc = B[b].alloc /\ C[b].req = B[b].req
      BY <1>10, <1>12
    <2>5. \A b \in DOMAIN B \ {End(B, a)} : C[b].prevAlloc = B[b].prevAlloc
      BY <1>7, <1>10, <1>12
    <2> QED BY <1>12, <2>1, <2>2, <2>3, <2>4, <2>5 DEF IsSplit
  <1>15. Tiling(C, F.epi, end) /\ End(C, cut) = n
    <2>1. PICK f : f = F.epi
      OBVIOUS
    <2>2. PICK e : e = H.epi
      OBVIOUS
    <2>3. ~ Tag(C, f, end, End(B, a)) /\ f \in BOOLEAN /\ (End(B, a) # end => f = e) /\ Tiling(B, e, end)
      BY <1>6, <1>7, <1>11, <1>13, <2>1, <2>2
    <2>4. B[a].size - want >= 2 /\ a \in DOMAIN B /\ want \in Nat /\ want >= 2
      BY <1>1, <1>6
    <2>5. Tiling(C, f, end) /\ End(C, cut) = End(B, a)
      BY ONLY <1>14, <2>3, <2>4, SplitTiled
    <2> QED BY <1>7, <2>1, <2>5
  <1>16. Epilogue(F) = end
    BY <1>3, <1>11 DEF Epilogue
  <1>17. Apart(C)
    <2> SUFFICES ASSUME NEW b \in DOMAIN C, End(C, b) \in DOMAIN C
                 PROVE  C[b].alloc \/ C[End(C, b)].alloc
      BY DEF Apart
    <2>1. CASE b = a
      BY <1>6, <1>10, <1>12, <2>1
    <2>2. CASE b = cut
      <3>1. n \in DOMAIN B
        BY <1>8, <1>10, <1>12, <1>15, <2>2
      <3> QED BY <1>7, <1>9, <1>10, <1>12, <1>15, <2>2, <3>1
    <2>3. CASE b # a /\ b # cut
      <3>1. b \in DOMAIN B /\ C[b].alloc = B[b].alloc /\ End(C, b) = End(B, b)
        BY <1>10, <1>12, <2>3 DEF End
      <3>2. End(B, b) \in DOMAIN B
        BY <1>7, <1>8, <1>10, <1>12, <3>1
      <3>3. CASE End(B, b) = a
        BY <1>6, <1>10, <1>12, <3>1, <3>3
      <3>4. CASE End(B, b) # a
        BY <1>6, <1>10, <1>12, <3>1, <3>2, <3>4 DEF Apart
      <3> QED BY <3>3, <3>4
    <2> QED BY <2>1, <2>2, <2>3
  <1>18. Ready(F)
    BY <1>2, <1>6, <1>11, <1>15, <1>16, <1>17 DEF Ready, Tiled
  <1>19. \A b \in DOMAIN B \ {a} : C[b].alloc = B[b].alloc /\ C[b].req = B[b].req
    BY <1>10, <1>12
  <1>20. C[a].alloc = TRUE /\ C[a].req = bytes /\ C[cut].alloc = FALSE
    BY <1>6, <1>8, <1>10, <1>12
  <1>21. Owned(F) = Owned(H)
    <2>1. ASSUME NEW b
          PROVE  b \in Owned(F) <=> b \in Owned(H)
      <3>1. b \in Owned(F) <=> b \in DOMAIN C /\ C[b].alloc
        BY <1>2 DEF Owned
      <3>2. b \in Owned(H) <=> b \in DOMAIN B /\ B[b].alloc
        BY <1>1 DEF Owned
      <3> QED BY <1>6, <1>8, <1>10, <1>12, <1>19, <1>20, <3>1, <3>2
    <2> QED BY <2>1
  <1>22. F.blk[a].req = bytes /\ KeepsRegions(F, H, Owned(H) \ {a})
    BY <1>1, <1>2, <1>19, <1>20 DEF KeepsRegions, Owned
  <1>23. cut \in FreeSet(F)
    BY <1>2, <1>10, <1>12, <1>20 DEF FreeSet, Owned
  <1> QED BY <1>18, <1>21, <1>22, <1>23 DEF Shrunk

\* The rest is merged with the free block that follows.
LEMMA ShrinkJoin ==
  ASSUME NEW H, Ready(H), NEW a \in Owned(H), NEW want \in Nat, NEW bytes \in Nat,
         want >= 2, bytes + 8 <= 16 * want, H.blk[a].size - want >= 2,
         NEW cut, cut = a + want, NEW G, CutOff(G, H, a, want, cut, bytes), NextFree(H, a),
         NEW U, Same(U, G), NEW n, n = a + H.blk[a].size,
         NEW s, s = H.blk[a].size - want + U.blk[n].size,
         NEW K, K = Forget(Resize(U, cut, s), n)
  PROVE  Shrunk(K, H, a, bytes) /\ cut \in FreeSet(K)
  <1>1. PICK B : B = H.blk
    OBVIOUS
  <1>2. PICK C : C = K.blk
    OBVIOUS
  <1>3. PICK end : end = Epilogue(H)
    OBVIOUS
  <1>4. PICK e : e = H.epi
    OBVIOUS
  <1>5. PICK D : D = G.blk
    OBVIOUS
  <1>6. /\ IsHeap(H) /\ H.pages \in 1..MaxPages /\ Tiling(B, e, end) /\ Apart(B) /\ e \in BOOLEAN
        /\ a \in DOMAIN B /\ B[a].alloc = TRUE /\ B \in [DOMAIN B -> Block]
    BY <1>1, <1>3, <1>4 DEF Ready, Tiled, Tiling, Shape, Owned, Block
  <1>7. /\ DOMAIN B \subseteq Nat /\ end \notin DOMAIN B /\ n = End(B, a) /\ n # a /\ n # end
        /\ n \in DOMAIN B /\ B[n].alloc = FALSE /\ B[n].size \in Nat
        /\ \A b \in DOMAIN B : End(B, b) \in DOMAIN B \cup {end} /\ b < End(B, b) /\ End(B, b) \in Nat
        /\ \A b, c \in DOMAIN B : End(B, b) = End(B, c) => b = c
    <2>1. n \in DOMAIN B /\ ~ B[n].alloc
      BY <1>1 DEF NextFree, IsFree
    <2>2. n = End(B, a)
      BY <1>1 DEF End
    <2>3. /\ DOMAIN B \subseteq Nat /\ end \notin DOMAIN B
          /\ \A b \in DOMAIN B : /\ End(B, b) \in DOMAIN B \cup {end} /\ b < End(B, b) /\ End(B, b) \in Nat
                               /\ B[b].size \in Nat /\ B[b] \in Block
          /\ \A b, c \in DOMAIN B : End(B, b) = End(B, c) => b = c
      BY <1>6, TilingFacts
    <2>4. n # a /\ n # end /\ B[n].size \in Nat /\ B[n].alloc = FALSE
      BY <1>6, <2>1, <2>2, <2>3 DEF Block
    <2> QED BY <2>1, <2>2, <2>3, <2>4
  <1>8. cut \notin DOMAIN B /\ cut # end /\ cut # a /\ cut # n
    <2>1. a + want \notin DOMAIN B /\ a + want # end /\ a < a + want
      BY <1>1, <1>6, CutFresh
    <2>2. a \in Nat /\ cut # a
      BY <1>6, <1>7, <2>1
    <2> QED BY <1>7, <2>1, <2>2
  <1>9. /\ IsHeap(G) /\ G.pages = H.pages /\ G.epi = e
        /\ DOMAIN D = DOMAIN B \cup {cut} /\ D \in [DOMAIN D -> Block]
        /\ D[a].size = want /\ D[a].req = bytes /\ D[a].alloc = TRUE /\ D[a].prevAlloc = B[a].prevAlloc
        /\ D[cut].size = B[a].size - want /\ D[cut].alloc = FALSE /\ D[cut].prevAlloc = TRUE
        /\ \A b \in DOMAIN B \ {a} : D[b] = B[b]
    BY <1>1, <1>4, <1>5, Zenon DEF CutOff
  <1>10. PICK T : T = [D EXCEPT ![n].prevAlloc = FALSE]
    OBVIOUS
  <1>11. /\ DOMAIN T = DOMAIN D /\ T \in [DOMAIN D -> Block]
         /\ \A b \in DOMAIN D : T[b].size = D[b].size /\ T[b].alloc = D[b].alloc /\ T[b].req = D[b].req
         /\ \A b \in DOMAIN D \ {n} : T[b] = D[b]
         /\ T[n].prevAlloc = FALSE
    <2>1. n \in DOMAIN D
      BY <1>7, <1>9
    <2>a. PICK r : r = [D[n] EXCEPT !.prevAlloc = FALSE]
      OBVIOUS
    <2>b. /\ T = [D EXCEPT ![n] = r] /\ r \in Block
          /\ r.size = D[n].size /\ r.alloc = D[n].alloc /\ r.req = D[n].req
      <3>1. D[n] \in Block
        BY <1>9, <2>1
      <3>2. T = [D EXCEPT ![n] = r]
        BY <1>10, <2>a
      <3> QED BY <2>a, <3>1, <3>2 DEF Block
    <2>2. T \in [DOMAIN D -> Block]
      BY <1>9, <2>b
    <2>3. \A b \in DOMAIN D : T[b].size = D[b].size /\ T[b].alloc = D[b].alloc /\ T[b].req = D[b].req
      BY <2>b
    <2>4. T[n].prevAlloc = FALSE
      BY <1>9, <1>10, <2>1 DEF Block
    <2>5. \A b \in DOMAIN D \ {n} : T[b] = D[b]
      BY <1>10
    <2> QED BY <2>2, <2>3, <2>4, <2>5
  <1>12. IsSplit(B, T, a, want, cut)
    <2>1. DOMAIN T = DOMAIN B \cup {cut} /\ T \in [DOMAIN T -> Block]
      BY <1>9, <1>11
    <2>2. T[a].size = want /\ T[a].alloc = TRUE /\ T[a].req = bytes
      BY <1>6, <1>7, <1>9, <1>11
    <2>3. T[cut].size = B[a].size - want /\ T[cut].alloc = FALSE /\ T[cut].prevAlloc = TRUE
      BY <1>8, <1>9, <1>11
    <2>4. \A b \in DOMAIN B \ {a} : T[b].size = B[b].size /\ T[b].alloc = B[b].alloc /\ T[b].req = B[b].req
      <3> SUFFICES ASSUME NEW b \in DOMAIN B \ {a}
                   PROVE  T[b].size = B[b].size /\ T[b].alloc = B[b].alloc /\ T[b].req = B[b].req
        OBVIOUS
      <3>1. b \in DOMAIN D /\ D[b] = B[b]
        BY <1>9
      <3>2. T[b].size = D[b].size /\ T[b].alloc = D[b].alloc /\ T[b].req = D[b].req
        BY <1>11, <3>1
      <3> QED BY <3>1, <3>2
    <2>5. \A b \in DOMAIN B \ {End(B, a)} : T[b].prevAlloc = B[b].prevAlloc
      <3> SUFFICES ASSUME NEW b \in DOMAIN B, b # n
                   PROVE  T[b].prevAlloc = B[b].prevAlloc
        BY <1>7
      <3>1. b \in DOMAIN D /\ T[b] = D[b]
        BY <1>9, <1>11
      <3>2. D[b].prevAlloc = B[b].prevAlloc
        BY <1>9
      <3> QED BY <3>1, <3>2
    <2> QED BY <2>1, <2>2, <2>3, <2>4, <2>5 DEF IsSplit
  <1>13. Tiling(T, e, end) /\ End(T, cut) = n
    <2>1. PICK f : f = e
      OBVIOUS
    <2>2. ~ Tag(T, f, end, End(B, a)) /\ f \in BOOLEAN /\ (End(B, a) # end => f = e)
      BY <1>6, <1>7, <1>11, <2>1 DEF Tag
    <2>3. B[a].size - want >= 2 /\ a \in DOMAIN B /\ want \in Nat /\ want >= 2 /\ Tiling(B, e, end)
      BY <1>1, <1>6
    <2>4. Tiling(T, f, end) /\ End(T, cut) = End(B, a)
      BY ONLY <1>12, <2>2, <2>3, SplitTiled
    <2> QED BY <1>7, <2>1, <2>4
  <1>14. IsHeap(U) /\ U.pages = H.pages /\ U.epi = e /\ U.blk = D
    BY <1>5, <1>9 DEF Same
  <1>15. s = T[cut].size + T[n].size /\ s \in Nat
    <2>1. cut \in DOMAIN D /\ n \in DOMAIN D
      BY <1>7, <1>9
    <2>2. T[cut].size = B[a].size - want /\ T[n].size = D[n].size /\ T[cut].size \in Nat /\ T[n].size \in Nat
      BY <1>8, <1>9, <1>11, <2>1 DEF Block
    <2> QED BY <1>1, <1>14, <2>2
  <1>16. PICK R : R = Resize(U, cut, s)
    OBVIOUS
  <1>17. IsHeap(R) /\ R.pages = H.pages /\ R.epi = e /\ R.blk = [D EXCEPT ![cut].size = s]
    BY <1>14, <1>16 DEF Resize, IsHeap
  <1>18. IsHeap(K) /\ K.pages = H.pages /\ K.epi = e /\ C = [x \in DOMAIN R.blk \ {n} |-> R.blk[x]]
    <2>1. K = Forget(R, n)
      BY <1>16
    <2> QED BY <1>2, <1>17, <2>1 DEF Forget, Restrict, IsHeap
  <1>19. /\ DOMAIN C = DOMAIN T \ {n} /\ C \in [DOMAIN C -> Block] /\ cut \in DOMAIN C
         /\ C[cut].size = s /\ C[cut].alloc = FALSE /\ C[cut].prevAlloc = TRUE
         /\ \A b \in DOMAIN C \ {cut} : C[b] = T[b]
    <2>1. PICK E : E = R.blk
      OBVIOUS
    <2>2. E = [D EXCEPT ![cut].size = s] /\ C = [x \in DOMAIN E \ {n} |-> E[x]] /\ cut \in DOMAIN D
      BY <1>9, <1>17, <1>18, <2>1
    <2>3. /\ E \in [DOMAIN D -> Block] /\ \A b \in DOMAIN D \ {cut} : E[b] = D[b]
          /\ E[cut].size = s /\ E[cut].alloc = D[cut].alloc /\ E[cut].prevAlloc = D[cut].prevAlloc
      <3>1. D \in [DOMAIN D -> Block] /\ s \in Nat /\ cut \in DOMAIN D /\ E = [D EXCEPT ![cut].size = s]
        BY <1>9, <1>15, <2>2
      <3> QED BY ONLY <3>1 DEF Block
    <2>4. DOMAIN C = DOMAIN D \ {n} /\ \A b \in DOMAIN C : C[b] = E[b]
      BY <2>2, <2>3
    <2>5. C \in [DOMAIN C -> Block]
      BY <2>2, <2>3, <2>4
    <2>6. cut \in DOMAIN C
      BY <1>8, <2>2, <2>4
    <2> QED BY <1>9, <1>11, <2>3, <2>4, <2>5, <2>6, ZenonT(60)
  <1>20. Tiling(C, e, end) /\ End(C, cut) = End(T, n)
    <2>1. DOMAIN T = DOMAIN D /\ cut \in DOMAIN D /\ n \in DOMAIN D
      BY <1>7, <1>9, <1>11
    <2>2. ~ T[n].alloc
      BY <1>7, <1>9, <1>11
    <2>3. C[cut].size = T[cut].size + T[n].size /\ ~ C[cut].alloc /\ C[cut].prevAlloc = T[cut].prevAlloc
      BY <1>8, <1>9, <1>11, <1>15, <1>19
    <2>4. IsMerge(T, C, cut, n)
      BY <1>13, <1>19, <2>1, <2>2, <2>3 DEF IsMerge
    <2> QED BY <1>13, <2>4, IsMergeTiled
  <1>21. /\ \A b \in DOMAIN B \ {a, n} : C[b] = B[b]
         /\ C[a].alloc = TRUE /\ C[a].req = bytes /\ a \in DOMAIN C
         /\ DOMAIN C = (DOMAIN B \ {n}) \cup {cut}
    <2>1. DOMAIN C = (DOMAIN B \ {n}) \cup {cut}
      BY <1>8, <1>9, <1>11, <1>19
    <2>2. \A b \in DOMAIN B \ {n} : b \in DOMAIN C \ {cut} /\ C[b] = D[b]
      BY <1>8, <1>9, <1>11, <1>19, <2>1
    <2> QED BY <1>6, <1>7, <1>9, <2>1, <2>2
  <1>22. End(C, cut) = End(B, n)
    <2>1. T[n].size = B[n].size
      BY <1>7, <1>9, <1>11
    <2> QED BY <1>20, <2>1 DEF End
  <1>23. Apart(C)
    <2> SUFFICES ASSUME NEW b \in DOMAIN C, End(C, b) \in DOMAIN C
                 PROVE  C[b].alloc \/ C[End(C, b)].alloc
      BY DEF Apart
    <2>1. CASE b = a
      BY <1>21, <2>1
    <2>2. CASE b = cut
      <3>1. End(B, n) \in DOMAIN B /\ End(B, n) # n
        BY <1>7, <1>8, <1>21, <1>22, <2>2
      <3>2. B[End(B, n)].alloc
        BY <1>6, <1>7, <3>1 DEF Apart
      <3> QED BY <1>21, <1>22, <2>2, <3>1, <3>2
    <2>3. CASE b # a /\ b # cut
      <3>1. b \in DOMAIN B /\ C[b] = B[b] /\ End(C, b) = End(B, b)
        BY <1>21, <2>3 DEF End
      <3>2. End(B, b) \in DOMAIN B
        BY <1>7, <1>8, <1>21, <3>1
      <3>3. CASE End(B, b) = a
        BY <1>21, <3>1, <3>3
      <3>4. CASE End(B, b) # a
        <4>1. End(B, b) # n
          BY <1>6, <1>7, <2>3, <3>1
        <4> QED BY <1>6, <1>21, <3>1, <3>2, <3>4, <4>1 DEF Apart
      <3> QED BY <3>3, <3>4
    <2> QED BY <2>1, <2>2, <2>3
  <1>24. Epilogue(K) = end
    BY <1>3, <1>18 DEF Epilogue
  <1>25. Ready(K)
    BY <1>2, <1>6, <1>18, <1>20, <1>23, <1>24 DEF Ready, Tiled
  <1>26. Owned(K) = Owned(H)
    <2>1. ASSUME NEW b
          PROVE  b \in Owned(K) <=> b \in Owned(H)
      <3>1. b \in Owned(K) <=> b \in DOMAIN C /\ C[b].alloc
        BY <1>2 DEF Owned
      <3>2. b \in Owned(H) <=> b \in DOMAIN B /\ B[b].alloc
        BY <1>1 DEF Owned
      <3> QED BY <1>6, <1>7, <1>8, <1>19, <1>21, <3>1, <3>2
    <2> QED BY <2>1
  <1>27. K.blk[a].req = bytes /\ KeepsRegions(K, H, Owned(H) \ {a})
    <2>1. \A b \in Owned(H) \ {a} : b \in DOMAIN B \ {a, n}
      BY <1>1, <1>7 DEF Owned
    <2> QED BY <1>1, <1>2, <1>21, <2>1 DEF KeepsRegions
  <1>28. cut \in FreeSet(K)
    BY <1>2, <1>19 DEF FreeSet, Owned
  <1> QED BY <1>25, <1>26, <1>27, <1>28 DEF Shrunk

LEMMA ShrinkReady ==
  ASSUME NEW H, Ready(H), Listed(H), NEW a \in Owned(H), NEW bytes \in Nat, bytes < H.blk[a].req
  PROVE  Shrunk(Shrink(H, a, bytes), H, a, bytes) /\ Listed(Shrink(H, a, bytes))
  <1>1. PICK want : want = Units(bytes)
    OBVIOUS
  <1>2. PICK old : old = H.blk[a].size
    OBVIOUS
  <1>3. PICK n : n = a + old
    OBVIOUS
  <1>4. PICK cut : cut = a + want
    OBVIOUS
  <1>5. PICK Q : Q = [H EXCEPT !.blk[a].req = bytes]
    OBVIOUS
  <1>6. PICK G : G = MakeFree(Resize(Q, a, want), cut, old - want, TRUE)
    OBVIOUS
  <1>7. /\ Tiling(H.blk, H.epi, Epilogue(H)) /\ a \in DOMAIN H.blk /\ H.blk[a].alloc
        /\ old \in Nat /\ old >= 2 /\ H.blk[a].req \in Nat /\ a \in Nat
    BY <1>2, TilingFacts DEF Ready, Tiled, Owned, Listed, Block
  <1>8. bytes + 8 <= 16 * old
    BY <1>2, <1>7 DEF Tiling, Tags
  <1>9. want \in Nat /\ want >= 2 /\ bytes + 8 <= 16 * want /\ want <= old
    BY <1>1, <1>7, <1>8, UnitsFit
  <1>10. n \in DOMAIN H.blk \cup {Epilogue(H)} /\ n \in Nat
    BY <1>2, <1>3, <1>7, TilingFacts DEF End
  <1>11. CASE old - want < 2
    <2>1. Shrink(H, a, bytes) = Q
      BY <1>1, <1>2, <1>5, <1>11 DEF Shrink
    <2>2. Shrunk(Q, H, a, bytes)
      BY <1>2, <1>5, <1>8, ShrinkInPlace
    <2>3. Listed(Q)
      BY <1>5, <1>7, ResizeListed
    <2> QED BY <2>1, <2>2, <2>3
  <1>12. CASE ~ (old - want < 2)
    <2>1. cut \notin DOMAIN H.blk /\ cut \in Nat /\ old - want >= 2 /\ old - want \in Nat
      BY <1>2, <1>4, <1>7, <1>9, <1>12, CutFresh
    <2>2. CutOff(G, H, a, want, cut, bytes) /\ Listed(G)
      <3>1. PICK R : R = Resize([H EXCEPT !.blk[a].req = bytes], a, want)
        OBVIOUS
      <3>2. PICK rest \in Nat : rest = H.blk[a].size - want
        BY <1>2, <2>1
      <3>3. G = MakeFree(R, cut, rest, TRUE)
        BY <1>2, <1>5, <1>6, <3>1, <3>2
      <3> QED BY <1>9, <2>1, <3>1, <3>2, <3>3, CutBlock
    <2>3. CASE ~ NextFree(H, a)
      <3>1. PICK F : F = SetPrevAlloc(G, n, FALSE)
        OBVIOUS
      <3>2. Shrink(H, a, bytes) = InsertFreed(F, cut)
        BY <1>1, <1>2, <1>3, <1>4, <1>5, <1>6, <1>12, <2>3, <3>1 DEF Shrink
      <3>3. Shrunk(F, H, a, bytes) /\ cut \in FreeSet(F)
        <4>1. F = SetPrevAlloc(G, a + H.blk[a].size, FALSE) /\ H.blk[a].size - want >= 2
          BY <1>2, <1>3, <2>1, <3>1
        <4> QED BY <1>4, <1>9, <2>2, <2>3, <4>1, ShrinkAlone
      <3>4. Listed(F)
        <4>1. n = Epilogue(G) \/ n \in DOMAIN G.blk
          BY <1>10, <2>2 DEF CutOff, Epilogue
        <4>2. FALSE \in BOOLEAN
          OBVIOUS
        <4> QED BY <2>2, <3>1, <4>1, <4>2, TagListed
      <3>5. IsHeap(F)
        BY <3>4 DEF Listed
      <3>6. Same(InsertFreed(F, cut), F) /\ Listed(InsertFreed(F, cut))
        BY <3>3, <3>4, <3>5, InsertSame, InsertListed
      <3> QED BY <3>2, <3>3, <3>6, SameShrunk
    <2>4. CASE NextFree(H, a)
      <3>1. PICK U : U = Unlink(G, n)
        OBVIOUS
      <3>2. PICK s : s = old - want + U.blk[n].size
        OBVIOUS
      <3>3. PICK K : K = Forget(Resize(U, cut, s), n)
        OBVIOUS
      <3>4. Shrink(H, a, bytes) = InsertFreed(K, cut)
        BY <1>1, <1>2, <1>3, <1>4, <1>5, <1>6, <1>12, <2>4, <3>1, <3>2, <3>3 DEF Shrink
      <3>5. IsHeap(G)
        BY <2>2 DEF Listed
      <3>6. Same(U, G) /\ Listed(U)
        BY <2>2, <3>1, <3>5, UnlinkSame, UnlinkKept, KeptListed
      <3>7. Shrunk(K, H, a, bytes) /\ cut \in FreeSet(K)
        <4>1. n = a + H.blk[a].size /\ s = H.blk[a].size - want + U.blk[n].size /\ H.blk[a].size - want >= 2
          BY <1>2, <1>3, <2>1, <3>2
        <4> QED BY <1>4, <1>9, <2>2, <2>4, <3>3, <3>6, <4>1, ShrinkJoin
      <3>8. Listed(K)
        <4>1. n \in DOMAIN H.blk
          BY <1>2, <1>3, <2>4 DEF NextFree, IsFree
        <4>2. cut \in DOMAIN U.blk /\ n \in DOMAIN U.blk
          BY <2>2, <3>6, <4>1 DEF CutOff, Same
        <4>3. s \in Nat
          <5>1. U.blk \in [DOMAIN U.blk -> Block]
            BY <3>6 DEF Listed
          <5>2. U.blk[n].size \in Nat
            BY <4>2, <5>1 DEF Block
          <5> QED BY ONLY <2>1, <3>2, <5>2
        <4>4. Listed(Resize(U, cut, s))
          BY <3>6, <4>2, <4>3, ResizeListed
        <4> QED BY <1>10, <3>3, <4>4, ForgetListed
      <3>9. IsHeap(K)
        BY <3>8 DEF Listed
      <3>10. Same(InsertFreed(K, cut), K) /\ Listed(InsertFreed(K, cut))
        BY <3>7, <3>8, <3>9, InsertSame, InsertListed
      <3> QED BY <3>4, <3>7, <3>10, SameShrunk
    <2> QED BY <2>3, <2>4
  <1> QED BY <1>11, <1>12

(***************************************************************************)
(* New pages.                                                              *)
(***************************************************************************)
LEMMA BootListed == ASSUME NEW H, H = EmptyHeap PROVE Listed(Boot(H))
  <1>1. PICK n : n = PageUnits - 3
    OBVIOUS
  <1>2. PICK G0 : G0 = [H EXCEPT !.pages = 1]
    OBVIOUS
  <1>3. PICK G1 : G1 = MakeFree(G0, 0, n, TRUE)
    OBVIOUS
  <1>4. PICK F : F = NewList(G1, 0, n, 0)
    OBVIOUS
  <1>5. F = Boot(H)
    BY <1>1, <1>2, <1>3, <1>4 DEF Boot
  <1>6. n \in Nat
    BY <1>1, SfmmAssumption
  <1>7. /\ IsHeap(G0) /\ G0.blk = << >> /\ G0.next = << >> /\ G0.prev = << >>
        /\ G0.order = << >> /\ G0.sizes = << >> /\ G0.ok = TRUE
    BY <1>2 DEF EmptyHeap, IsHeap
  <1>8. PICK r : r = FreeRecord(n, TRUE)
    OBVIOUS
  <1>9. r \in Block /\ r.alloc = FALSE
    BY <1>6, <1>8 DEF FreeRecord, Block
  <1>10. /\ IsHeap(G1) /\ G1.blk = Put(<< >>, 0, r) /\ DOMAIN G1.next = {0} /\ DOMAIN G1.prev = {0}
         /\ G1.order = << >> /\ G1.sizes = << >> /\ G1.ok = TRUE
    BY <1>3, <1>7, <1>8 DEF MakeFree, IsHeap, FreeRecord, Put
  <1>11. DOMAIN G1.blk = {0} /\ G1.blk[0] = r /\ G1.blk \in [{0} -> Block]
    BY <1>9, <1>10 DEF Put
  <1>12. /\ IsHeap(F) /\ F.blk = G1.blk /\ F.ok = TRUE
         /\ F.order = InsertAt(<< >>, 0 + 1, 1) /\ F.sizes = Append(<< >>, n)
         /\ DOMAIN F.next = {0, -1} /\ DOMAIN F.prev = {0}
    <2>1. Len(G1.sizes) + 1 = 1
      BY <1>10
    <2> QED BY <1>4, <1>10, <2>1 DEF NewList, IsHeap, Put
  <1>13. F.sizes \in Seq(Nat) /\ Len(F.sizes) = 1 /\ DOMAIN F.sizes = {1}
    BY <1>6, <1>12
  <1>14. F.order \in Seq(Nat) /\ Len(F.order) = 1 /\ ToSet(F.order) = {1}
    <2>1. << >> \in Seq(Nat) /\ Len(<< >>) = 0 /\ 0 \in 0..Len(<< >>) /\ 1 \in Nat
      OBVIOUS
    <2>2. WithAt(<< >>, InsertAt(<< >>, 0 + 1, 1), 0 + 1, 1)
      BY <2>1, InsertAtFacts
    <2>3. ToSet(<< >>) = {}
      BY DEF ToSet
    <2> QED BY <1>12, <2>1, <2>2, <2>3 DEF WithAt
  <1>15. FreeSet(F) = {0} /\ Nodes(F) = {-1}
    <2>1. Owned(F) = {}
      BY <1>9, <1>11, <1>12 DEF Owned
    <2>2. Nodes(F) = {-1}
      BY <1>13 DEF Nodes
    <2> QED BY <1>11, <1>12, <2>1, <2>2 DEF FreeSet
  <1>16. Listed(F)
    BY <1>11, <1>12, <1>13, <1>14, <1>15, SMTT(30) DEF Listed
  <1> QED BY <1>5, <1>16

LEMMA GrowListed == ASSUME NEW H, Ready(H), Listed(H) PROVE Listed(Grow(H))
  <1>1. PICK end : end = Epilogue(H)
    OBVIOUS
  <1>2. PICK last : last = Before(H, end)
    OBVIOUS
  <1>3. PICK G : G = [H EXCEPT !.pages = @ + 1, !.epi = FALSE]
    OBVIOUS
  <1>4. IsHeap(G) /\ G.blk = H.blk /\ Listed(G)
    <2>1. IsHeap(G) /\ G.blk = H.blk /\ G.sizes = H.sizes /\ G.order = H.order /\ G.ok = H.ok
          /\ G.next = H.next /\ G.prev = H.prev
      BY <1>3 DEF IsHeap, Listed
    <2>2. H.blk \in [DOMAIN H.blk -> Block]
      BY DEF Listed
    <2> QED BY <2>1, <2>2, HeaderListed
  <1>5. /\ Tiling(H.blk, H.epi, end) /\ end \in Nat /\ end # 0
        /\ last \in DOMAIN H.blk /\ End(H.blk, last) = end
        /\ PageUnits \in Nat
    <2>1. Tiled(H) /\ Tiling(H.blk, H.epi, end)
      BY <1>1 DEF Ready, Tiled
    <2>2. end # 0 /\ end \in Nat
      BY <2>1, TilingFacts DEF Tiling, Shape
    <2> QED BY <1>1, <1>2, <2>1, <2>2, BeforeEnds, SfmmAssumption
  <1>6. CASE H.epi
    <2>1. PICK M : M = MakeFree(G, end, PageUnits, TRUE)
      OBVIOUS
    <2>2. Listed(M)
      <3>1. TRUE \in BOOLEAN
        OBVIOUS
      <3> QED BY <1>4, <1>5, <2>1, <3>1, MakeFreeListed
    <2>3. end \in FreeSet(M)
      BY <1>4, <2>1 DEF MakeFree, IsHeap, Put, FreeSet, Owned
    <2>4. Grow(H) = InsertPage(M, end)
      BY <1>1, <1>3, <1>6, <2>1 DEF Grow
    <2> QED BY <2>2, <2>3, <2>4, InsertListed
  <1>7. CASE ~ H.epi
    <2>1. PICK s : s = G.blk[last].size + PageUnits
      OBVIOUS
    <2>2. PICK R : R = Resize(G, last, s)
      OBVIOUS
    <2>3. PICK U : U = Unlink(R, last)
      OBVIOUS
    <2>4. Grow(H) = InsertPage(U, last)
      BY <1>1, <1>2, <1>3, <1>7, <2>1, <2>2, <2>3 DEF Grow
    <2>5. s \in Nat
      <3>1. H.blk \in [DOMAIN H.blk -> Block]
        BY DEF Listed
      <3>2. H.blk[last].size \in Nat
        BY <1>5, <3>1 DEF Block
      <3> QED BY ONLY <1>4, <1>5, <2>1, <3>2
    <2>6. Listed(R)
      BY <1>4, <1>5, <2>2, <2>5, ResizeListed
    <2>7. IsHeap(R)
      BY <2>6 DEF Listed
    <2>8. Listed(U) /\ FreeSet(U) = FreeSet(R)
      BY <2>3, <2>6, <2>7, UnlinkKept, KeptListed
    <2>9. last \in FreeSet(R)
      <3>1. PICK B : B = H.blk
        OBVIOUS
      <3>2. R.blk = [B EXCEPT ![last].size = s]
        BY <1>4, <2>2, <3>1 DEF Resize, IsHeap
      <3>3. ~ B[last].alloc
        <4>1. Tag(B, H.epi, end, end) = B[last].alloc
          BY <1>5, <3>1 DEF Tiling, Tags
        <4> QED BY <1>7, <4>1 DEF Tag
      <3>4. B \in [DOMAIN B -> Block]
        BY <3>1 DEF Listed
      <3>5. last \in DOMAIN R.blk /\ ~ R.blk[last].alloc
        BY <1>5, <3>1, <3>2, <3>3, <3>4 DEF Block
      <3> QED BY <3>5 DEF FreeSet, Owned
    <2> QED BY <2>4, <2>8, <2>9, InsertListed
  <1> QED BY <1>6, <1>7

(***************************************************************************)
(* sf_malloc calls itself: the states it passes, from any heap.            *)
(***************************************************************************)
Steps(H, bytes, n, f) ==
  f = [k \in 0..n |-> IF k = 0 THEN H ELSE Again(f[k - 1], bytes)]

LEMMA StepsExist == ASSUME NEW H, NEW bytes, NEW n \in Nat PROVE \E f : Steps(H, bytes, n, f)
  <1> DEFINE P(m) == \E f : Steps(H, bytes, m, f)
             T == {m \in Nat : ~ P(m)}
  <1>1. SUFFICES ASSUME T # {} PROVE FALSE
    OBVIOUS
  <1>2. T \subseteq Nat
    OBVIOUS
  <1> HIDE DEF T
  <1>3. \E m \in T : \A y \in T : ~ (<<y, m>> \in OpToRel(<, Nat))
    BY <1>1, <1>2, NatLessThanWellFounded, WFMin
  <1>4. PICK m \in T : \A y \in T : ~ (<<y, m>> \in OpToRel(<, Nat))
    BY <1>3
  <1>5. m \in Nat /\ ~ P(m)
    BY DEF T
  <1>6. m # 0
    <2> DEFINE g == [k \in 0..0 |-> H]
    <2>1. g = [k \in 0..0 |-> IF k = 0 THEN H ELSE Again(g[k - 1], bytes)]
      OBVIOUS
    <2>2. P(0)
      BY <2>1 DEF Steps
    <2> QED BY <1>5, <2>2
  <1>7. m - 1 \in Nat /\ m - 1 \notin T
    <2>1. m - 1 \in Nat /\ m - 1 < m
      BY <1>5, <1>6
    <2>2. ASSUME m - 1 \in T PROVE FALSE
      <3>1. ~ (<<m - 1, m>> \in OpToRel(<, Nat))
        BY <1>4, <2>2
      <3> QED BY <1>5, <2>1, <3>1 DEF OpToRel
    <2> QED BY <2>1, <2>2
  <1>8. PICK f : Steps(H, bytes, m - 1, f)
    BY <1>7 DEF T
  <1> DEFINE g == [k \in 0..m |-> IF k = m THEN Again(f[m - 1], bytes) ELSE f[k]]
  <1>9. ASSUME NEW k \in 0..m
        PROVE  g[k] = IF k = 0 THEN H ELSE Again(g[k - 1], bytes)
    <2>1. CASE k = m
      BY <1>5, <1>6, <2>1
    <2>2. CASE k # m
      <3>1. k \in 0..(m - 1)
        BY <1>5, <2>2
      <3>2. f[k] = IF k = 0 THEN H ELSE Again(f[k - 1], bytes)
        BY <1>8, <3>1 DEF Steps
      <3>3. k # 0 => g[k - 1] = f[k - 1]
        BY <1>5, <3>1
      <3> QED BY <2>2, <3>2, <3>3
    <2> QED BY <2>1, <2>2
  <1>10. g = [k \in 0..m |-> IF k = 0 THEN H ELSE Again(g[k - 1], bytes)]
    BY <1>9
  <1> HIDE DEF g
  <1>11. P(m)
    BY <1>10 DEF Steps
  <1> QED BY <1>5, <1>11

LEMMA GrownIs == ASSUME NEW H, NEW bytes
   PROVE \E f : Steps(H, bytes, MaxPages, f) /\ Grown(H, bytes) = f[MaxPages]
  <1> DEFINE a == CHOOSE f : Steps(H, bytes, MaxPages, f)
  <1>1. Steps(H, bytes, MaxPages, a)
    BY StepsExist, SfmmAssumption
  <1>2. Grown(H, bytes) = a[MaxPages]
    BY DEF Grown, Steps
  <1> QED BY <1>1, <1>2


(***************************************************************************)
(* A heap between two calls: before the first one, or tiled and listed.    *)
(***************************************************************************)
HeapOK(H) == H = EmptyHeap \/ (Ready(H) /\ Listed(H))

LEMMA EmptyFacts ==
  /\ EmptyHeap.pages = 0 /\ EmptyHeap.ok /\ Owned(EmptyHeap) = {}
  /\ EmptyHeap.blk = << >> /\ Len(EmptyHeap.order) = 0
  BY DEF EmptyHeap, Owned

\* One page more, in the first call or a later one.
LEMMA AgainReady ==
  ASSUME NEW H, HeapOK(H), NEW bytes
  PROVE  HeapOK(Again(H, bytes)) /\ SameOwners(Again(H, bytes), H)
  <1>1. PICK A : A = Again(H, bytes)
    OBVIOUS
  <1>2. CASE A = H
    BY <1>1, <1>2 DEF SameOwners, KeepsRegions
  <1>3. CASE A # H
    <2>1. H.pages # MaxPages /\ A = IF H.pages = 0 THEN Boot(H) ELSE Grow(H)
      BY <1>1, <1>3 DEF Again
    <2>2. CASE H = EmptyHeap
      <3>1. A = Boot(H)
        BY <2>1, <2>2, EmptyFacts
      <3>2. Ready(Boot(H)) /\ Listed(Boot(H)) /\ SameOwners(Boot(H), H)
        BY <2>2, BootReady, BootListed, EmptyFacts DEF SameOwners, KeepsRegions
      <3> QED BY <1>1, <3>1, <3>2 DEF HeapOK
    <2>3. CASE Ready(H) /\ Listed(H)
      <3>1. H.pages \in 1..MaxPages
        BY <2>3 DEF Ready, Tiled
      <3>2. H.pages < MaxPages /\ A = Grow(H)
        BY <2>1, <3>1, SfmmAssumption
      <3>3. Ready(Grow(H)) /\ Listed(Grow(H)) /\ SameOwners(Grow(H), H)
        BY <2>3, <3>2, GrowReady, GrowListed
      <3> QED BY <1>1, <3>2, <3>3 DEF HeapOK
    <2> QED BY <2>2, <2>3 DEF HeapOK
  <1> QED BY <1>2, <1>3

\* However many pages sf_malloc adds.
LEMMA GrownReady ==
  ASSUME NEW H, HeapOK(H), NEW bytes
  PROVE  HeapOK(Grown(H, bytes)) /\ SameOwners(Grown(H, bytes), H)
  <1>1. PICK f : Steps(H, bytes, MaxPages, f) /\ Grown(H, bytes) = f[MaxPages]
    BY GrownIs
  <1> DEFINE P(m) == HeapOK(f[m]) /\ SameOwners(f[m], H)
             T == {m \in 0..MaxPages : ~ P(m)}
  <1>2. SUFFICES ASSUME T # {} PROVE FALSE
    BY <1>1, SfmmAssumption
  <1>3. T \subseteq Nat
    BY SfmmAssumption
  <1> HIDE DEF T
  <1>4. PICK m \in T : \A j \in T : m <= j
    BY <1>2, <1>3, FirstFound
  <1>5. m \in 0..MaxPages /\ ~ P(m)
    BY DEF T
  <1>6. f[m] = IF m = 0 THEN H ELSE Again(f[m - 1], bytes)
    BY <1>1, <1>5 DEF Steps
  <1>7. m # 0
    BY <1>5, <1>6 DEF SameOwners, KeepsRegions
  <1>8. m - 1 \in 0..MaxPages /\ m - 1 \notin T
    BY <1>3, <1>4, <1>5, <1>7, SfmmAssumption
  <1>9. P(m - 1)
    BY <1>8 DEF T
  <1>10. HeapOK(f[m]) /\ SameOwners(f[m], f[m - 1])
    BY <1>6, <1>7, <1>9, AgainReady
  <1>11. SameOwners(f[m], H)
    BY <1>9, <1>10 DEF SameOwners, KeepsRegions
  <1> QED BY <1>5, <1>10, <1>11

(***************************************************************************)
(* The calls.                                                              *)
(***************************************************************************)
\* What sf_malloc returns: the heap, whose owner of ptr, if any, is new.
Served(G, ptr, H, bytes) ==
  /\ HeapOK(G)
  /\ ptr = NULL => SameOwners(G, H)
  /\ ptr # NULL => /\ Ready(G) /\ Listed(G) /\ ptr \notin Owned(H) /\ Owned(G) = Owned(H) \cup {ptr}
                   /\ KeepsRegions(G, H, Owned(H)) /\ G.blk[ptr].req = bytes

LEMMA MallocReady ==
  ASSUME NEW H, HeapOK(H), NEW bytes \in Nat, Malloc(H, bytes).heap.ok
  PROVE  Served(Malloc(H, bytes).heap, Malloc(H, bytes).ptr, H, bytes)
  <1>1. PICK G : G = Grown(H, bytes)
    OBVIOUS
  <1>2. HeapOK(G) /\ SameOwners(G, H)
    BY <1>1, GrownReady
  <1>3. CASE G.ok /\ Fits(G, bytes) # {}
    <2>1. PICK m : m = Place(G, bytes)
      OBVIOUS
    <2>2. Malloc(H, bytes) = m
      BY <1>1, <1>3, <2>1 DEF Malloc
    <2>3. G # EmptyHeap
      BY <1>3, EmptyFacts DEF Fits
    <2>4. Ready(G) /\ Listed(G)
      BY <1>2, <2>3 DEF HeapOK
    <2>5. Granted(m.heap, m.ptr, G, bytes) /\ Listed(m.heap)
      BY <1>3, <2>1, <2>2, <2>4, PlaceReady
    <2>6. Served(m.heap, m.ptr, H, bytes)
      BY <1>2, <2>5 DEF Served, Granted, HeapOK, SameOwners, KeepsRegions
    <2> QED BY <2>2, <2>6
  <1>4. CASE ~ (G.ok /\ Fits(G, bytes) # {})
    <2>1. Malloc(H, bytes).heap = G /\ Malloc(H, bytes).ptr = NULL
      BY <1>1, <1>4 DEF Malloc
    <2> QED BY <1>2, <2>1 DEF Served
  <1> QED BY <1>3, <1>4

\* A block that has an owner is in a tiled heap.
LEMMA OwnedReady == ASSUME NEW H, HeapOK(H), NEW a \in Owned(H)
                    PROVE  Ready(H) /\ Listed(H) /\ a \in Nat /\ a \in DOMAIN H.blk
  <1>1. Ready(H) /\ Listed(H)
    BY EmptyFacts DEF HeapOK
  <1> QED BY <1>1 DEF Owned, Listed

\* The payloads of n bytes at a and of m bytes at b share no byte.
Clear(a, n, b, m) == 16 * a + n <= 16 * b \/ 16 * b + m <= 16 * a

LEMMA OwnersClear ==
  ASSUME NEW H, Ready(H), NEW a \in Owned(H), NEW b \in Owned(H), a # b
  PROVE  Clear(a, H.blk[a].req, b, H.blk[b].req)
  <1>1. /\ Tiling(H.blk, H.epi, Epilogue(H)) /\ a \in DOMAIN H.blk /\ b \in DOMAIN H.blk
        /\ H.blk[a].alloc /\ H.blk[b].alloc
    BY DEF Ready, Tiled, Owned
  <1>2. /\ a \in Nat /\ b \in Nat /\ H.blk[a].size \in Nat /\ H.blk[b].size \in Nat
        /\ H.blk[a].req \in Nat /\ H.blk[b].req \in Nat
    BY <1>1, TilingFacts DEF Block
  <1>3. H.blk[a].req + 8 <= 16 * H.blk[a].size /\ H.blk[b].req + 8 <= 16 * H.blk[b].size
    BY <1>1 DEF Tiling, Tags
  <1>4. a + H.blk[a].size <= b \/ b + H.blk[b].size <= a
    BY <1>1, <1>2, TilingFacts DEF End
  <1> QED BY <1>2, <1>3, <1>4 DEF Clear

\* sf_realloc to a larger size: another block replaces a, whose own one heads a list.
Moved(G, H, a, bytes) ==
  /\ bytes > H.blk[a].req
  /\ \E ptr : /\ ptr \notin Owned(H) /\ Owned(G) = (Owned(H) \ {a}) \cup {ptr}
              /\ KeepsRegions(G, H, Owned(H) \ {a}) /\ G.blk[ptr].req = bytes
              /\ Clear(ptr, bytes, a, H.blk[a].req)
  /\ \E x, k : Covers(G, x, a) /\ Heads(G, k, x)

LEMMA ReallocReady ==
  ASSUME NEW H, HeapOK(H), NEW a \in Owned(H), NEW bytes \in Nat, Realloc(H, a, bytes).ok
  PROVE  LET G == Realloc(H, a, bytes) IN
         /\ HeapOK(G)
         /\ \/ SameOwners(G, H)
            \/ bytes < H.blk[a].req /\ Shrunk(G, H, a, bytes)
            \/ Moved(G, H, a, bytes) /\ Ready(G)
  <1>1. Ready(H) /\ Listed(H) /\ a \in DOMAIN H.blk
    BY OwnedReady
  <1>2. H.blk[a].req \in Nat
    <2>1. H.blk \in [DOMAIN H.blk -> Block]
      BY <1>1 DEF Listed
    <2> QED BY <1>1, <2>1 DEF Block
  <1>3. CASE bytes < H.blk[a].req
    <2>1. Realloc(H, a, bytes) = Shrink(H, a, bytes)
      BY <1>2, <1>3 DEF Realloc
    <2>2. Shrunk(Shrink(H, a, bytes), H, a, bytes) /\ Listed(Shrink(H, a, bytes))
      BY <1>1, <1>3, ShrinkReady
    <2> QED BY <1>3, <2>1, <2>2 DEF HeapOK, Shrunk
  <1>4. CASE bytes = H.blk[a].req
    <2>1. Realloc(H, a, bytes) = H
      BY <1>2, <1>4 DEF Realloc
    <2> QED BY <2>1 DEF SameOwners, KeepsRegions
  <1>5. CASE bytes > H.blk[a].req
    <2>1. PICK m : m = Malloc(H, bytes)
      OBVIOUS
    <2>2. m.heap.ok => Served(m.heap, m.ptr, H, bytes)
      BY <2>1, MallocReady
    <2>3. CASE m.ptr = NULL \/ ~ m.heap.ok
      <3>1. Realloc(H, a, bytes) = m.heap
        BY <1>2, <1>5, <2>1, <2>3 DEF Realloc
      <3>2. m.heap.ok
        BY <3>1
      <3> QED BY <2>2, <2>3, <3>1, <3>2 DEF Served
    <2>4. CASE m.ptr # NULL /\ m.heap.ok
      <3>1. PICK M : M = m.heap
        OBVIOUS
      <3>2. PICK p : p = m.ptr
        OBVIOUS
      <3>3. PICK F : F = FreeBlock(M, a)
        OBVIOUS
      <3>4. Realloc(H, a, bytes) = F
        BY <1>2, <1>5, <2>1, <2>4, <3>1, <3>3 DEF Realloc
      <3>5. /\ Ready(M) /\ Listed(M) /\ p \notin Owned(H) /\ Owned(M) = Owned(H) \cup {p}
            /\ KeepsRegions(M, H, Owned(H)) /\ M.blk[p].req = bytes
        BY <2>2, <2>4, <3>1, <3>2 DEF Served
      <3>6. GivenBack(F, M, a) /\ Listed(F)
        BY <3>3, <3>5, FreeReady
      <3>7. p # a /\ p \in Owned(M) \ {a}
        BY <3>5
      <3>8. Owned(F) = (Owned(H) \ {a}) \cup {p}
        BY <3>5, <3>6, <3>7 DEF GivenBack
      <3>9. KeepsRegions(F, H, Owned(H) \ {a}) /\ F.blk[p].req = bytes
        BY <3>5, <3>6, <3>7 DEF GivenBack, KeepsRegions
      <3>10. Clear(p, bytes, a, H.blk[a].req)
        <4>1. Clear(p, M.blk[p].req, a, M.blk[a].req)
          BY <3>5, <3>7, OwnersClear
        <4> QED BY <3>5, <4>1 DEF KeepsRegions
      <3>11. \E x, k : Covers(F, x, a) /\ Heads(F, k, x)
        BY <3>3, <3>5, FreeReady
      <3>12. Moved(F, H, a, bytes)
        BY <1>5, <3>5, <3>8, <3>9, <3>10, <3>11 DEF Moved
      <3> QED BY <3>4, <3>6, <3>12 DEF HeapOK, GivenBack
    <2> QED BY <2>3, <2>4
  <1> QED BY <1>2, <1>3, <1>4, <1>5

(***************************************************************************)
(* The inductive invariant: the heap between two calls, with every link    *)
(* where the code takes it to be.                                          *)
(***************************************************************************)
HeapInv == /\ HeapOK(heap) /\ heap.ok /\ fate \in {"ok", "stray", "aborted"}
           /\ fate # "stray" => handed = {}

LEMMA OwnedIsAllocated == Allocated = Owned(heap)
  BY DEF Allocated, Owned

\* What a step does to the heap.
HeapStep ==
  \/ UNCHANGED heap
  \/ \E bytes \in Sizes : \E ptr : Served(heap', ptr, heap, bytes)
  \/ \E a \in Owned(heap) : heap' = FreeBlock(heap, a)
  \/ \E a \in Owned(heap), bytes \in Sizes : heap' = Realloc(heap, a, bytes)

\* How a step ends, but for the heap.
Fates == /\ heap'.ok /\ fate' \in {"ok", "stray", "aborted"}
         /\ fate' # "stray" => handed' = {}

LEMMA StepIs ==
  ASSUME HeapInv, [Next]_vars
  PROVE  HeapStep /\ Fates
  <1>1. ASSUME NEW H, Return(H), fate = "ok"
        PROVE  /\ UNCHANGED heap \/ (H.ok /\ heap' = H)
               /\ heap'.ok /\ fate' \in {"ok", "stray", "aborted"}
               /\ fate' # "stray" => H.ok
    BY <1>1 DEF Return, HeapInv
  <1>2. ASSUME NEW bytes \in Sizes, SfMalloc(bytes)
        PROVE  HeapStep /\ Fates
    <2>1. bytes \in Nat
      BY SfmmAssumption
    <2>2. PICK m : m = Malloc(heap, bytes)
      OBVIOUS
    <2>3. m.heap.ok => Served(m.heap, m.ptr, heap, bytes)
      BY <2>1, <2>2, MallocReady DEF HeapInv
    <2>4. Return(m.heap) /\ fate = "ok"
      BY <1>2, <2>2 DEF SfMalloc
    <2>5. /\ UNCHANGED heap \/ (m.heap.ok /\ heap' = m.heap)
          /\ heap'.ok /\ fate' \in {"ok", "stray", "aborted"}
          /\ fate' # "stray" => m.heap.ok
      BY <1>1, <2>4
    <2>6. m.heap.ok => handed' = {}
      BY <1>2, <2>2 DEF SfMalloc
    <2>7. m.heap.ok /\ heap' = m.heap => Served(heap', m.ptr, heap, bytes)
      BY <2>3
    <2> QED BY <2>5, <2>6, <2>7 DEF HeapStep, Fates
  <1>3. ASSUME NEW a \in DOMAIN heap.blk, SfFree(a)
        PROVE  HeapStep /\ Fates
    BY <1>1, <1>3, OwnedIsAllocated DEF SfFree, HeapStep, Fates, HeapInv
  <1>4. ASSUME NEW a \in DOMAIN heap.blk, NEW bytes \in Sizes, SfRealloc(a, bytes)
        PROVE  HeapStep /\ Fates
    BY <1>1, <1>4, OwnedIsAllocated DEF SfRealloc, HeapStep, Fates, HeapInv
  <1>5. ASSUME NEW a \in DOMAIN heap.blk, DoubleFree(a)
        PROVE  HeapStep /\ Fates
    BY <1>5 DEF DoubleFree, HeapStep, Fates, HeapInv
  <1>6. CASE UNCHANGED vars
    BY <1>6 DEF vars, HeapStep, Fates, HeapInv
  <1> QED BY <1>2, <1>3, <1>4, <1>5, <1>6 DEF Next

LEMMA HeapInvHolds == Spec => []HeapInv
  <1>1. Init => HeapInv
    BY EmptyFacts DEF Init, HeapInv, HeapOK
  <1>2. HeapInv /\ [Next]_vars => HeapInv'
    <2> SUFFICES ASSUME HeapInv, [Next]_vars PROVE HeapInv'
      OBVIOUS
    <2>1. HeapStep /\ Fates
      BY StepIs
    <2>2. HeapOK(heap)
      BY DEF HeapInv
    <2>3. HeapOK(heap')
      <3>1. CASE UNCHANGED heap
        BY <2>2, <3>1
      <3>2. ASSUME NEW bytes \in Sizes, NEW ptr, Served(heap', ptr, heap, bytes)
            PROVE  HeapOK(heap')
        BY <3>2 DEF Served
      <3>3. ASSUME NEW a \in Owned(heap), heap' = FreeBlock(heap, a)
            PROVE  HeapOK(heap')
        <4>1. GivenBack(FreeBlock(heap, a), heap, a) /\ Listed(FreeBlock(heap, a))
          BY <2>2, OwnedReady, FreeReady
        <4> QED BY <3>3, <4>1 DEF GivenBack, HeapOK
      <3>4. ASSUME NEW a \in Owned(heap), NEW bytes \in Sizes, heap' = Realloc(heap, a, bytes)
            PROVE  HeapOK(heap')
        <4>1. bytes \in Nat /\ Realloc(heap, a, bytes).ok
          BY <2>1, <3>4, SfmmAssumption DEF Fates
        <4>2. HeapOK(Realloc(heap, a, bytes))
          BY <2>2, <4>1, ReallocReady
        <4> QED BY <3>4, <4>2
      <3> QED BY <2>1, <3>1, <3>2, <3>3, <3>4 DEF HeapStep
    <2> QED BY <2>1, <2>3 DEF HeapInv, Fates
  <1> QED BY <1>1, <1>2, PTL DEF Spec

\* As long as no call went through a stale link, the heap is a sequence of blocks without gaps
\* whose boundary tags tell the truth, and no two free blocks are neighbours, after every
\* sf_malloc, sf_free and sf_realloc.
THEOREM HeapIsTiled == Spec => []HeapTiled
  <1>1. HeapInv => HeapTiled
    <2> SUFFICES ASSUME HeapInv, heap.pages > 0 PROVE HeapTiled
      BY DEF HeapTiled
    <2>1. Ready(heap)
      BY EmptyFacts DEF HeapInv, HeapOK
    <2>2. PICK end : end = Epilogue(heap)
      OBVIOUS
    <2>3. Tiling(heap.blk, heap.epi, end) /\ Apart(heap.blk)
      BY <2>1, <2>2 DEF Ready, Tiled
    <2>4. 0 \in DOMAIN heap.blk /\ heap.blk[0].prevAlloc
      BY <2>3 DEF Tiling, Shape
    <2>5. ASSUME NEW a \in DOMAIN heap.blk, NEW n, n = a + heap.blk[a].size
          PROVE  /\ heap.blk[a].size >= 2
                 /\ n \in DOMAIN heap.blk \cup {end}
                 /\ IF n = end THEN heap.epi = heap.blk[a].alloc
                    ELSE /\ heap.blk[n].prevAlloc = heap.blk[a].alloc
                         /\ heap.blk[a].alloc \/ heap.blk[n].alloc
                 /\ heap.blk[a].alloc => heap.blk[a].req + 8 <= 16 * heap.blk[a].size
                 /\ \A b \in DOMAIN heap.blk : b <= a \/ n <= b
      <3>1. n = End(heap.blk, a)
        BY <2>5 DEF End
      <3>2. /\ heap.blk[a].size >= 2 /\ n \in DOMAIN heap.blk \cup {end}
            /\ Tag(heap.blk, heap.epi, end, n) = heap.blk[a].alloc
            /\ \A b \in DOMAIN heap.blk : b <= a \/ n <= b
        BY <2>3, <3>1, TilingFacts
      <3>3. IF n = end THEN heap.epi = heap.blk[a].alloc ELSE heap.blk[n].prevAlloc = heap.blk[a].alloc
        BY <3>2 DEF Tag
      <3>4. n # end => heap.blk[a].alloc \/ heap.blk[n].alloc
        BY <2>3, <3>1, <3>2 DEF Apart
      <3>5. heap.blk[a].alloc => heap.blk[a].req + 8 <= 16 * heap.blk[a].size
        BY <2>3 DEF Tiling, Tags
      <3> QED BY <3>2, <3>3, <3>4, <3>5
    <2> QED BY <2>2, <2>4, <2>5 DEF HeapTiled
  <1> QED BY <1>1, HeapInvHolds, PTL

\* Links are kept for the free blocks and the list nodes, and for nothing else.
THEOREM HeapIsTyped == Spec => []SfmmTypeOK
  <1>1. HeapInv => SfmmTypeOK
    <2> SUFFICES ASSUME HeapInv PROVE SfmmTypeOK
      OBVIOUS
    <2>1. FreeSet(heap) = {a \in DOMAIN heap.blk : ~ heap.blk[a].alloc}
      BY DEF FreeSet, Owned
    <2>2. CASE heap = EmptyHeap
      <3>1. heap.pages \in 0..MaxPages /\ heap.ok
        BY <2>2, EmptyFacts, SfmmAssumption
      <3>2. /\ DOMAIN heap.next = {} /\ DOMAIN heap.prev = {} /\ FreeSet(heap) = {}
            /\ {-k : k \in 1..Len(heap.sizes)} = {} /\ Len(heap.order) = Len(heap.sizes)
            /\ ToSet(heap.order) = DOMAIN heap.sizes
        BY <2>2 DEF EmptyHeap, FreeSet, Owned, ToSet
      <3> QED BY <2>1, <3>1, <3>2 DEF SfmmTypeOK, HeapInv
    <2>3. CASE Ready(heap) /\ Listed(heap)
      <3>1. heap.pages \in 0..MaxPages
        BY <2>3 DEF Ready, Tiled
      <3>2. /\ DOMAIN heap.next = FreeSet(heap) \cup {-k : k \in 1..Len(heap.sizes)}
            /\ DOMAIN heap.prev = FreeSet(heap)
            /\ Len(heap.order) = Len(heap.sizes) /\ ToSet(heap.order) = DOMAIN heap.sizes
        BY <2>3 DEF Listed, Nodes
      <3> QED BY <2>1, <3>1, <3>2 DEF SfmmTypeOK, HeapInv
    <2> QED BY <2>2, <2>3 DEF HeapInv, HeapOK
  <1> QED BY <1>1, HeapInvHolds, PTL

(***************************************************************************)
(* The callers' view.                                                      *)
(***************************************************************************)
RegionAt(H, a) == Region(a, H.blk[a].req)
RegionsOf(H) == {RegionAt(H, a) : a \in Owned(H)}

LEMMA RegionsAre == ASSUME HeapInv, fate # "stray" PROVE Regions = RegionsOf(heap)
  BY OwnedIsAllocated DEF HeapInv, Regions, RegionsOf, RegionAt, Region

LEMMA RegionsAfter == ASSUME HeapInv', fate' # "stray" PROVE Regions' = RegionsOf(heap')
  BY DEF HeapInv, Regions, Allocated, RegionsOf, RegionAt, Region, Owned

\* Nothing went through a stale link, so the regions are the owners'.
Viewed == Regions = RegionsOf(heap) /\ Regions' = RegionsOf(heap')

LEMMA ClearIsDisjoint ==
  ASSUME NEW G, NEW H, NEW a \in Nat, NEW b \in Nat,
         NEW n \in Nat, NEW m \in Nat, n = G.blk[a].req, m = H.blk[b].req,
         Clear(a, n, b, m)
  PROVE  /\ Allocator!Disjoint(RegionAt(G, a), RegionAt(H, b))
         /\ Allocator!Disjoint(RegionAt(H, b), RegionAt(G, a))
  BY DEF Clear, RegionAt, Region, Allocator!Disjoint

\* The lengths a heap gives its owners are numbers.
LEMMA OwnerTyped == ASSUME NEW H, HeapOK(H), NEW a \in Owned(H)
                    PROVE  a \in Nat /\ H.blk[a].req \in Nat
  <1>1. Listed(H) /\ a \in Nat /\ a \in DOMAIN H.blk
    BY OwnedReady
  <1>2. H.blk \in [DOMAIN H.blk -> Block]
    BY <1>1 DEF Listed
  <1> QED BY <1>1, <1>2 DEF Block

LEMMA RegionsClear ==
  ASSUME NEW H, HeapOK(H), NEW a \in Owned(H), NEW b \in Owned(H), a # b
  PROVE  Allocator!Disjoint(RegionAt(H, a), RegionAt(H, b))
  <1>1. Clear(a, H.blk[a].req, b, H.blk[b].req)
    BY OwnedReady, OwnersClear
  <1>2. a \in Nat /\ b \in Nat /\ H.blk[a].req \in Nat /\ H.blk[b].req \in Nat
    BY OwnerTyped
  <1> QED BY <1>1, <1>2, ClearIsDisjoint

\* A region tells the block it is the payload of.
LEMMA RegionTells ==
  ASSUME NEW G, NEW H, HeapOK(G), HeapOK(H), NEW a \in Owned(G), NEW b \in Owned(H),
         RegionAt(G, a) = RegionAt(H, b)
  PROVE  a = b
  <1>1. a \in Nat /\ b \in Nat
    BY OwnerTyped
  <1>2. RegionAt(G, a).at = RegionAt(H, b).at
    OBVIOUS
  <1>3. 16 * a + 8 = 16 * b + 8
    BY <1>2 DEF RegionAt, Region
  <1> QED BY <1>1, <1>3

\* The blocks in gone were given back and those in new handed out.
Replaced(G, H, gone, new) ==
  /\ gone \subseteq Owned(H) /\ new \subseteq Owned(G)
  /\ Owned(G) = (Owned(H) \ gone) \cup new /\ KeepsRegions(G, H, Owned(H) \ gone)

LEMMA RegionsChange ==
  ASSUME NEW G, NEW H, HeapOK(G), HeapOK(H), NEW gone, NEW new, Replaced(G, H, gone, new)
  PROVE  RegionsOf(G) = (RegionsOf(H) \ {RegionAt(H, a) : a \in gone}) \cup {RegionAt(G, b) : b \in new}
  <1>1. ASSUME NEW c \in Owned(H), c \notin gone
        PROVE  RegionAt(G, c) = RegionAt(H, c)
    BY <1>1 DEF KeepsRegions, RegionAt, Region, Replaced
  <1>2. ASSUME NEW c \in Owned(H), c \notin gone, NEW a \in gone
        PROVE  RegionAt(H, c) # RegionAt(H, a)
    <2>1. a \in Owned(H) /\ a # c
      BY <1>2 DEF Replaced
    <2> QED BY <2>1, RegionTells
  <1>3. ASSUME NEW r
        PROVE  r \in RegionsOf(G) <=>
                 r \in (RegionsOf(H) \ {RegionAt(H, a) : a \in gone}) \cup {RegionAt(G, b) : b \in new}
    <2>1. r \in RegionsOf(G) <=> \E c \in Owned(G) : r = RegionAt(G, c)
      BY DEF RegionsOf
    <2>2. r \in RegionsOf(H) <=> \E c \in Owned(H) : r = RegionAt(H, c)
      BY DEF RegionsOf
    <2>3. r \in RegionsOf(G) => \/ \E c \in Owned(H) \ gone : r = RegionAt(H, c)
                                \/ \E b \in new : r = RegionAt(G, b)
      BY <1>1, <2>1 DEF Replaced
    <2>4. \A c \in Owned(H) \ gone : r = RegionAt(H, c) => r = RegionAt(G, c) /\ c \in Owned(G)
      BY <1>1 DEF Replaced
    <2>5. new \subseteq Owned(G) /\ gone \subseteq Owned(H)
      BY DEF Replaced
    <2> QED BY <2>5, <1>2, <2>1, <2>2, <2>3, <2>4
  <1> QED BY <1>3

LEMMA SameRegions ==
  ASSUME NEW G, NEW H, SameOwners(G, H) PROVE RegionsOf(G) = RegionsOf(H)
  BY DEF SameOwners, KeepsRegions, RegionsOf, RegionAt, Region

\* sf_malloc allocates.
LEMMA MallocAllocates ==
  ASSUME Viewed, HeapOK(heap), NEW bytes \in Nat, NEW ptr, Served(heap', ptr, heap, bytes)
  PROVE  Allocator!Allocate \/ UNCHANGED Regions
  <1>1. CASE ptr = NULL
    <2>1. RegionsOf(heap') = RegionsOf(heap)
      BY <1>1, SameRegions DEF Served
    <2> QED BY <2>1 DEF Viewed
  <1>2. CASE ptr # NULL
    <2>1. /\ HeapOK(heap') /\ ptr \notin Owned(heap) /\ Owned(heap') = Owned(heap) \cup {ptr}
          /\ KeepsRegions(heap', heap, Owned(heap))
      BY <1>2 DEF Served
    <2>2. PICK r : r = RegionAt(heap', ptr)
      OBVIOUS
    <2>3. RegionsOf(heap') = RegionsOf(heap) \cup {r}
      <3>1. Owned(heap') = (Owned(heap) \ {}) \cup {ptr} /\ {ptr} \subseteq Owned(heap')
            /\ {} \subseteq Owned(heap) /\ KeepsRegions(heap', heap, Owned(heap) \ {})
        BY <2>1
      <3>2. Replaced(heap', heap, {}, {ptr})
        BY <3>1 DEF Replaced
      <3>3. RegionsOf(heap') = (RegionsOf(heap) \ {RegionAt(heap, a) : a \in {}})
                                  \cup {RegionAt(heap', b) : b \in {ptr}}
        BY <2>1, <3>2, RegionsChange
      <3> QED BY <2>2, <3>3
    <2>4. r \notin RegionsOf(heap)
      <3>1. ASSUME NEW a \in Owned(heap), r = RegionAt(heap, a)
            PROVE  FALSE
        <4>1. ptr = a
          BY <2>1, <2>2, <3>1, RegionTells
        <4> QED BY <2>1, <4>1
      <3> QED BY <3>1 DEF RegionsOf
    <2>5. ASSUME NEW s \in RegionsOf(heap)
          PROVE  Allocator!Disjoint(r, s)
      <3>1. PICK a \in Owned(heap) : s = RegionAt(heap, a)
        BY DEF RegionsOf
      <3>2. s = RegionAt(heap', a)
        BY <2>1, <3>1 DEF KeepsRegions, RegionAt, Region
      <3>3. a \in Owned(heap') /\ ptr \in Owned(heap') /\ a # ptr
        BY <2>1, <3>1
      <3>4. Allocator!Disjoint(RegionAt(heap', ptr), RegionAt(heap', a))
        BY <2>1, <3>3, RegionsClear
      <3> QED BY <2>2, <3>2, <3>4
    <2> QED BY <2>3, <2>4, <2>5 DEF Viewed, Allocator!Allocate
  <1> QED BY <1>1, <1>2

\* sf_free releases.
LEMMA FreeReleases ==
  ASSUME Viewed, HeapOK(heap), NEW a \in Owned(heap), HeapOK(heap'), GivenBack(heap', heap, a)
  PROVE  Allocator!Release
  <1>1. Replaced(heap', heap, {a}, {})
    BY DEF GivenBack, Replaced
  <1>2. RegionsOf(heap') = (RegionsOf(heap) \ {RegionAt(heap, x) : x \in {a}})
                              \cup {RegionAt(heap', b) : b \in {}}
    BY <1>1, RegionsChange
  <1>3. RegionsOf(heap') = RegionsOf(heap) \ {RegionAt(heap, a)}
    BY <1>2
  <1>4. RegionAt(heap, a) \in RegionsOf(heap)
    BY DEF RegionsOf
  <1> QED BY <1>3, <1>4 DEF Viewed, Allocator!Release

\* sf_realloc: s is the region that takes the place of a's.
LEMMA ReplaceResizes ==
  ASSUME Viewed, HeapOK(heap), HeapOK(heap'), NEW a \in Owned(heap), NEW p \in Owned(heap'),
         p = a \/ p \notin Owned(heap),
         Owned(heap') = (Owned(heap) \ {a}) \cup {p}, KeepsRegions(heap', heap, Owned(heap) \ {a}),
         NEW r, r = RegionAt(heap, a), NEW s, s = RegionAt(heap', p),
         (s.at = r.at /\ s.len < r.len) \/ (s.len > r.len /\ Allocator!Disjoint(s, r))
  PROVE  Allocator!Resize
  <1>1. RegionsOf(heap') = (RegionsOf(heap) \ {r}) \cup {s}
    <2>1. Replaced(heap', heap, {a}, {p})
      BY DEF Replaced
    <2>2. RegionsOf(heap') = (RegionsOf(heap) \ {RegionAt(heap, x) : x \in {a}})
                                \cup {RegionAt(heap', b) : b \in {p}}
      BY <2>1, RegionsChange
    <2> QED BY <2>2
  <1>2. r \in RegionsOf(heap)
    BY DEF RegionsOf
  <1>3. s \in RegionsOf(heap')
    BY DEF RegionsOf
  <1>4. s # r
    <2>1. a \in Nat /\ p \in Nat /\ heap.blk[a].req \in Nat /\ heap'.blk[p].req \in Nat
      BY OwnerTyped
    <2>2. r.len = heap.blk[a].req /\ s.len = heap'.blk[p].req
      BY DEF RegionAt, Region
    <2> QED BY <2>1, <2>2
  <1>5. ASSUME NEW o \in RegionsOf(heap) \ {r}
        PROVE  Allocator!Disjoint(s, o)
    <2>1. PICK b \in Owned(heap) : o = RegionAt(heap, b)
      BY DEF RegionsOf
    <2>2. b # a
      BY <1>5, <2>1
    <2>3. o = RegionAt(heap', b) /\ b \in Owned(heap') /\ b # p
      BY <2>1, <2>2 DEF KeepsRegions, RegionAt, Region
    <2>4. Allocator!Disjoint(RegionAt(heap', p), RegionAt(heap', b))
      BY <2>3, RegionsClear
    <2> QED BY <2>3, <2>4
  <1> QED BY <1>1, <1>2, <1>3, <1>4, <1>5 DEF Viewed, Allocator!Resize

\* A call of sf_malloc, sf_free or sf_realloc that goes through no stale link does to the
\* callers' regions what SfmmSpec says, or changes none.
THEOREM HeapImplementsRegions == Spec => RegionsStayDisjoint
  <1>1. Init => Allocator!Init
    BY EmptyFacts DEF Init, Allocator!Init, Regions, Allocated, EmptyHeap
  <1>2. HeapInv /\ HeapInv' /\ [Next]_vars => [fate' = "stray" \/ Allocator!Next]_Regions
    <2> SUFFICES ASSUME HeapInv, HeapInv', [Next]_vars, fate' # "stray"
                 PROVE  Allocator!Next \/ UNCHANGED Regions
      OBVIOUS
    <2>0. fate # "stray"
      BY DEF Next, SfMalloc, SfFree, SfRealloc, DoubleFree, vars
    <2>7. Viewed
      BY <2>0, RegionsAre, RegionsAfter DEF Viewed
    <2>1. HeapStep /\ heap'.ok
      BY StepIs DEF Fates
    <2>2. HeapOK(heap) /\ HeapOK(heap')
      BY DEF HeapInv
    <2>3. CASE UNCHANGED heap
      BY <2>3, <2>7 DEF Viewed
    <2>4. ASSUME NEW bytes \in Sizes, NEW ptr, Served(heap', ptr, heap, bytes)
          PROVE  Allocator!Next \/ UNCHANGED Regions
      <3>1. bytes \in Nat
        BY SfmmAssumption
      <3> QED BY <2>2, <2>4, <2>7, <3>1, MallocAllocates DEF Allocator!Next
    <2>5. ASSUME NEW a \in Owned(heap), heap' = FreeBlock(heap, a)
          PROVE  Allocator!Next
      <3>1. GivenBack(FreeBlock(heap, a), heap, a)
        BY <2>2, OwnedReady, FreeReady
      <3>2. GivenBack(heap', heap, a)
        BY <2>5, <3>1
      <3> QED BY <2>2, <2>7, <3>2, FreeReleases DEF Allocator!Next
    <2>6. ASSUME NEW a \in Owned(heap), NEW bytes \in Sizes, heap' = Realloc(heap, a, bytes)
          PROVE  Allocator!Next \/ UNCHANGED Regions
      <3>1. bytes \in Nat /\ Realloc(heap, a, bytes).ok
        BY <2>1, <2>6, SfmmAssumption
      <3>2. \/ SameOwners(heap', heap)
            \/ bytes < heap.blk[a].req /\ Shrunk(heap', heap, a, bytes)
            \/ Moved(heap', heap, a, bytes)
        BY <2>2, <2>6, <3>1, ReallocReady
      <3>3. a \in Nat /\ heap.blk[a].req \in Nat
        BY <2>2, OwnerTyped
      <3>4. CASE SameOwners(heap', heap)
        BY <2>7, <3>4, SameRegions DEF Viewed
      <3>5. CASE bytes < heap.blk[a].req /\ Shrunk(heap', heap, a, bytes)
        <4>1. /\ a \in Owned(heap') /\ Owned(heap') = (Owned(heap) \ {a}) \cup {a}
              /\ KeepsRegions(heap', heap, Owned(heap) \ {a}) /\ heap'.blk[a].req = bytes
          BY <3>5 DEF Shrunk
        <4>2. PICK r : r = RegionAt(heap, a)
          OBVIOUS
        <4>3. PICK s : s = RegionAt(heap', a)
          OBVIOUS
        <4>4. s.at = r.at /\ s.len < r.len
          BY <3>5, <4>1, <4>2, <4>3 DEF RegionAt, Region
        <4>5. Allocator!Resize
          BY <2>2, <2>7, <4>1, <4>2, <4>3, <4>4, ReplaceResizes
        <4> QED BY <4>5 DEF Allocator!Next
      <3>6. CASE Moved(heap', heap, a, bytes)
        <4>1. PICK p : /\ p \notin Owned(heap) /\ Owned(heap') = (Owned(heap) \ {a}) \cup {p}
                       /\ KeepsRegions(heap', heap, Owned(heap) \ {a}) /\ heap'.blk[p].req = bytes
                       /\ Clear(p, bytes, a, heap.blk[a].req) /\ bytes > heap.blk[a].req
          BY <3>6 DEF Moved
        <4>2. PICK r : r = RegionAt(heap, a)
          OBVIOUS
        <4>3. PICK s : s = RegionAt(heap', p)
          OBVIOUS
        <4>4. p \in Owned(heap')
          BY <4>1
        <4>5. p \in Nat
          BY <2>2, <4>4, OwnerTyped
        <4>6. Allocator!Disjoint(s, r)
          BY <3>1, <3>3, <4>1, <4>2, <4>3, <4>5, ClearIsDisjoint
        <4>7. s.len > r.len
          BY <4>1, <4>2, <4>3 DEF RegionAt, Region
        <4>8. Allocator!Resize
          BY <2>2, <2>7, <4>1, <4>2, <4>3, <4>4, <4>6, <4>7, ReplaceResizes
        <4> QED BY <4>8 DEF Allocator!Next
      <3> QED BY <3>2, <3>4, <3>5, <3>6
    <2> QED BY <2>1, <2>3, <2>4, <2>5, <2>6 DEF HeapStep
  <1> QED BY <1>1, <1>2, HeapInvHolds, PTL DEF Spec, RegionsStayDisjoint

\* As long as no call went through a stale link, no byte belongs to two callers.
NoSharedByte == fate # "stray" => \A r, s \in Regions : r # s => Allocator!Disjoint(r, s)

\* As long as no call of sf_malloc, sf_free or sf_realloc went through a stale link, the regions
\* the callers own are apart, whatever links are stale already.
THEOREM RegionsApart == Spec => []NoSharedByte
  <1>1. HeapInv => NoSharedByte
    <2> SUFFICES ASSUME HeapInv, fate # "stray", NEW r \in Regions, NEW s \in Regions, r # s
                 PROVE  Allocator!Disjoint(r, s)
      BY DEF NoSharedByte
    <2>1. PICK a \in Owned(heap), b \in Owned(heap) : r = RegionAt(heap, a) /\ s = RegionAt(heap, b)
      BY RegionsAre DEF RegionsOf
    <2> QED BY <2>1, RegionsClear DEF HeapInv
  <1> QED BY <1>1, HeapInvHolds, PTL

\* An allocated block has nothing of a free one.
LEMMA OwnedNotFree ==
  ASSUME NEW H, HeapOK(H), NEW a \in Owned(H)
  PROVE  ~ InFree(H, a)
  <1>1. Tiling(H.blk, H.epi, Epilogue(H)) /\ a \in DOMAIN H.blk /\ H.blk[a].alloc
    BY OwnedReady DEF Ready, Tiled, Owned
  <1>2. ASSUME NEW b \in DOMAIN H.blk, ~ H.blk[b].alloc, b <= a, a < b + H.blk[b].size
        PROVE  FALSE
    <2>1. /\ a \in Nat /\ b \in Nat /\ H.blk[a].size \in Nat /\ H.blk[b].size \in Nat
          /\ (a <= b \/ End(H.blk, b) <= a)
      BY <1>1, TilingFacts
    <2>2. a = b
      BY <1>2, <2>1 DEF End
    <2> QED BY <1>1, <1>2, <2>2
  <1> QED BY <1>2 DEF InFree

\* The block that sf_free or sf_realloc gives back heads the list of its size when the call
\* returns, with its free neighbours: no memory is lost.
THEOREM FreedIsListed == Spec => FreedBlockListed
  <1> DEFINE Top(G, a) ==
        \E k \in 1..Len(G.order) :
          LET h == G.next[NodeAt(G, k)] IN
          h >= 0 /\ IsFree(G, h) /\ h <= a /\ a < h + G.blk[h].size
          /\ G.blk[h].size = SizeAt(G, k)
  <1>1. ASSUME NEW G, HeapOK(G), NEW a \in Nat, \E x, k : Covers(G, x, a) /\ Heads(G, k, x)
        PROVE  Top(G, a)
    <2>1. PICK x, k : Covers(G, x, a) /\ Heads(G, k, x)
      BY <1>1
    <2>2. x \in DOMAIN G.blk /\ ~ G.blk[x].alloc /\ x <= a /\ a < x + G.blk[x].size
      BY <2>1 DEF Covers, FreeSet, Owned, End
    <2>3. x >= 0
      <3>1. Ready(G)
        BY <1>1, <2>2 DEF HeapOK, EmptyHeap
      <3> QED BY <2>2, <3>1, TilingFacts DEF Ready, Tiled
    <2>4. k \in 1..Len(G.order) /\ G.next[NodeAt(G, k)] = x /\ SizeAt(G, k) = G.blk[x].size
      BY <2>1 DEF Heads
    <2> QED BY <2>2, <2>3, <2>4 DEF IsFree
  <1>2. HeapInv /\ HeapInv' /\ [Next]_vars =>
          \A a \in DOMAIN heap.blk : heap.blk[a].alloc /\ InFree(heap', a) => Top(heap', a)
    <2> SUFFICES ASSUME HeapInv, HeapInv', [Next]_vars,
                        NEW a \in DOMAIN heap.blk, heap.blk[a].alloc, InFree(heap', a)
                 PROVE  Top(heap', a)
      OBVIOUS
    <2> HIDE DEF Top
    <2>1. HeapOK(heap) /\ HeapOK(heap') /\ HeapStep /\ heap'.ok
      BY StepIs DEF HeapInv, Fates
    <2>2. a \in Owned(heap)
      BY DEF Owned
    <2>3. a \notin Owned(heap') /\ a \in Nat
      BY <2>1, <2>2, OwnedNotFree, OwnedReady
    <2>4. CASE UNCHANGED heap
      BY <2>2, <2>3, <2>4
    <2>5. ASSUME NEW bytes \in Sizes, NEW ptr, Served(heap', ptr, heap, bytes)
          PROVE  FALSE
      BY <2>2, <2>3, <2>5 DEF Served, SameOwners
    <2>6. ASSUME NEW b \in Owned(heap), heap' = FreeBlock(heap, b)
          PROVE  Top(heap', a)
      <3>1. /\ GivenBack(heap', heap, b)
            /\ \E x, k : Covers(heap', x, b) /\ Heads(heap', k, x)
        BY <2>1, <2>6, OwnedReady, FreeReady
      <3>2. a = b
        BY <2>2, <2>3, <3>1 DEF GivenBack
      <3> QED BY <1>1, <2>1, <2>3, <3>1, <3>2
    <2>7. ASSUME NEW b \in Owned(heap), NEW bytes \in Sizes, heap' = Realloc(heap, b, bytes)
          PROVE  Top(heap', a)
      <3>1. bytes \in Nat /\ Realloc(heap, b, bytes).ok
        BY <2>1, <2>7, SfmmAssumption
      <3>2. \/ SameOwners(heap', heap)
            \/ Shrunk(heap', heap, b, bytes)
            \/ Moved(heap', heap, b, bytes)
        BY <2>1, <2>7, <3>1, ReallocReady
      <3>3. Moved(heap', heap, b, bytes)
        BY <2>2, <2>3, <3>2 DEF SameOwners, Shrunk
      <3>4. a = b /\ \E x, k : Covers(heap', x, b) /\ Heads(heap', k, x)
        BY <2>2, <2>3, <3>3 DEF Moved
      <3> QED BY <1>1, <2>1, <2>3, <3>4
    <2> QED BY <2>1, <2>4, <2>5, <2>6, <2>7 DEF HeapStep
  <1>3. HeapInv /\ HeapInv' /\ [Next]_vars =>
          [\A a \in DOMAIN heap.blk : heap.blk[a].alloc /\ InFree(heap', a) => Top(heap', a)]_vars
    BY <1>2
  <1> QED BY <1>3, HeapInvHolds, PTL DEF Spec, FreedBlockListed
=============================================================================
