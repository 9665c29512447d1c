------------------------------ MODULE Sfmm ------------------------------
(***************************************************************************)
(* The heap of hw3/src/sfmm.c.  An address counts 16-byte units from the   *)
(* first block, the links of the free lists are addresses of free blocks   *)
(* or, negative, list nodes.  A link can go stale; the code never notices. *)
(* The model ends with the first call that follows such a link out of the  *)
(* free blocks ("stray"), where the code goes on with a header, a footer   *)
(* or a payload overwritten, or hands out what the link names.             *)
(***************************************************************************)
EXTENDS Integers, Sequences, Functions, SequencesExt

CONSTANTS PageUnits,   \* PAGE_SZ, in units of 16 bytes
          MaxPages,    \* pages sf_mem_grow can add
          Sizes        \* bytes a caller asks for, far below 2^32 - 8

ASSUME SfmmAssumption == PageUnits \in Nat /\ PageUnits >= 5 /\ MaxPages \in Nat \ {0} /\ Sizes \subseteq Nat \ {0}

VARIABLES heap,   \* see EmptyHeap
          fate,   \* "ok", "stray", "aborted"
          handed  \* the region returned by the call of sf_malloc that strayed

vars == <<heap, fate, handed>>

Garbage == MaxPages * PageUnits   \* links that were never written

EmptyHeap ==
  [pages |-> 0,
   blk   |-> << >>,   \* header address -> size, requested_size, allocated, prev_allocated
   epi   |-> FALSE,   \* prev_allocated of the epilogue
   next  |-> << >>,   \* links.next of free blocks (a >= 0) and list nodes (a < 0)
   prev  |-> << >>,   \* links.prev of free blocks; nobody reads it in a list node
   order |-> << >>,   \* the list of free lists: numbers of nodes
   sizes |-> << >>,   \* size of each node, in the order of their creation
   ok    |-> TRUE]

Epilogue(H) == H.pages * PageUnits - 3

\* The function f, defined or changed at x.
Put(f, x, v) == [y \in DOMAIN f \cup {x} |-> IF y = x THEN v ELSE f[y]]

IsFree(H, a) == a \in DOMAIN H.blk /\ ~ H.blk[a].alloc

NodeAt(H, k) == -H.order[k]
SizeAt(H, k) == H.sizes[H.order[k]]

FirstIn(S) == CHOOSE k \in S : \A j \in S : k <= j

(***************************************************************************)
(* Links.  A write through a stale link is harmless where it hits unused   *)
(* memory of a free block.  In its last unit links.next is the footer and  *)
(* links.prev the header of what follows.                                  *)
(***************************************************************************)
\* Past the header and links of a free block, before its last unit.
Unused(H, a) == \E b \in DOMAIN H.blk : ~ H.blk[b].alloc /\ b < a /\ a + 1 < b + H.blk[b].size

Stray(H) == [H EXCEPT !.ok = FALSE]

SetPrev(H, a, v) ==
  IF a < 0 THEN H
  ELSE IF IsFree(H, a) THEN [H EXCEPT !.prev[a] = v]
  ELSE IF Unused(H, a) THEN H ELSE Stray(H)

SetNext(H, a, v) ==
  IF a < 0 \/ IsFree(H, a) THEN [H EXCEPT !.next[a] = v]
  ELSE IF Unused(H, a) THEN H ELSE Stray(H)

Unlink(H, b) == LET G == SetPrev(H, H.next[b], H.prev[b]) IN SetNext(G, G.prev[b], G.next[b])

(***************************************************************************)
(* Blocks.                                                                 *)
(***************************************************************************)
\* A header and footer of a free block at a; its links are not written.
MakeFree(H, a, n, prevAlloc) ==
  [H EXCEPT !.blk  = Put(@, a, [size |-> n, req |-> 0, alloc |-> FALSE, prevAlloc |-> prevAlloc]),
            !.next = Put(@, a, Garbage), !.prev = Put(@, a, Garbage)]

\* The header at a is inside a larger block from now on.
Forget(H, a) ==
  [H EXCEPT !.blk  = Restrict(@, DOMAIN @ \ {a}),
            !.next = Restrict(@, DOMAIN @ \ {a}),
            !.prev = Restrict(@, DOMAIN @ \ {a})]

Resize(H, a, n) == [H EXCEPT !.blk[a].size = n]

\* Mutant: the epilogue is forgotten.
SetPrevAllocInside(H, a, bit) == IF a = Epilogue(H) THEN H ELSE [H EXCEPT !.blk[a].prevAlloc = bit]

\* prev_allocated of what follows: a header or the epilogue.
SetPrevAlloc(H, a, bit) ==
  IF a = Epilogue(H) THEN [H EXCEPT !.epi = bit] ELSE [H EXCEPT !.blk[a].prevAlloc = bit]

Before(H, a) == CHOOSE b \in DOMAIN H.blk : b + H.blk[b].size = a

(***************************************************************************)
(* Insertion.  The code searches the list of free lists for the size n in  *)
(* its first m nodes, up to the first that is larger.                      *)
(***************************************************************************)
Found(H, m, n) ==
  LET big == {k \in 1..m : SizeAt(H, k) >= n}
  IN IF big # {} /\ SizeAt(H, FirstIn(big)) = n THEN FirstIn(big) ELSE 0

\* Between two nodes; position 0 is sf_free_list_head, whose size is 0.
Gap(H, k, n) ==
  /\ k < Len(H.order)
  /\ (k = 0 \/ SizeAt(H, k) < n)
  /\ SizeAt(H, k + 1) > n

\* Mutant: the new node takes the place of the node before it.
NewListOver(H, k, n, b) ==
  LET id == Len(H.sizes) + 1 IN
  [H EXCEPT !.order = IF k = 0 THEN InsertAt(@, 1, id) ELSE [@ EXCEPT ![k] = id],
            !.sizes = Append(@, n),
            !.next  = Put(Put(@, b, -id), -id, b), !.prev = Put(@, b, -id)]

\* sf_add_free_list after position k, with b the only block of the new list.
NewList(H, k, n, b) ==
  LET id == Len(H.sizes) + 1 IN
  [H EXCEPT !.order = InsertAt(@, k + 1, id),
            !.sizes = Append(@, n),
            !.next  = Put(Put(@, b, -id), -id, b), !.prev = Put(@, b, -id)]

\* sf_malloc: b is linked behind the first block, whose own next is not changed.
HangBehind(H, k, b) ==
  LET first == H.next[NodeAt(H, k)] IN
  IF first >= 0 /\ ~ IsFree(H, first) THEN Stray(H)
  ELSE SetPrev([H EXCEPT !.next[b] = H.next[first], !.prev[b] = first], H.next[first], b)

\* sf_free and sf_realloc: b becomes the first block of its list.  (Its mutant is HangBehind.)
PushList(H, k, b) ==
  LET node == NodeAt(H, k)
      G == SetPrev(H, H.next[node], b)
  IN [G EXCEPT !.next[b] = G.next[node], !.prev[b] = node, !.next[node] = b]

\* The remainder of a split in sf_malloc; the last node is never looked at.
InsertRest(H, b) ==
  LET n == H.blk[b].size
      k == Found(H, Len(H.order) - 1, n)
      gaps == {j \in 0..Len(H.order) : Gap(H, j, n)}
  IN IF k # 0 THEN HangBehind(H, k, b)
     ELSE IF gaps # {} THEN NewList(H, FirstIn(gaps), n, b) ELSE H

\* A block made from a new page: as before, but after the last node when there is no gap.
InsertPage(H, b) ==
  LET n == H.blk[b].size
      k == Found(H, Len(H.order) - 1, n)
  IN IF k # 0 THEN HangBehind(H, k, b)
     ELSE NewList(H, FirstIn({j \in 1..Len(H.order) : Gap(H, j, n) \/ j = Len(H.order)}), n, b)

\* A block that sf_free or sf_realloc gives back.
InsertFreed(H, b) ==
  LET n == H.blk[b].size
      k == Found(H, Len(H.order), n)
      ends == {j \in 1..Len(H.order) : Gap(H, j, n) \/ j = Len(H.order)}
  IN IF k # 0 THEN PushList(H, k, b)
     ELSE IF 1 \notin ends /\ SizeAt(H, 1) > n THEN NewList(H, 0, n, b)
     ELSE NewList(H, FirstIn(ends), n, b)

(***************************************************************************)
(* sf_malloc.                                                              *)
(***************************************************************************)
\* Mutant: sizes are rounded down.
UnitsShort(bytes) == IF bytes + 8 < 32 THEN 2 ELSE (bytes + 8) \div 16
Units(bytes) == IF bytes + 8 < 32 THEN 2 ELSE (bytes + 8 + 15) \div 16

\* The first call: prologue, epilogue and one free block of the rest of the page.
Boot(H) == NewList(MakeFree([H EXCEPT !.pages = 1], 0, PageUnits - 3, TRUE), 0, PageUnits - 3, 0)

\* sf_mem_grow: fresh memory is zero; the old epilogue becomes a header.
Grow(H) ==
  LET end == Epilogue(H)
      last == Before(H, end)
      G == [H EXCEPT !.pages = @ + 1, !.epi = FALSE]
  IN IF H.epi THEN InsertPage(MakeFree(G, end, PageUnits, TRUE), end)
     ELSE InsertPage(Unlink(Resize(G, last, G.blk[last].size + PageUnits), last), last)

\* The first block of a list is taken: links.prev of the second keeps its value.
Take(H, node, h, n, bytes) ==
  [H EXCEPT !.next = Put(Restrict(@, DOMAIN @ \ {h}), node, H.next[h]),
            !.prev = Restrict(@, DOMAIN @ \ {h}),
            !.blk[h].size = n, !.blk[h].req = bytes, !.blk[h].alloc = TRUE]

NULL == -1

\* The nodes whose list is long enough and not empty, by their position.
Fits(H, bytes) ==
  {k \in 1..Len(H.order) : bytes + 8 <= 16 * SizeAt(H, k) /\ H.next[NodeAt(H, k)] # NodeAt(H, k)}

\* sf_malloc calls itself after each new page, until a list fits or no page is left.
Again(H, bytes) ==
  IF ~ H.ok \/ Fits(H, bytes) # {} \/ H.pages = MaxPages THEN H
  ELSE IF H.pages = 0 THEN Boot(H) ELSE Grow(H)

Grown(H, bytes) ==
  LET after[k \in 0..MaxPages] == IF k = 0 THEN H ELSE Again(after[k - 1], bytes)
  IN after[MaxPages]

\* The first block of the first list that fits, split when the rest is a block.  The link
\* is not checked: when it is stale, what it names is handed out all the same.
Place(H, bytes) ==
  LET k == FirstIn(Fits(H, bytes))
      n == SizeAt(H, k)
      h == H.next[NodeAt(H, k)]
      want == Units(bytes)
      T(size) == Take(H, NodeAt(H, k), h, size, bytes)
  IN IF ~ IsFree(H, h) \/ H.blk[h].size # n THEN [heap |-> Stray(H), ptr |-> h]
     ELSE IF n - want >= 2
     THEN [heap |-> InsertRest(MakeFree(T(want), h + want, n - want, TRUE), h + want), ptr |-> h]
     ELSE [heap |-> SetPrevAlloc(T(n), h + n, TRUE), ptr |-> h]

Malloc(H, bytes) ==
  LET G == Grown(H, bytes) IN
  IF G.ok /\ Fits(G, bytes) # {} THEN Place(G, bytes) ELSE [heap |-> G, ptr |-> NULL]

(***************************************************************************)
(* sf_free: the four cases of coalescing.                                  *)
(***************************************************************************)
NextFree(H, a) == IsFree(H, a + H.blk[a].size)

FreeBlock(H, a) ==
  LET n == a + H.blk[a].size
      p == Before(H, a)
      G == MakeFree(H, a, H.blk[a].size, H.blk[a].prevAlloc)
      G1 == IF NextFree(H, a) THEN Unlink(G, n) ELSE SetPrevAlloc(G, n, FALSE)
      G2 == IF NextFree(H, a) THEN Forget(Resize(G1, a, G1.blk[a].size + G1.blk[n].size), n) ELSE G1
      G3 == IF H.blk[a].prevAlloc THEN G2
            ELSE LET U == Unlink(G2, p) IN Forget(Resize(U, p, U.blk[p].size + U.blk[a].size), a)
  IN InsertFreed(G3, IF H.blk[a].prevAlloc THEN a ELSE p)

(***************************************************************************)
(* sf_realloc.                                                             *)
(***************************************************************************)
\* Cut off what is more than the new size needs, when it is a block.
Shrink(H, a, bytes) ==
  LET want == Units(bytes)
      old == H.blk[a].size
      n == a + old
      cut == a + want
      G == [H EXCEPT !.blk[a].req = bytes]
      G1 == MakeFree(Resize(G, a, want), cut, old - want, TRUE)
  IN IF old - want < 2 THEN G
     ELSE IF NextFree(H, a)
     THEN LET U == Unlink(G1, n) IN InsertFreed(Forget(Resize(U, cut, old - want + U.blk[n].size), n), cut)
     ELSE InsertFreed(SetPrevAlloc(G1, n, FALSE), cut)

Realloc(H, a, bytes) ==
  IF H.blk[a].req > bytes THEN Shrink(H, a, bytes)
  ELSE IF H.blk[a].req = bytes THEN H
  ELSE LET m == Malloc(H, bytes) IN
       IF m.ptr = NULL \/ ~ m.heap.ok THEN m.heap ELSE FreeBlock(m.heap, a)

(***************************************************************************)
(* The calls.                                                              *)
(***************************************************************************)
Init == heap = EmptyHeap /\ fate = "ok" /\ handed = {}

\* A call that strays is followed no further than to the pointer it returns.
Return(H) == IF H.ok THEN heap' = H /\ UNCHANGED fate ELSE fate' = "stray" /\ UNCHANGED heap

Allocated == {a \in DOMAIN heap.blk : heap.blk[a].alloc}

\* The bytes of a caller who asked for so many and got the block at a.
Region(a, bytes) == [at |-> 16 * a + 8, len |-> bytes]

SfMalloc(bytes) ==
  LET m == Malloc(heap, bytes) IN
  /\ fate = "ok" /\ Return(m.heap)
  /\ handed' = IF m.heap.ok \/ m.ptr = NULL THEN {} ELSE {Region(m.ptr, bytes)}

SfFree(a) == fate = "ok" /\ a \in Allocated /\ Return(FreeBlock(heap, a)) /\ UNCHANGED handed

SfRealloc(a, bytes) ==
  fate = "ok" /\ a \in Allocated /\ Return(Realloc(heap, a, bytes)) /\ UNCHANGED handed

\* sf_free or sf_realloc of a block that is free already.
DoubleFree(a) ==
  fate = "ok" /\ IsFree(heap, a) /\ fate' = "aborted" /\ UNCHANGED <<heap, handed>>

Next ==
  \/ \E bytes \in Sizes : SfMalloc(bytes)
  \/ \E a \in DOMAIN heap.blk :
       \/ SfFree(a) \/ DoubleFree(a)
       \/ \E bytes \in Sizes : SfRealloc(a, bytes)

Spec == Init /\ [][Next]_vars

(***************************************************************************)
(* Properties.                                                             *)
(***************************************************************************)
\* Every list node has a size and a link, every free block has links.
SfmmTypeOK ==
  LET free == {a \in DOMAIN heap.blk : ~ heap.blk[a].alloc}
      nodes == {-k : k \in 1..Len(heap.sizes)}
  IN /\ heap.pages \in 0..MaxPages /\ heap.ok
     /\ DOMAIN heap.next = free \cup nodes /\ DOMAIN heap.prev = free
     /\ Len(heap.order) = Len(heap.sizes) /\ ToSet(heap.order) = DOMAIN heap.sizes
     /\ fate \in {"ok", "stray", "aborted"}

\* As long as no call went through a stale link, the blocks tile the heap, every
\* prev_allocated bit (the epilogue's too) says what precedes it, and no two free blocks are
\* neighbours, through every split, coalescing and new page: what the boundary tags of
\* sf_free rely on.
HeapTiled ==
  fate # "stray" /\ heap.pages > 0 =>
    /\ 0 \in DOMAIN heap.blk /\ heap.blk[0].prevAlloc
    /\ \A a \in DOMAIN heap.blk :
         LET n == a + heap.blk[a].size IN
         /\ heap.blk[a].size >= 2
         /\ n \in DOMAIN heap.blk \cup {Epilogue(heap)}
         /\ IF n = Epilogue(heap) THEN heap.epi = heap.blk[a].alloc
            ELSE /\ heap.blk[n].prevAlloc = heap.blk[a].alloc
                 /\ heap.blk[a].alloc \/ heap.blk[n].alloc
         /\ heap.blk[a].alloc => heap.blk[a].req + 8 <= 16 * heap.blk[a].size
         /\ \A b \in DOMAIN heap.blk : b <= a \/ n <= b

InFree(H, a) == \E b \in DOMAIN H.blk : ~ H.blk[b].alloc /\ b <= a /\ a < b + H.blk[b].size

\* What a call gives back heads a list of its size when the call returns, with the
\* neighbours it was merged with: sf_free and sf_realloc lose no memory.
FreedBlockListed ==
  [][\A a \in DOMAIN heap.blk : heap.blk[a].alloc /\ InFree(heap', a) =>
       \E k \in 1..Len(heap'.order) :
         LET h == heap'.next[NodeAt(heap', k)] IN
         h >= 0 /\ IsFree(heap', h) /\ h <= a /\ a < h + heap'.blk[h].size
         /\ heap'.blk[h].size = SizeAt(heap', k)]_vars

\* The regions the callers own, in bytes: the abstract state of SfmmSpec.
Regions == {Region(a, heap.blk[a].req) : a \in Allocated} \cup handed
Allocator == INSTANCE SfmmSpec WITH live <- Regions
\* Every call of sf_malloc, sf_free and sf_realloc that goes through no stale link hands
\* out a region apart from all others and moves none of another caller, whatever the
\* calls before it left in the free lists.
RegionsStayDisjoint ==
  Allocator!Init /\ [][fate' = "stray" \/ Allocator!Next]_Regions

\* "a pointer to a valid region of memory of the requested size is returned"
\* (include/sfmm.h): what sf_malloc hands out is no other caller's.
RegionsValid ==
  \A r \in handed : \A a \in Allocated : Allocator!Disjoint(r, Region(a, heap.blk[a].req))
=============================================================================
