------------------------------ MODULE Allocator -----------------------------
(***************************************************************************)
(* malloc(), calloc() and free() of kernel/memory.cpp: next-fit search in  *)
(* a doubly linked list of blocks that fills one static array, splitting   *)
(* on malloc and merging with free neighbours on free.                     *)
(*                                                                         *)
(* heap maps the address of each block header to its fields; the used bit  *)
(* of the size field is a field of its own.  Callers free what they own,   *)
(* once.  The calls are atomic: the code has no protection against two     *)
(* threads in the allocator.                                               *)
(***************************************************************************)
EXTENDS Integers, Sequences, FiniteSets, SequencesExt, FiniteSetsExt

CONSTANTS MEMORY_SIZE,      \* config::malloc_memory_size
          HEADER,           \* sizeof(mem_block)
          ALIGNMENT,        \* alignof(max_align_t), also the size_mask
          WORD,             \* one more than the largest size_t
          Requests,         \* the sizes that callers ask for
          Counts,           \* and of how many elements, with calloc()
          Null

MEMORY == 0                 \* the address of the array

ASSUME AllocatorAssumption ==
  /\ ALIGNMENT \in Nat \ {0} /\ HEADER \in Nat \ {0}
  /\ MEMORY_SIZE \in Nat /\ MEMORY_SIZE >= HEADER + ALIGNMENT
  /\ WORD \in Nat /\ WORD >= 2 * MEMORY_SIZE
  /\ Requests \subseteq 0 .. WORD - ALIGNMENT   \* above, Aligned wraps to 0
  /\ Counts \subseteq Nat
  /\ \A num \in Counts, size \in Requests :
       num * size < WORD => num * size <= WORD - ALIGNMENT
  /\ Null \notin Nat

VARIABLES heap, last_allocation,
          memory_allocated, num_allocations, num_blocks,
          owned             \* history: what was asked for, per block in use

vars == <<heap, last_allocation, memory_allocated, num_allocations,
          num_blocks, owned>>

Block(next, prev, size, used) ==
  [next |-> next, prev |-> prev, size |-> size, used |-> used]

(* malloc_init() *)
Init ==
  /\ heap = [a \in {MEMORY} |-> Block(Null, Null, MEMORY_SIZE - HEADER, FALSE)]
  /\ last_allocation = MEMORY
  /\ memory_allocated = 0
  /\ num_blocks = 1
  /\ num_allocations = 0
  /\ owned = [a \in {} |-> 0]

-----------------------------------------------------------------------------
(* size & size_mask: the multiple of the alignment below.                  *)
Mask(size) == size - (size % ALIGNMENT)

(* The multiple of the alignment above.                                    *)
Aligned(size) ==
  IF size % ALIGNMENT = 0 THEN size
  ELSE (size + ALIGNMENT - (size % ALIGNMENT)) % WORD

(* The blocks from a on, following next.                                   *)
From(a) ==
  LET walk[n \in 0 .. Cardinality(DOMAIN heap)] ==
        IF n = 0 THEN <<a>>
        ELSE LET s == walk[n - 1] IN
             IF heap[s[Len(s)]].next = Null THEN s
             ELSE Append(s, heap[s[Len(s)]].next)
  IN walk[Cardinality(DOMAIN heap)]

List == From(MEMORY)

\* A plausible slip: the search ends at the end of the list.
SearchNotRound == From(last_allocation)

(* The search starts at last_allocation and comes back round to it.        *)
SearchOrder ==
  From(last_allocation)
    \o SubSeq(List, 1, SelectInSeq(List, LAMBDA a : a = last_allocation) - 1)

(* The first free block in that order that is large enough.                *)
Pick(size) ==
  LET i == SelectInSeq(SearchOrder,
             LAMBDA a : ~heap[a].used /\ Mask(heap[a].size) >= Aligned(size))
  IN IF i = 0 THEN Null ELSE SearchOrder[i]

Count(a, size, bytes) ==
  /\ num_allocations' = num_allocations + 1
  /\ memory_allocated' = (memory_allocated + bytes) % WORD
  /\ last_allocation' = a
  /\ owned' = [b \in DOMAIN owned \cup {a} |-> IF b = a THEN size ELSE owned[b]]

TooSmallToSplit(a, size) ==
  Mask(heap[a].size) < Aligned(size) + HEADER + ALIGNMENT

(* malloc() returns nullptr.                                               *)
MallocFails(size) == (size = 0 \/ Pick(size) = Null) /\ UNCHANGED vars

MallocExact(size) ==
  /\ size # 0 /\ Pick(size) # Null
  /\ LET a == Pick(size) IN
     /\ heap[a].size = Aligned(size)
     /\ heap' = [heap EXCEPT ![a].used = TRUE]
     /\ Count(a, size, Aligned(size))
  /\ UNCHANGED num_blocks

MallocWhole(size) ==
  /\ size # 0 /\ Pick(size) # Null
  /\ LET a == Pick(size) IN
     /\ heap[a].size # Aligned(size) /\ TooSmallToSplit(a, size)
     /\ heap' = [heap EXCEPT ![a].used = TRUE]
     /\ Count(a, size, Mask(heap[a].size))
  /\ UNCHANGED num_blocks

\* A plausible slip: the header of the new block is not subtracted.
SplitForgetsHeader(size) ==
  /\ size # 0 /\ Pick(size) # Null
  /\ LET a   == Pick(size)
         new == a + HEADER + Aligned(size)
     IN
     /\ heap[a].size # Aligned(size) /\ ~TooSmallToSplit(a, size)
     /\ heap' = [b \in DOMAIN heap \cup {new} |->
          CASE b = a   -> Block(new, heap[a].prev, Aligned(size), TRUE)
            [] b = new -> Block(heap[a].next, a,
                            Mask(heap[a].size) - Aligned(size), FALSE)
            [] b = heap[a].next -> [heap[b] EXCEPT !.prev = new]
            [] OTHER   -> heap[b]]
     /\ Count(a, size, Aligned(size))
  /\ num_blocks' = num_blocks + 1

MallocSplit(size) ==
  /\ size # 0 /\ Pick(size) # Null
  /\ LET a   == Pick(size)
         new == a + HEADER + Aligned(size)
     IN
     /\ heap[a].size # Aligned(size) /\ ~TooSmallToSplit(a, size)
     /\ heap' = [b \in DOMAIN heap \cup {new} |->
          CASE b = a   -> Block(new, heap[a].prev, Aligned(size), TRUE)
            [] b = new -> Block(heap[a].next, a,
                            Mask(heap[a].size) - HEADER - Aligned(size), FALSE)
            [] b = heap[a].next -> [heap[b] EXCEPT !.prev = new]
            [] OTHER   -> heap[b]]
     /\ Count(a, size, Aligned(size))
  /\ num_blocks' = num_blocks + 1

-----------------------------------------------------------------------------
(* free()                                                                  *)

IsFree(a) == a # Null /\ ~heap[a].used

Uncount(a) ==
  /\ num_allocations' = num_allocations - 1
  /\ memory_allocated' = (memory_allocated - heap[a].size) % WORD
  /\ owned' = [b \in DOMAIN owned \ {a} |-> owned[b]]

\* A plausible slip: one block less is counted when two are merged away.
MergeCountsOne(a, gone, z, size) ==
  /\ heap' = [b \in DOMAIN heap \ gone |->
       CASE b = a -> Block(z, heap[a].prev, size, FALSE)
         [] b = z -> [heap[b] EXCEPT !.prev = a]
         [] OTHER -> heap[b]]
  /\ last_allocation' = IF last_allocation \in gone THEN a ELSE last_allocation
  /\ num_blocks' = num_blocks - 1

(* The blocks gone are unlinked, the block a before them gets the size     *)
(* given and the block z behind them, and last_allocation, if it was one   *)
(* of those, moves back to a.                                              *)
Merge(a, gone, z, size) ==
  /\ heap' = [b \in DOMAIN heap \ gone |->
       CASE b = a -> Block(z, heap[a].prev, size, FALSE)
         [] b = z -> [heap[b] EXCEPT !.prev = a]
         [] OTHER -> heap[b]]
  /\ last_allocation' = IF last_allocation \in gone THEN a ELSE last_allocation
  /\ num_blocks' = num_blocks - Cardinality(gone)

FreeBetween(a) ==
  /\ IsFree(heap[a].prev) /\ IsFree(heap[a].next)
  /\ LET p == heap[a].prev
         n == heap[a].next
     IN Merge(p, {a, n}, heap[n].next,
              heap[p].size + Mask(heap[a].size) + Mask(heap[n].size) + 2 * HEADER)
  /\ Uncount(a)

\* A plausible slip: last_allocation still points at the merged block.
FreeKeepsLast(a) ==
  /\ IsFree(heap[a].prev) /\ ~IsFree(heap[a].next)
  /\ LET p == heap[a].prev IN
     heap' = [b \in DOMAIN heap \ {a} |->
       CASE b = p -> Block(heap[a].next, heap[p].prev,
                           heap[p].size + Mask(heap[a].size) + HEADER, FALSE)
         [] b = heap[a].next -> [heap[b] EXCEPT !.prev = p]
         [] OTHER -> heap[b]]
  /\ num_blocks' = num_blocks - 1
  /\ UNCHANGED last_allocation
  /\ Uncount(a)

FreeAfterFree(a) ==
  /\ IsFree(heap[a].prev) /\ ~IsFree(heap[a].next)
  /\ LET p == heap[a].prev
     IN Merge(p, {a}, heap[a].next,
              heap[p].size + Mask(heap[a].size) + HEADER)
  /\ Uncount(a)

\* A plausible slip: the free block behind is not merged.
FreeIgnoresNext(a) ==
  /\ ~IsFree(heap[a].prev) /\ IsFree(heap[a].next)
  /\ heap' = [heap EXCEPT ![a].used = FALSE]
  /\ Uncount(a)
  /\ UNCHANGED <<last_allocation, num_blocks>>

FreeBeforeFree(a) ==
  /\ ~IsFree(heap[a].prev) /\ IsFree(heap[a].next)
  /\ LET n == heap[a].next
     IN Merge(a, {n}, heap[n].next,
              heap[a].size + Mask(heap[n].size) + HEADER)
  /\ Uncount(a)

FreeAlone(a) ==
  /\ ~IsFree(heap[a].prev) /\ ~IsFree(heap[a].next)
  /\ heap' = [heap EXCEPT ![a].used = FALSE]
  /\ Uncount(a)
  /\ UNCHANGED <<last_allocation, num_blocks>>

Malloc(size) == \/ MallocFails(size) \/ MallocExact(size)
                \/ MallocWhole(size) \/ MallocSplit(size)

Free(a) == \/ FreeBetween(a) \/ FreeAfterFree(a)
           \/ FreeBeforeFree(a) \/ FreeAlone(a)

(* __builtin_mul_overflow: no product is reduced modulo WORD.             *)
Calloc(num, size) ==
  IF num * size >= WORD THEN UNCHANGED vars ELSE Malloc(num * size)

Next == \/ \E size \in Requests : Malloc(size)
        \/ \E num \in Counts, size \in Requests : Calloc(num, size)
        \/ \E a \in DOMAIN owned : Free(a)

Spec == Init /\ [][Next]_vars

-----------------------------------------------------------------------------
(* The pieces in use: what follows the header of each used block, up to    *)
(* where malloc() has cleared it.                                          *)
Pieces == [ptr \in {a + HEADER : a \in DOMAIN owned} |->
             [asked |-> owned[ptr - HEADER], room |-> Mask(heap[ptr - HEADER].size)]]

HeapOfPieces == INSTANCE Heap WITH used <- Pieces, Header <- HEADER,
                  First <- MEMORY, End <- MEMORY + MEMORY_SIZE

-----------------------------------------------------------------------------
(* Properties.                                                             *)

\* The list of blocks is doubly linked from one end of the array to the
\* other in the order of addresses, holds every block, and last_allocation,
\* where the next search starts, is one of them.
ListWellFormed ==
  /\ {List[i] : i \in 1 .. Len(List)} = DOMAIN heap
  /\ \A i \in 1 .. Len(List) :
       /\ heap[List[i]].prev = IF i = 1 THEN Null ELSE List[i - 1]
       /\ i < Len(List) => List[i] < List[i + 1]
  /\ last_allocation \in DOMAIN heap

\* What malloc() returns is a piece of the array of at least the size asked
\* for; whatever the order of calls, and however blocks were split and merged
\* since, no other piece in use and no header of one overlaps it, and it keeps
\* its length until it is freed.  malloc() clears the whole of it.
HeapSpec == HeapOfPieces!Spec

\* free() merges with both neighbours, so two free blocks never touch.
FreeBlocksMerged ==
  \A a \in DOMAIN heap : IsFree(a) => ~IsFree(heap[a].next)

\* malloc() refuses only when no free block is large enough: the search finds
\* any that is, wherever last_allocation has come to be.
RefusesOnlyWhenNoneFits ==
  \A size \in Requests \ {0} : Pick(size) = Null =>
    \A a \in DOMAIN heap : IsFree(a) => Mask(heap[a].size) < Aligned(size)

\* When everything is freed, in whatever order, one block is left.
AllFreedIsOneBlock == num_allocations = 0 => num_blocks = 1

\* Two of the counters that the stats command prints count what there is: the
\* blocks, and what is allocated and not freed.  (The bytes it prints are not
\* modelled; they drift, as malloc() adds another amount than free() takes off.)
CountersRight ==
  /\ num_blocks = Cardinality(DOMAIN heap)
  /\ num_allocations = Cardinality(DOMAIN owned)
=============================================================================
