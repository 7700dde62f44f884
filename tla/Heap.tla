-------------------------------- MODULE Heap --------------------------------
(***************************************************************************)
(* What the allocator of kernel/memory.cpp promises to its callers, with   *)
(* no list of blocks, no search and no counts: malloc() hands out a piece  *)
(* of the array that is at least as long as was asked for, together with   *)
(* the header that free() finds in front of it, and until the piece is     *)
(* freed nothing else that is handed out overlaps either.  It may refuse.  *)
(***************************************************************************)
EXTENDS Naturals

CONSTANTS First, End,      \* the array, End is behind it
          Header           \* the length of a header

VARIABLE used              \* asked and room of each piece, by its address

Ends(piece, ptr) == ptr + piece[ptr].room

Init == used = [ptr \in {} |-> 0]

Malloc(ptr) ==
  /\ ptr \notin DOMAIN used
  /\ DOMAIN used' = DOMAIN used \cup {ptr}
  /\ \A p \in DOMAIN used :
       /\ used'[p] = used[p]
       /\ Ends(used, p) <= ptr - Header \/ Ends(used', ptr) <= p - Header
  /\ First <= ptr - Header /\ Ends(used', ptr) <= End
  /\ used'[ptr].asked > 0
  /\ used'[ptr].room >= used'[ptr].asked

Free(ptr) ==
  /\ ptr \in DOMAIN used
  /\ used' = [p \in DOMAIN used \ {ptr} |-> used[p]]

Next == (\E ptr \in DOMAIN used' : Malloc(ptr)) \/ (\E ptr \in DOMAIN used : Free(ptr))

Spec == Init /\ [][Next]_used
=============================================================================
