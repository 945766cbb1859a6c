-------------------------------- MODULE Arena --------------------------------
(* What lt_allocate of memory.cpp promises to users whose calls do not       *)
(* overlap: pieces of one block, each clear of all that were granted before  *)
(* it, until the allocator forgets every one of them at once.                *)
EXTENDS Naturals

CONSTANT Size    \* bytes of the block

VARIABLE live    \* the pieces granted since the block was begun

Extents == [at : 0..Size, size : 1..Size]

Clear(e, f) == e.at + e.size <= f.at \/ f.at + f.size <= e.at

Init == live = {}

Grant(e) == /\ e.at + e.size <= Size
            /\ \A f \in live : Clear(e, f)
            /\ live' = live \cup {e}

BeginAnew == live' = {}

Next == BeginAnew \/ \E e \in Extents : Grant(e)

Spec == Init /\ [][Next]_live
=============================================================================
