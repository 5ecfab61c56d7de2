------------------------------ MODULE SmallMem ------------------------------
(***************************************************************************)
(* The heap of rt_malloc, rt_realloc and rt_free: a chain of headers that  *)
(* cuts the heap into blocks.  Offsets and sizes are in bytes.  Every      *)
(* section under heap_sem is one step; a rt_realloc that moves the block   *)
(* takes heap_sem three times and other threads come in between.           *)
(***************************************************************************)
EXTENDS Integers, FiniteSets, FiniteSetsExt

CONSTANTS MemSize,    \* mem_size_aligned
          Request,    \* the sizes rt_malloc is asked for
          Resize,     \* the sizes rt_realloc is asked for
          None

RT_ALIGN_SIZE == 8
MIN_SIZE == 12

\* RT_ALIGN
Align(n) == ((n + RT_ALIGN_SIZE - 1) \div RT_ALIGN_SIZE) * RT_ALIGN_SIZE

MIN_SIZE_ALIGNED == Align(MIN_SIZE)
SIZEOF_STRUCT_MEM == Align(12)

ASSUME SmallMemAssumption ==
    /\ MemSize \in Nat /\ MemSize = Align(MemSize) /\ MemSize >= MIN_SIZE_ALIGNED
    /\ Request \subseteq Nat \ {0} /\ Resize \subseteq Nat

heap_end == MemSize + SIZEOF_STRUCT_MEM

VARIABLES heap,    \* the headers by their offset, heap_end not included
          lfree,   \* offset of the lowest free block
          used,    \* used_mem
          owned,   \* the blocks callers have, with the size they may use
          moving   \* the rt_realloc that is moving a block, if there is one

vars == <<heap, lfree, used, owned, moving>>

\* rt_system_heap_init
Init ==
    /\ heap = [p \in {0} |-> [used |-> FALSE, next |-> heap_end, prev |-> 0]]
    /\ lfree = 0
    /\ used = 0
    /\ owned = [p \in {} |-> 0]
    /\ moving = None

-----------------------------------------------------------------------------
(* Operations on the chain: h is a chain of headers, m a chain and lfree *)

\* User data of block p.
Data(h, p) == h[p].next - (p + SIZEOF_STRUCT_MEM)

\* A slip: the block behind points back to the block that was cut.
split_one_way(h, p, size) ==
    LET rest == p + SIZEOF_STRUCT_MEM + size
    IN  [q \in DOMAIN h \cup {rest} |->
            IF q = rest THEN [used |-> FALSE, next |-> h[p].next, prev |-> p]
            ELSE IF q = p THEN [h[p] EXCEPT !.next = rest]
            ELSE h[q]]

\* Block p ends after size bytes and the rest is a free block.
Split(h, p, size) ==
    LET rest == p + SIZEOF_STRUCT_MEM + size
        cut == [q \in DOMAIN h \cup {rest} |->
                   IF q = rest THEN [used |-> FALSE, next |-> h[p].next, prev |-> p]
                   ELSE IF q = p THEN [h[p] EXCEPT !.next = rest]
                   ELSE h[q]]
    IN  IF h[p].next # heap_end THEN [cut EXCEPT ![h[p].next].prev = rest] ELSE cut

\* Block q, the next of p, becomes part of p, and lfree goes along.  Nothing
\* reads the prev of heap_end.
Merge(m, p, q) ==
    LET h == [m.heap EXCEPT ![p].next = m.heap[q].next]
        linked == IF h[q].next # heap_end THEN [h EXCEPT ![h[q].next].prev = p] ELSE h
    IN  [heap |-> [r \in DOMAIN h \ {q} |-> linked[r]],
         lfree |-> IF m.lfree = q THEN p ELSE m.lfree]

PlugForward(m, p) ==
    LET n == m.heap[p].next
    IN  IF n # heap_end /\ ~m.heap[n].used THEN Merge(m, p, n) ELSE m

plug_holes(m, p) ==
    LET f == PlugForward(m, p)
        b == f.heap[p].prev
    IN  IF b # p /\ ~f.heap[b].used THEN Merge(f, b, p) ELSE f

\* The blocks rt_malloc's loop from lfree on would take for size bytes.
Fitting(size) ==
    {p \in DOMAIN heap : /\ lfree <= p /\ p < MemSize - size
                         /\ ~heap[p].used /\ Data(heap, p) >= size}

LowestFree(h, p) == Min({q \in DOMAIN h : q >= p /\ ~h[q].used} \cup {heap_end})

Allocated(h, p, size) ==
    IF Data(h, p) >= size + SIZEOF_STRUCT_MEM + MIN_SIZE_ALIGNED
      THEN [Split(h, p, size) EXCEPT ![p].used = TRUE]
      ELSE [h EXCEPT ![p].used = TRUE]

\* A slip: the size is rounded down.
round_down(size) == (size \div RT_ALIGN_SIZE) * RT_ALIGN_SIZE

\* What rt_malloc allocates for a request.
Rounded(size) == IF Align(size) < MIN_SIZE_ALIGNED THEN MIN_SIZE_ALIGNED ELSE Align(size)

\* rt_malloc finds block p for size bytes; the caller may use "use" of them.
Take(p, size, use) ==
    LET h == Allocated(heap, p, size)
    IN  /\ heap' = h
        /\ lfree' = IF p = lfree THEN LowestFree(h, p) ELSE lfree
        /\ used' = used + (h[p].next - p)
        /\ owned' = [q \in DOMAIN owned \cup {p} |-> IF q = p THEN use ELSE owned[q]]

\* rt_free of block p.
Give(p) ==
    LET m == plug_holes([heap |-> [heap EXCEPT ![p].used = FALSE],
                         lfree |-> IF p < lfree THEN p ELSE lfree], p)
    IN  /\ heap' = m.heap
        /\ lfree' = m.lfree
        /\ used' = used - (heap[p].next - p)
        /\ owned' = [q \in DOMAIN owned \ {p} |-> owned[q]]

-----------------------------------------------------------------------------
(* The functions.  A call that returns RT_NULL changes nothing. *)

\* Blocks that are not in the hands of the rt_realloc in progress.
Callers == DOMAIN owned \ (IF moving = None THEN {} ELSE {moving.old, moving.new})

rt_malloc(n) ==
    /\ Align(n) <= MemSize
    /\ Fitting(Rounded(n)) # {}
    /\ Take(Min(Fitting(Rounded(n))), Rounded(n), n)
    /\ UNCHANGED moving

rt_free(p) ==
    /\ p \in Callers
    /\ Give(p)
    /\ UNCHANGED moving

\* rt_realloc to a size that leaves room for another block.
shrink(p, n) ==
    /\ p \in Callers
    /\ Align(n) + SIZEOF_STRUCT_MEM + MIN_SIZE < Data(heap, p)
    /\ LET m == plug_holes([heap |-> Split(heap, p, Align(n)), lfree |-> lfree],
                           p + SIZEOF_STRUCT_MEM + Align(n))
       IN  heap' = m.heap /\ lfree' = m.lfree
    /\ used' = used - (Data(heap, p) - Align(n))
    /\ owned' = [owned EXCEPT ![p] = n]
    /\ UNCHANGED moving

\* rt_realloc to the size the block has.
keep(p, n) ==
    /\ p \in Callers
    /\ Align(n) = Data(heap, p)
    /\ owned' = [owned EXCEPT ![p] = n]
    /\ UNCHANGED <<heap, lfree, used, moving>>

\* rt_realloc to any other size: heap_sem is released and rt_malloc called.
move(p, n) ==
    /\ p \in Callers /\ moving = None
    /\ Align(n) <= MemSize
    /\ Align(n) # Data(heap, p)
    /\ Align(n) + SIZEOF_STRUCT_MEM + MIN_SIZE >= Data(heap, p)
    /\ moving' = [old |-> p, new |-> None, size |-> n]
    /\ UNCHANGED <<heap, lfree, used, owned>>

move_malloc ==
    /\ moving # None /\ moving.new = None
    /\ IF moving.size = 0 \/ Fitting(Rounded(moving.size)) = {}
         THEN moving' = None /\ UNCHANGED <<heap, lfree, used, owned>>
         ELSE LET size == Rounded(moving.size)
                  p == Min(Fitting(size))
              IN  /\ Take(p, size, moving.size)
                  /\ moving' = [moving EXCEPT !.new = p]

move_free ==
    /\ moving # None /\ moving.new # None
    /\ Give(moving.old)
    /\ moving' = None

rt_realloc(p, n) == Align(n) <= MemSize /\ (shrink(p, n) \/ keep(p, n) \/ move(p, n))

Next ==
    \/ \E n \in Request : rt_malloc(n)
    \/ \E p \in DOMAIN owned : rt_free(p)
    \/ \E p \in DOMAIN owned, n \in Resize : rt_realloc(p, n)
    \/ move_malloc
    \/ move_free

Spec == Init /\ [][Next]_vars

-----------------------------------------------------------------------------
(* Properties *)

\* The headers cut the heap without gap or overlap: every block starts aligned
\* and ends at the next header, which points back to it, and the last one at
\* heap_end.  plug_holes leaves no two free blocks beside each other, and
\* used_mem is what the used blocks and their headers take.
BlocksTileHeap ==
    /\ 0 \in DOMAIN heap /\ heap[0].prev = 0
    /\ \A p \in DOMAIN heap :
           /\ heap[p].next >= p + SIZEOF_STRUCT_MEM /\ p % RT_ALIGN_SIZE = 0
           /\ heap[p].next = Min({q \in DOMAIN heap : q > p} \cup {heap_end})
           /\ heap[p].next # heap_end => /\ heap[heap[p].next].prev = p
                                         /\ heap[p].used \/ heap[heap[p].next].used
    /\ used = MapThenSumSet(LAMBDA p : heap[p].next - p, {p \in DOMAIN heap : heap[p].used})

\* Callers' blocks are used, long enough for what was asked, and so, with
\* BlocksTileHeap, no two of them share a byte; no used block has no owner.
OwnersDisjoint ==
    /\ {p \in DOMAIN heap : heap[p].used} = DOMAIN owned
    /\ \A p \in DOMAIN owned :
           /\ owned[p] <= Data(heap, p)
           /\ \A q \in DOMAIN owned : p < q => p + SIZEOF_STRUCT_MEM + owned[p] <= q

\* lfree is the lowest free block, from which rt_malloc searches.
LfreeIsLowest == \A p \in DOMAIN heap : p < lfree => heap[p].used

\* Every block has room for MIN_SIZE_ALIGNED bytes.
BlocksHoldMinimum == \A p \in DOMAIN heap : Data(heap, p) >= MIN_SIZE_ALIGNED

\* rt_malloc finds a block whenever a free block is large enough.
FindsAFit ==
    \A n \in Request :
        (\E p \in DOMAIN heap : ~heap[p].used /\ Data(heap, p) >= Rounded(n))
            => Fitting(Rounded(n)) # {}

=============================================================================
