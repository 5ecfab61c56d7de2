---------------------------- MODULE LittleFsDisk ----------------------------
(***************************************************************************)
(* The on-disk structure of littlefs (lfs.c) and the functions that read   *)
(* it: metadata pairs, the list that threads them, entries sorted by name, *)
(* the global state spread over the pairs, and the block allocator.        *)
(*                                                                         *)
(* A commit is a unit: its checksum makes an interrupted one invisible, so *)
(* a block is what its valid commits add up to.  A pair of blocks is a     *)
(* set; the null pair is {}.                                               *)
(***************************************************************************)
EXTENDS Integers, Sequences, FiniteSets, FiniteSetsExt, SequencesExt

CONSTANTS NBlocks,    \* cfg->block_count
          Lookahead,  \* bits of the lookahead buffer
          RevBits     \* width of a revision count (32 in the code)

Block == 0 .. NBlocks - 1
Super == {0, 1}
NoBlock == -1

(***************************************************************************)
(* A block: rev, whether it holds a valid commit, how many commits (n),    *)
(* whether the rest of it is still erased (clean), and what the commits    *)
(* add up to: the entries in order of id, the tail, whether the tail       *)
(* continues the same directory (split), and the pair's share of the       *)
(* global state (delta).  data: what a file finds in the block.             *)
(***************************************************************************)
Erased == [valid |-> FALSE, rev |-> 2^RevBits - 1, n |-> 0, clean |-> FALSE,
           ents |-> <<>>, tail |-> {}, split |-> FALSE, delta |-> {},
           data |-> "other"]

\* lfs_scmp(a, b) > 0
Newer(a, b) == (a - b) % 2^RevBits \in 1 .. 2^(RevBits - 1) - 1

(***************************************************************************)
(* lfs_dir_fetch: the block with the newer revision, or the other one when *)
(* it holds no valid commit.                                               *)
(***************************************************************************)
Current(d, p) ==
  LET good == {b \in p : d[b].valid}
      best == {b \in good : \A c \in good \ {b} : Newer(d[b].rev, d[c].rev)}
  IN CHOOSE b \in best \cup {NoBlock} : b # NoBlock \/ best = {}

Mdir(p, b, x) ==
  [pair |-> p, cur |-> b, rev |-> x.rev, ents |-> x.ents, n |-> x.n,
   erased |-> x.clean, tail |-> x.tail, split |-> x.split, delta |-> x.delta]

FetchAt(d, p, b) == Mdir(p, b, d[b])

lfs_dir_fetch(d, p) == FetchAt(d, p, Current(d, p))

\* the block of the pair that the next compaction writes: pair[1]
Other(p, b) == CHOOSE c \in p : c # b

(***************************************************************************)
(* The pairs reached from {0, 1} through the tails, in order.              *)
(***************************************************************************)
RECURSIVE ThreadFrom(_, _, _)
ThreadFrom(d, p, seen) ==
  IF p = {} \/ p \in seen \/ Current(d, p) = NoBlock THEN <<>>
  ELSE <<p>> \o ThreadFrom(d, d[Current(d, p)].tail, seen \cup {p})

Thread(d) == ThreadFrom(d, Super, {})

\* the last pair of the directory that m belongs to
RECURSIVE LastPair(_, _)
LastPair(d, m) == IF m.split THEN LastPair(d, lfs_dir_fetch(d, m.tail)) ELSE m

(***************************************************************************)
(* Global state: the exclusive-or of the deltas of all pairs, here a set   *)
(* of terms: Orphan, and <<pair, id>> for an entry that is being moved.    *)
(***************************************************************************)
Orphan == <<{}, 0>>
lfs_dir_getgstate(d, p, bits) == SymDiff(bits, d[Current(d, p)].delta)

gstate_on_disk(d) ==
  FoldLeft(LAMBDA bits, p : lfs_dir_getgstate(d, p, bits), {}, Thread(d))

lfs_gstate_hasorphans(g) == g.n > 0
Moves(g) == {x \in g.bits : x # Orphan}
lfs_gstate_hasmovehere(g, p) == \E x \in Moves(g) : x[1] \cap p # {}

(***************************************************************************)
(* lfs_dir_get of a struct tag: an id at or below the one being moved is   *)
(* looked up one further.                                                  *)
(***************************************************************************)
lfs_dir_get(m, g, id) ==
  LET shift == \E x \in Moves(g) : x[1] \cap m.pair # {} /\ id <= x[2]
      at == id + 1 + (IF shift THEN 1 ELSE 0)
  IN IF at \in DOMAIN m.ents THEN m.ents[at] ELSE [type |-> "none"]

(***************************************************************************)
(* lfs_dir_find of one name in the directory at p: where it is, or where   *)
(* it would be inserted.  The entry that is being moved is not found, and  *)
(* the ids behind it count one less (the end of lfs_dir_fetchmatch).       *)
(***************************************************************************)
RECURSIVE Slot(_, _, _)
SlotIn(d, m, at, name) ==
  IF at # {} THEN [hit |-> m.ents[Min(at)].name = name, m |-> m, id |-> Min(at) - 1]
  ELSE IF m.split THEN Slot(d, lfs_dir_fetch(d, m.tail), name)
  ELSE [hit |-> FALSE, m |-> m, id |-> Len(m.ents)]

Slot(d, m, name) ==
  SlotIn(d, m, {i \in DOMAIN m.ents : m.ents[i].type # "super" /\ m.ents[i].name >= name},
         name)

Moving(g, m, id) == <<m.pair, id>> \in g.bits

FoundAt(g, s) ==
  LET behind == \E x \in Moves(g) : x[1] \cap s.m.pair # {} /\ x[2] < s.id
                                      /\ s.id < Len(s.m.ents)
  IN [found |-> s.hit /\ ~Moving(g, s.m, s.id), m |-> s.m,
      id |-> IF behind THEN s.id - 1 ELSE s.id]

lfs_dir_find(d, g, p, name) == FoundAt(g, Slot(d, lfs_dir_fetch(d, p), name))

(***************************************************************************)
(* lfs_fs_pred, lfs_fs_parent: who points to the pair, as its tail and as  *)
(* its directory.                                                          *)
(***************************************************************************)
lfs_fs_pred(d, p) == SelectSeq(Thread(d), LAMBDA q : lfs_dir_fetch(d, q).tail = p)

HasEntryFor(m, g, p) == \E i \in DOMAIN m.ents : /\ m.ents[i].type = "dir"
                                                 /\ m.ents[i].at = p
                                                 /\ ~Moving(g, m, i - 1)

lfs_fs_parent(d, g, p) ==
  SelectSeq(Thread(d), LAMBDA q : HasEntryFor(lfs_dir_fetch(d, q), g, p))

(***************************************************************************)
(* lfs_fs_traverse: the blocks in use.  An open file adds the blocks it    *)
(* has written and not yet committed.                                      *)
(***************************************************************************)
\* A slip: the blocks of files are not visited.
traverse_pairs_only(d, g, file) == UNION ToSet(Thread(d))

Structs(m, g) == {lfs_dir_get(m, g, id) : id \in 0 .. Len(m.ents) - 1}

BlocksOf(m, g) == m.pair \cup UNION {e.at : e \in {x \in Structs(m, g) : x.type = "reg"}}

lfs_fs_traverse(d, g, file) ==
  UNION {BlocksOf(lfs_dir_fetch(d, p), g) : p \in ToSet(Thread(d))}
    \cup (IF file.dirty THEN file.at ELSE {})
    \cup (IF file.writing THEN file.blk ELSE {})

(***************************************************************************)
(* lfs_alloc: the next block of the lookahead window that was free when    *)
(* the window was scanned.  ack counts down the blocks that may still be   *)
(* looked at before every block has been, since the last lfs_alloc_ack.    *)
(***************************************************************************)
RECURSIVE lfs_alloc(_, _, _, _)
lfs_alloc(d, g, file, f) ==
  LET blk(o) == (f.off + o) % NBlocks
      candidates == {o \in f.i .. f.size - 1 : blk(o) \notin f.used}
      o == Min(candidates)
      next == Min({x \in o + 1 .. f.size : x = f.size \/ blk(x) \notin f.used})
      left == f.ack - (f.size - f.i)
      size == Min({Lookahead, left})
      off == (f.off + f.size) % NBlocks
  IN IF candidates # {}
     THEN [ok |-> TRUE, block |-> blk(o),
           free |-> [f EXCEPT !.i = next, !.ack = @ - (next - f.i)]]
     ELSE IF left = 0
     THEN [ok |-> FALSE, free |-> [f EXCEPT !.i = f.size, !.ack = 0]]
     ELSE lfs_alloc(d, g, file,
                    [off |-> off, size |-> size, i |-> 0, ack |-> left,
                     used |-> lfs_fs_traverse(d, g, file)
                                \cap {(off + x) % NBlocks : x \in 0 .. size - 1}])

lfs_alloc_ack(f) == [f EXCEPT !.ack = NBlocks]
=============================================================================
