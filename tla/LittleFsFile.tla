---------------------------- MODULE LittleFsFile ----------------------------
(***************************************************************************)
(* The contents of a file in littlefs (lfs.c): the backward skip list of   *)
(* its blocks, the caches between the file and the flash, and the calls    *)
(* that read, write, seek, truncate and synchronise it.  length is what    *)
(* the descriptor of dfs takes for its size.                               *)
(*                                                                         *)
(* A cell is as wide as a block pointer (4 bytes), and offsets count       *)
(* cells.  A data cell is 0 or the stamp of the write that put it there, a *)
(* pointer is a block number: to the code both are words.  The directory   *)
(* that holds the file's entry is LittleFs; here a commit is one step.     *)
(***************************************************************************)
EXTENDS Integers, Sequences, FiniteSets, FiniteSetsExt, SequencesExt

CONSTANTS NBlocks,    \* cfg->block_count; blocks 0 and 1 are the directory
          BlockSize,  \* cfg->block_size
          CacheSize,  \* cfg->cache_size, read_size and prog_size (all 256)
          InlineMax,  \* up to this size a file lives in its directory entry
          FileMax,    \* lfs->file_max
          Lengths, Positions, Sizes,   \* of writes and reads, seeks, truncations
          Worn,       \* blocks of which one may not hold what is programmed
          MaxCalls,
          Duties      \* what the environment sees to, see below

(***************************************************************************)
(* Duties.  "inner": no truncation ends at the end of a block.  "room":    *)
(* the directory has room for the entry of an inline file.  "scanned": the *)
(* allocator need not scan when a block that is being written goes bad.    *)
(***************************************************************************)
VARIABLES lfs,        \* the flash, and struct lfs with its one open file
          text,       \* what the file should contain for its user
          saved,      \* what it should contain after a power loss
          last        \* the last call: how it ended, what a read got and should get

vars == <<lfs, text, saved, last>>

PtrSize == 1
LFS_BLOCK_NULL == -1
LFS_BLOCK_INLINE == -2
Directory == -3                       \* a block of the directory, in a cache
Erased == -1                          \* a cell of an erased block
Clash == -2                           \* a cell programmed twice

Down(o) == (o \div CacheSize) * CacheSize   \* lfs_aligndown
Up(o) == Down(o + CacheSize - 1)            \* lfs_alignup
Least(a, b) == Min({a, b})

Fail(s, e) == [s EXCEPT !.err = e]
Ok(s) == s.err = "ok"

\* What follows a call: in any case, and if it did not fail.
With(s, F(_)) == F(s)
Then(s, F(_)) == IF Ok(s) THEN F(s) ELSE s

-----------------------------------------------------------------------------
(* Caching block device operations.  The caches: of the open file, the     *)
(* two of lfs, and "orig", the copy of rcache that lfs_file_flush makes,   *)
(* which shares its buffer.                                                *)

Cache == {"file", "rcache", "pcache", "orig"}
Buffer(c) == IF c = "orig" THEN "rcache" ELSE c

lfs_cache_drop(s, c) == [s EXCEPT !.cache[c].block = LFS_BLOCK_NULL]

lfs_cache_zero(s, c) ==
  [lfs_cache_drop(s, c) EXCEPT !.buffer[Buffer(c)] = [i \in 0 .. CacheSize - 1 |-> Erased]]

Holds(s, c, block, o) ==
  /\ c # "NULL"
  /\ s.cache[c].block = block
  /\ o \in s.cache[c].off .. s.cache[c].off + s.cache[c].size - 1

Got(s, c, o) == [s EXCEPT !.out = Append(@, s.buffer[Buffer(c)][o - s.cache[c].off])]

Load(s, c, block, o, hint) ==
  LET off == Down(o)
      size == Least(Least(Up(o + hint), BlockSize) - off, CacheSize)
  IN [s EXCEPT !.cache[c] = [block |-> block, off |-> off, size |-> size],
               !.buffer[Buffer(c)] =
                 [i \in 0 .. CacheSize - 1 |->
                    IF i < size THEN s.disk[block][off + i] ELSE @[i]]]

ReadCell(s, p, r, hint, block, o) ==
  IF ~Ok(s) THEN s
  ELSE IF Holds(s, p, block, o) THEN Got(s, p, o)
  ELSE IF Holds(s, r, block, o) THEN Got(s, r, o)
  ELSE IF block \notin 0 .. NBlocks - 1 THEN Fail(s, "assert")
  ELSE Got(Load(s, r, block, o, hint), r, o)

Offsets(off, n) == [i \in 1 .. n |-> off + i - 1]

\* What is read is left in out.
lfs_bd_read(s, p, r, hint, block, off, n) ==
  IF off + n > BlockSize THEN Fail(s, "corrupt")
  ELSE FoldLeft(LAMBDA x, o : ReadCell(x, p, r, hint, block, o),
                [s EXCEPT !.out = <<>>], Offsets(off, n))

\* The same for an inline file, whose contents are in its entry and in its cache.
lfs_dir_getread(s, hint, off, n) ==
  LET loaded == [s EXCEPT !.cache["file"] =
                     [block |-> LFS_BLOCK_INLINE, off |-> Down(off),
                      size |-> Least(Up(off + hint), CacheSize)],
                   !.buffer["file"] =
                     [i \in 0 .. CacheSize - 1 |->
                        IF Down(off) + i < Len(s.entry.data)
                        THEN s.entry.data[Down(off) + i + 1] ELSE @[i]]]
      from == IF Holds(s, "file", LFS_BLOCK_INLINE, off) THEN s ELSE loaded
  IN IF off + n > BlockSize THEN Fail(s, "corrupt")
     ELSE [from EXCEPT !.out = [i \in 1 .. n |-> from.buffer["file"][off + i - 1
                                                    - from.cache["file"].off]]]

\* The flash: a cell can be programmed once after an erase, and 0xff changes nothing.
Programmed(s, block, old, new) ==
  IF block \in s.worn \/ new = Erased THEN old
  ELSE IF old = Erased THEN new ELSE Clash

lfs_bd_flush(s, p, r) ==
  LET c == s.cache[p]
      diff == Up(c.size)
      data == s.buffer[Buffer(p)]
      written == [s EXCEPT !.disk[c.block] =
                    [o \in DOMAIN @ |->
                       IF o \in c.off .. c.off + diff - 1
                       THEN Programmed(s, c.block, @[o], data[o - c.off]) ELSE @[o]]]
  IN IF c.block \in {LFS_BLOCK_NULL, LFS_BLOCK_INLINE} THEN s
     ELSE With(lfs_bd_read(lfs_cache_drop(written, r), "NULL", r, diff, c.block, c.off, diff),
               LAMBDA back : IF back.out = [i \in 1 .. diff |-> data[i - 1]]
                             THEN lfs_cache_zero(back, p) ELSE Fail(back, "corrupt"))

ProgCell(s, p, r, block, o, v) ==
  LET c == s.cache[p]
      fits == c.block = block /\ o \in c.off .. c.off + CacheSize - 1
      at == IF fits THEN c ELSE [block |-> block, off |-> Down(o), size |-> 0]
      put == [s EXCEPT !.cache[p] = [at EXCEPT !.size = Max({@, o + 1 - at.off})],
                       !.buffer[Buffer(p)][o - at.off] = v]
  IN IF ~Ok(s) THEN s
     ELSE IF ~fits /\ c.block # LFS_BLOCK_NULL THEN Fail(s, "assert")
     ELSE IF put.cache[p].size = CacheSize THEN lfs_bd_flush(put, p, r) ELSE put

lfs_bd_prog(s, p, r, block, off, data) ==
  FoldLeft(LAMBDA x, i : ProgCell(x, p, r, block, off + i - 1, data[i]), s,
           Offsets(1, Len(data)))

lfs_bd_erase(s, block) == [s EXCEPT !.disk[block] = [o \in DOMAIN @ |-> Erased]]

-----------------------------------------------------------------------------
(* The skip list: block i of a file, i > 0, begins with ctz(i) + 1         *)
(* pointers, the j-th to block i - 2^j.                                    *)

lfs_npw2(a) == CHOOSE k \in 0 .. a : 2^k >= a /\ \A j \in 0 .. k - 1 : 2^j < a
lfs_ctz(a) == Max({k \in 0 .. a : a % 2^k = 0})
lfs_popc(a) == Cardinality({k \in 0 .. a : (a \div 2^k) % 2 = 1})

\* Which block of a file an offset is in, and where in it.
lfs_ctz_index(size) ==
  LET b == BlockSize - 2 * PtrSize
      n == size \div b
      i == (size - PtrSize * (lfs_popc(n - 1) + 2)) \div b
  IN IF n = 0 THEN [index |-> 0, off |-> size]
     ELSE [index |-> i, off |-> size - b * i - PtrSize * lfs_popc(i)]

\* LFS_ASSERT(head >= 2 && head <= lfs->cfg->block_count)
Pointer(s, head) == IF Ok(s) /\ head \notin 2 .. NBlocks THEN Fail(s, "assert") ELSE s

RECURSIVE Skip(_, _, _, _, _)
Skip(s, r, head, current, target) ==
  LET skip == Least(lfs_npw2(current - target + 1) - 1, lfs_ctz(current))
      on(read) == Skip(Pointer(read, Head(read.out \o <<0>>)), r, Head(read.out \o <<0>>),
                       current - 2^skip, target)
  IN IF ~Ok(s) \/ current <= target THEN [s EXCEPT !.block = head]
     ELSE on(lfs_bd_read(s, "NULL", r, PtrSize, head, PtrSize * skip, PtrSize))

\* The block and the offset found are left in block and off.
lfs_ctz_find(s, r, head, size, pos) ==
  LET to == lfs_ctz_index(pos)
  IN IF size = 0 THEN [s EXCEPT !.block = LFS_BLOCK_NULL, !.off = 0]
     ELSE [Skip(s, r, head, lfs_ctz_index(size - 1).index, to.index) EXCEPT !.off = to.off]

RECURSIVE Chain(_, _, _, _)
Chain(s, p, head, index) ==
  LET count == 2 - (index % 2)
      seen == [s EXCEPT !.seen = @ \cup {head}]
      on(read) == Chain([read EXCEPT !.seen = @ \cup {read.out[i] : i \in 1 .. count - 1}], p,
                        read.out[count], index - count)
  IN IF ~Ok(s) \/ index = 0 THEN seen
     ELSE Then(lfs_bd_read(seen, p, "rcache", count * PtrSize, head, 0, count * PtrSize), on)

lfs_ctz_traverse(s, p, head, size) ==
  IF ~Ok(s) \/ size = 0 THEN s ELSE Chain(s, p, head, lfs_ctz_index(size - 1).index)

\* A slip: the blocks that an open file has written are not visited.
traverse_committed(s) ==
  LET dir == [s EXCEPT !.seen = {0, 1}, !.cache["rcache"].block = Directory]
  IN IF s.entry.inline THEN dir
     ELSE lfs_ctz_traverse(dir, "NULL", s.entry.head, s.entry.size)

\* The blocks in use are left in seen.  The directory is read through rcache.
lfs_fs_traverse(s) ==
  LET f == s.file
      dir == [s EXCEPT !.seen = {0, 1}, !.cache["rcache"].block = Directory]
      visit(x, if, p, head, size) == IF if THEN lfs_ctz_traverse(x, p, head, size) ELSE x
  IN visit(visit(visit(dir, ~s.entry.inline, "NULL", s.entry.head, s.entry.size),
                 f.open /\ f.dirty /\ ~f.inline, "file", f.head, f.size),
           f.open /\ f.writing /\ ~f.inline, "file", f.block, f.pos)

\* No block of the lookahead window is left.
Exhausted(f) == \A o \in f.i .. f.size - 1 : (f.off + o) % NBlocks \in f.used

\* The next block of the window that is free is left in block.
TakeNext(s) ==
  LET f == s.free
      blk(o) == (f.off + o) % NBlocks
      o == Min({x \in f.i .. f.size - 1 : blk(x) \notin f.used})
      next == Min({x \in o + 1 .. f.size : x = f.size \/ blk(x) \notin f.used})
  IN IF ~Ok(s) THEN s
     ELSE IF Exhausted(f) THEN [Fail(s, "nospc") EXCEPT !.free.i = f.size, !.free.ack = 0]
     ELSE [s EXCEPT !.block = blk(o), !.free.i = next, !.free.ack = @ - (next - f.i)]

\* The lookahead buffer has a bit for every block, so one scan shows them all.
lfs_alloc(s) ==
  LET f == s.free
      left == f.ack - (f.size - f.i)
      window(scan) == [scan EXCEPT !.free = [off |-> (f.off + f.size) % NBlocks, size |-> left,
                                             i |-> 0, ack |-> left, used |-> scan.seen]]
  IN IF ~Ok(s) THEN s
     ELSE TakeNext(IF Exhausted(f) /\ left > 0 THEN window(lfs_fs_traverse(s)) ELSE s)

lfs_alloc_ack(s) == [s EXCEPT !.free.ack = NBlocks]

-----------------------------------------------------------------------------
(* Growing a file.                                                         *)

CopyCell(read, p, nblock, o) ==
  IF ~Ok(read) THEN read ELSE lfs_bd_prog(read, p, "rcache", nblock, o, read.out)

\* The end of a block that is not full is copied to a new one.
CopyBlock(s, nblock, head, size) ==
  FoldLeft(LAMBDA x, i :
             CopyCell(IF Ok(x) THEN lfs_bd_read(x, "NULL", "rcache", size - i, head, i, 1)
                      ELSE x, "file", nblock, i),
           s, Offsets(0, size))

\* Behind a full block comes one that begins with its pointers.
PutPointer(s, nblock, i, skips) ==
  LET follow(read) == [Pointer(read, Head(read.out \o <<0>>)) EXCEPT
                         !.block = Head(read.out \o <<0>>)]
  IN Then(lfs_bd_prog(s, "file", "rcache", nblock, PtrSize * i, <<s.block>>),
          LAMBDA x : IF i = skips - 1 THEN Pointer(x, x.block)
                     ELSE follow(lfs_bd_read(x, "NULL", "rcache", PtrSize, x.block,
                                             PtrSize * i, PtrSize)))

Pointers(s, nblock, head, skips) ==
  FoldLeft(LAMBDA x, i : IF Ok(x) THEN PutPointer(x, nblock, i, skips) ELSE x,
           [s EXCEPT !.block = head], Offsets(0, skips))

RECURSIVE lfs_ctz_extend(_, _, _)
lfs_ctz_extend(s, head, size) ==
  LET end == lfs_ctz_index(size - 1)
      full == end.off + 1 = BlockSize
      skips == lfs_ctz(end.index + 1) + 1
  IN Then(lfs_alloc(s), LAMBDA alloc :
       IF size = 0 THEN [lfs_bd_erase(alloc, alloc.block) EXCEPT !.off = 0]
       ELSE With(IF full
                 THEN Pointers(lfs_bd_erase(alloc, alloc.block), alloc.block, head, skips)
                 ELSE CopyBlock(lfs_bd_erase(alloc, alloc.block), alloc.block, head, end.off + 1),
                 LAMBDA x :
            IF Ok(x)
            THEN [x EXCEPT !.block = alloc.block,
                           !.off = IF full THEN PtrSize * skips ELSE end.off + 1]
            ELSE IF x.err # "corrupt" THEN x
            ELSE lfs_ctz_extend(lfs_cache_drop(Fail(x, "ok"), "file"),
                                IF full THEN x.block ELSE head, end.off + 1)))

\* What the file has in its current block, or in its entry, goes to a new block.
RECURSIVE lfs_file_relocate(_)
lfs_file_relocate(s) ==
  LET f == s.file
  IN Then(lfs_alloc(s), LAMBDA alloc :
       With(FoldLeft(LAMBDA x, i :
                       CopyCell(IF ~Ok(x) THEN x
                                ELSE IF f.inline THEN lfs_dir_getread(x, f.off - i, i, 1)
                                ELSE lfs_bd_read(x, "file", "rcache", f.off - i, f.block, i, 1),
                                "pcache", alloc.block, i),
                     lfs_bd_erase(alloc, alloc.block), Offsets(0, f.off)),
            LAMBDA x :
              IF x.err = "corrupt"
              THEN lfs_file_relocate(lfs_cache_drop(Fail(x, "ok"), "pcache"))
              ELSE IF ~Ok(x) THEN x
              ELSE [lfs_cache_zero(x, "pcache") EXCEPT
                      !.cache["file"] = x.cache["pcache"],
                      !.buffer["file"] = x.buffer["pcache"],
                      !.file.block = alloc.block, !.file.writing = TRUE]))

lfs_file_outline(s) ==
  Then(lfs_file_relocate(lfs_alloc_ack([s EXCEPT !.file.off = s.file.pos])),
       LAMBDA r : [r EXCEPT !.file.inline = FALSE])

-----------------------------------------------------------------------------
(* Reading and writing.  A file is "file", the open one, or "orig", the    *)
(* view of what was there before that lfs_file_flush reads from.           *)

Erred(s) == IF Ok(s) THEN s ELSE [s EXCEPT !.file.erred = TRUE]

\* The block and the offset that a read continues at.
NextToRead(s, name) ==
  LET f == s[name]
  IN IF f.reading /\ f.off # BlockSize THEN [s EXCEPT !.block = f.block, !.off = f.off]
     ELSE IF f.inline THEN [s EXCEPT !.block = LFS_BLOCK_INLINE, !.off = f.pos]
     ELSE lfs_ctz_find(s, name, f.head, f.size, f.pos)

RECURSIVE ReadOn(_, _, _)
ReadOn(s, name, nsize) ==
  LET diff(x) == Least(nsize, BlockSize - x.off)
      after(x, n) == [x EXCEPT ![name].block = x.block, ![name].off = x.off + n,
                               ![name].pos = @ + n, ![name].reading = TRUE]
  IN IF nsize = 0 THEN [s EXCEPT !.out = <<>>]
     ELSE Then(NextToRead(s, name), LAMBDA x :
            Then(IF s[name].inline THEN lfs_dir_getread(x, BlockSize, x.off, diff(x))
                 ELSE lfs_bd_read(x, "NULL", name, BlockSize, x.block, x.off, diff(x)),
                 LAMBDA y : With(ReadOn(after(y, diff(x)), name, nsize - diff(x)),
                                 LAMBDA z : [z EXCEPT !.out = y.out \o @])))

ReadUpTo(s, name, size) ==
  LET f == s[name]
  IN IF ~Ok(s) THEN s
     ELSE IF f.pos >= f.size THEN [s EXCEPT !.out = <<>>]
     ELSE ReadOn(s, name, Least(size, f.size - f.pos))

\* The block that a write continues in: the one before, copied or followed by a new one.
NextBlock(s) ==
  LET f == s.file
  IN IF f.inline
     THEN [s EXCEPT !.file.block = LFS_BLOCK_INLINE, !.file.off = f.pos, !.file.writing = TRUE]
     ELSE Then(IF f.writing \/ f.pos = 0 THEN [s EXCEPT !.block = f.block]
               ELSE Then(lfs_ctz_find(s, "file", f.head, f.size, f.pos - 1),
                         LAMBDA x : lfs_cache_zero(x, "file")),
               LAMBDA x : Then(lfs_ctz_extend(lfs_alloc_ack(x), x.block, f.pos),
                               LAMBDA y : [y EXCEPT !.file.block = y.block, !.file.off = y.off,
                                                    !.file.writing = TRUE]))

\* lfs_bd_prog, in another block if this one does not take it.
RECURSIVE ProgOrMove(_, _)
ProgOrMove(s, data) ==
  With(lfs_bd_prog(s, "file", "rcache", s.file.block, s.file.off, data), LAMBDA prog :
    IF ~Ok(s) \/ prog.err # "corrupt" THEN prog
    ELSE Then(lfs_file_relocate([Fail(prog, "ok") EXCEPT !.late = @ \/ Exhausted(prog.free)]),
              LAMBDA x : ProgOrMove(x, data)))

RECURSIVE WriteOn(_, _)
WriteOn(s, data) ==
  LET diff(x) == Least(Len(data), BlockSize - x.file.off)
      after(x, n) == lfs_alloc_ack([x EXCEPT !.file.pos = @ + n, !.file.off = @ + n])
  IN IF data = <<>> THEN [s EXCEPT !.file.erred = FALSE]
     ELSE With(IF ~s.file.writing \/ s.file.off = BlockSize THEN NextBlock(s) ELSE s, LAMBDA x :
            IF ~Ok(x) THEN Erred(x)
            ELSE With(ProgOrMove(x, SubSeq(data, 1, diff(x))), LAMBDA y :
                   IF ~Ok(y) THEN Erred(y)
                   ELSE WriteOn(after(y, diff(x)), SubSeq(data, diff(x) + 1, Len(data)))))

\* lfs_file_write of a file that is not being read, at or before its end.
WriteHere(s, data) ==
  LET f == s.file
      big == Max({f.pos + Len(data), f.size}) > InlineMax
  IN IF f.pos + Len(data) > FileMax THEN Fail(s, "fbig")
     ELSE Then(IF f.inline /\ big THEN Erred(lfs_file_outline(s)) ELSE s,
               LAMBDA x : WriteOn(x, data))

\* LFS_O_APPEND
AtEnd(s) == [s EXCEPT !.file.pos = IF s.file.append THEN Max({@, s.file.size}) ELSE @]

ZeroFill(s) ==
  FoldLeft(LAMBDA x, i : IF Ok(x) THEN WriteHere(x, <<0>>) ELSE x,
           [s EXCEPT !.file.pos = s.file.size], Offsets(1, s.file.pos - s.file.size))

\* lfs_file_flush of a file that is being read.  It is not being written then:
\* lfs_file_write counts one that is both as a failed assertion.
StopReading(s) ==
  LET drop == IF s.file.reading /\ ~s.file.inline THEN lfs_cache_drop(s, "file") ELSE s
  IN [drop EXCEPT !.file.reading = FALSE]

lfs_file_write(s, data) ==
  IF s.file.reading /\ s.file.writing THEN Fail(s, "assert")
  ELSE With(AtEnd(StopReading(s)), LAMBDA x :
         IF x.file.pos + Len(data) > FileMax THEN Fail(x, "fbig")
         ELSE Then(IF ~x.file.writing /\ x.file.pos > x.file.size THEN ZeroFill(x) ELSE x,
                   LAMBDA y : WriteHere(y, data)))

\* What was behind the cells just written is copied behind them.
KeepRcache(s) ==
  IF s.cache["rcache"].block # LFS_BLOCK_NULL
  THEN lfs_cache_drop(lfs_cache_drop(s, "orig"), "rcache") ELSE s

CopyRest(s) ==
  FoldLeft(LAMBDA x, i : IF ~Ok(x) \/ x.file.pos >= x.file.size THEN x
                         ELSE Then(ReadUpTo(x, "orig", 1), LAMBDA read :
                                     KeepRcache(WriteHere(AtEnd(read), read.out))),
           s, Offsets(1, Max({s.file.size - s.file.pos, 0})))

RECURSIVE FlushOrMove(_)
FlushOrMove(s) ==
  With(lfs_bd_flush(s, "file", "rcache"), LAMBDA flush :
    IF ~Ok(s) \/ flush.err # "corrupt" THEN flush
    ELSE Then(lfs_file_relocate(Fail(flush, "ok")), FlushOrMove))

lfs_file_flush(s) ==
  LET f == s.file
      view(calm) == [calm EXCEPT !.cache["orig"] = calm.cache["rcache"],
                                 !.orig = [f EXCEPT !.inline = FALSE, !.reading = FALSE]]
      done(x) == [x EXCEPT !.file.head = x.file.block, !.file.size = x.file.pos,
                           !.file.writing = FALSE, !.file.dirty = TRUE, !.file.pos = f.pos]
  IN IF ~f.writing THEN StopReading(s)
     ELSE Then(IF f.inline THEN [StopReading(s) EXCEPT !.file.pos = Max({f.pos, f.size})]
               ELSE FlushOrMove(CopyRest(lfs_cache_drop(view(StopReading(s)), "rcache"))),
               done)

-----------------------------------------------------------------------------
(* The calls.                                                              *)

lfs_file_size(f) == IF f.writing THEN Max({f.pos, f.size}) ELSE f.size

lfs_file_read(s, size) ==
  ReadUpTo(IF s.file.writing THEN lfs_file_flush(s) ELSE s, "file", size)

lfs_file_seek(s, npos) ==
  Then(lfs_file_flush(s), LAMBDA flush : IF npos > FileMax THEN Fail(flush, "inval")
                                         ELSE [flush EXCEPT !.file.pos = npos])

Shrink(s, size) ==
  LET found(x) == [x EXCEPT !.file.block = x.block, !.file.off = x.off,
                            !.file.head = x.block, !.file.size = size,
                            !.file.dirty = TRUE, !.file.reading = TRUE]
  IN Then(lfs_file_flush(s),
          LAMBDA x : Then(lfs_ctz_find(x, "file", x.file.head, x.file.size, size), found))

Extend(s, size) ==
  FoldLeft(LAMBDA x, i : IF Ok(x) THEN lfs_file_write(x, <<0>>) ELSE x,
           IF s.file.pos = lfs_file_size(s.file) THEN s
           ELSE With(lfs_file_flush(s), LAMBDA x : [x EXCEPT !.file.pos = x.file.size]),
           Offsets(1, size - lfs_file_size(s.file)))

lfs_file_truncate(s, size) ==
  LET old == lfs_file_size(s.file)
  IN Then(IF size < old THEN Shrink(s, size) ELSE IF size > old THEN Extend(s, size) ELSE s,
          LAMBDA done : lfs_file_seek(done, s.file.pos))

\* lfs_dir_commit of the file's entry, through pcache and rcache.
Commit(s) ==
  LET f == s.file
      data == [i \in 1 .. f.size |-> s.buffer["file"][i - 1]]
  IN [lfs_cache_drop(lfs_cache_zero(s, "pcache"), "rcache") EXCEPT
        !.entry = [inline |-> f.inline, head |-> f.head, size |-> f.size,
                   data |-> IF f.inline THEN data ELSE <<>>],
        !.file.dirty = FALSE]

\* full: the directory has no room for the contents of an inline file.
RECURSIVE lfs_file_sync(_, _)
lfs_file_sync(s, full) ==
  With(lfs_file_flush(s), LAMBDA x :
    IF ~Ok(x) THEN Erred(x)
    ELSE IF ~x.file.dirty \/ x.file.erred THEN x
    ELSE IF ~(x.file.inline /\ full) THEN Commit(x)
    ELSE With(lfs_file_outline(x),
              LAMBDA y : IF Ok(y) THEN lfs_file_sync(y, full) ELSE Erred(y)))

\* lfs_file_opencfg of a file that is there.
lfs_file_open(s, trunc, append) ==
  LET e == IF trunc THEN [inline |-> TRUE, head |-> LFS_BLOCK_INLINE, size |-> 0, data |-> <<>>]
           ELSE s.entry
      clean == lfs_cache_zero(s, "file")
  IN [clean EXCEPT
        !.file = [open |-> TRUE, inline |-> e.inline, reading |-> FALSE, writing |-> FALSE,
                  dirty |-> trunc, erred |-> FALSE, append |-> append, pos |-> 0, off |-> 0,
                  block |-> LFS_BLOCK_NULL, size |-> e.size,
                  head |-> IF e.inline THEN LFS_BLOCK_INLINE ELSE e.head],
        !.cache["file"] = IF e.inline
                          THEN [block |-> LFS_BLOCK_INLINE, off |-> 0, size |-> CacheSize]
                          ELSE @,
        !.buffer["file"] = [i \in 0 .. CacheSize - 1 |->
                              IF i < Len(e.data) THEN e.data[i + 1] ELSE Erased]]

Closed == [open |-> FALSE, inline |-> TRUE, reading |-> FALSE, writing |-> FALSE,
           dirty |-> FALSE, erred |-> FALSE, append |-> FALSE, pos |-> 0, off |-> 0,
           block |-> LFS_BLOCK_NULL, size |-> 0, head |-> LFS_BLOCK_NULL]

-----------------------------------------------------------------------------
(* The specification.                                                      *)

NoCache == [block |-> LFS_BLOCK_NULL, off |-> 0, size |-> 0]

\* lfs_mount: caches empty, the allocator begins anywhere.
Mounted(s, off) ==
  [s EXCEPT !.cache = [c \in Cache |-> NoCache],
            !.buffer = [c \in {"file", "rcache", "pcache"} |->
                          [i \in 0 .. CacheSize - 1 |-> Erased]],
            !.free = [off |-> off, size |-> 0, i |-> 0, ack |-> NBlocks, used |-> {}],
            !.file = Closed, !.orig = Closed,
            !.err = "ok", !.out = <<>>, !.block = LFS_BLOCK_NULL, !.off = 0, !.seen = {},
            !.late = FALSE, !.length = 0]

Blank == [disk |-> [b \in 2 .. NBlocks - 1 |-> [o \in 0 .. BlockSize - 1 |-> Erased]],
          entry |-> [inline |-> TRUE, head |-> LFS_BLOCK_INLINE, size |-> 0, data |-> <<>>],
          worn |-> {}, cache |-> 0, buffer |-> 0, free |-> 0, file |-> 0, orig |-> 0,
          err |-> "ok", out |-> <<>>, block |-> 0, off |-> 0, seen |-> {}, late |-> FALSE, length |-> 0]

Calls(c) == [call |-> c, n |-> last.n + 1, got |-> <<>>, want |-> <<>>]

Init == /\ \E w \in SUBSET Worn : /\ Cardinality(w) <= 1
                                  /\ lfs = Mounted([Blank EXCEPT !.worn = w], 0)
        /\ text = <<>> /\ saved = <<>>
        /\ last = [call |-> "mount", n |-> 0, got |-> <<>>, want |-> <<>>]

\* A scan of the allocator while a block that goes bad is being moved.
OnTime(s) == "scanned" \in Duties => ~s.late

\* The state between two calls: results that nobody looks at are forgotten.
Between(s) == [s EXCEPT !.out = <<>>, !.seen = {}, !.block = LFS_BLOCK_NULL, !.off = 0,
                        !.orig = Closed, !.cache["orig"] = NoCache]

Usable == lfs.file.open /\ Ok(lfs) /\ last.n < MaxCalls

open(trunc, append) ==
  /\ ~lfs.file.open /\ last.n < MaxCalls
  /\ lfs' = LET s == lfs_file_open(lfs, trunc, append) IN [s EXCEPT !.length = s.file.size]
  /\ text' = IF trunc THEN <<>> ELSE saved
  /\ last' = Calls("open") /\ UNCHANGED saved

\* the text with data at position p, zeros before it if p is behind the end
Zeros(n) == [i \in 1 .. n |-> 0]
Put(t, p, data) ==
  LET base == IF p > Len(t) THEN t \o Zeros(p - Len(t)) ELSE t
  IN SubSeq(base, 1, p) \o data \o SubSeq(base, p + Len(data) + 1, Len(base))

write(n) ==
  LET data == [i \in 1 .. n |-> 100 + last.n]
      f == lfs.file
      at == IF f.append /\ f.pos < lfs_file_size(f) THEN Len(text) ELSE f.pos
  IN /\ Usable
     /\ \E s \in {lfs_file_write(lfs, data)} :
          /\ OnTime(s)
          /\ lfs' = [Between(IF s.err = "fbig" THEN Fail(s, "ok") ELSE s) EXCEPT
                       !.length = IF Ok(s) THEN s.file.size ELSE @]
          /\ text' = IF Ok(s) THEN Put(text, at, data) ELSE text
     /\ last' = Calls("write") /\ UNCHANGED saved

read(n) ==
  LET p == lfs.file.pos
  IN /\ Usable
     /\ \E s \in {lfs_file_read(lfs, n)} :
          /\ OnTime(s)
          /\ lfs' = Between(s)
          /\ last' = [Calls("read") EXCEPT
                        !.got = IF Ok(s) THEN s.out ELSE <<>>,
                        !.want = IF Ok(s) THEN SubSeq(text, p + 1, Least(p + n, Len(text)))
                                 ELSE <<>>]
     /\ UNCHANGED <<text, saved>>

SeekTo(p, call) ==
  /\ Usable /\ p # lfs.file.pos
  /\ \E s \in {lfs_file_seek(lfs, p)} : OnTime(s) /\ lfs' = Between(s)
  /\ last' = Calls(call) /\ UNCHANGED <<text, saved>>

seek(p) == SeekTo(p, "seek")

\* lseek with SEEK_END: dfs has a size of its own.
seek_end == SeekTo(lfs.length, "seek_end")

\* the end of a full block
Boundary(size) == size > 0 /\ lfs_ctz_index(size - 1).off = BlockSize - 1

truncate(size) ==
  /\ Usable
  /\ "inner" \in Duties => ~Boundary(size)
  /\ \E s \in {lfs_file_truncate(lfs, size)} :
       /\ OnTime(s)
       /\ lfs' = Between(s)
       /\ text' = IF ~Ok(s) THEN text
                  ELSE IF size <= Len(text) THEN SubSeq(text, 1, size)
                  ELSE text \o Zeros(size - Len(text))
  /\ last' = Calls("truncate") /\ UNCHANGED saved

sync(full) ==
  /\ Usable
  /\ "room" \in Duties => ~full
  /\ \E s \in {lfs_file_sync(lfs, full)} :
       /\ OnTime(s)
       /\ lfs' = Between(s)
       /\ saved' = IF Ok(s) THEN text ELSE saved
  /\ last' = Calls("sync") /\ UNCHANGED text

\* After an error the file can only be closed.
close(full) ==
  /\ lfs.file.open
  /\ "room" \in Duties => ~full
  /\ \E s \in {lfs_file_sync(Fail(lfs, "ok"), full)} :
       /\ OnTime(s)
       /\ lfs' = [Between(s) EXCEPT !.file = Closed, !.length = 0,
                                    !.err = IF @ = "assert" THEN @ ELSE "ok"]
       /\ saved' = IF Ok(s) /\ ~s.file.erred THEN text ELSE saved
  /\ last' = Calls("close") /\ UNCHANGED text

power_loss(off) == /\ lfs' = Mounted(lfs, off)
                   /\ last' = [Calls("mount") EXCEPT !.n = last.n]
                   /\ text' = saved /\ UNCHANGED saved

Next == \/ \E trunc, append \in BOOLEAN : open(trunc, append)
        \/ \E n \in Lengths : write(n) \/ read(n)
        \/ \E p \in Positions : seek(p)
        \/ seek_end
        \/ \E n \in Sizes : truncate(n)
        \/ \E full \in BOOLEAN : sync(full) \/ close(full)
        \/ \E off \in {0, NBlocks \div 2} : power_loss(off)

Spec == Init /\ [][Next]_vars

-----------------------------------------------------------------------------
(* Properties.                                                             *)

\* The contents of the skip list with this head and index, block by block: the
\* data of a block follow its pointers, and the first pointer is to the block before.
RECURSIVE Blocks(_, _, _)
Blocks(disk, head, index) ==
  LET from == IF index = 0 THEN 0 ELSE lfs_ctz(index) + 1
      data == [i \in 1 .. BlockSize - from |-> disk[head][from + i - 1]]
  IN IF head \notin DOMAIN disk THEN <<>>
     ELSE IF index = 0 THEN data ELSE Blocks(disk, disk[head][0], index - 1) \o data

\* How many cells the blocks 0 to index hold.
RECURSIVE Capacity(_)
Capacity(index) == IF index = 0 THEN BlockSize
                   ELSE Capacity(index - 1) + BlockSize - (lfs_ctz(index) + 1)

Content(disk, e) ==
  LET index == Min({i \in 0 .. e.size : Capacity(i) >= e.size})
  IN IF e.inline THEN e.data
     ELSE IF e.size = 0 THEN <<>>
     ELSE SubSeq(Blocks(disk, e.head, index), 1, e.size)

TypeOK == /\ lfs.err \in {"ok", "nospc", "corrupt", "assert"}
          /\ saved \in Seq(0 .. 100 + MaxCalls) /\ text \in Seq(0 .. 100 + MaxCalls)
          /\ DOMAIN lfs.disk = 2 .. NBlocks - 1

\* A read gets what was written, the size is that of what was written, no
\* assertion of lfs.c fails, and what the entry of the file leads to is what the
\* file contained when it was last synchronised, whatever blocks have been copied,
\* found to be worn or given back since.
KeepsContents ==
  /\ last.got = last.want
  /\ lfs.err # "assert"
  /\ Usable => lfs_file_size(lfs.file) = Len(text)
  /\ Content(lfs.disk, lfs.entry) = saved

\* lseek to the end of a file goes behind the last thing written ("a POSIX compliant
\* version", dfs_posix.c).
SeekFindsEnd == last.call = "seek_end" => lfs.file.pos = Len(text)
=============================================================================
