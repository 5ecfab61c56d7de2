------------------------------ MODULE LittleFs ------------------------------
(***************************************************************************)
(* The mutating calls of littlefs (lfs.c) as dfs_lfs.c configures it: no   *)
(* wear levelling (block_cycles = -1) and no bad blocks, one call at a     *)
(* time (lfs_dfs_lock), and a power loss at any moment.                    *)
(*                                                                         *)
(* A call is a stack of frames; a step runs the first one, and writes at   *)
(* most one block.  Frames that write are "commit" (lfs_dir_commit) and    *)
(* "compact" (lfs_dir_compact); the others only change memory.             *)
(***************************************************************************)
EXTENDS LittleFsDisk

CONSTANTS Name, Value, \* numbers name entries, so that they can be ordered
          PairCap,     \* entries a compacted block may hold
          LogCap,      \* commits a block may hold
          Starts,      \* where the allocator may start after a mount
          MaxCalls, MaxLoss    \* calls and power losses of a behaviour

(***************************************************************************)
(* disk: the blocks.  lfs: struct lfs, lost with the power.  todo: the     *)
(* frames of the call in progress.  op, ret: the call and how the last one *)
(* ended.  tree: what the disk holds; before: when the call began (both    *)
(* for the properties only).  calls, losses: the bounds.                   *)
(***************************************************************************)
VARIABLES disk, lfs, todo, op, ret, tree, before, calls, losses
vars == <<disk, lfs, todo, op, ret, tree, before, calls, losses>>

Tree == INSTANCE AtomicFs WITH done <- FALSE
Path == Tree!Path
Idle == Tree!Idle
NoId == 1023

Closed == [open |-> FALSE, pair |-> {}, id |-> NoId, dirty |-> FALSE,
           writing |-> FALSE, erred |-> FALSE, at |-> {}, blk |-> {},
           data |-> "none", path |-> <<>>]
NoState == [n |-> 0, bits |-> {}]
Off == [on |-> FALSE, gstate |-> NoState, gpending |-> NoState, gdelta |-> {},
        free |-> [off |-> 0, size |-> 0, i |-> 0, ack |-> 0, used |-> {}],
        file |-> Closed]

(***************************************************************************)
(* lfs_dir_find of a whole path (of at most two names).                    *)
(***************************************************************************)
NoParent == [found |-> FALSE, m |-> [pair |-> {}], id |-> NoId]

EntryOf(g, f) == lfs_dir_get(f.m, g, f.id)

LookupIn(d, g, f, e, name) ==
  IF f.found /\ e.type = "dir" THEN lfs_dir_find(d, g, e.at, name) ELSE NoParent

LookupBelow(d, g, f, name) == LookupIn(d, g, f, EntryOf(g, f), name)

Lookup(d, g, path) ==
  IF Len(path) = 1 THEN lfs_dir_find(d, g, Super, path[1])
  ELSE LookupBelow(d, g, lfs_dir_find(d, g, Super, path[1]), path[2])

(***************************************************************************)
(* The tree the disk holds: every entry but the one that is being moved.   *)
(***************************************************************************)
Node(d, e) == IF e.type = "dir" THEN "dir"
              ELSE IF e.at = {} THEN e.data
              ELSE d[CHOOSE b \in e.at : TRUE].data

Present(g, s) == IF s.hit /\ ~Moving(g, s.m, s.id) THEN {s.m.ents[s.id + 1]} ELSE {}

Entry(d, g, p, name) == Present(g, Slot(d, lfs_dir_fetch(d, p), name))

ViewAt(d, g) ==
  LET dirs(n) == {e \in Entry(d, g, Super, n) : e.type = "dir"}
      nodes(path) ==
        {Node(d, e) : e \in IF Len(path) = 1 THEN Entry(d, g, Super, path[1])
                            ELSE UNION {Entry(d, g, e.at, path[2]) : e \in dirs(path[1])}}
  IN [path \in Path |-> CHOOSE x \in nodes(path) \cup {"none"} :
                          x # "none" \/ nodes(path) = {}]

View(d) == ViewAt(d, [bits |-> gstate_on_disk(d)])

NoTree == [p \in Path |-> "none"]

(***************************************************************************)
(* lfs_format: the root directory with the superblock's entry, written to  *)
(* both blocks of its pair.                                                *)
(***************************************************************************)
SuperEntry == [name |-> 0, type |-> "super", at |-> {}, data |-> "none"]

lfs_format ==
  LET root(r) == [Erased EXCEPT !.valid = TRUE, !.rev = r, !.n = 1,
                                !.clean = TRUE, !.ents = <<SuperEntry>>]
  IN [b \in Block |-> IF b \in Super THEN root(b + 1) ELSE Erased]

Init == /\ disk = lfs_format /\ lfs = Off /\ todo = <<>> /\ op = Idle
        /\ ret = "none" /\ tree = NoTree /\ before = NoTree
        /\ calls = 0 /\ losses = 0

(***************************************************************************)
(* lfs_mount: the global state of all pairs together; the allocator starts *)
(* at a place that depends on the checksums read (seed).                   *)
(***************************************************************************)
lfs_mount ==
  /\ ~lfs.on
  /\ \E o \in Starts :
       LET bits == gstate_on_disk(disk)
           g == [n |-> IF Orphan \in bits THEN 1 ELSE 0, bits |-> bits]
       IN lfs' = [Off EXCEPT !.on = TRUE, !.gstate = g, !.gpending = g,
                             !.free.off = o, !.free.ack = NBlocks]
  /\ UNCHANGED <<disk, todo, op, ret, before, calls, losses>>

(***************************************************************************)
(* Pending changes of the global state: lfs_fs_preporphans,                *)
(* lfs_fs_prepmove; and what a successful commit does with them.           *)
(***************************************************************************)
\* A slip: the change is not recorded for the disk.
preporphans_in_memory(l, orphans) ==
  LET n == l.gpending.n + orphans
  IN [l EXCEPT !.gpending = [n |-> n, bits |-> Moves(@) \cup
                                (IF n > 0 THEN {Orphan} ELSE {})]]

lfs_fs_preporphans(l, orphans) ==
  LET n == l.gpending.n + orphans
      flip == IF (n > 0) # (Orphan \in l.gpending.bits) THEN {Orphan} ELSE {}
  IN [l EXCEPT !.gdelta = SymDiff(@, flip),
               !.gpending = [n |-> n, bits |-> SymDiff(@.bits, flip)]]

\* A slip: the move is not recorded for the disk.
prepmove_in_memory(l, id, pair) ==
  [l EXCEPT !.gpending.bits = (@ \ Moves(l.gpending)) \cup {<<pair, id>>}]

lfs_fs_prepmove(l, id, pair) ==
  LET change == SymDiff(Moves(l.gpending), {<<pair, id>>})
  IN [l EXCEPT !.gdelta = SymDiff(@, change),
               !.gpending.bits = SymDiff(@, change)]

(***************************************************************************)
(* lfs_dir_drop: the pair that takes over the tail also takes over the     *)
(* dropped pair's share of the global state.                               *)
(***************************************************************************)

StealState(l, dir) == [l EXCEPT !.gdelta = SymDiff(@, dir.delta)]

Committed(l, pair) ==
  LET g == IF lfs_gstate_hasmovehere(l.gpending, pair)
           THEN [l.gpending EXCEPT !.bits = @ \ Moves(l.gpending)]
           ELSE l.gpending
  IN [l EXCEPT !.gpending = g, !.gstate = g, !.gdelta = {}]

(***************************************************************************)
(* Frames.                                                                 *)
(***************************************************************************)
Commit(m, attrs) == [f |-> "commit", m |-> m, attrs |-> attrs]
Prep(n) == [f |-> "prep", n |-> n]
PredDrop(p) == [f |-> "preddrop", pair |-> p]
Frame(name) == [f |-> name]

Create(id, e) == [t |-> "create", id |-> id, e |-> e]
Delete(id) == [t |-> "delete", id |-> id]
Struct(id, at, data) == [t |-> "struct", id |-> id, at |-> at, data |-> data]
TailTo(p, split) == [t |-> "tail", to |-> p, split |-> split]

top == Head(todo)
Running(f) == lfs.on /\ todo # <<>> /\ top.f = f

(***************************************************************************)
(* A call ends, with an error when a step of it failed.                    *)
(***************************************************************************)
Moved(path, c) == IF Tree!AtOrBelow(c.path, path) THEN Tree!Under(c.to, path, c.path)
                  ELSE path

Return(r, d, l) ==
  /\ disk' = d /\ todo' = <<>> /\ op' = Idle /\ ret' = r
  /\ lfs' = IF op.call = "rename" /\ r = "ok"
            THEN [l EXCEPT !.file.path = Moved(@, op)]
            ELSE IF op.call = "open" /\ r = "error" THEN [l EXCEPT !.file = Closed]
            ELSE IF op.call = "sync" /\ r = "error" THEN [l EXCEPT !.file.erred = TRUE]
            ELSE l
  /\ before' = NoTree /\ UNCHANGED <<calls, losses>>

Continue(d, l, frames) ==
  /\ disk' = d /\ lfs' = l /\ todo' = frames \o Tail(todo)
  /\ UNCHANGED <<op, ret, before, calls, losses>>

Done == lfs.on /\ op # Idle /\ todo = <<>> /\ Return("ok", disk, lfs)

(***************************************************************************)
(* lfs_dir_alloc: two blocks, pair[1] first; the directory exists in       *)
(* memory only, its revision the one found in pair[0], made even.          *)
(***************************************************************************)
lfs_dir_alloc(d, l) ==
  LET a == lfs_alloc(d, l.gstate, l.file, lfs_alloc_ack(l.free))
      b == lfs_alloc(d, l.gstate, l.file, a.free)
      rev == d[b.block].rev
  IN IF ~a.ok THEN [ok |-> FALSE, l |-> [l EXCEPT !.free = a.free]]
     ELSE IF ~b.ok THEN [ok |-> FALSE, l |-> [l EXCEPT !.free = b.free]]
     ELSE [ok |-> TRUE, l |-> [l EXCEPT !.free = b.free],
           m |-> [pair |-> {a.block, b.block}, cur |-> b.block,
                  rev |-> (rev + (rev % 2)) % 2^RevBits, ents |-> <<>>, n |-> 0,
                  erased |-> FALSE, tail |-> {}, split |-> FALSE, delta |-> {}]]

(***************************************************************************)
(* What a commit makes of the directory m: its entries after attrs and     *)
(* after the pending move, its tail, the ids created and deleted, and the  *)
(* global delta to be written with it.                                     *)
(***************************************************************************)
ApplyAttr(ents, a) ==
  CASE a.t = "create" -> InsertAt(ents, a.id + 1, a.e)
    [] a.t = "delete" -> RemoveAt(ents, a.id + 1)
    [] a.t = "struct" -> [ents EXCEPT ![a.id + 1].at = a.at, ![a.id + 1].data = a.data]
    [] OTHER -> ents

LastId(attrs, t) ==
  LET i == SelectLastInSeq(attrs, LAMBDA a : a.t = t)
  IN IF i = 0 THEN NoId ELSE attrs[i].id

Outcome(m, attrs, l) ==
  LET here == lfs_gstate_hasmovehere(l.gpending, m.pair)
      moved == (CHOOSE x \in Moves(l.gpending) : TRUE)[2]
      ents == FoldLeft(ApplyAttr, m.ents, attrs)
      t == SelectLastInSeq(attrs, LAMBDA a : a.t = "tail")
  IN [ents |-> IF here /\ moved < Len(ents) THEN RemoveAt(ents, moved + 1) ELSE ents,
      tail |-> IF t = 0 THEN m.tail ELSE attrs[t].to,
      split |-> IF t = 0 THEN m.split ELSE attrs[t].split,
      del |-> IF here THEN moved ELSE LastId(attrs, "delete"),
      cre |-> LastId(attrs, "create"),
      gdelta |-> IF here THEN SymDiff(l.gdelta, Moves(l.gpending)) ELSE l.gdelta]

(***************************************************************************)
(* The open file (lfs->mlist) follows a commit to its pair.                *)
(***************************************************************************)
RECURSIVE Follow(_, _, _)
Follow(d, file, at) ==
  LET m == lfs_dir_fetch(d, at) IN
  IF file.id >= Len(m.ents) /\ m.split
  THEN Follow(d, [file EXCEPT !.id = @ - Len(m.ents), !.pair = m.tail], m.tail)
  ELSE file

FileAfter(d, file, pair, del, cre, self) ==
  IF file.pair # pair THEN file
  ELSE Follow(d, IF file.id = del THEN [file EXCEPT !.pair = {}]
                 ELSE IF file.id > del THEN [file EXCEPT !.id = @ - 1]
                 ELSE IF ~self /\ file.id >= cre THEN [file EXCEPT !.id = @ + 1]
                 ELSE file, pair)

(***************************************************************************)
(* lfs_dir_commit, first half: a block left without entries is taken out   *)
(* of its directory instead (lfs_dir_drop).                                *)
(***************************************************************************)
Dropped(m, o) ==
  LET pred == lfs_fs_pred(disk, m.pair) IN
  o.del # NoId /\ o.ents = <<>> /\ pred # <<>> /\ lfs_dir_fetch(disk, pred[1]).split

Appends(m, o) == ~Dropped(m, o) /\ m.erased /\ m.n < LogCap

lfs_dir_drop ==
  /\ Running("commit")
  /\ LET m == top.m
         o == Outcome(m, top.attrs, lfs)
         pred == lfs_dir_fetch(disk, lfs_fs_pred(disk, m.pair)[1])
     IN /\ Dropped(m, o)
        /\ Continue(disk, StealState([lfs EXCEPT !.gdelta = o.gdelta], m),
                    <<Commit(pred, <<TailTo(o.tail, o.split)>>)>>)

(***************************************************************************)
(* The commit fits after the last one: it is appended to the current       *)
(* block, with the global delta if there is one.                           *)
(***************************************************************************)
lfs_dir_append ==
  /\ Running("commit")
  /\ LET m == top.m
         o == Outcome(m, top.attrs, lfs)
         delta == IF o.gdelta = {} THEN m.delta ELSE SymDiff(o.gdelta, m.delta)
         d == [disk EXCEPT ![m.cur] =
                 [@ EXCEPT !.n = @ + 1, !.ents = o.ents, !.tail = o.tail,
                           !.split = o.split, !.delta = delta]]
     IN /\ Appends(m, o)
        /\ Continue(d, [Committed(lfs, m.pair) EXCEPT
                          !.file = FileAfter(d, @, m.pair, o.del, o.cre,
                                             op.call = "open")], <<>>)

(***************************************************************************)
(* Otherwise the directory is compacted into the other block of its pair.  *)
(***************************************************************************)
Compact(m, o) == [f |-> "compact", m |-> m, ents |-> o.ents, tail |-> o.tail,
                  split |-> o.split, del |-> o.del, cre |-> o.cre]

lfs_dir_fallback ==
  /\ Running("commit")
  /\ LET m == top.m
         o == Outcome(m, top.attrs, lfs)
     IN /\ ~Dropped(m, o) /\ ~Appends(m, o)
        /\ Continue(disk, [lfs EXCEPT !.gdelta = o.gdelta], <<Compact(m, o)>>)

(***************************************************************************)
(* lfs_dir_split: too many entries for a block; the second half goes to a  *)
(* new pair that is written first.  With no room for that, the block is    *)
(* filled beyond what it should hold.                                      *)
(***************************************************************************)
TooLarge(ents) == Len(ents) > 1 /\ Len(ents) > PairCap

lfs_dir_split ==
  /\ Running("compact") /\ TooLarge(top.ents)
  /\ LET a == lfs_dir_alloc(disk, lfs)
         half == Len(top.ents) \div 2
         second == [top EXCEPT !.m = a.m, !.ents = SubSeq(@, half + 1, Len(@)),
                               !.del = NoId, !.cre = NoId]
         first == [top EXCEPT !.ents = SubSeq(@, 1, half), !.tail = a.m.pair,
                              !.split = TRUE]
     IN IF a.ok THEN Continue(disk, a.l, <<second, first>>)
        ELSE IF Len(top.ents) <= 2 * PairCap
        THEN Continue(disk, a.l, <<[top EXCEPT !.f = "write"]>>)
        ELSE Return("error", disk, a.l)

Writes == \/ Running("write")
          \/ Running("compact") /\ ~TooLarge(top.ents)

lfs_dir_compact ==
  /\ Writes
  /\ LET m == top.m
         to == Other(m.pair, m.cur)
         d == [disk EXCEPT ![to] =
                 [valid |-> TRUE, rev |-> (m.rev + 1) % 2^RevBits, n |-> 1,
                  clean |-> TRUE, ents |-> top.ents, tail |-> top.tail,
                  split |-> top.split, delta |-> SymDiff(lfs.gdelta, m.delta),
                  data |-> "other"]]
     IN Continue(d, [Committed(lfs, m.pair) EXCEPT
                       !.file = FileAfter(d, @, m.pair, top.del, top.cre,
                                          op.call = "open")], <<>>)

(***************************************************************************)
(* lfs_fs_forceconsistency, at the start of every mutating call: finish a  *)
(* move, take out a directory that has no parent.                          *)
(***************************************************************************)
lfs_fs_demove ==
  /\ Running("demove")
  /\ IF Moves(lfs.gstate) = {} THEN Continue(disk, lfs, <<>>)
     ELSE LET p == (CHOOSE x \in Moves(lfs.gstate) : TRUE)[1] IN
          IF Current(disk, p) = NoBlock THEN Return("error", disk, lfs)
          ELSE Continue(disk, lfs, <<Commit(lfs_dir_fetch(disk, p), <<>>)>>)

lfs_fs_deorphan ==
  /\ Running("deorphan")
  /\ LET t == Thread(disk)
         orphans == {i \in 2 .. Len(t) :
                       /\ ~lfs_dir_fetch(disk, t[i - 1]).split
                       /\ lfs_fs_parent(disk, lfs.gstate, t[i]) = <<>>}
         pdir == lfs_dir_fetch(disk, t[Min(orphans) - 1])
         dir == lfs_dir_fetch(disk, t[Min(orphans)])
     IN IF ~lfs_gstate_hasorphans(lfs.gstate) THEN Continue(disk, lfs, <<>>)
        ELSE IF orphans = {} THEN Continue(disk, lfs, <<Frame("fixed")>>)
        ELSE Continue(disk, StealState(lfs, dir),
                      <<Commit(pdir, <<TailTo(dir.tail, dir.split)>>), Frame("fixed")>>)

OrphansFixed ==
  /\ Running("fixed")
  /\ LET l == lfs_fs_preporphans(lfs, -lfs.gstate.n)
     IN Continue(disk, [l EXCEPT !.gstate = l.gpending], <<>>)

preporphans == Running("prep") /\ Continue(disk, lfs_fs_preporphans(lfs, top.n), <<>>)

\* lfs_fs_pred and lfs_dir_drop, at the end of lfs_remove and lfs_rename
PredAndDrop ==
  /\ Running("preddrop")
  /\ LET dir == lfs_dir_fetch(disk, top.pair)
         pred == lfs_fs_pred(disk, top.pair)
     IN IF pred = <<>> THEN Return("error", disk, lfs)
        ELSE Continue(disk, StealState(lfs, dir),
                      <<Commit(lfs_dir_fetch(disk, pred[1]),
                               <<TailTo(dir.tail, dir.split)>>)>>)

(***************************************************************************)
(* The calls.  Each starts with lfs_fs_forceconsistency; lfs_file_sync     *)
(* and lfs_file_write do not.                                              *)
(***************************************************************************)
Start(c, frames) ==
  /\ lfs.on /\ op = Idle /\ calls < MaxCalls
  /\ op' = c /\ ret' = "none" /\ before' = tree /\ calls' = calls + 1
  /\ todo' = frames /\ UNCHANGED <<disk, lfs, losses>>

Consistent(f) == <<Frame("demove"), Frame("deorphan"), Frame(f)>>

mkdir_call == \E n \in Name :
  Start([call |-> "mkdir", path |-> <<n>>], Consistent("mkdir"))

\* dfs_file_unlink refuses the path of an open file
remove_call == \E p \in Path :
  /\ ~(lfs.file.open /\ lfs.file.path = p)
  /\ Start([call |-> "remove", path |-> p], Consistent("remove"))

\* directories stay at the top: paths have at most two names
StartRename(p, q) ==
  /\ Len(q) = 2 => tree[p] # "dir"
  /\ Start([call |-> "rename", path |-> p, to |-> q], Consistent("rename"))

\* with a file open, and to the same name: see LittleFsFaults
rename_call == \E p, q \in Path : p # q /\ ~lfs.file.open /\ StartRename(p, q)

open_call == \E p \in Path :
  /\ ~lfs.file.open
  /\ Start([call |-> "open", path |-> p], Consistent("open"))

sync_call ==
  /\ lfs.file.open
  /\ Start([call |-> "sync", path |-> lfs.file.path, data |-> lfs.file.data],
           <<Frame("sync")>>)

mkdir(f, a, pred) ==
  LET e == [name |-> Last(op.path), type |-> "dir", at |-> a.m.pair, data |-> "none"]
  IN IF f.m.pair = {} \/ f.found THEN Return("error", disk, lfs)
     ELSE IF ~a.ok THEN Return("error", disk, a.l)
     ELSE Continue(disk, a.l,
            IF f.m.split
            THEN <<Commit(a.m, <<TailTo(pred.tail, FALSE)>>), Prep(1),
                   Commit(pred, <<TailTo(a.m.pair, FALSE)>>), Prep(-1),
                   Commit(f.m, <<Create(f.id, e)>>)>>
            ELSE <<Commit(a.m, <<TailTo(pred.tail, FALSE)>>),
                   Commit(f.m, <<Create(f.id, e), TailTo(a.m.pair, FALSE)>>)>>)

lfs_mkdir ==
  /\ Running("mkdir")
  /\ LET f == Lookup(disk, lfs.gstate, op.path)
     IN mkdir(f, lfs_dir_alloc(disk, lfs), LastPair(disk, f.m))

remove(f, e, dir) ==
  IF ~f.found THEN Return("error", disk, lfs)
  ELSE IF e.type # "dir" THEN Continue(disk, lfs, <<Commit(f.m, <<Delete(f.id)>>)>>)
  ELSE IF dir.ents # <<>> \/ dir.split THEN Return("error", disk, lfs)
  ELSE Continue(disk, lfs_fs_preporphans(lfs, 1),
                <<Commit(f.m, <<Delete(f.id)>>), Prep(-1), PredDrop(e.at)>>)

lfs_remove ==
  /\ Running("remove")
  /\ LET f == Lookup(disk, lfs.gstate, op.path)
         e == EntryOf(lfs.gstate, f)
     IN remove(f, e, lfs_dir_fetch(disk, e.at))

rename(old, new, e, prev) ==
  LET prevdir == lfs_dir_fetch(disk, prev.at)
      replaces == new.found /\ prev.type = "dir"
      same == old.m.pair = new.m.pair
      oldid == IF same /\ ~new.found /\ new.id <= old.id THEN old.id + 1 ELSE old.id
      l == IF replaces THEN lfs_fs_preporphans(lfs, 1) ELSE lfs
      created == Create(new.id, [e EXCEPT !.name = Last(op.to)])
  IN IF \/ ~old.found \/ new.m.pair = {}
        \/ new.found /\ prev.type # e.type
        \/ replaces /\ (prevdir.ents # <<>> \/ prevdir.split)
     THEN Return("error", disk, lfs)
     ELSE Continue(disk, lfs_fs_prepmove(l, oldid, old.m.pair),
            <<Commit(new.m, IF new.found THEN <<Delete(new.id), created>>
                            ELSE <<created>>)>>
            \o (IF same THEN <<>> ELSE <<Commit(old.m, <<>>)>>)
            \o (IF replaces THEN <<Prep(-1), PredDrop(prev.at)>> ELSE <<>>))

RenameBetween(old, new) ==
  rename(old, new, EntryOf(lfs.gstate, old), EntryOf(lfs.gstate, new))

lfs_rename ==
  /\ Running("rename")
  /\ RenameBetween(Lookup(disk, lfs.gstate, op.path), Lookup(disk, lfs.gstate, op.to))

(***************************************************************************)
(* Files: lfs_file_open creates a missing one; lfs_file_write keeps small  *)
(* data in memory (inline) or writes it to a new block; lfs_file_sync      *)
(* commits what was written; lfs_file_close is a sync, and forgets it.     *)
(***************************************************************************)
file_open(f, e) ==
  LET new == [name |-> Last(op.path), type |-> "reg", at |-> {}, data |-> "empty"]
      handle(x) == [Closed EXCEPT !.open = TRUE, !.pair = f.m.pair, !.id = f.id,
                      !.at = x.at, !.data = Node(disk, x), !.path = op.path]
  IN IF f.m.pair = {} \/ (f.found /\ e.type # "reg") THEN Return("error", disk, lfs)
     ELSE IF f.found THEN Continue(disk, [lfs EXCEPT !.file = handle(e)], <<>>)
     ELSE Continue(disk, [lfs EXCEPT !.file = handle(new)],
                   <<Commit(f.m, <<Create(f.id, new)>>)>>)

OpenFound(f) == file_open(f, EntryOf(lfs.gstate, f))

lfs_file_open == Running("open") /\ OpenFound(Lookup(disk, lfs.gstate, op.path))

lfs_file_write ==
  /\ lfs.on /\ op = Idle /\ lfs.file.open /\ ~lfs.file.writing
  /\ \E v \in Value \ {"empty", lfs.file.data} :
       \/ /\ lfs.file.at = {}
          /\ lfs' = [lfs EXCEPT !.file.writing = TRUE, !.file.data = v,
                                !.file.erred = FALSE]
          /\ UNCHANGED disk
       \/ LET a == lfs_alloc(disk, lfs.gstate, lfs.file, lfs_alloc_ack(lfs.free))
          IN IF a.ok
             THEN /\ disk' = [disk EXCEPT ![a.block] = [Erased EXCEPT !.data = v]]
                  /\ lfs' = [lfs EXCEPT !.free = lfs_alloc_ack(a.free),
                               !.file = [@ EXCEPT !.writing = TRUE, !.erred = FALSE,
                                            !.data = v, !.blk = {a.block}]]
             ELSE /\ lfs' = [lfs EXCEPT !.free = a.free, !.file.erred = TRUE]
                  /\ UNCHANGED disk
  /\ UNCHANGED <<todo, op, ret, before, calls, losses>>

lfs_file_sync ==
  /\ Running("sync")
  /\ LET f == lfs.file
         flushed == IF f.writing
                    THEN [f EXCEPT !.writing = FALSE, !.dirty = TRUE,
                                   !.at = f.blk, !.blk = {}]
                    ELSE f
         l == [lfs EXCEPT !.file = flushed]
     IN IF flushed.dirty /\ ~f.erred /\ f.pair # {}
        THEN Continue(disk, l,
               <<Commit(lfs_dir_fetch(disk, f.pair),
                        <<Struct(f.id, flushed.at,
                                 IF flushed.at = {} THEN f.data ELSE "none")>>),
                 Frame("synced")>>)
        ELSE Continue(disk, l, <<>>)

Synced == Running("synced") /\ Continue(disk, [lfs EXCEPT !.file.dirty = FALSE], <<>>)

\* the end of lfs_file_close, once its lfs_file_sync is done
lfs_file_close ==
  /\ lfs.on /\ op = Idle /\ lfs.file.open
  /\ \/ lfs.file.erred \/ lfs.file.pair = {}
     \/ ~lfs.file.dirty /\ ~lfs.file.writing
  /\ lfs' = [lfs EXCEPT !.file = Closed]
  /\ UNCHANGED <<disk, todo, op, ret, before, calls, losses>>

(***************************************************************************)
(* The power goes: memory is lost.  A block that is being written is left  *)
(* with an incomplete commit, or erased, or with a new revision only.      *)
(***************************************************************************)
Torn ==
  {disk} \cup
  (IF Running("commit") /\ Appends(top.m, Outcome(top.m, top.attrs, lfs))
   THEN {[disk EXCEPT ![top.m.cur].clean = FALSE]} ELSE {}) \cup
  (IF Writes
   THEN {[disk EXCEPT ![Other(top.m.pair, top.m.cur)] = [Erased EXCEPT !.rev = r]] :
           r \in {Erased.rev, (top.m.rev + 1) % 2^RevBits}} ELSE {})

PowerLoss ==
  /\ lfs.on /\ losses < MaxLoss /\ losses' = losses + 1
  /\ disk' \in Torn /\ lfs' = Off /\ todo' = <<>> /\ op' = Idle /\ ret' = "off"
  /\ before' = NoTree /\ UNCHANGED calls

Step == \/ lfs_mount \/ PowerLoss \/ Done
        \/ mkdir_call \/ remove_call \/ rename_call \/ open_call \/ sync_call
        \/ lfs_fs_demove \/ lfs_fs_deorphan \/ OrphansFixed \/ preporphans
        \/ lfs_mkdir \/ lfs_remove \/ lfs_rename \/ PredAndDrop
        \/ lfs_dir_drop \/ lfs_dir_append \/ lfs_dir_fallback
        \/ lfs_dir_split \/ lfs_dir_compact
        \/ lfs_file_open \/ lfs_file_write \/ lfs_file_sync \/ Synced
        \/ lfs_file_close

Looked == tree' = IF disk' = disk THEN tree ELSE View(disk')

Next == Step /\ Looked

Spec == Init /\ [][Next]_vars

\* What a call that only reads finds: lfs_stat, lfs_file_open for reading
Stat(f, e) == IF ~f.found \/ e.type = "none" THEN "none" ELSE Node(disk, e)

StatFound(f) == Stat(f, EntryOf(lfs.gstate, f))

lfs_stat(path) == StatFound(Lookup(disk, lfs.gstate, path))

-----------------------------------------------------------------------------
Atomic == INSTANCE AtomicFs
            WITH done <- op # Idle /\ tree # before

\* littlefs keeps its promise (README.md, "Design": "All POSIX operations, such
\* as remove and rename, are atomic, even in event of power-loss"): whatever the
\* blocks look like in between, the tree they hold changes once per call, as the
\* call says, or not at all.
AtomicOperations == Atomic!Spec

FilesIn(m, g) == {i \in DOMAIN m.ents : /\ m.ents[i].type = "reg" /\ m.ents[i].at # {}
                                        /\ ~Moving(g, m, i - 1)}

OwnedOnce(mdirs, g) ==
  LET pairs == UNION {m.pair : m \in mdirs}
      data(m) == UNION {m.ents[i].at : i \in FilesIn(m, g)}
  IN Cardinality(pairs \cup UNION {data(m) : m \in mdirs})
       = 2 * Cardinality(mdirs)
         + FoldSet(LAMBDA m, n : n + Cardinality(FilesIn(m, g)), 0, mdirs)

\* No block has two uses: the pairs on the thread and the blocks of files do not
\* overlap, so a write to one thing never touches another (lfs_alloc's lookahead
\* against what lfs_fs_traverse finds).
BlocksOwnedOnce ==
  OwnedOnce({lfs_dir_fetch(disk, p) : p \in ToSet(Thread(disk))},
            [bits |-> gstate_on_disk(disk)])

\* Every directory is reached, and only by its parent: the pair of each entry is
\* on the thread, and a pair on the thread that starts a directory has an entry,
\* or else the disk says there is an orphan to take out, so no block leaks
\* (lfs_mkdir, lfs_remove, lfs_rename, lfs_fs_deorphan).  Between calls the
\* global state in memory is the one on the disk plus what the next commit will
\* add to it (gdelta): a mount finds what the calls left behind.
DirsThreaded ==
  LET t == Thread(disk)
      bits == gstate_on_disk(disk)
      heads == {t[i] : i \in {j \in 2 .. Len(t) : ~lfs_dir_fetch(disk, t[j - 1]).split}}
      ents == UNION {ToSet(lfs_dir_fetch(disk, p).ents) : p \in ToSet(t)}
      subdirs == {e.at : e \in {x \in ents : x.type = "dir"}}
  IN /\ subdirs \subseteq heads
     /\ heads = subdirs \/ Orphan \in bits
     /\ lfs.on /\ op = Idle => SymDiff(bits, lfs.gdelta) = lfs.gpending.bits

\* Calls that only read find the tree the disk holds, also before a mutating call
\* has completed the move that a power loss interrupted (the synthetic moves of
\* lfs_dir_fetchmatch and lfs_dir_getslice).
ReadsWhatIsThere == lfs.on /\ op = Idle => \A p \in Path : lfs_stat(p) = tree[p]

=============================================================================
