----------------------------- MODULE MCStorage ------------------------------
(***************************************************************************)
(* A file's way to the flash on small instances, layer by layer: a         *)
(* behaviour is about one of them.  "files": three threads that share two  *)
(* descriptors and mount two file systems, so that every pair of calls     *)
(* meets on a descriptor, a table entry or a file while a third call runs, *)
(* and both tables fill up.  "contents": one file of littlefs in eight     *)
(* blocks, two of them the directory, that grows from its entry to three   *)
(* blocks; one block may be worn.  "flash": two threads and a flash of six *)
(* bytes, with pages of two and commands that erase two or four.           *)
(***************************************************************************)
EXTENDS Naturals, TLC

CONSTANTS t1, t2, t3, NoThread,
          Layer,                       \* the layers of this run
          FileDuties, ContentDuties, FlashDuties   \* what the callers of each see to

VARIABLES layer, objects, table, x, y, th

vars == <<layer, objects, table, x, y, th>>

\* The whole chip; a range that a large erase command fits; one that begins and
\* ends within an erase block and crosses pages; and one apart from it, at the
\* end, smaller than any.
Areas == {<<0, 6>>, <<0, 4>>, <<1, 4>>, <<4, 1>>}

Files == INSTANCE Dfs WITH
  Thread <- {t1, t2, t3}, NFd <- 2, NFs <- 2, Duties <- FileDuties,
  fds <- objects, fstab <- table, exist <- x, owned <- y
Contents == INSTANCE LittleFsFile WITH
  NBlocks <- 8, BlockSize <- 6, CacheSize <- 3, InlineMax <- 2, FileMax <- 16,
  Lengths <- {1, 5, 12}, Positions <- {0, 4, 11}, Sizes <- {0, 3, 6, 9}, Worn <- {3},
  MaxCalls <- 5, Duties <- ContentDuties,
  lfs <- objects, text <- table, saved <- x, last <- y
Flash == INSTANCE SerialFlash WITH
  Thread <- {t1, t2}, Capacity <- 6, PageSize <- 2, Erasers <- {2, 4}, Ranges <- Areas,
  RetryTimes <- 1, Duties <- FlashDuties, None <- NoThread,
  chip <- objects, up <- table, lock <- x, bus <- y

Init == /\ layer \in Layer
        /\ \/ layer = "files" /\ Files!Init
           \/ layer = "contents" /\ Contents!Init /\ th = NoThread
           \/ layer = "flash" /\ Flash!Init

Next == /\ UNCHANGED layer
        /\ \/ layer = "files" /\ Files!Next
           \/ layer = "contents" /\ Contents!Next /\ UNCHANGED th
           \/ layer = "flash" /\ Flash!Next

Spec == Init /\ [][Next]_vars

Symmetry == Permutations({t1, t2})

-----------------------------------------------------------------------------
(* Properties *)

\* No call works with a descriptor, a file system entry or a file object that
\* has been freed or is not set up yet: reference counts and locks keep alive
\* what a call found, over all its sections.
PointersAlive == layer = "files" => Files!PointersAlive

\* When no call is in progress the descriptors in the table are those that open
\* returned and nobody closed, and those whose close failed, each with one
\* reference: no path through open, close and their failures leaks one or
\* releases one too often.
NothingLeaks == layer = "files" => Files!NothingLeaks

\* The file of an open descriptor exists: dfs_file_unlink refuses one that is
\* open ("Check whether file is already open").
OpenFileExists == layer = "files" => Files!OpenFileExists

\* What a read of a file in littlefs gets is what was written there, and what the
\* directory entry leads to is what the file contained when it was last synchronised,
\* whatever blocks were copied, found to be worn or given out again since.
KeepsContents == layer = "contents" => Contents!KeepsContents

\* lseek with SEEK_END goes to the end of the file.
SeekFindsEnd == layer = "contents" => Contents!SeekFindsEnd

\* A call of sfud that returns success has stored, erased or read what it says,
\* whatever timeouts, other callers and resets came before it.
StoredOnSuccess == layer = "flash" => Flash!StoredOnSuccess

\* What the chip is given to do stays within the request: a program within the
\* bytes of the range, an erase within the granules they are in.
StaysInRange == layer = "flash" => Flash!StaysInRange

\* The probe at start-up recognises the chip.
FlashFound == layer = "flash" => Flash!FlashFound
=============================================================================
