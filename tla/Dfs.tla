-------------------------------- MODULE Dfs ---------------------------------
(***************************************************************************)
(* The device file system: the table of descriptors with their reference   *)
(* counts (dfs.c), the table of mounted file systems (dfs_fs.c), and the   *)
(* calls that use both (dfs_file.c, dfs_posix.c) over a file system that   *)
(* keeps an object of its own behind every open descriptor (dfs_lfs.c).    *)
(*                                                                         *)
(* The threads interleave between the sections under dfs_lock and between  *)
(* the calls into the file system, which has a lock of its own.  Memory    *)
(* that is freed leaves Dangling in every pointer to it.                   *)
(***************************************************************************)
EXTENDS Naturals, FiniteSets, FiniteSetsExt

CONSTANTS Thread,
          NFd,      \* DFS_FD_MAX
          NFs,      \* DFS_FILESYSTEMS_MAX
          Duties    \* what the callers see to; see below

VARIABLES fds,      \* the descriptor table
          fstab,    \* filesystem_table
          exist,    \* the files there are: <<mount point, path>>
          owned,    \* descriptors returned by open and not yet given to close
          th        \* what each thread is doing

vars == <<fds, fstab, exist, owned, th>>

Path == {"/a", "/m/a"}
MountPoint == {"/", "/m"}
Dangling == 100
None == 101
Fd == 0 .. NFd - 1
Slot == 0 .. NFs - 1

Idle == [call |-> "none", at |-> "idle", d |-> None, fs |-> None, path |-> "", ok |-> TRUE]
NoFd == [ref |-> 0, path |-> "", fs |-> None, data |-> "none"]
NoFs == [path |-> "", mounted |-> FALSE]

Init == /\ fds = [i \in Fd |-> NoFd]
        /\ fstab = [j \in Slot |-> NoFs]
        /\ exist = {} /\ owned = {}
        /\ th = [t \in Thread |-> Idle]

(***************************************************************************)
(* Duties.  Sole: nobody closes a descriptor that another call is using,   *)
(* nor uses one that is being closed.  Alone: mounting and unmounting      *)
(* happen while no other call is in progress and no file is open.          *)
(* Unopened: nobody opens a file that is being removed.  Once: nobody uses *)
(* a descriptor again when closing it has failed.                          *)
(***************************************************************************)
Using(i) == {t \in Thread : th[t].d = i}
Sole(i) == "sole" \in Duties => Using(i) = {}
Mounting == \E t \in Thread : th[t].call = "mount"
Quiet == "alone" \in Duties => ~Mounting
Alone(t) == "alone" \in Duties => /\ \A u \in Thread \ {t} : th[u] = Idle
                                  /\ \A i \in Fd : fds[i].data # "open"
Unopened(p, c) == "unopened" \in Duties => \A t \in Thread : ~(th[t].call = c /\ th[t].path = p)

Begin(t, c, step) == /\ th[t] = Idle
                     /\ th' = [th EXCEPT ![t] = [step EXCEPT !.call = c]]
Goto(t, l) == th' = [th EXCEPT ![t].at = l]
Return(t) == th' = [th EXCEPT ![t] = Idle]
At(t, l) == th[t].at = l

(***************************************************************************)
(* dfs_filesystem_lookup: the entry with the longest path that is a prefix *)
(* of this one, mounted or still being mounted.                            *)
(***************************************************************************)
Covers(m, p) == m = "/" \/ (m = "/m" /\ p \in {"/m", "/m/a"})
dfs_filesystem_lookup(p) ==
  LET hits == {j \in Slot : Covers(fstab[j].path, p)}
      deep == {j \in hits : fstab[j].path # "/"}
  IN IF hits = {} THEN None ELSE IF deep # {} THEN Max(deep) ELSE Max(hits)

(***************************************************************************)
(* fd_alloc, fd_new, fd_get, fd_put.                                       *)
(***************************************************************************)
Unused == {i \in Fd : fds[i].ref = 0}

fd_new(t) ==
  /\ At(t, "new")
  /\ IF Unused = {} THEN Return(t) /\ UNCHANGED fds
     ELSE /\ fds' = [fds EXCEPT ![Min(Unused)] = [NoFd EXCEPT !.ref = 1]]
          /\ th' = [th EXCEPT ![t].at = "get", ![t].d = Min(Unused)]
  /\ UNCHANGED <<fstab, exist, owned>>

Uses == [open |-> "lookup", close |-> "fclose", read |-> "fread"]

\* A slip: the caller's reference is not counted.
get_uncounted(t) ==
  /\ At(t, "get")
  /\ IF fds[th[t].d].ref = 0 THEN Return(t) ELSE Goto(t, Uses[th[t].call])
  /\ UNCHANGED <<fds, fstab, exist, owned>>

fd_get(t) ==
  /\ At(t, "get")
  /\ IF fds[th[t].d].ref = 0 THEN Return(t) /\ UNCHANGED fds        \* EBADF
     ELSE /\ fds' = [fds EXCEPT ![th[t].d].ref = @ + 1]
          /\ Goto(t, Uses[th[t].call])
  /\ UNCHANGED <<fstab, exist, owned>>

\* every other pointer to descriptor i dangles
Freed(i, t) == [u \in Thread |-> IF u # t /\ th[u].d = i /\ th[u].at # "get"
                                 THEN [th[u] EXCEPT !.d = Dangling] ELSE th[u]]

(***************************************************************************)
(* Two references are dropped when the descriptor goes: by close, and by   *)
(* an open that failed.  A close that failed drops one.                    *)
(***************************************************************************)
\* A slip: a failed open drops one reference.
drops_once(t) == th[t].call = "close" /\ th[t].ok

Drops(t) == (th[t].call = "close" /\ th[t].ok) \/ (th[t].call = "open" /\ ~th[t].ok)

Returns(t) == \/ th[t].call = "open" /\ th[t].ok
              \/ th[t].call = "close" /\ ~th[t].ok /\ "once" \notin Duties

fd_put(t) ==
  LET i == th[t].d
      last == fds[i].ref = 1
  IN /\ th[t].at \in {"put", "put2"} /\ i \in Fd
     /\ fds' = [fds EXCEPT ![i] = IF last THEN NoFd ELSE [@ EXCEPT !.ref = @ - 1]]
     /\ LET rest == IF last THEN Freed(i, t) ELSE th
        IN th' = IF At(t, "put") /\ Drops(t)
                 THEN [rest EXCEPT ![t].at = "put2", ![t].d = IF last THEN Dangling ELSE i]
                 ELSE [rest EXCEPT ![t] = Idle]
     /\ owned' = IF At(t, "put") /\ Returns(t) THEN owned \cup {i} ELSE owned
     /\ UNCHANGED <<fstab, exist>>

(***************************************************************************)
(* open: fd_new, fd_get, the lookup of dfs_file_open, the file system's    *)
(* own open, which may fail.                                               *)
(***************************************************************************)
open(t, p) == /\ Quiet /\ Unopened(p, "unlink")
              /\ Begin(t, "open", [Idle EXCEPT !.at = "new", !.path = p])
              /\ UNCHANGED <<fds, fstab, exist, owned>>

open_lookup(t) ==
  /\ At(t, "lookup")
  /\ LET fs == dfs_filesystem_lookup(th[t].path)
     IN IF fs = None
        THEN th' = [th EXCEPT ![t].at = "put", ![t].ok = FALSE] /\ UNCHANGED fds
        ELSE /\ th' = [th EXCEPT ![t].at = "fopen", ![t].fs = fs]
             /\ fds' = [fds EXCEPT ![th[t].d].fs = fs, ![th[t].d].path = th[t].path]
  /\ UNCHANGED <<fstab, exist, owned>>

File(t) == <<fstab[th[t].fs].path, th[t].path>>

fopen(t) ==
  /\ At(t, "fopen") /\ th[t].fs \in Slot
  /\ \/ /\ fds' = [fds EXCEPT ![th[t].d].data = "open"]
        /\ exist' = exist \cup {File(t)}
        /\ Goto(t, "put")
     \/ /\ fds' = [fds EXCEPT ![th[t].d].path = ""]
        /\ th' = [th EXCEPT ![t].at = "put", ![t].ok = FALSE]
        /\ UNCHANGED exist
  /\ UNCHANGED <<fstab, owned>>

(***************************************************************************)
(* close: the file system frees its object whether or not it succeeds.     *)
(***************************************************************************)
close(t, i) == /\ i \in owned /\ Sole(i) /\ Quiet
               /\ Begin(t, "close", [Idle EXCEPT !.at = "get", !.d = i])
               /\ owned' = IF "sole" \in Duties THEN owned \ {i} ELSE owned
               /\ UNCHANGED <<fds, fstab, exist>>

fclose(t) ==
  /\ At(t, "fclose") /\ th[t].d \in Fd
  /\ \/ /\ fds' = [fds EXCEPT ![th[t].d].data = "freed", ![th[t].d].path = ""]
        /\ Goto(t, "put")
     \/ /\ fds' = [fds EXCEPT ![th[t].d].data = "freed"]
        /\ th' = [th EXCEPT ![t].at = "put", ![t].ok = FALSE]
  /\ owned' = owned \ {th[t].d}
  /\ UNCHANGED <<fstab, exist>>

\* read, write, lseek, fstat, fsync, fcntl, ftruncate, getdents
read(t, i) == /\ i \in owned /\ Quiet
              /\ Begin(t, "read", [Idle EXCEPT !.at = "get", !.d = i])
              /\ UNCHANGED <<fds, fstab, exist, owned>>

fread(t) == At(t, "fread") /\ Goto(t, "put") /\ UNCHANGED <<fds, fstab, exist, owned>>

(***************************************************************************)
(* unlink: refused for a file that some descriptor has open.               *)
(***************************************************************************)
unlink(t, p) == /\ Quiet /\ Unopened(p, "open")
                /\ Begin(t, "unlink", [Idle EXCEPT !.at = "ulookup", !.path = p])
                /\ UNCHANGED <<fds, fstab, exist, owned>>

unlink_lookup(t) ==
  /\ At(t, "ulookup")
  /\ LET fs == dfs_filesystem_lookup(th[t].path)
     IN IF fs = None THEN Return(t)
        ELSE th' = [th EXCEPT ![t].at = "ucheck", ![t].fs = fs]
  /\ UNCHANGED <<fds, fstab, exist, owned>>

\* A slip: only descriptors of other paths are looked at.
open_elsewhere(p) == \E i \in Fd : fds[i].path \notin {"", p}

fd_is_open(p) == \E i \in Fd : /\ fds[i].path = p
                               /\ fds[i].fs = dfs_filesystem_lookup(p)

unlink_check(t) == /\ At(t, "ucheck")
                   /\ IF fd_is_open(th[t].path) THEN Return(t) ELSE Goto(t, "funlink")
                   /\ UNCHANGED <<fds, fstab, exist, owned>>

funlink(t) == /\ At(t, "funlink") /\ th[t].fs \in Slot
              /\ exist' = exist \ {File(t)}
              /\ Return(t)
              /\ UNCHANGED <<fds, fstab, owned>>

(***************************************************************************)
(* dfs_mount: the directory to mount on must be there.  The entry is made  *)
(* under the lock and the file system mounted after it; when that fails    *)
(* the entry is cleared.                                                   *)
(***************************************************************************)
Cleared(j, f) == [u \in Thread |-> IF f[u].fs = j THEN [f[u] EXCEPT !.fs = Dangling] ELSE f[u]]
Orphaned(j) == [i \in Fd |-> IF fds[i].fs = j THEN [fds[i] EXCEPT !.fs = Dangling] ELSE fds[i]]

dfs_mount(t, m) ==
  /\ Alone(t)
  /\ Begin(t, "mount", [Idle EXCEPT !.at = IF m = "/" THEN "enter" ELSE "mlookup", !.path = m])
  /\ UNCHANGED <<fds, fstab, exist, owned>>

mount_lookup(t) ==
  /\ At(t, "mlookup")
  /\ LET fs == dfs_filesystem_lookup(th[t].path)
     IN IF fs = None THEN Return(t)                                 \* ENOTDIR
        ELSE th' = [th EXCEPT ![t].at = "mopen", ![t].fs = fs]
  /\ UNCHANGED <<fds, fstab, exist, owned>>

mount_open(t) ==
  /\ At(t, "mopen") /\ th[t].fs \in Slot
  /\ \/ th' = [th EXCEPT ![t].at = "enter", ![t].fs = None]
     \/ Return(t)
  /\ UNCHANGED <<fds, fstab, exist, owned>>

Empty == {j \in Slot : fstab[j] = NoFs}

mount_enter(t) ==
  /\ At(t, "enter")
  /\ IF Empty = {} \/ \E j \in Slot : fstab[j].path = th[t].path
     THEN Return(t) /\ UNCHANGED fstab
     ELSE /\ fstab' = [fstab EXCEPT ![Min(Empty)].path = th[t].path]
          /\ th' = [th EXCEPT ![t].at = "fmount", ![t].fs = Min(Empty)]
  /\ UNCHANGED <<fds, exist, owned>>

fmount(t) ==
  /\ At(t, "fmount")
  /\ LET j == th[t].fs
     IN \/ /\ fstab' = [fstab EXCEPT ![j].mounted = TRUE]
           /\ Return(t) /\ UNCHANGED fds
        \/ /\ fstab' = [fstab EXCEPT ![j] = NoFs]
           /\ th' = Cleared(j, [th EXCEPT ![t] = Idle])
           /\ fds' = Orphaned(j)
  /\ UNCHANGED <<exist, owned>>

dfs_unmount(t, j) ==
  /\ th[t] = Idle /\ Alone(t)
  /\ fstab[j].mounted
  /\ fstab' = [fstab EXCEPT ![j] = NoFs]
  /\ th' = Cleared(j, th) /\ fds' = Orphaned(j)
  /\ UNCHANGED <<exist, owned>>

Step(t) == \/ fd_new(t) \/ fd_get(t) \/ fd_put(t) \/ open_lookup(t) \/ fopen(t)
           \/ fclose(t) \/ fread(t) \/ unlink_lookup(t) \/ unlink_check(t)
           \/ funlink(t) \/ mount_lookup(t) \/ mount_open(t) \/ mount_enter(t) \/ fmount(t)

Call(t) == \/ \E p \in Path : open(t, p) \/ unlink(t, p)
           \/ \E i \in Fd : close(t, i) \/ read(t, i)
           \/ \E m \in MountPoint : dfs_mount(t, m)
           \/ \E j \in Slot : dfs_unmount(t, j)

Next == \E t \in Thread : Step(t) \/ Call(t)

Spec == Init /\ [][Next]_vars

(***************************************************************************)
(* No call works with a descriptor, a file system entry or a file object   *)
(* that has been freed or is not set up yet: reference counts and locks    *)
(* keep alive what a call found, over all its sections.                    *)
(***************************************************************************)
PointersAlive ==
  \A t \in Thread :
    /\ th[t].d # Dangling \/ th[t].at = "idle"
    /\ th[t].at \in {"fopen", "funlink", "mopen"} =>
         th[t].fs \in Slot /\ fstab[th[t].fs].mounted
    /\ th[t].at \in {"fread", "fclose"} =>
         fds[th[t].d].data = "open" /\ fds[th[t].d].fs \in Slot

(***************************************************************************)
(* When no call is in progress the descriptors in the table are those that *)
(* open returned and nobody closed, and those whose close failed, each     *)
(* with one reference: no path through open, close and their failures      *)
(* leaks another one or releases one too often.                            *)
(***************************************************************************)
NothingLeaks ==
  (\A t \in Thread : th[t] = Idle) =>
    \A i \in Fd : fds[i].ref = (IF i \in owned \/ fds[i].data = "freed" THEN 1 ELSE 0)

(***************************************************************************)
(* The file of an open descriptor exists: dfs_file_unlink refuses one that *)
(* is open ("Check whether file is already open").                         *)
(***************************************************************************)
OpenFileExists ==
  \A i \in Fd : fds[i].data = "open" /\ fds[i].fs \in Slot =>
    <<fstab[fds[i].fs].path, fds[i].path>> \in exist
=============================================================================
