--------------------------- MODULE LittleFsFaults ---------------------------
(***************************************************************************)
(* LittleFs with the cases in which it does not keep its promise, one by   *)
(* one.                                                                    *)
(***************************************************************************)
EXTENDS LittleFs

CONSTANT Cases  \* which of them may happen:
                \*   "delta"  the log of a pair is full just before the delta
                \*   "self"   a name is renamed to itself
                \*   "open"   an open file is renamed or replaced
                \*   "other"  a rename while another file is open
                \*   "io"     the flash driver reports an error

(***************************************************************************)
(* lfs_dir_commit: the attributes still fit after the last commit, the     *)
(* global delta does not.  gdelta already has the pair's own share in it   *)
(* when the code goes on to lfs_dir_compact.                               *)
(***************************************************************************)
lfs_dir_fallback_at_delta ==
  /\ "delta" \in Cases /\ Running("commit")
  /\ LET m == top.m
         o == Outcome(m, top.attrs, lfs)
     IN /\ ~Dropped(m, o) /\ ~Appends(m, o) /\ m.erased /\ o.gdelta # {}
        /\ Continue(disk, [lfs EXCEPT !.gdelta = SymDiff(o.gdelta, m.delta)],
                    <<Compact(m, o)>>)

\* dfs_file_rename looks neither at open files nor for equal names
rename_other == \E p, q \in Path :
  /\ (IF p = q THEN "self"
      ELSE IF lfs.file.path \in {p, q} THEN "open" ELSE "other") \in Cases
  /\ StartRename(p, q)

\* the driver reports an error (LFS_ERR_IO): the call returns it, memory stays
IoError ==
  /\ "io" \in Cases /\ (Writes \/ Running("commit"))
  /\ \E d \in Torn :
       Return("error", d,
              IF Writes THEN [lfs EXCEPT !.gdelta = SymDiff(@, top.m.delta)]
              ELSE [lfs EXCEPT !.gdelta = Outcome(top.m, top.attrs, lfs).gdelta])

FaultsNext ==
  (Step \/ lfs_dir_fallback_at_delta \/ rename_other \/ IoError) /\ Looked

FaultsSpec == Init /\ [][FaultsNext]_vars

\* A call changes nothing but the paths it names, even after calls that failed
\* half way (README.md: "power is lost the filesystem will fall back to the last
\* known good state"; a failed call leaves gpending and gdelta as they were).
OnlyNamedPaths ==
  [][\A p \in Path : tree'[p] # tree[p] =>
       /\ op # Idle
       /\ \/ Atomic!AtOrBelow(op.path, p)
          \/ op.call = "rename" /\ Atomic!AtOrBelow(op.to, p)]_vars

=============================================================================
