------------------------------ MODULE AtomicFs ------------------------------
(***************************************************************************)
(* What littlefs promises (README.md: "All POSIX operations, such as       *)
(* remove and rename, are atomic, even in event of power-loss"): a tree of *)
(* names that every call changes in one step or not at all, whenever the   *)
(* power goes.                                                             *)
(***************************************************************************)
EXTENDS Naturals, Sequences

CONSTANTS Name,      \* the names an entry may have
          Value      \* what a file may contain

(***************************************************************************)
(* tree: what is found at every path.  op: the call in progress.  done:    *)
(* it has changed the tree.  ret: how the last call ended.                 *)
(***************************************************************************)
VARIABLES tree, op, done, ret

Path == {<<n>> : n \in Name} \cup {<<m, n>> : m, n \in Name}
Node == {"none", "dir"} \cup Value

Idle == [call |-> "idle"]

Below(p, q) == Len(q) > Len(p) /\ SubSeq(q, 1, Len(p)) = p
AtOrBelow(p, q) == q = p \/ Below(p, q)
Under(p, r, q) == p \o SubSeq(r, Len(q) + 1, Len(r))   \* r, under q, seen from p

(***************************************************************************)
(* When a call may succeed, and the tree it leaves.                        *)
(***************************************************************************)
HasParent(t, p) == Len(p) = 1 \/ t[<<p[1]>>] = "dir"
Empty(t, p) == \A q \in Path : Below(p, q) => t[q] = "none"

Allowed(t, c) ==
  CASE c.call = "mkdir"  -> HasParent(t, c.path) /\ t[c.path] = "none"
    [] c.call = "remove" -> t[c.path] # "none" /\ Empty(t, c.path)
    [] c.call = "rename" ->
         /\ t[c.path] # "none" /\ HasParent(t, c.to)
         /\ \/ t[c.to] = "none"
            \/ t[c.to] = "dir" /\ t[c.path] = "dir" /\ Empty(t, c.to)
            \/ t[c.to] \notin {"none", "dir"} /\ t[c.path] # "dir"
    [] c.call = "open"   -> HasParent(t, c.path) /\ t[c.path] # "dir"
    [] c.call = "sync"   -> t[c.path] \notin {"none", "dir"}

Effect(t, c) ==
  CASE c.call = "mkdir"  -> [t EXCEPT ![c.path] = "dir"]
    [] c.call = "remove" -> [t EXCEPT ![c.path] = "none"]
    [] c.call = "rename" ->
         IF c.path = c.to THEN t
         ELSE [r \in Path |->
                 IF AtOrBelow(c.to, r)
                 THEN IF Under(c.path, r, c.to) \in Path
                      THEN t[Under(c.path, r, c.to)] ELSE "none"
                 ELSE IF AtOrBelow(c.path, r) THEN "none" ELSE t[r]]
    [] c.call = "open"   -> IF t[c.path] = "none"
                            THEN [t EXCEPT ![c.path] = "empty"] ELSE t
    [] c.call = "sync"   -> [t EXCEPT ![c.path] = c.data]

(***************************************************************************)
(* A call begins, takes effect at one moment, and returns: successfully    *)
(* only with its effect, with an error only without it.  A power loss ends *)
(* it at any moment and leaves the tree alone.                             *)
(***************************************************************************)
Init == /\ tree = [p \in Path |-> "none"]
        /\ op = Idle /\ done = FALSE /\ ret = "none"

Begin == op = Idle /\ op' # Idle /\ ret' = "none" /\ UNCHANGED <<tree, done>>

Apply == /\ op # Idle /\ ~done /\ Allowed(tree, op)
         /\ tree' = Effect(tree, op) /\ done' = TRUE
         /\ UNCHANGED <<op, ret>>

ReturnOk == /\ op # Idle
            /\ done \/ (Allowed(tree, op) /\ Effect(tree, op) = tree)
            /\ op' = Idle /\ done' = FALSE /\ ret' = "ok" /\ UNCHANGED tree

ReturnError == /\ op # Idle /\ ~done
               /\ op' = Idle /\ ret' = "error" /\ UNCHANGED <<tree, done>>

PowerLoss == op' = Idle /\ done' = FALSE /\ ret' = "off" /\ UNCHANGED tree

Next == Begin \/ Apply \/ ReturnOk \/ ReturnError \/ PowerLoss

Spec == Init /\ [][Next]_<<tree, op, done, ret>>
=============================================================================
