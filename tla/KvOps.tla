------------------------------- MODULE KvOps -------------------------------
(***************************************************************************)
(* The commands of the store as the dispatch layer tells them apart, and   *)
(* what an executor (commands/exec/*.rs) does to the keys a shard owns.    *)
(*                                                                         *)
(* The value of a key is abstracted to the set of write requests whose     *)
(* effect it carries: {} is a missing key, and a write that is lost, or    *)
(* is applied to a stale value, shows as an element missing from the set.  *)
(***************************************************************************)

CONSTANTS
    Keys,    \* the keys of the database
    Reqs,    \* the requests clients issue; each is issued at most once
    OpOf     \* the command of every request

Kinds == {"read", "write", "rename", "flush", "watch"}

(* A command: what it does, the keys `extract_keys` finds in it (src and  *)
(* dst are the two keys of a RENAME) and whether it has FLAG_BLOCKING.    *)
Op == [kind : Kinds, keys : SUBSET Keys, src : Keys, dst : Keys, blocking : BOOLEAN]

ASSUME OpAssumption ==
    /\ OpOf \in [Reqs -> Op]
    /\ \A r \in Reqs :
          /\ OpOf[r].keys # {}
          /\ OpOf[r].kind = "rename" => OpOf[r].keys = {OpOf[r].src, OpOf[r].dst}
          /\ OpOf[r].kind = "flush" => OpOf[r].keys = Keys

Kind(r) == OpOf[r].kind
KeysOf(r) == OpOf[r].keys

(* The value of a key: the writes it carries.                              *)
Value == SUBSET Reqs

(* `rename_common`: the key moves only when one shard owns both names; a   *)
(* shard that owns one of them changes nothing.                            *)
AfterRename(r, st, owned) ==
    LET src == OpOf[r].src
        dst == OpOf[r].dst
    IN  IF src \in owned /\ dst \in owned /\ src # dst /\ st[src] # {}
        THEN [k \in Keys |-> IF k = src THEN {} ELSE IF k = dst THEN st[src] ELSE st[k]]
        ELSE st

(* The store after the executor of request r ran on the keys in `owned`.   *)
After(r, st, owned) ==
    CASE Kind(r) = "write" ->
            [k \in Keys |-> IF k \in owned \cap KeysOf(r) THEN st[k] \cup {r} ELSE st[k]]
      [] Kind(r) = "flush" -> [k \in Keys |-> IF k \in owned THEN {} ELSE st[k]]
      [] Kind(r) = "rename" -> AfterRename(r, st, owned)
      [] OTHER -> st
=============================================================================
