------------------------------ MODULE DbSlice ------------------------------
(***************************************************************************)
(* The keys one shard owns in one database (core/db.rs): the prime table,  *)
(* the expiry map, the sticky set and the keys whose version was bumped    *)
(* since the shard last drained them.                                      *)
(*                                                                         *)
(* A slice is a record, an operation of `DbSlice` an operator from slice   *)
(* to slice.  Expiry is lazy: a key whose time has passed stays in the     *)
(* tables until an operation that looks the key up removes it, so `val`    *)
(* may hold dead values and every operator says whether it looks first.    *)
(* Versions only ever move together with `modified`; the set of bumped     *)
(* keys stands for both.                                                   *)
(***************************************************************************)
EXTENDS Integers, Sequences, FiniteSets, SequencesExt

CONSTANTS Key     \* the keys of the database

(* A value computed once and used in several places.                       *)
With(v, F(_)) == F(v)

(* A value is a one-field record named after its type, so that values of   *)
(* different types are different; Absent is a missing key.                 *)
Absent == [none |-> TRUE]
TypeOf(v) == CHOOSE t \in DOMAIN v : TRUE

(* No entry in the expiry map.  Times start at 1.                          *)
NoExpiry == 0

NewSlice ==
    [val |-> [k \in Key |-> Absent], exp |-> [k \in Key |-> NoExpiry],
     sticky |-> {}, modified |-> {}]

Holds(db, k) == db.val[k] # Absent

BumpVersion(db, k) == [db EXCEPT !.modified = @ \cup {k}]

(* `expire_if_needed`: a sticky key never expires.                         *)
Expired(db, k, now) ==
    k \notin db.sticky /\ db.exp[k] # NoExpiry /\ now >= db.exp[k]
ExpireIfNeeded(db, k, now) ==
    IF Expired(db, k, now)
    THEN BumpVersion([db EXCEPT !.val[k] = Absent, !.exp[k] = NoExpiry], k)
    ELSE db

(* `find` and `find_mut`: the slice after the lookup; the value found is   *)
(* its val[k].  Storing through the reference `find_mut` returns changes   *)
(* the value alone: neither the version nor `modified` moves.              *)
(* Mutant: a lookup that does not expire.                                  *)
FindDead(db, k, now) == db
Find(db, k, now) == ExpireIfNeeded(db, k, now)
WriteThrough(db, k, v) == [db EXCEPT !.val[k] = v]

(* `insert` neither looks the key up nor touches its expiry.               *)
(* Mutant: the version stays.                                              *)
InsertUnversioned(db, k, v) == [db EXCEPT !.val[k] = v]
Insert(db, k, v) == BumpVersion([db EXCEPT !.val[k] = v], k)

InsertIfAbsent(db, k, v, now) ==
    LET d == ExpireIfNeeded(db, k, now) IN IF Holds(d, k) THEN d ELSE Insert(d, k, v)

(* `remove` and `remove_if_exists`: no lookup either, a dead value counts. *)
RemoveKey(db, k) ==
    IF Holds(db, k)
    THEN BumpVersion([db EXCEPT !.val[k] = Absent, !.exp[k] = NoExpiry,
                                !.sticky = @ \ {k}], k)
    ELSE db

(* `set_expiry`: a time that has passed deletes the value and the expiry   *)
(* entry but leaves the sticky flag.                                       *)
SetExpiry(db, k, at, now) ==
    LET d == ExpireIfNeeded(db, k, now)
    IN  IF ~Holds(d, k) THEN d
        ELSE IF at <= now
        THEN BumpVersion([d EXCEPT !.val[k] = Absent, !.exp[k] = NoExpiry], k)
        ELSE BumpVersion([d EXCEPT !.exp[k] = at], k)

ClearExpiry(db, k) ==
    IF db.exp[k] # NoExpiry THEN BumpVersion([db EXCEPT !.exp[k] = NoExpiry], k) ELSE db

(* `ttl_ms`: -2 for a missing key, -1 for a key without expiry.            *)
TtlMs(db, k, now) ==
    LET d == ExpireIfNeeded(db, k, now)
    IN  IF ~Holds(d, k) THEN -2 ELSE IF d.exp[k] = NoExpiry THEN -1 ELSE d.exp[k] - now

SetSticky(db, k, now) ==
    LET d == ExpireIfNeeded(db, k, now)
    IN  IF Holds(d, k) /\ k \notin d.sticky
        THEN BumpVersion([d EXCEPT !.sticky = @ \cup {k}], k) ELSE d

SetStickyFlag(db, k, on) ==
    LET s == IF on THEN db.sticky \cup {k} ELSE db.sticky \ {k}
    IN  IF s # db.sticky THEN BumpVersion([db EXCEPT !.sticky = s], k) ELSE db

(* `take`, the source half of MOVE: the value leaves with its expiry and   *)
(* its sticky flag.                                                        *)
Take(db, k, now) ==
    LET d == ExpireIfNeeded(db, k, now)
    IN  [db |-> RemoveKey(d, k), val |-> d.val[k], exp |-> d.exp[k], sticky |-> k \in d.sticky]

(* `Shard::store_value`: the write of a deferred store on the key's shard. *)
StoreValue(db, k, v, at, sticky, now) ==
    IF v = Absent THEN RemoveKey(db, k)
    ELSE LET i == Insert(db, k, v)
             e == IF at # NoExpiry THEN SetExpiry(i, k, at, now) ELSE ClearExpiry(i, k)
         IN  SetStickyFlag(e, k, sticky)

(* `take_modified`: the shard drains the bumped keys after each command.   *)
Drained(db) == [db EXCEPT !.modified = {}]

(* The keys a client can still see: what is left once every lookup that    *)
(* could remove a dead value has been made.                                *)
Alive(db, now) ==
    [k \in Key |-> IF Expired(db, k, now) THEN Absent ELSE db.val[k]]

(***************************************************************************)
(* What an executor hands back (`CmdResult`): the slice, the reply and the *)
(* stores it defers to the coordinator.  Replies are tagged tuples.        *)
(***************************************************************************)
Nil == <<"nil">>
OkReply == <<"ok">>
Num(n) == <<"int", n>>
Bulk(s) == <<"bulk", s>>
Arr(s) == <<"arr", s>>
ErrReply == <<"err">>
BlockedReply == <<"blocked">>

Ok(db, reply) == [db |-> db, reply |-> reply, stores |-> <<>>]
Err(db) == Ok(db, ErrReply)
Blocked(db) == Ok(db, BlockedReply)
Deferred(db, stores, reply) == [db |-> db, reply |-> reply, stores |-> stores]
Store(k, v, at, sticky) == [key |-> k, val |-> v, at |-> at, sticky |-> sticky]

IsErr(r) == r.reply = ErrReply

(* A reply whose elements come out of a hash table: their order says       *)
(* nothing, the set of them does.                                          *)
Members(s) == <<"set", s>>

(***************************************************************************)
(* Multi-key commands.  c.ks are the keys, `owned` the indices of the ones *)
(* this shard owns, walked in order.  Each shard's reply is a part         *)
(* [owned, reply], and the coordinator merges the parts, in shard order,   *)
(* into one reply and the stores still to do.                              *)
(***************************************************************************)
InOrder(owned) == SetToSortSeq(owned, LAMBDA i, j : i < j)
Merged(reply) == [reply |-> reply, stores |-> <<>>]
MergedStore(stores, reply) == [reply |-> reply, stores |-> stores]
MergedErr == Merged(ErrReply)
AnyErr(parts) == \E i \in DOMAIN parts : IsErr(parts[i])
PartOf(parts, i) == CHOOSE p \in Range(parts) : i \in p.owned
Owns(parts, i) == \E j \in DOMAIN parts : i \in parts[j].owned
=============================================================================
