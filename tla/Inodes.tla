------------------------------- MODULE Inodes -------------------------------
(***************************************************************************)
(* The table of inodes of hw2 (src/hash.c), by which vtree counts a file   *)
(* with several links once.  `t' is the static state of h_enter:           *)
(*                                                                         *)
(*   tables   one hash table per device, in the order they were made       *)
(*   tablep   the table used last, 0 being NULL                            *)
(*                                                                         *)
(* A bucket is its length, filled and the keys stored so far, from index 0,*)
(* which is never assigned and keeps the zero of calloc.                   *)
(***************************************************************************)
EXTENDS Integers, Sequences

CONSTANTS
  BUCKETS,  \* buckets per table
  EXTEND    \* keys by which a bucket grows

VARIABLE t  \* the tables

ASSUME InodesAssumption == BUCKETS \in Nat \ {0} /\ EXTEND \in Nat \ {0}

EmptyBucket == [length |-> 0, filled |-> 0, keys |-> [k \in {} |-> 0]]
NoTables == [tables |-> <<>>, tablep |-> 0]

\* The index at which the search stops: the key, or the last one stored.
Stop(b, ino) ==
  LET hits == {i \in 0 .. b.filled - 1 : b.keys[i] = ino}
  IN IF hits = {} THEN b.filled ELSE CHOOSE i \in hits : \A j \in hits : i <= j

\* Mutant: a key is old only if the search stopped before its last place.
IsOldBeforeLast(b, ino) ==
  LET i == Stop(b, ino) IN i # 0 /\ i < b.filled /\ b.keys[i] = ino

IsOld(b, ino) == LET i == Stop(b, ino) IN i # 0 /\ b.keys[i] = ino

\* A bucket with no room grows; filled is incremented before the store.
Store(b, ino) ==
  [length |-> IF b.filled = b.length THEN b.length + EXTEND ELSE b.length,
   filled |-> b.filled + 1,
   keys |-> [i \in 0 .. b.filled + 1 |-> IF i = b.filled + 1 THEN ino
                                         ELSE IF i = 0 THEN 0 ELSE b.keys[i]]]

NewTable(dev) == [device |-> dev, buckets |-> [n \in 0 .. BUCKETS - 1 |-> EmptyBucket]]

\* Mutant: the table used last serves every device.
LocateCached(u, dev) ==
  IF u.tablep # 0 THEN u ELSE [tables |-> Append(u.tables, NewTable(dev)), tablep |-> 1]

\* The table for a device is the cached one, the first that fits, or a new one.
Locate(u, dev) ==
  LET fits == {i \in DOMAIN u.tables : u.tables[i].device = dev}
  IN IF u.tablep \in fits THEN u
     ELSE IF fits # {} THEN [u EXCEPT !.tablep = CHOOSE i \in fits : \A j \in fits : i <= j]
     ELSE [tables |-> Append(u.tables, NewTable(dev)), tablep |-> Len(u.tables) + 1]

BucketOf(u, ino) == u.tables[u.tablep].buckets[ino % BUCKETS]

\* h_enter on the tables u: whether the inode is old, and the tables it leaves.
h_enter(u, dev, ino) ==
  LET v == Locate(u, dev)
      b == BucketOf(v, ino)
  IN IF IsOld(b, ino) THEN [old |-> TRUE, t |-> v]
     ELSE [old |-> FALSE,
           t |-> [v EXCEPT !.tables[v.tablep].buckets[ino % BUCKETS] = Store(b, ino)]]

-----------------------------------------------------------------------------
\* The files in the tables: of every device, the inodes that were entered.
Keys(table) ==
  UNION {{b.keys[k] : k \in 1 .. b.filled} : b \in {table.buckets[n] : n \in 0 .. BUCKETS - 1}}
Seen == UNION {{t.tables[i].device} \X Keys(t.tables[i]) : i \in DOMAIN t.tables}

\* "length" is the "key space allocated" of a bucket and "filled" the "key space
\* used" (hash.h:14-15): the last key is inside the space that is allocated.
KeysFit ==
  \A i \in DOMAIN t.tables :
    \A n \in 0 .. BUCKETS - 1 :
      LET b == t.tables[i].buckets[n] IN b.filled = 0 \/ b.filled < b.length
=============================================================================
