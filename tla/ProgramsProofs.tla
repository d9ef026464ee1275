---------------------------- MODULE ProgramsProofs ----------------------------
(***************************************************************************)
(* Proofs about three of the sequential programs: the directory walk with  *)
(* its tables of inodes, the crypto miner, and the reader of commands.     *)
(***************************************************************************)
EXTENDS Vtree, Miner, Reader, Utf8, FunctionTheorems, FiniteSetTheorems, SequenceTheorems, TLAPS

Elements(s) == {s[i] : i \in DOMAIN s}

\* Keys are stored up to the length of their bucket and no further.
BucketOK(b) == b.length \in Nat /\ b.filled \in Nat /\ b.filled <= b.length

TableOK(table) ==
  /\ DOMAIN table = {"device", "buckets"}
  /\ table.buckets = [n \in 0 .. BUCKETS - 1 |-> table.buckets[n]]
  /\ \A n \in 0 .. BUCKETS - 1 : BucketOK(table.buckets[n])

\* The table used last, if any, is one of the tables.
TablesOK(u) ==
  /\ u = [tables |-> u.tables, tablep |-> u.tablep]
  /\ u.tables \in Seq(Elements(u.tables))
  /\ u.tablep \in 0 .. Len(u.tables)
  /\ \A i \in 1 .. Len(u.tables) : TableOK(u.tables[i])

-----------------------------------------------------------------------------
LEMMA LeastExists ==
  ASSUME NEW S \in SUBSET Nat, S # {} PROVE \E i \in S : \A j \in S : i <= j
<1> DEFINE R == OpToRel(<, Nat)
<1>1. IsWellFoundedOn(R, Nat)
  BY NatLessThanWellFounded
<1>2. PICK i \in S : \A j \in S : <<j, i>> \notin R
  <2> HIDE DEF R
  <2>1. QED
    BY <1>1, WFMin
<1>3. \A j \in S : <<j, i>> \in R <=> j < i
  BY DEF OpToRel
<1> HIDE DEF R
<1>4. \A j \in S : ~(j < i) /\ j \in Nat /\ i \in Nat
  BY <1>2, <1>3
<1>5. QED
  BY <1>4

LEMMA StoreFits ==
  ASSUME NEW b, BucketOK(b), NEW ino PROVE BucketOK(Store(b, ino))
BY InodesAssumption DEF BucketOK, Store

LEMMA NewTableOK == ASSUME NEW dev PROVE TableOK(NewTable(dev))
BY DEF TableOK, NewTable, BucketOK, EmptyBucket

\* Elements are put at the end of a sequence, or in the place of another.
LEMMA AppendIsSeq ==
  ASSUME NEW s, s \in Seq(Elements(s)), NEW e
  PROVE  /\ Append(s, e) \in Seq(Elements(Append(s, e)))
         /\ Len(Append(s, e)) = Len(s) + 1
         /\ \A i \in 1 .. Len(s) : Append(s, e)[i] = s[i]
         /\ Append(s, e)[Len(s) + 1] = e
<1> DEFINE T == Elements(s) \cup {e}
           u == Append(s, e)
<1>1. s \in Seq(T)
  BY DEF Elements
<1>2. /\ u \in Seq(T) /\ Len(u) = Len(s) + 1 /\ u[Len(s) + 1] = e
      /\ \A i \in 1 .. Len(s) : u[i] = s[i]
  BY <1>1
<1> HIDE DEF T, u
<1>3. u \in Seq(Elements(u))
  BY <1>2 DEF Elements
<1>4. QED
  BY <1>2, <1>3 DEF u

LEMMA ReplaceIsSeq ==
  ASSUME NEW s, s \in Seq(Elements(s)), NEW k \in 1 .. Len(s), NEW e
  PROVE  LET u == [s EXCEPT ![k] = e]
         IN /\ u \in Seq(Elements(u)) /\ Len(u) = Len(s)
            /\ \A i \in 1 .. Len(s) : u[i] = IF i = k THEN e ELSE s[i]
<1> DEFINE T == Elements(s) \cup {e}
           u == [s EXCEPT ![k] = e]
<1>1. s \in Seq(T) /\ e \in T
  BY DEF Elements
<1>2. /\ u \in Seq(T) /\ Len(u) = Len(s)
      /\ \A i \in 1 .. Len(s) : u[i] = IF i = k THEN e ELSE s[i]
  BY <1>1
<1> HIDE DEF T, u
<1>3. u \in Seq(Elements(u))
  BY <1>2 DEF Elements
<1>4. QED
  BY <1>2, <1>3 DEF u

\* The table of a device is found or made, and tablep leads to it.
LEMMA LocateOK ==
  ASSUME NEW u, TablesOK(u), NEW dev
  PROVE  TablesOK(Locate(u, dev)) /\ Locate(u, dev).tablep # 0
<1> DEFINE fits == {i \in DOMAIN u.tables : u.tables[i].device = dev}
<1> USE DEF TablesOK
<1>1. DOMAIN u.tables = 1 .. Len(u.tables) /\ Len(u.tables) \in Nat
  OBVIOUS
<1>2. CASE u.tablep \in fits
  BY <1>1, <1>2 DEF Locate
<1>3. CASE u.tablep \notin fits /\ fits # {}
  <2> DEFINE k == CHOOSE i \in fits : \A j \in fits : i <= j
  <2>1. PICK i \in fits : \A j \in fits : i <= j
    <3>1. fits \subseteq Nat
      BY <1>1
    <3>2. QED
      BY <3>1, <1>3, LeastExists
  <2>2. k \in fits
    BY <2>1
  <2>3. Locate(u, dev) = [u EXCEPT !.tablep = k]
    BY <1>3 DEF Locate
  <2>4. Locate(u, dev) = [tables |-> u.tables, tablep |-> k]
    BY <2>3
  <2> HIDE DEF k
  <2>5. QED
    BY <1>1, <2>2, <2>4
<1>4. CASE fits = {}
  <2> DEFINE s == Append(u.tables, NewTable(dev))
  <2>1. Locate(u, dev) = [tables |-> s, tablep |-> Len(u.tables) + 1]
    BY <1>4 DEF Locate
  <2>2. /\ s \in Seq(Elements(s)) /\ Len(s) = Len(u.tables) + 1
        /\ \A i \in 1 .. Len(u.tables) : s[i] = u.tables[i]
        /\ s[Len(u.tables) + 1] = NewTable(dev)
    BY AppendIsSeq
  <2> HIDE DEF s
  <2>3. \A i \in 1 .. Len(s) : TableOK(s[i])
    BY <1>1, <2>2, NewTableOK
  <2>4. QED
    BY <1>1, <2>1, <2>2, <2>3
<1>5. QED
  BY <1>2, <1>3, <1>4

\* h_enter stores at most one key, in a bucket that has room for it.
LEMMA EnterOK ==
  ASSUME NEW u, TablesOK(u), NEW dev, NEW ino
  PROVE  TablesOK(h_enter(u, dev, ino).t)
<1> DEFINE v == Locate(u, dev)
           n == ino % BUCKETS
           b == BucketOf(v, ino)
           s == v.tables
           p == v.tablep
           table == s[p]
           stored == [table EXCEPT !.buckets[n] = Store(b, ino)]
           w == [s EXCEPT ![p] = stored]
<1>1. TablesOK(v) /\ p # 0
  BY LocateOK
<1>2. p \in 1 .. Len(s) /\ Len(s) \in Nat /\ s \in Seq(Elements(s)) /\ TableOK(table)
  BY <1>1 DEF TablesOK
<1>3. b = table.buckets[n]
  BY DEF BucketOf
<1>4. TableOK(stored)
  <2>1. stored = [table EXCEPT !.buckets = [table.buckets EXCEPT ![n] = Store(b, ino)]]
    OBVIOUS
  <2>2. DOMAIN stored = {"device", "buckets"}
        /\ stored.buckets = [table.buckets EXCEPT ![n] = Store(b, ino)]
    BY <1>2, <2>1 DEF TableOK
  <2>3. n \in 0 .. BUCKETS - 1 => BucketOK(Store(b, ino))
    BY <1>2, <1>3, StoreFits DEF TableOK
  <2> HIDE DEF stored, b, n, table
  <2>4. QED
    BY <1>2, <2>2, <2>3 DEF TableOK
<1>5. w \in Seq(Elements(w)) /\ Len(w) = Len(s)
      /\ \A i \in 1 .. Len(s) : w[i] = IF i = p THEN stored ELSE s[i]
  <2> HIDE DEF stored, s, p
  <2>1. QED
    BY <1>2, ReplaceIsSeq
<1>6. CASE IsOld(b, ino)
  BY <1>1, <1>6 DEF h_enter
<1>7. CASE ~IsOld(b, ino)
  <2>1. h_enter(u, dev, ino).t = [v EXCEPT !.tables = w]
    BY <1>7 DEF h_enter
  <2>2. v = [tables |-> s, tablep |-> p]
    BY <1>1 DEF TablesOK
  <2>3. h_enter(u, dev, ino).t = [tables |-> w, tablep |-> p]
    BY <2>1, <2>2
  <2> HIDE DEF w, s, p, v, stored
  <2>4. \A i \in 1 .. Len(w) : TableOK(w[i])
    BY <1>1, <1>4, <1>5 DEF TablesOK, s
  <2>5. QED
    BY <1>2, <1>5, <2>3, <2>4 DEF TablesOK
<1>8. QED
  BY <1>6, <1>7

-----------------------------------------------------------------------------
(***************************************************************************)
(* Sorting: of entries with distinct names each has a rank of its own.     *)
(***************************************************************************)

Named(s) == \A i, j \in DOMAIN s : s[i].name = s[j].name => i = j

LEMMA SortedEntries ==
  ASSUME NEW f, NEW s \in Seq(Entries(f)), Named(s)
  PROVE  /\ Sorted(s) \in Seq(Entries(f)) /\ Len(Sorted(s)) = Len(s)
         /\ \A i \in 1 .. Len(s) : \E j \in 1 .. Len(s) : Sorted(s)[i] = s[j]
         /\ \A i, j \in 1 .. Len(s) : i < j => Sorted(s)[i].name < Sorted(s)[j].name
<1> DEFINE n == Len(s)
           entries == {s[i] : i \in DOMAIN s}
           before(e) == {g \in entries : g.name < e.name}
           rank(e) == Cardinality(before(e))
           place == [i \in 1 .. n |-> rank(s[i])]
<1>1. n \in Nat /\ DOMAIN s = 1 .. n /\ \A i \in 1 .. n : s[i] \in entries
  OBVIOUS
<1>2. \A i \in 1 .. n : s[i] \in Entries(f) /\ s[i].name \in Int
  <2>1. \A e \in Entries(f) : e.name \in Int
    BY DEF Entries
  <2>2. \A i \in 1 .. n : s[i] \in Entries(f)
    OBVIOUS
  <2>3. QED
    BY <2>1, <2>2
<1>3. \A i, j \in 1 .. n : s[i].name = s[j].name => i = j
  BY <1>1 DEF Named
<1>4. /\ IsFiniteSet(1 .. n) /\ Cardinality(1 .. n) = n
      /\ IsFiniteSet(0 .. n - 1) /\ Cardinality(0 .. n - 1) = n
  <2> HIDE DEF n
  <2>1. /\ IsFiniteSet(1 .. n) /\ Cardinality(1 .. n) = IF 1 > n THEN 0 ELSE n - 1 + 1
        /\ IsFiniteSet(0 .. n - 1)
        /\ Cardinality(0 .. n - 1) = IF 0 > n - 1 THEN 0 ELSE n - 1 - 0 + 1
    <3>1. 0 \in Int /\ 1 \in Int /\ n \in Int /\ n - 1 \in Int
      BY <1>1
    <3>2. QED
      BY <3>1, FS_Interval, Zenon
  <2>2. (IF 1 > n THEN 0 ELSE n - 1 + 1) = n /\ (IF 0 > n - 1 THEN 0 ELSE n - 1 - 0 + 1) = n
    BY <1>1
  <2>3. QED
    BY <2>1, <2>2
<1>5. IsFiniteSet(entries) /\ Cardinality(entries) = n
  <2>1. s \in [1 .. n -> entries] /\ \A e \in entries : \E i \in 1 .. n : s[i] = e
    BY <1>1
  <2>2. \A i, j \in 1 .. n : s[i] = s[j] => i = j
    BY <1>3
  <2> HIDE DEF entries
  <2>3. s \in Bijection(1 .. n, entries)
    BY <2>1, <2>2, Fun_IsBij
  <2>4. ExistsBijection(1 .. n, entries)
    BY <2>3 DEF ExistsBijection
  <2>5. QED
    BY <1>4, <2>4, FS_Bijection
<1>6. \A e : /\ IsFiniteSet(before(e)) /\ before(e) \in SUBSET entries
             /\ rank(e) \in Nat
  <2> HIDE DEF entries
  <2>1. \A e : before(e) \in SUBSET entries
    OBVIOUS
  <2> HIDE DEF before
  <2>2. QED
    BY <1>5, <2>1, FS_Subset, FS_CardinalityType
<1>7. ASSUME NEW i \in 1 .. n PROVE rank(s[i]) \in 0 .. n - 1
  <2>1. s[i] \in entries /\ s[i] \notin before(s[i])
    BY <1>1, <1>2
  <2>2. before(s[i]) # entries
    BY <2>1
  <2> HIDE DEF entries, before, n
  <2>3. Cardinality(before(s[i])) <= n /\ Cardinality(before(s[i])) # n
    BY <1>5, <1>6, <2>2, FS_Subset
  <2>4. QED
    BY <1>1, <1>6, <2>3
<1>8. ASSUME NEW i \in 1 .. n, NEW j \in 1 .. n, s[i].name < s[j].name
      PROVE  rank(s[i]) < rank(s[j])
  <2>1. before(s[i]) \in SUBSET before(s[j])
    <3>1. \A k \in 1 .. n : s[k].name < s[i].name => s[k].name < s[j].name
      BY <1>2, <1>8
    <3>2. QED
      BY <1>1, <3>1
  <2>2. s[i] \in before(s[j]) /\ s[i] \notin before(s[i])
    BY <1>1, <1>2, <1>8
  <2> HIDE DEF before
  <2>3. /\ Cardinality(before(s[i])) <= Cardinality(before(s[j]))
        /\ Cardinality(before(s[i])) # Cardinality(before(s[j]))
    BY <1>6, <2>1, <2>2, FS_Subset
  <2>4. QED
    BY <1>6, <2>3
<1>9. ASSUME NEW i \in 1 .. n, NEW j \in 1 .. n, rank(s[i]) = rank(s[j]) PROVE i = j
  <2>1. ~(s[i].name < s[j].name) /\ ~(s[j].name < s[i].name)
    <3> HIDE DEF rank, n
    <3>1. rank(s[i]) \in Nat /\ rank(s[j]) \in Nat
      BY <1>6
    <3>2. QED
      BY <1>8, <1>9, <3>1
  <2>2. QED
    BY <1>2, <1>3, <2>1
<1>10. \A r \in 0 .. n - 1 : \E i \in 1 .. n : rank(s[i]) = r
  <2>1. \A i \in 1 .. n : place[i] = rank(s[i])
    OBVIOUS
  <2>2. place \in [1 .. n -> 0 .. n - 1]
    <3> HIDE DEF rank, n
    <3>1. QED
      BY <1>7
  <2> HIDE DEF place, rank, n
  <2>3. place \in Injection(1 .. n, 0 .. n - 1)
    BY <1>9, <2>1, <2>2, Fun_IsInj
  <2>4. place \in Surjection(1 .. n, 0 .. n - 1)
    BY <1>4, <2>3, FS_Injection
  <2>5. \A r \in 0 .. n - 1 : \E i \in 1 .. n : place[i] = r
    BY <2>4 DEF Surjection
  <2>6. QED
    BY <2>1, <2>5
<1> DEFINE t1 == Sorted(s)
<1>11. t1 = [i \in 1 .. n |-> CHOOSE e \in entries : rank(e) = i - 1]
  BY <1>1 DEF Sorted
<1>12. ASSUME NEW i \in 1 .. n
       PROVE  /\ t1[i] \in entries /\ rank(t1[i]) = i - 1
              /\ \E j \in 1 .. n : t1[i] = s[j]
  <2>1. i - 1 \in 0 .. n - 1
    BY <1>1
  <2>2. PICK j \in 1 .. n : rank(s[j]) = i - 1
    BY <1>10, <2>1
  <2>3. t1[i] = CHOOSE e \in entries : rank(e) = i - 1
    <3> HIDE DEF t1, entries, rank
    <3>1. QED
      BY <1>11
  <2> HIDE DEF t1, rank
  <2>4. s[j] \in entries
    BY <1>1
  <2>5. t1[i] \in entries /\ rank(t1[i]) = i - 1
    <3> HIDE DEF entries
    <3>1. QED
      BY <2>2, <2>3, <2>4
  <2>6. QED
    BY <1>1, <2>5
<1>13. ASSUME NEW i \in 1 .. n, NEW j \in 1 .. n, i < j PROVE t1[i].name < t1[j].name
  <2>1. PICK k \in 1 .. n : t1[i] = s[k]
    BY <1>12
  <2>2. PICK l \in 1 .. n : t1[j] = s[l]
    BY <1>12
  <2>3. rank(s[k]) < rank(s[l])
    <3> HIDE DEF rank, t1, n
    <3>1. rank(s[k]) = i - 1 /\ rank(s[l]) = j - 1
      BY <1>12, <2>1, <2>2
    <3>2. QED
      BY <1>1, <1>13, <3>1
  <2>4. s[k].name # s[l].name
    <3>1. s[k].name = s[l].name => k = l
      BY <1>3
    <3> HIDE DEF rank
    <3>2. k # l
      <4>1. rank(s[l]) \in Nat
        BY <1>6
      <4>2. QED
        BY <2>3, <4>1
    <3>3. QED
      BY <3>1, <3>2
  <2>5. ~(s[l].name < s[k].name)
    <3> HIDE DEF rank, n
    <3>1. rank(s[k]) \in Nat /\ rank(s[l]) \in Nat
      BY <1>6
    <3>2. QED
      BY <1>8, <2>3, <3>1
  <2> HIDE DEF t1
  <2>6. QED
    BY <1>2, <2>1, <2>2, <2>4, <2>5
<1> HIDE DEF t1, entries, rank
<1>14. t1 \in Seq(Entries(f)) /\ Len(t1) = n
  <2>1. \A i \in 1 .. n : t1[i] \in Entries(f)
    BY <1>2, <1>12
  <2>2. t1 \in [1 .. n -> Entries(f)]
    BY <1>11, <2>1
  <2>3. QED
    BY <1>1, <2>2
<1>15. QED
  BY <1>12, <1>13, <1>14 DEF t1

-----------------------------------------------------------------------------
(***************************************************************************)
(* The visual tree.  Each activation keeps to itself: while it lists, its  *)
(* counter is clear, and while it enters, the counter is the number of     *)
(* entries that remain, all of them directories.                           *)
(***************************************************************************)

Frames(f) ==
  [phase : {"list", "count", "descend"}, todo : Seq(Entries(f)), list : Seq(Entries(f))]

\* The names of the entries kept and of those to come are all different.
Apart(list, todo) ==
  /\ Named(list) /\ Named(todo)
  /\ \A i \in DOMAIN list, j \in DOMAIN todo : list[i].name # todo[j].name

Drawing(in) == in.opt.visual /\ \A n \in DOMAIN in.fs : in.fs[n].kind # "gone"

Subdirectories(in, s) ==
  \A i \in DOMAIN s : s[i].name # Dot /\ in.fs[s[i].node].kind = "dir"

FrameOK(in, d, frame, counters) ==
  /\ frame \in Frames(in.fs)
  /\ frame.phase = "list" => Apart(frame.list, frame.todo)
  /\ Drawing(in) =>
       /\ frame.phase # "count"
       /\ frame.phase = "list" =>
            Subdirectories(in, frame.list) /\ (d <= Deepest => counters[d] = 0)
       /\ frame.phase = "descend" =>
            Subdirectories(in, frame.todo) /\ (d <= Deepest => counters[d] = Len(frame.todo))

StackOK(in, u, counters) ==
  /\ u \in Seq(Frames(in.fs))
  /\ counters = [d \in 0 .. Deepest |-> counters[d]]
  /\ \A d \in 0 .. Deepest : d = 0 \/ d > Len(u) => counters[d] = 0
  /\ \A d \in 1 .. Len(u) : FrameOK(in, d, u[d], counters)

CInv ==
  /\ input \in Inputs /\ arg \in Nat /\ cur_depth = Len(stack)
  /\ StackOK(input, stack, sub_dirs)

LEMMA TakeApart ==
  ASSUME NEW f, NEW list \in Seq(Entries(f)), NEW todo \in Seq(Entries(f)), todo # <<>>,
         Apart(list, todo)
  PROVE  Apart(list, Tail(todo)) /\ Apart(Append(list, Head(todo)), Tail(todo))
<1> DEFINE rest == Tail(todo)
           more == Append(list, Head(todo))
<1>1. /\ Len(list) \in Nat /\ Len(todo) \in Nat \ {0} /\ Head(todo) = todo[1]
      /\ DOMAIN list = 1 .. Len(list) /\ DOMAIN todo = 1 .. Len(todo)
      /\ DOMAIN rest = 1 .. Len(todo) - 1 /\ \A j \in 1 .. Len(todo) - 1 : rest[j] = todo[j + 1]
      /\ DOMAIN more = 1 .. Len(list) + 1 /\ more[Len(list) + 1] = Head(todo)
      /\ \A i \in 1 .. Len(list) : more[i] = list[i]
  OBVIOUS
<1> HIDE DEF rest, more
<1>2. Named(rest)
  <2>1. SUFFICES ASSUME NEW i \in 1 .. Len(todo) - 1, NEW j \in 1 .. Len(todo) - 1,
                        todo[i + 1].name = todo[j + 1].name
                 PROVE  i = j
    BY <1>1 DEF Named
  <2>2. i + 1 \in DOMAIN todo /\ j + 1 \in DOMAIN todo
    BY <1>1
  <2>3. i + 1 = j + 1
    BY <2>1, <2>2 DEF Apart, Named
  <2>4. QED
    BY <1>1, <2>3
<1>3. Named(more)
  BY <1>1 DEF Apart, Named
<1>4. \A i \in DOMAIN list, j \in DOMAIN rest : list[i].name # rest[j].name
  <2>1. SUFFICES ASSUME NEW i \in DOMAIN list, NEW j \in 1 .. Len(todo) - 1
                 PROVE  list[i].name # todo[j + 1].name
    BY <1>1
  <2>2. j + 1 \in DOMAIN todo
    BY <1>1
  <2>3. QED
    BY <2>2 DEF Apart
<1>5. \A i \in DOMAIN more, j \in DOMAIN rest : more[i].name # rest[j].name
  <2>1. SUFFICES ASSUME NEW i \in DOMAIN more, NEW j \in DOMAIN rest
                 PROVE  more[i].name # rest[j].name
    OBVIOUS
  <2>2. CASE i \in 1 .. Len(list)
    BY <1>1, <1>4, <2>2
  <2>3. CASE i = Len(list) + 1
    <3>1. more[i] = todo[1] /\ rest[j] = todo[j + 1]
      BY <1>1, <2>3
    <3>2. 1 \in DOMAIN todo /\ j + 1 \in DOMAIN todo /\ 1 # j + 1
      BY <1>1
    <3>3. QED
      BY <3>1, <3>2 DEF Apart, Named
  <2>4. QED
    BY <1>1, <2>2, <2>3
<1>6. QED
  BY <1>2, <1>3, <1>4, <1>5 DEF Apart, rest, more

\* The activation on top may change, and with it its counter only.
LEMMA ReplaceOK ==
  ASSUME NEW in, NEW u, NEW c, StackOK(in, u, c), u # <<>>, NEW frame, NEW k,
         k = [d \in 0 .. Deepest |-> k[d]],
         \A d \in 0 .. Deepest : d # Len(u) => k[d] = c[d],
         FrameOK(in, Len(u), frame, k)
  PROVE  StackOK(in, [u EXCEPT ![Len(u)] = frame], k)
<1> DEFINE w == [u EXCEPT ![Len(u)] = frame]
<1>1. u \in Seq(Frames(in.fs)) /\ Len(u) \in Nat \ {0} /\ frame \in Frames(in.fs)
  BY DEF StackOK, FrameOK
<1>2. /\ w \in Seq(Frames(in.fs)) /\ Len(w) = Len(u) /\ w[Len(u)] = frame
      /\ \A d \in 1 .. Len(u) : d # Len(u) => w[d] = u[d]
  BY <1>1
<1> HIDE DEF w
<1>3. \A d \in 0 .. Deepest : d = 0 \/ d > Len(w) => k[d] = 0
  BY <1>1, <1>2, VtreeAssumption DEF StackOK
<1>4. ASSUME NEW d \in 1 .. Len(w) PROVE FrameOK(in, d, w[d], k)
  <2>1. CASE d = Len(u)
    BY <1>2, <2>1
  <2>2. CASE d # Len(u)
    <3>1. FrameOK(in, d, u[d], c) /\ w[d] = u[d]
      BY <1>2, <2>2 DEF StackOK
    <3>2. d <= Deepest => k[d] = c[d]
      BY <1>1, <1>2, <2>2, VtreeAssumption
    <3>3. QED
      BY <3>1, <3>2 DEF FrameOK
  <2>3. QED
    BY <2>1, <2>2
<1>5. QED
  BY <1>2, <1>3, <1>4 DEF StackOK, w

\* A directory is entered with a clear counter.
LEMMA PushOK ==
  ASSUME NEW in \in Inputs, NEW u, NEW c, StackOK(in, u, c), NEW node \in DOMAIN in.fs
  PROVE  StackOK(in, Append(u, [phase |-> "list", todo |-> in.fs[node].entries,
                                list |-> <<>>]), c)
<1> DEFINE frame == [phase |-> "list", todo |-> in.fs[node].entries, list |-> <<>>]
           w == Append(u, frame)
<1>1. in.fs[node].entries \in Seq(Entries(in.fs)) /\ Named(in.fs[node].entries)
  <2> DEFINE f == in.fs
             Nodes == [kind : {"dir", "file", "gone"}, readable : BOOLEAN,
                       dev : Int, ino : Int, blocks : Int, entries : Seq(Entries(f))]
  <2>1. FileSystem(f)
    BY VtreeAssumption
  <2>2. f \in Seq(Nodes)
    BY <2>1 DEF FileSystem
  <2>3. \A n \in Nodes : n.entries \in Seq(Entries(f))
    OBVIOUS
  <2>4. \A n \in DOMAIN f : \A i, j \in DOMAIN f[n].entries :
          f[n].entries[i].name = f[n].entries[j].name => i = j
    BY <2>1 DEF FileSystem
  <2> HIDE DEF f, Nodes
  <2>5. \A n \in DOMAIN f : f[n] \in Nodes
    BY <2>2
  <2>6. QED
    BY <2>3, <2>4, <2>5 DEF Named, f
<1>2. frame \in Frames(in.fs)
  BY <1>1 DEF Frames
<1>3. frame.phase = "list" /\ frame.todo = in.fs[node].entries /\ frame.list = <<>>
  OBVIOUS
<1> HIDE DEF frame
<1>4. /\ u \in Seq(Frames(in.fs)) /\ Len(u) \in Nat
      /\ w \in Seq(Frames(in.fs)) /\ Len(w) = Len(u) + 1 /\ w[Len(u) + 1] = frame
      /\ \A d \in 1 .. Len(u) : w[d] = u[d]
  BY <1>2 DEF StackOK
<1> HIDE DEF w
<1>5. FrameOK(in, Len(u) + 1, frame, c)
  <2>1. DOMAIN <<>> = {}
    OBVIOUS
  <2>2. Apart(<<>>, in.fs[node].entries) /\ Subdirectories(in, <<>>)
    BY <1>1, <2>1 DEF Apart, Named, Subdirectories
  <2>3. Len(u) + 1 <= Deepest => c[Len(u) + 1] = 0
    BY <1>4, VtreeAssumption DEF StackOK
  <2>4. QED
    BY <1>2, <1>3, <2>2, <2>3 DEF FrameOK
<1>6. \A d \in 1 .. Len(w) : FrameOK(in, d, w[d], c)
  BY <1>4, <1>5 DEF StackOK
<1>7. \A d \in 0 .. Deepest : d = 0 \/ d > Len(w) => c[d] = 0
  BY <1>4, VtreeAssumption DEF StackOK
<1>8. QED
  BY <1>4, <1>6, <1>7 DEF StackOK, w, frame

\* It is left with a clear counter.
LEMMA PopOK ==
  ASSUME NEW in, NEW u, NEW c, StackOK(in, u, c), u # <<>>
  PROVE  /\ StackOK(in, SubSeq(u, 1, Len(u) - 1), [c EXCEPT ![Len(u)] = 0])
         /\ Len(SubSeq(u, 1, Len(u) - 1)) = Len(u) - 1
<1> DEFINE w == SubSeq(u, 1, Len(u) - 1)
           k == [c EXCEPT ![Len(u)] = 0]
<1>1. u \in Seq(Frames(in.fs)) /\ Len(u) \in Nat \ {0}
  BY DEF StackOK
<1>2. /\ w \in Seq(Frames(in.fs)) /\ Len(w) = Len(u) - 1
      /\ \A d \in 1 .. Len(u) - 1 : w[d] = u[d]
  <2> DEFINE T == Frames(in.fs)
             m == Len(u) - 1
  <2>1. m \in Nat /\ \A d \in 1 .. m : u[d] \in T
    BY <1>1
  <2> HIDE DEF T, m
  <2>2. /\ SubSeq(u, 1, m) \in Seq(T) /\ Len(SubSeq(u, 1, m)) = IF 1 <= m THEN m - 1 + 1 ELSE 0
        /\ \A d \in 1 .. m - 1 + 1 : SubSeq(u, 1, m)[d] = u[1 + d - 1]
    BY <2>1, SubSeqProperties
  <2>3. /\ (IF 1 <= m THEN m - 1 + 1 ELSE 0) = m /\ m - 1 + 1 = m
        /\ \A d \in 1 .. m : 1 + d - 1 = d
    BY <2>1
  <2>4. QED
    BY <2>2, <2>3 DEF T, m
<1>3. /\ k = [d \in 0 .. Deepest |-> k[d]]
      /\ \A d \in 0 .. Deepest : k[d] = IF d = Len(u) THEN 0 ELSE c[d]
  BY DEF StackOK
<1> HIDE DEF w, k
<1>4. \A d \in 0 .. Deepest : d = 0 \/ d > Len(w) => k[d] = 0
  BY <1>1, <1>2, <1>3, VtreeAssumption DEF StackOK
<1>5. ASSUME NEW d \in 1 .. Len(w) PROVE FrameOK(in, d, w[d], k)
  <2>1. FrameOK(in, d, u[d], c) /\ w[d] = u[d]
    BY <1>1, <1>2 DEF StackOK
  <2>2. d <= Deepest => k[d] = c[d]
    BY <1>1, <1>2, <1>3, VtreeAssumption
  <2>3. QED
    BY <2>1, <2>2 DEF FrameOK
<1>6. QED
  BY <1>2, <1>3, <1>4, <1>5 DEF StackOK, w, k

LEMMA TopOK ==
  ASSUME CInv, stack # <<>>
  PROVE  /\ Len(stack) \in Nat \ {0} /\ cur_depth = Len(stack)
         /\ Top \in Frames(fs) /\ FrameOK(input, Len(stack), Top, sub_dirs)
         /\ Top.todo \in Seq(Entries(fs)) /\ Top.list \in Seq(Entries(fs))
         /\ Top.todo # <<>> => /\ Entry \in Entries(fs) /\ Entry.node \in DOMAIN fs
                               /\ Entry = Top.todo[1]
                               /\ Tail(Top.todo) \in Seq(Entries(fs))
                               /\ Len(Tail(Top.todo)) = Len(Top.todo) - 1
<1>1. stack \in Seq(Frames(fs)) /\ cur_depth = Len(stack)
  BY DEF CInv, StackOK, fs
<1>2. Len(stack) \in Nat \ {0} /\ Top \in Frames(fs)
  BY <1>1 DEF Top
<1>3. FrameOK(input, Len(stack), Top, sub_dirs)
  <2>1. Len(stack) \in 1 .. Len(stack)
    BY <1>2
  <2>2. QED
    BY <2>1 DEF CInv, StackOK, Top
<1>4. Top.todo \in Seq(Entries(fs)) /\ Top.list \in Seq(Entries(fs))
  BY <1>2 DEF Frames
<1>5. ASSUME Top.todo # <<>>
      PROVE  /\ Entry \in Entries(fs) /\ Entry = Top.todo[1]
             /\ Tail(Top.todo) \in Seq(Entries(fs))
             /\ Len(Tail(Top.todo)) = Len(Top.todo) - 1
  <2> DEFINE q == Top.todo
             T == Entries(fs)
  <2>1. q \in Seq(T) /\ q # <<>>
    BY <1>4, <1>5
  <2> HIDE DEF q, T
  <2>2. Head(q) \in T /\ Head(q) = q[1] /\ Tail(q) \in Seq(T) /\ Len(Tail(q)) = Len(q) - 1
    BY <2>1
  <2>3. QED
    BY <2>2 DEF q, T, Entry
<1>6. \A e \in Entries(fs) : e.node \in DOMAIN fs
  BY DEF Entries
<1>7. QED
  BY <1>1, <1>2, <1>3, <1>4, <1>5, <1>6

LEMMA TakeFrame ==
  ASSUME NEW f, NEW frame \in Frames(f), Tail(frame.todo) \in Seq(Entries(f))
  PROVE  /\ Take(frame) \in Frames(f) /\ Take(frame).phase = frame.phase
         /\ Take(frame).todo = Tail(frame.todo) /\ Take(frame).list = frame.list
BY DEF Frames, Take

\* Where no stat fails, it describes the node it is given.
LEMMA StatOK ==
  ASSUME CInv, Drawing(input), NEW node \in DOMAIN fs
  PROVE  Stat(node) = node /\ (IsDirectory(node) <=> fs[node].kind = "dir")
<1>1. fs \in Seq([kind : {"dir", "file", "gone"}, readable : BOOLEAN,
                  dev : Int, ino : Int, blocks : Int, entries : Seq(Entries(fs))])
  BY VtreeAssumption DEF CInv, FileSystem, fs
<1>2. node # 0
  BY <1>1
<1>3. QED
  BY <1>2 DEF Stat, IsDirectory, Drawing, fs, NoNode

LEMMA GetTreeOK ==
  ASSUME NEW frames, NEW c, input \in Inputs, StackOK(input, frames, c),
         NEW node \in DOMAIN fs, GetTree(node, Len(frames), frames)
  PROVE  StackOK(input, stack', c) /\ cur_depth' = Len(stack')
<1> DEFINE frame == [phase |-> "list", todo |-> fs[node].entries, list |-> <<>>]
<1>1. \/ stack' = frames /\ cur_depth' = Len(frames)
      \/ stack' = Append(frames, frame) /\ cur_depth' = Len(frames) + 1
  BY DEF GetTree, Down
<1>2. StackOK(input, Append(frames, frame), c)
  BY PushOK DEF fs
<1>3. Len(Append(frames, frame)) = Len(frames) + 1
  <2>1. frames \in Seq(Frames(input.fs)) /\ Append(frames, frame) \in Seq(Frames(input.fs))
    BY <1>2 DEF StackOK
  <2> HIDE DEF frame
  <2>2. frames \in Seq(Frames(input.fs) \cup {frame})
    BY <2>1
  <2>3. QED
    BY <2>2
<1> HIDE DEF frame
<1>4. QED
  BY <1>1, <1>2, <1>3

LEMMA ArgumentCInv == ASSUME CInv, Argument PROVE CInv'
<1>1. /\ stack = <<>> /\ arg < Len(input.args) /\ arg' = arg + 1 /\ input' = input
      /\ sub_dirs' = sub_dirs /\ GetTree(input.args[arg + 1], 0, <<>>)
      /\ input \in Inputs /\ arg \in Nat
  BY DEF Argument, CInv
<1>2. input.args \in Seq(DOMAIN fs)
  BY <1>1, VtreeAssumption DEF fs
<1>3. input.args[arg + 1] \in DOMAIN fs
  BY <1>1, <1>2
<1>4. StackOK(input, <<>>, sub_dirs) /\ Len(<<>>) = 0
  BY <1>1 DEF CInv
<1>5. StackOK(input, stack', sub_dirs) /\ cur_depth' = Len(stack')
  BY <1>1, <1>3, <1>4, GetTreeOK
<1>6. QED
  BY <1>1, <1>5 DEF CInv

\* A step of the loop on top that changes its own activation and counter.
LEMMA SetTopCInv ==
  ASSUME CInv, stack # <<>>, NEW frame, SetTop(frame), input' = input, arg' = arg,
         cur_depth' = cur_depth, sub_dirs' = [d \in 0 .. Deepest |-> sub_dirs'[d]],
         \A d \in 0 .. Deepest : d # Len(stack) => sub_dirs'[d] = sub_dirs[d],
         FrameOK(input, Len(stack), frame, sub_dirs')
  PROVE  CInv'
<1>1. StackOK(input, stack', sub_dirs')
  BY ReplaceOK DEF CInv, SetTop
<1>2. Len(stack') = Len(stack)
  BY DEF SetTop, CInv, StackOK
<1>3. QED
  BY <1>1, <1>2 DEF CInv

LEMMA ListEntryCInv == ASSUME CInv, ListEntry PROVE CInv'
<1> DEFINE kept == [Take(Top) EXCEPT !.list = Append(@, Entry)]
<1>1. /\ stack # <<>> /\ Top.phase = "list" /\ Top.todo # <<>>
      /\ input' = input /\ arg' = arg /\ cur_depth' = cur_depth /\ sub_dirs' = sub_dirs
  BY DEF ListEntry, In
<1>2. \/ /\ Counting \/ (Entry.name # Dot /\ IsDirectory(stb'))
         /\ SetTop(kept)
      \/ SetTop(Take(Top))
  BY DEF ListEntry
<1>3. /\ Top \in Frames(fs) /\ Top.todo \in Seq(Entries(fs)) /\ Top.list \in Seq(Entries(fs))
      /\ Entry \in Entries(fs) /\ Entry.node \in DOMAIN fs /\ Entry = Head(Top.todo)
      /\ Tail(Top.todo) \in Seq(Entries(fs))
      /\ FrameOK(input, Len(stack), Top, sub_dirs)
  BY <1>1, TopOK DEF Entry
<1>4. Append(Top.list, Entry) \in Seq(Entries(fs))
  BY <1>3
<1>5. /\ Take(Top) \in Frames(fs) /\ Take(Top).phase = "list"
      /\ Take(Top).todo = Tail(Top.todo) /\ Take(Top).list = Top.list
  BY <1>1, <1>3, TakeFrame
<1>6. /\ kept \in Frames(fs) /\ kept.phase = "list"
      /\ kept.todo = Tail(Top.todo) /\ kept.list = Append(Top.list, Entry)
  <2>1. kept = [Take(Top) EXCEPT !.list = Append(Top.list, Entry)]
    <3>1. Take(Top) \in [phase : {"list", "count", "descend"}, todo : Seq(Entries(fs)),
                         list : Seq(Entries(fs))]
      BY <1>5 DEF Frames
    <3>2. QED
      BY <1>5, <3>1
  <2>2. QED
    BY <1>1, <1>4, <1>5, <2>1 DEF Frames
<1> HIDE DEF kept
<1>7. Apart(Top.list, Tail(Top.todo)) /\ Apart(Append(Top.list, Entry), Tail(Top.todo))
  BY <1>1, <1>3, TakeApart DEF FrameOK
<1>8. /\ sub_dirs = [d \in 0 .. Deepest |-> sub_dirs[d]]
      /\ Drawing(input) => /\ Subdirectories(input, Top.list)
                           /\ Len(stack) <= Deepest => sub_dirs[Len(stack)] = 0
  BY <1>1, <1>3 DEF CInv, StackOK, FrameOK
<1>9. CASE SetTop(Take(Top))
  <2>1. FrameOK(input, Len(stack), Take(Top), sub_dirs)
    BY <1>5, <1>7, <1>8 DEF FrameOK, fs
  <2>2. QED
    BY <1>1, <1>8, <1>9, <2>1, SetTopCInv
<1>10. CASE (Counting \/ (Entry.name # Dot /\ IsDirectory(stb'))) /\ SetTop(kept)
  <2>1. ASSUME Drawing(input) PROVE Subdirectories(input, Append(Top.list, Entry))
    <3>1. ~Counting
      BY <2>1 DEF Counting, Drawing, opt
    <3>2. stb' = Stat(Entry.node)
      BY <1>10, <3>1 DEF ListEntry
    <3>3. Entry.name # Dot /\ fs[Entry.node].kind = "dir"
      BY <1>3, <1>10, <2>1, <3>1, <3>2, StatOK
    <3> DEFINE q == Top.list
               m == Append(q, Entry)
    <3>4. /\ DOMAIN q = 1 .. Len(q) /\ Len(q) \in Nat /\ DOMAIN m = 1 .. Len(q) + 1
          /\ m[Len(q) + 1] = Entry /\ \A i \in 1 .. Len(q) : m[i] = q[i]
      BY <1>3
    <3> HIDE DEF m
    <3>5. \A i \in DOMAIN m : m[i].name # Dot /\ fs[m[i].node].kind = "dir"
      BY <1>8, <2>1, <3>3, <3>4 DEF Subdirectories, fs
    <3>6. QED
      BY <3>5 DEF Subdirectories, fs, m
  <2>2. FrameOK(input, Len(stack), kept, sub_dirs)
    BY <1>6, <1>7, <1>8, <2>1 DEF FrameOK, fs
  <2>3. QED
    BY <1>1, <1>8, <1>10, <2>2, SetTopCInv
<1>11. QED
  BY <1>2, <1>9, <1>10

LEMMA ListDoneCInv == ASSUME CInv, ListDone PROVE CInv'
<1> DEFINE list == IF opt.sort THEN Sorted(Top.list) ELSE Top.list
           phase == IF Counting THEN "count" ELSE "descend"
           frame == [Top EXCEPT !.phase = phase, !.todo = list, !.list = list]
<1>1. /\ stack # <<>> /\ Top.phase = "list"
      /\ input' = input /\ arg' = arg /\ cur_depth' = cur_depth /\ SetTop(frame)
      /\ sub_dirs' = IF opt.visual THEN [sub_dirs EXCEPT ![cur_depth] = @ + Len(Top.list)]
                     ELSE sub_dirs
  BY DEF ListDone, In
<1>2. /\ Top \in Frames(fs) /\ Top.list \in Seq(Entries(fs)) /\ Len(stack) \in Nat \ {0} /\ cur_depth = Len(stack)
      /\ FrameOK(input, Len(stack), Top, sub_dirs)
  BY <1>1, TopOK
<1>3. Named(Top.list)
  BY <1>1, <1>2 DEF FrameOK, Apart
<1>4. /\ list \in Seq(Entries(fs)) /\ Len(list) = Len(Top.list)
      /\ \A i \in 1 .. Len(list) : \E j \in 1 .. Len(Top.list) : list[i] = Top.list[j]
  BY <1>2, <1>3, SortedEntries
<1>5. phase \in {"count", "descend"} /\ (Drawing(input) => phase = "descend" /\ opt.visual)
  BY DEF Counting, Drawing, opt
<1> HIDE DEF list, phase
<1>6. frame \in Frames(fs) /\ frame.phase = phase /\ frame.todo = list /\ frame.list = list
  BY <1>2, <1>4, <1>5 DEF Frames
<1> HIDE DEF frame
<1>7. /\ sub_dirs = [d \in 0 .. Deepest |-> sub_dirs[d]]
      /\ Drawing(input) => /\ Subdirectories(input, Top.list)
                           /\ Len(stack) <= Deepest => sub_dirs[Len(stack)] = 0
  BY <1>1, <1>2 DEF CInv, StackOK, FrameOK
<1>8. /\ sub_dirs' = [d \in 0 .. Deepest |-> sub_dirs'[d]]
      /\ \A d \in 0 .. Deepest : d # Len(stack) => sub_dirs'[d] = sub_dirs[d]
  BY <1>1, <1>2, <1>7
<1>9. ASSUME Drawing(input)
       PROVE  /\ Subdirectories(input, list)
              /\ Len(stack) <= Deepest => sub_dirs'[Len(stack)] = Len(list)
  <2>1. Subdirectories(input, list)
    <3>1. DOMAIN list = 1 .. Len(list) /\ DOMAIN Top.list = 1 .. Len(Top.list)
      BY <1>2, <1>4
    <3>2. QED
      BY <1>4, <1>7, <1>9, <3>1 DEF Subdirectories
  <2>2. ASSUME Len(stack) <= Deepest PROVE sub_dirs'[Len(stack)] = Len(list)
    <3>1. Len(stack) \in 0 .. Deepest /\ sub_dirs[Len(stack)] = 0 /\ Len(Top.list) \in Nat
      BY <1>2, <1>7, <1>9, <2>2, VtreeAssumption
    <3>2. sub_dirs'[Len(stack)] = sub_dirs[Len(stack)] + Len(Top.list)
      BY <1>1, <1>2, <1>5, <1>7, <1>9, <3>1
    <3>3. QED
      BY <1>4, <3>1, <3>2
  <2>3. QED
    BY <2>1, <2>2
<1>10. FrameOK(input, Len(stack), frame, sub_dirs')
  BY <1>5, <1>6, <1>9 DEF FrameOK, fs
<1>11. QED
  BY <1>1, <1>8, <1>10, SetTopCInv

LEMMA CountEntryCInv == ASSUME CInv, CountEntry PROVE CInv'
<1>1. /\ stack # <<>> /\ Top.phase = "count" /\ Top.todo # <<>>
      /\ input' = input /\ arg' = arg /\ cur_depth' = cur_depth /\ sub_dirs' = sub_dirs
      /\ SetTop(Take(Top))
  BY DEF CountEntry, In
<1>2. /\ Top \in Frames(fs) /\ FrameOK(input, Len(stack), Top, sub_dirs)
      /\ Tail(Top.todo) \in Seq(Entries(fs)) /\ Top.list \in Seq(Entries(fs))
  BY <1>1, TopOK
<1>3. Take(Top) \in Frames(fs) /\ Take(Top).phase = "count"
  BY <1>1, <1>2, TakeFrame
<1>4. FrameOK(input, Len(stack), Take(Top), sub_dirs)
  BY <1>1, <1>2, <1>3 DEF FrameOK, fs
<1>5. sub_dirs = [d \in 0 .. Deepest |-> sub_dirs[d]]
  BY DEF CInv, StackOK
<1>6. QED
  BY <1>1, <1>4, <1>5, SetTopCInv

LEMMA CountDoneCInv == ASSUME CInv, CountDone PROVE CInv'
<1> DEFINE frame == [Top EXCEPT !.phase = "descend", !.todo = Top.list]
<1>1. /\ stack # <<>> /\ Top.phase = "count"
      /\ input' = input /\ arg' = arg /\ cur_depth' = cur_depth /\ sub_dirs' = sub_dirs
      /\ SetTop(frame)
  BY DEF CountDone, In
<1>2. /\ Top \in Frames(fs) /\ FrameOK(input, Len(stack), Top, sub_dirs)
      /\ Top.list \in Seq(Entries(fs))
  BY <1>1, TopOK
<1>3. frame \in Frames(fs) /\ frame.phase = "descend"
  BY <1>2 DEF Frames
<1> HIDE DEF frame
<1>4. FrameOK(input, Len(stack), frame, sub_dirs)
  BY <1>1, <1>2, <1>3 DEF FrameOK, fs
<1>5. sub_dirs = [d \in 0 .. Deepest |-> sub_dirs[d]]
  BY DEF CInv, StackOK
<1>6. QED
  BY <1>1, <1>4, <1>5, SetTopCInv

LEMMA DescendCInv == ASSUME CInv, Descend PROVE CInv'
<1> DEFINE frames == [stack EXCEPT ![Len(stack)] = Take(Top)]
           k == Len(stack)
<1>1. /\ stack # <<>> /\ Top.phase = "descend" /\ Top.todo # <<>>
      /\ input' = input /\ arg' = arg
      /\ \/ Entry.name = Dot /\ stack' = frames /\ UNCHANGED <<cur_depth, sub_dirs>>
         \/ /\ Entry.name # Dot /\ GetTree(Entry.node, cur_depth, frames)
            /\ sub_dirs' = IF IsDirectory(stb') THEN [sub_dirs EXCEPT ![cur_depth] = @ - 1]
                           ELSE sub_dirs
  BY DEF Descend, In
<1>2. /\ Top \in Frames(fs) /\ FrameOK(input, k, Top, sub_dirs) /\ k \in Nat \ {0}
      /\ cur_depth = k /\ Top.todo \in Seq(Entries(fs)) /\ Top.list \in Seq(Entries(fs))
      /\ Entry = Top.todo[1] /\ Entry.node \in DOMAIN fs
      /\ Tail(Top.todo) \in Seq(Entries(fs)) /\ Len(Tail(Top.todo)) = Len(Top.todo) - 1
  BY <1>1, TopOK
<1>4. Take(Top) \in Frames(fs) /\ Take(Top).phase = "descend" /\ Take(Top).todo = Tail(Top.todo)
  BY <1>1, <1>2, TakeFrame
<1>5. /\ stack \in Seq(Frames(fs)) /\ frames \in Seq(Frames(fs)) /\ Len(frames) = k
      /\ sub_dirs = [d \in 0 .. Deepest |-> sub_dirs[d]]
  BY <1>2, <1>4 DEF CInv, StackOK, fs
<1>6. sub_dirs' = sub_dirs \/ sub_dirs' = [sub_dirs EXCEPT ![k] = @ - 1]
  BY <1>1, <1>2
<1>7. /\ sub_dirs' = [d \in 0 .. Deepest |-> sub_dirs'[d]]
      /\ \A d \in 0 .. Deepest : d # k => sub_dirs'[d] = sub_dirs[d]
  BY <1>5, <1>6
<1>8. ASSUME Drawing(input)
      PROVE  /\ Subdirectories(input, Tail(Top.todo))
             /\ k <= Deepest => sub_dirs'[k] = Len(Tail(Top.todo))
  <2>1. /\ Subdirectories(input, Top.todo)
        /\ k <= Deepest => sub_dirs[k] = Len(Top.todo)
    BY <1>1, <1>2, <1>8 DEF FrameOK
  <2> DEFINE q == Top.todo
             T == Entries(fs)
  <2>2. q \in Seq(T) /\ q # <<>>
    BY <1>1, <1>2
  <2>3. Subdirectories(input, q) /\ Entry = q[1]
    BY <1>2, <2>1
  <2> HIDE DEF q, T
  <2>4. /\ DOMAIN q = 1 .. Len(q) /\ Len(q) \in Nat \ {0} /\ DOMAIN Tail(q) = 1 .. Len(q) - 1
        /\ \A i \in 1 .. Len(q) - 1 : Tail(q)[i] = q[i + 1] /\ i + 1 \in 1 .. Len(q)
    BY <2>2
  <2>5. Subdirectories(input, Tail(q))
    BY <2>3, <2>4 DEF Subdirectories
  <2>6. Entry.name # Dot /\ fs[Entry.node].kind = "dir"
    BY <2>3, <2>4 DEF Subdirectories, fs
  <2>7. IsDirectory(stb')
    BY <1>1, <1>2, <1>8, <2>6, StatOK DEF GetTree
  <2>8. ASSUME k <= Deepest PROVE sub_dirs'[k] = sub_dirs[k] - 1
    <3>1. k \in 0 .. Deepest
      BY <1>2, <2>8, VtreeAssumption
    <3> HIDE DEF k
    <3>2. QED
      BY <1>1, <1>2, <1>5, <2>6, <2>7, <3>1
  <2>9. QED
    BY <1>2, <2>1, <2>5, <2>8 DEF q
<1>9. FrameOK(input, k, Take(Top), sub_dirs')
  BY <1>4, <1>8 DEF FrameOK, fs
<1>10. StackOK(input, frames, sub_dirs')
  BY <1>1, <1>7, <1>9, ReplaceOK DEF CInv
<1>11. CASE stack' = frames /\ cur_depth' = cur_depth
  BY <1>1, <1>2, <1>5, <1>10, <1>11 DEF CInv
<1>12. CASE GetTree(Entry.node, cur_depth, frames)
  <2> HIDE DEF frames
  <2>1. GetTree(Entry.node, Len(frames), frames) /\ input \in Inputs
    BY <1>2, <1>5, <1>12 DEF CInv
  <2>2. StackOK(input, stack', sub_dirs') /\ cur_depth' = Len(stack')
    BY <1>2, <1>10, <2>1, GetTreeOK
  <2>3. QED
    BY <1>1, <2>2 DEF CInv
<1>13. QED
  BY <1>1, <1>11, <1>12

LEMMA LeaveCInv == ASSUME CInv, Leave PROVE CInv'
<1>1. /\ stack # <<>> /\ input' = input /\ arg' = arg
      /\ sub_dirs' = [sub_dirs EXCEPT ![cur_depth] = 0] /\ cur_depth' = cur_depth - 1
      /\ stack' = SubSeq(stack, 1, Len(stack) - 1)
  BY DEF Leave, In
<1>2. StackOK(input, stack', sub_dirs') /\ Len(stack') = Len(stack) - 1
  BY <1>1, PopOK DEF CInv
<1>3. QED
  BY <1>1, <1>2 DEF CInv

LEMMA VtreeCInv == (VtreeInit => CInv) /\ (CInv /\ [VtreeNext]_vtreeVars => CInv')
<1>1. VtreeInit => CInv
  <2>1. \A T : <<>> \in Seq(T) /\ Len(<<>>) = 0
    OBVIOUS
  <2>2. ASSUME VtreeInit PROVE StackOK(input, <<>>, sub_dirs)
    <3>1. /\ sub_dirs = [d \in 0 .. Deepest |-> sub_dirs[d]]
          /\ \A d \in 0 .. Deepest : sub_dirs[d] = 0
      BY <2>2 DEF VtreeInit
    <3>2. \A d \in 1 .. Len(<<>>) : FALSE
      BY <2>1
    <3>3. QED
      BY <2>1, <3>1, <3>2 DEF StackOK
  <2>3. QED
    BY <2>1, <2>2 DEF VtreeInit, CInv
<1>2. CInv /\ Finish => CInv'
  BY DEF Finish, CInv
<1>3. CInv /\ UNCHANGED vtreeVars => CInv'
  BY DEF vtreeVars, CInv
<1>4. QED
  BY <1>1, <1>2, <1>3, ArgumentCInv, ListEntryCInv, ListDoneCInv, CountEntryCInv,
     CountDoneCInv, DescendCInv, LeaveCInv
  DEF VtreeNext

\* Whatever file systems, arguments and options a run is given, sorted or not,
\* while the directories of a directory are entered its counter is the number
\* of those that remain, so that only the last is drawn with a corner, and the
\* counters below are clear (vtree.c:216-223, 359-400, 448).
THEOREM CornersAreDrawn == VtreeSpec => []CornersAreLast
<1>1. CInv => CornersAreLast
  <2> SUFFICES ASSUME CInv PROVE CornersAreLast
    OBVIOUS
  <2>1. \A d \in 0 .. Deepest : d = 0 \/ d > cur_depth => sub_dirs[d] = 0
    BY DEF CInv, StackOK
  <2>2. ASSUME opt.visual, ~Dangling, NEW d \in DOMAIN stack, d <= Deepest,
               stack[d].phase = "descend"
        PROVE  sub_dirs[d] = Len(stack[d].todo)
    <3>1. Drawing(input)
      BY <2>2 DEF Drawing, Dangling, opt, fs
    <3>2. d \in 1 .. Len(stack)
      BY DEF CInv, StackOK
    <3>3. QED
      BY <2>2, <3>1, <3>2 DEF CInv, StackOK, FrameOK
  <2>3. QED
    BY <2>1, <2>2 DEF CornersAreLast
<1>2. QED
  BY <1>1, VtreeCInv, PTL DEF VtreeSpec

-----------------------------------------------------------------------------
(***************************************************************************)
(* Files are counted once.  A key is in the bucket that h_enter searches   *)
(* for it, of the only table of its device, behind a first place of zero.  *)
(***************************************************************************)

BucketKeeps(b, n) ==
  /\ b.filled > 0 => b.keys[0] = 0
  /\ \A k \in 1 .. b.filled : b.keys[k] \in Nat \ {0} /\ b.keys[k] % BUCKETS = n

Kept(u) ==
  /\ TablesOK(u)
  /\ \A i, j \in 1 .. Len(u.tables) : u.tables[i].device = u.tables[j].device => i = j
  /\ \A i \in 1 .. Len(u.tables) : \A n \in 0 .. BUCKETS - 1 :
       BucketKeeps(u.tables[i].buckets[n], n)

\* The file f is in the tables u.
Has(u, f) ==
  \E i \in 1 .. Len(u.tables) : \E n \in 0 .. BUCKETS - 1 :
    \E k \in 1 .. u.tables[i].buckets[n].filled :
      f = <<u.tables[i].device, u.tables[i].buckets[n].keys[k]>>

LEMMA KeysOf ==
  ASSUME NEW table, NEW e
  PROVE  e \in Keys(table) <=> \E n \in 0 .. BUCKETS - 1 :
           \E k \in 1 .. table.buckets[n].filled : e = table.buckets[n].keys[k]
BY DEF Keys

LEMMA SeenIsHas ==
  ASSUME TablesOK(t) PROVE \A f : f \in Seen <=> Has(t, f)
<1>1. DOMAIN t.tables = 1 .. Len(t.tables)
  BY DEF TablesOK
<1>2. \A f : f \in Seen <=> \E i \in DOMAIN t.tables :
               f \in {t.tables[i].device} \X Keys(t.tables[i])
  BY DEF Seen, Keys
<1>3. \A f : \A i : f \in {t.tables[i].device} \X Keys(t.tables[i])
                  <=> \E e \in Keys(t.tables[i]) : f = <<t.tables[i].device, e>>
  OBVIOUS
<1>4. QED
  BY <1>1, <1>2, <1>3, KeysOf DEF Has

LEMMA SeenIsHasNext ==
  ASSUME TablesOK(t') PROVE \A f : f \in Seen' <=> Has(t', f)
<1>1. DOMAIN t'.tables = 1 .. Len(t'.tables)
  BY DEF TablesOK
<1>2. \A f : f \in Seen' <=> \E i \in DOMAIN t'.tables :
               f \in {t'.tables[i].device} \X Keys(t'.tables[i])
  BY DEF Seen, Keys
<1>3. \A f : \A i : f \in {t'.tables[i].device} \X Keys(t'.tables[i])
                  <=> \E e \in Keys(t'.tables[i]) : f = <<t'.tables[i].device, e>>
  OBVIOUS
<1>4. QED
  BY <1>1, <1>2, <1>3, KeysOf DEF Has

\* The search ends at the key, wherever it is, and is not misled by the zero.
LEMMA OldIsKey ==
  ASSUME NEW b, NEW n, BucketOK(b), BucketKeeps(b, n), NEW ino \in Nat \ {0}
  PROVE  IsOld(b, ino) <=> \E k \in 1 .. b.filled : b.keys[k] = ino
<1> DEFINE hits == {i \in 0 .. b.filled - 1 : b.keys[i] = ino}
<1>1. b.filled \in Nat /\ hits \in SUBSET Nat
  BY DEF BucketOK
<1>2. CASE hits = {}
  <2>1. Stop(b, ino) = b.filled
    BY <1>2 DEF Stop
  <2>2. \A k \in 1 .. b.filled : b.keys[k] = ino => k = b.filled
    BY <1>1, <1>2
  <2>3. QED
    BY <1>1, <2>1, <2>2 DEF IsOld
<1>3. CASE hits # {}
  <2>1. \E i \in hits : \A j \in hits : i <= j
    BY <1>1, <1>3, LeastExists
  <2>2. Stop(b, ino) \in hits
    BY <1>3, <2>1 DEF Stop
  <2>3. Stop(b, ino) # 0
    BY <1>1, <2>2 DEF BucketKeeps
  <2>4. Stop(b, ino) \in 1 .. b.filled /\ b.keys[Stop(b, ino)] = ino
    BY <1>1, <2>2, <2>3
  <2>5. QED
    BY <2>3, <2>4 DEF IsOld
<1>4. QED
  BY <1>2, <1>3

LEMMA StoreKeeps ==
  ASSUME NEW b, BucketOK(b), NEW n, BucketKeeps(b, n),
         NEW ino \in Nat \ {0}, ino % BUCKETS = n
  PROVE  /\ BucketKeeps(Store(b, ino), n)
         /\ Store(b, ino).filled = b.filled + 1
         /\ Store(b, ino).keys[b.filled + 1] = ino
         /\ \A k \in 1 .. b.filled : Store(b, ino).keys[k] = b.keys[k]
<1>1. b.filled \in Nat
  BY DEF BucketOK
<1>2. /\ Store(b, ino).filled = b.filled + 1
      /\ Store(b, ino).keys = [i \in 0 .. b.filled + 1 |->
           IF i = b.filled + 1 THEN ino ELSE IF i = 0 THEN 0 ELSE b.keys[i]]
  BY DEF Store
<1>3. /\ Store(b, ino).keys[b.filled + 1] = ino /\ Store(b, ino).keys[0] = 0
      /\ \A k \in 1 .. b.filled : Store(b, ino).keys[k] = b.keys[k]
  BY <1>1, <1>2
<1>4. BucketKeeps(Store(b, ino), n)
  BY <1>1, <1>2, <1>3 DEF BucketKeeps
<1>5. QED
  BY <1>2, <1>3, <1>4

\* h_enter works on the table of the device, and a new one holds no file.
LEMMA LocateKeeps ==
  ASSUME NEW u, Kept(u), NEW dev
  PROVE  LET v == Locate(u, dev)
         IN /\ Kept(v) /\ v.tablep \in 1 .. Len(v.tables)
            /\ v.tables[v.tablep].device = dev
            /\ \A f : Has(v, f) <=> Has(u, f)
<1> DEFINE fits == {i \in DOMAIN u.tables : u.tables[i].device = dev}
           v == Locate(u, dev)
<1>1. /\ DOMAIN u.tables = 1 .. Len(u.tables) /\ Len(u.tables) \in Nat
      /\ u.tables \in Seq(Elements(u.tables)) /\ TablesOK(u)
  BY DEF Kept, TablesOK
<1>2. TablesOK(v) /\ v.tablep \in 1 .. Len(v.tables)
  BY <1>1, LocateOK DEF TablesOK
<1>3. CASE fits # {}
  <2>1. \E i \in fits : \A j \in fits : i <= j
    <3>1. fits \in SUBSET Nat
      BY <1>1
    <3>2. QED
      BY <3>1, <1>3, LeastExists
  <2>2. v.tables = u.tables /\ v.tablep \in fits
    <3>1. CASE u.tablep \in fits
      BY <3>1 DEF Locate
    <3>2. CASE u.tablep \notin fits
      <4> DEFINE k == CHOOSE i \in fits : \A j \in fits : i <= j
      <4>1. v = [u EXCEPT !.tablep = k]
        BY <1>3, <3>2 DEF Locate
      <4>2. k \in fits
        BY <2>1
      <4> HIDE DEF k, v
      <4>3. v.tables = u.tables /\ v.tablep = k
        BY <1>1, <4>1 DEF TablesOK
      <4>4. QED
        BY <4>2, <4>3
    <3>3. QED
      BY <3>1, <3>2
  <2> HIDE DEF v
  <2>3. QED
    BY <1>2, <2>2 DEF Kept, Has, v
<1>4. CASE fits = {}
  <2> DEFINE s == Append(u.tables, NewTable(dev))
             z == Len(u.tables) + 1
  <2>1. v.tables = s /\ v.tablep = z
    BY <1>4 DEF Locate
  <2>2. /\ Len(s) = z /\ s[z] = NewTable(dev)
        /\ \A i \in 1 .. Len(u.tables) : s[i] = u.tables[i]
    BY <1>1, AppendIsSeq
  <2>3. /\ s[z].device = dev
        /\ \A n \in 0 .. BUCKETS - 1 : s[z].buckets[n] = EmptyBucket
    BY <2>2 DEF NewTable
  <2>4. \A i \in 1 .. Len(s) : i = z \/ i \in 1 .. Len(u.tables)
    BY <1>1, <2>2
  <2>5. \A i \in 1 .. Len(u.tables) : u.tables[i].device # dev
    BY <1>1, <1>4
  <2>6. \A n : BucketKeeps(EmptyBucket, n)
    BY DEF BucketKeeps, EmptyBucket
  <2> HIDE DEF v, s, z
  <2>7. Kept(v)
    <3>1. ASSUME NEW i \in 1 .. Len(s), NEW j \in 1 .. Len(s), s[i].device = s[j].device
          PROVE  i = j
      BY <2>2, <2>3, <2>4, <2>5, <3>1 DEF Kept
    <3>2. ASSUME NEW i \in 1 .. Len(s), NEW n \in 0 .. BUCKETS - 1
          PROVE  BucketKeeps(s[i].buckets[n], n)
      BY <2>2, <2>3, <2>4, <2>6 DEF Kept
    <3>3. QED
      BY <1>2, <2>1, <3>1, <3>2 DEF Kept, v
  <2>8. ASSUME NEW f PROVE Has(v, f) <=> Has(u, f)
    <3>1. \A n \in 0 .. BUCKETS - 1 : 1 .. s[z].buckets[n].filled = {}
      BY <2>3 DEF EmptyBucket
    <3>2. Has(v, f) <=> \E i \in 1 .. Len(s) : \E n \in 0 .. BUCKETS - 1 :
            \E k \in 1 .. s[i].buckets[n].filled :
              f = <<s[i].device, s[i].buckets[n].keys[k]>>
      BY <2>1 DEF Has
    <3>3. 1 .. Len(u.tables) \subseteq 1 .. Len(s)
      BY <1>1, <2>2 DEF z
    <3>4. ASSUME Has(v, f) PROVE Has(u, f)
      <4>1. PICK i \in 1 .. Len(s) : \E n \in 0 .. BUCKETS - 1 :
              \E k \in 1 .. s[i].buckets[n].filled :
                f = <<s[i].device, s[i].buckets[n].keys[k]>>
        BY <3>2, <3>4
      <4>2. i \in 1 .. Len(u.tables) /\ s[i] = u.tables[i]
        BY <2>2, <2>4, <3>1, <4>1
      <4>3. QED
        BY <4>1, <4>2 DEF Has
    <3>5. ASSUME Has(u, f) PROVE Has(v, f)
      <4>1. PICK i \in 1 .. Len(u.tables) : \E n \in 0 .. BUCKETS - 1 :
              \E k \in 1 .. u.tables[i].buckets[n].filled :
                f = <<u.tables[i].device, u.tables[i].buckets[n].keys[k]>>
        BY <3>5 DEF Has
      <4>2. i \in 1 .. Len(s) /\ s[i] = u.tables[i]
        BY <2>2, <3>3
      <4>3. QED
        BY <3>2, <4>1, <4>2
    <3>6. QED
      BY <3>4, <3>5
  <2>9. QED
    BY <1>2, <2>1, <2>3, <2>7, <2>8 DEF v
<1>5. QED
  BY <1>3, <1>4

\* h_enter knows the files that are in the tables, and adds the others.
LEMMA EnterKeeps ==
  ASSUME NEW u, Kept(u), NEW dev, NEW ino \in Nat \ {0}
  PROVE  LET r == h_enter(u, dev, ino)
         IN /\ Kept(r.t) /\ r.old \in BOOLEAN
            /\ r.old <=> Has(u, <<dev, ino>>)
            /\ \A f : Has(r.t, f) <=> Has(u, f) \/ f = <<dev, ino>>
<1> DEFINE v == Locate(u, dev)
           s == v.tables
           p == v.tablep
           m == ino % BUCKETS
           b == s[p].buckets[m]
           r == h_enter(u, dev, ino)
<1>1. Kept(v) /\ p \in 1 .. Len(s) /\ s[p].device = dev /\ \A f : Has(v, f) <=> Has(u, f)
  BY LocateKeeps
<1>2. m \in 0 .. BUCKETS - 1
  BY InodesAssumption
<1>3. /\ TableOK(s[p]) /\ BucketOK(b) /\ BucketKeeps(b, m) /\ TablesOK(v)
      /\ s \in Seq(Elements(s)) /\ Len(s) \in Nat
  <2> HIDE DEF v, s, p, m
  <2>1. TablesOK(v) /\ BucketKeeps(s[p].buckets[m], m)
    BY <1>1, <1>2 DEF Kept, s
  <2>2. TableOK(s[p]) /\ s \in Seq(Elements(s))
    BY <1>1, <2>1 DEF TablesOK, s
  <2>3. QED
    BY <1>2, <2>1, <2>2 DEF TableOK
<1>4. IsOld(b, ino) <=> \E k \in 1 .. b.filled : b.keys[k] = ino
  <2> HIDE DEF b, m
  <2>1. QED
    BY <1>3, OldIsKey
<1>5. IsOld(b, ino) <=> Has(v, <<dev, ino>>)
  <2> HIDE DEF v, s, p
  <2>1. ASSUME NEW k \in 1 .. b.filled, b.keys[k] = ino PROVE Has(v, <<dev, ino>>)
    BY <1>1, <1>2, <2>1 DEF Has, s
  <2>2. ASSUME NEW i \in 1 .. Len(s), NEW n \in 0 .. BUCKETS - 1,
               NEW k \in 1 .. s[i].buckets[n].filled,
               <<dev, ino>> = <<s[i].device, s[i].buckets[n].keys[k]>>
        PROVE  \E l \in 1 .. b.filled : b.keys[l] = ino
    <3>1. i = p
      BY <1>1, <2>2 DEF Kept, s
    <3>2. n = m
      BY <1>1, <2>2 DEF Kept, s, BucketKeeps
    <3>3. QED
      BY <2>2, <3>1, <3>2
  <2> HIDE DEF b
  <2>3. QED
    BY <1>4, <2>1, <2>2 DEF Has, s
<1>6. BucketOf(v, ino) = b
  BY DEF BucketOf
<1>7. CASE IsOld(b, ino)
  <2>1. r = [old |-> TRUE, t |-> v]
    BY <1>6, <1>7 DEF h_enter
  <2> HIDE DEF v, b, r
  <2>2. QED
    BY <1>1, <1>5, <1>7, <2>1 DEF r
<1>8. CASE ~IsOld(b, ino)
  <2> DEFINE c == Store(b, ino)
             stored == [s[p] EXCEPT !.buckets[m] = c]
             w == [s EXCEPT ![p] = stored]
  <2>1. r.old = FALSE /\ r.t = [v EXCEPT !.tables = w]
    BY <1>6, <1>8 DEF h_enter
  <2>2. r.t.tables = w
    BY <1>3, <2>1 DEF TablesOK
  <2>3. TablesOK(r.t)
    BY <1>1, EnterOK DEF Kept
  <2>4. /\ BucketKeeps(c, m) /\ c.filled = b.filled + 1 /\ c.keys[b.filled + 1] = ino
        /\ \A k \in 1 .. b.filled : c.keys[k] = b.keys[k]
    <3> HIDE DEF b, m
    <3>1. QED
      BY <1>3, StoreKeeps DEF m
  <2>5. /\ Len(w) = Len(s)
        /\ \A i \in 1 .. Len(s) : w[i] = IF i = p THEN stored ELSE s[i]
    <3> HIDE DEF stored, s, p
    <3>1. QED
      BY <1>1, <1>3, ReplaceIsSeq
  <2>6. /\ stored.device = dev
        /\ \A n \in 0 .. BUCKETS - 1 :
             stored.buckets[n] = IF n = m THEN c ELSE s[p].buckets[n]
    <3> HIDE DEF s, p, m, c
    <3>1. QED
      BY <1>1, <1>3 DEF TableOK
  <2> HIDE DEF w, stored, c, b, r, v, s, p, m
  <2>7. Kept(r.t)
    <3>1. \A i \in 1 .. Len(s) : w[i].device = s[i].device
      BY <1>1, <2>5, <2>6
    <3>2. ASSUME NEW i \in 1 .. Len(s), NEW n \in 0 .. BUCKETS - 1
          PROVE  BucketKeeps(w[i].buckets[n], n)
      <4>1. BucketKeeps(s[i].buckets[n], n)
        BY <1>1 DEF Kept, s
      <4>2. QED
        BY <2>4, <2>5, <2>6, <4>1
    <3>3. QED
      BY <1>1, <2>2, <2>3, <2>5, <3>1, <3>2 DEF Kept, s
  <2>8. ASSUME NEW f PROVE Has(r.t, f) <=> Has(v, f) \/ f = <<dev, ino>>
    <3>0. b.filled \in Nat
      BY <1>3 DEF BucketOK
    <3>1. ASSUME Has(r.t, f) PROVE Has(v, f) \/ f = <<dev, ino>>
      <4>0. PICK i \in 1 .. Len(s), n \in 0 .. BUCKETS - 1 :
              \E k \in 1 .. w[i].buckets[n].filled :
                f = <<w[i].device, w[i].buckets[n].keys[k]>>
        BY <2>2, <2>5, <3>1 DEF Has
      <4>1. PICK k \in 1 .. w[i].buckets[n].filled :
              f = <<w[i].device, w[i].buckets[n].keys[k]>>
        BY <4>0
      <4>2. CASE i = p /\ n = m
        <5>1. k \in 1 .. b.filled + 1 /\ f = <<dev, c.keys[k]>>
          BY <1>1, <2>4, <2>5, <2>6, <4>1, <4>2
        <5>2. CASE k = b.filled + 1
          BY <2>4, <5>1, <5>2
        <5>3. CASE k \in 1 .. b.filled
          <6>1. f = <<s[p].device, b.keys[k]>>
            BY <1>1, <2>4, <5>1, <5>3
          <6>2. QED
            BY <1>1, <1>2, <5>3, <6>1 DEF Has, s, b
        <5>4. QED
          BY <3>0, <5>1, <5>2, <5>3
      <4>3. CASE ~(i = p /\ n = m)
        <5>1. w[i].buckets[n] = s[i].buckets[n] /\ w[i].device = s[i].device
          BY <1>1, <2>5, <2>6, <4>3
        <5>2. QED
          BY <4>1, <5>1 DEF Has, s
      <4>4. QED
        BY <4>2, <4>3
    <3>2. ASSUME Has(v, f) PROVE Has(r.t, f)
      <4>0. PICK i \in 1 .. Len(s), n \in 0 .. BUCKETS - 1 :
              \E k \in 1 .. s[i].buckets[n].filled :
                f = <<s[i].device, s[i].buckets[n].keys[k]>>
        BY <3>2 DEF Has, s
      <4>1. PICK k \in 1 .. s[i].buckets[n].filled :
              f = <<s[i].device, s[i].buckets[n].keys[k]>>
        BY <4>0
      <4>2. /\ k \in 1 .. w[i].buckets[n].filled
            /\ f = <<w[i].device, w[i].buckets[n].keys[k]>>
        <5>1. CASE i = p /\ n = m
          <6>1. w[i].buckets[n] = c /\ w[i].device = dev /\ s[i].buckets[n] = b
            BY <1>1, <2>5, <2>6, <5>1 DEF b
          <6>2. QED
            BY <1>1, <2>4, <3>0, <4>1, <5>1, <6>1
        <5>2. CASE ~(i = p /\ n = m)
          BY <1>1, <2>5, <2>6, <4>1, <5>2
        <5>3. QED
          BY <5>1, <5>2
      <4>3. QED
        BY <2>2, <2>5, <4>2 DEF Has
    <3>3. Has(r.t, <<dev, ino>>)
      <4>1. /\ w[p].buckets[m] = c /\ w[p].device = dev
            /\ b.filled + 1 \in 1 .. c.filled /\ c.keys[b.filled + 1] = ino
        BY <1>1, <1>2, <2>4, <2>5, <2>6, <3>0
      <4>2. QED
        BY <1>1, <1>2, <2>2, <2>5, <4>1 DEF Has
    <3>4. QED
      BY <3>1, <3>2, <3>3
  <2>9. QED
    BY <1>1, <1>5, <1>8, <2>1, <2>7, <2>8 DEF r
<1>9. QED
  BY <1>7, <1>8

\* While a directory is in work, stb describes a node that a stat has found.
Found == {n \in DOMAIN fs : n # NoNode /\ fs[n].kind # "gone"}

FInv ==
  /\ CInv /\ Kept(t)
  /\ inodes \in Nat /\ total_inodes \in Nat
  /\ stb = NoNode \/ stb \in Found
  /\ stack # <<>> => stb # NoNode

LEMMA NodeKinds ==
  ASSUME input \in Inputs
  PROVE  /\ \A n \in DOMAIN fs : n # NoNode /\ fs[n].kind \in {"dir", "file", "gone"}
         /\ \A n \in DOMAIN fs : fs[n].kind = "file" => fs[n].ino \in Nat \ {0}
<1> DEFINE Nodes == [kind : {"dir", "file", "gone"}, readable : BOOLEAN,
                     dev : Int, ino : Int, blocks : Int, entries : Seq(Entries(fs))]
<1>1. FileSystem(fs)
  BY VtreeAssumption DEF fs
<1>2. fs \in Seq(Nodes) /\ \A n \in DOMAIN fs : fs[n].kind = "file" => fs[n].ino \in Nat \ {0}
  BY <1>1 DEF FileSystem
<1>3. \A n \in Nodes : n.kind \in {"dir", "file", "gone"}
  OBVIOUS
<1> HIDE DEF Nodes
<1>4. \A n \in DOMAIN fs : n # 0 /\ fs[n] \in Nodes
  BY <1>2
<1>5. QED
  BY <1>2, <1>3, <1>4 DEF NoNode

LEMMA StatFinds ==
  ASSUME FInv, NEW node \in DOMAIN fs
  PROVE  Stat(node) = stb \/ Stat(node) \in Found
BY NodeKinds DEF FInv, CInv, Stat, Found

\* An entry is counted as it should be, and leaves the tables as they should be.
LEMMA CountEntryCounts ==
  ASSUME FInv, CountEntry
  PROVE  CountedOnce /\ Kept(t') /\ inodes' \in Nat /\ total_inodes' \in Nat /\ stb' \in Found
<1>1. /\ In("count") /\ Top.todo # <<>> /\ stack # <<>>
      /\ stb' = Stat(Entry.node) /\ input \in Inputs /\ stb \in Found
      /\ Kept(t) /\ TablesOK(t) /\ inodes \in Nat /\ total_inodes \in Nat /\ CInv
  BY DEF CountEntry, In, FInv, CInv, Kept
<1>2. stb' \in Found
  BY <1>1, TopOK, StatFinds
<1>3. CASE IsDirectory(stb')
  <2>1. /\ t' = t /\ total_inodes' = total_inodes
        /\ inodes' = IF Entry.name = Dot THEN inodes + 1 ELSE inodes
    BY <1>3 DEF CountEntry, Add, counts
  <2>2. Seen' = Seen
    BY <2>1 DEF Seen, Keys
  <2>3. Tallied' = IF Entry.name = Dot THEN Tallied + 1 ELSE Tallied
    BY <1>1, <2>1 DEF Tallied
  <2>4. CountedOnce
    BY <1>1, <1>3, <2>2, <2>3 DEF CountedOnce
  <2>5. QED
    BY <1>1, <1>2, <2>1, <2>4
<1>4. CASE ~IsDirectory(stb')
  <2> DEFINE dev == fs[stb'].dev
             ino == fs[stb'].ino
             r == h_enter(t, dev, ino)
  <2>1. /\ t' = r.t /\ total_inodes' = total_inodes
        /\ inodes' = IF r.old /\ ~opt.duplicate THEN inodes ELSE inodes + 1
    BY <1>4 DEF CountEntry, Add, counts
  <2>2. ino \in Nat \ {0}
    BY <1>1, <1>2, <1>4, NodeKinds DEF IsDirectory, Found
  <2>3. /\ Kept(r.t) /\ r.old \in BOOLEAN /\ (r.old <=> Has(t, <<dev, ino>>))
        /\ \A f : Has(r.t, f) <=> Has(t, f) \/ f = <<dev, ino>>
    <3> HIDE DEF dev, ino
    <3>1. QED
      BY <1>1, <2>2, EnterKeeps
  <2> HIDE DEF dev, ino, r
  <2>4. Kept(t') /\ TablesOK(t')
    BY <2>1, <2>3 DEF Kept
  <2>5. LastFile = <<dev, ino>>
    BY DEF LastFile, dev, ino
  <2>6. \A f : f \in Seen' <=> f \in Seen \/ f = LastFile
    BY <1>1, <2>1, <2>3, <2>4, <2>5, SeenIsHas, SeenIsHasNext
  <2>7. Seen' = Seen \cup {LastFile}
    BY <2>6
  <2>8. r.old <=> LastFile \in Seen
    BY <1>1, <2>3, <2>5, SeenIsHas
  <2>9. Tallied' = IF LastFile \notin Seen \/ opt.duplicate THEN Tallied + 1 ELSE Tallied
    BY <1>1, <2>1, <2>8 DEF Tallied
  <2>10. CountedOnce
    BY <1>1, <1>4, <2>7, <2>9 DEF CountedOnce
  <2>11. QED
    BY <1>1, <1>2, <2>1, <2>4, <2>10
<1>5. QED
  BY <1>3, <1>4

\* The other steps do not touch the tables, and move what was counted at most.
LEMMA OthersCountNothing ==
  ASSUME FInv, VtreeNext, ~CountEntry
  PROVE  CountedOnce /\ t' = t /\ inodes' \in Nat /\ total_inodes' \in Nat
<1>1. inodes \in Nat /\ total_inodes \in Nat
  BY DEF FInv
<1>2. t' = t /\ ~(In("count") /\ Top.todo # <<>>)
  BY DEF VtreeNext, Argument, Finish, ListEntry, ListDone, CountDone, Descend, Leave, In
<1>3. \/ inodes' = inodes /\ total_inodes' = total_inodes
      \/ inodes' = 0 /\ total_inodes' = total_inodes + inodes
  BY DEF VtreeNext, Argument, Finish, ListEntry, ListDone, CountDone, Descend, Leave, Flush, counts
<1>4. Tallied' = Tallied /\ inodes' \in Nat /\ total_inodes' \in Nat
  BY <1>1, <1>3 DEF Tallied
<1>5. Seen' = Seen
  BY <1>2 DEF Seen, Keys
<1>6. QED
  BY <1>2, <1>4, <1>5 DEF CountedOnce

LEMMA StbStaysFound ==
  ASSUME FInv, VtreeNext, ~CountEntry
  PROVE  /\ stb' = NoNode \/ stb' \in Found
         /\ stack' # <<>> => stb' # NoNode
<1>1. /\ CInv /\ input \in Inputs /\ (stb = NoNode \/ stb \in Found)
      /\ stack # <<>> => stb # NoNode
  BY DEF FInv, CInv
<1>2. CASE Argument
  <2>1. /\ stack = <<>> /\ arg < Len(input.args) /\ arg \in Nat
        /\ GetTree(input.args[arg + 1], 0, <<>>)
    BY <1>2 DEF Argument, FInv, CInv
  <2>2. input.args[arg + 1] \in DOMAIN fs
    BY <1>1, <2>1, VtreeAssumption DEF fs
  <2>3. stb' = stb \/ stb' \in Found
    BY <2>1, <2>2, StatFinds DEF GetTree
  <2>4. stack' # <<>> => IsDirectory(stb')
    BY <2>1 DEF GetTree
  <2>5. QED
    BY <1>1, <2>3, <2>4 DEF IsDirectory
<1>3. CASE ListEntry \/ Descend
  <2>1. stack # <<>> /\ Top.todo # <<>>
    BY <1>3 DEF ListEntry, Descend, In
  <2>2. stb' = stb \/ stb' = Stat(Entry.node)
    BY <1>3 DEF ListEntry, Descend, GetTree
  <2>3. QED
    BY <1>1, <2>1, <2>2, TopOK, StatFinds DEF Found
<1>4. CASE Finish \/ ListDone \/ CountDone \/ Leave
  <2>1. stb' = stb /\ (stack = <<>> => stack' = <<>>)
    BY <1>4 DEF Finish, ListDone, CountDone, Leave, In
  <2>2. QED
    BY <1>1, <2>1
<1>5. QED
  BY <1>2, <1>3, <1>4 DEF VtreeNext

\* Whatever file systems, arguments and options a run is given, a file is
\* counted when it is met for the first time and, without -d, never again, and
\* nothing counted is lost (vtree.c:487-523, hash.c:45-137).
THEOREM FilesAreCountedOnce == VtreeSpec => FilesCountOnce
<1>1. VtreeInit => FInv
  <2>1. VtreeInit => CInv
    BY VtreeCInv
  <2>2. VtreeInit => Kept(t)
    BY DEF VtreeInit, NoTables, Kept, TablesOK, Elements
  <2>3. QED
    BY <2>1, <2>2 DEF VtreeInit, FInv
<1>2. ASSUME FInv, VtreeNext PROVE FInv' /\ CountedOnce
  <2>1. CInv' /\ fs' = fs
    <3>1. input' = input
      BY <1>2 DEF VtreeNext, Argument, Finish, ListEntry, ListDone, CountEntry,
                  CountDone, Descend, Leave
    <3>2. QED
      BY <1>2, <3>1, VtreeCInv DEF FInv, fs
  <2>2. Found' = Found
    BY <2>1 DEF Found
  <2>3. CASE CountEntry
    BY <1>2, <2>1, <2>2, <2>3, CountEntryCounts DEF FInv, Found
  <2>4. CASE ~CountEntry
    BY <1>2, <2>1, <2>2, <2>4, OthersCountNothing, StbStaysFound DEF FInv
  <2>5. QED
    BY <2>3, <2>4
<1>3. FInv /\ UNCHANGED vtreeVars => FInv'
  <2>1. FInv /\ UNCHANGED vtreeVars => CInv'
    BY VtreeCInv DEF FInv
  <2>2. QED
    BY <2>1 DEF FInv, vtreeVars, counts, Found, fs
<1>4. FInv /\ [VtreeNext]_vtreeVars => FInv' /\ [CountedOnce]_vtreeVars
  BY <1>2, <1>3
<1>5. QED
  BY <1>1, <1>4, PTL DEF VtreeSpec, FilesCountOnce

-----------------------------------------------------------------------------
(***************************************************************************)
(* The reader.  While it reads, everything read is in the buffer, whose    *)
(* end countlen has not passed.                                            *)
(***************************************************************************)

RInv ==
  /\ read \in Seq(Chars \cup {"cr"}) /\ len \in Nat /\ len >= Initial
  /\ outcome = "reading" => /\ buffer = read /\ countlen = Len(read)
                            /\ countlen <= len /\ ~moved
  /\ outcome \in {"reading", "line"} => \A i \in DOMAIN read : read[i] # "ff"
  /\ outcome = "line" => read = buffer \o <<"cr", "lf">>
  /\ outcome = "eof" => \E i \in DOMAIN read : read[i] = "ff"
  /\ outcome = "fault" => Len(read) >= Initial /\ (moved \/ countlen = len)
  /\ outcome \in {"reading", "line", "eof", "fault"}

\* Before a store the buffer is grown, and has room for the characters unless
\* it is full to the last or realloc has moved it.
LEMMA RoomIsMade ==
  ASSUME RInv, outcome = "reading", len' = Grown, moved' \in MayMove
  PROVE  /\ len' \in Nat /\ len' >= len /\ countlen \in Nat /\ len >= 1
         /\ moved' => countlen = len - 1
         /\ ~moved' => \/ countlen = len /\ len' = len
                       \/ countlen + 2 <= len'
BY ReaderAssumption DEF RInv, Grown, MayMove

LEMMA ReadReturnRInv ==
  ASSUME RInv, outcome = "reading", NEW d \in Chars, ReadReturn("cr", d) PROVE RInv'
<1> DEFINE T == Chars \cup {"cr"}
           u == read \o <<"cr", d>>
<1>1. /\ len' = Grown /\ moved' \in MayMove /\ read' = u /\ buffer = read
      /\ read \in Seq(T) /\ countlen = Len(read)
  BY DEF ReadReturn, RInv
<1>2. /\ u \in Seq(T) /\ Len(u) = Len(read) + 2 /\ u[Len(read) + 1] = "cr"
      /\ u[Len(read) + 2] = d /\ \A i \in 1 .. Len(read) : u[i] = read[i]
  BY <1>1
<1>3. DOMAIN u = 1 .. Len(read) + 2 /\ DOMAIN read = 1 .. Len(read) /\ Len(read) \in Nat
  BY <1>1, <1>2
<1> HIDE DEF u
<1>4. Fault(Len(buffer)) => moved' \/ (countlen = len /\ len' = len)
  BY <1>1, RoomIsMade DEF Fault
<1>5. /\ ~Fault(Len(buffer)) => ~Fault(Len(buffer) + 1) /\ ~moved' /\ countlen + 2 <= len'
      /\ len' \in Nat /\ len' >= Initial
  <2>1. len' \in Nat /\ len' >= Initial
    BY <1>1, RoomIsMade, ReaderAssumption DEF RInv
  <2>2. QED
    BY <1>1, <2>1, RoomIsMade DEF Fault
<1>6. CASE Fault(Len(buffer))
  <2>1. outcome' = "fault" /\ countlen' = countlen
    BY <1>6 DEF ReadReturn, End
  <2>2. Len(u) >= Initial
    BY <1>1, <1>2, <1>3, <1>4, <1>6, RoomIsMade, ReaderAssumption DEF RInv
  <2>3. QED
    BY <1>1, <1>2, <1>4, <1>5, <1>6, <2>1, <2>2 DEF RInv
<1>7. CASE ~Fault(Len(buffer)) /\ d = "lf"
  <2>1. outcome' = "line" /\ buffer' = buffer
    BY <1>7 DEF ReadReturn, End
  <2>2. \A i \in DOMAIN u : u[i] # "ff"
    BY <1>2, <1>3, <1>7 DEF RInv
  <2>3. u = buffer' \o <<"cr", "lf">>
    BY <1>1, <1>7, <2>1 DEF u
  <2>4. QED
    BY <1>1, <1>2, <1>5, <2>1, <2>2, <2>3 DEF RInv
<1>8. CASE ~Fault(Len(buffer)) /\ d = "ff"
  <2>1. outcome' = "eof"
    BY <1>8 DEF ReadReturn, End
  <2>2. \E i \in DOMAIN u : u[i] = "ff"
    BY <1>2, <1>3, <1>8
  <2>3. QED
    BY <1>1, <1>2, <1>5, <2>1, <2>2 DEF RInv
<1>9. CASE ~Fault(Len(buffer)) /\ d # "lf" /\ d # "ff"
  <2>1. /\ outcome' = "reading" /\ buffer' = buffer \o <<"cr", d>>
        /\ countlen' = countlen + 2
    BY <1>5, <1>9 DEF ReadReturn
  <2>2. \A i \in DOMAIN u : u[i] # "ff"
    BY <1>2, <1>3, <1>9 DEF RInv
  <2>3. buffer' = u
    BY <1>1, <2>1 DEF u
  <2>4. countlen' = Len(u) /\ countlen' <= len'
    BY <1>1, <1>2, <1>5, <1>9, <2>1
  <2>5. QED
    BY <1>1, <1>2, <1>5, <1>9, <2>1, <2>2, <2>3, <2>4 DEF RInv
<1>10. QED
  BY <1>6, <1>7, <1>8, <1>9

LEMMA ReadCharRInv ==
  ASSUME RInv, outcome = "reading", NEW c \in Chars, ReadChar(c) PROVE RInv'
<1> DEFINE T == Chars \cup {"cr"}
           u == Append(read, c)
<1>1. /\ len' = Grown /\ moved' \in MayMove /\ read' = u /\ buffer = read
      /\ read \in Seq(T) /\ countlen = Len(read)
  BY DEF ReadChar, RInv
<1>2. /\ u \in Seq(T) /\ Len(u) = Len(read) + 1 /\ u[Len(read) + 1] = c
      /\ \A i \in 1 .. Len(read) : u[i] = read[i]
  BY <1>1
<1>3. DOMAIN u = 1 .. Len(read) + 1 /\ DOMAIN read = 1 .. Len(read) /\ Len(read) \in Nat
  BY <1>1, <1>2
<1> HIDE DEF u
<1>4. Fault(Len(buffer)) => moved' \/ (countlen = len /\ len' = len)
  BY <1>1, RoomIsMade DEF Fault
<1>5. /\ ~Fault(Len(buffer)) => ~moved' /\ countlen + 2 <= len'
      /\ len' \in Nat /\ len' >= Initial
  <2>1. len' \in Nat /\ len' >= Initial
    BY <1>1, RoomIsMade, ReaderAssumption DEF RInv
  <2>2. QED
    BY <1>1, <2>1, RoomIsMade DEF Fault
<1>6. CASE Fault(Len(buffer))
  <2>1. outcome' = "fault" /\ countlen' = countlen
    BY <1>6 DEF ReadChar, End
  <2>2. Len(u) >= Initial
    BY <1>1, <1>2, <1>3, <1>4, <1>6, RoomIsMade, ReaderAssumption DEF RInv
  <2>3. QED
    BY <1>1, <1>2, <1>4, <1>5, <1>6, <2>1, <2>2 DEF RInv
<1>7. CASE ~Fault(Len(buffer)) /\ c = "ff"
  <2>1. outcome' = "eof"
    BY <1>7 DEF ReadChar, End
  <2>2. \E i \in DOMAIN u : u[i] = "ff"
    BY <1>2, <1>3, <1>7
  <2>3. QED
    BY <1>1, <1>2, <1>5, <2>1, <2>2 DEF RInv
<1>8. CASE ~Fault(Len(buffer)) /\ c # "ff"
  <2>1. outcome' = "reading" /\ buffer' = u /\ countlen' = countlen + 1
    BY <1>1, <1>8 DEF ReadChar, u
  <2>2. \A i \in DOMAIN u : u[i] # "ff"
    BY <1>2, <1>3, <1>8 DEF RInv
  <2>3. countlen' = Len(u) /\ countlen' <= len'
    BY <1>1, <1>2, <1>3, <1>5, <1>8, <2>1
  <2>4. QED
    BY <1>1, <1>2, <1>5, <1>8, <2>1, <2>2, <2>3 DEF RInv
<1>9. QED
  BY <1>6, <1>7, <1>8

LEMMA ReaderRInv == (ReaderInit => RInv) /\ (RInv /\ [ReaderNext]_readerVars => RInv')
<1>1. ReaderInit => RInv
  <2>1. <<>> \in Seq(Chars \cup {"cr"}) /\ Len(<<>>) = 0 /\ DOMAIN <<>> = {}
    OBVIOUS
  <2>2. QED
    BY <2>1, ReaderAssumption DEF ReaderInit, RInv
<1>2. RInv /\ UNCHANGED readerVars => RInv'
  BY DEF readerVars, RInv
<1>3. RInv /\ ReaderNext => RInv'
  BY ReadReturnRInv, ReadCharRInv DEF ReaderNext
<1>4. QED
  BY <1>1, <1>2, <1>3

\* However long the lines and whatever they hold, what is read of a line is in
\* the buffer as it came, up to the pair of carriage return and line feed, and
\* the byte 255 ends it early (server.c:77-108).
THEOREM LineIsAlwaysRead == ReaderSpec => []LineIsRead
<1>1. RInv => LineIsRead
  BY DEF RInv, LineIsRead
<1>2. QED
  BY <1>1, ReaderRInv, PTL DEF ReaderSpec

\* Whatever the size of the first buffer and whenever realloc moves it, a store
\* outside the buffer needs a line as long as the first buffer; it follows a
\* move, or the end passed by two characters (server.c:72, 78, 102).
THEOREM ShortLinesAreSafe == ReaderSpec => []FaultNeedsLongLine
<1>1. RInv => FaultNeedsLongLine
  BY DEF RInv, FaultNeedsLongLine
<1>2. QED
  BY <1>1, ReaderRInv, PTL DEF ReaderSpec

-----------------------------------------------------------------------------
(***************************************************************************)
(* The miner.  The nonces are in a total order, of which update_nonce      *)
(* takes one to the next.                                                  *)
(***************************************************************************)

LEMMA GreatestExists ==
  ASSUME NEW K \in Nat, NEW S \in SUBSET (1 .. K), S # {}
  PROVE  \E i \in S : \A j \in S : j <= i
<1> DEFINE below == {K - i : i \in S}
<1>1. below \subseteq Nat /\ below # {}
  <2>1. ASSUME NEW i \in S PROVE K - i \in Nat
    <3>1. i \in 1 .. K
      OBVIOUS
    <3>2. QED
      BY <3>1
  <2>2. QED
    BY <2>1
<1>2. PICK b \in below : \A c \in below : b <= c
  <2> HIDE DEF below
  <2>1. QED
    BY <1>1, LeastExists
<1>3. PICK i \in S : b = K - i
  OBVIOUS
<1>4. ASSUME NEW j \in S PROVE j <= i
  <2>1. K - j \in below
    OBVIOUS
  <2>2. K - i <= K - j /\ i \in 1 .. K /\ j \in 1 .. K
    BY <1>2, <1>3, <2>1
  <2>3. QED
    BY <2>2
<1>5. QED
  BY <1>4

LEMMA NonceBytes ==
  ASSUME NEW n \in Nonces, NEW i \in 1 .. NSize PROVE n[i] \in 0 .. Base - 1
BY DEF Nonces

LEMMA PrecedesTotal ==
  ASSUME NEW m \in Nonces, NEW n \in Nonces PROVE m = n \/ Precedes(m, n) \/ Precedes(n, m)
<1> DEFINE differ == {i \in 1 .. NSize : m[i] # n[i]}
<1>1. CASE differ = {}
  <2>1. \A i \in 1 .. NSize : m[i] = n[i]
    BY <1>1
  <2>2. m = [i \in 1 .. NSize |-> m[i]] /\ n = [i \in 1 .. NSize |-> n[i]]
    BY DEF Nonces
  <2>3. QED
    BY <2>1, <2>2
<1>2. CASE differ # {}
  <2>1. PICK k \in differ : \A j \in differ : j <= k
    <3>1. differ \subseteq 1 .. NSize
      OBVIOUS
    <3> HIDE DEF differ
    <3>2. QED
      BY <1>2, <3>1, GreatestExists, MinerAssumption
  <2>2. k \in 1 .. NSize /\ m[k] # n[k]
    OBVIOUS
  <2>3. \A j \in k + 1 .. NSize : m[j] = n[j]
    BY <2>1, <2>2, MinerAssumption
  <2>4. m[k] \in 0 .. Base - 1 /\ n[k] \in 0 .. Base - 1
    BY <2>2, NonceBytes
  <2>5. m[k] < n[k] \/ n[k] < m[k]
    BY <2>2, <2>4, MinerAssumption
  <2>6. QED
    BY <2>2, <2>3, <2>5 DEF Precedes
<1>3. QED
  BY <1>1, <1>2

LEMMA PrecedesTransitive ==
  ASSUME NEW m \in Nonces, NEW n \in Nonces, NEW p \in Nonces, Precedes(m, n), Precedes(n, p)
  PROVE  Precedes(m, p)
<1>1. PICK k \in 1 .. NSize : m[k] < n[k] /\ \A j \in k + 1 .. NSize : m[j] = n[j]
  BY DEF Precedes
<1>2. PICK i \in 1 .. NSize : n[i] < p[i] /\ \A j \in i + 1 .. NSize : n[j] = p[j]
  BY DEF Precedes
<1>3. \A j \in 1 .. NSize : m[j] \in Int /\ n[j] \in Int /\ p[j] \in Int
  BY NonceBytes, MinerAssumption
<1>4. CASE k <= i
  <2>1. m[i] < p[i] /\ \A j \in i + 1 .. NSize : m[j] = p[j]
    BY <1>1, <1>2, <1>3, <1>4, MinerAssumption
  <2>2. QED
    BY <2>1 DEF Precedes
<1>5. CASE i < k
  <2>1. m[k] < p[k] /\ \A j \in k + 1 .. NSize : m[j] = p[j]
    BY <1>1, <1>2, <1>3, <1>5, MinerAssumption
  <2>2. QED
    BY <2>1 DEF Precedes
<1>6. QED
  BY <1>4, <1>5, MinerAssumption

LEMMA PrecedesIrreflexive == ASSUME NEW n \in Nonces PROVE ~Precedes(n, n)
BY NonceBytes, MinerAssumption DEF Precedes

LEMMA CarryEndsFirst ==
  ASSUME NEW n
  PROVE  /\ CarryEnds(n) \in 1 .. NSize + 1
         /\ CarryEnds(n) <= NSize => n[CarryEnds(n)] # Base - 1
         /\ \A j \in 1 .. CarryEnds(n) - 1 : n[j] = Base - 1
<1> DEFINE S == {i \in 1 .. NSize + 1 : i <= NSize => n[i] # Base - 1}
<1>1. S \in SUBSET Nat /\ S # {}
  <2>1. NSize + 1 \in S
    BY MinerAssumption
  <2>2. QED
    BY <2>1
<1>2. PICK i \in S : \A j \in S : i <= j
  <2> HIDE DEF S
  <2>1. QED
    BY <1>1, LeastExists
<1>3. i \in 1 .. NSize + 1 /\ (i <= NSize => n[i] # Base - 1)
  OBVIOUS
<1>4. ASSUME NEW j \in 1 .. i - 1 PROVE n[j] = Base - 1
  BY <1>2, <1>3, MinerAssumption
<1>5. QED
  BY <1>3, <1>4 DEF CarryEnds

\* update_nonce leads to the next nonce, and ends with the last one.
LEMMA UpdateNonceIsNext ==
  ASSUME NEW n \in Nonces
  PROVE  LET u == UpdateNonce(n)
         IN /\ u.nonce \in Nonces
            /\ u.more => /\ Precedes(n, u.nonce)
                         /\ \A m \in Nonces : Precedes(m, u.nonce) => m = n \/ Precedes(m, n)
            /\ ~u.more => \A m \in Nonces : m = n \/ Precedes(m, n)
<1> DEFINE i == CarryEnds(n)
           next == UpdateNonce(n).nonce
<1>1. /\ i \in 1 .. NSize + 1 /\ (i <= NSize => n[i] # Base - 1)
      /\ \A j \in 1 .. i - 1 : n[j] = Base - 1
  BY CarryEndsFirst
<1>2. UpdateNonce(n).more <=> i <= NSize
  BY DEF UpdateNonce
<1>3. next = [k \in 1 .. NSize |-> CASE k < i -> 0 [] k = i -> n[k] + 1 [] k > i -> n[k]]
  BY DEF UpdateNonce
<1> HIDE DEF next, i
<1>4. \A k \in 1 .. NSize : n[k] \in 0 .. Base - 1
  BY NonceBytes
<1>5. /\ DOMAIN next = 1 .. NSize
      /\ \A k \in 1 .. NSize : /\ k < i => next[k] = 0
                               /\ k = i => next[k] = n[k] + 1
                               /\ k > i => next[k] = n[k]
  BY <1>1, <1>3, MinerAssumption
<1>6. next \in Nonces
  <2>1. ASSUME NEW k \in 1 .. NSize PROVE next[k] \in 0 .. Base - 1
    <3>1. n[k] \in 0 .. Base - 1 /\ Base \in Nat \ {0} /\ k \in Nat /\ i \in Nat
      BY <1>1, <1>4, MinerAssumption
    <3>2. CASE k < i
      <4>1. next[k] = 0
        BY <1>5, <3>2
      <4>2. QED
        BY <3>1, <4>1
    <3>3. CASE k = i
      <4>1. next[k] = n[k] + 1 /\ n[k] # Base - 1
        BY <1>1, <1>5, <3>3
      <4>2. QED
        BY <3>1, <4>1
    <3>4. CASE k > i
      <4>1. next[k] = n[k]
        BY <1>5, <3>4
      <4>2. QED
        BY <3>1, <4>1
    <3>5. QED
      BY <3>1, <3>2, <3>3, <3>4
  <2>2. next = [k \in 1 .. NSize |-> next[k]]
    BY <1>3 DEF next
  <2>3. QED
    BY <2>1, <2>2 DEF Nonces
<1>7. ASSUME NEW m \in Nonces, \A j \in i .. NSize : m[j] = n[j] PROVE m = n \/ Precedes(m, n)
  <2>1. ASSUME Precedes(n, m) PROVE FALSE
    <3>1. PICK k \in 1 .. NSize : n[k] < m[k]
      BY <2>1 DEF Precedes
    <3>2. m[k] \in 0 .. Base - 1 /\ n[k] \in 0 .. Base - 1
      BY NonceBytes
    <3>3. k \in 1 .. i - 1 \/ k \in i .. NSize
      BY <1>1, MinerAssumption
    <3>4. QED
      BY <1>1, <1>7, <3>1, <3>2, <3>3, MinerAssumption
  <2>2. QED
    BY <2>1, PrecedesTotal
<1>8. CASE i <= NSize
  <2>1. i \in 1 .. NSize /\ i \in Nat
    BY <1>1, <1>8, MinerAssumption
  <2>2. Precedes(n, next)
    <3>1. n[i] < next[i] /\ \A j \in i + 1 .. NSize : n[j] = next[j]
      BY <1>4, <1>5, <2>1, MinerAssumption
    <3>2. QED
      BY <2>1, <3>1 DEF Precedes
  <2>3. ASSUME NEW m \in Nonces, Precedes(m, next) PROVE m = n \/ Precedes(m, n)
    <3>1. PICK k \in 1 .. NSize : m[k] < next[k] /\ \A j \in k + 1 .. NSize : m[j] = next[j]
      BY <2>3 DEF Precedes
    <3>2. \A j \in 1 .. NSize : m[j] \in 0 .. Base - 1
      BY NonceBytes
    <3>3. CASE k < i
      BY <1>5, <3>1, <3>2, <3>3, MinerAssumption
    <3>4. CASE k > i
      <4>1. m[k] < n[k] /\ \A j \in k + 1 .. NSize : m[j] = n[j]
        BY <1>5, <2>1, <3>1, <3>4, MinerAssumption
      <4>2. QED
        BY <4>1 DEF Precedes
    <3>5. CASE k = i
      <4>1. m[i] < n[i] + 1 /\ \A j \in i + 1 .. NSize : m[j] = n[j]
        BY <1>5, <2>1, <3>1, <3>5, MinerAssumption
      <4>2. CASE m[i] = n[i]
        <5>1. \A j \in i .. NSize : m[j] = n[j]
          BY <2>1, <4>1, <4>2, MinerAssumption
        <5>2. QED
          BY <1>7, <5>1
      <4>3. CASE m[i] < n[i]
        BY <2>1, <4>1, <4>3 DEF Precedes
      <4>4. QED
        BY <1>4, <2>1, <3>2, <4>1, <4>2, <4>3, MinerAssumption
    <3>6. QED
      BY <2>1, <3>3, <3>4, <3>5
  <2>4. QED
    BY <1>2, <1>6, <1>8, <2>2, <2>3 DEF next
<1>9. CASE ~(i <= NSize)
  <2>1. i .. NSize = {}
    BY <1>1, <1>9, MinerAssumption
  <2>2. \A m \in Nonces : m = n \/ Precedes(m, n)
    BY <1>7, <2>1
  <2>3. QED
    BY <1>2, <1>6, <1>9, <2>2 DEF next
<1>10. QED
  BY <1>8, <1>9

LEMMA VaryNonceType == ASSUME NEW w \in Vars PROVE VaryNonce(w) \in Nonces
<1>1. (w * Base) \div Workers \in Int
  BY MinerAssumption DEF Vars
<1>2. ((w * Base) \div Workers) % Base \in 0 .. Base - 1
  BY <1>1, MinerAssumption
<1>3. 0 \in 0 .. Base - 1
  BY MinerAssumption
<1>4. QED
  BY <1>2, <1>3 DEF VaryNonce, Nonces

MInv ==
  /\ nonce \in [Vars -> Nonces] /\ DOMAIN at = Vars
  /\ at = [w \in Vars |-> at[w]]
  /\ NoNonceIsSkipped

\* A turn of the loop.
LEMMA HashMInv == ASSUME MInv, NEW w \in Vars, Hash(w) PROVE MInv'
<1> DEFINE n == nonce[w]
           u == UpdateNonce(n)
           later == {m \in Nonces : ~Precedes(m, VaryNonce(w))}
<1>1. /\ n \in Nonces /\ n \in later /\ zeros' = zeros
      /\ \A m \in later : Precedes(m, n) => ~Satisfied(m)
  BY DEF MInv, Hash, NoNonceIsSkipped
<1>2. /\ u.nonce \in Nonces
      /\ u.more => /\ Precedes(n, u.nonce)
                   /\ \A m \in Nonces : Precedes(m, u.nonce) => m = n \/ Precedes(m, n)
      /\ ~u.more => \A m \in Nonces : m = n \/ Precedes(m, n)
  BY <1>1, UpdateNonceIsNext
<1>3. \A m : Satisfied(m)' <=> Satisfied(m)
  BY <1>1 DEF Satisfied
<1>4. later \subseteq Nonces /\ VaryNonce(w) \in Nonces
  BY VaryNonceType
<1>5. ASSUME u.more PROVE u.nonce \in later
  BY <1>1, <1>2, <1>4, <1>5, PrecedesTransitive
<1>6. \/ at'[w] = "found" /\ Satisfied(n) /\ nonce' = nonce
      \/ /\ ~Satisfied(n) /\ nonce' = [nonce EXCEPT ![w] = u.nonce]
         /\ at'[w] = IF u.more THEN "solving" ELSE "exhausted"
  BY DEF Hash, MInv
<1>7. /\ nonce' \in [Vars -> Nonces] /\ DOMAIN at' = Vars /\ at' = [v \in Vars |-> at'[v]]
      /\ \A v \in Vars \ {w} : at'[v] = at[v] /\ nonce'[v] = nonce[v]
  <2>1. at' \in {at, [at EXCEPT ![w] = "found"], [at EXCEPT ![w] = "exhausted"]}
        /\ nonce' \in {nonce, [nonce EXCEPT ![w] = u.nonce]}
    BY DEF Hash
  <2> HIDE DEF u
  <2>2. QED
    BY <1>2, <2>1 DEF MInv
<1>8. /\ at'[w] = "solving" => /\ nonce'[w] \in later
                               /\ \A m \in later : Precedes(m, nonce'[w]) => ~Satisfied(m)
      /\ at'[w] = "found" => Satisfied(nonce'[w])
      /\ at'[w] = "exhausted" => \A m \in later : ~Satisfied(m)
  <2>1. CASE at'[w] = "found" /\ Satisfied(n) /\ nonce' = nonce
    BY <2>1
  <2>2. CASE u.more /\ ~Satisfied(n) /\ nonce'[w] = u.nonce /\ at'[w] = "solving"
    <3> HIDE DEF u, later, n
    <3>1. QED
      BY <1>1, <1>2, <1>4, <1>5, <2>2
  <2>3. CASE ~u.more /\ ~Satisfied(n) /\ at'[w] = "exhausted"
    <3> HIDE DEF u, later, n
    <3>1. QED
      BY <1>1, <1>2, <1>4, <2>3
  <2>4. nonce' = [nonce EXCEPT ![w] = u.nonce] => nonce'[w] = u.nonce
    BY DEF MInv
  <2> HIDE DEF u, later, n
  <2>5. QED
    BY <1>6, <2>1, <2>2, <2>3, <2>4
<1>9. NoNonceIsSkipped'
  BY <1>3, <1>7, <1>8 DEF NoNonceIsSkipped, MInv
<1>10. QED
  BY <1>7, <1>9 DEF MInv

LEMMA MinerMInv == (MinerInit => MInv) /\ (MInv /\ [MinerNext]_minerVars => MInv')
<1>1. MinerInit => MInv
  <2>1. Vars # {} => VaryNonce(0) \in Nonces
    BY VaryNonceType, MinerAssumption DEF Vars
  <2>2. QED
    BY <2>1 DEF MinerInit, MInv, NoNonceIsSkipped
<1>2. ASSUME MInv, NEW w \in Vars, Start(w) PROVE MInv'
  <2>1. VaryNonce(w) \in Nonces /\ ~Precedes(VaryNonce(w), VaryNonce(w))
    BY VaryNonceType, PrecedesIrreflexive
  <2>2. /\ nonce' \in [Vars -> Nonces] /\ DOMAIN at' = Vars /\ at' = [v \in Vars |-> at'[v]]
        /\ at'[w] = "solving" /\ nonce'[w] = VaryNonce(w)
        /\ \A v \in Vars \ {w} : at'[v] = at[v] /\ nonce'[v] = nonce[v]
    BY <1>2, <2>1 DEF Start, MInv
  <2>3. NoNonceIsSkipped'
    BY <1>2, <2>1, <2>2 DEF Start, MInv, NoNonceIsSkipped, Satisfied
  <2>4. QED
    BY <2>2, <2>3 DEF MInv
<1>3. ASSUME MInv, NEW w \in Vars, GiveUp(w) PROVE MInv'
  BY <1>3 DEF GiveUp, MInv, NoNonceIsSkipped, Satisfied
<1>4. ASSUME MInv, NEW w \in Vars, Sighup(w) PROVE MInv'
  BY <1>4 DEF Sighup, MInv, NoNonceIsSkipped, Satisfied
<1>5. ASSUME MInv, UNCHANGED minerVars PROVE MInv'
  BY <1>5 DEF minerVars, MInv, NoNonceIsSkipped, Satisfied
<1>6. QED
  BY <1>1, <1>2, <1>3, <1>4, <1>5, HashMInv DEF MinerNext

\* Whatever the hash, the difficulty and the number of workers, bytes and values
\* of a byte, update_nonce leads a worker from its start through every nonce to
\* the last: what it finds is a solution, and when it has found none there is
\* none after its start (crypto_miner.c:250-251, 323-341).
THEOREM NoncesAreSearched == MinerSpec => []NoNonceIsSkipped
<1>1. MInv => NoNonceIsSkipped
  BY DEF MInv
<1>2. QED
  BY <1>1, MinerMInv, PTL DEF MinerSpec

-----------------------------------------------------------------------------
(***************************************************************************)
(* The values of a transmission.                                           *)
(***************************************************************************)

\* The digits of a value to the base of 64, which are the bits of its bytes.
LEMMA Digit ==
  ASSUME NEW v \in Nat
  PROVE  v \div 64 \in Nat /\ v = (v \div 64) * 64 + (v % 64) /\ v % 64 \in 0 .. 63
OBVIOUS

LEMMA Digits ==
  ASSUME NEW v \in Nat
  PROVE  /\ v = (v \div 64) * 64 + (v % 64) /\ v % 64 \in 0 .. 63 /\ v \div 1 = v
         /\ v \div 64 \in Nat /\ v \div 4096 \in Nat /\ v \div 262144 \in Nat
         /\ v \div 64 = (v \div 4096) * 64 + ((v \div 64) % 64) /\ (v \div 64) % 64 \in 0 .. 63
         /\ v \div 4096 = (v \div 262144) * 64 + ((v \div 4096) % 64)
         /\ (v \div 4096) % 64 \in 0 .. 63
<1>1. (v \div 64) \div 64 = v \div 4096 /\ v \div 64 \in Nat
  OBVIOUS
<1>2. (v \div 4096) \div 64 = v \div 262144 /\ v \div 4096 \in Nat
  OBVIOUS
<1>3. v \div 1 = v
  OBVIOUS
<1>4. QED
  BY <1>1, <1>2, <1>3, Digit

\* numBytes of the first byte of a value.
LEMMA ByteCounts ==
  ASSUME NEW b \in Nat
  PROVE  /\ b < 128 => NumBytes(b) = 1
         /\ b \in 192 .. 223 => NumBytes(b) = 2
         /\ b \in 224 .. 239 => NumBytes(b) = 3
         /\ b \in 240 .. 247 => NumBytes(b) = 4
<1>1. CASE b < 128
  <2>1. b \notin 192 .. 223 /\ b \notin 224 .. 239 /\ b \notin 240 .. 247
    BY <1>1
  <2>2. QED
    BY <1>1, <2>1 DEF NumBytes
<1>2. CASE b \in 192 .. 223
  <2>1. ~(b < 128) /\ b \notin 224 .. 239 /\ b \notin 240 .. 247
    BY <1>2
  <2>2. QED
    BY <1>2, <2>1 DEF NumBytes
<1>3. CASE b \in 224 .. 239
  <2>1. ~(b < 128) /\ b \notin 192 .. 223 /\ b \notin 240 .. 247
    BY <1>3
  <2>2. QED
    BY <1>3, <2>1 DEF NumBytes
<1>4. CASE b \in 240 .. 247
  <2>1. ~(b < 128) /\ b \notin 192 .. 223 /\ b \notin 224 .. 239
    BY <1>4
  <2>2. QED
    BY <1>4, <2>1 DEF NumBytes
<1>5. QED
  BY <1>1, <1>2, <1>3, <1>4

\* The bytes of a value, the value of two, three or four of them, and the
\* indexes of rule_map. Each is a name the leaves can keep folded.
Byte == 0 .. 255
FirstOne == 0 .. 127
FirstTwo == 192 .. 223
FirstThree == 224 .. 239
FirstFour == 240 .. 247
Later == 128 .. 191
OfTwo(a, b) == (a - 192) * 64 + (b - 128)
OfThree(a, b, c) == (a - 224) * 4096 + (b - 128) * 64 + (c - 128)
OfFour(a, b, c, d) == (a - 240) * 262144 + (b - 128) * 4096 + (c - 128) * 64 + (d - 128)
Indexes == {i \in Nat : i < 2097152}

LEMMA Small ==
  /\ \A m \in 1 .. 4 : m = 1 \/ m = 2 \/ m = 3 \/ m = 4
  /\ 2 \in 2 .. 2 /\ 2 \in 2 .. 3 /\ 2 \in 2 .. 4 /\ 3 \in 2 .. 3 /\ 3 \in 2 .. 4 /\ 4 \in 2 .. 4
OBVIOUS

\* The bytes that NumBytes gives a count.
LEMMA CountedBytes ==
  ASSUME NEW b \in Byte
  PROVE  /\ NumBytes(b) = 1 => b \in FirstOne
         /\ NumBytes(b) = 2 => b \in FirstTwo
         /\ NumBytes(b) = 3 => b \in FirstThree
         /\ NumBytes(b) = 4 => b \in FirstFour
<1>1. b \in 0 .. 255
  BY DEF Byte
<1>2. CASE b < 128 \/ b \in 192 .. 247
  BY <1>1, <1>2, ByteCounts DEF FirstOne, FirstTwo, FirstThree, FirstFour
<1>3. CASE ~(b < 128) /\ b \notin 192 .. 247
  <2>1. b \notin 192 .. 223 /\ b \notin 224 .. 239 /\ b \notin 240 .. 247
    BY <1>1, <1>3
  <2>2. NumBytes(b) = 0
    BY <1>3, <2>1 DEF NumBytes
  <2>3. QED
    BY <2>2
<1>4. QED
  BY <1>2, <1>3

\* What convert makes of a value of which no byte is missing.
LEMMA ConvertOne ==
  ASSUME NEW u, Len(u) \in Nat, NumBytes(Head(u)) = 1, Len(u) >= 1
  PROVE  Convert(u) = Head(u)
<1>1. \A k \in 2 .. 1 : FALSE
  OBVIOUS
<1>2. QED
  BY <1>1, Z3 DEF Convert, Later

LEMMA IndexOne ==
  ASSUME NEW a \in FirstOne
  PROVE  NumBytes(a) = 1 /\ a \in Indexes
<1>1. NumBytes(a) = 1
  BY ByteCounts DEF FirstOne
<1>2. a \in Indexes
  BY SMT DEF FirstOne, Later, Indexes
<1>3. QED
  BY <1>1, <1>2

LEMMA ReadsOne ==
  ASSUME NEW u, NEW a \in FirstOne, Len(u) \in Nat, Len(u) >= 1, Head(u) = a
  PROVE  Convert(u) = a /\ a \in Indexes
<1>1. NumBytes(a) = 1 /\ a \in Indexes
  BY IndexOne, Zenon
<1>2. NumBytes(Head(u)) = 1
  BY <1>1, Zenon
<1>3. QED
  BY <1>1, <1>2, ConvertOne, Zenon

LEMMA ConvertTwo ==
  ASSUME NEW u, Len(u) \in Nat, NumBytes(Head(u)) = 2, Len(u) >= 2,
         u[2] \in Later
  PROVE  Convert(u) = OfTwo(Head(u), u[2])
<1>1. \A k \in 2 .. 2 : k = 2
  OBVIOUS
<1>2. QED
  BY <1>1, Z3 DEF Convert, Later, OfTwo

LEMMA IndexTwo ==
  ASSUME NEW a \in FirstTwo, NEW b \in Later
  PROVE  NumBytes(a) = 2 /\ OfTwo(a, b) \in Indexes
<1>1. NumBytes(a) = 2
  BY ByteCounts DEF FirstTwo
<1>2. OfTwo(a, b) \in Indexes
  BY SMT DEF FirstTwo, Later, OfTwo, Indexes
<1>3. QED
  BY <1>1, <1>2

LEMMA ReadsTwo ==
  ASSUME NEW u, NEW a \in FirstTwo, NEW b \in Later,
         Len(u) \in Nat, Len(u) >= 2, Head(u) = a, u[2] = b
  PROVE  Convert(u) = OfTwo(a, b) /\ OfTwo(a, b) \in Indexes
<1>1. NumBytes(a) = 2 /\ OfTwo(a, b) \in Indexes
  BY IndexTwo, Zenon
<1>2. /\ NumBytes(Head(u)) = 2
      /\ u[2] \in Later
  BY <1>1, Zenon
<1>3. Convert(u) = OfTwo(Head(u), u[2])
  BY <1>2, ConvertTwo, Zenon
<1>4. QED
  BY <1>1, <1>3, Zenon

LEMMA ConvertThree ==
  ASSUME NEW u, Len(u) \in Nat, NumBytes(Head(u)) = 3, Len(u) >= 3,
         u[2] \in Later, u[3] \in Later
  PROVE  Convert(u) = OfThree(Head(u), u[2], u[3])
<1>1. \A k \in 2 .. 3 : k = 2 \/ k = 3
  OBVIOUS
<1>2. QED
  BY <1>1, Z3 DEF Convert, Later, OfThree

LEMMA IndexThree ==
  ASSUME NEW a \in FirstThree, NEW b \in Later, NEW c \in Later
  PROVE  NumBytes(a) = 3 /\ OfThree(a, b, c) \in Indexes
<1>1. NumBytes(a) = 3
  BY ByteCounts DEF FirstThree
<1>2. OfThree(a, b, c) \in Indexes
  BY SMT DEF FirstThree, Later, OfThree, Indexes
<1>3. QED
  BY <1>1, <1>2

LEMMA ReadsThree ==
  ASSUME NEW u, NEW a \in FirstThree, NEW b \in Later, NEW c \in Later,
         Len(u) \in Nat, Len(u) >= 3, Head(u) = a, u[2] = b, u[3] = c
  PROVE  Convert(u) = OfThree(a, b, c) /\ OfThree(a, b, c) \in Indexes
<1>1. NumBytes(a) = 3 /\ OfThree(a, b, c) \in Indexes
  BY IndexThree, Zenon
<1>2. /\ NumBytes(Head(u)) = 3
      /\ u[2] \in Later /\ u[3] \in Later
  BY <1>1, Zenon
<1>3. Convert(u) = OfThree(Head(u), u[2], u[3])
  BY <1>2, ConvertThree, Zenon
<1>4. QED
  BY <1>1, <1>3, Zenon

LEMMA ConvertFour ==
  ASSUME NEW u, Len(u) \in Nat, NumBytes(Head(u)) = 4, Len(u) >= 4,
         u[2] \in Later, u[3] \in Later, u[4] \in Later
  PROVE  Convert(u) = OfFour(Head(u), u[2], u[3], u[4])
<1>1. \A k \in 2 .. 4 : k = 2 \/ k = 3 \/ k = 4
  OBVIOUS
<1>2. QED
  BY <1>1, Z3 DEF Convert, Later, OfFour

LEMMA IndexFour ==
  ASSUME NEW a \in FirstFour, NEW b \in Later, NEW c \in Later, NEW d \in Later
  PROVE  NumBytes(a) = 4 /\ OfFour(a, b, c, d) \in Indexes
<1>1. NumBytes(a) = 4
  BY ByteCounts DEF FirstFour
<1>2. OfFour(a, b, c, d) \in Indexes
  BY SMT DEF FirstFour, Later, OfFour, Indexes
<1>3. QED
  BY <1>1, <1>2

LEMMA ReadsFour ==
  ASSUME NEW u, NEW a \in FirstFour, NEW b \in Later, NEW c \in Later, NEW d \in Later,
         Len(u) \in Nat, Len(u) >= 4, Head(u) = a, u[2] = b, u[3] = c, u[4] = d
  PROVE  Convert(u) = OfFour(a, b, c, d) /\ OfFour(a, b, c, d) \in Indexes
<1>1. NumBytes(a) = 4 /\ OfFour(a, b, c, d) \in Indexes
  BY IndexFour, Zenon
<1>2. /\ NumBytes(Head(u)) = 4
      /\ u[2] \in Later /\ u[3] \in Later /\ u[4] \in Later
  BY <1>1, Zenon
<1>3. Convert(u) = OfFour(Head(u), u[2], u[3], u[4])
  BY <1>2, ConvertFour, Zenon
<1>4. QED
  BY <1>1, <1>3, Zenon

\* What it refuses: only a value with a byte missing or wrong.
LEMMA ConvertFails ==
  ASSUME NEW u, \A n \in 1 .. 4 : \/ NumBytes(Head(u)) # n \/ ~(Len(u) >= n)
                                  \/ \E k \in 2 .. n : u[k] \notin Later
  PROVE  Convert(u) = -1
BY Z3 DEF Convert, Later

\* Of any value that UTF-8 has, and whatever follows it, what convert_utf8
\* writes is what convert reads, with as many bytes as numBytes says, and its
\* first byte is none of the markers (comdec.c:33-74, 175-229, 278-334).
THEOREM ValuesAreReadBack ==
  ASSUME NEW v \in Nat, v <= LastValue, NEW w \in Seq(Int)
  PROVE  /\ Convert(Utf8(v) \o w) = v
         /\ NumBytes(Head(Utf8(v))) = Len(Utf8(v))
         /\ Head(Utf8(v)) \notin SOT .. EOR
<1> DEFINE u == Utf8(v) \o w
<1>v. PICK v1 \in Nat : v1 = v \div 64
  BY Digits
<1>w. PICK v2 \in Nat : v2 = v \div 4096
  BY Digits
<1>x. PICK v3 \in Nat : v3 = v \div 262144
  BY Digits
<1>x0. PICK x0 \in 0 .. 63 : x0 = v % 64
  BY Digits, SMT
<1>x1. PICK x1 \in 0 .. 63 : x1 = v1 % 64
  BY Digit, <1>v, SMT
<1>x2. PICK x2 \in 0 .. 63 : x2 = v2 % 64
  BY Digit, <1>w, SMT
<1>0. /\ v = v1 * 64 + x0 /\ v1 = v2 * 64 + x1 /\ v2 = v3 * 64 + x2
      /\ Bits(v, 1) = 128 + x0 /\ Bits(v, 64) = 128 + x1 /\ Bits(v, 4096) = 128 + x2
  <2>1. v \div 1 = v
    OBVIOUS
  <2>2. Bits(v, 1) = 128 + x0 /\ Bits(v, 64) = 128 + x1 /\ Bits(v, 4096) = 128 + x2
    BY <2>1, <1>v, <1>w, <1>x0, <1>x1, <1>x2, SMT DEF Bits
  <2>3. QED
    BY <2>2, <1>v, <1>w, <1>x, <1>x0, <1>x1, <1>x2, Digits, SMT
<1>a. /\ v <= 2047 => v1 \in 0 .. 31
      /\ v <= 65535 => v2 \in 0 .. 15
      /\ v3 \in 0 .. 7
      /\ v = v2 * 4096 + x1 * 64 + x0
      /\ v = v3 * 262144 + x2 * 4096 + x1 * 64 + x0
  <2>1. v = v1 * 64 + x0 /\ v1 = v2 * 64 + x1 /\ v2 = v3 * 64 + x2
    BY <1>0, SMT
  <2>2. v <= 2047 => v1 \in 0 .. 31
    BY <2>1, SMT
  <2>3. v = v2 * 4096 + x1 * 64 + x0
    BY <2>1, SMT
  <2>4. v <= 65535 => v2 \in 0 .. 15
    BY <2>3, SMT
  <2>5. v = v3 * 262144 + x2 * 4096 + x1 * 64 + x0
    BY <2>1, SMT
  <2>6. v3 \in 0 .. 7
    BY <2>5, SMT DEF LastValue
  <2>7. QED
    BY <2>2, <2>3, <2>4, <2>5, <2>6, SMT
<1>b0. PICK b0 \in Later : b0 = 128 + x0
  BY SMT DEF Later
<1>b1. PICK b1 \in Later : b1 = 128 + x1
  BY SMT DEF Later
<1>b2. PICK b2 \in Later : b2 = 128 + x2
  BY SMT DEF Later
<1>b. Bits(v, 1) = b0 /\ Bits(v, 64) = b1 /\ Bits(v, 4096) = b2
  BY <1>0, <1>b0, <1>b1, <1>b2, SMT
<1>1. CASE v <= 127
  <2>0. ~(127 < v) /\ ~(2047 < v) /\ ~(65535 < v)
    BY <1>1, SMT
  <2>1. Utf8(v) = <<v>>
    BY <1>1, <2>0, Z3 DEF Utf8
  <2>2. /\ Len(u) >= 1 /\ Len(u) \in Nat /\ Head(u) = v
        /\ Head(Utf8(v)) = v /\ Len(Utf8(v)) = 1
    BY <2>1, SMT
  <2> HIDE DEF u
  <2>3. v \in FirstOne /\ v \notin SOT .. EOR
    BY <1>1, SMT DEF SOT, EOR, FirstOne
  <2>4. NumBytes(v) = 1
    BY <1>1, ByteCounts, SMT
  <2>5. Convert(u) = v
    BY <2>2, <2>3, ReadsOne, Zenon
  <2>6. QED
    BY <2>2, <2>3, <2>4, <2>5, Zenon DEF u
<1>2. CASE 127 < v /\ v <= 2047
  <2>0. ~(v <= 127) /\ ~(2047 < v) /\ ~(65535 < v)
    BY <1>2, SMT
  <2>1. v1 \in 0 .. 31
    BY <1>a, <1>2, SMT
  <2>2. PICK a \in FirstTwo : a = 192 + v1
    BY <2>1, SMT DEF FirstTwo
  <2>3. Utf8(v) = <<a, b0>>
    <3>1. a = 192 + (v \div 64) /\ b0 = Bits(v, 1)
      BY <1>v, <1>b, <2>2, SMT
    <3>2. QED
      BY <1>2, <2>0, <3>1, Z3 DEF Utf8
  <2>4. OfTwo(a, b0) = v
    BY <1>0, <1>a, <1>b0, <1>b1, <1>b2, <2>2, SMT DEF OfTwo
  <2>5. /\ Head(u) = a /\ u[2] = b0
        /\ Len(u) \in Nat /\ Len(u) >= 2
        /\ Head(Utf8(v)) = a /\ Len(Utf8(v)) = 2
    BY <2>3, SMT
  <2>6. NumBytes(a) = 2
    BY IndexTwo, Zenon
  <2>7. a \notin SOT .. EOR
    BY <2>2, SMT DEF SOT, EOR, FirstTwo
  <2> HIDE DEF u
  <2>8. Convert(u) = OfTwo(a, b0)
    BY <2>5, ReadsTwo, Zenon
  <2>9. QED
    BY <2>4, <2>5, <2>6, <2>7, <2>8, Zenon DEF u
<1>3. CASE 2047 < v /\ v <= 65535
  <2>0. ~(v <= 127) /\ ~(v <= 2047) /\ ~(65535 < v)
    BY <1>3, SMT
  <2>1. v2 \in 0 .. 15
    BY <1>a, <1>3, SMT
  <2>2. PICK a \in FirstThree : a = 224 + v2
    BY <2>1, SMT DEF FirstThree
  <2>3. Utf8(v) = <<a, b1, b0>>
    BY <1>v, <1>w, <1>x, <1>b, <1>3, <2>0, <2>2, Z3 DEF Utf8
  <2>4. OfThree(a, b1, b0) = v
    BY <1>a, <1>b0, <1>b1, <1>b2, <2>2, SMT DEF OfThree
  <2>5. /\ Head(u) = a /\ u[2] = b1 /\ u[3] = b0
        /\ Len(u) \in Nat /\ Len(u) >= 3
        /\ Head(Utf8(v)) = a /\ Len(Utf8(v)) = 3
    BY <2>3, SMT
  <2>6. NumBytes(a) = 3
    BY IndexThree, Zenon
  <2>7. a \notin SOT .. EOR
    BY <2>2, SMT DEF SOT, EOR, FirstThree
  <2> HIDE DEF u
  <2>8. Convert(u) = OfThree(a, b1, b0)
    BY <2>5, ReadsThree, Zenon
  <2>9. QED
    BY <2>4, <2>5, <2>6, <2>7, <2>8, Zenon DEF u
<1>4. CASE 65535 < v
  <2>0. ~(v <= 127) /\ ~(v <= 2047) /\ ~(v <= 65535)
    BY <1>4, SMT
  <2>1. v3 \in 0 .. 7
    BY <1>a, <1>4, SMT
  <2>2. PICK a \in FirstFour : a = 240 + v3
    BY <2>1, SMT DEF FirstFour
  <2>3. Utf8(v) = <<a, b2, b1, b0>>
    BY <1>v, <1>w, <1>x, <1>b, <1>4, <2>0, <2>2, Z3 DEF Utf8
  <2>4. OfFour(a, b2, b1, b0) = v
    BY <1>a, <1>b0, <1>b1, <1>b2, <2>2, SMT DEF OfFour
  <2>5. /\ Head(u) = a /\ u[2] = b2 /\ u[3] = b1 /\ u[4] = b0
        /\ Len(u) \in Nat /\ Len(u) >= 4
        /\ Head(Utf8(v)) = a /\ Len(Utf8(v)) = 4
    BY <2>3, SMT
  <2>6. NumBytes(a) = 4
    BY IndexFour, Zenon
  <2>7. a \notin SOT .. EOR
    BY <2>2, SMT DEF SOT, EOR, FirstFour
  <2> HIDE DEF u
  <2>8. Convert(u) = OfFour(a, b2, b1, b0)
    <3>1. /\ NumBytes(Head(u)) = 4 /\ Len(u) \in Nat /\ Len(u) >= 4
          /\ u[2] \in Later /\ u[3] \in Later /\ u[4] \in Later
      BY <2>5, <2>6, Zenon
    <3>2. Convert(u) = OfFour(Head(u), u[2], u[3], u[4])
      BY <3>1, ConvertFour, Zenon
    <3>3. QED
      BY <2>5, <3>2, Zenon
  <2>9. QED
    BY <2>4, <2>5, <2>6, <2>7, <2>8, Zenon DEF u
<1>5. QED
  BY <1>1, <1>2, <1>3, <1>4, SMT

\* Whatever bytes a transmission consists of, and wherever it ends, a value
\* that convert accepts is an index of rule_map, which has 1 << 21 places
\* (comdec.c:186-229, 339-344, sequitur.h:83).
THEOREM ValuesAreIndexes ==
  ASSUME NEW w \in Seq(Byte), w # <<>>, Convert(w) # -1
  PROVE  Convert(w) \in Indexes
<1>1. Head(w) \in Byte /\ Len(w) \in Nat
  BY HeadTailProperties, LenProperties, Zenon
<1>2. PICK m \in 1 .. 4 : NumBytes(Head(w)) = m /\ Len(w) >= m /\ \A k \in 2 .. m : w[k] \in Later
  BY ConvertFails, Zenon
<1>3. m = 1 \/ m = 2 \/ m = 3 \/ m = 4
  BY Small
<1>4. CASE m = 1
  <2>1. Head(w) \in FirstOne
    BY <1>1, <1>2, <1>4, CountedBytes, Zenon
  <2>2. QED
    BY <1>1, <1>2, <1>4, <2>1, ReadsOne, Zenon
<1>5. CASE m = 2
  <2>1. Head(w) \in FirstTwo
    BY <1>1, <1>2, <1>5, CountedBytes, Zenon
  <2>2. w[2] \in Later
    BY <1>2, <1>5, Small, Zenon
  <2>3. Len(w) >= 2
    BY <1>2, <1>5
  <2>4. QED
    BY <1>1, <2>1, <2>2, <2>3, ReadsTwo, Zenon
<1>6. CASE m = 3
  <2>1. Head(w) \in FirstThree
    BY <1>1, <1>2, <1>6, CountedBytes, Zenon
  <2>2. w[2] \in Later /\ w[3] \in Later
    BY <1>2, <1>6, Small, Zenon
  <2>3. Len(w) >= 3
    BY <1>2, <1>6
  <2>4. QED
    BY <1>1, <2>1, <2>2, <2>3, ReadsThree, Zenon
<1>7. CASE m = 4
  <2>1. Head(w) \in FirstFour
    BY <1>1, <1>2, <1>7, CountedBytes, Zenon
  <2>2. w[2] \in Later /\ w[3] \in Later /\ w[4] \in Later
    BY <1>2, <1>7, Small, Zenon
  <2>3. Len(w) >= 4
    BY <1>2, <1>7
  <2>4. QED
    BY <1>1, <2>1, <2>2, <2>3, ReadsFour, Zenon
<1>8. QED
  BY <1>3, <1>4, <1>5, <1>6, <1>7
=============================================================================
