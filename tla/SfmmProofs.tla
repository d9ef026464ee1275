----------------------------- MODULE SfmmProofs -----------------------------
(***************************************************************************)
(* Proofs about the allocator, for heaps of any number of pages and calls  *)
(* of any sizes that do not wrap round.                                    *)
(***************************************************************************)
EXTENDS Sfmm, FiniteSetTheorems, SequenceTheorems, WellFoundedInduction, TLAPS

-----------------------------------------------------------------------------
(***************************************************************************)
(* The lists: no block is in two places, and putting one in or taking one  *)
(* out changes nothing else.                                               *)
(***************************************************************************)

Chains(fl) ==
  /\ fl \in [Lists -> Seq(Nat)]
  /\ \A i, j \in Lists : \A k \in DOMAIN fl[i], l \in DOMAIN fl[j] :
       fl[i][k] = fl[j][l] => i = j /\ k = l

In(fl, x) == \E i \in Lists : \E k \in DOMAIN fl[i] : fl[i][k] = x

LEMMA Prepended ==
  ASSUME NEW s \in Seq(Nat), NEW x \in Nat
  PROVE  /\ <<x>> \o s \in Seq(Nat) /\ DOMAIN (<<x>> \o s) = 1 .. Len(s) + 1
         /\ (<<x>> \o s)[1] = x
         /\ \A k \in 1 .. Len(s) + 1 : k # 1 => k - 1 \in 1 .. Len(s) /\ (<<x>> \o s)[k] = s[k - 1]
         /\ \A k \in 1 .. Len(s) : k + 1 \in 1 .. Len(s) + 1 /\ (<<x>> \o s)[k + 1] = s[k]
<1>1. Len(<<x>>) = 1 /\ <<x>> \in Seq(Nat) /\ <<x>>[1] = x
  OBVIOUS
<1>2. Len(s) \in Nat
  OBVIOUS
<1> DEFINE u == <<x>>
<1> HIDE DEF u
<1>3. /\ u \o s \in Seq(Nat) /\ Len(u \o s) = Len(s) + 1
      /\ \A k \in 1 .. Len(s) + 1 : (u \o s)[k] = IF k <= 1 THEN u[k] ELSE s[k - 1]
  BY <1>1, <1>2 DEF u
<1>4. QED
  BY <1>1, <1>2, <1>3 DEF u

Enlist(fl, i, x) == [fl EXCEPT ![i] = <<x>> \o @]

LEMMA Enlisted ==
  ASSUME NEW fl, Chains(fl), NEW x \in Nat, ~In(fl, x), NEW i \in Lists,
         NEW g, g = Enlist(fl, i, x)
  PROVE  Chains(g) /\ \A y : In(g, y) <=> y = x \/ In(fl, y)
<1> DEFINE s == fl[i]
           u == <<x>> \o s
<1>1. /\ s \in Seq(Nat) /\ u \in Seq(Nat) /\ DOMAIN u = 1 .. Len(s) + 1 /\ u[1] = x
      /\ DOMAIN s = 1 .. Len(s) /\ Len(s) \in Nat
      /\ \A k \in 1 .. Len(s) + 1 : k # 1 => k - 1 \in 1 .. Len(s) /\ u[k] = s[k - 1]
      /\ \A k \in 1 .. Len(s) : k + 1 \in 1 .. Len(s) + 1 /\ u[k + 1] = s[k]
  BY Prepended DEF Chains
<1>2. /\ g \in [Lists -> Seq(Nat)] /\ g[i] = u
      /\ \A j \in Lists : j # i => g[j] = fl[j]
  <2> HIDE DEF u
  <2>1. fl \in [Lists -> Seq(Nat)] /\ g = [fl EXCEPT ![i] = u]
    BY DEF Chains, Enlist, u
  <2>2. QED
    BY <1>1, <2>1
<1> HIDE DEF u, s
<1>3. \A y : In(g, y) <=> y = x \/ In(fl, y)
  <2>1. ASSUME NEW y, In(g, y) PROVE y = x \/ In(fl, y)
    <3>1. PICK j \in Lists : \E k \in DOMAIN g[j] : g[j][k] = y
      BY <2>1 DEF In
    <3>2. PICK k \in DOMAIN g[j] : g[j][k] = y
      BY <3>1
    <3>3. CASE j = i /\ k # 1
      <4>1. k - 1 \in DOMAIN fl[i] /\ fl[i][k - 1] = y
        BY <1>1, <1>2, <3>2, <3>3 DEF s
      <4>2. QED
        BY <4>1 DEF In
    <3>4. CASE j = i /\ k = 1
      BY <1>1, <1>2, <3>2, <3>4
    <3>5. CASE j # i
      BY <1>2, <3>2, <3>5 DEF In
    <3>6. QED
      BY <3>3, <3>4, <3>5
  <2>2. In(g, x)
    <3>1. 1 \in DOMAIN g[i] /\ g[i][1] = x
      BY <1>1, <1>2
    <3>2. QED
      BY <3>1 DEF In
  <2>3. ASSUME NEW y, In(fl, y) PROVE In(g, y)
    <3>1. PICK j \in Lists : \E k \in DOMAIN fl[j] : fl[j][k] = y
      BY <2>3 DEF In
    <3>2. PICK k \in DOMAIN fl[j] : fl[j][k] = y
      BY <3>1
    <3>3. CASE j = i
      <4>1. k + 1 \in DOMAIN g[i] /\ g[i][k + 1] = y
        BY <1>1, <1>2, <3>2, <3>3 DEF s
      <4>2. QED
        BY <4>1 DEF In
    <3>4. CASE j # i
      BY <1>2, <3>2, <3>4 DEF In
    <3>5. QED
      BY <3>3, <3>4
  <2>4. QED
    BY <2>1, <2>2, <2>3
<1>4. ASSUME NEW a \in Lists, NEW b \in Lists, NEW k \in DOMAIN g[a], NEW l \in DOMAIN g[b],
             g[a][k] = g[b][l]
      PROVE  a = b /\ k = l
  <2> DEFINE kk == IF a = i THEN k - 1 ELSE k
             ll == IF b = i THEN l - 1 ELSE l
  <2>0. \A j \in Lists : \A m \in DOMAIN fl[j] : fl[j][m] # x
    BY DEF In
  <2>1. (a = i /\ k = 1 /\ g[a][k] = x) \/ (kk \in DOMAIN fl[a] /\ fl[a][kk] = g[a][k] /\ g[a][k] # x)
    <3>1. CASE a = i /\ k = 1
      BY <1>1, <1>2, <3>1
    <3>2. CASE a = i /\ k # 1
      <4>0. k \in 1 .. Len(s) + 1 /\ g[a] = u
        BY <1>1, <1>2, <3>2
      <4>1. k - 1 \in DOMAIN fl[a] /\ fl[a][k - 1] = g[a][k]
        BY <1>1, <3>2, <4>0 DEF s
      <4>2. QED
        BY <4>1, <3>2, <2>0
    <3>3. CASE a # i
      BY <1>2, <2>0, <3>3
    <3>4. QED
      BY <3>1, <3>2, <3>3
  <2>2. (b = i /\ l = 1 /\ g[b][l] = x) \/ (ll \in DOMAIN fl[b] /\ fl[b][ll] = g[b][l] /\ g[b][l] # x)
    <3>1. CASE b = i /\ l = 1
      BY <1>1, <1>2, <3>1
    <3>2. CASE b = i /\ l # 1
      <4>0. l \in 1 .. Len(s) + 1 /\ g[b] = u
        BY <1>1, <1>2, <3>2
      <4>1. l - 1 \in DOMAIN fl[b] /\ fl[b][l - 1] = g[b][l]
        BY <1>1, <3>2, <4>0 DEF s
      <4>2. QED
        BY <4>1, <3>2, <2>0
    <3>3. CASE b # i
      BY <1>2, <2>0, <3>3
    <3>4. QED
      BY <3>1, <3>2, <3>3
  <2>3. CASE g[a][k] = x
    BY <2>1, <2>2, <2>3, <1>4
  <2>4. CASE g[a][k] # x
    <3>1. a = b /\ kk = ll
      BY <2>1, <2>2, <2>4, <1>4 DEF Chains
    <3>2. k \in Int /\ l \in Int
      BY <1>1, <1>2 DEF Chains
    <3>3. QED
      BY <3>1, <3>2
  <2>5. QED
    BY <2>3, <2>4
<1>5. QED
  BY <1>2, <1>3, <1>4 DEF Chains

LEMMA Removed ==
  ASSUME NEW s \in Seq(Nat), NEW k \in DOMAIN s
  PROVE  LET t == RemoveAt(s, k)
         IN /\ t \in Seq(Nat) /\ DOMAIN t = 1 .. Len(s) - 1
            /\ \A m \in 1 .. Len(s) - 1 : t[m] = IF m < k THEN s[m] ELSE s[m + 1]
<1> DEFINE u == SubSeq(s, 1, k - 1)
           v == SubSeq(s, k + 1, Len(s))
<1>1. k \in 1 .. Len(s) /\ Len(s) \in Nat /\ k \in Int /\ \A i \in 1 .. Len(s) : s[i] \in Nat
  OBVIOUS
<1>2. /\ u \in Seq(Nat) /\ Len(u) = k - 1
      /\ \A i \in 1 .. k - 1 : u[i] = s[i]
  <2>1. \A i \in 1 .. k - 1 : s[i] \in Nat
    BY <1>1
  <2>2. /\ u \in Seq(Nat) /\ Len(u) = IF 1 <= k - 1 THEN k - 1 - 1 + 1 ELSE 0
        /\ \A i \in 1 .. k - 1 - 1 + 1 : u[i] = s[1 + i - 1]
    BY <1>1, <2>1, SubSeqProperties
  <2> HIDE DEF u
  <2>3. QED
    BY <1>1, <2>2
<1>3. /\ v \in Seq(Nat) /\ Len(v) = Len(s) - k
      /\ \A i \in 1 .. Len(s) - k : v[i] = s[k + i]
  <2> DEFINE j == k + 1
             n == Len(s)
  <2>1. j \in Int /\ n \in Int /\ \A i \in j .. n : s[i] \in Nat
    BY <1>1
  <2>2. v = SubSeq(s, j, n)
    OBVIOUS
  <2> HIDE DEF v, j, n
  <2>3. /\ v \in Seq(Nat) /\ Len(v) = IF j <= n THEN n - j + 1 ELSE 0
        /\ \A i \in 1 .. n - j + 1 : v[i] = s[j + i - 1]
    BY <2>1, <2>2, SubSeqProperties
  <2>4. \A i \in 1 .. Len(s) - k : v[i] = s[k + i]
    <3>1. TAKE i \in 1 .. Len(s) - k
    <3>2. i \in 1 .. n - j + 1 /\ j + i - 1 = k + i
      BY <1>1 DEF j, n
    <3>3. QED
      BY <2>3, <3>2
  <2>5. Len(v) = Len(s) - k
    BY <1>1, <2>3 DEF j, n
  <2>6. QED
    BY <2>3, <2>4, <2>5
<1> HIDE DEF u, v
<1>4. /\ u \o v \in Seq(Nat) /\ Len(u \o v) = Len(s) - 1
      /\ \A i \in 1 .. Len(s) - 1 : (u \o v)[i] = IF i <= k - 1 THEN u[i] ELSE v[i - (k - 1)]
  <2>1. /\ u \o v \in Seq(Nat) /\ Len(u \o v) = Len(u) + Len(v)
        /\ \A i \in 1 .. Len(u) + Len(v) : (u \o v)[i] = IF i <= Len(u) THEN u[i] ELSE v[i - Len(u)]
    BY <1>2, <1>3, ConcatProperties
  <2>2. Len(u) = k - 1 /\ Len(u) + Len(v) = Len(s) - 1
    BY <1>1, <1>2, <1>3
  <2>3. QED
    BY <2>1, <2>2
<1> DEFINE t == u \o v
<1>5. RemoveAt(s, k) = t
  BY DEF RemoveAt, u, v
<1>6. \A m \in 1 .. Len(s) - 1 : t[m] = IF m < k THEN s[m] ELSE s[m + 1]
  <2> HIDE DEF t
  <2>1. TAKE m \in 1 .. Len(s) - 1
  <2>2. CASE m < k
    BY <1>1, <1>2, <1>4, <2>2 DEF t
  <2>3. CASE ~(m < k)
    <3>1. m - (k - 1) \in 1 .. Len(s) - k /\ k + (m - (k - 1)) = m + 1
      BY <1>1, <2>3
    <3>2. t[m] = v[m - (k - 1)]
      <4>1. ~(m <= k - 1)
        BY <1>1, <2>3
      <4>2. QED
        BY <1>4, <4>1 DEF t
    <3>3. QED
      BY <1>3, <2>3, <3>1, <3>2
  <2>4. QED
    BY <2>2, <2>3
<1> HIDE DEF t
<1>7. t \in Seq(Nat) /\ DOMAIN t = 1 .. Len(s) - 1
  BY <1>4 DEF t
<1>8. QED
  BY <1>5, <1>6, <1>7

LEMMA Unlisted ==
  ASSUME NEW fl, Chains(fl), NEW x, In(fl, x), NEW g, g = Unlist(fl, x)
  PROVE  Chains(g) /\ \A y : In(g, y) <=> y # x /\ In(fl, y)
<1> DEFINE i == CHOOSE i \in Lists : Contains(fl[i], x)
           s == fl[i]
           k == CHOOSE k \in DOMAIN fl[i] : fl[i][k] = x
           t == RemoveAt(s, k)
<1>1. \A j \in Lists : fl[j] \in Seq(Nat) /\ DOMAIN fl[j] = 1 .. Len(fl[j])
  BY DEF Chains
<1>2. i \in Lists /\ Contains(fl[i], x)
  <2>1. PICK j \in Lists : \E m \in DOMAIN fl[j] : fl[j][m] = x
    BY DEF In
  <2>2. Contains(fl[j], x)
    BY <1>1, <2>1 DEF Contains
  <2>3. QED
    BY <2>2
<1> HIDE DEF i
<1>3. k \in DOMAIN s /\ s[k] = x
  BY <1>1, <1>2 DEF Contains
<1> HIDE DEF k
<1>4. /\ t \in Seq(Nat) /\ DOMAIN t = 1 .. Len(s) - 1 /\ Len(s) \in Nat /\ k \in 1 .. Len(s)
      /\ DOMAIN s = 1 .. Len(s)
      /\ \A m \in 1 .. Len(s) - 1 : t[m] = IF m < k THEN s[m] ELSE s[m + 1]
  <2>1. s \in Seq(Nat) /\ DOMAIN s = 1 .. Len(s) /\ Len(s) \in Nat
    BY <1>1, <1>2
  <2> HIDE DEF s, k
  <2>2. QED
    BY <1>3, <2>1, Removed
<1>5. g = [fl EXCEPT ![i] = t]
  BY DEF Unlist, i, k
<1> HIDE DEF t
<1>6. /\ g \in [Lists -> Seq(Nat)] /\ g[i] = t
      /\ \A j \in Lists : j # i => g[j] = fl[j]
  BY <1>2, <1>4, <1>5 DEF Chains
<1>7. \A a, b \in Lists : \A m \in DOMAIN fl[a], l \in DOMAIN fl[b] :
        fl[a][m] = fl[b][l] => a = b /\ m = l
  BY DEF Chains
<1> HIDE DEF s
<1> DEFINE At(a, m) == IF a = i /\ k <= m THEN m + 1 ELSE m
<1>8. ASSUME NEW a \in Lists, NEW m \in DOMAIN g[a]
      PROVE  /\ m \in Int /\ At(a, m) \in DOMAIN fl[a] /\ fl[a][At(a, m)] = g[a][m]
             /\ ~(a = i /\ At(a, m) = k)
  <2>1. CASE a # i
    BY <1>1, <1>6, <2>1
  <2>2. CASE a = i
    <3>1. m \in 1 .. Len(s) - 1 /\ g[a][m] = t[m] /\ fl[a] = s
      BY <1>4, <1>6, <2>2 DEF s
    <3>2. CASE m < k
      BY <1>4, <2>2, <3>1, <3>2
    <3>3. CASE ~(m < k)
      BY <1>4, <2>2, <3>1, <3>3
    <3>4. QED
      BY <3>2, <3>3
  <2>3. QED
    BY <2>1, <2>2
<1>9. ASSUME NEW a \in Lists, NEW m \in DOMAIN fl[a], ~(a = i /\ m = k)
      PROVE  \E l \in DOMAIN g[a] : g[a][l] = fl[a][m]
  <2>1. CASE a # i
    BY <1>6, <2>1
  <2>2. CASE a = i /\ m < k
    <3>1. m \in 1 .. Len(s)
      BY <1>4, <2>2 DEF s
    <3>2. m \in DOMAIN g[a] /\ g[a][m] = fl[a][m]
      BY <1>4, <1>6, <2>2, <3>1 DEF s
    <3>3. QED
      BY <3>2
  <2>3. CASE a = i /\ k < m
    <3>1. m \in 1 .. Len(s)
      BY <1>4, <2>3 DEF s
    <3>2. m - 1 \in DOMAIN g[a] /\ g[a][m - 1] = fl[a][m]
      BY <1>4, <1>6, <2>3, <3>1 DEF s
    <3>3. QED
      BY <3>2
  <2>4. m \in Int /\ k \in Int
    BY <1>1, <1>4
  <2>5. QED
    BY <1>9, <2>1, <2>2, <2>3, <2>4
<1> HIDE DEF At
<1>10. ASSUME NEW a \in Lists, NEW b \in Lists, NEW m \in DOMAIN g[a], NEW l \in DOMAIN g[b],
              g[a][m] = g[b][l]
       PROVE  a = b /\ m = l
  <2>1. a = b /\ At(a, m) = At(b, l)
    BY <1>7, <1>8, <1>10
  <2>2. m \in Int /\ l \in Int /\ k \in Int
    BY <1>4, <1>8
  <2>3. QED
    BY <2>1, <2>2 DEF At
<1>11. ASSUME NEW y, In(g, y) PROVE y # x /\ In(fl, y)
  <2>1. PICK a \in Lists : \E m \in DOMAIN g[a] : g[a][m] = y
    BY <1>11 DEF In
  <2>2. PICK m \in DOMAIN g[a] : g[a][m] = y
    BY <2>1
  <2>3. /\ At(a, m) \in DOMAIN fl[a] /\ fl[a][At(a, m)] = y
        /\ ~(a = i /\ At(a, m) = k)
    BY <1>8, <2>2
  <2>4. y # x
    BY <1>2, <1>3, <1>7, <2>3 DEF s
  <2>5. QED
    BY <2>3, <2>4 DEF In
<1>12. ASSUME NEW y, y # x, In(fl, y) PROVE In(g, y)
  <2>1. PICK a \in Lists : \E m \in DOMAIN fl[a] : fl[a][m] = y
    BY <1>12 DEF In
  <2>2. PICK m \in DOMAIN fl[a] : fl[a][m] = y
    BY <2>1
  <2>3. ~(a = i /\ m = k)
    BY <1>3, <1>12, <2>2 DEF s
  <2>4. PICK l \in DOMAIN g[a] : g[a][l] = fl[a][m]
    BY <1>9, <2>3
  <2>5. QED
    BY <2>2, <2>4 DEF In
<1>13. QED
  BY <1>6, <1>10, <1>11, <1>12 DEF Chains

-----------------------------------------------------------------------------
(***************************************************************************)
(* The row of blocks, as the headers alone describe it.                    *)
(***************************************************************************)

Tags == [size : Nat, alloc : BOOLEAN, prev : BOOLEAN]
End(hd, b) == b + hd[b].size

\* From the prologue to the epilogue at epi, which is a header of size 0, blocks
\* follow one another without gap or overlap, and each header says of the block
\* before it whether it is allocated.
Row(hd, epi) ==
  /\ epi \in Nat /\ (epi + 16) % M = 0
  /\ {First, epi} \subseteq DOMAIN hd
  /\ hd[epi].size = 0 /\ hd[epi].alloc /\ hd[First].prev
  /\ \A x \in DOMAIN hd : x \in Nat /\ x <= epi /\ hd[x] \in Tags
  /\ \A b \in DOMAIN hd \ {epi} :
       /\ First <= b /\ (b + 16) % M = 0 /\ M <= hd[b].size
       /\ End(hd, b) \in DOMAIN hd
       /\ hd[End(hd, b)].prev <=> hd[b].alloc
       /\ \A x \in DOMAIN hd : x <= b \/ End(hd, b) <= x
  /\ \A x \in DOMAIN hd \ {First} : \E b \in DOMAIN hd \ {epi} : End(hd, b) = x

\* The headers the library writes: one with size and allocated bit set, one
\* whose bit for the block before it is set, that of a block split off, and that
\* of the epilogue.
Busy(n, t) == Tag(n, TRUE, t.prev)
Idle(n, t) == Tag(n, FALSE, t.prev)
AfterBusy(t) == Tag(t.size, t.alloc, TRUE)
AfterIdle(t) == Tag(t.size, t.alloc, FALSE)
Fresh(n) == Tag(n, TRUE, TRUE)
Epilogue == Tag(0, TRUE, FALSE)

LEMMA BusyBits ==
  ASSUME NEW t \in Tags, NEW n \in Nat, NEW g, g = Busy(n, t)
  PROVE  g.size = n /\ g.alloc /\ (g.prev <=> t.prev) /\ g \in Tags
BY DEF Busy, Tag, Tags

LEMMA IdleBits ==
  ASSUME NEW t \in Tags, NEW n \in Nat, NEW g, g = Idle(n, t)
  PROVE  g.size = n /\ ~g.alloc /\ (g.prev <=> t.prev) /\ g \in Tags
BY DEF Idle, Tag, Tags

LEMMA AfterBusyBits ==
  ASSUME NEW t \in Tags, NEW g, g = AfterBusy(t)
  PROVE  g.size = t.size /\ (g.alloc <=> t.alloc) /\ g.prev /\ g \in Tags
BY DEF AfterBusy, Tag, Tags

LEMMA AfterIdleBits ==
  ASSUME NEW t \in Tags, NEW g, g = AfterIdle(t)
  PROVE  g.size = t.size /\ (g.alloc <=> t.alloc) /\ ~g.prev /\ g \in Tags
BY DEF AfterIdle, Tag, Tags

LEMMA FreshBits ==
  ASSUME NEW n \in Nat, NEW g, g = Fresh(n)
  PROVE  g.size = n /\ g.alloc /\ g.prev /\ g \in Tags
BY DEF Fresh, Tag, Tags

LEMMA EpilogueBits == Epilogue.size = 0 /\ Epilogue.alloc /\ ~Epilogue.prev /\ Epilogue \in Tags
BY DEF Epilogue, Tag, Tags

\* Busy depends on the bit for the block before it only.
LEMMA BusyAgain ==
  ASSUME NEW t \in Tags, NEW n \in Nat
  PROVE  Busy(n, Idle(n, t)) = Busy(n, t) /\ AfterBusy(AfterBusy(t)) = AfterBusy(t)
BY DEF Busy, Idle, AfterBusy, Tag, Tags

LEMMA TagOfFields ==
  ASSUME NEW t \in Tags PROVE /\ t.size \in Nat /\ t.alloc \in BOOLEAN /\ t.prev \in BOOLEAN
                              /\ Tag(t.size, t.alloc, t.prev) = t
BY DEF Tag, Tags

\* One block has its bit changed, in its header and in the one after it.
LEMMA Retagged ==
  ASSUME NEW hd, NEW epi, Row(hd, epi), NEW b \in DOMAIN hd \ {epi}, NEW e, e = End(hd, b),
         NEW g, DOMAIN g = DOMAIN hd,
         \/ g[b] = Busy(hd[b].size, hd[b]) /\ g[e] = AfterBusy(hd[e])
         \/ g[b] = Idle(hd[b].size, hd[b]) /\ g[e] = AfterIdle(hd[e]),
         \A x \in DOMAIN hd \ {b, e} : g[x] = hd[x]
  PROVE  /\ Row(g, epi)
         /\ \A x \in DOMAIN hd : /\ g[x].size = hd[x].size
                                 /\ x # b => (g[x].alloc <=> hd[x].alloc)
                                 /\ x # e => (g[x].prev <=> hd[x].prev)
         /\ End(g, b) = e
<1>1. /\ e \in DOMAIN hd /\ b \in DOMAIN hd /\ b < e /\ b \in Nat /\ e \in Nat /\ e # First
      /\ hd[b] \in Tags /\ hd[e] \in Tags /\ hd[b].size \in Nat /\ b # e
  BY TagOfFields DEF Row, End, M, First
<1>2. \A x \in DOMAIN hd : x \in Nat /\ hd[x] \in Tags
  BY DEF Row
<1>3. /\ g[b].size = hd[b].size /\ (g[b].prev <=> hd[b].prev) /\ g[b] \in Tags
      /\ g[e].size = hd[e].size /\ (g[e].alloc <=> hd[e].alloc) /\ g[e] \in Tags
      /\ g[e].prev <=> g[b].alloc
  <2> DEFINE t == hd[b]
             u == hd[e]
             n == t.size
  <2>1. t \in Tags /\ u \in Tags /\ n \in Nat
    BY <1>1
  <2>2. (g[b] = Busy(n, t) /\ g[e] = AfterBusy(u)) \/ (g[b] = Idle(n, t) /\ g[e] = AfterIdle(u))
    OBVIOUS
  <2> HIDE DEF t, u, n
  <2>3. CASE g[b] = Busy(n, t) /\ g[e] = AfterBusy(u)
    <3>1. g[b].size = n /\ g[b].alloc /\ (g[b].prev <=> t.prev) /\ g[b] \in Tags
      BY <2>1, <2>3, BusyBits
    <3>2. g[e].size = u.size /\ (g[e].alloc <=> u.alloc) /\ g[e].prev /\ g[e] \in Tags
      BY <2>1, <2>3, AfterBusyBits
    <3>3. QED
      BY <3>1, <3>2 DEF t, u, n
  <2>4. CASE g[b] = Idle(n, t) /\ g[e] = AfterIdle(u)
    <3>1. g[b].size = n /\ ~g[b].alloc /\ (g[b].prev <=> t.prev) /\ g[b] \in Tags
      BY <2>1, <2>4, IdleBits
    <3>2. g[e].size = u.size /\ (g[e].alloc <=> u.alloc) /\ ~g[e].prev /\ g[e] \in Tags
      BY <2>1, <2>4, AfterIdleBits
    <3>3. QED
      BY <3>1, <3>2 DEF t, u, n
  <2>5. QED
    BY <2>2, <2>3, <2>4
<1>4. /\ \A x \in DOMAIN hd : g[x] \in Tags /\ g[x].size = hd[x].size
      /\ \A x \in DOMAIN hd : x # b => (g[x].alloc <=> hd[x].alloc)
      /\ \A x \in DOMAIN hd : x # e => (g[x].prev <=> hd[x].prev)
  BY <1>2, <1>3
<1>5. \A x \in DOMAIN hd : End(g, x) = End(hd, x)
  BY <1>4 DEF End
<1>6. \A x \in DOMAIN hd \ {epi} : End(hd, x) = e => x = b
  <2>1. TAKE x \in DOMAIN hd \ {epi}
  <2>2. HAVE End(hd, x) = e
  <2>3. /\ x \in Nat /\ hd[x].size \in Nat /\ x < End(hd, x)
        /\ x <= b \/ e <= x
        /\ b <= x \/ End(hd, x) <= b
    BY <1>1, <1>2, TagOfFields DEF Row, End, M
  <2>4. QED
    BY <1>1, <2>2, <2>3
<1>7. Row(g, epi)
  <2>1. /\ epi \in Nat /\ (epi + 16) % M = 0 /\ {First, epi} \subseteq DOMAIN g
        /\ g[epi].size = 0 /\ g[epi].alloc /\ g[First].prev
    BY <1>1, <1>4 DEF Row
  <2>2. \A x \in DOMAIN g : x \in Nat /\ x <= epi /\ g[x] \in Tags
    BY <1>4 DEF Row
  <2>3. ASSUME NEW x \in DOMAIN g \ {epi}
        PROVE  /\ First <= x /\ (x + 16) % M = 0 /\ M <= g[x].size
               /\ End(g, x) \in DOMAIN g
               /\ \A y \in DOMAIN g : y <= x \/ End(g, x) <= y
    BY <1>4, <1>5 DEF Row
  <2>4. ASSUME NEW x \in DOMAIN g \ {epi} PROVE g[End(g, x)].prev <=> g[x].alloc
    <3>1. CASE x = b
      BY <1>3, <1>5, <3>1
    <3>2. CASE x # b
      <4>1. End(hd, x) \in DOMAIN hd /\ End(hd, x) # e /\ (hd[End(hd, x)].prev <=> hd[x].alloc)
        BY <1>6, <3>2 DEF Row
      <4>2. QED
        BY <1>4, <1>5, <3>2, <4>1
    <3>3. QED
      BY <3>1, <3>2
  <2>5. \A x \in DOMAIN g \ {First} : \E y \in DOMAIN g \ {epi} : End(g, y) = x
    BY <1>5 DEF Row
  <2>6. QED
    BY <2>1, <2>2, <2>3, <2>4, <2>5 DEF Row
<1>8. QED
  BY <1>1, <1>4, <1>5, <1>7

\* What a row says of its blocks.
LEMMA RowFacts ==
  ASSUME NEW hd, NEW epi, Row(hd, epi)
  PROVE  /\ epi \in Nat /\ epi \in DOMAIN hd /\ First \in DOMAIN hd
         /\ \A x \in DOMAIN hd : /\ x \in Nat /\ hd[x] \in Tags /\ hd[x].size \in Nat
                                 /\ hd[x].alloc \in BOOLEAN /\ hd[x].prev \in BOOLEAN
                                 /\ First <= x /\ x <= epi /\ (x + 16) % M = 0
         /\ \A b \in DOMAIN hd \ {epi} :
              /\ End(hd, b) \in DOMAIN hd /\ b + M <= End(hd, b) /\ b < epi
              /\ \A x \in DOMAIN hd : b < x => End(hd, b) <= x
         /\ \A b, c \in DOMAIN hd \ {epi} : End(hd, b) = End(hd, c) => b = c
<1>1. /\ epi \in Nat /\ epi \in DOMAIN hd /\ First \in DOMAIN hd /\ First \in Nat
      /\ \A x \in DOMAIN hd : x \in Nat /\ hd[x] \in Tags /\ x <= epi
      /\ \A b \in DOMAIN hd \ {epi} : First <= b /\ M <= hd[b].size
  BY DEF Row, First, M
<1>2. \A x \in DOMAIN hd : hd[x].size \in Nat /\ hd[x].alloc \in BOOLEAN /\ hd[x].prev \in BOOLEAN
  BY <1>1, TagOfFields
<1>3. \A x \in DOMAIN hd : First <= x /\ (x + 16) % M = 0
  <2>1. (epi + 16) % M = 0 /\ \A b \in DOMAIN hd \ {epi} : First <= b /\ (b + 16) % M = 0
    BY DEF Row
  <2>2. First <= epi
    BY <1>1
  <2>3. QED
    BY <2>1, <2>2
<1>4. \A b \in DOMAIN hd \ {epi} :
        /\ End(hd, b) \in DOMAIN hd /\ b + M <= End(hd, b) /\ b < epi
        /\ \A x \in DOMAIN hd : b < x => End(hd, b) <= x
  <2>1. TAKE b \in DOMAIN hd \ {epi}
  <2>2. End(hd, b) \in DOMAIN hd /\ \A x \in DOMAIN hd : x <= b \/ End(hd, b) <= x
    BY DEF Row
  <2>3. b + M <= End(hd, b)
    BY <1>1, <1>2 DEF End, M
  <2>4. b < epi
    BY <1>1
  <2>5. \A x \in DOMAIN hd : b < x => End(hd, b) <= x
    BY <1>1, <2>2
  <2>6. QED
    BY <2>2, <2>3, <2>4, <2>5
<1>5. ASSUME NEW b \in DOMAIN hd \ {epi}, NEW c \in DOMAIN hd \ {epi}, End(hd, b) = End(hd, c)
      PROVE  b = c
  <2>1. /\ b \in Nat /\ c \in Nat /\ End(hd, b) \in Nat /\ b + M <= End(hd, b) /\ c + M <= End(hd, c)
        /\ b < c => End(hd, b) <= c
        /\ c < b => End(hd, c) <= b
    BY <1>1, <1>4
  <2>2. QED
    BY <1>5, <2>1 DEF M
<1>6. QED
  BY <1>1, <1>2, <1>3, <1>4, <1>5

\* The blocks from c up to e become one.
LEMMA Merged ==
  ASSUME NEW hd, NEW epi, Row(hd, epi), NEW c \in DOMAIN hd, NEW e \in DOMAIN hd, c < e,
         NEW g, DOMAIN g = DOMAIN hd \ (c + 1 .. e - 1),
         g[c] = Busy(e - c, hd[c]),
         g[e] = AfterBusy(hd[e]),
         \A x \in DOMAIN g \ {c, e} : g[x] = hd[x]
  PROVE  /\ Row(g, epi) /\ c \in DOMAIN g \ {epi} /\ e \in DOMAIN g
         /\ g[c].size = e - c /\ g[c].alloc
         /\ \A x \in DOMAIN g \ {c} : g[x].size = hd[x].size /\ (g[x].alloc <=> hd[x].alloc)
         /\ \A x \in DOMAIN g \ {e} : g[x].prev <=> hd[x].prev
<1>1. /\ epi \in Nat /\ c \in Nat /\ e \in Nat /\ c # e /\ First \in DOMAIN hd /\ First \in Nat
      /\ \A x \in DOMAIN hd : /\ x \in Nat /\ hd[x] \in Tags /\ hd[x].size \in Nat
                              /\ First <= x /\ x <= epi
      /\ \A b \in DOMAIN hd \ {epi} :
           /\ End(hd, b) \in DOMAIN hd /\ b + M <= End(hd, b)
           /\ \A x \in DOMAIN hd : b < x => End(hd, b) <= x
  BY RowFacts DEF First, M
<1>2. /\ \A x : x \in DOMAIN g <=> x \in DOMAIN hd /\ (x <= c \/ e <= x)
      /\ c \in DOMAIN g /\ e \in DOMAIN g /\ epi \in DOMAIN g /\ First \in DOMAIN g /\ c # epi
      /\ e # First /\ epi \in DOMAIN hd
  <2>1. \A x \in DOMAIN hd : x \in c + 1 .. e - 1 <=> ~(x <= c \/ e <= x)
    BY <1>1
  <2>2. \A x : x \in DOMAIN g <=> x \in DOMAIN hd /\ (x <= c \/ e <= x)
    BY <2>1
  <2>3. epi \in DOMAIN hd
    BY RowFacts
  <2>4. QED
    BY <1>1, <2>2, <2>3
<1>3. /\ e - c \in Nat /\ hd[c].prev \in BOOLEAN /\ hd[e].size \in Nat /\ hd[e].alloc \in BOOLEAN
  BY <1>1, RowFacts
<1>4. /\ g[c].size = e - c /\ g[c].alloc /\ (g[c].prev <=> hd[c].prev) /\ g[c] \in Tags
      /\ g[e].size = hd[e].size /\ (g[e].alloc <=> hd[e].alloc) /\ g[e].prev /\ g[e] \in Tags
  <2> DEFINE n == e - c
  <2>1. n \in Nat /\ g[c] = Busy(n, hd[c])
    BY <1>3
  <2> HIDE DEF n
  <2>2. g[c].size = n /\ g[c].alloc /\ (g[c].prev <=> hd[c].prev) /\ g[c] \in Tags
    BY <1>1, <2>1, BusyBits
  <2>3. g[e].size = hd[e].size /\ (g[e].alloc <=> hd[e].alloc) /\ g[e].prev /\ g[e] \in Tags
    <3>1. hd[e] \in Tags
      BY <1>1
    <3>2. QED
      BY <3>1, AfterBusyBits
  <2>4. QED
    BY <2>2, <2>3 DEF n
<1>5. /\ \A x \in DOMAIN g : g[x] \in Tags
      /\ \A x \in DOMAIN g \ {c} : g[x].size = hd[x].size /\ (g[x].alloc <=> hd[x].alloc)
      /\ \A x \in DOMAIN g \ {e} : g[x].prev <=> hd[x].prev
  BY <1>1, <1>2, <1>4
<1>6. End(g, c) = e /\ \A x \in DOMAIN g \ {c} : End(g, x) = End(hd, x)
  <2>1. c + (e - c) = e
    BY <1>1
  <2>2. End(g, c) = e
    BY <1>4, <2>1 DEF End
  <2>3. QED
    BY <1>5, <2>2 DEF End
<1>7. ASSUME NEW x \in DOMAIN g \ {epi}, x # c
      PROVE  End(hd, x) \in DOMAIN g /\ End(hd, x) # e
  <2>1. /\ x \in Nat /\ (x <= c \/ e <= x) /\ End(hd, x) \in DOMAIN hd /\ End(hd, x) \in Nat
        /\ x + M <= End(hd, x)
        /\ x < c => End(hd, x) <= c
    BY <1>1, <1>2
  <2>2. QED
    BY <1>1, <1>2, <1>7, <2>1 DEF M
<1>8. Row(g, epi)
  <2>1. /\ epi \in Nat /\ (epi + 16) % M = 0 /\ {First, epi} \subseteq DOMAIN g
    BY <1>2 DEF Row
  <2>2. g[epi].size = 0 /\ g[epi].alloc /\ g[First].prev
    <3>1. hd[epi].size = 0 /\ hd[epi].alloc /\ hd[First].prev
      BY DEF Row
    <3>2. QED
      BY <1>2, <1>5, <3>1
  <2>3. \A x \in DOMAIN g : x \in Nat /\ x <= epi /\ g[x] \in Tags
    BY <1>1, <1>2, <1>5
  <2>4. ASSUME NEW x \in DOMAIN g \ {epi}
        PROVE  /\ First <= x /\ (x + 16) % M = 0 /\ M <= g[x].size
               /\ End(g, x) \in DOMAIN g
               /\ g[End(g, x)].prev <=> g[x].alloc
               /\ \A y \in DOMAIN g : y <= x \/ End(g, x) <= y
    <3>1. First <= x /\ (x + 16) % M = 0 /\ M <= hd[x].size
      BY <1>2 DEF Row
    <3>2. CASE x = c
      <4>1. M <= e - c
        <5>1. c + M <= End(hd, c) /\ End(hd, c) <= e /\ End(hd, c) \in Nat
          BY <1>1, <1>2
        <5>2. QED
          BY <1>1, <5>1 DEF M
      <4>2. QED
        BY <1>1, <1>2, <1>4, <1>6, <3>1, <3>2, <4>1
    <3>3. CASE x # c
      <4>1. End(g, x) = End(hd, x) /\ End(hd, x) \in DOMAIN g /\ End(hd, x) # e
        BY <1>6, <1>7, <3>3
      <4>2. (g[End(hd, x)].prev <=> hd[End(hd, x)].prev) /\ (g[x].alloc <=> hd[x].alloc)
            /\ g[x].size = hd[x].size
        BY <1>5, <3>3, <4>1
      <4>3. hd[End(hd, x)].prev <=> hd[x].alloc
        BY <1>2 DEF Row
      <4>4. \A y \in DOMAIN g : y <= x \/ End(hd, x) <= y
        BY <1>1, <1>2
      <4>5. QED
        BY <3>1, <4>1, <4>2, <4>3, <4>4
    <3>4. QED
      BY <3>2, <3>3
  <2>5. ASSUME NEW x \in DOMAIN g \ {First}
        PROVE  \E y \in DOMAIN g \ {epi} : End(g, y) = x
    <3>1. PICK y \in DOMAIN hd \ {epi} : End(hd, y) = x
      BY <1>2 DEF Row
    <3>2. CASE y \in DOMAIN g /\ y # c
      BY <1>6, <3>1, <3>2
    <3>3. CASE y \notin DOMAIN g \/ y = c
      <4>1. /\ y \in Nat /\ c <= y /\ y < e /\ y < x /\ x \in Nat
        BY <1>1, <1>2, <3>1, <3>3 DEF M
      <4>2. x <= e
        BY <1>1, <3>1, <4>1
      <4>3. x = e
        BY <1>1, <1>2, <4>1, <4>2
      <4>4. QED
        BY <1>2, <1>6, <4>3
    <3>4. QED
      BY <3>2, <3>3
  <2>6. QED
    BY <2>1, <2>2, <2>3, <2>4, <2>5 DEF Row
<1>9. QED
  BY <1>2, <1>4, <1>5, <1>8

\* A block that is allocated is cut in two at r.
LEMMA Cut ==
  ASSUME NEW hd, NEW epi, Row(hd, epi), NEW b \in DOMAIN hd \ {epi}, hd[b].alloc,
         NEW r \in Nat, (r + 16) % M = 0, b + M <= r, r + M <= End(hd, b),
         NEW g, DOMAIN g = DOMAIN hd \cup {r},
         g[b] = Busy(r - b, hd[b]),
         g[r] = Fresh(End(hd, b) - r),
         \A x \in DOMAIN hd \ {b} : g[x] = hd[x]
  PROVE  /\ r \notin DOMAIN hd /\ Row(g, epi) /\ r # epi
         /\ g[b].size = r - b /\ g[b].alloc /\ (g[b].prev <=> hd[b].prev)
         /\ g[r].size = End(hd, b) - r /\ g[r].alloc /\ g[r].prev
         /\ \A x \in DOMAIN hd \ {b} : g[x] = hd[x]
<1> DEFINE e == End(hd, b)
<1>1. /\ epi \in Nat /\ b \in Nat /\ e \in Nat /\ e \in DOMAIN hd /\ b < r /\ r < e /\ First <= b
      /\ First \in DOMAIN hd /\ First \in Nat /\ epi \in DOMAIN hd
      /\ \A x \in DOMAIN hd : x \in Nat /\ hd[x] \in Tags /\ hd[x].size \in Nat /\ x <= epi
      /\ \A x \in DOMAIN hd : b < x => e <= x
      /\ \A x \in DOMAIN hd \ {epi} : End(hd, x) \in DOMAIN hd /\ x + M <= End(hd, x)
      /\ \A x \in DOMAIN hd \ {epi} : End(hd, x) = e => x = b
  <2>1. e \in DOMAIN hd /\ e \in Nat /\ b \in Nat
    BY RowFacts
  <2>2. QED
    BY <2>1, RowFacts DEF M, First
<1>2. r \notin DOMAIN hd /\ r # epi /\ r # b /\ e \in DOMAIN g /\ r \in DOMAIN g /\ b \in DOMAIN g
      /\ e # b
  BY <1>1
<1> HIDE DEF e
<1>3. r - b \in Nat /\ e - r \in Nat /\ hd[b].prev \in BOOLEAN /\ M <= r - b /\ M <= e - r
  BY <1>1, RowFacts DEF M, e
<1>4. /\ g[b].size = r - b /\ g[b].alloc /\ (g[b].prev <=> hd[b].prev) /\ g[b] \in Tags
      /\ g[r].size = e - r /\ g[r].alloc /\ g[r].prev /\ g[r] \in Tags
  <2> DEFINE m == r - b
             n == e - r
  <2>1. m \in Nat /\ n \in Nat /\ g[b] = Busy(m, hd[b]) /\ g[r] = Fresh(n)
    BY <1>3 DEF e
  <2> HIDE DEF m, n
  <2>2. g[b].size = m /\ g[b].alloc /\ (g[b].prev <=> hd[b].prev) /\ g[b] \in Tags
    BY <1>1, <2>1, BusyBits
  <2>3. g[r].size = n /\ g[r].alloc /\ g[r].prev /\ g[r] \in Tags
    BY <1>1, <2>1, FreshBits
  <2>4. QED
    BY <2>2, <2>3 DEF m, n
<1>5. /\ \A x \in DOMAIN g : g[x] \in Tags
      /\ \A x \in DOMAIN hd : (g[x].alloc <=> hd[x].alloc) /\ (g[x].prev <=> hd[x].prev)
  BY <1>1, <1>4
<1>6. End(g, b) = r /\ End(g, r) = e /\ \A x \in DOMAIN hd \ {b} : End(g, x) = End(hd, x)
  <2>1. b + (r - b) = r /\ r + (e - r) = e
    BY <1>1
  <2>2. End(g, b) = r /\ End(g, r) = e
    BY <1>4, <2>1 DEF End
  <2>3. QED
    BY <2>2 DEF End
<1>7. Row(g, epi)
  <2>1. /\ epi \in Nat /\ (epi + 16) % M = 0 /\ {First, epi} \subseteq DOMAIN g
        /\ g[epi].size = 0 /\ g[epi].alloc /\ g[First].prev
    BY <1>5 DEF Row
  <2>2. \A x \in DOMAIN g : x \in Nat /\ x <= epi /\ g[x] \in Tags
    BY <1>1, <1>5
  <2>3. ASSUME NEW x \in DOMAIN g \ {epi}
        PROVE  /\ First <= x /\ (x + 16) % M = 0 /\ M <= g[x].size
               /\ End(g, x) \in DOMAIN g
               /\ g[End(g, x)].prev <=> g[x].alloc
               /\ \A y \in DOMAIN g : y <= x \/ End(g, x) <= y
    <3>1. (b + 16) % M = 0 /\ (hd[e].prev <=> hd[b].alloc)
      BY DEF Row, e
    <3>2. CASE x = b
      <4>1. First <= b /\ M <= r - b /\ \A y \in DOMAIN g : y <= b \/ r <= y
        BY <1>1, <1>3
      <4>2. g[r].prev /\ g[b].alloc /\ g[b].size = r - b
        BY <1>4
      <4>3. QED
        BY <1>2, <1>6, <3>1, <3>2, <4>1, <4>2
    <3>3. CASE x = r
      <4>1. First <= r /\ M <= e - r
        BY <1>1, <1>3
      <4>2. g[e].prev
        BY <1>1, <1>2, <1>5, <3>1
      <4>3. \A y \in DOMAIN g : y <= r \/ e <= y
        BY <1>1
      <4>4. QED
        BY <1>2, <1>4, <1>6, <3>3, <4>1, <4>2, <4>3
    <3>4. CASE x \in DOMAIN hd \ {b}
      <4>1. /\ First <= x /\ (x + 16) % M = 0 /\ M <= hd[x].size
            /\ End(hd, x) \in DOMAIN hd
            /\ hd[End(hd, x)].prev <=> hd[x].alloc
            /\ \A y \in DOMAIN hd : y <= x \/ End(hd, x) <= y
        BY <3>4 DEF Row
      <4>2. r <= x \/ End(hd, x) <= r
        BY <1>1, <3>4, <4>1
      <4>3. QED
        BY <1>5, <1>6, <3>4, <4>1, <4>2
    <3>5. QED
      BY <3>2, <3>3, <3>4
  <2>4. ASSUME NEW x \in DOMAIN g \ {First}
        PROVE  \E y \in DOMAIN g \ {epi} : End(g, y) = x
    <3>1. CASE x = r
      BY <1>2, <1>6, <3>1
    <3>2. CASE x = e
      BY <1>2, <1>6, <3>2
    <3>3. CASE x # r /\ x # e
      <4>1. PICK y \in DOMAIN hd \ {epi} : End(hd, y) = x
        BY <3>3 DEF Row
      <4>2. QED
        BY <1>6, <3>3, <4>1 DEF e
    <3>4. QED
      BY <3>1, <3>2, <3>3
  <2>5. QED
    BY <2>1, <2>2, <2>3, <2>4 DEF Row
<1>8. QED
  BY <1>2, <1>4, <1>7 DEF e

\* The epilogue becomes a free block and a new one follows.
LEMMA Grown ==
  ASSUME NEW hd, NEW epi, Row(hd, epi), NEW e, e = epi + PageSize,
         NEW g, DOMAIN g = DOMAIN hd \cup {e},
         g[epi] = Idle(e - epi, hd[epi]),
         g[e] = Epilogue,
         \A x \in DOMAIN hd \ {epi} : g[x] = hd[x]
  PROVE  /\ Row(g, e) /\ e \notin DOMAIN hd /\ epi # e
         /\ ~g[epi].alloc /\ (g[epi].prev <=> hd[epi].prev) /\ End(g, epi) = e
<1>1. /\ epi \in Nat /\ e \in Nat /\ epi < e /\ epi \in DOMAIN hd /\ First \in DOMAIN hd
      /\ First \in Nat
      /\ \A x \in DOMAIN hd : x \in Nat /\ hd[x] \in Tags /\ First <= x /\ x <= epi
      /\ (epi + 16) % M = 0
      /\ e - epi = PageSize /\ e - epi \in Nat /\ M <= e - epi /\ hd[epi].prev \in BOOLEAN
  BY RowFacts DEF PageSize, M, First
<1>2. e \notin DOMAIN hd /\ e \in DOMAIN g /\ (e + 16) % M = 0 /\ e # First /\ epi # e
  BY <1>1 DEF PageSize, M
<1>3. /\ g[epi].size = e - epi /\ ~g[epi].alloc /\ (g[epi].prev <=> hd[epi].prev) /\ g[epi] \in Tags
      /\ g[e].size = 0 /\ g[e].alloc /\ ~g[e].prev /\ g[e] \in Tags
  <2> DEFINE n == e - epi
  <2>1. n \in Nat /\ 0 \in Nat /\ g[epi] = Idle(n, hd[epi])
    BY <1>1
  <2> HIDE DEF n
  <2>2. g[epi].size = n /\ ~g[epi].alloc /\ (g[epi].prev <=> hd[epi].prev) /\ g[epi] \in Tags
    <3>1. hd[epi] \in Tags
      BY <1>1
    <3>2. QED
      BY <2>1, <3>1, IdleBits
  <2>3. g[e].size = 0 /\ g[e].alloc /\ ~g[e].prev /\ g[e] \in Tags
    BY <1>1, <2>1, EpilogueBits
  <2>4. QED
    BY <2>2, <2>3 DEF n
<1>4. /\ \A x \in DOMAIN g : g[x] \in Tags
      /\ \A x \in DOMAIN hd : g[x].prev <=> hd[x].prev
  BY <1>1, <1>3
<1>5. End(g, epi) = e /\ \A x \in DOMAIN hd \ {epi} : End(g, x) = End(hd, x)
  BY <1>1, <1>3 DEF End
<1>6. Row(g, e)
  <2>1. /\ e \in Nat /\ (e + 16) % M = 0 /\ {First, e} \subseteq DOMAIN g
        /\ g[e].size = 0 /\ g[e].alloc /\ g[First].prev
    BY <1>1, <1>2, <1>3, <1>4 DEF Row
  <2>2. \A x \in DOMAIN g : x \in Nat /\ x <= e /\ g[x] \in Tags
    BY <1>1, <1>4
  <2>3. ASSUME NEW x \in DOMAIN g \ {e}
        PROVE  /\ First <= x /\ (x + 16) % M = 0 /\ M <= g[x].size
               /\ End(g, x) \in DOMAIN g
               /\ g[End(g, x)].prev <=> g[x].alloc
               /\ \A y \in DOMAIN g : y <= x \/ End(g, x) <= y
    <3>1. CASE x = epi
      <4>1. First <= epi /\ M <= e - epi /\ \A y \in DOMAIN g : y <= epi \/ e <= y
        BY <1>1
      <4>2. g[epi].size = e - epi /\ ~g[e].prev /\ ~g[epi].alloc
        BY <1>3
      <4>3. QED
        BY <1>1, <1>2, <1>5, <3>1, <4>1, <4>2
    <3>2. CASE x # epi
      <4>1. /\ x \in DOMAIN hd \ {epi} /\ First <= x /\ (x + 16) % M = 0 /\ M <= hd[x].size
            /\ End(hd, x) \in DOMAIN hd
            /\ hd[End(hd, x)].prev <=> hd[x].alloc
            /\ \A y \in DOMAIN hd : y <= x \/ End(hd, x) <= y
        BY <3>2 DEF Row
      <4>2. End(hd, x) <= e
        BY <1>1, <4>1
      <4>3. QED
        BY <1>4, <1>5, <4>1, <4>2
    <3>3. QED
      BY <3>1, <3>2
  <2>4. ASSUME NEW x \in DOMAIN g \ {First}
        PROVE  \E y \in DOMAIN g \ {e} : End(g, y) = x
    <3>1. CASE x = e
      BY <1>1, <1>2, <1>5, <3>1
    <3>2. CASE x # e
      <4>1. PICK y \in DOMAIN hd \ {epi} : End(hd, y) = x
        BY <3>2 DEF Row
      <4>2. QED
        BY <1>2, <1>5, <4>1
    <3>3. QED
      BY <3>1, <3>2
  <2>5. QED
    BY <2>1, <2>2, <2>3, <2>4 DEF Row
<1>7. QED
  BY <1>2, <1>3, <1>5, <1>6

-----------------------------------------------------------------------------
(***************************************************************************)
(* The heap as a record, and what each step of the library makes of it.    *)
(***************************************************************************)

HeapOf(hd, ft, fl, epi, pages) == [hd |-> hd, ft |-> ft, fl |-> fl, epi |-> epi, pages |-> pages]
IsHeap(h) == h = HeapOf(h.hd, h.ft, h.fl, h.epi, h.pages)
WithHd(h, x) == [h EXCEPT !.hd = x]
WithHdFt(h, x, y) == [h EXCEPT !.hd = x, !.ft = y]
WithAll(h, x, y, z) == [h EXCEPT !.hd = x, !.ft = y, !.fl = z]
WithPage(h, x, y, z) == [h EXCEPT !.pages = x, !.epi = y, !.hd = z]

LEMMA Updated ==
  ASSUME NEW h, IsHeap(h), NEW x, NEW y, NEW z
  PROVE  /\ WithHd(h, x) = HeapOf(x, h.ft, h.fl, h.epi, h.pages)
         /\ WithHdFt(h, x, y) = HeapOf(x, y, h.fl, h.epi, h.pages)
         /\ WithAll(h, x, y, z) = HeapOf(x, y, z, h.epi, h.pages)
         /\ WithPage(h, x, y, z) = HeapOf(z, h.ft, h.fl, y, x)
<1> DEFINE a == h.hd
           b == h.ft
           c == h.fl
           d == h.epi
           e == h.pages
<1>0. h = HeapOf(a, b, c, d, e)
  BY DEF IsHeap
<1> HIDE DEF a, b, c, d, e
<1>1. /\ [h EXCEPT !.hd = x] = HeapOf(x, b, c, d, e)
      /\ [h EXCEPT !.pages = x] = HeapOf(a, b, c, d, x)
  BY <1>0 DEF HeapOf
<1>2. /\ \A g : g = HeapOf(x, b, c, d, e) => [g EXCEPT !.ft = y] = HeapOf(x, y, c, d, e)
      /\ \A g : g = HeapOf(a, b, c, d, x) => [g EXCEPT !.epi = y] = HeapOf(a, b, c, y, x)
  BY DEF HeapOf
<1>3. /\ \A g : g = HeapOf(x, y, c, d, e) => [g EXCEPT !.fl = z] = HeapOf(x, y, z, d, e)
      /\ \A g : g = HeapOf(a, b, c, y, x) => [g EXCEPT !.hd = z] = HeapOf(z, b, c, y, x)
  BY DEF HeapOf
<1>4. [h EXCEPT !.hd = x, !.ft = y] = HeapOf(x, y, c, d, e)
  <2> DEFINE g == [h EXCEPT !.hd = x]
  <2>1. [h EXCEPT !.hd = x, !.ft = y] = [g EXCEPT !.ft = y]
    BY Zenon
  <2>2. QED
    BY <1>1, <1>2, <2>1
<1>5. [h EXCEPT !.hd = x, !.ft = y, !.fl = z] = HeapOf(x, y, z, d, e)
  <2> DEFINE g == [h EXCEPT !.hd = x, !.ft = y]
  <2>1. [h EXCEPT !.hd = x, !.ft = y, !.fl = z] = [g EXCEPT !.fl = z]
    BY Zenon
  <2> HIDE DEF g
  <2>2. QED
    BY <1>3, <1>4, <2>1 DEF g
<1>6. [h EXCEPT !.pages = x, !.epi = y, !.hd = z] = HeapOf(z, b, c, y, x)
  <2> DEFINE g == [h EXCEPT !.pages = x]
             g2 == [g EXCEPT !.epi = y]
  <2>1. [h EXCEPT !.pages = x, !.epi = y, !.hd = z] = [g2 EXCEPT !.hd = z]
    BY Zenon
  <2> HIDE DEF g
  <2>2. g2 = HeapOf(a, b, c, y, x)
    BY <1>1, <1>2 DEF g
  <2> HIDE DEF g2
  <2>3. QED
    BY <1>3, <2>1, <2>2
<1>7. QED
  BY <1>1, <1>4, <1>5, <1>6 DEF a, b, c, d, e, WithHd, WithHdFt, WithAll, WithPage

LEMMA RemoveShape ==
  ASSUME NEW h, IsHeap(h), NEW b
  PROVE  RemoveBlock(h, b) = HeapOf(Mark(h.hd, b, TRUE, After(h, b), TRUE), Forget(h.ft, {After(h, b)}),
                                    Unlist(h.fl, b), h.epi, h.pages)
<1> DEFINE x == Mark(h.hd, b, TRUE, After(h, b), TRUE)
           y == Forget(h.ft, {After(h, b)})
           z == Unlist(h.fl, b)
<1>1. RemoveBlock(h, b) = WithAll(h, x, y, z)
  BY Zenon DEF RemoveBlock, WithAll
<1> HIDE DEF x, y, z
<1>2. RemoveBlock(h, b) = HeapOf(x, y, z, h.epi, h.pages)
  BY <1>1, Updated
<1>3. QED
  BY <1>2 DEF x, y, z

\* The headers when add_block files block b.
Filed(hd, b) ==
  IF hd[b].alloc THEN Mark(hd, b, FALSE, End(hd, b), ~hd[End(hd, b)].prev) ELSE hd

\* What FileBlock changes, field by field.
LEMMA FileFields ==
  ASSUME NEW h, IsHeap(h), NEW b, NEW i, NEW g, g = FileBlock(h, b, i)
  PROVE  /\ IsHeap(g) /\ g.hd = Filed(h.hd, b)
         /\ g.ft = Put(h.ft, End(h.hd, b), g.hd[b])
         /\ g.fl = Enlist(h.fl, i, b)
         /\ g.epi = h.epi /\ g.pages = h.pages
<1>1. After(h, b) = End(h.hd, b)
  BY DEF After, End
<1> DEFINE x == Filed(h.hd, b)
           y == Put(h.ft, End(h.hd, b), x[b])
           z == Enlist(h.fl, i, b)
<1>2. g = WithAll(h, x, y, z)
  BY Zenon, <1>1 DEF FileBlock, Filed, Enlist, WithAll
<1> HIDE DEF x, y, z
<1>3. g = HeapOf(x, y, z, h.epi, h.pages)
  BY <1>2, Updated
<1>4. g.hd = x
  BY <1>3 DEF HeapOf
<1>5. QED
  BY <1>3, <1>4 DEF HeapOf, IsHeap, x, y, z

\* The headers with block b allocated or freed, and the block after it told so.
Taken(hd, b) == Mark(hd, b, TRUE, End(hd, b), TRUE)
Given(hd, b) == Mark(hd, b, FALSE, End(hd, b), FALSE)

LEMMA TakenFacts ==
  ASSUME NEW hd, \A x \in DOMAIN hd : hd[x] \in Tags, NEW b \in DOMAIN hd,
         NEW e \in DOMAIN hd, e # b, e = End(hd, b), NEW g, g = Taken(hd, b)
  PROVE  /\ DOMAIN g = DOMAIN hd
         /\ g[b] = Busy(hd[b].size, hd[b])
         /\ g[e] = AfterBusy(hd[e])
         /\ \A x \in DOMAIN hd \ {b, e} : g[x] = hd[x]
         /\ \A x \in DOMAIN hd : g[x] \in Tags /\ g[x].size = hd[x].size
<1>0. b # e /\ \A x \in DOMAIN hd : Tag(hd[x].size, hd[x].alloc, hd[x].prev) = hd[x]
  BY TagOfFields
<1>1. DOMAIN g = DOMAIN hd /\ \A x \in DOMAIN hd \ {b, e} : g[x] = hd[x]
  BY Zenon, <1>0 DEF Taken, Mark
<1>2. g[b] = Busy(hd[b].size, hd[b])
  BY Zenon, <1>0 DEF Taken, Mark, Busy
<1>3. g[e] = AfterBusy(hd[e])
  BY Zenon, <1>0 DEF Taken, Mark, AfterBusy
<1>4. /\ hd[b] \in Tags /\ hd[b].size \in Nat /\ hd[e] \in Tags
  BY TagOfFields
<1>5. g[b] \in Tags /\ g[b].size = hd[b].size /\ g[e] \in Tags /\ g[e].size = hd[e].size
  <2> DEFINE t == hd[b]
             u == hd[e]
             n == t.size
  <2>1. t \in Tags /\ u \in Tags /\ n \in Nat /\ g[b] = Busy(n, t) /\ g[e] = AfterBusy(u)
    BY <1>2, <1>3, <1>4
  <2> HIDE DEF t, u, n
  <2>2. g[b] \in Tags /\ g[b].size = n
    BY <2>1, BusyBits
  <2>3. g[e] \in Tags /\ g[e].size = u.size
    BY <2>1, AfterBusyBits
  <2>4. QED
    BY <2>2, <2>3 DEF t, u, n
<1>6. \A x \in DOMAIN hd : g[x] \in Tags /\ g[x].size = hd[x].size
  BY <1>1, <1>5
<1>7. QED
  BY <1>1, <1>2, <1>3, <1>6

LEMMA GivenFacts ==
  ASSUME NEW hd, \A x \in DOMAIN hd : hd[x] \in Tags, NEW b \in DOMAIN hd,
         NEW e \in DOMAIN hd, e # b, e = End(hd, b), NEW g, g = Given(hd, b)
  PROVE  /\ DOMAIN g = DOMAIN hd
         /\ g[b] = Idle(hd[b].size, hd[b])
         /\ g[e] = AfterIdle(hd[e])
         /\ \A x \in DOMAIN hd \ {b, e} : g[x] = hd[x]
<1>0. b # e /\ \A x \in DOMAIN hd : Tag(hd[x].size, hd[x].alloc, hd[x].prev) = hd[x]
  BY TagOfFields
<1>1. DOMAIN g = DOMAIN hd /\ \A x \in DOMAIN hd \ {b, e} : g[x] = hd[x]
  BY Zenon, <1>0 DEF Given, Mark
<1>2. g[b] = Idle(hd[b].size, hd[b])
  BY Zenon, <1>0 DEF Given, Mark, Idle
<1>3. g[e] = AfterIdle(hd[e])
  BY Zenon, <1>0 DEF Given, Mark, AfterIdle
<1>4. QED
  BY <1>1, <1>2, <1>3

\* What RemoveBlock changes, field by field.
LEMMA RemoveFields ==
  ASSUME NEW h, IsHeap(h), NEW b, NEW g, g = RemoveBlock(h, b)
  PROVE  /\ IsHeap(g) /\ g.hd = Taken(h.hd, b)
         /\ g.ft = Forget(h.ft, {End(h.hd, b)}) /\ g.fl = Unlist(h.fl, b)
         /\ g.epi = h.epi /\ g.pages = h.pages
<1>1. After(h, b) = End(h.hd, b)
  BY DEF After, End
<1>2. g = HeapOf(Taken(h.hd, b), Forget(h.ft, {End(h.hd, b)}), Unlist(h.fl, b), h.epi, h.pages)
  BY <1>1, RemoveShape DEF Taken
<1>3. QED
  BY <1>2 DEF HeapOf, IsHeap

\* All that RemoveBlock does to a listed block.
LEMMA RemoveFacts ==
  ASSUME NEW h, IsHeap(h), \A x \in DOMAIN h.hd : h.hd[x] \in Tags, Chains(h.fl),
         NEW b \in DOMAIN h.hd, In(h.fl, b), NEW e \in DOMAIN h.hd, e # b, e = End(h.hd, b),
         NEW g, g = RemoveBlock(h, b)
  PROVE  /\ IsHeap(g) /\ g.epi = h.epi /\ g.pages = h.pages
         /\ DOMAIN g.hd = DOMAIN h.hd
         /\ g.hd[b] = Busy(h.hd[b].size, h.hd[b])
         /\ g.hd[e] = AfterBusy(h.hd[e])
         /\ \A x \in DOMAIN h.hd \ {b, e} : g.hd[x] = h.hd[x]
         /\ \A x \in DOMAIN h.hd : g.hd[x] \in Tags /\ g.hd[x].size = h.hd[x].size
         /\ DOMAIN g.ft = DOMAIN h.ft \ {e} /\ \A x \in DOMAIN g.ft : g.ft[x] = h.ft[x]
         /\ Chains(g.fl) /\ \A y : In(g.fl, y) <=> y # b /\ In(h.fl, y)
<1>1. /\ IsHeap(g) /\ g.hd = Taken(h.hd, b) /\ g.ft = Forget(h.ft, {e})
      /\ g.fl = Unlist(h.fl, b) /\ g.epi = h.epi /\ g.pages = h.pages
  BY RemoveFields
<1> DEFINE hd == h.hd
           gd == g.hd
           f == h.ft
           gf == g.ft
           l == h.fl
           gl == g.fl
<1>2. /\ \A x \in DOMAIN hd : hd[x] \in Tags /\ b \in DOMAIN hd /\ e \in DOMAIN hd
      /\ e = End(hd, b) /\ gd = Taken(hd, b)
      /\ gf = Forget(f, {e}) /\ gl = Unlist(l, b) /\ Chains(l) /\ In(l, b)
  BY <1>1
<1>3. /\ DOMAIN gd = DOMAIN hd
      /\ gd[b] = Busy(hd[b].size, hd[b])
      /\ gd[e] = AfterBusy(hd[e])
      /\ \A x \in DOMAIN hd \ {b, e} : gd[x] = hd[x]
      /\ \A x \in DOMAIN hd : gd[x] \in Tags /\ gd[x].size = hd[x].size
  <2> HIDE DEF hd, gd
  <2>1. b \in DOMAIN hd /\ e \in DOMAIN hd /\ \A x \in DOMAIN hd : hd[x] \in Tags
    BY <1>2 DEF hd
  <2>2. QED
    BY <1>2, <2>1, TakenFacts
<1>4. DOMAIN gf = DOMAIN f \ {e} /\ \A x \in DOMAIN gf : gf[x] = f[x]
  <2> HIDE DEF f, gf
  <2>1. QED
    BY <1>2 DEF Forget, Restrict
<1>5. Chains(gl) /\ \A y : In(gl, y) <=> y # b /\ In(l, y)
  <2> HIDE DEF l, gl
  <2>1. QED
    BY <1>2, Unlisted
<1>6. QED
  BY <1>1, <1>3, <1>4, <1>5

\* The listed blocks c, m and n, or c and n alone, follow one another up to e.
Adjoin(h, c, m, n, e) ==
  /\ c \in DOMAIN h.hd \ {h.epi} /\ n \in DOMAIN h.hd \ {h.epi} /\ m \in DOMAIN h.hd
  /\ In(h.fl, c) /\ In(h.fl, m) /\ In(h.fl, n)
  /\ m = End(h.hd, c) /\ c < n /\ (m = n \/ (m < n /\ End(h.hd, m) = n))
  /\ e = End(h.hd, n)

LEMMA GatherFields ==
  ASSUME NEW h, IsHeap(h), Row(h.hd, h.epi), Chains(h.fl),
         NEW c, NEW m, NEW n, NEW e, Adjoin(h, c, m, n, e), NEW g, g = Gather(h, c, n)
  PROVE  /\ IsHeap(g) /\ g.epi = h.epi /\ g.pages = h.pages
         /\ DOMAIN g.hd = DOMAIN h.hd \ (c + 1 .. e - 1)
         /\ g.hd[c] = Busy(e - c, h.hd[c])
         /\ g.hd[e] = AfterBusy(h.hd[e])
         /\ \A x \in DOMAIN g.hd \ {c, e} : g.hd[x] = h.hd[x]
         /\ DOMAIN g.ft = DOMAIN h.ft \ (c + 1 .. e)
         /\ \A x \in DOMAIN g.ft : g.ft[x] = h.ft[x]
         /\ Chains(g.fl) /\ \A y : In(g.fl, y) <=> In(h.fl, y) /\ y \notin {c, m, n}
<1> DEFINE hd == h.hd
           D == DOMAIN h.hd
           size == (n - c) + h.hd[n].size
           inside == c + 1 .. c + size - 1
           t0 == Idle(size, hd[c])
           h0 == [h EXCEPT !.hd = Put(@, c, Tag(size, FALSE, @[c].prev))]
           h1 == RemoveBlock(h0, c)
           h2 == IF m # n THEN RemoveBlock(h1, m) ELSE h1
           h3 == RemoveBlock(h2, n)
<1>0. /\ c \in DOMAIN h.hd \ {h.epi} /\ n \in DOMAIN h.hd \ {h.epi} /\ m \in DOMAIN h.hd
      /\ In(h.fl, c) /\ In(h.fl, m) /\ In(h.fl, n)
      /\ m = End(h.hd, c) /\ c < n /\ (m = n \/ (m < n /\ End(h.hd, m) = n))
      /\ e = End(h.hd, n)
  BY DEF Adjoin
<1> USE <1>0
<1>1. /\ c \in Nat /\ n \in Nat /\ m \in Nat /\ e \in Nat /\ c < m /\ m <= n /\ n < e
      /\ c \in D /\ m \in D /\ n \in D /\ e \in D
      /\ \A x \in D : x \in Nat /\ hd[x] \in Tags /\ hd[x].size \in Nat
  BY RowFacts DEF M
<1>2. size = e - c /\ size \in Nat /\ c + size = e
  <2> DEFINE k == hd[n].size
  <2>1. k \in Nat /\ e = n + k
    BY <1>1 DEF End
  <2> HIDE DEF k
  <2>2. (n - c) + k = e - c /\ (n - c) + k \in Nat /\ c + ((n - c) + k) = e
    BY <1>1, <2>1
  <2>3. QED
    BY <2>2 DEF k
<1>3. t0 \in Tags /\ t0.size = size /\ hd[c] \in Tags /\ Busy(size, t0) = Busy(size, hd[c])
  <2> HIDE DEF size
  <2>1. hd[c] \in Tags
    BY <1>1
  <2> DEFINE t == hd[c]
  <2>2. t \in Tags /\ t0 = Idle(size, t) /\ size \in Nat
    BY <1>2, <2>1
  <2> HIDE DEF t, t0
  <2>3. t0.size = size /\ t0 \in Tags
    BY <2>2, IdleBits
  <2>4. Busy(size, t0) = Busy(size, t)
    BY <2>2, BusyAgain
  <2>5. QED
    BY <2>1, <2>3, <2>4 DEF t
<1>4. /\ IsHeap(h0) /\ h0.hd = Put(hd, c, t0)
      /\ h0.ft = h.ft /\ h0.fl = h.fl /\ h0.epi = h.epi /\ h0.pages = h.pages
  <2> DEFINE x == Put(h.hd, c, t0)
  <2>1. h0 = WithHd(h, x)
    BY Zenon DEF WithHd, Idle
  <2> HIDE DEF x, h0
  <2>2. h0 = HeapOf(x, h.ft, h.fl, h.epi, h.pages)
    BY <2>1, Updated
  <2>3. QED
    BY <2>2 DEF HeapOf, IsHeap, x
<1> HIDE DEF h0, t0, size
<1>5. /\ DOMAIN h0.hd = D /\ h0.hd[c] = t0
      /\ \A x \in D \ {c} : h0.hd[x] = hd[x]
  BY <1>1, <1>4 DEF Put
<1>6. /\ e = End(h0.hd, c) /\ \A x \in DOMAIN h0.hd : h0.hd[x] \in Tags
      /\ c \in DOMAIN h0.hd /\ e \in DOMAIN h0.hd /\ e # c
      /\ Chains(h0.fl) /\ In(h0.fl, c)
  BY <1>1, <1>2, <1>3, <1>4, <1>5 DEF End
<1>7. /\ IsHeap(h1) /\ h1.epi = h.epi /\ h1.pages = h.pages
      /\ DOMAIN h1.hd = D
      /\ h1.hd[c] = Busy(size, hd[c])
      /\ h1.hd[e] = AfterBusy(hd[e])
      /\ \A x \in D \ {c, e} : h1.hd[x] = hd[x]
      /\ \A x \in D : h1.hd[x] \in Tags
      /\ DOMAIN h1.ft = DOMAIN h.ft \ {e} /\ \A x \in DOMAIN h1.ft : h1.ft[x] = h.ft[x]
      /\ Chains(h1.fl) /\ \A y : In(h1.fl, y) <=> y # c /\ In(h.fl, y)
  <2> HIDE DEF h1
  <2>1. /\ IsHeap(h1) /\ h1.epi = h0.epi /\ h1.pages = h0.pages
        /\ DOMAIN h1.hd = DOMAIN h0.hd
        /\ h1.hd[c] = Busy(h0.hd[c].size, h0.hd[c])
        /\ h1.hd[e] = AfterBusy(h0.hd[e])
        /\ \A x \in DOMAIN h0.hd \ {c, e} : h1.hd[x] = h0.hd[x]
        /\ \A x \in DOMAIN h0.hd : h1.hd[x] \in Tags /\ h1.hd[x].size = h0.hd[x].size
        /\ DOMAIN h1.ft = DOMAIN h0.ft \ {e} /\ \A x \in DOMAIN h1.ft : h1.ft[x] = h0.ft[x]
        /\ Chains(h1.fl) /\ \A y : In(h1.fl, y) <=> y # c /\ In(h0.fl, y)
    BY <1>4, <1>6, RemoveFacts DEF h1
  <2>2. h1.hd[c] = Busy(size, hd[c])
    BY <1>3, <1>5, <2>1
  <2>3. h1.hd[e] = AfterBusy(hd[e])
    BY <1>1, <1>5, <1>6, <2>1
  <2>4. \A x \in D \ {c, e} : h1.hd[x] = hd[x]
    BY <1>5, <2>1
  <2>5. QED
    BY <1>4, <1>5, <2>1, <2>2, <2>3, <2>4
<1> HIDE DEF h1
<1>8. /\ IsHeap(h2) /\ h2.epi = h.epi /\ h2.pages = h.pages
      /\ DOMAIN h2.hd = D
      /\ h2.hd[c] = Busy(size, hd[c])
      /\ h2.hd[e] = AfterBusy(hd[e])
      /\ h2.hd[n].size = hd[n].size
      /\ \A x \in D \ {c, e, m, n} : h2.hd[x] = hd[x]
      /\ \A x \in D : h2.hd[x] \in Tags
      /\ DOMAIN h.ft \ {e, n} \subseteq DOMAIN h2.ft /\ DOMAIN h2.ft \subseteq DOMAIN h.ft \ {e}
      /\ \A x \in DOMAIN h2.ft : h2.ft[x] = h.ft[x]
      /\ Chains(h2.fl) /\ \A y : In(h2.fl, y) <=> In(h.fl, y) /\ y # c /\ (m = n \/ y # m)
  <2>1. CASE m = n
    <3>1. h2 = h1 /\ n \in D \ {c, e}
      BY <1>1, <2>1
    <3> HIDE DEF h2
    <3>2. h2.hd[n].size = hd[n].size
      BY <1>7, <3>1
    <3>3. QED
      BY <1>7, <2>1, <3>1, <3>2
  <2>2. CASE m # n
    <3>1. m < n /\ End(hd, m) = n /\ m \notin {c, e, n} /\ n \notin {c, e}
      BY <1>1, <2>2
    <3>2. h1.hd[m] = hd[m] /\ h1.hd[n] = hd[n]
      BY <1>1, <1>7, <3>1
    <3>3. /\ n = End(h1.hd, m) /\ m \in DOMAIN h1.hd /\ n \in DOMAIN h1.hd /\ n # m
          /\ \A x \in DOMAIN h1.hd : h1.hd[x] \in Tags
          /\ IsHeap(h1) /\ Chains(h1.fl) /\ In(h1.fl, m)
      BY <1>1, <1>7, <3>1, <3>2 DEF End
    <3> DEFINE k == RemoveBlock(h1, m)
    <3>4. h2 = k
      BY <2>2
    <3> HIDE DEF h2, k
    <3>5. /\ IsHeap(k) /\ k.epi = h1.epi /\ k.pages = h1.pages
          /\ DOMAIN k.hd = DOMAIN h1.hd
          /\ k.hd[m] = Busy(h1.hd[m].size, h1.hd[m])
          /\ k.hd[n] = AfterBusy(h1.hd[n])
          /\ \A x \in DOMAIN h1.hd \ {m, n} : k.hd[x] = h1.hd[x]
          /\ \A x \in DOMAIN h1.hd : k.hd[x] \in Tags /\ k.hd[x].size = h1.hd[x].size
          /\ DOMAIN k.ft = DOMAIN h1.ft \ {n} /\ \A x \in DOMAIN k.ft : k.ft[x] = h1.ft[x]
          /\ Chains(k.fl) /\ \A y : In(k.fl, y) <=> y # m /\ In(h1.fl, y)
      BY <3>3, RemoveFacts, SMTT(60) DEF k
    <3>6. /\ DOMAIN h.ft \ {e, n} \subseteq DOMAIN h2.ft /\ DOMAIN h2.ft \subseteq DOMAIN h.ft \ {e}
          /\ \A x \in DOMAIN h2.ft : h2.ft[x] = h.ft[x]
      BY <1>7, <3>4, <3>5
    <3>7. /\ h2.hd[c] = h1.hd[c] /\ h2.hd[e] = h1.hd[e] /\ h2.hd[n].size = hd[n].size
          /\ \A x \in D \ {c, e, m, n} : h2.hd[x] = hd[x]
          /\ \A x \in D : h2.hd[x] \in Tags
      BY <1>1, <1>7, <3>1, <3>2, <3>4, <3>5
    <3>8. QED
      BY <1>7, <2>2, <3>4, <3>5, <3>6, <3>7
  <2>3. QED
    BY <2>1, <2>2
<1>9. m = n \/ m \in c + 1 .. n - 1
  BY <1>1
<1> HIDE DEF h2
<1>10. /\ e = End(h2.hd, n) /\ n \in DOMAIN h2.hd /\ e \in DOMAIN h2.hd /\ e # n
       /\ \A x \in DOMAIN h2.hd : h2.hd[x] \in Tags
       /\ IsHeap(h2) /\ Chains(h2.fl) /\ In(h2.fl, n)
  BY <1>1, <1>8 DEF End
<1>11. /\ IsHeap(h3) /\ h3.epi = h2.epi /\ h3.pages = h2.pages
       /\ DOMAIN h3.hd = DOMAIN h2.hd
       /\ h3.hd[n] = Busy(h2.hd[n].size, h2.hd[n])
       /\ h3.hd[e] = AfterBusy(h2.hd[e])
       /\ \A x \in DOMAIN h2.hd \ {n, e} : h3.hd[x] = h2.hd[x]
       /\ \A x \in DOMAIN h2.hd : h3.hd[x] \in Tags /\ h3.hd[x].size = h2.hd[x].size
       /\ DOMAIN h3.ft = DOMAIN h2.ft \ {e} /\ \A x \in DOMAIN h3.ft : h3.ft[x] = h2.ft[x]
       /\ Chains(h3.fl) /\ \A y : In(h3.fl, y) <=> y # n /\ In(h2.fl, y)
  <2> HIDE DEF h3
  <2>1. QED
    BY <1>10, RemoveFacts, SMTT(60) DEF h3
<1>12. h3.hd[e] = AfterBusy(hd[e])
  BY <1>1, <1>8, <1>11, BusyAgain
<1>13. /\ IsHeap(g) /\ g.hd = Forget(h3.hd, inside) /\ g.ft = Forget(h3.ft, inside)
       /\ g.fl = h3.fl /\ g.epi = h.epi /\ g.pages = h.pages
  <2> DEFINE x == Forget(h3.hd, inside)
             y == Forget(h3.ft, inside)
  <2>1. After(h, c) = m
    BY DEF After, End
  <2>2. g = WithHdFt(h3, x, y)
    BY Zenon, <2>1 DEF Gather, WithHdFt, h0, h1, h2, size
  <2> HIDE DEF x, y, h3
  <2>3. g = HeapOf(x, y, h3.fl, h3.epi, h3.pages)
    <3>1. IsHeap(h3)
      BY <1>11
    <3>2. QED
      BY <2>2, <3>1, Updated
  <2>4. h3.epi = h.epi /\ h3.pages = h.pages
    BY <1>8, <1>11
  <2>5. QED
    BY <2>3, <2>4 DEF HeapOf, IsHeap, x, y
<1>14. inside = c + 1 .. e - 1
  <2>1. c + size - 1 = e - 1
    BY <1>1, <1>2
  <2>2. QED
    BY <2>1
<1> HIDE DEF h3, inside
<1>15. /\ DOMAIN g.hd = D \ inside /\ \A x \in D \ inside : g.hd[x] = h3.hd[x]
       /\ DOMAIN g.ft = DOMAIN h3.ft \ inside /\ \A x \in DOMAIN g.ft : g.ft[x] = h3.ft[x]
  BY <1>8, <1>11, <1>13 DEF Forget, Restrict
<1>16. /\ n \in inside /\ c \notin inside /\ e \notin inside /\ c # n /\ c # e
       /\ m \in inside
  BY <1>1, <1>9, <1>14
<1>17. h3.hd[c] = Busy(size, hd[c])
  BY <1>1, <1>8, <1>11, <1>16
<1>18. /\ g.hd[c] = Busy(size, hd[c])
       /\ g.hd[e] = AfterBusy(hd[e])
       /\ \A x \in DOMAIN g.hd \ {c, e} : g.hd[x] = hd[x]
  <2>1. g.hd[c] = h3.hd[c] /\ g.hd[e] = h3.hd[e]
    BY <1>1, <1>15, <1>16
  <2>2. \A x \in DOMAIN g.hd \ {c, e} : x \in D \ {c, e, m, n} /\ g.hd[x] = h3.hd[x]
    BY <1>15, <1>16
  <2>3. \A x \in DOMAIN g.hd \ {c, e} : g.hd[x] = hd[x]
    BY <1>8, <1>11, <2>2
  <2>4. QED
    BY <1>12, <1>17, <2>1, <2>3
<1>19. DOMAIN g.ft = DOMAIN h.ft \ (c + 1 .. e)
  <2>1. c + 1 .. e = inside \cup {e}
    BY <1>1, <1>14
  <2>2. DOMAIN g.ft = DOMAIN h2.ft \ (inside \cup {e})
    BY <1>11, <1>15
  <2>3. QED
    BY <1>8, <1>16, <2>1, <2>2
<1>20. \A x \in DOMAIN g.ft : g.ft[x] = h.ft[x]
  BY <1>8, <1>11, <1>15
<1>21. Chains(g.fl) /\ \A y : In(g.fl, y) <=> In(h.fl, y) /\ y \notin {c, m, n}
  BY <1>8, <1>11, <1>13
<1>22. QED
  BY <1>2, <1>13, <1>14, <1>15, <1>18, <1>19, <1>20, <1>21

-----------------------------------------------------------------------------
(***************************************************************************)
(* A heap between two steps: free and allocated blocks, footers and lists. *)
(***************************************************************************)

Vacant(h) == {x \in DOMAIN h.hd \ {h.epi} : ~h.hd[x].alloc}
Held(h) == {x \in DOMAIN h.hd \ {h.epi} : h.hd[x].alloc}

\* Free blocks, those of S excepted, have a footer and are in the lists; and no
\* two of them touch, unless one is b.
Footed(h, S) == \A x \in Vacant(h) \ S : End(h.hd, x) \in DOMAIN h.ft /\ h.ft[End(h.hd, x)] = h.hd[x]
Listed(h, S) == Chains(h.fl) /\ \A y : In(h.fl, y) <=> y \in Vacant(h) \ S
Calm(h, b) == \A x \in Vacant(h) : x # b /\ End(h.hd, x) # b => h.hd[End(h.hd, x)].alloc

\* A heap between two calls, and one to which block b is about to be added.
Fine(h) ==
  IsHeap(h) /\ Row(h.hd, h.epi) /\ Footed(h, {}) /\ Listed(h, {}) /\ Calm(h, Null)
Intact(h, b) ==
  /\ IsHeap(h) /\ Row(h.hd, h.epi) /\ b \in DOMAIN h.hd \ {h.epi}
  /\ Footed(h, {b}) /\ Listed(h, {b}) /\ Calm(h, b)

\* The blocks in use are the same, with the same sizes, at the same addresses.
Kept(h, g) ==
  /\ g.epi = h.epi /\ g.pages = h.pages
  /\ \A x \in Held(g) : g.hd[x].size = h.hd[x].size

\* add_block first: the block is free, and the bit of the one after it says so.
LEMMA FiledFacts ==
  ASSUME NEW hd, NEW epi, Row(hd, epi), NEW b \in DOMAIN hd \ {epi}, NEW e, e = End(hd, b),
         NEW g, g = Filed(hd, b)
  PROVE  /\ Row(g, epi) /\ DOMAIN g = DOMAIN hd
         /\ e \in DOMAIN hd /\ e # b
         /\ \A x \in DOMAIN hd : /\ g[x].size = hd[x].size
                                 /\ x # b => (g[x].alloc <=> hd[x].alloc)
                                 /\ x # e => (g[x].prev <=> hd[x].prev)
                                 /\ x # b /\ x # e => g[x] = hd[x]
         /\ ~g[b].alloc /\ End(g, b) = e
<1>1. /\ e \in DOMAIN hd /\ e # b /\ (hd[e].prev <=> hd[b].alloc)
      /\ \A x \in DOMAIN hd : hd[x] \in Tags
      /\ \A x \in DOMAIN hd : hd[x].size \in Nat /\ hd[x].alloc \in BOOLEAN /\ hd[x].prev \in BOOLEAN
  <2>1. e \in DOMAIN hd /\ b \in Nat /\ b + M <= e /\ e \in Nat
    BY RowFacts
  <2>2. e # b
    BY <2>1 DEF M
  <2>3. hd[e].prev <=> hd[b].alloc
    BY DEF Row
  <2>4. \A x \in DOMAIN hd : /\ hd[x] \in Tags /\ hd[x].size \in Nat
                            /\ hd[x].alloc \in BOOLEAN /\ hd[x].prev \in BOOLEAN
    BY RowFacts
  <2>5. QED
    BY <2>1, <2>2, <2>3, <2>4
<1>2. CASE hd[b].alloc
  <2>1. (~hd[e].prev) = FALSE
    BY <1>1, <1>2
  <2>2. g = Given(hd, b)
    BY Zenon, <1>2, <2>1 DEF Filed, Given
  <2>3. /\ DOMAIN g = DOMAIN hd
        /\ g[b] = Idle(hd[b].size, hd[b])
        /\ g[e] = AfterIdle(hd[e])
        /\ \A x \in DOMAIN hd \ {b, e} : g[x] = hd[x]
    BY <1>1, <2>2, GivenFacts
  <2>4. /\ Row(g, epi)
        /\ \A x \in DOMAIN hd : /\ g[x].size = hd[x].size
                                /\ x # b => (g[x].alloc <=> hd[x].alloc)
                                /\ x # e => (g[x].prev <=> hd[x].prev)
        /\ End(g, b) = e
    BY <2>3, Retagged
  <2>5. ~g[b].alloc
    <3> DEFINE t == hd[b]
               n == t.size
    <3>1. t \in Tags /\ n \in Nat /\ g[b] = Idle(n, t)
      BY <1>1, <2>3
    <3> HIDE DEF t, n
    <3>2. QED
      BY <3>1, IdleBits
  <2>6. QED
    BY <1>1, <2>3, <2>4, <2>5
<1>3. CASE ~hd[b].alloc
  <2>1. g = hd
    BY <1>3 DEF Filed
  <2>2. QED
    BY <1>1, <1>3, <2>1
<1>4. QED
  BY <1>2, <1>3

\* Once filed, a block is free and listed; the footer of the block after it is
\* out of date when that one is free.
LEMMA Filing ==
  ASSUME NEW h, NEW b, Intact(h, b), NEW i \in Lists, NEW e, e = End(h.hd, b),
         NEW g, g = FileBlock(h, b, i)
  PROVE  /\ IsHeap(g) /\ g.epi = h.epi /\ g.pages = h.pages
         /\ Row(g.hd, g.epi) /\ DOMAIN g.hd = DOMAIN h.hd /\ End(g.hd, b) = e
         /\ Vacant(g) = Vacant(h) \cup {b} /\ Held(g) = Held(h) \ {b}
         /\ Footed(g, {e}) /\ Listed(g, {}) /\ Calm(g, b)
         /\ \A x \in DOMAIN h.hd : /\ g.hd[x].size = h.hd[x].size
                                   /\ x # e => (g.hd[x].prev <=> h.hd[x].prev)
         /\ g.ft[e] = g.hd[b] /\ e \in DOMAIN g.hd /\ e # b
<1> DEFINE hd == h.hd
           gd == g.hd
           epi == h.epi
<1>1. /\ IsHeap(g) /\ gd = Filed(hd, b) /\ g.ft = Put(h.ft, e, gd[b])
      /\ g.fl = Enlist(h.fl, i, b)
      /\ g.epi = epi /\ g.pages = h.pages
  <2>1. IsHeap(h)
    BY DEF Intact
  <2>2. /\ IsHeap(g) /\ g.hd = Filed(h.hd, b)
        /\ g.ft = Put(h.ft, End(h.hd, b), g.hd[b])
        /\ g.fl = Enlist(h.fl, i, b)
        /\ g.epi = h.epi /\ g.pages = h.pages
    BY <2>1, FileFields
  <2>3. QED
    BY <2>2
<1>2. /\ Row(gd, epi) /\ DOMAIN gd = DOMAIN hd
      /\ e \in DOMAIN hd /\ e # b
      /\ \A x \in DOMAIN hd : /\ gd[x].size = hd[x].size
                              /\ x # b => (gd[x].alloc <=> hd[x].alloc)
                              /\ x # e => (gd[x].prev <=> hd[x].prev)
                              /\ x # b /\ x # e => gd[x] = hd[x]
      /\ ~gd[b].alloc /\ End(gd, b) = e
  <2>1. Row(hd, epi) /\ b \in DOMAIN hd \ {epi} /\ e = End(hd, b)
    BY DEF Intact
  <2> HIDE DEF hd, gd, epi
  <2>2. QED
    BY <1>1, <2>1, FiledFacts
<1>3. Vacant(g) = Vacant(h) \cup {b} /\ Held(g) = Held(h) \ {b}
  <2>1. b \in DOMAIN hd \ {epi}
    BY DEF Intact
  <2>2. QED
    BY <1>1, <1>2, <2>1 DEF Vacant, Held
<1>4. \A x \in DOMAIN hd : End(gd, x) = End(hd, x)
  BY <1>2 DEF End
<1>5. Footed(g, {e})
  <2>1. SUFFICES ASSUME NEW x \in Vacant(g) \ {e}
                 PROVE  End(gd, x) \in DOMAIN g.ft /\ g.ft[End(gd, x)] = gd[x]
    BY DEF Footed
  <2>2. CASE x = b
    BY <1>1, <1>2, <2>2 DEF Put
  <2>3. CASE x # b
    <3>1. x \in Vacant(h) \ {b} /\ x \in DOMAIN hd \ {epi}
      BY <1>3, <2>3 DEF Vacant
    <3>2. End(hd, x) \in DOMAIN h.ft /\ h.ft[End(hd, x)] = hd[x]
      BY <3>1 DEF Intact, Footed
    <3>3. End(hd, x) # e
      BY <2>3, <3>1, RowFacts DEF Intact
    <3>4. gd[x] = hd[x] /\ End(gd, x) = End(hd, x)
      BY <1>2, <1>4, <2>1, <2>3, <3>1
    <3>5. QED
      BY <1>1, <3>2, <3>3, <3>4 DEF Put
  <2>4. QED
    BY <2>2, <2>3
<1>6. Listed(g, {})
  <2> DEFINE fl == h.fl
             gl == g.fl
  <2>1. /\ Chains(fl) /\ \A y : In(fl, y) <=> y \in Vacant(h) \ {b}
        /\ b \in Nat /\ gl = Enlist(fl, i, b) /\ ~In(fl, b)
    BY <1>1, RowFacts DEF Intact, Listed
  <2> HIDE DEF fl, gl
  <2>2. Chains(gl) /\ \A y : In(gl, y) <=> y = b \/ In(fl, y)
    <3>1. Chains(fl) /\ b \in Nat /\ ~In(fl, b) /\ i \in Lists /\ gl = Enlist(fl, i, b)
      BY <2>1
    <3>2. QED
      BY <3>1, Enlisted
  <2>3. QED
    BY <1>3, <2>1, <2>2 DEF Listed, gl
<1>7. Calm(g, b)
  <2>1. SUFFICES ASSUME NEW x \in Vacant(g), x # b, End(gd, x) # b
                 PROVE  gd[End(gd, x)].alloc
    BY DEF Calm
  <2>2. x # b /\ End(gd, x) # b
    BY <2>1
  <2>3. x \in Vacant(h) /\ x \in DOMAIN hd \ {epi}
    BY <1>3, <2>2 DEF Vacant
  <2>4. End(hd, x) # b /\ hd[End(hd, x)].alloc /\ End(hd, x) \in DOMAIN hd
    BY <1>4, <2>2, <2>3, RowFacts DEF Intact, Calm
  <2>5. QED
    BY <1>2, <1>4, <2>3, <2>4
<1>8. g.ft[e] = gd[b]
  BY <1>1 DEF Put
<1>9. QED
  BY <1>1, <1>2, <1>3, <1>5, <1>6, <1>7, <1>8

\* The free blocks c, m and n, or c and n alone, follow one another up to e, and
\* one of them is b, the only one to touch others.
Meeting(h, b, c, m, n, e) ==
  /\ IsHeap(h) /\ Row(h.hd, h.epi)
  /\ Footed(h, {End(h.hd, b)}) /\ Listed(h, {}) /\ Calm(h, b)
  /\ c \in Vacant(h) /\ m \in Vacant(h) /\ n \in Vacant(h) /\ (b = c \/ b = m \/ b = n)
  /\ m = End(h.hd, c) /\ c < n /\ (m = n \/ (m < n /\ End(h.hd, m) = n))
  /\ e = End(h.hd, n) /\ h.hd[c].prev /\ h.hd[e].alloc

\* Blocks that are merged leave a heap to which the one that results can be
\* added.
LEMMA Merging ==
  ASSUME NEW h, NEW b, NEW c, NEW m, NEW n, NEW e, Meeting(h, b, c, m, n, e),
         NEW g, g = Gather(h, c, n)
  PROVE  /\ Intact(g, c) /\ g.epi = h.epi /\ g.pages = h.pages
         /\ g.hd[c].prev /\ g.hd[c].alloc /\ g.hd[e].alloc /\ End(g.hd, c) = e
         /\ Held(g) \ {c} = Held(h)
         /\ \A x \in Held(g) \ {c} : g.hd[x].size = h.hd[x].size
         /\ g.hd[c].size = e - c
<1>0. /\ IsHeap(h) /\ Row(h.hd, h.epi) /\ b \in Vacant(h)
      /\ Footed(h, {End(h.hd, b)}) /\ Listed(h, {}) /\ Calm(h, b)
      /\ c \in Vacant(h) /\ n \in Vacant(h) /\ m \in Vacant(h) /\ b \in {c, m, n}
      /\ m = End(h.hd, c) /\ c < n /\ (m = n \/ (m < n /\ End(h.hd, m) = n))
      /\ e = End(h.hd, n) /\ h.hd[c].prev /\ h.hd[e].alloc
  BY DEF Meeting
<1> USE <1>0
<1> DEFINE hd == h.hd
           gd == g.hd
           epi == h.epi
<1>1. /\ \A x : x \in Vacant(h) <=> x \in DOMAIN hd \ {epi} /\ ~hd[x].alloc
      /\ \A x : x \in Held(h) <=> x \in DOMAIN hd \ {epi} /\ hd[x].alloc
      /\ c \in DOMAIN hd \ {epi} /\ n \in DOMAIN hd \ {epi} /\ m \in DOMAIN hd \ {epi}
  BY DEF Vacant, Held
<1>2. In(h.fl, c) /\ In(h.fl, m) /\ In(h.fl, n) /\ Chains(h.fl)
  BY DEF Listed
<1>3. /\ IsHeap(g) /\ g.epi = epi /\ g.pages = h.pages
      /\ DOMAIN gd = DOMAIN hd \ (c + 1 .. e - 1)
      /\ gd[c] = Busy(e - c, hd[c])
      /\ gd[e] = AfterBusy(hd[e])
      /\ \A x \in DOMAIN gd \ {c, e} : gd[x] = hd[x]
      /\ DOMAIN g.ft = DOMAIN h.ft \ (c + 1 .. e)
      /\ \A x \in DOMAIN g.ft : g.ft[x] = h.ft[x]
      /\ Chains(g.fl) /\ \A y : In(g.fl, y) <=> In(h.fl, y) /\ y \notin {c, m, n}
  <2>1. /\ IsHeap(h) /\ Row(h.hd, h.epi) /\ Chains(h.fl) /\ Adjoin(h, c, m, n, e)
        /\ g = Gather(h, c, n)
    BY <1>1, <1>2 DEF Adjoin
  <2>2. /\ IsHeap(g) /\ g.epi = h.epi /\ g.pages = h.pages
        /\ DOMAIN g.hd = DOMAIN h.hd \ (c + 1 .. e - 1)
        /\ g.hd[c] = Busy(e - c, h.hd[c])
        /\ g.hd[e] = AfterBusy(h.hd[e])
        /\ \A x \in DOMAIN g.hd \ {c, e} : g.hd[x] = h.hd[x]
        /\ DOMAIN g.ft = DOMAIN h.ft \ (c + 1 .. e)
        /\ \A x \in DOMAIN g.ft : g.ft[x] = h.ft[x]
        /\ Chains(g.fl) /\ \A y : In(g.fl, y) <=> In(h.fl, y) /\ y \notin {c, m, n}
    BY ONLY <2>1, GatherFields
  <2>3. QED
    BY <2>2
<1>4. /\ c \in Nat /\ m \in Nat /\ n \in Nat /\ e \in Nat /\ epi \in Nat /\ e \in DOMAIN hd
      /\ c < m /\ m <= n /\ n < e /\ c < e
      /\ \A x \in DOMAIN hd : x \in Nat
      /\ \A x \in DOMAIN hd \ {epi} : /\ End(hd, x) \in DOMAIN hd /\ x + M <= End(hd, x)
                                      /\ \A y \in DOMAIN hd : x < y => End(hd, x) <= y
      /\ \A x, y \in DOMAIN hd \ {epi} : End(hd, x) = End(hd, y) => x = y
  <2>1. /\ \A x \in DOMAIN hd : x \in Nat
        /\ epi \in DOMAIN hd
        /\ \A x \in DOMAIN hd \ {epi} : /\ End(hd, x) \in DOMAIN hd /\ x + M <= End(hd, x)
                                        /\ \A y \in DOMAIN hd : x < y => End(hd, x) <= y
        /\ \A x, y \in DOMAIN hd \ {epi} : End(hd, x) = End(hd, y) => x = y
    BY RowFacts
  <2> HIDE DEF hd, epi
  <2>2. m = End(hd, c) /\ e = End(hd, n) /\ (m = n \/ m < n)
    BY DEF hd
  <2>3. QED
    BY <1>1, <2>1, <2>2 DEF M
<1>5. /\ Row(gd, epi) /\ c \in DOMAIN gd \ {epi} /\ e \in DOMAIN gd
      /\ gd[c].size = e - c /\ gd[c].alloc
      /\ \A x \in DOMAIN gd \ {c} : gd[x].size = hd[x].size /\ (gd[x].alloc <=> hd[x].alloc)
      /\ \A x \in DOMAIN gd \ {e} : gd[x].prev <=> hd[x].prev
  <2>1. /\ Row(hd, epi) /\ c \in DOMAIN hd /\ e \in DOMAIN hd /\ c < e
        /\ DOMAIN gd = DOMAIN hd \ (c + 1 .. e - 1)
        /\ gd[c] = Busy(e - c, hd[c])
        /\ gd[e] = AfterBusy(hd[e])
        /\ \A x \in DOMAIN gd \ {c, e} : gd[x] = hd[x]
    BY <1>1, <1>3, <1>4
  <2> HIDE DEF hd, gd, epi
  <2>2. QED
    BY <2>1, Merged
<1>6. /\ gd[c].prev /\ gd[e].alloc /\ End(gd, c) = e
      /\ \A x \in DOMAIN gd \ {c} : End(gd, x) = End(hd, x)
  <2>1. c + (e - c) = e
    BY <1>4
  <2>2. QED
    BY <1>4, <1>5, <2>1 DEF End
<1>7. \A x : x \in c + 1 .. e - 1 => x \notin Held(h)
  <2>1. TAKE x
  <2>2. HAVE x \in c + 1 .. e - 1
  <2>3. CASE x \in DOMAIN hd \ {epi}
    <3>1. x \in Nat /\ c < x /\ x < e /\ m <= x
      BY <1>1, <1>4, <2>2, <2>3
    <3>2. x = m \/ n <= x
      BY <1>1, <1>4, <2>3, <3>1
    <3>3. x = m \/ x = n
      <4>1. n < x => e <= x
        BY <1>1, <1>4, <2>3
      <4>2. QED
        BY <1>4, <3>1, <3>2, <4>1
    <3>4. QED
      BY <1>1, <3>3
  <2>4. QED
    BY <1>1, <2>3
<1>8. /\ \A x : x \in Vacant(g) <=> x \in Vacant(h) /\ x \in DOMAIN gd /\ x # c
      /\ Held(g) \ {c} = Held(h)
  <2>1. c \notin Held(h)
    BY <1>1
  <2>2. Held(h) \subseteq DOMAIN gd
    BY <1>1, <1>3, <1>7
  <2>3. \A x \in DOMAIN gd \ {c} : x \in DOMAIN hd /\ (gd[x].alloc <=> hd[x].alloc)
    BY <1>3, <1>5
  <2>4. /\ \A x : x \in Vacant(g) <=> x \in DOMAIN gd \ {epi} /\ ~gd[x].alloc
        /\ \A x : x \in Held(g) <=> x \in DOMAIN gd \ {epi} /\ gd[x].alloc
    BY <1>3 DEF Vacant, Held
  <2> HIDE DEF hd, gd, epi
  <2>5. QED
    BY <1>1, <1>5, <2>1, <2>2, <2>3, <2>4
<1>9. ASSUME NEW x \in Vacant(g)
      PROVE  /\ x \in Vacant(h) /\ x \in DOMAIN hd \ {epi} /\ x \in DOMAIN gd \ {c, e}
             /\ x # b /\ End(gd, x) = End(hd, x) /\ gd[x] = hd[x]
             /\ End(hd, x) \in DOMAIN hd /\ End(hd, x) \in Nat
             /\ End(hd, x) # b /\ End(hd, x) # c /\ End(hd, x) # End(hd, b)
             /\ End(hd, x) \notin c + 1 .. e
  <2>1. x \in Vacant(h) /\ x \in DOMAIN gd /\ x # c /\ x # e /\ x \in DOMAIN hd \ {epi}
    BY <1>1, <1>8
  <2>2. gd[x] = hd[x] /\ End(gd, x) = End(hd, x)
    BY <1>3, <1>6, <2>1
  <2>3. m \in c + 1 .. e - 1 /\ n \in c + 1 .. e - 1
    BY <1>4
  <2>4. x # b /\ x # m /\ x # n
    BY <1>3, <2>1, <2>3
  <2>5. End(hd, x) \in DOMAIN hd /\ End(hd, x) \in Nat /\ End(hd, x) # e /\ End(hd, x) # m
    BY <1>1, <1>4, <2>1, <2>4
  <2>6. End(hd, x) # End(hd, b)
    BY <1>1, <1>4, <2>1, <2>4
  <2>7. End(hd, x) # c
    <3>1. hd[End(hd, x)].prev <=> hd[x].alloc
      BY <2>1 DEF Row
    <3>2. QED
      BY <1>1, <2>1, <3>1
  <2>8. End(hd, x) <= c \/ e < End(hd, x)
    <3>1. x < c \/ e < x
      <4>1. x \in Nat /\ x \notin c + 1 .. e - 1
        BY <1>3, <1>4, <2>1
      <4>2. QED
        BY <1>4, <2>1, <4>1
    <3>2. x < c => End(hd, x) <= c
      BY <1>1, <1>4, <2>1
    <3>3. e < x => e < End(hd, x)
      BY <1>4, <2>1, <2>5 DEF M
    <3>4. QED
      BY <3>1, <3>2, <3>3
  <2>9. End(hd, x) # b /\ End(hd, x) \notin c + 1 .. e
    <3>1. End(hd, x) \notin c + 1 .. e
      BY <1>4, <2>5, <2>8
    <3>2. QED
      BY <1>4, <2>3, <2>7, <3>1
  <2>10. QED
    BY <2>1, <2>2, <2>4, <2>5, <2>6, <2>7, <2>9
<1>10. Footed(g, {c})
  <2>1. SUFFICES ASSUME NEW x \in Vacant(g) \ {c}
                 PROVE  End(gd, x) \in DOMAIN g.ft /\ g.ft[End(gd, x)] = gd[x]
    BY DEF Footed
  <2>2. x # End(hd, b)
    <3>1. hd[End(hd, b)].alloc \/ End(hd, b) \in {m, n}
      BY <1>1, <1>4
    <3>2. m \in c + 1 .. e - 1 /\ n \in c + 1 .. e - 1 /\ x \in DOMAIN gd
      BY <1>4, <1>9, <2>1
    <3>3. x \notin {m, n}
      BY <1>3, <3>2
    <3>4. ~hd[x].alloc
      BY <1>1, <1>9, <2>1
    <3>5. QED
      BY <3>1, <3>3, <3>4
  <2>3. End(hd, x) \in DOMAIN h.ft /\ h.ft[End(hd, x)] = hd[x]
    BY <1>9, <2>1, <2>2 DEF Footed
  <2>4. End(hd, x) \in DOMAIN g.ft /\ g.ft[End(hd, x)] = hd[x]
    BY <1>3, <1>9, <2>1, <2>3
  <2>5. QED
    BY <1>9, <2>1, <2>4
<1>11. Listed(g, {c})
  <2>1. \A y : y \in Vacant(g) => y \notin {c, m, n}
    <3>1. m \in c + 1 .. e - 1 /\ n \in c + 1 .. e - 1
      BY <1>4
    <3>2. m \notin DOMAIN gd /\ n \notin DOMAIN gd
      BY <1>3, <3>1
    <3>3. QED
      BY <1>8, <3>2
  <2>2. \A y : In(g.fl, y) => y \in DOMAIN gd
    <3>1. TAKE y
    <3>2. HAVE In(g.fl, y)
    <3>3. y \in Vacant(h) /\ y \notin {c, m, n} /\ y \in DOMAIN hd \ {epi} /\ y \in Nat
      BY <1>1, <1>3, <1>4, <3>2 DEF Listed
    <3>4. y <= c \/ m <= y
      BY <1>1, <1>4, <3>3
    <3>5. m < y => n <= y
      BY <1>1, <1>4, <3>3
    <3>6. n < y => e <= y
      BY <1>1, <1>4, <3>3
    <3>7. y \notin c + 1 .. e - 1
      BY <1>4, <3>3, <3>4, <3>5, <3>6
    <3>8. QED
      BY <1>3, <3>3, <3>7
  <2>3. \A y : In(h.fl, y) <=> y \in Vacant(h)
    BY DEF Listed
  <2>4. \A y : In(g.fl, y) <=> y \in Vacant(g) \ {c}
    BY <1>3, <1>8, <2>1, <2>2, <2>3
  <2>5. QED
    BY <1>3, <2>4 DEF Listed
<1>12. Calm(g, c)
  <2>1. SUFFICES ASSUME NEW x \in Vacant(g), x # c, End(gd, x) # c
                 PROVE  gd[End(gd, x)].alloc
    BY DEF Calm
  <2>2. x # c /\ End(gd, x) # c
    BY <2>1
  <2>3. hd[End(hd, x)].alloc
    BY <1>9 DEF Calm
  <2>4. End(hd, x) \in DOMAIN gd /\ End(hd, x) # c
    BY <1>3, <1>4, <1>9
  <2>5. QED
    BY <1>5, <1>9, <2>3, <2>4
<1>13. \A x \in Held(g) \ {c} : gd[x].size = hd[x].size
  BY <1>5 DEF Held
<1>14. QED
  BY <1>3, <1>5, <1>6, <1>8, <1>10, <1>11, <1>12, <1>13 DEF Intact

LEMMA ClassIsList ==
  ASSUME NEW size PROVE SizeClass(size) \in Lists
<1> DEFINE S == {i \in 1 .. 8 : size > <<1, 2, 3, 5, 8, 13, 21, 34>>[i] * M}
<1>1. S \subseteq 1 .. 8 /\ IsFiniteSet(1 .. 8) /\ Cardinality(1 .. 8) = 8
  <2>1. S \subseteq 1 .. 8
    OBVIOUS
  <2>2. \A n \in Nat : n > 0 => IsFiniteSet(1 .. n) /\ Cardinality(1 .. n) = n
    <3>1. SUFFICES ASSUME NEW n \in Nat, n > 0
                   PROVE  IsFiniteSet(1 .. n) /\ Cardinality(1 .. n) = n
      OBVIOUS
    <3>2. IsFiniteSet(1 .. n) /\ Cardinality(1 .. n) = IF 1 > n THEN 0 ELSE n - 1 + 1
      BY FS_Interval
    <3>3. QED
      BY <3>1, <3>2
  <2>3. IsFiniteSet(1 .. 8) /\ Cardinality(1 .. 8) = 8
    <3>1. 8 \in Nat /\ 8 > 0
      OBVIOUS
    <3>2. QED
      BY ONLY <2>2, <3>1, Zenon
  <2>4. QED
    BY <2>1, <2>3
<1> HIDE DEF S
<1>2. Cardinality(S) \in Nat /\ Cardinality(S) <= 8
  BY <1>1, FS_Subset, FS_CardinalityType
<1>3. QED
  BY <1>2 DEF SizeClass, Lists, S

\* A block files itself beside none that is free: the heap is fine again.
LEMMA Settled ==
  ASSUME NEW h, NEW b, Intact(h, b), h.hd[b].prev, NEW e, e = End(h.hd, b), h.hd[e].alloc,
         NEW i \in Lists, NEW g, g = FileBlock(h, b, i)
  PROVE  /\ Fine(g) /\ Kept(h, g) /\ Held(g) = Held(h) \ {b}
         /\ b \in Vacant(g) /\ g.hd[b].size = h.hd[b].size
<1>1. /\ IsHeap(g) /\ g.epi = h.epi /\ g.pages = h.pages
      /\ Row(g.hd, g.epi) /\ DOMAIN g.hd = DOMAIN h.hd /\ End(g.hd, b) = e
      /\ Vacant(g) = Vacant(h) \cup {b} /\ Held(g) = Held(h) \ {b}
      /\ Footed(g, {e}) /\ Listed(g, {}) /\ Calm(g, b)
      /\ \A x \in DOMAIN h.hd : /\ g.hd[x].size = h.hd[x].size
                                /\ x # e => (g.hd[x].prev <=> h.hd[x].prev)
      /\ e \in DOMAIN g.hd /\ e # b
  BY Filing
<1>2. b \in DOMAIN h.hd \ {h.epi}
  BY DEF Intact
<1>3. e \notin Vacant(g) /\ g.hd[e].alloc
  <2>1. e \notin Vacant(g)
    BY <1>1 DEF Vacant
  <2>2. e = g.epi \/ g.hd[e].alloc
    BY <1>1, <2>1 DEF Vacant
  <2>3. g.hd[g.epi].alloc
    BY <1>1 DEF Row
  <2>4. QED
    BY <2>1, <2>2, <2>3
<1>4. Footed(g, {})
  BY <1>1, <1>3 DEF Footed
<1>5. Calm(g, Null)
  <2>1. SUFFICES ASSUME NEW x \in Vacant(g) PROVE g.hd[End(g.hd, x)].alloc
    BY DEF Calm
  <2>2. CASE x = b
    BY <1>1, <1>3, <2>2
  <2>3. CASE x # b
    <3>1. End(g.hd, x) # b
      <4>1. x \in DOMAIN g.hd \ {g.epi} /\ ~g.hd[x].alloc
        BY DEF Vacant
      <4>2. g.hd[End(g.hd, x)].prev <=> g.hd[x].alloc
        BY <1>1, <4>1 DEF Row
      <4>3. g.hd[b].prev
        BY <1>1, <1>2
      <4>4. QED
        BY <4>1, <4>2, <4>3
    <3>2. QED
      BY <1>1, <2>3, <3>1 DEF Calm
  <2>4. QED
    BY <2>2, <2>3
<1>6. Kept(h, g)
  BY <1>1 DEF Kept, Held
<1>7. QED
  BY <1>1, <1>2, <1>4, <1>5, <1>6 DEF Fine

\* coalesce, as it is called: what it recurses into ends there.
LEMMA Coalescing ==
  ASSUME NEW h, NEW b, NEW c, NEW m, NEW n, NEW e, Meeting(h, b, c, m, n, e),
         NEW isLast, NEW g, g = Coalesce(h, c, n, isLast)
  PROVE  /\ Fine(g) /\ Kept(h, g) /\ Held(g) = Held(h)
         /\ c \in Vacant(g) /\ g.hd[c].size = e - c
<1> DEFINE k == Gather(h, c, n)
           size == k.hd[c].size
           i == IF isLast THEN Wild ELSE SizeClass(size)
<1>1. /\ Intact(k, c) /\ k.epi = h.epi /\ k.pages = h.pages
      /\ k.hd[c].prev /\ k.hd[c].alloc /\ k.hd[e].alloc /\ End(k.hd, c) = e
      /\ Held(k) \ {c} = Held(h)
      /\ \A x \in Held(k) \ {c} : k.hd[x].size = h.hd[x].size
      /\ k.hd[c].size = e - c
  BY Merging
<1>2. i \in Lists
  BY ClassIsList DEF Lists, Wild
<1>3. After(k, c) = e
  BY <1>1 DEF After, End
<1>4. g = CASE k.hd[c].prev /\ k.hd[After(k, c)].alloc -> FileBlock(k, c, i)
  BY Zenon DEF Coalesce, Refile
<1> HIDE DEF k, size, i
<1>5. g = FileBlock(k, c, i)
  BY <1>1, <1>3, <1>4
<1>6. /\ Fine(g) /\ Kept(k, g) /\ Held(g) = Held(k) \ {c}
      /\ c \in Vacant(g) /\ g.hd[c].size = k.hd[c].size
  <2>1. Intact(k, c) /\ k.hd[c].prev /\ e = End(k.hd, c) /\ k.hd[e].alloc
    BY <1>1
  <2>2. QED
    BY <1>2, <1>5, <2>1, Settled
<1>7. Kept(h, g)
  BY <1>1, <1>6 DEF Kept
<1>8. QED
  BY <1>1, <1>6, <1>7

\* A free block, and the one before a block that says it is free.
LEMMA Neighbours ==
  ASSUME NEW h, Row(h.hd, h.epi), NEW b, Calm(h, b), Footed(h, {End(h.hd, b)})
  PROVE  /\ \A x \in Vacant(h) : x # b => h.hd[End(h.hd, x)].alloc \/ End(h.hd, x) = b
         /\ \A x \in Vacant(h) : x # b => h.hd[x].prev \/ End(h.hd, b) = x
         /\ b \in DOMAIN h.hd \ {h.epi} /\ ~h.hd[b].prev =>
              LET x == b - h.ft[b].size
              IN x \in Vacant(h) /\ End(h.hd, x) = b /\ x < b
<1>1. \A x \in DOMAIN h.hd : ~h.hd[x].prev => \E y \in Vacant(h) : End(h.hd, y) = x
  <2>1. TAKE x \in DOMAIN h.hd
  <2>2. HAVE ~h.hd[x].prev
  <2>3. PICK y \in DOMAIN h.hd \ {h.epi} : End(h.hd, y) = x
    BY <2>2 DEF Row
  <2>4. ~h.hd[y].alloc
    BY <2>2, <2>3 DEF Row
  <2>5. QED
    BY <2>3, <2>4 DEF Vacant
<1>2. \A x \in Vacant(h) : x # b => h.hd[End(h.hd, x)].alloc \/ End(h.hd, x) = b
  BY DEF Calm
<1>3. \A x \in Vacant(h) : x # b => h.hd[x].prev \/ End(h.hd, b) = x
  <2>1. SUFFICES ASSUME NEW x \in Vacant(h), x # b, ~h.hd[x].prev
                 PROVE  End(h.hd, b) = x
    OBVIOUS
  <2>2. x \in DOMAIN h.hd /\ ~h.hd[x].alloc
    BY DEF Vacant
  <2>3. PICK y \in Vacant(h) : End(h.hd, y) = x
    BY <1>1, <2>1, <2>2
  <2>4. QED
    BY <1>2, <2>1, <2>2, <2>3
<1>4. ASSUME b \in DOMAIN h.hd \ {h.epi}, ~h.hd[b].prev
      PROVE  LET x == b - h.ft[b].size
             IN x \in Vacant(h) /\ End(h.hd, x) = b /\ x < b
  <2>1. PICK y \in Vacant(h) : End(h.hd, y) = b
    BY <1>1, <1>4
  <2> DEFINE s == h.hd[y].size
             e == End(h.hd, b)
  <2>2. /\ y \in Nat /\ s \in Nat /\ b \in Nat /\ b = y + s /\ y + M <= b
        /\ e \in Nat /\ b + M <= e
    <3>1. y \in DOMAIN h.hd \ {h.epi}
      BY DEF Vacant
    <3>2. /\ \A x \in DOMAIN h.hd : x \in Nat /\ h.hd[x].size \in Nat
          /\ \A x \in DOMAIN h.hd \ {h.epi} : End(h.hd, x) \in DOMAIN h.hd /\ x + M <= End(h.hd, x)
      BY RowFacts
    <3>3. b = y + s
      BY <2>1 DEF End
    <3> HIDE DEF s, e
    <3>4. s \in Nat /\ e \in DOMAIN h.hd /\ b + M <= e /\ y + M <= b
      BY <1>4, <2>1, <3>1, <3>2 DEF s, e
    <3>5. QED
      BY <1>4, <3>1, <3>2, <3>3, <3>4
  <2>3. y # e
    <3> HIDE DEF s, e
    <3>1. QED
      BY <2>2 DEF M
  <2>4. h.ft[b] = h.hd[y]
    BY <2>1, <2>3 DEF Footed
  <2> HIDE DEF s
  <2>5. b - s = y /\ y < b
    BY <2>2 DEF M
  <2>6. QED
    BY <2>1, <2>4, <2>5 DEF s
<1>5. QED
  BY <1>2, <1>3, <1>4

\* add_block, from a block next to which others may be free.
LEMMA Adding ==
  ASSUME NEW h, NEW b, Intact(h, b), NEW i \in Lists, NEW g, g = AddBlock(h, b, i)
  PROVE  /\ Fine(g) /\ Kept(h, g) /\ Held(g) = Held(h) \ {b}
         /\ h.hd[b].prev => b \in Vacant(g) /\ h.hd[b].size <= g.hd[b].size
<1> DEFINE f == FileBlock(h, b, i)
           after == After(f, b)
           afterIsLast == f.fl[Wild] # <<>> /\ after = Head(f.fl[Wild])
           before == b - f.ft[b].size
           e == End(h.hd, b)
           d == End(f.hd, e)
           prevFree == ~f.hd[b].prev
           afterFree == ~f.hd[after].alloc
<1>1. g = CASE prevFree /\ afterFree -> Coalesce(f, before, after, afterIsLast)
            [] prevFree /\ ~afterFree -> Coalesce(f, before, b, i = Wild)
            [] ~prevFree /\ afterFree -> Coalesce(f, b, after, afterIsLast)
            [] ~prevFree /\ ~afterFree -> f
  BY DEF AddBlock, MergeAround
<1>2. /\ IsHeap(f) /\ f.epi = h.epi /\ f.pages = h.pages
      /\ Row(f.hd, f.epi) /\ DOMAIN f.hd = DOMAIN h.hd /\ End(f.hd, b) = e
      /\ Vacant(f) = Vacant(h) \cup {b} /\ Held(f) = Held(h) \ {b}
      /\ Footed(f, {e}) /\ Listed(f, {}) /\ Calm(f, b)
      /\ \A x \in DOMAIN h.hd : /\ f.hd[x].size = h.hd[x].size
                                /\ x # e => (f.hd[x].prev <=> h.hd[x].prev)
      /\ e \in DOMAIN f.hd /\ e # b
  BY Filing
<1>3. after = e
  BY <1>2 DEF After, End
<1>4. /\ b \in DOMAIN h.hd \ {h.epi} /\ b \in Vacant(f) /\ Footed(f, {End(f.hd, b)})
      /\ Kept(h, f) /\ (f.hd[b].prev <=> h.hd[b].prev)
  BY <1>2 DEF Intact, Kept, Held
<1> HIDE DEF f, after, afterIsLast, before, e, d
<1>5. /\ \A x \in Vacant(f) : x # b => f.hd[End(f.hd, x)].alloc \/ End(f.hd, x) = b
      /\ \A x \in Vacant(f) : x # b => f.hd[x].prev \/ e = x
      /\ prevFree => before \in Vacant(f) /\ End(f.hd, before) = b /\ before < b
  BY <1>2, <1>4, Neighbours DEF before
<1>6. b \in Nat /\ e \in Nat /\ b < e
  BY <1>2, <1>4, RowFacts DEF M
<1>7. afterFree => e \in Vacant(f) /\ f.hd[d].alloc /\ d \in Nat /\ e < d
  <2>1. SUFFICES ASSUME afterFree PROVE e \in Vacant(f) /\ f.hd[d].alloc /\ d \in Nat /\ e < d
    OBVIOUS
  <2>2. e \in Vacant(f)
    BY <1>2, <1>3, <2>1 DEF Vacant, Row
  <2>3. e \in DOMAIN f.hd \ {f.epi} /\ d \in DOMAIN f.hd /\ d \in Nat /\ e + M <= d
    BY <1>2, <2>2, RowFacts DEF Vacant, d
  <2>4. d # b /\ e < d
    BY <1>6, <2>3 DEF M
  <2>5. f.hd[d].alloc
    BY <1>2, <1>5, <2>2, <2>4 DEF d
  <2>6. QED
    BY <2>2, <2>3, <2>4, <2>5
<1>8. prevFree => f.hd[before].prev
  BY <1>5, <1>6 DEF Vacant
<1>10. CASE prevFree /\ afterFree
  <2>1. g = Coalesce(f, before, e, afterIsLast)
    BY <1>1, <1>3, <1>10
  <2>2. before \in Nat /\ before < e
    <3>1. before \in Nat
      BY <1>2, <1>5, <1>10, RowFacts DEF Vacant
    <3>2. QED
      BY <1>5, <1>6, <1>10, <3>1
  <2>3. Meeting(f, b, before, b, e, d)
    BY <1>2, <1>4, <1>5, <1>6, <1>7, <1>8, <1>10, <2>2 DEF Meeting, d
  <2>4. Fine(g) /\ Kept(f, g) /\ Held(g) = Held(f)
    BY <2>1, <2>3, Coalescing
  <2>5. QED
    BY <1>2, <1>4, <1>10, <2>4 DEF Kept
<1>11. CASE prevFree /\ ~afterFree
  <2> DEFINE l == i = Wild
  <2>1. g = Coalesce(f, before, b, l)
    BY <1>1, <1>11
  <2> HIDE DEF l
  <2>2. Meeting(f, b, before, b, b, e)
    BY <1>2, <1>3, <1>4, <1>5, <1>8, <1>11 DEF Meeting
  <2>3. Fine(g) /\ Kept(f, g) /\ Held(g) = Held(f)
    BY <2>1, <2>2, Coalescing
  <2>4. QED
    BY <1>2, <1>4, <1>11, <2>3 DEF Kept
<1>12. CASE ~prevFree /\ afterFree
  <2>1. g = Coalesce(f, b, e, afterIsLast)
    BY <1>1, <1>3, <1>12
  <2>2. Meeting(f, b, b, e, e, d)
    <3>1. IsHeap(f) /\ Row(f.hd, f.epi) /\ Footed(f, {End(f.hd, b)}) /\ Listed(f, {}) /\ Calm(f, b)
      BY <1>2, <1>4
    <3>2. b \in Vacant(f) /\ e \in Vacant(f)
      BY <1>4, <1>7, <1>12
    <3>3. e = End(f.hd, b) /\ b < e /\ d = End(f.hd, e)
      BY <1>2, <1>6 DEF d
    <3>4. f.hd[b].prev /\ f.hd[d].alloc
      BY <1>7, <1>12
    <3>5. QED
      BY <3>1, <3>2, <3>3, <3>4 DEF Meeting
  <2>3. Fine(g) /\ Kept(f, g) /\ Held(g) = Held(f) /\ b \in Vacant(g) /\ g.hd[b].size = d - b
    BY <2>1, <2>2, Coalescing
  <2>4. h.hd[b].size <= d - b
    <3> DEFINE s == h.hd[b].size
    <3>1. s \in Nat /\ e = b + s
      BY <1>4, RowFacts DEF e, End, Intact
    <3> HIDE DEF s
    <3>2. QED
      BY <1>6, <1>7, <1>12, <3>1 DEF s
  <2>5. QED
    BY <1>2, <1>4, <2>3, <2>4 DEF Kept
<1>13. CASE ~prevFree /\ ~afterFree
  <2>1. g = f
    BY <1>1, <1>13
  <2>2. /\ Intact(h, b) /\ h.hd[b].prev /\ e = End(h.hd, b)
    BY <1>4, <1>13 DEF e
  <2>3. e \notin Vacant(f)
    BY <1>3, <1>13 DEF Vacant
  <2>4. Footed(f, {})
    BY <1>2, <2>3 DEF Footed
  <2>5. Calm(f, Null)
    <3>1. SUFFICES ASSUME NEW x \in Vacant(f) PROVE f.hd[End(f.hd, x)].alloc
      BY DEF Calm
    <3>2. CASE x = b
      BY <1>2, <1>3, <1>13, <3>2
    <3>3. CASE x # b
      <4>1. x \in DOMAIN f.hd \ {f.epi} /\ ~f.hd[x].alloc
        BY DEF Vacant
      <4>2. f.hd[End(f.hd, x)].prev <=> f.hd[x].alloc
        BY <1>2, <4>1 DEF Row
      <4>3. End(f.hd, x) # b
        BY <1>13, <4>1, <4>2
      <4>4. QED
        BY <1>5, <3>3, <4>3
    <3>4. QED
      BY <3>2, <3>3
  <2>6. Fine(f)
    BY <1>2, <2>4, <2>5 DEF Fine
  <2>7. h.hd[b].size <= f.hd[b].size
    <3>1. h.hd[b].size \in Nat /\ f.hd[b].size = h.hd[b].size
      BY <1>2, <1>4, RowFacts DEF Intact
    <3>2. QED
      BY <3>1
  <2>8. QED
    BY <1>2, <1>4, <2>1, <2>6, <2>7
<1>14. QED
  BY <1>10, <1>11, <1>12, <1>13

\* What one reads off a heap between two calls.
LEMMA FineFacts ==
  ASSUME NEW h, Fine(h)
  PROVE  /\ IsHeap(h) /\ Row(h.hd, h.epi) /\ Footed(h, {}) /\ Listed(h, {})
         /\ \A x \in Vacant(h) : h.hd[End(h.hd, x)].alloc
         /\ Vacant(h) \subseteq DOMAIN h.hd \ {h.epi} /\ Held(h) \subseteq DOMAIN h.hd \ {h.epi}
         /\ Null \notin DOMAIN h.hd
<1>1. IsHeap(h) /\ Row(h.hd, h.epi) /\ Footed(h, {}) /\ Listed(h, {}) /\ Calm(h, Null)
  BY DEF Fine
<1>2. /\ \A x \in DOMAIN h.hd : First <= x /\ x \in Nat
      /\ \A x \in DOMAIN h.hd \ {h.epi} : End(h.hd, x) \in DOMAIN h.hd
  BY <1>1, RowFacts
<1>3. Null \notin DOMAIN h.hd
  BY <1>2 DEF Null, First, M
<1>4. Vacant(h) \subseteq DOMAIN h.hd \ {h.epi} /\ Held(h) \subseteq DOMAIN h.hd \ {h.epi}
  BY DEF Vacant, Held
<1>5. \A x \in Vacant(h) : h.hd[End(h.hd, x)].alloc
  BY <1>1, <1>2, <1>3, <1>4 DEF Calm
<1>6. QED
  BY <1>1, <1>3, <1>4, <1>5

\* remove_block, on a free block.
LEMMA Removing ==
  ASSUME NEW h, Fine(h), NEW b \in Vacant(h), NEW g, g = RemoveBlock(h, b)
  PROVE  Fine(g) /\ Kept(h, g) /\ Held(g) = Held(h) \cup {b}
<1> DEFINE e == End(h.hd, b)
<1>1. /\ IsHeap(h) /\ Row(h.hd, h.epi) /\ Footed(h, {}) /\ Listed(h, {})
      /\ \A x \in Vacant(h) : h.hd[End(h.hd, x)].alloc
      /\ b \in DOMAIN h.hd \ {h.epi} /\ ~h.hd[b].alloc
      /\ Vacant(h) \subseteq DOMAIN h.hd \ {h.epi}
  BY FineFacts DEF Vacant
<1>2. /\ b \in DOMAIN h.hd /\ e \in DOMAIN h.hd /\ e # b
      /\ \A x \in DOMAIN h.hd : h.hd[x] \in Tags /\ h.hd[x].size \in Nat
      /\ \A x \in DOMAIN h.hd \ {h.epi} : End(h.hd, x) \in DOMAIN h.hd
      /\ \A x, y \in DOMAIN h.hd \ {h.epi} : End(h.hd, x) = End(h.hd, y) => x = y
  <2>1. e \in DOMAIN h.hd /\ b + M <= e /\ b \in Nat /\ e \in Nat
    BY <1>1, RowFacts
  <2>2. QED
    BY <1>1, <2>1, RowFacts DEF M
<1> HIDE DEF e
<1>3. Chains(h.fl) /\ In(h.fl, b) /\ e = End(h.hd, b)
  BY <1>1 DEF Listed, e
<1>4. /\ IsHeap(g) /\ g.epi = h.epi /\ g.pages = h.pages
      /\ DOMAIN g.hd = DOMAIN h.hd
      /\ g.hd[b] = Busy(h.hd[b].size, h.hd[b])
      /\ g.hd[e] = AfterBusy(h.hd[e])
      /\ \A x \in DOMAIN h.hd \ {b, e} : g.hd[x] = h.hd[x]
      /\ \A x \in DOMAIN h.hd : g.hd[x] \in Tags /\ g.hd[x].size = h.hd[x].size
      /\ DOMAIN g.ft = DOMAIN h.ft \ {e} /\ \A x \in DOMAIN g.ft : g.ft[x] = h.ft[x]
      /\ Chains(g.fl) /\ \A y : In(g.fl, y) <=> y # b /\ In(h.fl, y)
  BY <1>1, <1>2, <1>3, RemoveFacts, SMTT(60)
<1>5. /\ Row(g.hd, g.epi)
      /\ \A x \in DOMAIN h.hd : x # b => (g.hd[x].alloc <=> h.hd[x].alloc)
  <2> DEFINE hd == h.hd
             gd == g.hd
             epi == h.epi
  <2>1. /\ Row(hd, epi) /\ b \in DOMAIN hd \ {epi} /\ e = End(hd, b) /\ DOMAIN gd = DOMAIN hd
        /\ gd[b] = Busy(hd[b].size, hd[b]) /\ gd[e] = AfterBusy(hd[e])
        /\ \A x \in DOMAIN hd \ {b, e} : gd[x] = hd[x]
    BY <1>1, <1>3, <1>4
  <2> HIDE DEF hd, gd, epi
  <2>2. /\ Row(gd, epi)
        /\ \A x \in DOMAIN hd : x # b => (gd[x].alloc <=> hd[x].alloc)
    BY <2>1, Retagged
  <2>3. QED
    BY <1>4, <2>2 DEF hd, gd, epi
<1>6. g.hd[b].alloc
  <2> DEFINE t == h.hd[b]
             n == t.size
  <2>1. t \in Tags /\ n \in Nat /\ g.hd[b] = Busy(n, t)
    BY <1>2, <1>4
  <2> HIDE DEF t, n
  <2>2. QED
    BY <2>1, BusyBits
<1>7. Vacant(g) = Vacant(h) \ {b} /\ Held(g) = Held(h) \cup {b}
  BY <1>1, <1>4, <1>5, <1>6 DEF Vacant, Held
<1>8. \A x \in DOMAIN h.hd : End(g.hd, x) = End(h.hd, x)
  BY <1>4 DEF End
<1>9. Footed(g, {})
  <2>1. SUFFICES ASSUME NEW x \in Vacant(g)
                 PROVE  End(g.hd, x) \in DOMAIN g.ft /\ g.ft[End(g.hd, x)] = g.hd[x]
    BY DEF Footed
  <2>2. x \in Vacant(h) /\ x # b /\ x \in DOMAIN h.hd \ {h.epi} /\ ~h.hd[x].alloc
    BY <1>1, <1>7 DEF Vacant
  <2>3. h.hd[e].alloc
    BY <1>1, <1>3
  <2>4. x # e /\ End(h.hd, x) # e
    BY <1>1, <1>2, <1>3, <2>2, <2>3
  <2>5. g.hd[x] = h.hd[x]
    BY <1>4, <2>2, <2>4
  <2>6. End(h.hd, x) \in DOMAIN h.ft /\ h.ft[End(h.hd, x)] = h.hd[x]
    BY <1>1, <2>2 DEF Footed
  <2>7. QED
    BY <1>4, <1>8, <2>2, <2>4, <2>5, <2>6
<1>10. Listed(g, {})
  BY <1>1, <1>4, <1>7 DEF Listed
<1>11. Calm(g, Null)
  <2>1. SUFFICES ASSUME NEW x \in Vacant(g) PROVE g.hd[End(g.hd, x)].alloc
    BY DEF Calm
  <2>2. x \in Vacant(h) /\ x \in DOMAIN h.hd \ {h.epi}
    BY <1>1, <1>7
  <2>3. h.hd[End(h.hd, x)].alloc /\ End(h.hd, x) \in DOMAIN h.hd
    BY <1>1, <1>2, <2>2
  <2>4. QED
    BY <1>5, <1>6, <1>8, <2>2, <2>3
<1>12. Kept(h, g)
  BY <1>4 DEF Kept, Held
<1>13. QED
  BY <1>4, <1>5, <1>7, <1>9, <1>10, <1>11, <1>12 DEF Fine

\* What add_block needs of a block in use.
LEMMA HeldIsIntact ==
  ASSUME NEW h, Fine(h), NEW b \in Held(h)
  PROVE  Intact(h, b)
<1>1. b \notin Vacant(h) /\ b \in DOMAIN h.hd \ {h.epi}
  BY DEF Held, Vacant
<1>2. Footed(h, {b}) /\ Listed(h, {b})
  BY <1>1, FineFacts DEF Footed, Listed
<1>3. Calm(h, b)
  BY FineFacts DEF Calm
<1>4. QED
  BY <1>1, <1>2, <1>3, FineFacts DEF Intact

LEMMA Wrapped ==
  ASSUME Word \in Nat \ {0}, NEW a \in Nat, Word <= a
  PROVE  a % Word <= a - Word
<1> DEFINE q == a \div Word
           n == a % Word
<1>1. q \in Nat /\ n \in Nat /\ a = Word * q + n /\ n < Word
  OBVIOUS
<1> HIDE DEF q, n
<1>2. q # 0
  <2>1. SUFFICES ASSUME q = 0 PROVE FALSE
    OBVIOUS
  <2>2. QED
    BY <1>1, <2>1
<1>3. PICK p \in Nat : q = p + 1
  BY <1>1, <1>2
<1>4. Word * (p + 1) = Word * p + Word /\ Word * p >= 0
  OBVIOUS
<1>5. QED
  BY <1>1, <1>3, <1>4 DEF n

LEMMA Rounded ==
  ASSUME Word \in Nat \ {0}, NEW size \in Nat
  PROVE  /\ RoundUp(size) \in Nat /\ RoundUp(size) % M = 0
         /\ RoundUp(size) > 0 => M <= RoundUp(size)
         /\ size + 71 < Word => size + 8 <= RoundUp(size)
         /\ RoundUp(size) <= size + 71
         /\ Word <= size + 71 => RoundUp(size) <= size + 71 - Word
<1> DEFINE a == size + 71
           n == a % Word
           q == n \div M
<1>0. a \in Nat /\ a = size + 8 + M - 1
  BY DEF M
<1> HIDE DEF a
<1>1. n \in Nat /\ (a < Word => n = a) /\ (Word <= a => n <= a - Word) /\ n <= a
  BY <1>0, Wrapped
<1> HIDE DEF n
<1>2. q \in Nat /\ 64 * q <= n /\ n < 64 * q + 64
  BY <1>1 DEF M
<1>3. RoundUp(size) = q * 64
  <2>1. size + 8 + M - 1 = a
    BY <1>0
  <2>2. RoundUp(size) = (((size + 8 + M - 1) % Word) \div M) * M
    BY DEF RoundUp
  <2>3. RoundUp(size) = ((a % Word) \div M) * M
    BY ONLY <2>1, <2>2, Zenon
  <2>4. RoundUp(size) = q * M
    BY ONLY <2>3, Zenon DEF q, n
  <2>5. QED
    BY ONLY <2>4, Zenon DEF M
<1> HIDE DEF q
<1>4. q * 64 \in Nat /\ (q * 64) % 64 = 0 /\ (q * 64 > 0 => 64 <= q * 64) /\ q * 64 <= n /\ n < q * 64 + 64
  BY <1>2
<1>5. QED
  BY <1>1, <1>3, <1>4 DEF M, a

\* split, on a block in use.
LEMMA Splitting ==
  ASSUME NEW h, Fine(h), NEW b \in Held(h), NEW size,
         NEW req \in Nat, req = RoundUp(size), M <= req, req % M = 0,
         NEW isLast, NEW g, g = Split(h, b, size, isLast), NEW s, s = h.hd[b].size
  PROVE  /\ Fine(g) /\ g.epi = h.epi /\ g.pages = h.pages /\ Held(g) = Held(h)
         /\ \A x \in Held(h) \ {b} : g.hd[x].size = h.hd[x].size
         /\ s - req < M => g.hd[b].size = s
         /\ ~(s - req < M) => /\ g.hd[b].size = req /\ b + req \in Vacant(g)
                              /\ s - req <= g.hd[b + req].size
<1> DEFINE rest == s - req
           r == b + req
           x1 == Put(Put(h.hd, b, Busy(req, h.hd[b])), r, Fresh(rest))
           k == [h EXCEPT !.hd = Put(Put(@, b, Tag(req, @[b].alloc, @[b].prev)), r, Tag(rest, TRUE, TRUE))]
           i == IF isLast THEN Wild ELSE SizeClass(size)
           hd == h.hd
           epi == h.epi
<1>1. /\ IsHeap(h) /\ Row(hd, epi) /\ Footed(h, {}) /\ Listed(h, {})
      /\ \A x \in Vacant(h) : hd[End(hd, x)].alloc
      /\ b \in DOMAIN hd \ {epi} /\ hd[b].alloc
  BY FineFacts DEF Held
<1>2. g = IF rest < M THEN h ELSE AddBlock(k, r, i)
  BY Zenon DEF Split
<1>3. i \in Lists
  BY ClassIsList DEF Lists, Wild
<1>4. /\ b \in Nat /\ (b + 16) % M = 0 /\ s \in Nat /\ End(hd, b) = b + s /\ hd[b] \in Tags
      /\ hd[b].alloc \in BOOLEAN
      /\ \A x \in DOMAIN hd \ {epi} : End(hd, x) \in DOMAIN hd
  BY <1>1, RowFacts DEF End
<1>5. CASE rest < M
  BY <1>2, <1>5
<1>6. CASE ~(rest < M)
  <2>1. /\ r \in Nat /\ (r + 16) % M = 0 /\ b + M <= r /\ r + M <= End(hd, b)
        /\ End(hd, b) - r = rest /\ r - b = req /\ r # b
    BY <1>4, <1>6 DEF M
  <2>2. hd[b].alloc = TRUE
    BY <1>1, <1>4
  <2>3. k = WithHd(h, x1)
    BY Zenon, <2>2 DEF WithHd, Busy, Fresh
  <2> HIDE DEF x1, k
  <2>4. k = HeapOf(x1, h.ft, h.fl, h.epi, h.pages)
    BY <1>1, <2>3, Updated
  <2>5. /\ IsHeap(k) /\ k.hd = x1 /\ k.ft = h.ft /\ k.fl = h.fl /\ k.epi = epi /\ k.pages = h.pages
    BY <2>4 DEF HeapOf, IsHeap
  <2>6. /\ DOMAIN x1 = DOMAIN hd \cup {r}
        /\ x1[b] = Busy(r - b, hd[b])
        /\ x1[r] = Fresh(End(hd, b) - r)
        /\ \A x \in DOMAIN hd \ {b} : x # r => x1[x] = hd[x]
    <3>1. /\ DOMAIN x1 = DOMAIN hd \cup {r}
          /\ x1[b] = Busy(req, hd[b])
          /\ x1[r] = Fresh(rest)
          /\ \A x \in DOMAIN hd \ {b} : x # r => x1[x] = hd[x]
      BY <1>1, <2>1 DEF Put, x1
    <3>2. QED
      BY <2>1, <3>1
  <2>7. r \notin DOMAIN hd
    <3>1. \A x \in DOMAIN hd : b < x => End(hd, b) <= x
      BY <1>1, RowFacts
    <3>2. b < r /\ ~(End(hd, b) <= r)
      BY <1>4, <2>1 DEF M
    <3>3. QED
      BY <3>1, <3>2
  <2>8. /\ Row(x1, epi) /\ r # epi
        /\ x1[b].size = r - b /\ x1[b].alloc
        /\ x1[r].size = End(hd, b) - r /\ x1[r].alloc /\ x1[r].prev
        /\ \A x \in DOMAIN hd \ {b} : x1[x] = hd[x]
    <3>1. \A x \in DOMAIN hd \ {b} : x1[x] = hd[x]
      BY <2>6, <2>7
    <3> HIDE DEF hd, epi, r
    <3>2. /\ Row(x1, epi) /\ r # epi
          /\ x1[b].size = r - b /\ x1[b].alloc
          /\ x1[r].size = End(hd, b) - r /\ x1[r].alloc /\ x1[r].prev
      BY <1>1, <2>1, <2>6, <3>1, Cut
    <3>3. QED
      BY <3>1, <3>2
  <2>9. Vacant(k) = Vacant(h) /\ Held(k) = Held(h) \cup {r}
    BY <1>1, <2>5, <2>6, <2>8 DEF Vacant, Held
  <2>10. \A x \in Vacant(h) : x \in DOMAIN hd \ {epi} /\ x # b /\ x1[x] = hd[x] /\ End(x1, x) = End(hd, x)
    BY <1>1, <2>8 DEF Vacant, End
  <2>11. Footed(k, {r})
    BY <1>1, <2>5, <2>9, <2>10 DEF Footed
  <2>12. Listed(k, {r})
    <3>1. r \notin Vacant(h)
      BY <2>7, <2>10
    <3>2. QED
      BY <1>1, <2>5, <2>9, <3>1 DEF Listed
  <2>13. Calm(k, r)
    <3>1. SUFFICES ASSUME NEW x \in Vacant(k) PROVE k.hd[End(k.hd, x)].alloc
      BY DEF Calm
    <3>2. hd[End(hd, x)].alloc /\ End(hd, x) \in DOMAIN hd /\ End(x1, x) = End(hd, x)
      BY <1>1, <1>4, <2>9, <2>10
    <3>3. QED
      BY <2>5, <2>8, <3>2
  <2>14. Intact(k, r)
    BY <2>5, <2>6, <2>8, <2>11, <2>12, <2>13 DEF Intact
  <2>15. g = AddBlock(k, r, i)
    BY <1>2, <1>6
  <2> HIDE DEF r, i
  <2>16. /\ Fine(g) /\ Kept(k, g) /\ Held(g) = Held(k) \ {r}
         /\ k.hd[r].prev => r \in Vacant(g) /\ k.hd[r].size <= g.hd[r].size
    BY <1>3, <2>14, <2>15, Adding
  <2>17. Held(g) = Held(h)
    <3>1. r \notin Held(h)
      BY <2>7 DEF Held
    <3>2. QED
      BY <2>9, <2>16, <3>1
  <2>18. /\ \A x \in Held(h) \ {b} : g.hd[x].size = h.hd[x].size
         /\ g.hd[b].size = req
    <3>1. /\ \A x \in Held(h) : x \in DOMAIN hd /\ g.hd[x].size = x1[x].size
      BY <2>5, <2>16, <2>17 DEF Kept, Held
    <3>2. QED
      BY <2>1, <2>8, <3>1
  <2>19. r \in Vacant(g) /\ rest <= g.hd[r].size
    BY <2>1, <2>5, <2>8, <2>16
  <2>20. QED
    BY <1>6, <2>5, <2>16, <2>17, <2>18, <2>19 DEF Kept, r
<1>7. QED
  BY <1>5, <1>6

Paged(h) == h.pages \in Nat \ {0} /\ h.epi = h.pages * PageSize - 16

\* new_page, on the heap before the first call.
LEMMA Beginning ==
  ASSUME NEW g, g = NewPage(Empty)
  PROVE  Fine(g) /\ Paged(g) /\ Held(g) = {}
<1> DEFINE no == [i \in Lists |-> <<>>]
           h == Empty
           epi == (h.pages + 1) * PageSize - 16
           wild == IF h.pages = 0 THEN First ELSE h.epi
           prev == IF wild = First THEN TRUE ELSE h.hd[wild].prev
           k == [h EXCEPT !.pages = @ + 1, !.epi = epi,
                          !.hd = Put(Put(@, epi, Tag(0, TRUE, FALSE)), wild, Tag(epi - wild, FALSE, prev))]
           x == Put(Put(h.hd, epi, Epilogue), wild, Tag(epi - wild, FALSE, prev))
<1>1. IsHeap(h) /\ h.hd = <<>> /\ h.ft = <<>> /\ h.fl = no /\ h.pages = 0
  BY DEF Empty, IsHeap, HeapOf
<1> HIDE DEF h
<1>2. epi = 4080 /\ wild = 112 /\ epi - wild = 3968 /\ prev = TRUE
  BY <1>1 DEF PageSize, First, M
<1>3. g = AddBlock(k, wild, Wild)
  BY Zenon DEF NewPage, h
<1>4. k = WithPage(h, h.pages + 1, epi, x)
  BY Zenon DEF WithPage, Epilogue
<1> HIDE DEF x, k, epi, wild, prev
<1>5. k = HeapOf(x, h.ft, h.fl, epi, h.pages + 1)
  BY <1>1, <1>4, Updated
<1>6. IsHeap(k) /\ k.hd = x /\ k.ft = <<>> /\ k.fl = no /\ k.epi = 4080 /\ k.pages = 1
  BY <1>1, <1>2, <1>5 DEF HeapOf, IsHeap
<1>7. x = Put(Put(<<>>, 4080, Epilogue), 112, Tag(3968, FALSE, TRUE))
  BY <1>1, <1>2 DEF x, Tag
<1>8. DOMAIN x = {112, 4080}
  BY <1>7 DEF Put
<1>9. /\ x[4080].size = 0 /\ x[4080].alloc /\ ~x[4080].prev /\ x[4080] \in Tags
      /\ x[112].size = 3968 /\ ~x[112].alloc /\ x[112].prev /\ x[112] \in Tags
  <2>1. x[4080] = Epilogue /\ x[112] = Tag(3968, FALSE, TRUE)
    BY <1>7 DEF Put
  <2>2. QED
    BY <2>1, EpilogueBits DEF Tag, Tags
<1>10. Row(x, 4080)
  <2>1. End(x, 112) = 4080
    BY <1>9 DEF End
  <2>2. \A y \in DOMAIN x : y \in Nat /\ y <= 4080 /\ x[y] \in Tags
    BY <1>8, <1>9
  <2>3. \A b \in DOMAIN x \ {4080} :
          /\ First <= b /\ (b + 16) % M = 0 /\ M <= x[b].size
          /\ End(x, b) \in DOMAIN x
          /\ x[End(x, b)].prev <=> x[b].alloc
          /\ \A y \in DOMAIN x : y <= b \/ End(x, b) <= y
    BY <1>8, <1>9, <2>1 DEF First, M
  <2>4. \A y \in DOMAIN x \ {First} : \E b \in DOMAIN x \ {4080} : End(x, b) = y
    BY <1>8, <2>1 DEF First, M
  <2>5. /\ 4080 \in Nat /\ (4080 + 16) % M = 0 /\ {First, 4080} \subseteq DOMAIN x
        /\ x[First].prev
    BY <1>8, <1>9 DEF First, M
  <2>6. QED
    BY <1>9, <2>2, <2>3, <2>4, <2>5 DEF Row
<1>11. Vacant(k) = {112} /\ Held(k) = {}
  BY <1>6, <1>8, <1>9 DEF Vacant, Held
<1>12. Chains(no) /\ \A y : ~In(no, y)
  <2>1. /\ no \in [Lists -> Seq(Nat)] /\ \A i \in Lists : DOMAIN no[i] = {}
    <3>1. <<>> \in Seq(Nat) /\ DOMAIN <<>> = {}
      OBVIOUS
    <3>2. QED
      BY <3>1
  <2> HIDE DEF no
  <2>2. QED
    BY <2>1 DEF Chains, In
<1>13. Intact(k, 112)
  <2>1. Footed(k, {112}) /\ Listed(k, {112})
    BY <1>6, <1>11, <1>12 DEF Footed, Listed
  <2>2. Calm(k, 112)
    BY <1>11 DEF Calm
  <2>3. QED
    BY <1>6, <1>8, <1>10, <2>1, <2>2 DEF Intact
<1>14. /\ Fine(g) /\ Kept(k, g) /\ Held(g) = Held(k) \ {112}
  <2>1. g = AddBlock(k, 112, Wild) /\ Wild \in Lists
    BY <1>2, <1>3 DEF Wild, Lists
  <2>2. QED
    BY <1>13, <2>1, Adding
<1>15. QED
  BY <1>6, <1>11, <1>14 DEF Kept, Paged, PageSize

\* new_page, when the heap has grown.
LEMMA Growing ==
  ASSUME NEW h, Fine(h), Paged(h), NEW g, g = NewPage(h)
  PROVE  /\ Fine(g) /\ Paged(g) /\ Held(g) = Held(h)
         /\ \A x \in Held(g) : g.hd[x].size = h.hd[x].size
<1> DEFINE epi == (h.pages + 1) * PageSize - 16
           wild == IF h.pages = 0 THEN First ELSE h.epi
           prev == IF wild = First THEN TRUE ELSE h.hd[wild].prev
           k == [h EXCEPT !.pages = @ + 1, !.epi = epi,
                          !.hd = Put(Put(@, epi, Tag(0, TRUE, FALSE)), wild, Tag(epi - wild, FALSE, prev))]
           x == Put(Put(h.hd, epi, Epilogue), wild, Tag(epi - wild, FALSE, prev))
           hd == h.hd
<1>1. /\ IsHeap(h) /\ Row(hd, h.epi) /\ Footed(h, {}) /\ Listed(h, {})
      /\ \A y \in Vacant(h) : hd[End(hd, y)].alloc
      /\ Vacant(h) \subseteq DOMAIN hd \ {h.epi}
      /\ h.pages \in Nat \ {0} /\ h.epi = h.pages * PageSize - 16
  BY FineFacts DEF Paged
<1>2. /\ wild = h.epi /\ epi = wild + PageSize /\ wild \in DOMAIN hd /\ wild \in Nat /\ wild # epi
      /\ epi \notin DOMAIN hd /\ epi \in Nat /\ hd[First].prev /\ hd[wild].prev \in BOOLEAN
      /\ hd[First].prev \in BOOLEAN
      /\ \A y \in DOMAIN hd \ {wild} : End(hd, y) \in DOMAIN hd
  <2>1. wild = h.epi
    BY <1>1
  <2>2. epi = wild + PageSize
    BY <1>1, <2>1 DEF PageSize
  <2> HIDE DEF wild, epi
  <2>3. wild \in DOMAIN hd /\ wild \in Nat /\ hd[First].prev /\ hd[wild].prev \in BOOLEAN
        /\ hd[First].prev \in BOOLEAN
        /\ \A y \in DOMAIN hd : y \in Nat /\ y <= wild
    BY <1>1, <2>1, RowFacts DEF Row
  <2>4. epi \in Nat /\ wild < epi /\ epi \notin DOMAIN hd
    BY <2>2, <2>3 DEF PageSize
  <2>5. QED
    BY <1>1, <2>1, <2>2, <2>3, <2>4, RowFacts
<1>3. g = AddBlock(k, wild, Wild)
  BY Zenon DEF NewPage
<1>4. k = WithPage(h, h.pages + 1, epi, x)
  BY Zenon DEF WithPage, Epilogue
<1>5. prev = hd[wild].prev
  BY <1>2
<1>6. x = Put(Put(hd, epi, Epilogue), wild, Idle(epi - wild, hd[wild]))
  BY Zenon, <1>5 DEF Idle
<1> HIDE DEF x, k, wild, epi, prev
<1>7. k = HeapOf(x, h.ft, h.fl, epi, h.pages + 1)
  BY <1>1, <1>4, Updated
<1>8. IsHeap(k) /\ k.hd = x /\ k.ft = h.ft /\ k.fl = h.fl /\ k.epi = epi /\ k.pages = h.pages + 1
  BY <1>7 DEF HeapOf, IsHeap
<1>9. /\ DOMAIN x = DOMAIN hd \cup {epi} /\ x[wild] = Idle(epi - wild, hd[wild])
      /\ x[epi] = Epilogue
      /\ \A y \in DOMAIN hd \ {wild} : x[y] = hd[y]
  BY <1>2, <1>6 DEF Put
<1>10. /\ Row(x, epi) /\ ~x[wild].alloc /\ End(x, wild) = epi
  <2>1. Row(hd, wild) /\ epi = wild + PageSize
    BY <1>1, <1>2
  <2> HIDE DEF hd
  <2>2. QED
    BY <1>9, <2>1, Grown
<1>11. Vacant(k) = Vacant(h) \cup {wild} /\ Held(k) = Held(h)
  BY <1>2, <1>8, <1>9, <1>10 DEF Vacant, Held
<1>12. \A y \in Vacant(h) : /\ y \in DOMAIN hd \ {wild} /\ x[y] = hd[y] /\ End(x, y) = End(hd, y)
                            /\ End(hd, y) \in DOMAIN hd /\ wild \notin Vacant(h)
  BY <1>1, <1>2, <1>9 DEF End
<1>13. Intact(k, wild)
  <2>1. Footed(k, {wild})
    BY <1>1, <1>8, <1>11, <1>12 DEF Footed
  <2>2. Listed(k, {wild})
    BY <1>1, <1>8, <1>11, <1>12 DEF Listed
  <2>3. Calm(k, wild)
    <3>1. SUFFICES ASSUME NEW y \in Vacant(k), y # wild, End(k.hd, y) # wild
                   PROVE  k.hd[End(k.hd, y)].alloc
      BY DEF Calm
    <3>2. QED
      BY <1>1, <1>8, <1>9, <1>11, <1>12, <3>1
  <2>4. QED
    BY <1>2, <1>8, <1>9, <1>10, <2>1, <2>2, <2>3 DEF Intact
<1>14. /\ Fine(g) /\ Kept(k, g) /\ Held(g) = Held(k) \ {wild}
  <2>1. Wild \in Lists
    BY DEF Wild, Lists
  <2>2. QED
    BY <1>3, <1>13, <2>1, Adding
<1>15. wild \notin Held(h)
  BY <1>2 DEF Held
<1>16. Paged(g)
  BY <1>1, <1>8, <1>14 DEF Kept, Paged, epi
<1>17. \A y \in Held(g) : g.hd[y].size = h.hd[y].size
  BY <1>2, <1>8, <1>9, <1>11, <1>14 DEF Kept, Held
<1>18. QED
  BY <1>11, <1>14, <1>15, <1>16, <1>17

LEMMA LeastOf ==
  ASSUME NEW S \in SUBSET Nat, S # {} PROVE Min(S) \in S
<1> DEFINE R == OpToRel(<, Nat)
<1>1. IsWellFoundedOn(R, Nat)
  BY NatLessThanWellFounded
<1>2. PICK i \in S : \A j \in S : <<j, i>> \notin R
  <2> HIDE DEF R
  <2>1. QED
    BY <1>1, WFMin
<1>3. \A j \in S : <<j, i>> \in R <=> j < i
  BY DEF OpToRel
<1> HIDE DEF R
<1>4. \A j \in S : ~(j < i) /\ j \in Nat /\ i \in Nat
  BY <1>2, <1>3
<1>5. \A j \in S : i <= j
  BY <1>4
<1>6. QED
  BY <1>5 DEF Min

\* From h to g a call has put block b in use, and old, if not Null, out of use.
Gained(h, g, old, b) ==
  /\ Fine(g) /\ g.epi = h.epi /\ g.pages = h.pages
  /\ b # Null /\ b \notin Held(h) \ {old} /\ Held(g) = (Held(h) \ {old}) \cup {b}
  /\ \A x \in Held(h) \ {old} : g.hd[x].size = h.hd[x].size

LEMMA Mallocing ==
  ASSUME NEW h, Fine(h), NEW size, NEW req \in Nat, req = RoundUp(size), M <= req, req % M = 0,
         NEW r, r = Malloc(h, size)
  PROVE  \/ r.b = Null /\ r.h = h
         \/ Gained(h, r.h, Null, r.b) /\ r.b \notin Held(h) /\ req <= r.h.hd[r.b].size
<1> DEFINE lists == ListsThatFit(h, size)
           i == Min(lists)
           fits == Fits(h, size, i)
           k == Min(fits)
           b == h.fl[i][k]
           h1 == RemoveBlock(h, b)
           g == Split(h1, b, size, i = Wild)
<1>1. CASE size = 0 \/ lists = {}
  BY <1>1 DEF Malloc
<1>2. CASE ~(size = 0 \/ lists = {})
  <2>1. r.h = g /\ r.b = b
    BY <1>2 DEF Malloc
  <2>2. i \in Lists /\ fits # {}
    <3>1. lists \in SUBSET Nat /\ \A j \in lists : j \in Lists /\ Fits(h, size, j) # {}
      BY ClassIsList DEF ListsThatFit, Wild, Lists
    <3> HIDE DEF lists
    <3>2. i \in lists
      BY <1>2, <3>1, LeastOf
    <3>3. QED
      BY <3>1, <3>2
  <2>3. h.fl[i] \in Seq(Nat)
    BY <2>2, FineFacts DEF Listed, Chains
  <2> HIDE DEF i
  <2>4. k \in DOMAIN h.fl[i] /\ req <= h.hd[b].size
    <3>1. fits \in SUBSET Nat /\ \A j \in fits : j \in DOMAIN h.fl[i] /\ req <= h.hd[h.fl[i][j]].size
      <4>1. DOMAIN h.fl[i] \subseteq Nat
        BY <2>3
      <4>2. QED
        BY <4>1 DEF Fits
    <3> HIDE DEF fits
    <3>2. k \in fits
      BY <2>2, <3>1, LeastOf
    <3>3. QED
      BY <3>1, <3>2
  <2>5. b \in Vacant(h)
    <3> HIDE DEF k
    <3>1. In(h.fl, b)
      BY <2>2, <2>4 DEF In
    <3> HIDE DEF b
    <3>2. QED
      BY <3>1, FineFacts DEF Listed
  <2> DEFINE isLast == i = Wild
  <2> HIDE DEF b, isLast, h1
  <2>6. Fine(h1) /\ Kept(h, h1) /\ Held(h1) = Held(h) \cup {b}
    BY <2>5, Removing DEF h1
  <2>7. /\ b \in Held(h1) /\ b \notin Held(h) /\ b # Null
    BY <2>5, <2>6, FineFacts DEF Held, Vacant
  <2> DEFINE s == h1.hd[b].size
  <2>8. g = Split(h1, b, size, isLast)
    BY DEF isLast
  <2> HIDE DEF g
  <2>9. /\ Fine(g) /\ g.epi = h1.epi /\ g.pages = h1.pages /\ Held(g) = Held(h1)
        /\ \A x \in Held(h1) \ {b} : g.hd[x].size = h1.hd[x].size
        /\ s - req < M => g.hd[b].size = s
        /\ ~(s - req < M) => g.hd[b].size = req
    BY <2>6, <2>7, <2>8, Splitting
  <2>10. req <= g.hd[b].size
    <3>1. req <= s
      BY <2>4, <2>6, <2>7 DEF Kept
    <3> HIDE DEF s
    <3>2. CASE s - req < M
      BY <2>9, <3>1, <3>2
    <3>3. CASE ~(s - req < M)
      BY <2>9, <3>3
    <3>4. QED
      BY <3>2, <3>3
  <2>11. \A x \in Held(h) : g.hd[x].size = h.hd[x].size
    BY <2>6, <2>7, <2>9 DEF Kept
  <2>12. g.epi = h.epi /\ g.pages = h.pages /\ Held(g) = Held(h) \cup {b}
    BY <2>6, <2>9 DEF Kept
  <2>13. Held(h) \ {Null} = Held(h)
    BY FineFacts
  <2>14. Gained(h, g, Null, b)
    BY <2>7, <2>9, <2>11, <2>12, <2>13 DEF Gained
  <2>15. QED
    BY <2>1, <2>7, <2>10, <2>14
<1>3. QED
  BY <1>1, <1>2

\* checkValid accepts the blocks in use, and sf_free takes them.
LEMMA HeldIsValid ==
  ASSUME NEW h, Fine(h), NEW b \in Held(h)
  PROVE  Valid(h, b)
<1>1. /\ IsHeap(h) /\ Row(h.hd, h.epi) /\ Footed(h, {}) /\ b \in DOMAIN h.hd \ {h.epi}
      /\ h.hd[b].alloc
  BY FineFacts DEF Held
<1>2. /\ First <= b /\ (b + 16) % M = 0 /\ b \in Nat /\ End(h.hd, b) \in DOMAIN h.hd
      /\ \A x \in DOMAIN h.hd : x <= h.epi
  BY <1>1, RowFacts
<1>3. Intact(h, b)
  BY HeldIsIntact
<1>4. ~h.hd[b].prev => ~h.hd[b - h.ft[b].size].alloc
  <2>1. SUFFICES ASSUME ~h.hd[b].prev PROVE ~h.hd[b - h.ft[b].size].alloc
    OBVIOUS
  <2> DEFINE x == b - h.ft[b].size
  <2>2. x \in Vacant(h)
    <3>1. Calm(h, b) /\ Footed(h, {End(h.hd, b)})
      BY <1>1, <1>3 DEF Intact, Footed
    <3>2. QED
      BY <1>1, <2>1, <3>1, Neighbours
  <2> HIDE DEF x
  <2>3. QED
    BY <2>2 DEF Vacant, x
<1>5. After(h, b) = End(h.hd, b)
  BY DEF After, End
<1>6. QED
  BY <1>1, <1>2, <1>4, <1>5 DEF Valid

LEMMA Freeing ==
  ASSUME NEW h, Fine(h), NEW b \in Held(h), NEW g, g = Free(h, b)
  PROVE  Fine(g) /\ Kept(h, g) /\ Held(g) = Held(h) \ {b}
<1> DEFINE i == IF FreeIsLast(h, b) THEN Wild ELSE SizeClass(h.hd[b].size)
<1>1. i \in Lists
  BY ClassIsList DEF Lists, Wild
<1>2. g = CASE Valid(h, b) -> AddBlock(h, b, i)
  BY Zenon DEF Free
<1> HIDE DEF i
<1>3. g = AddBlock(h, b, i)
  BY <1>2, HeldIsValid
<1>4. QED
  BY <1>1, <1>3, HeldIsIntact, Adding

\* Arithmetic of the alignments.
LEMMA Multiple ==
  ASSUME NEW a \in Nat \ {0}, NEW k \in Nat
  PROVE  (a * k) % a = 0
<1> DEFINE x == a * k
           q == x \div a
           n == x % a
<1>1. x \in Nat /\ q \in Nat /\ n \in Nat /\ x = a * q + n /\ n < a
  <2>1. x \in Nat
    OBVIOUS
  <2> HIDE DEF x
  <2>2. q \in Nat /\ n \in Nat /\ x = a * q + n /\ n < a
    BY <2>1
  <2>3. QED
    BY <2>1, <2>2
<1> HIDE DEF q, n
<1>2. PICK d \in Int : d = k - q
  BY <1>1
<1>3. n = a * d
  BY <1>1, <1>2 DEF x
<1>4. d < 1
  <2>1. SUFFICES ASSUME d >= 1 PROVE FALSE
    BY <1>2
  <2>2. PICK c \in Nat : d = c + 1
    BY <2>1, <1>2
  <2>3. a * (c + 1) = a * c + a /\ a * c >= 0
    OBVIOUS
  <2>4. QED
    BY <1>1, <1>3, <2>2, <2>3
<1>5. d >= 0
  <2>1. SUFFICES ASSUME d < 0 PROVE FALSE
    BY <1>2
  <2>2. PICK c \in Nat : d = 0 - (c + 1)
    <3>1. (0 - d) - 1 \in Nat /\ d = 0 - (((0 - d) - 1) + 1)
      BY <1>2, <2>1
    <3>2. QED
      BY <3>1
  <2>3. a * (0 - (c + 1)) = 0 - (a * c + a) /\ a * c >= 0
    OBVIOUS
  <2>4. QED
    BY <1>1, <1>3, <2>2, <2>3
<1>6. d = 0
  BY <1>2, <1>4, <1>5
<1>7. QED
  BY <1>3, <1>6 DEF n

\* An alignment is a multiple of 64.
LEMMA Powers ==
  ASSUME NEW align, Legal(align)
  PROVE  align \in Nat /\ 64 <= align /\ align % 64 = 0
<1> DEFINE P(n) == 2 ^ n
           Fit(x) == x \in Nat /\ 64 <= x /\ x % 64 = 0
<1> SUFFICES Fit(align)
  OBVIOUS
<1>1. PICK n \in 6 .. 30 : align = P(n)
  BY DEF Legal
<1>2. P(6) = 64 /\ P(7) = 128 /\ P(8) = 256 /\ P(9) = 512 /\ P(10) = 1024
  OBVIOUS
<1>3. P(11) = 2048 /\ P(12) = 4096 /\ P(13) = 8192 /\ P(14) = 16384 /\ P(15) = 32768
  OBVIOUS
<1>4. P(16) = 65536 /\ P(17) = 131072 /\ P(18) = 262144 /\ P(19) = 524288 /\ P(20) = 1048576
  OBVIOUS
<1>5. P(21) = 2097152 /\ P(22) = 4194304 /\ P(23) = 8388608 /\ P(24) = 16777216 /\ P(25) = 33554432
  OBVIOUS
<1>6. P(26) = 67108864 /\ P(27) = 134217728 /\ P(28) = 268435456 /\ P(29) = 536870912 /\ P(30) = 1073741824
  OBVIOUS
<1> HIDE DEF P
<1>7. Fit(P(6)) /\ Fit(P(7)) /\ Fit(P(8)) /\ Fit(P(9)) /\ Fit(P(10))
  BY <1>2
<1>8. Fit(P(11)) /\ Fit(P(12)) /\ Fit(P(13)) /\ Fit(P(14)) /\ Fit(P(15))
  BY <1>3
<1>9. Fit(P(16)) /\ Fit(P(17)) /\ Fit(P(18)) /\ Fit(P(19)) /\ Fit(P(20))
  BY <1>4
<1>10. Fit(P(21)) /\ Fit(P(22)) /\ Fit(P(23)) /\ Fit(P(24)) /\ Fit(P(25))
  BY <1>5
<1>11. Fit(P(26)) /\ Fit(P(27)) /\ Fit(P(28)) /\ Fit(P(29)) /\ Fit(P(30))
  BY <1>6
<1>12. n \in 6 .. 10 \/ n \in 11 .. 15 \/ n \in 16 .. 20 \/ n \in 21 .. 25 \/ n \in 26 .. 30
  OBVIOUS
<1> HIDE DEF Fit
<1>13. CASE n \in 6 .. 10
  <2>1. n = 6 \/ n = 7 \/ n = 8 \/ n = 9 \/ n = 10
    BY <1>13
  <2>2. QED
    BY <1>1, <1>7, <2>1, Zenon
<1>14. CASE n \in 11 .. 15
  <2>1. n = 11 \/ n = 12 \/ n = 13 \/ n = 14 \/ n = 15
    BY <1>14
  <2>2. QED
    BY <1>1, <1>8, <2>1, Zenon
<1>15. CASE n \in 16 .. 20
  <2>1. n = 16 \/ n = 17 \/ n = 18 \/ n = 19 \/ n = 20
    BY <1>15
  <2>2. QED
    BY <1>1, <1>9, <2>1, Zenon
<1>16. CASE n \in 21 .. 25
  <2>1. n = 21 \/ n = 22 \/ n = 23 \/ n = 24 \/ n = 25
    BY <1>16
  <2>2. QED
    BY <1>1, <1>10, <2>1, Zenon
<1>17. CASE n \in 26 .. 30
  <2>1. n = 26 \/ n = 27 \/ n = 28 \/ n = 29 \/ n = 30
    BY <1>17
  <2>2. QED
    BY <1>1, <1>11, <2>1, Zenon
<1>18. QED
  BY <1>12, <1>13, <1>14, <1>15, <1>16, <1>17

\* How far the next multiple of a power of two is.
LEMMA Skipped ==
  ASSUME NEW align \in Nat, 64 <= align, align % 64 = 0, NEW x \in Nat, x % 64 = 0, x % align # 0,
         NEW skip, skip = (x \div align + 1) * align - x
  PROVE  /\ skip \in Nat /\ 64 <= skip /\ skip <= align - 64 /\ skip % 64 = 0
         /\ (x + skip) % align = 0
<1> DEFINE q == x \div align
           n == x % align
<1>1. q \in Nat /\ n \in Nat /\ x = align * q + n /\ n < align /\ n # 0
  OBVIOUS
<1>2. skip = (q + 1) * align - x
  OBVIOUS
<1> HIDE DEF q, n
<1>3. (q + 1) * align = align * q + align /\ align * q \in Nat /\ align * (q + 1) = (q + 1) * align
  BY <1>1
<1> DEFINE p == align * q
<1>4. skip = align - n /\ x + skip = align * (q + 1)
  <2> HIDE DEF p
  <2>1. p \in Nat /\ x = p + n /\ skip = (p + align) - x /\ align * (q + 1) = p + align
    BY <1>1, <1>2, <1>3 DEF p
  <2>2. QED
    BY <1>1, <2>1
<1>5. (x + skip) % align = 0
  <2>1. q + 1 \in Nat /\ align \in Nat \ {0}
    BY <1>1
  <2>2. (align * (q + 1)) % align = 0
    BY <2>1, Multiple
  <2>3. QED
    BY <1>4, <2>2
<1>6. n % 64 = 0
  <2>1. PICK j \in Nat : align = 64 * j
    <3>1. align = 64 * (align \div 64) /\ align \div 64 \in Nat
      OBVIOUS
    <3>2. QED
      BY <3>1
  <2>2. align * q = 64 * (j * q) /\ j * q \in Nat
    BY <1>1, <2>1
  <2>3. PICK z \in Nat : align * q = 64 * z
    BY <2>2
  <2>4. QED
    BY <1>1, <2>3
<1>7. QED
  BY <1>1, <1>4, <1>5, <1>6

\* Where no size wraps round, enough is asked of sf_malloc.
LEMMA Enough ==
  ASSUME Word \in Nat \ {0}, NEW size \in Nat, NEW align \in Nat, 64 <= align,
         size + align + 128 < Word,
         NEW req, req = RoundUp(size), NEW n, n = RoundUp(Attempt(size, align)), align <= n
  PROVE  size + 8 <= req /\ size + align + 72 <= n
<1> DEFINE a == size + align + 64
<1>1. Attempt(size, align) = a /\ a \in Nat
  BY DEF Attempt, M
<1>2. size + 8 <= req
  <2>1. size + 71 < Word
    OBVIOUS
  <2>2. QED
    BY <2>1, Rounded
<1>3. size + align + 72 = a + 8 /\ a + 71 - Word < 64
  OBVIOUS
<1> HIDE DEF a
<1>4. /\ a + 71 < Word => a + 8 <= n
      /\ Word <= a + 71 => n <= a + 71 - Word
      /\ n \in Nat
  BY <1>1, Rounded
<1>5. a + 71 < Word
  BY <1>1, <1>3, <1>4
<1>6. QED
  BY <1>2, <1>3, <1>4, <1>5

\* Blocks do not overlap.
Beside(b, m, c, n) == b + m <= c \/ c + n <= b

LEMMA BlocksAreBeside ==
  ASSUME NEW h, Fine(h), NEW b \in Held(h), NEW c \in Held(h), b # c
  PROVE  Beside(b, h.hd[b].size, c, h.hd[c].size)
<1>1. Row(h.hd, h.epi) /\ b \in DOMAIN h.hd \ {h.epi} /\ c \in DOMAIN h.hd \ {h.epi}
  BY FineFacts DEF Held
<1>2. b \in Nat /\ c \in Nat /\ (b < c => End(h.hd, b) <= c) /\ (c < b => End(h.hd, c) <= b)
  BY <1>1, RowFacts
<1>3. b < c \/ c < b
  BY <1>2
<1>4. QED
  BY <1>2, <1>3 DEF Beside, End

\* sf_realloc to a larger block.
LEMMA Moving ==
  ASSUME NEW h, Fine(h), NEW old \in Held(h),
         NEW size, NEW req \in Nat, req = RoundUp(size), M <= req, req % M = 0,
         NEW r, r = Move(h, old, size)
  PROVE  \/ r.b = Null /\ r.h = h
         \/ /\ Gained(h, r.h, old, r.b) /\ req <= r.h.hd[r.b].size
            /\ r.b \notin Held(h) /\ Beside(old, h.hd[old].size, r.b, r.h.hd[r.b].size)
<1> DEFINE larger == Malloc(h, size)
           f == larger.h
           b == larger.b
           g == Free(f, old)
<1>1. \/ b = Null /\ f = h
      \/ Gained(h, f, Null, b) /\ b \notin Held(h) /\ req <= f.hd[b].size
  BY Mallocing
<1>2. r = IF b = Null THEN larger ELSE [h |-> g, b |-> b]
  BY Zenon DEF Move
<1> HIDE DEF larger
<1>3. CASE b = Null
  BY <1>1, <1>2, <1>3 DEF Gained
<1>4. CASE b # Null
  <2>1. r.h = g /\ r.b = b
    BY <1>2, <1>4
  <2>2. Gained(h, f, Null, b) /\ b \notin Held(h) /\ req <= f.hd[b].size
    BY <1>1, <1>4
  <2> HIDE DEF f, b
  <2>3. Held(h) \ {Null} = Held(h)
    BY FineFacts
  <2>4. /\ Fine(f) /\ old \in Held(f) /\ old # b
        /\ Held(f) = Held(h) \cup {b} /\ f.epi = h.epi /\ f.pages = h.pages
        /\ \A x \in Held(h) : f.hd[x].size = h.hd[x].size
    BY <2>2, <2>3 DEF Gained
  <2>5. Fine(g) /\ Kept(f, g) /\ Held(g) = Held(f) \ {old}
    <3> HIDE DEF g
    <3>1. g = Free(f, old)
      BY DEF g
    <3>2. QED
      BY <2>4, <3>1, Freeing
  <2> HIDE DEF g
  <2>6. Held(g) = (Held(h) \ {old}) \cup {b}
    BY <2>2, <2>4, <2>5
  <2>7. Gained(h, g, old, b)
    BY <1>4, <2>2, <2>4, <2>5, <2>6 DEF Gained, Kept
  <2>8. req <= g.hd[b].size
    BY <2>2, <2>5, <2>6 DEF Kept
  <2>9. Beside(old, h.hd[old].size, b, g.hd[b].size)
    <3>1. b \in Held(f) /\ b \in Held(g)
      BY <2>4, <2>6
    <3>2. Beside(old, f.hd[old].size, b, f.hd[b].size)
      BY <2>4, <3>1, BlocksAreBeside
    <3>3. g.hd[b].size = f.hd[b].size /\ f.hd[old].size = h.hd[old].size
      BY <2>4, <2>5, <3>1 DEF Kept
    <3>4. QED
      BY <3>2, <3>3
  <2>10. QED
    BY <2>1, <2>2, <2>7, <2>8, <2>9
<1>5. QED
  BY <1>3, <1>4

\* What sf_memalign splits off in front is as long as the way to the next
\* aligned address.
LEMMA FrontPart ==
  ASSUME Word \in Nat \ {0}, NEW skip \in Nat, 64 <= skip, skip % 64 = 0, skip + 63 < Word,
         NEW k, k = RoundUp(skip - 8)
  PROVE  k = skip
<1> DEFINE size == skip - 8
<1>1. size \in Nat /\ size + 71 < Word
  OBVIOUS
<1>2. k = RoundUp(size)
  OBVIOUS
<1>3. size + 8 = skip /\ size + 71 = skip + 63
  OBVIOUS
<1> HIDE DEF size
<1>4. k \in Nat /\ k % 64 = 0 /\ size + 8 <= k /\ k <= size + 71
  BY <1>1, <1>2, Rounded DEF M
<1>5. skip <= k /\ k < skip + 64
  BY <1>1, <1>3, <1>4
<1>6. skip = 64 * (skip \div 64) /\ k = 64 * (k \div 64)
  BY <1>4
<1> DEFINE p == skip \div 64
           q == k \div 64
<1>7. p \in Nat /\ q \in Nat /\ skip = 64 * p /\ k = 64 * q
  BY <1>4, <1>6
<1> HIDE DEF p, q
<1>8. QED
  BY <1>5, <1>7

\* The case of sf_memalign in which the block found is not aligned.
LEMMA Cutting ==
  ASSUME Word \in Nat \ {0}, NEW f, Fine(f), NEW b \in Held(f),
         NEW skip \in Nat, 64 <= skip, skip % 64 = 0, skip + 63 < Word,
         NEW s, s = f.hd[b].size, skip + 64 <= s,
         NEW size, NEW req \in Nat, req = RoundUp(size), M <= req, req % M = 0,
         NEW c, c = b + skip, NEW l1, NEW l2,
         NEW k1, k1 = Split(f, b, skip - 8, l1), NEW k2, k2 = Free(RemoveBlock(k1, c), b),
         NEW g, g = Split(k2, c, size, l2)
  PROVE  /\ Fine(g) /\ g.epi = f.epi /\ g.pages = f.pages
         /\ c \notin Held(f) /\ Held(g) = (Held(f) \ {b}) \cup {c} /\ c # Null
         /\ \A x \in Held(f) \ {b} : g.hd[x].size = f.hd[x].size
         /\ s - skip <= g.hd[c].size \/ req <= g.hd[c].size
<1>1. s \in Nat /\ b \in Nat
  <2>1. Row(f.hd, f.epi) /\ b \in DOMAIN f.hd
    BY FineFacts DEF Held
  <2>2. QED
    BY <2>1, RowFacts
<1> DEFINE front == RoundUp(skip - 8)
           size1 == skip - 8
<1>2. front = skip
  BY FrontPart
<1>3. M <= front /\ front % M = 0 /\ front \in Nat /\ front = RoundUp(size1) /\ ~(s - front < M)
  BY <1>1, <1>2 DEF M
<1>4. k1 = Split(f, b, size1, l1)
  OBVIOUS
<1> HIDE DEF front, size1
<1>5. /\ Fine(k1) /\ k1.epi = f.epi /\ k1.pages = f.pages /\ Held(k1) = Held(f)
      /\ \A x \in Held(f) \ {b} : k1.hd[x].size = f.hd[x].size
      /\ b + front \in Vacant(k1) /\ s - front <= k1.hd[b + front].size
  BY <1>3, <1>4, Splitting
<1>6. c \in Vacant(k1) /\ s - skip <= k1.hd[c].size
  BY <1>2, <1>5
<1> DEFINE r == RemoveBlock(k1, c)
<1>7. Fine(r) /\ Kept(k1, r) /\ Held(r) = Held(k1) \cup {c}
  <2> HIDE DEF r
  <2>1. r = RemoveBlock(k1, c)
    BY DEF r
  <2>2. QED
    BY <1>5, <1>6, <2>1, Removing
<1>8. k2 = Free(r, b)
  OBVIOUS
<1> HIDE DEF r
<1>9. b \in Held(r)
  BY <1>5, <1>7
<1>10. Fine(k2) /\ Kept(r, k2) /\ Held(k2) = Held(r) \ {b}
  BY <1>7, <1>8, <1>9, Freeing
<1>11. c \notin Held(f) /\ c # b
  BY <1>5, <1>6 DEF Vacant, Held
<1>12. c \in Held(k2)
  BY <1>7, <1>10, <1>11
<1> DEFINE t == k2.hd[c].size
<1>13. t = k1.hd[c].size
  BY <1>7, <1>10, <1>12 DEF Kept
<1>14. /\ Fine(g) /\ g.epi = k2.epi /\ g.pages = k2.pages /\ Held(g) = Held(k2)
       /\ \A x \in Held(k2) \ {c} : g.hd[x].size = k2.hd[x].size
       /\ t - req < M => g.hd[c].size = t
       /\ ~(t - req < M) => g.hd[c].size = req
  BY <1>10, <1>12, Splitting
<1>15. Held(g) = (Held(f) \ {b}) \cup {c}
  BY <1>5, <1>7, <1>10, <1>11, <1>14
<1>16. g.epi = f.epi /\ g.pages = f.pages
  BY <1>5, <1>7, <1>10, <1>14 DEF Kept
<1>17. \A x \in Held(f) \ {b} : g.hd[x].size = f.hd[x].size
  BY <1>5, <1>7, <1>10, <1>11, <1>14 DEF Kept
<1>18. c # Null
  BY <1>1, <1>2 DEF Null
<1>19. s - skip <= g.hd[c].size \/ req <= g.hd[c].size
  BY <1>6, <1>13, <1>14
<1>20. QED
  BY <1>11, <1>14, <1>15, <1>16, <1>17, <1>18, <1>19

\* sf_memalign.
LEMMA Aligning ==
  ASSUME Word \in Nat \ {0}, NEW h, Fine(h), NEW size \in Nat, NEW align, Legal(align), align <= Word,
         NEW req, req = RoundUp(size), M <= req,
         align <= RoundUp(Attempt(size, align)), NEW r, r = Memalign(h, size, align)
  PROVE  \/ r.b = Null /\ r.h = h
         \/ /\ Gained(h, r.h, Null, r.b) /\ (r.b + 16) % align = 0
            /\ size + 8 <= r.h.hd[r.b].size \/ size + align + 2 * M >= Word
<1> DEFINE a == Attempt(size, align)
           n == RoundUp(a)
           first == Malloc(h, a)
           f == first.h
           b == first.b
           s == f.hd[b].size
           x == b + 16
           skip == (x \div align + 1) * align - x
           l1 == IsLast(f, b)
           k1 == Split(f, b, skip - 8, l1)
           c == b + skip
           k2 == Free(RemoveBlock(k1, c), b)
           l2 == IsLast(k1, c)
           g == Split(k2, c, size, l2)
           whole == Split(f, b, size, l1)
           wraps == size + align + 128 >= Word
<1>1. r = CASE b = Null -> first
            [] b # Null /\ x % align = 0 -> [h |-> whole, b |-> b]
            [] b # Null /\ x % align # 0 -> [h |-> g, b |-> c]
  BY Zenon DEF Memalign, Align, CutFront
<1>2. align \in Nat /\ 64 <= align /\ align % 64 = 0
  BY Powers
<1>3. req \in Nat /\ req % M = 0
  BY Rounded
<1>4. /\ n \in Nat /\ n % M = 0 /\ M <= n
      /\ wraps \/ (size + 8 <= req /\ size + align + 72 <= n)
  <2>1. a \in Nat
    BY <1>2 DEF Attempt, M
  <2>2. n \in Nat /\ n % M = 0
    <3> HIDE DEF a
    <3>1. QED
      BY <2>1, Rounded
  <2>3. M <= n
    <3> HIDE DEF n
    <3>1. align <= n
      BY DEF n
    <3>2. QED
      BY <1>2, <2>2, <3>1 DEF M
  <2>4. ASSUME size + align + 128 < Word PROVE size + 8 <= req /\ size + align + 72 <= n
    <3> HIDE DEF n
    <3>1. n = RoundUp(Attempt(size, align)) /\ align <= n
      BY DEF n
    <3>2. QED
      BY <1>2, <2>4, <3>1, Enough
  <2>5. wraps \/ size + align + 128 < Word
    BY <1>2
  <2>6. QED
    BY <2>2, <2>3, <2>4, <2>5
<1>5. align <= n
  OBVIOUS
<1>6. \/ b = Null /\ f = h
      \/ Gained(h, f, Null, b) /\ b \notin Held(h) /\ n <= f.hd[b].size
  <2> HIDE DEF a, first
  <2>1. n = RoundUp(a) /\ first = Malloc(h, a)
    BY DEF first
  <2> HIDE DEF n
  <2>2. \/ first.b = Null /\ first.h = h
        \/ Gained(h, first.h, Null, first.b) /\ first.b \notin Held(h) /\ n <= first.h.hd[first.b].size
    BY <1>4, <2>1, Mallocing
  <2>3. QED
    BY <2>2
<1> HIDE DEF first, n, a
<1>7. CASE b = Null
  <2>1. r = first
    BY <1>1, <1>7
  <2>2. QED
    BY <1>6, <1>7, <2>1 DEF Gained
<1>8. CASE b # Null
  <2>1. Gained(h, f, Null, b) /\ b \notin Held(h) /\ n <= s
    BY <1>6, <1>8
  <2> HIDE DEF f, b
  <2>2. Held(h) \ {Null} = Held(h)
    BY FineFacts
  <2>3. /\ Fine(f) /\ b \in Held(f) /\ f.epi = h.epi /\ f.pages = h.pages
        /\ Held(f) = Held(h) \cup {b} /\ Held(f) \ {b} = Held(h)
        /\ \A y \in Held(h) : f.hd[y].size = h.hd[y].size
    BY <2>1, <2>2 DEF Gained
  <2>4. s \in Nat /\ b \in Nat /\ x \in Nat /\ x % 64 = 0
    <3>1. Row(f.hd, f.epi) /\ b \in DOMAIN f.hd
      BY <2>3, FineFacts DEF Held
    <3>2. s \in Nat /\ b \in Nat /\ (b + 16) % M = 0
      BY <3>1, RowFacts
    <3>3. QED
      BY <3>2 DEF M
  <2> HIDE DEF s
  <2>5. CASE x % align = 0
    <3>1. r.h = whole /\ r.b = b
      BY <1>1, <1>8, <2>5
    <3> HIDE DEF whole, x
    <3>2. /\ Fine(whole) /\ whole.epi = f.epi /\ whole.pages = f.pages /\ Held(whole) = Held(f)
          /\ \A y \in Held(f) \ {b} : whole.hd[y].size = f.hd[y].size
          /\ s - req < M => whole.hd[b].size = s
          /\ ~(s - req < M) => whole.hd[b].size = req
      <4> HIDE DEF l1
      <4>1. whole = Split(f, b, size, l1) /\ s = f.hd[b].size
        BY DEF whole, s
      <4>2. QED
        BY <1>3, <2>3, <4>1, Splitting
    <3>3. Gained(h, whole, Null, b)
      BY <1>8, <2>1, <2>2, <2>3, <3>2 DEF Gained
    <3>4. (b + 16) % align = 0
      BY <2>5 DEF x
    <3>5. size + 8 <= whole.hd[b].size \/ size + align + 2 * M >= Word
      <4>1. wraps \/ (size + 8 <= req /\ size + 8 <= s)
        BY <1>2, <1>4, <2>1, <2>4
      <4>2. whole.hd[b].size = s \/ whole.hd[b].size = req
        BY <3>2
      <4>3. QED
        BY <4>1, <4>2 DEF M
    <3>6. QED
      BY <3>1, <3>3, <3>4, <3>5
  <2>6. CASE x % align # 0
    <3>1. r.h = g /\ r.b = c
      BY <1>1, <1>8, <2>6
    <3>2. skip \in Nat /\ 64 <= skip /\ skip <= align - 64 /\ skip % 64 = 0 /\ (x + skip) % align = 0
      <4> HIDE DEF x
      <4> DEFINE k == skip
      <4>1. k = (x \div align + 1) * align - x
        OBVIOUS
      <4> HIDE DEF k
      <4>2. align \in Nat /\ 64 <= align /\ align % 64 = 0 /\ x \in Nat /\ x % 64 = 0 /\ x % align # 0
        BY <1>2, <2>4, <2>6
      <4>3. k \in Nat /\ 64 <= k /\ k <= align - 64 /\ k % 64 = 0 /\ (x + k) % align = 0
        BY <4>1, <4>2, Skipped
      <4>4. QED
        BY <4>3 DEF k
    <3> HIDE DEF skip, x
    <3>3. skip + 63 < Word /\ skip + 64 <= s
      BY <1>2, <1>4, <1>5, <2>1, <2>4, <3>2
    <3> HIDE DEF k1, k2, l1, l2, g, c
    <3>4. s = f.hd[b].size /\ c = b + skip /\ k1 = Split(f, b, skip - 8, l1)
          /\ k2 = Free(RemoveBlock(k1, c), b) /\ g = Split(k2, c, size, l2)
      BY DEF s, c, k1, k2, g
    <3>5. /\ Fine(g) /\ g.epi = f.epi /\ g.pages = f.pages
          /\ c \notin Held(f) /\ Held(g) = (Held(f) \ {b}) \cup {c} /\ c # Null
          /\ \A y \in Held(f) \ {b} : g.hd[y].size = f.hd[y].size
          /\ s - skip <= g.hd[c].size \/ req <= g.hd[c].size
      BY <1>3, <2>3, <3>2, <3>3, <3>4, Cutting
    <3>6. Gained(h, g, Null, c)
      BY <2>2, <2>3, <3>5 DEF Gained
    <3>7. (c + 16) % align = 0
      <4>1. c + 16 = x + skip
        BY <2>4, <3>2, <3>4 DEF x
      <4>2. QED
        BY <3>2, <4>1
    <3>8. size + 8 <= g.hd[c].size \/ size + align + 2 * M >= Word
      <4>1. g.hd[c].size \in Nat
        <5>1. Row(g.hd, g.epi) /\ c \in DOMAIN g.hd
          BY <3>5, FineFacts DEF Held
        <5>2. QED
          BY <5>1, RowFacts
      <4>2. wraps \/ (size + 8 <= req /\ size + 8 <= s - skip)
        BY <1>2, <1>4, <2>1, <2>4, <3>2
      <4>3. QED
        BY <1>3, <2>4, <3>2, <3>5, <4>1, <4>2 DEF M
    <3>9. QED
      BY <3>1, <3>6, <3>7, <3>8
  <2>7. QED
    BY <2>5, <2>6
<1>9. QED
  BY <1>7, <1>8

-----------------------------------------------------------------------------
(***************************************************************************)
(* The specification.                                                      *)
(***************************************************************************)

\* The calls whose search goes on, and what is due to the owner of a block.
Asked(r) ==
  \/ \E s \in Sizes : r = Request("malloc", s, M, Null)
  \/ \E s \in Sizes, a \in Aligns : Legal(a) /\ r = Request("memalign", s, a, Null)
  \/ \E s \in Sizes, b \in DOMAIN live :
       RoundUp(s) > heap.hd[b].size /\ r = Request("realloc", s, M, b)

Owed(e, b, n) ==
  /\ e.size \in Sizes /\ e.align \in Aligns \cup {M} /\ Legal(e.align)
  /\ (b + 16) % e.align = 0
  /\ e.size + 8 <= n \/ e.size + e.align + 2 * M >= Word

\* Before the first call there is no heap; then it is a whole one between any
\* two steps, whose blocks in use are those handed out.
Ready == Fine(heap) /\ Paged(heap)
Unused == heap = Empty /\ live = <<>> /\ call = NoCall
SInv ==
  /\ aborted = FALSE
  /\ Unused \/ Ready
  /\ call = NoCall \/ Asked(call)
  /\ DOMAIN live = Held(heap)
  /\ \A b \in DOMAIN live : Owed(live[b], b, heap.hd[b].size)

\* What a step may do to the blocks in use: nothing, put one in use (and another
\* out of use, whose payload fits into it), shorten one, or release one.
Same ==
  Held(heap') = Held(heap) /\ \A x \in Held(heap) : heap'.hd[x].size = heap.hd[x].size
Better(h, g, old, b) ==
  old # Null => /\ b \notin Held(h) /\ h.hd[old].size <= g.hd[b].size
                /\ Beside(old, h.hd[old].size, b, g.hd[b].size)
Served ==
  \E old \in Held(heap) \cup {Null} : \E b :
    Gained(heap, heap', old, b) /\ Better(heap, heap', old, b)
Shortened ==
  \E b \in Held(heap) : Gained(heap, heap', b, b) /\ heap'.hd[b].size <= heap.hd[b].size
Released ==
  \E b \in Held(heap) :
    Held(heap') = Held(heap) \ {b} /\ \A x \in Held(heap') : heap'.hd[x].size = heap.hd[x].size
Changed == Same \/ Served \/ Shortened \/ Released

LEMMA EmptyHeap ==
  /\ Empty.hd = <<>> /\ Empty.pages = 0 /\ Empty.epi = Null /\ DOMAIN <<>> = {}
  /\ \A i \in Lists : Empty.fl[i] = <<>>
BY DEF Empty

LEMMA SInvInit == SfmmInit => SInv
<1>1. SUFFICES ASSUME SfmmInit PROVE SInv
  OBVIOUS
<1>2. heap = Empty /\ live = <<>> /\ call = NoCall /\ aborted = FALSE
  BY <1>1 DEF SfmmInit
<1>3. Held(heap) = {} /\ DOMAIN live = {}
  BY <1>2, EmptyHeap DEF Held
<1>4. QED
  BY <1>2, <1>3 DEF SInv, Unused

\* The blocks the clients own are in use; their number and sizes the code can
\* deal with.
LEMMA SizesAreRounded ==
  ASSUME NEW size \in Sizes
  PROVE  /\ Word \in Nat \ {0} /\ size \in Nat
         /\ RoundUp(size) \in Nat /\ M <= RoundUp(size) /\ RoundUp(size) % M = 0
         /\ size + 71 < Word => size + 8 <= RoundUp(size)
<1>1. Word \in Nat \ {0} /\ size \in Nat /\ RoundUp(size) > 0
  BY SfmmAssumption
<1>2. QED
  BY <1>1, Rounded

\* What sf_malloc and sf_realloc owe is what they ask for, rounded up.
LEMMA RoundedIsOwed ==
  ASSUME NEW size \in Sizes, NEW e, e = [size |-> size, align |-> M],
         NEW h, Fine(h), NEW b \in Held(h), RoundUp(size) <= h.hd[b].size
  PROVE  Owed(e, b, h.hd[b].size)
<1>1. e.size = size /\ e.align = M
  OBVIOUS
<1>2. (b + 16) % M = 0 /\ h.hd[b].size \in Nat
  <2>1. Row(h.hd, h.epi) /\ b \in DOMAIN h.hd
    BY FineFacts DEF Held
  <2>2. QED
    BY <2>1, RowFacts
<1> DEFINE n == h.hd[b].size
<1> HIDE DEF n
<1>3. size + 8 <= n \/ size + M + 2 * M >= Word
  <2>1. n \in Nat /\ RoundUp(size) <= n
    BY <1>2 DEF n
  <2>2. size + 71 < Word \/ size + M + 2 * M >= Word
    BY SizesAreRounded DEF M
  <2>3. size + 71 < Word => size + 8 <= n
    BY <2>1, SizesAreRounded
  <2>4. QED
    BY <2>2, <2>3
<1>4. Legal(M)
  <2>1. M = 2 ^ 6
    BY DEF M
  <2>2. QED
    BY <2>1 DEF Legal
<1>5. QED
  BY <1>1, <1>2, <1>3, <1>4 DEF Owed, n

\* A call that ends: nothing has changed, or a block is handed out.
LEMMA Returning ==
  ASSUME SInv, Ready, NEW r, NEW result, NEW e, e = [size |-> r.size, align |-> r.align],
         \/ result.b = Null /\ result.h = heap
         \/ /\ Gained(heap, result.h, r.old, result.b)
            /\ Owed(e, result.b, result.h.hd[result.b].size),
         Return(r, result), call' = NoCall, aborted' = aborted
  PROVE  SInv'
<1> DEFINE b == result.b
           h == result.h
           kept == Forget(live, {r.old})
<1>1. heap' = h /\ live' = IF b = Null THEN live ELSE Put(kept, b, e)
  BY DEF Return
<1>2. CASE b = Null
  <2>1. heap' = heap /\ live' = live
    BY <1>1, <1>2 DEF Gained
  <2>2. QED
    BY <2>1 DEF SInv, Ready, Unused, Asked
<1>3. CASE b # Null
  <2>1. Gained(heap, h, r.old, b) /\ Owed(e, b, h.hd[b].size) /\ live' = Put(kept, b, e)
    BY <1>1, <1>3
  <2> HIDE DEF b, h, kept
  <2>2. /\ DOMAIN kept = DOMAIN live \ {r.old}
        /\ \A x \in DOMAIN kept : kept[x] = live[x]
    BY DEF kept, Forget, Restrict
  <2>3. /\ DOMAIN live' = DOMAIN kept \cup {b} /\ live'[b] = e
        /\ \A x \in DOMAIN kept \ {b} : live'[x] = kept[x]
    BY <2>1 DEF Put
  <2>4. /\ Fine(h) /\ h.epi = heap.epi /\ h.pages = heap.pages
        /\ Held(h) = (Held(heap) \ {r.old}) \cup {b} /\ b \notin Held(heap) \ {r.old}
        /\ \A x \in Held(heap) \ {r.old} : h.hd[x].size = heap.hd[x].size
    BY <2>1 DEF Gained
  <2>5. Ready'
    BY <1>1, <2>4 DEF Ready, Paged
  <2>6. DOMAIN live' = Held(heap')
    BY <1>1, <2>2, <2>3, <2>4 DEF SInv
  <2>7. ASSUME NEW x \in DOMAIN live' PROVE Owed(live'[x], x, heap'.hd[x].size)
    <3>1. CASE x = b
      BY <1>1, <2>1, <2>3, <3>1
    <3>2. CASE x # b
      <4>1. x \in DOMAIN kept /\ x \in DOMAIN live /\ x \in Held(heap) \ {r.old}
        BY <2>2, <2>3, <3>2 DEF SInv
      <4>2. live'[x] = live[x] /\ heap'.hd[x].size = heap.hd[x].size
        BY <1>1, <2>2, <2>3, <2>4, <3>2, <4>1
      <4>3. Owed(live[x], x, heap.hd[x].size)
        BY <4>1 DEF SInv
      <4>4. QED
        BY <4>2, <4>3
    <3>3. QED
      BY <3>1, <3>2
  <2>8. aborted' = FALSE
    BY DEF SInv
  <2> HIDE DEF Ready
  <2>9. QED
    BY <2>5, <2>6, <2>7, <2>8 DEF SInv
<1>4. QED
  BY <1>2, <1>3

\* The search of sf_malloc for call r: growth, or the end of the call.
LEMMA SearchKeeps ==
  ASSUME SInv, NEW r, Asked(r), Search(r)
  PROVE  SInv' /\ Changed
<1> DEFINE size == IF r.op = "memalign" THEN Attempt(r.size, r.align) ELSE r.size
           grows == \/ heap.pages = 0
                    \/ size > 0 /\ ListsThatFit(heap, size) = {} /\ heap.pages < MaxPages
           ends == CASE r.op = "malloc" -> Malloc(heap, r.size)
                     [] r.op = "realloc" -> Move(heap, r.old, r.size)
                     [] r.op = "memalign" -> Memalign(heap, r.size, r.align)
<1>1. /\ IF grows THEN heap' = NewPage(heap) /\ call' = r /\ UNCHANGED live
         ELSE call' = NoCall /\ Return(r, ends)
      /\ aborted' = aborted
  BY DEF Search
<1> HIDE DEF size, ends
<1>2. heap = Empty => grows
  BY EmptyHeap
<1>3. CASE grows
  <2> HIDE DEF grows
  <2>1. heap' = NewPage(heap) /\ call' = r /\ live' = live /\ aborted' = FALSE
    BY <1>1, <1>3 DEF SInv
  <2>2. Fine(heap') /\ Paged(heap') /\ Same
    <3>1. CASE Unused
      <4>1. Fine(heap') /\ Paged(heap') /\ Held(heap') = {}
        BY <2>1, <3>1, Beginning DEF Unused
      <4>2. Held(heap) = {}
        BY <3>1, EmptyHeap DEF Unused, Held
      <4>3. QED
        BY <4>1, <4>2 DEF Same
    <3>2. CASE Ready
      BY <2>1, <3>2, Growing DEF Ready, Same
    <3>3. QED
      BY <3>1, <3>2 DEF SInv
  <2>3. \A b \in DOMAIN live : heap'.hd[b].size = heap.hd[b].size
    BY <2>2 DEF Same, SInv
  <2>4. Asked(call)'
    BY <2>1, <2>3 DEF Asked
  <2>5. QED
    BY <2>1, <2>2, <2>3, <2>4 DEF SInv, Ready, Same, Changed
<1>4. CASE ~grows
  <2>1. Ready
    BY <1>2, <1>4 DEF SInv, Unused
  <2> HIDE DEF grows
  <2>2. call' = NoCall /\ Return(r, ends) /\ aborted' = aborted
    BY <1>1, <1>4 DEF grows
  <2>3. Fine(heap)
    BY <2>1 DEF Ready
  <2> DEFINE e == [size |-> r.size, align |-> r.align]
  <2>4. SUFFICES \/ ends.b = Null /\ ends.h = heap
                 \/ /\ Gained(heap, ends.h, r.old, ends.b)
                    /\ Owed(e, ends.b, ends.h.hd[ends.b].size)
                    /\ Better(heap, ends.h, r.old, ends.b)
    <3>1. SInv'
      BY <2>1, <2>2, <2>4, Returning
    <3>2. heap' = ends.h
      BY <2>2 DEF Return
    <3>3. r.old \in Held(heap) \cup {Null}
      BY DEF Asked, SInv, Request
    <3>4. Same \/ Served
      BY <2>4, <3>2, <3>3 DEF Same, Served
    <3>5. QED
      BY <3>1, <3>4 DEF Changed
  <2>5. CASE \E s \in Sizes : r = Request("malloc", s, M, Null)
    <3>1. PICK s \in Sizes : r = Request("malloc", s, M, Null)
      BY <2>5
    <3>2. r.op = "malloc" /\ r.size = s /\ r.align = M /\ r.old = Null
      BY <3>1 DEF Request
    <3>3. ends = Malloc(heap, s) /\ e = [size |-> s, align |-> M]
      BY <3>2 DEF ends
    <3> HIDE DEF e
    <3>4. \/ ends.b = Null /\ ends.h = heap
          \/ Gained(heap, ends.h, Null, ends.b) /\ RoundUp(s) <= ends.h.hd[ends.b].size
      BY <2>3, <3>3, SizesAreRounded, Mallocing
    <3>5. ASSUME Gained(heap, ends.h, Null, ends.b), RoundUp(s) <= ends.h.hd[ends.b].size
          PROVE  Owed(e, ends.b, ends.h.hd[ends.b].size)
      BY <3>3, <3>5, RoundedIsOwed DEF Gained
    <3>6. QED
      BY <3>2, <3>4, <3>5 DEF Better
  <2>6. CASE \E s \in Sizes, b \in DOMAIN live :
               RoundUp(s) > heap.hd[b].size /\ r = Request("realloc", s, M, b)
    <3>1. PICK s \in Sizes, b \in DOMAIN live :
                 RoundUp(s) > heap.hd[b].size /\ r = Request("realloc", s, M, b)
      BY <2>6
    <3>2. r.op = "realloc" /\ r.size = s /\ r.align = M /\ r.old = b
      BY <3>1 DEF Request
    <3>3. ends = Move(heap, b, s) /\ e = [size |-> s, align |-> M] /\ b \in Held(heap)
      BY <3>2 DEF ends, SInv
    <3> HIDE DEF e
    <3>4. \/ ends.b = Null /\ ends.h = heap
          \/ /\ Gained(heap, ends.h, b, ends.b) /\ RoundUp(s) <= ends.h.hd[ends.b].size
             /\ ends.b \notin Held(heap)
             /\ Beside(b, heap.hd[b].size, ends.b, ends.h.hd[ends.b].size)
      BY <2>3, <3>3, SizesAreRounded, Moving
    <3>5. ASSUME Gained(heap, ends.h, b, ends.b), RoundUp(s) <= ends.h.hd[ends.b].size
          PROVE  Owed(e, ends.b, ends.h.hd[ends.b].size)
      BY <3>3, <3>5, RoundedIsOwed DEF Gained
    <3>6. ASSUME Gained(heap, ends.h, b, ends.b), RoundUp(s) <= ends.h.hd[ends.b].size
          PROVE  heap.hd[b].size <= ends.h.hd[ends.b].size
      <4>1. /\ Row(heap.hd, heap.epi) /\ b \in DOMAIN heap.hd
            /\ Row(ends.h.hd, ends.h.epi) /\ ends.b \in DOMAIN ends.h.hd
        BY <2>3, <3>3, <3>6, FineFacts DEF Gained, Held
      <4>2. heap.hd[b].size \in Nat /\ ends.h.hd[ends.b].size \in Nat
        BY <4>1, RowFacts
      <4>3. QED
        BY <3>1, <3>6, <4>2, SizesAreRounded
    <3>7. QED
      BY <3>2, <3>4, <3>5, <3>6 DEF Better
  <2>7. CASE \E s \in Sizes, a \in Aligns : Legal(a) /\ r = Request("memalign", s, a, Null)
    <3>1. PICK s \in Sizes, a \in Aligns : Legal(a) /\ r = Request("memalign", s, a, Null)
      BY <2>7
    <3>2. r.op = "memalign" /\ r.size = s /\ r.align = a /\ r.old = Null
      BY <3>1 DEF Request
    <3>3. ends = Memalign(heap, s, a) /\ e.size = s /\ e.align = a
      BY <3>2 DEF ends
    <3> HIDE DEF e
    <3>4. Legal(a) /\ a \in Nat /\ a <= Word /\ a <= RoundUp(Attempt(s, a)) /\ s \in Nat
      <4>1. a \in Nat
        BY <3>1, Powers
      <4>2. a <= Word /\ RoundUp(Attempt(s, a)) >= a /\ Legal(a)
        BY <3>1, SfmmAssumption
      <4>3. RoundUp(Attempt(s, a)) \in Nat
        <5> DEFINE n == Attempt(s, a)
        <5>1. n \in Nat
          BY <4>1, SizesAreRounded DEF Attempt, M
        <5> HIDE DEF n
        <5>2. RoundUp(n) \in Nat
          BY <5>1, SizesAreRounded, Rounded
        <5>3. QED
          BY <5>2 DEF n
      <4>4. QED
        BY <4>1, <4>2, <4>3, SizesAreRounded
    <3>5. \/ ends.b = Null /\ ends.h = heap
          \/ /\ Gained(heap, ends.h, Null, ends.b) /\ (ends.b + 16) % a = 0
             /\ s + 8 <= ends.h.hd[ends.b].size \/ s + a + 2 * M >= Word
      BY <2>3, <3>3, <3>4, SizesAreRounded, Aligning
    <3>6. QED
      BY <3>1, <3>2, <3>3, <3>4, <3>5 DEF Owed, Better
  <2>8. QED
    BY <2>5, <2>6, <2>7 DEF Asked
<1>5. QED
  BY <1>3, <1>4

\* sf_free of a block a client owns.
LEMMA FreeKeeps ==
  ASSUME SInv, call = NoCall, NEW b \in DOMAIN live, sf_free(b)
  PROVE  SInv' /\ Changed
<1>1. Ready /\ b \in Held(heap)
  BY EmptyHeap DEF SInv, Unused
<1>2. /\ heap' = Free(heap, b) /\ live' = Forget(live, {b})
      /\ aborted' = aborted /\ call' = NoCall
  <2>1. Valid(heap, b)
    BY <1>1, HeldIsValid DEF Ready
  <2>2. QED
    BY <2>1 DEF sf_free
<1>3. Fine(heap') /\ Kept(heap, heap') /\ Held(heap') = Held(heap) \ {b}
  BY <1>1, <1>2, Freeing DEF Ready
<1>4. Ready'
  BY <1>1, <1>3 DEF Ready, Paged, Kept
<1>5. DOMAIN live' = DOMAIN live \ {b} /\ \A x \in DOMAIN live' : live'[x] = live[x]
  BY <1>2 DEF Forget, Restrict
<1>6. DOMAIN live' = Held(heap')
  BY <1>3, <1>5 DEF SInv
<1>7. ASSUME NEW x \in DOMAIN live' PROVE Owed(live'[x], x, heap'.hd[x].size)
  <2>1. x \in DOMAIN live /\ live'[x] = live[x] /\ heap'.hd[x].size = heap.hd[x].size
    BY <1>3, <1>5, <1>6 DEF Kept
  <2>2. QED
    BY <2>1 DEF SInv
<1>8. Changed
  BY <1>1, <1>3 DEF Changed, Released, Kept
<1> HIDE DEF Ready
<1>9. QED
  BY <1>2, <1>4, <1>6, <1>7, <1>8 DEF SInv

\* sf_realloc.
LEMMA ReallocKeeps ==
  ASSUME SInv, NEW b \in DOMAIN live, NEW s \in Sizes, sf_realloc(b, s)
  PROVE  SInv' /\ Changed
<1> DEFINE r == Request("realloc", s, M, b)
           isLast == IsLast(heap, b)
           g == Split(heap, b, s, isLast)
           result == [h |-> g, b |-> b]
<1>1. Ready /\ b \in Held(heap) /\ b # Null /\ Fine(heap)
  <2>1. Ready /\ b \in Held(heap)
    BY EmptyHeap DEF SInv, Unused
  <2>2. QED
    BY <2>1, FineFacts DEF Ready
<1>2. CASE s = 0
  BY <1>2, FreeKeeps DEF sf_realloc
<1>3. CASE s # 0 /\ RoundUp(s) > heap.hd[b].size
  <2>1. Search(r)
    BY <1>3 DEF sf_realloc
  <2>2. Asked(r)
    BY <1>3 DEF Asked
  <2>3. QED
    BY <2>1, <2>2, SearchKeeps
<1>4. CASE s # 0 /\ ~(RoundUp(s) > heap.hd[b].size)
  <2>1. Return(r, result) /\ call' = NoCall /\ aborted' = aborted
    BY <1>4 DEF sf_realloc
  <2>2. r.size = s /\ r.align = M /\ r.old = b /\ result.h = g /\ result.b = b
    BY DEF Request
  <2> DEFINE e == [size |-> r.size, align |-> r.align]
             n == heap.hd[b].size
             req == RoundUp(s)
  <2>3. n \in Nat /\ req <= n /\ req \in Nat
    <3>1. Row(heap.hd, heap.epi) /\ b \in DOMAIN heap.hd
      BY <1>1, FineFacts DEF Held
    <3>2. heap.hd[b].size \in Nat
      BY <3>1, RowFacts
    <3>3. QED
      BY <1>4, <3>2, SizesAreRounded
  <2> HIDE DEF r, result, isLast, n
  <2>4. /\ Fine(g) /\ g.epi = heap.epi /\ g.pages = heap.pages /\ Held(g) = Held(heap)
        /\ \A x \in Held(heap) \ {b} : g.hd[x].size = heap.hd[x].size
        /\ g.hd[b].size = n \/ g.hd[b].size = req
    <3> HIDE DEF g, req
    <3>1. /\ req \in Nat /\ req = RoundUp(s) /\ M <= req /\ req % M = 0
          /\ g = Split(heap, b, s, isLast) /\ n = heap.hd[b].size
      BY SizesAreRounded DEF g, req, n
    <3>2. QED
      BY <1>1, <3>1, Splitting
  <2> HIDE DEF g
  <2>5. Gained(heap, g, b, b)
    BY <1>1, <2>4 DEF Gained
  <2>6. req <= g.hd[b].size
    <3> HIDE DEF req
    <3>1. QED
      BY <2>3, <2>4
  <2>7. Owed(e, b, g.hd[b].size)
    <3>1. e = [size |-> s, align |-> M]
      BY <2>2
    <3> HIDE DEF e
    <3>2. b \in Held(g)
      BY <1>1, <2>4
    <3>3. QED
      BY <2>4, <2>6, <3>1, <3>2, RoundedIsOwed
  <2>8. /\ Gained(heap, result.h, r.old, result.b)
        /\ Owed(e, result.b, result.h.hd[result.b].size)
    BY <2>2, <2>5, <2>7
  <2>9. SInv'
    BY <1>1, <2>1, <2>8, Returning
  <2>10. heap' = g /\ g.hd[b].size <= n
    <3> HIDE DEF req
    <3>1. QED
      BY <2>1, <2>2, <2>3, <2>4 DEF Return
  <2>11. Shortened
    BY <1>1, <2>5, <2>10 DEF Shortened, n
  <2>12. QED
    BY <2>9, <2>11 DEF Changed
<1>5. QED
  BY <1>2, <1>3, <1>4

LEMMA SInvNext == SInv /\ [SfmmNext]_sfmmVars => SInv' /\ Changed
<1>1. SUFFICES ASSUME SInv, [SfmmNext]_sfmmVars PROVE SInv' /\ Changed
  OBVIOUS
<1>2. ASSUME UNCHANGED sfmmVars PROVE SInv' /\ Changed
  BY <1>1, <1>2 DEF SInv, Unused, Ready, Asked, sfmmVars, Changed, Same
<1>3. ASSUME NEW s \in Sizes, sf_malloc(s) PROVE SInv' /\ Changed
  <2>1. Search(Request("malloc", s, M, Null))
    BY <1>3 DEF sf_malloc
  <2>2. Asked(Request("malloc", s, M, Null))
    BY DEF Asked
  <2>3. QED
    BY <1>1, <2>1, <2>2, SearchKeeps
<1>4. ASSUME NEW s \in Sizes, NEW a \in Aligns, sf_memalign(s, a) PROVE SInv' /\ Changed
  <2>1. CASE s = 0 \/ ~Legal(a)
    BY <1>2, <1>4, <2>1 DEF sf_memalign
  <2>2. CASE ~(s = 0 \/ ~Legal(a))
    <3>1. Search(Request("memalign", s, a, Null))
      BY <1>4, <2>2 DEF sf_memalign
    <3>2. Asked(Request("memalign", s, a, Null))
      BY <2>2 DEF Asked
    <3>3. QED
      BY <1>1, <3>1, <3>2, SearchKeeps
  <2>3. QED
    BY <2>1, <2>2
<1>5. ASSUME NEW b \in DOMAIN live, sf_free(b) PROVE SInv' /\ Changed
  BY <1>1, <1>5, FreeKeeps DEF sf_free
<1>6. ASSUME NEW b \in DOMAIN live, NEW s \in Sizes, sf_realloc(b, s) PROVE SInv' /\ Changed
  BY <1>1, <1>6, ReallocKeeps
<1>7. ASSUME SearchAgain PROVE SInv' /\ Changed
  BY <1>1, <1>7, SearchKeeps DEF SearchAgain, SInv
<1>8. QED
  BY <1>1, <1>2, <1>3, <1>4, <1>5, <1>6, <1>7 DEF SfmmNext

LEMMA SInvHolds == SfmmSpec => []SInv
BY SInvInit, SInvNext, PTL DEF SfmmSpec

\* Blocks and free blocks, as the properties call them.
LEMMA HeldBlocks == Blocks \ Freed = Held(heap) /\ Freed = Vacant(heap)
BY DEF Blocks, Freed, Held, Vacant

\* The boundary tags describe one row of blocks: whatever sizes are asked for
\* and however many pages there are, add_block, coalesce, split_block and
\* new_page leave headers, footers and bits that agree.
THEOREM TagsAgree == SfmmSpec => []HeapIsTiled
<1>1. SInv => HeapIsTiled
  <2>1. SUFFICES ASSUME SInv, heap.pages > 0
                 PROVE  /\ {First, heap.epi} \subseteq DOMAIN heap.hd
                        /\ \A b \in Blocks :
                             LET after == After(heap, b)
                             IN /\ First <= b /\ after \in DOMAIN heap.hd
                                /\ \A x \in DOMAIN heap.hd : x <= b \/ after <= x
                                /\ heap.hd[after].prev = heap.hd[b].alloc
                                /\ ~heap.hd[b].alloc =>
                                     heap.hd[after].alloc /\ heap.ft[after] = heap.hd[b]
                        /\ \A x \in DOMAIN heap.hd :
                             x = First \/ \E b \in Blocks : After(heap, b) = x
    BY DEF HeapIsTiled
  <2>2. Fine(heap)
    BY <2>1, EmptyHeap DEF SInv, Unused, Ready
  <2>3. /\ Row(heap.hd, heap.epi) /\ Footed(heap, {})
        /\ \A x \in Vacant(heap) : heap.hd[End(heap.hd, x)].alloc
    BY <2>2, FineFacts
  <2>4. ASSUME NEW b \in Blocks, NEW after, after = After(heap, b)
        PROVE  /\ First <= b /\ after \in DOMAIN heap.hd
               /\ \A x \in DOMAIN heap.hd : x <= b \/ after <= x
               /\ heap.hd[after].prev = heap.hd[b].alloc
               /\ ~heap.hd[b].alloc => heap.hd[after].alloc /\ heap.ft[after] = heap.hd[b]
    <3>1. b \in DOMAIN heap.hd \ {heap.epi} /\ after = End(heap.hd, b)
      BY <2>4 DEF Blocks, After, End
    <3>2. /\ First <= b /\ after \in DOMAIN heap.hd
          /\ \A x \in DOMAIN heap.hd : x <= b \/ after <= x
          /\ heap.hd[after].prev <=> heap.hd[b].alloc
      BY <2>3, <3>1 DEF Row
    <3>3. heap.hd[after].prev \in BOOLEAN /\ heap.hd[b].alloc \in BOOLEAN
      BY <2>3, <3>1, <3>2, RowFacts
    <3>4. heap.hd[after].prev = heap.hd[b].alloc
      BY <3>2, <3>3
    <3>5. ASSUME ~heap.hd[b].alloc PROVE heap.hd[after].alloc /\ heap.ft[after] = heap.hd[b]
      <4>1. b \in Vacant(heap)
        BY <3>1, <3>5 DEF Vacant
      <4>2. QED
        BY <2>3, <3>1, <4>1 DEF Footed
    <3>6. QED
      BY <3>2, <3>4, <3>5
  <2>5. ASSUME NEW x \in DOMAIN heap.hd, x # First PROVE \E b \in Blocks : After(heap, b) = x
    <3>1. PICK b \in DOMAIN heap.hd \ {heap.epi} : End(heap.hd, b) = x
      BY <2>3, <2>5 DEF Row
    <3>2. QED
      BY <3>1 DEF Blocks, After, End
  <2>6. {First, heap.epi} \subseteq DOMAIN heap.hd
    BY <2>3 DEF Row
  <2>7. QED
    BY <2>4, <2>5, <2>6
<1>2. QED
  BY <1>1, SInvHolds, PTL

\* The free blocks are those in the lists, each in one place: remove_block,
\* which follows the links of a block, never meets one that is not listed.
THEOREM ListsAreFreeBlocks == SfmmSpec => []FreeBlocksAreListed
<1>1. SInv => FreeBlocksAreListed
  <2>1. SUFFICES ASSUME SInv
                 PROVE  /\ UNION {Range(heap.fl[i]) : i \in Lists} = Freed
                        /\ \A i, j \in Lists : \A k \in DOMAIN heap.fl[i], l \in DOMAIN heap.fl[j] :
                             heap.fl[i][k] = heap.fl[j][l] => <<i, k>> = <<j, l>>
    BY DEF FreeBlocksAreListed
  <2>2. CASE Unused
    <3>1. /\ DOMAIN heap.hd = {} /\ \A i \in Lists : heap.fl[i] = <<>>
          /\ DOMAIN <<>> = {}
      BY <2>2, EmptyHeap DEF Unused
    <3>2. Freed = {}
      BY <3>1 DEF Freed, Blocks
    <3>3. \A i \in Lists : DOMAIN heap.fl[i] = {}
      BY <3>1
    <3>4. UNION {Range(heap.fl[i]) : i \in Lists} = {}
      BY <3>3 DEF Range
    <3>5. QED
      BY <3>2, <3>3, <3>4
  <2>3. CASE Ready
    <3>1. Chains(heap.fl) /\ \A y : In(heap.fl, y) <=> y \in Vacant(heap)
      BY <2>3, FineFacts DEF Ready, Listed
    <3>2. \A y : y \in UNION {Range(heap.fl[i]) : i \in Lists} <=> In(heap.fl, y)
      BY DEF Range, In
    <3>3. UNION {Range(heap.fl[i]) : i \in Lists} = Freed
      BY <3>1, <3>2, HeldBlocks
    <3>4. QED
      BY <3>1, <3>3 DEF Chains
  <2>4. QED
    BY <2>1, <2>2, <2>3 DEF SInv
<1>2. QED
  BY <1>1, SInvHolds, PTL

\* Where no size wraps, what a client owns stays in use, aligned and large
\* enough, until it is freed or moved: no call hands a block out twice or
\* shrinks another's.
THEOREM ClientsKeepPayloads ==
  ASSUME NoSizeWraps
  PROVE  SfmmSpec => []PayloadsAreKept
<1>1. SInv => PayloadsAreKept
  <2>1. SUFFICES ASSUME SInv, NEW b \in DOMAIN live
                 PROVE  (b + 16) % live[b].align = 0 /\ live[b].size + 8 <= heap.hd[b].size
    BY HeldBlocks DEF SInv, PayloadsAreKept
  <2>2. Owed(live[b], b, heap.hd[b].size)
    BY <2>1 DEF SInv
  <2>3. ~(live[b].size + live[b].align + 2 * M >= Word)
    <3> DEFINE size == live[b].size
               align == live[b].align
    <3>1. size \in Sizes /\ align \in Aligns \cup {M} /\ Legal(align)
      BY <2>2 DEF Owed
    <3>2. size + align + 2 * M < Word
      BY <3>1 DEF NoSizeWraps
    <3>3. size \in Int /\ align \in Int /\ Word \in Int
      BY <3>1, SfmmAssumption, Powers
    <3>4. QED
      BY <3>2, <3>3 DEF M
  <2>4. QED
    BY <2>2, <2>3 DEF Owed
<1>2. QED
  BY <1>1, SInvHolds, PTL

\* sf_free never aborts on a pointer that its caller owns.
THEOREM FreeNeverAborts == SfmmSpec => []ValidIsFreed
<1>1. SInv => ValidIsFreed
  BY DEF SInv, ValidIsFreed
<1>2. QED
  BY <1>1, SInvHolds, PTL

\* What Changed says of the blocks is what Allocator allows for the payloads.
PayloadIsOfBlocks ==
  /\ DOMAIN Payload = Held(heap)
  /\ \A b \in Held(heap) :
       Payload[b] = heap.hd[b].size - 8 /\ heap.hd[b].size \in Nat /\ b \in Nat

LEMMA PayloadOf == SInv => PayloadIsOfBlocks
<1>1. SUFFICES ASSUME SInv
               PROVE  \A b \in Held(heap) : heap.hd[b].size \in Nat /\ b \in Nat
  BY DEF Payload, PayloadIsOfBlocks, SInv
<1>2. CASE Unused
  BY <1>2, EmptyHeap DEF Unused, Held
<1>3. CASE Ready
  <2>1. Row(heap.hd, heap.epi) /\ Held(heap) \subseteq DOMAIN heap.hd
    BY <1>3, FineFacts DEF Ready, Held
  <2>2. QED
    BY <2>1, RowFacts
<1>4. QED
  BY <1>1, <1>2, <1>3 DEF SInv

LEMMA PayloadsAreApart == SInv => Promise!Apart
<1>1. SUFFICES ASSUME SInv, NEW b \in Held(heap), NEW c \in Held(heap), b # c
               PROVE  Promise!Clear(b, Payload[b], c, Payload[c])
  BY PayloadOf DEF PayloadIsOfBlocks, Promise!Apart, Promise!Places
<1>2. Fine(heap)
  BY <1>1, EmptyHeap DEF SInv, Unused, Ready, Held
<1>3. Beside(b, heap.hd[b].size, c, heap.hd[c].size)
  BY <1>1, <1>2, BlocksAreBeside
<1>4. /\ b \in Nat /\ c \in Nat
      /\ Payload[b] = heap.hd[b].size - 8 /\ heap.hd[b].size \in Nat
      /\ Payload[c] = heap.hd[c].size - 8 /\ heap.hd[c].size \in Nat
  BY <1>1, PayloadOf DEF PayloadIsOfBlocks
<1>5. QED
  BY <1>3, <1>4 DEF Beside, Promise!Clear

LEMMA ChangedIsPromised ==
  ASSUME SInv, SInv', Changed
  PROVE  Promise!Next \/ UNCHANGED Payload
<1> DEFINE P == DOMAIN Payload
           Q == DOMAIN Payload'
<1>1. /\ P = Held(heap)
      /\ \A b \in P : Payload[b] = heap.hd[b].size - 8 /\ heap.hd[b].size \in Nat /\ b \in Nat
  BY PayloadOf DEF PayloadIsOfBlocks
<1>2. /\ Q = Held(heap')
      /\ \A b \in Q : Payload'[b] = heap'.hd[b].size - 8 /\ heap'.hd[b].size \in Nat /\ b \in Nat
  <2>1. PayloadIsOfBlocks'
    BY PayloadOf, PTL
  <2>2. QED
    BY <2>1 DEF PayloadIsOfBlocks
<1>3. Promise!Apart'
  BY PayloadsAreApart, PTL
<1>4. \A S : S \subseteq P \cap Q /\ (\A x \in S : heap'.hd[x].size = heap.hd[x].size)
        => Promise!Untouched(S)
  BY <1>1, <1>2 DEF Promise!Untouched
<1>5. CASE Same
  <2>1. P = Q /\ \A x \in P : Payload'[x] = Payload[x]
    BY <1>1, <1>2, <1>5 DEF Same
  <2>2. Payload' = Payload
    BY <2>1 DEF Payload
  <2>3. QED
    BY <2>2
<1>6. CASE Served
  <2>1. PICK old \in Held(heap) \cup {Null} : \E b :
               Gained(heap, heap', old, b) /\ Better(heap, heap', old, b)
    BY <1>6 DEF Served
  <2>2. PICK b : Gained(heap, heap', old, b) /\ Better(heap, heap', old, b)
    BY <2>1
  <2>3. Q = (P \ {old}) \cup {b} /\ b \notin P \ {old} /\ Promise!Untouched(P \ {old})
    <3>1. Q = (P \ {old}) \cup {b} /\ b \notin P \ {old}
      BY <1>1, <1>2, <2>2 DEF Gained
    <3>2. \A x \in P \ {old} : heap'.hd[x].size = heap.hd[x].size
      BY <1>1, <2>2 DEF Gained
    <3>3. QED
      BY <1>4, <3>1, <3>2
  <2>4. CASE old = Null
    <3>1. Null \notin P
      <4>1. CASE Unused
        BY <1>1, <4>1, EmptyHeap DEF Unused, Held
      <4>2. CASE Ready
        BY <1>1, <4>2, FineFacts DEF Ready
      <4>3. QED
        BY <4>1, <4>2 DEF SInv
    <3>2. b \in Q \ P /\ Q = P \cup {b} /\ Promise!Untouched(P)
      BY <2>3, <2>4, <3>1
    <3>3. Promise!Allocate
      BY <3>2 DEF Promise!Allocate, Promise!Places
    <3>4. QED
      BY <1>3, <3>3 DEF Promise!Next
  <2>5. CASE old # Null
    <3>1. /\ b \notin P /\ heap.hd[old].size <= heap'.hd[b].size
          /\ Beside(old, heap.hd[old].size, b, heap'.hd[b].size)
      BY <1>1, <2>2, <2>5 DEF Better
    <3>2. old \in P /\ b \in Q \ P
      BY <1>1, <2>1, <2>3, <2>5, <3>1
    <3>3. Payload[old] <= Payload'[b] /\ Promise!Clear(old, Payload[old], b, Payload'[b])
      BY <1>1, <1>2, <3>1, <3>2 DEF Beside, Promise!Clear
    <3>4. Promise!Move
      BY <2>3, <3>2, <3>3 DEF Promise!Move, Promise!Places
    <3>5. QED
      BY <1>3, <3>4 DEF Promise!Next
  <2>6. QED
    BY <2>4, <2>5
<1>7. CASE Shortened
  <2>1. PICK b \in Held(heap) : Gained(heap, heap', b, b) /\ heap'.hd[b].size <= heap.hd[b].size
    BY <1>7 DEF Shortened
  <2>2. b \in P /\ Q = P /\ Payload'[b] <= Payload[b]
    BY <1>1, <1>2, <2>1 DEF Gained
  <2>3. \A x \in P \ {b} : heap'.hd[x].size = heap.hd[x].size
    BY <1>1, <2>1 DEF Gained
  <2>4. Promise!Untouched(P \ {b})
    BY <1>4, <2>2, <2>3
  <2>5. Promise!Shorten
    BY <2>2, <2>4 DEF Promise!Shorten, Promise!Places
  <2>6. QED
    BY <1>3, <2>5 DEF Promise!Next
<1>8. CASE Released
  <2>1. PICK b \in Held(heap) : /\ Held(heap') = Held(heap) \ {b}
                                /\ \A x \in Held(heap') : heap'.hd[x].size = heap.hd[x].size
    BY <1>8 DEF Released
  <2>2. b \in P /\ Q = P \ {b} /\ \A x \in Q : heap'.hd[x].size = heap.hd[x].size
    BY <1>1, <1>2, <2>1
  <2>3. Promise!Untouched(Q)
    BY <1>4, <2>2
  <2>4. Promise!Release
    BY <2>2, <2>3 DEF Promise!Release, Promise!Places
  <2>5. QED
    BY <1>3, <2>4 DEF Promise!Next
<1>9. QED
  BY <1>5, <1>6, <1>7, <1>8 DEF Changed

\* The allocator implements Allocator: whatever was asked before, a call changes
\* no payload but its own, payloads do not overlap, and what sf_realloc copies
\* fits into the new payload and lies beside it.
THEOREM PromiseIsKept == SfmmSpec => ImplementsAllocator
<1>1. SfmmInit => Promise!Init
  <2>1. SUFFICES ASSUME SfmmInit PROVE DOMAIN Payload = {}
    BY DEF Promise!Init, Promise!Places
  <2>2. live = <<>>
    BY <2>1 DEF SfmmInit
  <2>3. QED
    BY <2>2, EmptyHeap DEF Payload
<1>2. SInv /\ SInv' /\ [SfmmNext]_sfmmVars => [Promise!Next]_Payload
  BY SInvNext, ChangedIsPromised
<1>3. QED
  BY <1>1, <1>2, SInvHolds, PTL DEF SfmmSpec, ImplementsAllocator, Promise!Spec
=============================================================================
