-------------------------------- MODULE Sfmm --------------------------------
(***************************************************************************)
(* The segregated-list memory allocator of hw3 (src/sfmm.c): boundary      *)
(* tags, ten free lists, splitting, coalescing and growth by pages.        *)
(*                                                                         *)
(* One action is one call of the library, from a client that passes only   *)
(* pointers it owns; only the search of sf_malloc, which begins again after*)
(* the heap has grown, takes a step per page.  Addresses and sizes are     *)
(* those of the code, in bytes from the start of the heap; a block is named*)
(* by the address of its sf_block, so that its payload starts 16 bytes     *)
(* further on.  `heap' holds the words the allocator reads: hd[b] is the   *)
(* header of block b, ft[b] the prev_footer in front of it.  Words that    *)
(* belong to no block any more are forgotten; to read one of them is an    *)
(* error of TLC's, since hd and ft are not defined there.                  *)
(***************************************************************************)
EXTENDS Integers, FiniteSets, SequencesExt

CONSTANTS
  Sizes,     \* the payload sizes clients ask for
  Aligns,    \* the alignments they ask for
  MaxPages,  \* how often sf_mem_grow succeeds
  MaxLive,   \* bound: allocations alive at a time
  Word       \* size_t counts modulo Word (2^64 in the build)

VARIABLES
  heap,      \* the words and the free lists
  live,      \* block -> what its owner asked for, for the blocks handed out
  call,      \* the call whose search has made the heap grow
  aborted    \* sf_free has called abort()

sfmmVars == <<heap, live, call, aborted>>

M == 64                   \* alignment and least size of a block
PageSize == 4096
Block == 32               \* sizeof(sf_block), the step of pointer arithmetic
First == 48 + M           \* the block after the prologue
Wild == 9                 \* the list of the wilderness block
Lists == 0 .. 9
Null == 0

RoundUp(size) == (((size + 8 + M - 1) % Word) \div M) * M

\* checkSize: the list for a size, classes 1, 2, 3, 5, 8, ... times M.
SizeClass(size) ==
  Cardinality({i \in 1 .. 8 : size > <<1, 2, 3, 5, 8, 13, 21, 34>>[i] * M})

\* A power of two; the integers of TLC end before 2^31.
Legal(align) == \E n \in 6 .. 30 : align = 2 ^ n

\* What sf_memalign asks of sf_malloc.
Attempt(size, align) == (size + align + M) % Word

\* No size is so near to Word that it is rounded up to 0, nor, with an
\* alignment, that less than the alignment is asked of sf_malloc: at such a
\* request the code itself goes astray (sfmm.c:101, 313).
ASSUME SfmmAssumption ==
  /\ MaxPages \in Nat \ {0} /\ Word \in Nat \ {0}
  /\ \A size \in Sizes : size \in 0 .. Word - 1 /\ RoundUp(size) > 0
  /\ \A size \in Sizes, align \in Aligns :
       Legal(align) => align <= Word /\ RoundUp(Attempt(size, align)) >= align

Tag(size, alloc, prev) == [size |-> size, alloc |-> alloc, prev |-> prev]
After(h, b) == b + h.hd[b].size

-----------------------------------------------------------------------------
(* Blocks and lists                                                        *)

Unlist(fl, b) ==
  LET i == CHOOSE i \in Lists : Contains(fl[i], b)
      k == CHOOSE k \in DOMAIN fl[i] : fl[i][k] = b
  IN [fl EXCEPT ![i] = RemoveAt(@, k)]

Forget(f, places) == Restrict(f, DOMAIN f \ places)
Put(f, x, e) == [y \in DOMAIN f \cup {x} |-> IF y = x THEN e ELSE f[y]]

\* The headers with the bits of b and of the block after it set.
Mark(hd, b, alloc, after, prev) ==
  [x \in DOMAIN hd |->
     LET tag == hd[x]
     IN Tag(tag.size, IF x = b THEN alloc ELSE tag.alloc, IF x = after THEN prev ELSE tag.prev)]

\* Mutant: the block after it goes on believing that it is free.
RemoveBlockSilently(h, b) ==
  [h EXCEPT !.hd = Mark(@, b, TRUE, Null, TRUE),
            !.ft = Forget(@, {After(h, b)}), !.fl = Unlist(@, b)]

\* The block must be in a list: its links are followed.  Its footer, in front
\* of the block after it, is part of the payload from now on.
RemoveBlock(h, b) ==
  [h EXCEPT !.hd = Mark(@, b, TRUE, After(h, b), TRUE),
            !.ft = Forget(@, {After(h, b)}), !.fl = Unlist(@, b)]

\* The first half of add_block files b in list i.  The bit of the block after
\* it is flipped, not cleared.
FileBlock(h, b, i) ==
  LET after == After(h, b)
      freed == IF h.hd[b].alloc THEN Mark(h.hd, b, FALSE, after, ~h.hd[after].prev)
               ELSE h.hd
  IN [h EXCEPT !.hd = freed, !.ft = Put(@, after, freed[b]), !.fl[i] = <<b>> \o @]

\* Mutant: a block between the two stays in its list.
CoalesceKeepsMiddle(h, c, n, isLast) ==
  LET size == (n - c) + h.hd[n].size
      inside == c + 1 .. c + size - 1
      h1 == RemoveBlock([h EXCEPT !.hd = Put(@, c, Tag(size, FALSE, @[c].prev))], c)
      h2 == [RemoveBlock(h1, n) EXCEPT !.hd = Forget(@, inside), !.ft = Forget(@, inside)]
  IN FileBlock(h2, c, IF isLast THEN Wild ELSE SizeClass(size))

\* The blocks from c to n, one between them included, become one in use.
Gather(h, c, n) ==
  LET middle == After(h, c)
      size == (n - c) + h.hd[n].size
      inside == c + 1 .. c + size - 1
      h1 == RemoveBlock([h EXCEPT !.hd = Put(@, c, Tag(size, FALSE, @[c].prev))], c)
      h2 == IF middle # n THEN RemoveBlock(h1, middle) ELSE h1
  IN [RemoveBlock(h2, n) EXCEPT !.hd = Forget(@, inside), !.ft = Forget(@, inside)]

\* The block that results is added.  Its neighbours are not free: where one is,
\* add_block would go on coalescing, and the value here is not defined.
Refile(h, c, isLast) ==
  CASE h.hd[c].prev /\ h.hd[After(h, c)].alloc ->
    FileBlock(h, c, IF isLast THEN Wild ELSE SizeClass(h.hd[c].size))

Coalesce(h, c, n, isLast) == Refile(Gather(h, c, n), c, isLast)

\* The second half of add_block looks at both neighbours of b, filed in list i.
MergeAround(h, b, i) ==
  LET after == After(h, b)
      afterIsLast == h.fl[Wild] # <<>> /\ after = Head(h.fl[Wild])
      prevFree == ~h.hd[b].prev
      afterFree == ~h.hd[after].alloc
      before == b - h.ft[b].size
  IN CASE prevFree /\ afterFree -> Coalesce(h, before, after, afterIsLast)
       [] prevFree /\ ~afterFree -> Coalesce(h, before, b, i = Wild)
       [] ~prevFree /\ afterFree -> Coalesce(h, b, after, afterIsLast)
       [] ~prevFree /\ ~afterFree -> h

AddBlock(h, b, i) == MergeAround(FileBlock(h, b, i), b, i)

\* The remainder is filed under the size class of the request.
Split(h, b, size, isLast) ==
  LET req == RoundUp(size)
      rest == h.hd[b].size - req
      r == b + req
      h1 == [h EXCEPT !.hd = Put(Put(@, b, Tag(req, @[b].alloc, @[b].prev)), r, Tag(rest, TRUE, TRUE))]
  IN IF rest < M THEN h ELSE AddBlock(h1, r, IF isLast THEN Wild ELSE SizeClass(size))

Empty == [hd |-> <<>>, ft |-> <<>>, fl |-> [i \in Lists |-> <<>>], epi |-> Null, pages |-> 0]

\* The old epilogue becomes the head of the new page, which is free.
NewPage(h) ==
  LET epi == (h.pages + 1) * PageSize - 16
      wild == IF h.pages = 0 THEN First ELSE h.epi
      prev == IF wild = First THEN TRUE ELSE h.hd[wild].prev
      h1 == [h EXCEPT !.pages = @ + 1, !.epi = epi,
                      !.hd = Put(Put(@, epi, Tag(0, TRUE, FALSE)), wild, Tag(epi - wild, FALSE, prev))]
  IN AddBlock(h1, wild, Wild)

-----------------------------------------------------------------------------
(* The calls: each returns the heap it leaves and a block or Null          *)

\* The places of the list i at which the search of sf_malloc succeeds, and the
\* lists with such a place.
Fits(h, size, i) == {k \in DOMAIN h.fl[i] : RoundUp(size) <= h.hd[h.fl[i][k]].size}
ListsThatFit(h, size) ==
  {i \in SizeClass((size + 8) % Word) .. Wild : Fits(h, size, i) # {}}

Malloc(h, size) ==
  LET i == Min(ListsThatFit(h, size))
      b == h.fl[i][Min(Fits(h, size, i))]
  IN IF size = 0 \/ ListsThatFit(h, size) = {} THEN [h |-> h, b |-> Null]
     ELSE [h |-> Split(RemoveBlock(h, b), b, size, i = Wild), b |-> b]

\* Mutant: the block before the epilogue is not valid.
ValidStrict(h, b) ==
  /\ (b + 16) % M = 0
  /\ h.hd[b].alloc
  /\ b >= First /\ After(h, b) < h.epi
  /\ ~h.hd[b].prev => ~h.hd[b - h.ft[b].size].alloc

\* checkValid on a pointer to block b.
Valid(h, b) ==
  /\ (b + 16) % M = 0
  /\ h.hd[b].alloc
  /\ b >= First /\ After(h, b) <= h.epi
  /\ ~h.hd[b].prev => ~h.hd[b - h.ft[b].size].alloc

\* The test subtracts a size from a pointer to sf_block, which the compiler
\* scales by the size of an sf_block.
FreeIsLast(h, b) ==
  LET next == After(h, b) IN next = h.epi - Block * h.hd[next].size

\* sf_free on a valid pointer; on another it aborts, which it does to clients
\* only: where the library itself would free one, the value is not defined.
Free(h, b) ==
  CASE Valid(h, b) ->
    AddBlock(h, b, IF FreeIsLast(h, b) THEN Wild ELSE SizeClass(h.hd[b].size))

IsLast(h, b) == After(h, b) = h.epi

\* Mutant: the old block is not freed.
MoveLeaks(h, b, size) == Malloc(h, size)

\* Mutant: the old block is freed before the new one is found.
MoveFreesFirst(h, b, size) ==
  LET larger == Malloc(Free(h, b), size)
  IN IF larger.b = Null THEN [larger EXCEPT !.h = h] ELSE larger

\* sf_realloc to a block that is larger.
Move(h, b, size) ==
  LET larger == Malloc(h, size)
  IN IF larger.b = Null THEN larger ELSE [h |-> Free(larger.h, b), b |-> larger.b]

\* The front of a block that is not aligned is split off and freed; the rest,
\* freed by the split, is taken back and split again.
CutFront(h, b, skip, size) ==
  LET h1 == Split(h, b, skip - 8, IsLast(h, b))
      c == b + skip
  IN [h |-> Split(Free(RemoveBlock(h1, c), b), c, size, IsLast(h1, c)), b |-> c]

Align(h, b, size, align) ==
  LET skip == ((b + 16) \div align + 1) * align - (b + 16)
  IN IF (b + 16) % align = 0 THEN [h |-> Split(h, b, size, IsLast(h, b)), b |-> b]
     ELSE CutFront(h, b, skip, size)

Memalign(h, size, align) ==
  LET first == Malloc(h, Attempt(size, align))
  IN IF first.b = Null THEN first ELSE Align(first.h, first.b, size, align)

-----------------------------------------------------------------------------
(* The actions                                                             *)

\* What is asked of the library, and the block that a realloc replaces.
Request(op, size, align, old) == [op |-> op, size |-> size, align |-> align, old |-> old]
NoCall == Request("none", 0, 0, Null)

SfmmInit ==
  /\ heap = Empty
  /\ live = <<>>
  /\ call = NoCall
  /\ aborted = FALSE

\* The call r has returned a block, or Null.
Return(r, result) ==
  /\ heap' = result.h
  /\ live' = IF result.b = Null THEN live
             ELSE Put(Forget(live, {r.old}), result.b, [size |-> r.size, align |-> r.align])

\* sf_malloc grows the heap and begins again, or finds a block, or fails.
Search(r) ==
  LET size == IF r.op = "memalign" THEN Attempt(r.size, r.align) ELSE r.size
      grows == \/ heap.pages = 0
               \/ size > 0 /\ ListsThatFit(heap, size) = {} /\ heap.pages < MaxPages
  IN /\ IF grows THEN heap' = NewPage(heap) /\ call' = r /\ UNCHANGED live
        ELSE /\ call' = NoCall
             /\ Return(r, CASE r.op = "malloc" -> Malloc(heap, r.size)
                           [] r.op = "realloc" -> Move(heap, r.old, r.size)
                           [] r.op = "memalign" -> Memalign(heap, r.size, r.align))
     /\ UNCHANGED aborted

SearchAgain == call # NoCall /\ Search(call)

sf_malloc(size) ==
  /\ call = NoCall /\ Cardinality(DOMAIN live) < MaxLive
  /\ Search(Request("malloc", size, M, Null))

sf_memalign(size, align) ==
  /\ call = NoCall /\ Cardinality(DOMAIN live) < MaxLive
  /\ IF size = 0 \/ ~Legal(align) THEN UNCHANGED sfmmVars
     ELSE Search(Request("memalign", size, align, Null))

sf_free(b) ==
  /\ call = NoCall
  /\ IF Valid(heap, b)
     THEN /\ heap' = Free(heap, b) /\ live' = Forget(live, {b})
          /\ UNCHANGED aborted
     ELSE aborted' = TRUE /\ UNCHANGED <<heap, live>>
  /\ UNCHANGED call

\* A pointer found invalid makes realloc return NULL and change nothing.
sf_realloc(b, size) ==
  /\ call = NoCall /\ Valid(heap, b)
  /\ IF size = 0 THEN sf_free(b)
     ELSE IF RoundUp(size) > heap.hd[b].size THEN Search(Request("realloc", size, M, b))
     ELSE /\ Return(Request("realloc", size, M, b),
                    [h |-> Split(heap, b, size, IsLast(heap, b)), b |-> b])
          /\ UNCHANGED <<call, aborted>>

SfmmNext ==
  /\ ~aborted
  /\ \/ \E s \in Sizes : sf_malloc(s)
     \/ \E s \in Sizes, a \in Aligns : sf_memalign(s, a)
     \/ \E b \in DOMAIN live : sf_free(b)
     \/ \E b \in DOMAIN live, s \in Sizes : sf_realloc(b, s)
     \/ SearchAgain

SfmmSpec == SfmmInit /\ [][SfmmNext]_sfmmVars

-----------------------------------------------------------------------------
Blocks == DOMAIN heap.hd \ {heap.epi}
Freed == {b \in Blocks : ~heap.hd[b].alloc}

\* The boundary tags describe one row of blocks from the prologue to the
\* epilogue: a block ends where the next one begins, each knows whether the one
\* before it is allocated, each free one has a footer equal to its header, and
\* no two free blocks touch, after any sequence of calls (add_block flips bits,
\* coalesce rewrites headers that are in two lists).
HeapIsTiled ==
  heap.pages > 0 =>
    /\ {First, heap.epi} \subseteq DOMAIN heap.hd
    /\ \A b \in Blocks :
         LET after == After(heap, b)
         IN /\ First <= b /\ after \in DOMAIN heap.hd
            /\ \A x \in DOMAIN heap.hd : x <= b \/ after <= x
            /\ heap.hd[after].prev = heap.hd[b].alloc
            /\ ~heap.hd[b].alloc => heap.hd[after].alloc /\ heap.ft[after] = heap.hd[b]
    /\ \A x \in DOMAIN heap.hd : x = First \/ \E b \in Blocks : After(heap, b) = x

\* Every free block is in exactly one list once, and nothing else is.
FreeBlocksAreListed ==
  /\ UNION {Range(heap.fl[i]) : i \in Lists} = Freed
  /\ \A i, j \in Lists : \A k \in DOMAIN heap.fl[i], l \in DOMAIN heap.fl[j] :
       heap.fl[i][k] = heap.fl[j][l] => <<i, k>> = <<j, l>>

\* What a client was given is "a valid region of memory of the requested size
\* and with the requested alignment" (sfmm.h:178-181, 221-224) for as long as it
\* owns it: the allocated blocks are those the clients own, each as aligned and
\* at least as large as was asked for, whatever was split, merged, moved or cut
\* to an alignment since.  It needs NoSizeWraps.
PayloadsAreKept ==
  /\ DOMAIN live = Blocks \ Freed
  /\ \A b \in DOMAIN live :
       (b + 16) % live[b].align = 0 /\ live[b].size + 8 <= heap.hd[b].size

\* size_t holds every sum that the library makes of a size and an alignment.
NoSizeWraps ==
  \A size \in Sizes, align \in Aligns \cup {M} :
    Legal(align) => size + align + 2 * M < Word

\* The same promise where nothing is said of the sizes: a request that cannot
\* be met yields NULL and ENOMEM, never a region that is smaller.
RegionsAreLargeEnough ==
  \A b \in DOMAIN live : live[b].size + 8 <= heap.hd[b].size

\* The library keeps the promise of Allocator: payloads do not overlap, no call
\* changes a payload that is not its own, and what sf_realloc copies is neither
\* longer than the new payload nor part of it (sfmm.c:275).
Payload == [b \in DOMAIN live |-> heap.hd[b].size - 8]
Promise == INSTANCE Allocator WITH payload <- Payload
ImplementsAllocator == Promise!Spec

\* checkValid accepts every pointer a client owns: no legal free aborts.
ValidIsFreed == ~aborted
=============================================================================
