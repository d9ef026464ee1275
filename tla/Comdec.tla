------------------------------- MODULE Comdec -------------------------------
(***************************************************************************)
(* The two halves of hw1 (src/comdec.c): compress reads bytes, builds one  *)
(* Sequitur grammar per block and writes the grammars as a transmission;   *)
(* decompress reads the transmission and writes the text.  A behaviour     *)
(* compresses a text and then decompresses the transmission, of which only *)
(* the beginning may have survived.                                        *)
(*                                                                         *)
(* One action is one turn of a loop of the code: a byte read by compress,  *)
(* a marker or a value read by decompress.                                 *)
(***************************************************************************)
EXTENDS Sequitur, Utf8

CONSTANTS
  Bytes,       \* the bytes that texts are made of
  BlockSizes,  \* values of bsize
  MaxText      \* bound: length of a text

VARIABLES
  pc,        \* "compress", "decompress", "done", or "crashed"
  bsize,     \* parameter of compress
  text,      \* what compress has read
  g,         \* the grammar of the current block of compress
  size,      \* currentSize
  wire,      \* the transmission: written by compress, then still to be read
  sent,      \* history: for each block that was written, the bytes put into it
  block,     \* what decompress has read of the current block
  decoded,   \* what decompress has written
  result     \* how decompress ended: "none", "count" or "EOF"

vars == <<pc, bsize, text, g, size, wire, sent, block, decoded, result>>

-----------------------------------------------------------------------------
(* compress                                                                *)

RECURSIVE Symbols(_, _)
\* The symbols of a rule from s on.
Symbols(h, s) == IF IsRuleHead(h, s) THEN <<>> ELSE <<s>> \o Symbols(h, NextOf(h, s))
Body(h, rule) == Symbols(h, NextOf(h, rule))

\* traverseRules
Traverse(h) ==
  LET written(r) == FlattenSeq([i \in 1 .. Len(Body(h, r)) + 1 |->
                      Utf8(Value(h, (<<r>> \o Body(h, r))[i]))])
      n == Len(h.rules)
  IN FlattenSeq([i \in 1 .. n |->
       written(h.rules[i]) \o <<IF i = n THEN EOB ELSE EOR>>])

\* The bytes that were put into the block being built, the last ones read.
InBlock == SubSeq(text, Len(text) - size + 1, Len(text))

\* The first byte of a block starts its grammar; the byte that is read when a
\* block is full ends the block and is not looked at again.
ReadByte(c) ==
  /\ pc = "compress" /\ Len(text) < MaxText
  /\ text' = Append(text, c)
  /\ IF size = bsize
     THEN /\ size' = 0 /\ wire' = wire \o Traverse(g) /\ sent' = Append(sent, InBlock)
          /\ UNCHANGED <<g, pc>>
     ELSE /\ wire' = IF size = 0 THEN Append(wire, SOB) ELSE wire
          /\ g' = AppendByte(IF size = 0 THEN AddRule(EmptyGrammar).g ELSE g, c)
          /\ size' = size + 1
          /\ pc' = IF g'.aborted THEN "crashed" ELSE pc
          /\ UNCHANGED sent
  /\ UNCHANGED <<bsize, block, decoded, result>>

EmptyBlock == [sot |-> FALSE, blocks |-> 0, position |-> 0, rules |-> <<>>]

EndOfText ==
  /\ pc = "compress"
  /\ wire' = wire \o (IF size = 0 THEN <<>> ELSE Traverse(g)) \o <<EOT>>
  /\ sent' = IF size = 0 THEN sent ELSE Append(sent, InBlock)
  /\ pc' = "decompress"
  /\ g' = EmptyGrammar /\ size' = 0
  /\ UNCHANGED <<bsize, text, block, decoded, result>>

-----------------------------------------------------------------------------
(* decompress                                                              *)

Known(b, v) == \E i \in DOMAIN b.rules : b.rules[i].head = v

RECURSIVE Expands(_, _, _)
\* Mutant: the work on r ends with the first rule in it.
ExpandsFirst(b, r, num) ==
  LET rule(v) == CHOOSE q \in Range(b.rules) : q.head = v
      step(acc, v) ==
        CASE acc.stop -> acc
          [] ~acc.stop /\ v < FirstNonterminal ->
               [acc EXCEPT !.num = @ + 1, !.out = Append(@, v)]
          [] OTHER -> LET e == Expands(b, rule(v), acc.num)
                      IN [num |-> e.num, out |-> acc.out \o e.out, stop |-> TRUE]
  IN FoldLeft(step, [num |-> num, out |-> <<>>, stop |-> FALSE], r.body)

\* expands: the bytes written for rule r and the count returned; a rule that
\* is unknown or is r itself ends the work on r.
Expands(b, r, num) ==
  LET rule(v) == CHOOSE q \in Range(b.rules) : q.head = v
      bad(v) == v = r.head \/ ~Known(b, v)
      step(acc, v) ==
        CASE acc.stop -> acc
          [] ~acc.stop /\ v < FirstNonterminal ->
               [acc EXCEPT !.num = @ + 1, !.out = Append(@, v)]
          [] ~acc.stop /\ v >= FirstNonterminal /\ bad(v) ->
               [acc EXCEPT !.num = -1, !.stop = TRUE]
          [] OTHER -> LET e == Expands(b, rule(v), acc.num)
                      IN [acc EXCEPT !.num = e.num, !.out = @ \o e.out]
  IN FoldLeft(step, [num |-> num, out |-> <<>>, stop |-> FALSE], r.body)

\* A value starts a rule, or is added to the rule that was started last.
AddValue(b, v) ==
  IF b.position = 0
  THEN [b EXCEPT !.rules = Append(@, [head |-> v, body |-> <<>>]), !.position = 1]
  ELSE [b EXCEPT !.rules[Len(b.rules)].body = Append(@, v), !.position = @ + 1]

\* The markers and values that make decompress return EOF.
Refused(c, v) ==
  \/ c = SOT /\ block.sot
  \/ c # SOT /\ ~block.sot
  \/ c = SOB /\ block.blocks # 0
  \/ c = EOB /\ (block.blocks # 1 \/ block.position = 0)
  \/ c = EOR /\ (block.blocks # 1 \/ block.position < (IF Len(block.rules) = 1 THEN 2 ELSE 3))
  \/ /\ c \notin SOT .. EOR
     /\ \/ block.blocks # 1
        \/ v = -1
        \/ block.position = 0 /\ (v < FirstNonterminal \/ Known(block, v))

Finish(how) == pc' = "done" /\ result' = how

Decode ==
  LET c == Head(wire)
      marker == c \in SOT .. EOR
      v == IF marker THEN -1 ELSE Convert(wire)
  IN /\ pc = "decompress" /\ wire # <<>>
     /\ IF Refused(c, v)
        THEN /\ Finish("EOF")
             /\ UNCHANGED <<wire, block, decoded>>
        ELSE /\ wire' = SubSeq(wire, IF marker THEN 2 ELSE NumBytes(c) + 1, Len(wire))
             /\ block' = CASE c = SOT -> [block EXCEPT !.sot = TRUE]
                           [] c = SOB -> [block EXCEPT !.blocks = 1]
                           [] c = EOB -> [EmptyBlock EXCEPT !.sot = TRUE]
                           [] c = EOR -> [block EXCEPT !.position = 0]
                           [] c = EOT -> block
                           [] OTHER -> AddValue(block, v)
             /\ decoded' = IF c = EOB
                           THEN decoded \o Expands(block, Head(block.rules), Len(decoded)).out
                           ELSE decoded
             /\ IF c = EOT THEN Finish("count") ELSE UNCHANGED <<pc, result>>
     /\ UNCHANGED <<bsize, text, g, size, sent>>

\* The transmission ends too early, in front of a byte or within a value.
Cut ==
  /\ pc = "decompress" /\ wire # <<>>
  /\ \/ Finish("count")
     \/ /\ block.blocks = 1 /\ Head(wire) \notin SOT .. EOR
        /\ NumBytes(Head(wire)) > 1
        /\ Finish("EOF")
  /\ wire' = <<>>
  /\ UNCHANGED <<bsize, text, g, size, sent, block, decoded>>

-----------------------------------------------------------------------------
Init ==
  /\ pc = "compress" /\ bsize \in BlockSizes
  /\ text = <<>> /\ g = EmptyGrammar /\ size = 0
  /\ wire = <<SOT>> /\ sent = <<>>
  /\ block = EmptyBlock /\ decoded = <<>> /\ result = "none"

Next == (\E c \in Bytes : ReadByte(c)) \/ EndOfText \/ Decode \/ Cut

Spec == Init /\ [][Next]_vars

-----------------------------------------------------------------------------
RECURSIVE Derived(_, _)
\* The bytes that a rule of a grammar stands for.
Derived(h, rule) ==
  LET symbols == Body(h, rule)
  IN FlattenSeq([i \in DOMAIN symbols |->
       IF IsNonterminal(h, symbols[i]) THEN Derived(h, h.sym[symbols[i]].rule)
       ELSE <<Value(h, symbols[i])>>])

InBodies == UNION {Range(Body(g, r)) : r \in Range(g.rules)}
Building == pc = "compress" /\ size > 0

\* However often digrams were replaced and rules expanded, the grammar of a
\* block stands for the bytes of the block (sequitur.c:219-223, 127-131).
GrammarKeepsText ==
  Building => Derived(g, Head(g.rules)) = InBlock

\* "Rule utility": between two bytes every rule but the main rule is used at
\* least twice, and its reference count is the number of its uses, although
\* only the first symbol of a rule is checked (sequitur.c:232-246).
RulesAreUsed ==
  Building =>
    \A i \in DOMAIN g.rules :
      LET uses == {s \in InBodies : g.sym[s].rule = g.rules[i]}
      IN /\ g.sym[g.rules[i]].refcnt = Cardinality(uses)
         /\ i > 1 => Cardinality(uses) >= 2

\* The text that decompress writes is at all times that of the first blocks of
\* the transmission, each whole and in their order, and of all blocks when
\* nothing was cut off: neither the tables of rules, which start anew with every
\* block, nor a cut within a value or a rule mix up two blocks or leave half a
\* block behind (comdec.c:278-354, 239-258).
BlocksAreRestored ==
  /\ \E n \in 0 .. Len(sent) : decoded = FlattenSeq(SubSeq(sent, 1, n))
  /\ pc = "decompress" /\ wire = <<EOT>> => decoded = FlattenSeq(sent)

\* compress "segments the input data into blocks" of which "each [...] except
\* for the last one represents exactly bsize bytes" (comdec.c:106-118): what is
\* decompressed from a whole transmission is the text.
TextIsRestored == pc = "decompress" /\ wire = <<EOT>> => decoded = text

\* decompress takes everything compress writes: it returns EOF only when the
\* transmission was cut, within a value.
WholeIsAccepted == result = "EOF" => wire = <<>>

\* "@return The number of bytes written, in case of success, otherwise EOF"
\* (comdec.c:123-124): compress returns.
CompressReturns == pc # "crashed"
=============================================================================
