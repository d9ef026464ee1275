------------------------------ MODULE Sequitur ------------------------------
(***************************************************************************)
(* The core of hw1: the SYMBOL structures (symbol.c), the rules made of    *)
(* them (rules.c), the open-addressed table of digrams (digram_hash.c) and *)
(* the Sequitur algorithm (sequitur.c), as operators on one record g:      *)
(*                                                                         *)
(*   sym       the symbol structures by index, 0 being NULL                *)
(*   num       num_symbols                                                 *)
(*   recycled  top of the stack of recycled symbols, linked by prev        *)
(*   rules     heads of the rules in the order of nextr, main rule first   *)
(*   value     next_nonterminal_value                                      *)
(*   table     digram_table: the slots that are not NULL                   *)
(*   aborted   abort() was called, or NULL was followed                    *)
(*                                                                         *)
(* Only the list of rules is abstracted to a sequence; every link between  *)
(* symbols, and every store into the table, is that of the code.           *)
(***************************************************************************)
EXTENDS Integers, FiniteSets, SequencesExt, TLC

CONSTANTS
  MaxSymbols,   \* MAX_SYMBOLS
  MaxDigrams    \* MAX_DIGRAMS, the size of the digram table

FirstNonterminal == 256
Null == 0
Tombstone == -1

Symbol(value, rule) ==
  [value |-> value, rule |-> rule, refcnt |-> 0, next |-> Null, prev |-> Null]

\* init_symbols, init_rules and init_digram_hash.
EmptyGrammar ==
  [sym |-> [i \in 0 .. MaxSymbols |-> Symbol(IF i = 0 THEN -1 ELSE 0, Null)],
   num |-> 0, recycled |-> Null, rules |-> <<>>, value |-> FirstNonterminal,
   table |-> <<>>, aborted |-> FALSE]

Value(g, s) == g.sym[s].value
NextOf(g, s) == g.sym[s].next
PrevOf(g, s) == g.sym[s].prev
IsRuleHead(g, s) == g.sym[s].rule = s
IsNonterminal(g, s) == Value(g, s) >= FirstNonterminal
Abort(g) == [g EXCEPT !.aborted = TRUE]

-----------------------------------------------------------------------------
(* Symbols and rules; an operator that allocates leaves the symbol in .new *)

NewSymbol(g, value, rule) ==
  LET fresh == g.recycled = Null
      s == IF fresh THEN g.num + 1 ELSE g.recycled
      top == IF fresh THEN Null ELSE PrevOf(g, s)
      g1 == [g EXCEPT !.num = IF fresh THEN @ + 1 ELSE @, !.recycled = top]
      g2 == IF top = Null THEN g1 ELSE [g1 EXCEPT !.sym[top].next = Null]
      g3 == IF rule = Null THEN g2 ELSE [g2 EXCEPT !.sym[rule].refcnt = @ + 1]
  IN IF g.num = MaxSymbols THEN [g |-> Abort(g), new |-> Null]
     ELSE [g |-> [g3 EXCEPT !.sym[s] = Symbol(value, rule)], new |-> s]

RecycleSymbol(g, s) ==
  LET top == g.recycled
      g1 == IF top = Null THEN g ELSE [g EXCEPT !.sym[top].next = s]
  IN [g1 EXCEPT !.sym[s].prev = top, !.sym[s].next = Null, !.recycled = s]

\* new_rule and add_rule, with the next value for a nonterminal.
AddRule(g) ==
  LET r == NewSymbol(g, g.value, Null)
      s == r.new
  IN [g |-> [r.g EXCEPT !.sym[s] = [@ EXCEPT !.rule = s, !.next = s, !.prev = s],
                        !.rules = Append(@, s), !.value = @ + 1],
      new |-> s]

UnrefRule(g, rule) ==
  IF g.sym[rule].refcnt > 0 THEN [g EXCEPT !.sym[rule].refcnt = @ - 1] ELSE Abort(g)

DeleteRule(g, rule) ==
  LET g1 == [g EXCEPT !.rules = SelectSeq(@, LAMBDA r : r # rule)]
  IN IF g.sym[rule].refcnt = 0 THEN RecycleSymbol(g1, rule) ELSE g1

-----------------------------------------------------------------------------
(* The digram table                                                        *)

Slot(v1, v2, step) == (v1 * 37 + v2 + step) % MaxDigrams
Least(S) == CHOOSE x \in S : \A y \in S : x <= y

\* The steps a search takes: it ends at the first empty slot.
Steps(g, v1, v2) ==
  LET used(k) == Slot(v1, v2, k) \in DOMAIN g.table
  IN {k \in 0 .. Cardinality(DOMAIN g.table) - 1 : \A j \in 0 .. k : used(j)}

\* An entry that begins with v1 is followed to its next symbol; a symbol that
\* has left its rule since it was put may have none.
DigramGet(g, v1, v2) ==
  LET entry(k) == g.table[Slot(v1, v2, k)]
      second(k) == NextOf(g, entry(k))
      hits == {k \in Steps(g, v1, v2) :
                 /\ entry(k) # Tombstone /\ Value(g, entry(k)) = v1
                 /\ second(k) = Null \/ Value(g, second(k)) = v2}
  IN IF hits = {} THEN [g |-> g, match |-> Null]
     ELSE [g |-> IF second(Least(hits)) = Null THEN Abort(g) ELSE g,
           match |-> entry(Least(hits))]

\* Only the digram itself is deleted, not one with the same values.
DigramDelete(g, d) ==
  LET v1 == Value(g, d)
      v2 == Value(g, NextOf(g, d))
      hits == {k \in Steps(g, v1, v2) : g.table[Slot(v1, v2, k)] = d}
  IN IF NextOf(g, d) = Null \/ hits = {} THEN g
     ELSE [g EXCEPT !.table[Slot(v1, v2, Least(hits))] = Tombstone]

\* The first slot that is empty, holds a tombstone or holds the digram itself
\* takes it; the search does not look behind a tombstone.
DigramPut(g, d) ==
  LET v1 == Value(g, d)
      v2 == Value(g, NextOf(g, d))
      steps == 0 .. Least({MaxDigrams - 1, Cardinality(DOMAIN g.table)})
      free == {k \in steps : Slot(v1, v2, k) \in DOMAIN g.table =>
                                g.table[Slot(v1, v2, k)] \in {Tombstone, d}}
  IN IF NextOf(g, d) = Null \/ free = {} THEN g
     ELSE [g EXCEPT !.table = (Slot(v1, v2, Least(free)) :> d) @@ @]

-----------------------------------------------------------------------------
(* Links between symbols                                                   *)

\* Of three equal symbols in a row only one of the two digrams is in the
\* table: when that one goes, the other is put back.
InTriple(g, s) ==
  /\ PrevOf(g, s) # Null /\ NextOf(g, s) # Null
  /\ Value(g, s) = Value(g, PrevOf(g, s))
  /\ Value(g, s) = Value(g, NextOf(g, s))

PutTriple(g, s) == IF InTriple(g, s) THEN DigramPut(g, s) ELSE g

JoinSymbols(g, this, next) ==
  LET g1 == IF NextOf(g, this) = Null THEN g
            ELSE PutTriple(PutTriple(DigramDelete(g, this), next), this)
  IN IF Null \in {this, next} THEN Abort(g)
     ELSE [g1 EXCEPT !.sym[this].next = next, !.sym[next].prev = this]

InsertAfter(g, this, next) ==
  JoinSymbols(JoinSymbols(g, next, NextOf(g, this)), this, next)

\* The symbol goes, and with a nonterminal a use of its rule.
DeleteSymbol(g, this) ==
  LET g1 == DigramDelete(JoinSymbols(g, PrevOf(g, this), NextOf(g, this)), this)
  IN CASE IsRuleHead(g, this) -> Abort(g)
       [] ~IsRuleHead(g, this) /\ IsNonterminal(g, this) ->
            RecycleSymbol(UnrefRule(g1, g.sym[this].rule), this)
       [] OTHER -> RecycleSymbol(g1, this)

\* Mutant: the symbol becomes the first of the rule.
PrependSymbol(g, head, value, rule) ==
  LET r == NewSymbol(g, value, rule) IN InsertAfter(r.g, head, r.new)

\* A new symbol becomes the last of the rule with this head.
AppendSymbol(g, head, value, rule) ==
  LET r == NewSymbol(g, value, rule) IN InsertAfter(r.g, PrevOf(r.g, head), r.new)

\* Puts the body of a rule in the place of the only symbol that refers to it.
ExpandInstance(g, this) ==
  LET rule == g.sym[this].rule
      g1 == JoinSymbols(DigramDelete(g, this), PrevOf(g, this), NextOf(g, rule))
      g2 == JoinSymbols(g1, PrevOf(g, rule), NextOf(g, this))
      g3 == [g2 EXCEPT !.sym[rule].next = Null, !.sym[rule].prev = Null]
      g4 == UnrefRule(RecycleSymbol(g3, this), rule)
  IN IF g.sym[rule].refcnt # 1 THEN Abort(g) ELSE DeleteRule(g4, rule)

-----------------------------------------------------------------------------
(* The algorithm                                                           *)

RECURSIVE CheckDigram(_, _)

\* A nonterminal is made and put behind prev, and the digram there checked.
UseRule(g, prev, rule) ==
  LET r == NewSymbol(g, Value(g, rule), rule)
  IN CheckDigram(InsertAfter(r.g, prev, r.new), prev)

\* When that digram was replaced the nonterminal is gone.
CheckNext(left, prev) ==
  IF left.replaced THEN left.g ELSE CheckDigram(left.g, NextOf(left.g, prev)).g

DeleteNext(g, prev) == DeleteSymbol(g, NextOf(g, prev))

ReplaceDigram(g, this, rule) ==
  LET prev == PrevOf(g, this)
  IN IF prev = Null THEN Abort(g)
     ELSE CheckNext(UseRule(DeleteNext(DeleteNext(g, prev), prev), prev, rule), prev)

PutFirst(g, rule) == DigramPut(g, NextOf(g, rule))

\* A new rule for the digram, which is replaced twice.
MakeRule(g, rule, this, match) ==
  LET second == NextOf(g, this)
      g1 == AppendSymbol(g, rule, Value(g, this), g.sym[this].rule)
      g2 == AppendSymbol(g1, rule, Value(g, second), g.sym[second].rule)
  IN PutFirst(ReplaceDigram(ReplaceDigram(g2, match, rule), this, rule), rule)

\* The rule whose body is the digram, made when there is none.
RuleFor(g, this, match) ==
  LET body == PrevOf(g, match)
      end == NextOf(g, NextOf(g, match))
      r == AddRule(g)
  IN CASE body = Null \/ (IsRuleHead(g, body) /\ end = Null) ->
            [g |-> Abort(g), rule |-> Null]
       [] body # Null /\ IsRuleHead(g, body) /\ end # Null /\ IsRuleHead(g, end) ->
            [g |-> ReplaceDigram(g, this, body), rule |-> body]
       [] OTHER -> [g |-> MakeRule(r.g, r.new, this, match), rule |-> r.new]

\* Mutant: a rule that is used once is kept.
KeepUnderused(g, rule) == g

\* The first symbol of a rule may be the last to use a rule of its own; a rule
\* that was deleted meanwhile has no first symbol.
ExpandUnderused(g, rule) ==
  LET first == NextOf(g, rule)
      used == g.sym[first].rule
  IN IF first = Null \/ (used # Null /\ g.sym[used].refcnt = 0) THEN Abort(g)
     ELSE IF used # Null /\ g.sym[used].refcnt < 2 THEN ExpandInstance(g, first)
     ELSE g

ProcessMatch(g, this, match) ==
  LET r == RuleFor(g, this, match) IN ExpandUnderused(r.g, r.rule)

\* The digram at this, which is one, is put into the table or replaced.
CheckPair(g, this) ==
  LET found == DigramGet(g, Value(g, this), Value(g, NextOf(g, this)))
      match == found.match
  IN CASE found.g.aborted -> [g |-> found.g, replaced |-> FALSE]
       [] ~found.g.aborted /\ match = Null -> [g |-> DigramPut(g, this), replaced |-> FALSE]
       [] ~found.g.aborted /\ match # Null /\ NextOf(g, match) = this ->
            [g |-> g, replaced |-> FALSE]
       [] OTHER -> [g |-> ProcessMatch(g, this, match), replaced |-> TRUE]

\* A symbol at the beginning or the end of a rule is no digram.
CheckDigram(g, this) ==
  LET next == NextOf(g, this)
  IN CASE this = Null \/ (~IsRuleHead(g, this) /\ next = Null) ->
            [g |-> Abort(g), replaced |-> FALSE]
       [] this # Null /\ (g.aborted \/ IsRuleHead(g, this) \/ IsRuleHead(g, next)) ->
            [g |-> g, replaced |-> FALSE]
       [] OTHER -> CheckPair(g, this)

CheckLast(g, rule) == CheckDigram(g, PrevOf(g, PrevOf(g, rule))).g

\* compress appends a byte to the main rule.
AppendByte(g, byte) ==
  LET main == Head(g.rules) IN CheckLast(AppendSymbol(g, main, byte, Null), main)
=============================================================================
