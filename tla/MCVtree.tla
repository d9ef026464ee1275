------------------------------- MODULE MCVtree -------------------------------
(***************************************************************************)
(* Vtree for TLC: file systems, and the totals that a walk should come to.  *)
(***************************************************************************)
EXTENDS Vtree, SequencesExt

RECURSIVE Opened(_, _)
\* The directories that a walk from a node at a depth opens, links followed.
Opened(node, depth) ==
  LET children == SelectSeq(fs[node].entries, LAMBDA e : e.name # Dot)
  IN IF \/ fs[node].kind # "dir" \/ ~fs[node].readable
        \/ depth = opt.depth /\ ~opt.sum
     THEN <<>>
     ELSE <<node>> \o FlattenSeq([i \in DOMAIN children |-> Opened(children[i].node, depth + 1)])

Walked == FlattenSeq([i \in DOMAIN input.args |-> Opened(input.args[i], 0)])
\* The files of a sequence of directories, one element per entry.
FilesOf(dirs) ==
  FlattenSeq([i \in DOMAIN dirs |->
    SelectSeq([k \in DOMAIN fs[dirs[i]].entries |-> fs[dirs[i]].entries[k].node],
              LAMBDA n : fs[n].kind = "file")])

SumBlocks(nodes) == FoldLeft(LAMBDA sum, n : sum + fs[n].blocks \div 2, 0, nodes)
Counted(files) == IF opt.duplicate THEN files ELSE SetToSeq(ToSet(files))

\* Every directory opened and the files in them, once or, with -d, as often as
\* they were met.
IsSummed(total) == total = SumBlocks(Walked \o Counted(FilesOf(Walked)))
Ended == arg > Len(input.args)

\* Of a tree, in which each directory is opened once, and with -d of any file
\* system whose links lead somewhere, the total size is that of the directories
\* opened and of the files in them: no file of a table, no subtotal passed up
\* from below the limit of depth, and nothing left by the argument before is
\* lost or added twice; and with -q no total is kept (vtree.c:328-416, 667-678).
TreesAreTotalled ==
  Ended /\ ~opt.visual /\ (IF opt.duplicate THEN ~Dangling ELSE IsInjective(Walked)) =>
    IF opt.quick THEN total_sizes = 0 ELSE IsSummed(total_sizes)

-----------------------------------------------------------------------------
(* Values of the constants                                                 *)

Directory(entries) == [kind |-> "dir", readable |-> TRUE, dev |-> 1, ino |-> 0, blocks |-> 8, entries |-> entries]
File(dev, ino) == [kind |-> "file", readable |-> TRUE, dev |-> dev, ino |-> ino, blocks |-> 2 * ino, entries |-> <<>>]
Gone == [File(0, 0) EXCEPT !.kind = "gone"]
Locked(entries) == [Directory(entries) EXCEPT !.readable = FALSE]
E(name, node) == [name |-> name, node |-> node]
Self(node) == E(0, node)    \* the name 0 is "."

\* A tree with a file under three names, files of one bucket, a file of the
\* same number on another device, and a directory that cannot be read.
Plain ==
  << Directory(<<E(4, 5), E(3, 2), Self(1), E(2, 3), E(1, 6)>>),
     Directory(<<Self(2), E(1, 4), E(2, 5), E(3, 7)>>),
     Directory(<<E(2, 9), Self(3), E(1, 5)>>),
     Locked(<<Self(4), E(1, 8)>>),
     File(1, 3), File(1, 5), File(2, 3), File(1, 1), File(1, 7) >>

\* Links to a directory and, upwards, to the root.
Linked ==
  << Directory(<<Self(1), E(1, 2), E(2, 2), E(3, 3)>>),
     Directory(<<E(1, 3), Self(2), E(2, 1)>>),
     File(1, 2) >>

\* Links that lead nowhere, after a directory and after a file.
Broken ==
  << Directory(<<Self(1), E(1, 4), E(2, 2), E(3, 3), E(4, 4)>>),
     Directory(<<E(1, 3), Self(2)>>),
     File(1, 2), Gone >>

Options ==
  [depth : {0, 1, 2, 9999}, sum : BOOLEAN, duplicate : BOOLEAN,
   quick : BOOLEAN, visual : BOOLEAN, sort : BOOLEAN]

InputsOf(options, f, arguments) == {[opt |-> o, fs |-> f, args |-> a] : o \in options, a \in arguments}

MCInputs ==
  InputsOf(Options, Plain, {<<1>>, <<2, 1>>, <<5, 3>>})
    \cup InputsOf({o \in Options : ~o.sum /\ o.depth < 3}, Linked, {<<1>>, <<2, 1>>})
    \cup InputsOf(Options, Broken, {<<1>>, <<4, 1, 4>>})
=============================================================================
