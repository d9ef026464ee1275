-------------------------------- MODULE Vtree --------------------------------
(***************************************************************************)
(* The directory walk of hw2 (src/vtree.c): vtree_main over its arguments, *)
(* down with its recursion as a stack, get_data, and the tables of module  *)
(* Inodes.  The build is MEMORY_BASED and follows symbolic links.          *)
(*                                                                         *)
(* A file system maps nodes to records: a "dir" has its entries in the     *)
(* order of readdir, a "file" its inode, and stat fails on a "gone" one, to*)
(* which only a dangling link or a vanished file leads.  A link is an      *)
(* entry that leads to the node it names.  The entry "." has the name Dot; *)
(* "..", which every loop passes over, is left out.                        *)
(*                                                                         *)
(* One step is one turn of a loop.  Of the output only the totals and the  *)
(* counters behind the corners of the visual tree are kept.                *)
(***************************************************************************)
EXTENDS Inodes, FiniteSets

CONSTANTS
  Inputs,   \* what a run is given: options, a file system, arguments
  Deepest   \* the last index of sub_dirs, 255 in the code

\* What a run is given is a file system whose entries lead to nodes of it, two
\* in a directory never under one name, with no file of the number 0, and
\* arguments that name nodes of it.
Entries(f) == [name : Int, node : DOMAIN f]
FileSystem(f) ==
  /\ f \in Seq([kind : {"dir", "file", "gone"}, readable : BOOLEAN,
                dev : Int, ino : Int, blocks : Int, entries : Seq(Entries(f))])
  /\ \A n \in DOMAIN f : \A i, j \in DOMAIN f[n].entries :
       f[n].entries[i].name = f[n].entries[j].name => i = j
  /\ \A n \in DOMAIN f : f[n].kind = "file" => f[n].ino \in Nat \ {0}

ASSUME VtreeAssumption ==
  /\ Deepest \in Nat
  /\ \A in \in Inputs : FileSystem(in.fs) /\ in.args \in Seq(DOMAIN in.fs)

VARIABLES
  input,                      \* [opt, fs, args], fixed from the start
  arg,                        \* index of the argument in work
  stack,                      \* the activations of down
  cur_depth, sub_dirs,
  inodes, sizes, total_inodes, total_sizes,
  stb                         \* the node of the last stat that succeeded

counts == <<inodes, sizes, total_inodes, total_sizes>>
vtreeVars == <<input, arg, stack, cur_depth, sub_dirs, counts, t, stb>>

Dot == 0
NoNode == 0
opt == input.opt
fs == input.fs
Counting == ~opt.quick /\ ~opt.visual
Top == stack[Len(stack)]

\* What stb describes after stat(node), which leaves it alone when it fails.
Stat(node) == IF fs[node].kind = "gone" THEN stb ELSE node
IsDirectory(node) == node # NoNode /\ fs[node].kind = "dir"

-----------------------------------------------------------------------------
VtreeInit ==
  /\ input \in Inputs
  /\ arg = 0 /\ stack = <<>>
  /\ cur_depth = 0 /\ sub_dirs = [d \in 0 .. Deepest |-> 0]
  /\ inodes = 0 /\ sizes = 0 /\ total_inodes = 0 /\ total_sizes = 0
  /\ t = NoTables /\ stb = NoNode

\* down(node), called at a depth with `frames' active: too deep, unreadable, or
\* entered.
Down(node, depth, frames) ==
  IF \/ depth = opt.depth /\ ~opt.sum
     \/ fs[node].kind # "dir" \/ ~fs[node].readable
  THEN stack' = frames /\ cur_depth' = depth
  ELSE /\ stack' = Append(frames, [phase |-> "list", todo |-> fs[node].entries, list |-> <<>>])
       /\ cur_depth' = depth + 1

\* get_data(node, TRUE)
GetTree(node, depth, frames) ==
  /\ stb' = Stat(node)
  /\ IF IsDirectory(stb') THEN Down(node, depth, frames)
     ELSE stack' = frames /\ cur_depth' = depth

\* inodes and sizes join the totals.
Flush ==
  /\ total_inodes' = total_inodes + inodes /\ inodes' = 0
  /\ total_sizes' = total_sizes + sizes /\ sizes' = 0

\* What the argument before has left in inodes and sizes joins the totals.
Argument ==
  /\ stack = <<>> /\ arg < Len(input.args)
  /\ arg' = arg + 1
  /\ Flush
  /\ GetTree(input.args[arg + 1], 0, <<>>)
  /\ UNCHANGED <<input, sub_dirs, t>>

Finish ==
  /\ stack = <<>> /\ arg = Len(input.args)
  /\ arg' = arg + 1
  /\ Flush
  /\ UNCHANGED <<input, stack, cur_depth, sub_dirs, t, stb>>

-----------------------------------------------------------------------------
(* The loops of down, for the activation on top of the stack               *)

SetTop(frame) == stack' = [stack EXCEPT ![Len(stack)] = frame]
Entry == Head(Top.todo)
In(phase) == stack # <<>> /\ Top.phase = phase
Take(frame) == [frame EXCEPT !.todo = Tail(@)]

\* readdir: all entries are kept, or directories only.
ListEntry ==
  /\ In("list") /\ Top.todo # <<>>
  /\ stb' = IF Counting \/ Entry.name = Dot THEN stb ELSE Stat(Entry.node)
  /\ SetTop(IF Counting \/ (Entry.name # Dot /\ IsDirectory(stb'))
            THEN [Take(Top) EXCEPT !.list = Append(@, Entry)] ELSE Take(Top))
  /\ UNCHANGED <<input, arg, cur_depth, sub_dirs, counts, t>>

\* The exchanges of -o leave the entries in the order of their names.
Sorted(s) ==
  LET entries == {s[i] : i \in DOMAIN s}
  IN [i \in DOMAIN s |-> CHOOSE e \in entries :
        Cardinality({f \in entries : f.name < e.name}) = i - 1]

\* The list is complete; the entries are counted for the visual tree.
ListDone ==
  /\ In("list") /\ Top.todo = <<>>
  /\ LET list == IF opt.sort THEN Sorted(Top.list) ELSE Top.list
     IN SetTop([Top EXCEPT !.phase = IF Counting THEN "count" ELSE "descend",
                           !.todo = list, !.list = list])
  /\ sub_dirs' = IF opt.visual THEN [sub_dirs EXCEPT ![cur_depth] = @ + Len(Top.list)]
                 ELSE sub_dirs
  /\ UNCHANGED <<input, arg, cur_depth, counts, t, stb>>

Add(blocks) ==
  /\ inodes' = inodes + 1 /\ sizes' = sizes + blocks \div 2
  /\ UNCHANGED <<total_inodes, total_sizes>>

\* get_data(entry, FALSE): of directories only "." counts, of files those that
\* are new or, with -d, all.  What is counted is what stb describes.
CountEntry ==
  /\ In("count") /\ Top.todo # <<>>
  /\ stb' = Stat(Entry.node)
  /\ IF IsDirectory(stb')
     THEN /\ IF Entry.name = Dot THEN Add(fs[stb'].blocks) ELSE UNCHANGED counts
          /\ UNCHANGED t
     ELSE LET r == h_enter(t, fs[stb'].dev, fs[stb'].ino)
          IN /\ t' = r.t
             /\ IF r.old /\ ~opt.duplicate THEN UNCHANGED counts ELSE Add(fs[stb'].blocks)
  /\ SetTop(Take(Top))
  /\ UNCHANGED <<input, arg, cur_depth, sub_dirs>>

CountDone ==
  /\ In("count") /\ Top.todo = <<>>
  /\ IF cur_depth < opt.depth THEN Flush ELSE UNCHANGED counts
  /\ SetTop([Top EXCEPT !.phase = "descend", !.todo = Top.list])
  /\ UNCHANGED <<input, arg, cur_depth, sub_dirs, t, stb>>

\* An entry is checked, and its directory counted off, before it is entered.
Descend ==
  /\ In("descend") /\ Top.todo # <<>>
  /\ LET frames == [stack EXCEPT ![Len(stack)] = Take(Top)]
     IN IF Entry.name = Dot
        THEN stack' = frames /\ UNCHANGED <<stb, cur_depth, sub_dirs>>
        ELSE /\ GetTree(Entry.node, cur_depth, frames)
             /\ sub_dirs' = IF IsDirectory(stb') THEN [sub_dirs EXCEPT ![cur_depth] = @ - 1]
                            ELSE sub_dirs
  /\ UNCHANGED <<input, arg, counts, t>>

\* Mutant: the counter keeps what the walk has left in it.
LeaveUncleared ==
  /\ In("descend") /\ Top.todo = <<>>
  /\ IF Counting /\ cur_depth = opt.depth THEN Flush ELSE UNCHANGED counts
  /\ cur_depth' = cur_depth - 1
  /\ stack' = SubSeq(stack, 1, Len(stack) - 1)
  /\ UNCHANGED <<input, arg, sub_dirs, t, stb>>

Leave ==
  /\ In("descend") /\ Top.todo = <<>>
  /\ IF Counting /\ cur_depth = opt.depth THEN Flush ELSE UNCHANGED counts
  /\ sub_dirs' = [sub_dirs EXCEPT ![cur_depth] = 0]
  /\ cur_depth' = cur_depth - 1
  /\ stack' = SubSeq(stack, 1, Len(stack) - 1)
  /\ UNCHANGED <<input, arg, t, stb>>

VtreeNext ==
  \/ Argument
  \/ Finish
  \/ ListEntry
  \/ ListDone
  \/ CountEntry
  \/ CountDone
  \/ Descend
  \/ Leave

VtreeSpec == VtreeInit /\ [][VtreeNext]_vtreeVars

-----------------------------------------------------------------------------
Dangling == \E n \in DOMAIN fs : fs[n].kind = "gone"

\* While the entries of a directory are entered its counter is the number of
\* directories that remain, so that the last one, and it only, is drawn with a
\* corner; deeper counters are clear (vtree.c:216-223, 359-400, 448).  Where
\* stat may fail, what it left in stb makes the two counts differ, and of a
\* directory below the end of sub_dirs nothing is said.
CornersAreLast ==
  /\ opt.visual /\ ~Dangling =>
       \A d \in DOMAIN stack :
         d <= Deepest /\ stack[d].phase = "descend" => sub_dirs[d] = Len(stack[d].todo)
  /\ \A d \in 0 .. Deepest : d = 0 \/ d > cur_depth => sub_dirs[d] = 0

Tallied == inodes + total_inodes
LastFile == <<fs[stb'].dev, fs[stb'].ino>>

\* A step that looks at an entry to count it adds its file to the tables, and
\* counts it unless it was there; of directories it counts "."; and no other
\* step counts anything.
CountedOnce ==
  LET tallies == In("count") /\ Top.todo # <<>>
      file    == tallies /\ ~IsDirectory(stb')
  IN /\ Seen' = IF file THEN Seen \cup {LastFile} ELSE Seen
     /\ Tallied' = IF \/ file /\ (LastFile \notin Seen \/ opt.duplicate)
                      \/ tallies /\ ~file /\ Entry.name = Dot
                   THEN Tallied + 1 ELSE Tallied

\* Without -d a file is counted when it is met for the first time and never
\* again, under whatever names, from whatever directories and arguments it is
\* reached, and whichever buckets and devices the files before it fell in; what
\* was counted is neither lost nor counted again on its way into the totals
\* (vtree.c:487-523, hash.c:45-137).
FilesCountOnce == [][CountedOnce]_vtreeVars
=============================================================================
