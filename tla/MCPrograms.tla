----------------------------- MODULE MCPrograms -----------------------------
(***************************************************************************)
(* The programs of hw1, hw2 and hw3, and the parts of hw4 and hw5 that     *)
(* need no other part, for TLC: a behaviour is one of the program that     *)
(* `program' names, and leaves the variables of the others alone.          *)
(***************************************************************************)
EXTENDS MCVtree, Miner, Reader, Tester, Sfmm, TLC

CONSTANTS
  MaxSymbols, MaxDigrams, Bytes, BlockSizes, MaxText   \* Comdec

VARIABLES
  program,    \* the program this behaviour is one of
  pc, bsize, text, g, size, wire, sent, block, decoded, result

C == INSTANCE Comdec

comdecVars == <<pc, bsize, text, g, size, wire, sent, block, decoded, result>>

\* The variables of a program that does not run; those of Sfmm, Reader
\* and Tester keep their initial values.
Off == "off"
NoInput == [opt |-> [visual |-> FALSE], fs |-> <<>>, args |-> <<>>]
NoComdec == pc = Off /\ bsize = Off /\ text = Off /\ g = Off /\ size = Off /\
            wire = Off /\ sent = Off /\ block = Off /\ decoded = Off /\ result = Off
NoVtree == input = NoInput /\ arg = 0 /\ stack = <<>> /\ cur_depth = 0 /\
           sub_dirs = [d \in 0 .. Deepest |-> 0] /\ inodes = 0 /\ sizes = 0 /\
           total_inodes = 0 /\ total_sizes = 0 /\ t = NoTables /\ stb = NoNode
NoMiner == zeros = Off /\ at = [w \in Vars |-> "idle"] /\ nonce = Off /\ canceled = Off

ProgramsInit ==
  /\ SfmmInit /\ ReaderInit /\ TesterInit
  /\ \/ program = "Comdec" /\ C!Init /\ NoVtree /\ NoMiner
     \/ program = "Vtree" /\ VtreeInit /\ NoComdec /\ NoMiner
     \/ program = "Miner" /\ MinerInit /\ NoComdec /\ NoVtree
     \/ program \in {"Sfmm", "Reader", "Tester"} /\ NoComdec /\ NoVtree /\ NoMiner

ProgramsNext ==
  /\ UNCHANGED program
  /\ \/ /\ program = "Sfmm" /\ SfmmNext
        /\ UNCHANGED <<comdecVars, vtreeVars, minerVars, readerVars, tvars>>
     \/ /\ program = "Comdec" /\ C!Next
        /\ UNCHANGED <<sfmmVars, vtreeVars, minerVars, readerVars, tvars>>
     \/ /\ program = "Vtree" /\ VtreeNext
        /\ UNCHANGED <<sfmmVars, comdecVars, minerVars, readerVars, tvars>>
     \/ /\ program = "Miner" /\ MinerNext
        /\ UNCHANGED <<sfmmVars, comdecVars, vtreeVars, readerVars, tvars>>
     \/ /\ program = "Reader" /\ ReaderNext
        /\ UNCHANGED <<sfmmVars, comdecVars, vtreeVars, minerVars, tvars>>
     \/ /\ program = "Tester" /\ TesterNext
        /\ UNCHANGED <<sfmmVars, comdecVars, vtreeVars, minerVars, readerVars>>

ProgramsSpec ==
  ProgramsInit /\ [][ProgramsNext]_<<program, sfmmVars, comdecVars, vtreeVars,
                                     minerVars, readerVars, tvars>>

-----------------------------------------------------------------------------
\* The grammar of a block stands for its bytes (sequitur.c).
GrammarKeepsText == program = "Comdec" => C!GrammarKeepsText

\* Rules are used twice, and their uses are counted (sequitur.c:232-246).
RulesAreUsed == program = "Comdec" => C!RulesAreUsed

\* Decompression restores the blocks that arrived whole (comdec.c:278-354).
BlocksAreRestored == program = "Comdec" => C!BlocksAreRestored

\* decompress refuses only what was cut (comdec.c:260-358).
WholeIsAccepted == program = "Comdec" => C!WholeIsAccepted

-----------------------------------------------------------------------------
(* Values of the constants                                                 *)

MCDigests == [[1 .. NSize -> 0 .. Base - 1] -> {0, 1}]

\* Extensions are interchangeable.
Symmetry == Permutations(Fd)
=============================================================================
