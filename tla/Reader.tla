------------------------------- MODULE Reader -------------------------------
(***************************************************************************)
(* How the service thread of hw5 reads a command: read_message (server.c), *)
(* character by character, into a buffer that grows.  Characters are       *)
(* classes: "cr", "lf", "ff" and others; "ff" is the end of the input or   *)
(* the byte 255, which as a char is equal to EOF.  The heap around the     *)
(* buffer is not modelled: a store that is not in the buffer is recorded   *)
(* and ends the behaviour.                                                 *)
(***************************************************************************)
EXTENDS Integers, Sequences

CONSTANTS
  Chars,     \* the characters that clients send
  Initial,   \* first size of the buffer, 1024 in the code
  MaxRead    \* bound: characters that one call reads

ASSUME ReaderAssumption == Initial \in Nat \ {0}

VARIABLES
  read,      \* what this call has read from the stream
  buffer,    \* what it has stored, up to ptr
  len,       \* the size of the buffer
  countlen,
  moved,     \* realloc has moved the buffer, and ptr leads to the old one
  outcome    \* "reading", "line", "eof", or "fault": a store outside the buffer

readerVars == <<read, buffer, len, countlen, moved, outcome>>

ReaderInit ==
  /\ read = <<>> /\ buffer = <<>> /\ len = Initial /\ countlen = 0
  /\ moved = FALSE /\ outcome = "reading"

\* The buffer is doubled when countlen meets its end exactly; whether realloc
\* moves it is up to the heap.
Grown == IF countlen = len - 1 THEN 2 * len ELSE len
MayMove == IF countlen = len - 1 THEN BOOLEAN ELSE {moved}

\* A store through ptr, which is Len(buffer) characters into the buffer.
Fault(place) == moved' \/ place >= len'

End(how) == outcome' = how /\ UNCHANGED <<buffer, countlen>>

\* Mutant: a carriage return is not part of the line.
ReadReturnDropped(c, d) ==
  /\ len' = Grown /\ moved' \in MayMove
  /\ read' = read \o <<c, d>>
  /\ CASE Fault(Len(buffer)) -> End("fault")
       [] ~Fault(Len(buffer)) /\ d = "lf" -> End("line")
       [] ~Fault(Len(buffer)) /\ d = "ff" -> End("eof")
       [] OTHER -> /\ outcome' = IF Fault(Len(buffer) + 1) THEN "fault" ELSE "reading"
                   /\ buffer' = Append(buffer, d)
                   /\ countlen' = countlen + 1

\* Mutant: the second character is not counted.
ReadReturnUncounted(c, d) ==
  /\ len' = Grown /\ moved' \in MayMove
  /\ read' = read \o <<c, d>>
  /\ CASE Fault(Len(buffer)) -> End("fault")
       [] ~Fault(Len(buffer)) /\ d = "lf" -> End("line")
       [] ~Fault(Len(buffer)) /\ d = "ff" -> End("eof")
       [] OTHER -> /\ outcome' = IF Fault(Len(buffer) + 1) THEN "fault" ELSE "reading"
                   /\ buffer' = buffer \o <<c, d>>
                   /\ countlen' = countlen + 1

\* After a carriage return the next character is read at once; unless it is a
\* line feed, it is stored without being looked at.
ReadReturn(c, d) ==
  /\ len' = Grown /\ moved' \in MayMove
  /\ read' = read \o <<c, d>>
  /\ CASE Fault(Len(buffer)) -> End("fault")
       [] ~Fault(Len(buffer)) /\ d = "lf" -> End("line")
       [] ~Fault(Len(buffer)) /\ d = "ff" -> End("eof")
       [] OTHER -> /\ outcome' = IF Fault(Len(buffer) + 1) THEN "fault" ELSE "reading"
                   /\ buffer' = buffer \o <<c, d>>
                   /\ countlen' = countlen + 2

ReadChar(c) ==
  /\ len' = Grown /\ moved' \in MayMove
  /\ read' = Append(read, c)
  /\ CASE Fault(Len(buffer)) -> End("fault")
       [] ~Fault(Len(buffer)) /\ c = "ff" -> End("eof")
       [] OTHER -> /\ outcome' = "reading"
                   /\ buffer' = Append(buffer, c)
                   /\ countlen' = countlen + 1

ReaderNext ==
  /\ outcome = "reading" /\ Len(read) < MaxRead
  /\ \/ \E d \in Chars : ReadReturn("cr", d)
     \/ \E c \in Chars \ {"cr"} : ReadChar(c)

ReaderSpec == ReaderInit /\ [][ReaderNext]_readerVars

-----------------------------------------------------------------------------
\* A pair of carriage return and line feed ends the line, unless the carriage
\* return was taken by the one before it: before the end the line is in the
\* buffer, unchanged, and no byte in it was 255, which passes for the end of input.
LineIsRead ==
  /\ outcome = "line" => read = buffer \o <<"cr", "lf">>
  /\ outcome = "reading" => read = buffer /\ countlen = Len(buffer)
  /\ (outcome = "eof") <=> (outcome # "fault" /\ \E i \in DOMAIN read : read[i] = "ff")

\* A store outside the buffer needs a line as long as the buffer, which realloc
\* has then moved, or whose end two characters at once have passed unseen
\* (server.c:72, 78, 102).
FaultNeedsLongLine ==
  outcome = "fault" => Len(read) >= Initial /\ (moved \/ countlen = len)
=============================================================================
