------------------------------ MODULE Terminal ------------------------------
(***************************************************************************)
(* What the console promises the programs that read it: a line being       *)
(* edited, from which erasing takes characters back until it is entered,   *)
(* and a queue of entered characters that reads take from the front.       *)
(* Together they hold at most Capacity characters.                         *)
(*                                                                         *)
(* A read goes on until it has what it wants, a newline, or the end of a   *)
(* file; it returns the number of characters it stored.  An end-of-file    *)
(* mark stays in the queue until a read meets it first thing, so that some *)
(* read returns 0 for every mark.                                          *)
(***************************************************************************)
EXTENDS Integers, Sequences, SequencesExt

CONSTANTS
  Capacity,
  Chars,        \* what can be typed
  NL, EOF,      \* newline, and the end-of-file mark
  Readers,
  Sizes         \* what a read may want

VARIABLES
  line, queue,
  read          \* each reader's read: open or not, want, text, answer

(* A character the line editor takes: the line is entered by NL, by EOF    *)
(* and when there is no room for more.                                     *)
Type(c) ==
  /\ Len(queue) + Len(line) < Capacity
  /\ IF c \in {NL, EOF} \/ Len(queue) + Len(line) + 1 = Capacity
     THEN queue' = queue \o Append(line, c) /\ line' = <<>>
     ELSE line' = Append(line, c) /\ UNCHANGED queue
  /\ UNCHANGED read

Erase ==
  /\ line # <<>>
  /\ line' = Front(line)
  /\ UNCHANGED <<queue, read>>

EraseLine ==
  /\ line' = <<>>
  /\ UNCHANGED <<queue, read>>

Open(r) == \E n \in Sizes :
  /\ ~read[r].open
  /\ read' = [read EXCEPT ![r] =
                [open |-> TRUE, want |-> n, text |-> <<>>, answer |-> 0]]
  /\ UNCHANGED <<line, queue>>

Wants(r) == read[r].open /\ Len(read[r].text) < read[r].want

Close(r, value) == read' = [read EXCEPT ![r].open = FALSE, ![r].answer = value]

Satisfied(r) ==
  /\ read[r].open /\ Len(read[r].text) = read[r].want
  /\ Close(r, read[r].want)
  /\ UNCHANGED <<line, queue>>

(* The next character; a newline is the last one of its read. *)
Give(r) ==
  LET text == Append(read[r].text, Head(queue))
      last == Head(queue) = NL
  IN  /\ Wants(r) /\ queue # <<>> /\ Head(queue) # EOF
      /\ read' = [read EXCEPT ![r].text = text, ![r].open = ~last,
                              ![r].answer = IF last THEN Len(text) ELSE @]
      /\ queue' = Tail(queue)
      /\ UNCHANGED line

(* A reader without room in its memory: the character is lost. *)
Lose(r) ==
  /\ Wants(r) /\ queue # <<>> /\ Head(queue) # EOF
  /\ Close(r, Len(read[r].text))
  /\ queue' = Tail(queue)
  /\ UNCHANGED line

EndOfFile(r) ==
  /\ Wants(r) /\ queue # <<>> /\ Head(queue) = EOF
  /\ Close(r, Len(read[r].text))
  /\ queue' = IF read[r].text = <<>> THEN Tail(queue) ELSE queue
  /\ UNCHANGED line

(* A reader that is killed gives up when there is nothing for it. *)
GiveUp(r) ==
  /\ Wants(r) /\ queue = <<>>
  /\ Close(r, -1)
  /\ UNCHANGED <<line, queue>>

TerminalInit ==
  /\ line = <<>> /\ queue = <<>>
  /\ read = [r \in Readers |->
               [open |-> FALSE, want |-> 0, text |-> <<>>, answer |-> 0]]

TerminalNext ==
  \/ \E c \in Chars : Type(c)
  \/ Erase \/ EraseLine
  \/ \E r \in Readers :
       \/ Open(r) \/ Satisfied(r) \/ Give(r) \/ Lose(r) \/ EndOfFile(r)
       \/ GiveUp(r)

TerminalSpec == TerminalInit /\ [][TerminalNext]_<<line, queue, read>>

=============================================================================
