------------------------------- MODULE LinePump -------------------------------
(***************************************************************************)
(* pump_raw_output: the child's output is copied as it comes and, besides, *)
(* cut into lines for the parser.  A line longer than MaxLine or not in    *)
(* UTF-8 is not for the parser, and one that finds the channel full is     *)
(* lost.                                                                   *)
(*                                                                         *)
(* The output is a sequence of bytes that arrives in reads of any length;  *)
(* Bad is a byte that makes its line invalid UTF-8.  The trailing carriage *)
(* return of a line is left out.                                           *)
(***************************************************************************)
EXTENDS Integers, Sequences, FiniteSetsExt

CONSTANTS
  Newline, Letter, Bad,   \* model values: the bytes
  BufSize,                \* the read buffer
  MaxLine,                \* MAX_PARSER_LINE_BYTES
  Capacity,               \* places of the line channel
  MaxSize                 \* bound: bytes of the output

ASSUME SizesAssumption ==
  /\ {BufSize, Capacity} \subseteq Nat \ {0}
  /\ {MaxLine, MaxSize} \subseteq Nat

Byte == {Newline, Letter, Bad}

Has(text, byte) == \E i \in 1 .. Len(text) : text[i] = byte

VARIABLES
  stream,     \* what the child writes before it closes the pipe
  read,       \* how many bytes were read, and forwarded, so far
  chunk,      \* what is left of the last read
  pending,    \* the beginning of the line the last read ended in
  discard,    \* discard_until_newline
  state,      \* "pumping" or "ended"
  channel,    \* lines on their way to the parser
  parsed,     \* lines the parser got
  lost        \* how many lines found the channel full

vars == <<stream, read, chunk, pending, discard, state, channel, parsed, lost>>

Init ==
  /\ stream \in UNION {[1 .. n -> Byte] : n \in 0 .. MaxSize}
  /\ read = 0 /\ chunk = <<>> /\ pending = <<>> /\ discard = FALSE
  /\ state = "pumping" /\ channel = <<>> /\ parsed = <<>> /\ lost = 0

-------------------------------------------------------------------------------
Rest(n) == SubSeq(chunk, n + 1, Len(chunk))

FirstNewline == Min({i \in 1 .. Len(chunk) : chunk[i] = Newline})

\* remaining_capacity
Remaining == MaxLine - Len(pending)

Read(n) ==
  /\ state = "pumping" /\ chunk = <<>> /\ read + n <= Len(stream)
  /\ chunk' = SubSeq(stream, read + 1, read + n) /\ read' = read + n
  /\ UNCHANGED <<stream, pending, discard, state, channel, parsed, lost>>

\* A read of no bytes; the line that has no end yet is dropped.
EndOfStream ==
  /\ state = "pumping" /\ chunk = <<>> /\ read = Len(stream)
  /\ state' = "ended"
  /\ UNCHANGED <<stream, read, chunk, pending, discard, channel, parsed, lost>>

\* The read fails, or the copy of what was read.
PumpFails ==
  /\ state = "pumping" /\ chunk = <<>>
  /\ state' = "ended"
  /\ UNCHANGED <<stream, read, chunk, pending, discard, channel, parsed, lost>>

\* The rest of a line that was too long.
Discard ==
  /\ chunk # <<>> /\ discard
  /\ IF Has(chunk, Newline) THEN chunk' = Rest(FirstNewline) /\ discard' = FALSE
     ELSE chunk' = <<>> /\ UNCHANGED discard
  /\ UNCHANGED <<stream, read, pending, state, channel, parsed, lost>>

\* try_send
Offer(line) ==
  IF Len(channel) < Capacity THEN channel' = Append(channel, line) /\ UNCHANGED lost
  ELSE lost' = lost + 1 /\ UNCHANGED channel

\* A newline: the line is offered if it fits and is valid.
EndLine ==
  /\ chunk # <<>> /\ ~discard /\ Has(chunk, Newline)
  /\ LET piece == SubSeq(chunk, 1, FirstNewline - 1)
     IN IF Len(piece) > Remaining \/ Has(pending \o piece, Bad)
          THEN UNCHANGED <<channel, lost>>
          ELSE Offer(pending \o piece)
  /\ pending' = <<>> /\ chunk' = Rest(FirstNewline)
  /\ UNCHANGED <<stream, read, discard, state, parsed>>

\* No newline, and what there is fits.
KeepPiece ==
  /\ chunk # <<>> /\ ~discard /\ ~Has(chunk, Newline) /\ Len(chunk) <= Remaining
  /\ pending' = pending \o chunk /\ chunk' = <<>>
  /\ UNCHANGED <<stream, read, discard, state, channel, parsed, lost>>

\* Not the code: the line is given up, but not what follows of it.
DropPieceOnly ==
  /\ chunk # <<>> /\ ~discard /\ ~Has(chunk, Newline) /\ Len(chunk) > Remaining
  /\ pending' = <<>> /\ chunk' = Rest(Remaining)
  /\ UNCHANGED <<stream, read, discard, state, channel, parsed, lost>>

\* No newline, and the line has become too long.
DropPiece ==
  /\ chunk # <<>> /\ ~discard /\ ~Has(chunk, Newline) /\ Len(chunk) > Remaining
  /\ pending' = <<>> /\ discard' = TRUE /\ chunk' = Rest(Remaining)
  /\ UNCHANGED <<stream, read, state, channel, parsed, lost>>

\* The parser's recv().
Parse ==
  /\ channel # <<>>
  /\ parsed' = Append(parsed, Head(channel)) /\ channel' = Tail(channel)
  /\ UNCHANGED <<stream, read, chunk, pending, discard, state, lost>>

Next ==
  \/ \E n \in 1 .. BufSize : Read(n)
  \/ EndOfStream \/ PumpFails \/ Discard \/ EndLine \/ KeepPiece \/ DropPiece \/ Parse

Spec == Init /\ [][Next]_vars

-------------------------------------------------------------------------------
\* The place after the last newline before place i of a text.
LineStart(text, i) ==
  LET ends == {k \in 1 .. i - 1 : text[k] = Newline}
  IN IF ends = {} THEN 1 ELSE Max(ends) + 1

\* The line that ends at place i.
LineEnding(text, i) == SubSeq(text, LineStart(text, i), i - 1)

ForParser(line) == Len(line) <= MaxLine /\ ~Has(line, Bad)

\* Of the first n bytes of a text, for every n, the lines that are for the parser.
DueLines(text) ==
  LET due[n \in 0 .. Len(text)] ==
        IF n = 0 THEN <<>>
        ELSE IF text[n] = Newline /\ ForParser(LineEnding(text, n))
          THEN Append(due[n - 1], LineEnding(text, n))
        ELSE due[n - 1]
  IN due

\* How many bytes the pump has cut into lines so far.
Consumed == read - Len(chunk)

\* However the output is cut into reads, the parser gets the complete lines
\* that are in UTF-8 and not too long, in their order, but for those that found
\* its channel full; of a line that is too long no part is taken for a line.
LinesAsWritten ==
  LET due == DueLines(stream)[Consumed]
      got == parsed \o channel
  IN IF lost = 0 THEN got = due
     ELSE /\ Len(got) + lost = Len(due)
          /\ \E from \in [1 .. Len(got) -> 1 .. Len(due)] :
               /\ \A i \in 1 .. Len(got) : got[i] = due[from[i]]
               /\ \A i, j \in 1 .. Len(got) : i < j => from[i] < from[j]
===============================================================================
