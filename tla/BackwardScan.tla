----------------------------- MODULE BackwardScan -----------------------------
(***************************************************************************)
(* The startup scan of one transcript, byte by byte: scan_file_backwards   *)
(* reads it in chunks from the end and stops at the first chunk that has   *)
(* an update.                                                              *)
(*                                                                         *)
(* A file is a sequence of bytes.  A row of the rate limit with time t is  *)
(* the line <<t, t>>, so that a chunk may end within it; every other line  *)
(* is one the parser ignores.  Lead and Cont are the two bytes of a        *)
(* character beyond ASCII: a text with one but not the other is no UTF-8.  *)
(* An update is told by its time.                                          *)
(***************************************************************************)
EXTENDS Integers, Sequences, FiniteSetsExt

CONSTANTS
  None, Newline, Lead, Cont,  \* model values
  Times,      \* the times of rows
  ChunkSize,  \* SCAN_CHUNK_SIZE
  MaxSize     \* bound: bytes of the file

ASSUME ChunkAssumption == ChunkSize \in Nat \ {0}
ASSUME TimesAssumption == Times \subseteq Nat
ASSUME BytesAssumption == {None, Newline, Cont} \cap Times = {} /\ Cont # Newline

Byte == Times \cup {Newline, Lead, Cont}

Has(text, byte) == \E i \in 1 .. Len(text) : text[i] = byte

\* std::str::from_utf8
Valid(text) ==
  \A i \in 1 .. Len(text) :
    /\ text[i] = Lead => i < Len(text) /\ text[i + 1] = Cont
    /\ text[i] = Cont => i > 1 /\ text[i - 1] = Lead

\* The places at which a line of the text is a row.
RowAt(text, i) ==
  /\ i < Len(text) /\ text[i] \in Times /\ text[i + 1] = text[i]
  /\ i = 1 \/ text[i - 1] = Newline
  /\ i + 1 = Len(text) \/ text[i + 2] = Newline

RowTimes(text) == {text[i] : i \in {k \in 1 .. Len(text) : RowAt(text, k)}}

\* newest_update_in_content
Newest(text) == IF RowTimes(text) = {} THEN None ELSE Max(RowTimes(text))

VARIABLES
  file,    \* the bytes that were there when the size was read
  pos,     \* current_pos
  carry,   \* carry_forward
  state,   \* "closed", "scanning", "done" or "failed"
  result,  \* the update returned
  odd      \* flips with every read, so that a repeated read is a step

vars == <<file, pos, carry, state, result, odd>>

Init ==
  /\ file \in UNION {[1 .. n -> Byte] : n \in 0 .. MaxSize}
  /\ pos = Len(file) /\ carry = <<>>
  /\ state = "scanning" /\ result = None /\ odd = FALSE

-------------------------------------------------------------------------------
ReadStart == IF pos > ChunkSize THEN pos - ChunkSize ELSE 0

\* Not the code: the carried bytes come before the chunk.
CarryFirst == carry \o SubSeq(file, ReadStart + 1, pos)

\* The chunk, and after it the beginning of the line that it ends with.
Buffer == SubSeq(file, ReadStart + 1, pos) \o carry

FirstNewline == Min({i \in 1 .. Len(Buffer) : Buffer[i] = Newline})

Return(update) ==
  /\ state' = "done" /\ result' = update
  /\ UNCHANGED <<file, pos, carry>>

\* The file is empty, or all of it was read.
NothingLeft == state = "scanning" /\ pos = 0 /\ Return(None)

\* The chunk lies inside one line.
WithinLine ==
  /\ state = "scanning" /\ ReadStart > 0 /\ ~Has(Buffer, Newline)
  /\ carry' = Buffer /\ pos' = ReadStart
  /\ UNCHANGED <<file, state, result>>

\* Not the code: the position stays where it is.
StandingChunk ==
  /\ state = "scanning" /\ ReadStart > 0 /\ Has(Buffer, Newline)
  /\ LET content == SubSeq(Buffer, FirstNewline, Len(Buffer))
     IN /\ Valid(content)
        /\ IF Newest(content) # None THEN Return(Newest(content))
           ELSE /\ carry' = SubSeq(Buffer, 1, FirstNewline - 1)
                /\ UNCHANGED <<file, pos, state, result>>

\* The lines after the first newline are complete, what precedes it is kept.
ScanChunk ==
  /\ state = "scanning" /\ ReadStart > 0 /\ Has(Buffer, Newline)
  /\ LET content == SubSeq(Buffer, FirstNewline, Len(Buffer))
     IN /\ Valid(content)
        /\ IF Newest(content) # None THEN Return(Newest(content))
           ELSE /\ carry' = SubSeq(Buffer, 1, FirstNewline - 1)
                /\ pos' = ReadStart
                /\ UNCHANGED <<file, state, result>>

\* Text that is not UTF-8 is skipped; the position stays where it is.
SkipChunk ==
  /\ state = "scanning" /\ ReadStart > 0 /\ Has(Buffer, Newline)
  /\ ~Valid(SubSeq(Buffer, FirstNewline, Len(Buffer)))
  /\ carry' = SubSeq(Buffer, 1, FirstNewline - 1)
  /\ UNCHANGED <<file, pos, state, result>>

\* The beginning of the file: all of it is complete lines.
ScanFirstChunk ==
  /\ state = "scanning" /\ pos > 0 /\ ReadStart = 0
  /\ Return(IF Valid(Buffer) THEN Newest(Buffer) ELSE None)

\* An I/O error: the caller goes on with the next file.
ReadFails ==
  /\ state = "scanning" /\ state' = "failed"
  /\ UNCHANGED <<file, pos, carry, result>>

Iterate ==
  /\ NothingLeft \/ WithinLine \/ ScanChunk \/ SkipChunk \/ ScanFirstChunk
  /\ odd' = ~odd

Next == Iterate \/ (ReadFails /\ UNCHANGED odd)

Spec == Init /\ [][Next]_vars /\ WF_vars(Iterate)

-------------------------------------------------------------------------------
LineStarts == {k \in 1 .. Len(file) : k = 1 \/ file[k - 1] = Newline}

\* The update returned is the newest one of some complete last lines of the
\* file, and None only if the whole file has no row: what the startup step of
\* the lockout monitor takes for granted.  With rows in the order of their
\* times it is the newest of the file.
StopsAtASuffix ==
  state = "done" /\ Valid(file) =>
    IF RowTimes(file) = {} THEN result = None
    ELSE \E k \in LineStarts :
           result # None /\ result = Newest(SubSeq(file, k, Len(file)))

\* The scan of a text in UTF-8 ends.
ValidScanEnds == Valid(file) ~> state # "scanning"

\* Every scan ends: a chunk that is not valid UTF-8 can be "safely" skipped.
ScanEnds == <>(state # "scanning")
===============================================================================
