------------------------- MODULE TranscriptScanProofs --------------------------
(***************************************************************************)
(* The two scans of a transcript, proved for every text, every chunk size  *)
(* and every overlap: the startup scan returns the newest row of some      *)
(* complete last lines, the slice of a text in UTF-8 is in UTF-8, and no   *)
(* row that is written later is overlooked.                                *)
(***************************************************************************)
EXTENDS TranscriptScan, SequenceTheorems, WellFoundedInduction, TLAPS

-------------------------------------------------------------------------------
(* Least and greatest elements.                                            *)

\* A set of naturals has a least element.
LEMMA LeastExists ==
  ASSUME NEW S \in SUBSET Nat, S # {}
  PROVE  \E least \in S : \A other \in S : least <= other
<1>1. \E least \in S : \A other \in S : ~(<<other, least>> \in OpToRel(<, Nat))
  BY NatLessThanWellFounded, WFMin
<1>2. PICK least \in S : \A other \in S : ~(<<other, least>> \in OpToRel(<, Nat))
  BY <1>1
<1>3. ASSUME NEW other \in S PROVE least <= other
  <2>1. other < least => <<other, least>> \in {pair \in Nat \X Nat : pair[1] < pair[2]}
    OBVIOUS
  <2>2. ~(other < least)
    BY <1>2, <2>1 DEF OpToRel
  <2>3. other \in Nat /\ least \in Nat
    OBVIOUS
  <2> QED
    BY <2>2, <2>3
<1> QED
  BY <1>3

\* The operator Min finds it.
LEMMA MinType ==
  ASSUME NEW S \in SUBSET Nat, S # {}
  PROVE  Min(S) \in S /\ \A other \in S : Min(S) <= other
  BY LeastExists DEF Min

\* The rows of a text have a latest one, by a minimal counterexample.
LEMMA TimesAreBounded ==
  ASSUME NEW text \in Seq(Byte)
  PROVE  \E bound \in Nat : \A time \in RowTimes(text) : time <= bound
<1> DEFINE Bounded(n) == \E bound \in Nat : \A i \in 1 .. n : text[i] \in Times => text[i] <= bound
           Unbounded == {n \in 0 .. Len(text) : ~Bounded(n)}
<1>1. ASSUME Unbounded # {} PROVE FALSE
  <2>1. Unbounded \subseteq Nat
    OBVIOUS
  <2>2. PICK n \in Unbounded : \A m \in Unbounded : n <= m
    BY <1>1, <2>1, LeastExists
  <2>3. n \in 0 .. Len(text) /\ ~Bounded(n)
    BY <2>2
  <2>4. n # 0
    <3>1. 0 \in Nat /\ \A i \in 1 .. 0 : text[i] \in Times => text[i] <= 0
      OBVIOUS
    <3> QED
      BY <2>3, <3>1
  <2>5. n - 1 \in 0 .. Len(text) /\ n - 1 \notin Unbounded
    <3>1. n \in Nat /\ n <= Len(text) /\ n - 1 < n /\ n - 1 \in 0 .. Len(text)
      BY <2>3, <2>4
    <3>2. n - 1 \in Unbounded => n <= n - 1
      BY <2>2
    <3> HIDE DEF Unbounded
    <3> QED
      BY <3>1, <3>2
  <2>6. PICK bound \in Nat : \A i \in 1 .. n - 1 : text[i] \in Times => text[i] <= bound
    BY <2>5
  <2>7. PICK higher \in Nat : higher >= bound /\ (text[n] \in Times => text[n] <= higher)
    <3>1. CASE text[n] \notin Times
      <4>1. bound >= bound
        OBVIOUS
      <4> QED
        BY <3>1, <4>1
    <3>2. CASE text[n] \in Times
      <4>1. PICK time \in Nat : time = text[n]
        BY <3>2, TimesAssumption
      <4>2. \E higher \in Nat : higher >= bound /\ time <= higher
        <5>1. bound + time \in Nat /\ bound + time >= bound /\ time <= bound + time
          OBVIOUS
        <5> QED
          BY <5>1
      <4> QED
        BY <4>1, <4>2
    <3> QED
      BY <3>1, <3>2
  <2>8. \A i \in 1 .. n : text[i] \in Times => text[i] <= higher
    <3> SUFFICES ASSUME NEW i \in 1 .. n, text[i] \in Times PROVE text[i] <= higher
      OBVIOUS
    <3>1. text[i] \in Nat
      BY TimesAssumption
    <3>2. CASE i = n
      BY <2>7, <3>2
    <3>3. CASE i \in 1 .. n - 1
      <4>1. text[i] <= bound /\ bound <= higher
        BY <2>6, <2>7, <3>3
      <4>2. bound \in Nat /\ higher \in Nat
        OBVIOUS
      <4>3. PICK time \in Nat : time = text[i]
        BY <3>1
      <4>4. time <= bound /\ bound <= higher
        BY <4>1, <4>3
      <4>5. time <= higher
        BY <4>2, <4>4
      <4> QED
        BY <4>3, <4>5
    <3> QED
      BY <2>3, <3>2, <3>3
  <2> QED
    BY <2>3, <2>8
<1>2. Len(text) \in 0 .. Len(text)
  OBVIOUS
<1>3. PICK bound \in Nat : \A i \in 1 .. Len(text) : text[i] \in Times => text[i] <= bound
  BY <1>1, <1>2
<1> QED
  BY <1>3 DEF RowTimes, RowAt

\* A text with rows has a newest one, and only such a text.
LEMMA NewestType ==
  ASSUME NEW text \in Seq(Byte)
  PROVE  /\ RowTimes(text) = {} => Newest(text) = None
         /\ RowTimes(text) # {} => Newest(text) \in RowTimes(text) /\ Newest(text) # None
         /\ \A time \in RowTimes(text) : time <= Newest(text)
<1>1. RowTimes(text) \subseteq Times
  BY DEF RowTimes, RowAt
<1>2. ASSUME RowTimes(text) # {} 
       PROVE  /\ Max(RowTimes(text)) \in RowTimes(text)
              /\ \A time \in RowTimes(text) : time <= Max(RowTimes(text))
  <2>1. PICK bound \in Nat : \A time \in RowTimes(text) : time <= bound
    BY TimesAreBounded
  <2> DEFINE Gaps == {bound - time : time \in RowTimes(text)}
  <2>2. Gaps \subseteq Nat /\ Gaps # {}
    <3>1. ASSUME NEW time \in RowTimes(text) PROVE bound - time \in Nat
      <4>1. time \in Nat /\ time <= bound
        BY <1>1, <2>1, TimesAssumption
      <4> QED
        BY <4>1
    <3> QED
      BY <1>2, <3>1
  <2>3. PICK gap \in Gaps : \A other \in Gaps : gap <= other
    BY <2>2, LeastExists
  <2>4. PICK last \in RowTimes(text) : gap = bound - last
    BY <2>3
  <2>5. \A time \in RowTimes(text) : last >= time
    <3> SUFFICES ASSUME NEW time \in RowTimes(text) PROVE last >= time
      OBVIOUS
    <3>1. gap <= bound - time
      BY <2>3
    <3>2. last \in Nat /\ time \in Nat
      BY <1>1, TimesAssumption
    <3> QED
      BY <2>4, <3>1, <3>2
  <2>6. Max(RowTimes(text)) \in RowTimes(text)
        /\ \A time \in RowTimes(text) : Max(RowTimes(text)) >= time
    BY <2>5 DEF Max
  <2>7. \A time \in RowTimes(text) : time \in Nat
    BY <1>1, TimesAssumption
  <2> QED
    BY <2>6, <2>7
<1>3. None \notin RowTimes(text)
  BY <1>1, BytesAssumption
<1> QED
  BY <1>2, <1>3 DEF Newest

-------------------------------------------------------------------------------
(* A window of a text.                                                     *)

\* Where a window may begin and end so that no line is cut.
LineBegins(text, first) ==
  first = 1 \/ first = Len(text) + 1 \/ text[first - 1] = Newline \/ text[first] = Newline
LineEnds(text, last) == last = Len(text) \/ text[last + 1] = Newline

\* A window has the bytes of the text from its first to its last place.
LEMMA WindowBytes ==
  ASSUME NEW text \in Seq(Byte), NEW first \in Nat, NEW last \in Nat,
         1 <= first, first <= last + 1, last <= Len(text)
  PROVE  /\ SubSeq(text, first, last) \in Seq(Byte)
         /\ Len(SubSeq(text, first, last)) = last - first + 1
         /\ \A i \in 1 .. last - first + 1 : SubSeq(text, first, last)[i] = text[first + i - 1]
  OBVIOUS

\* Its rows are the rows of the text that lie within it.
LEMMA WindowRows ==
  ASSUME NEW text \in Seq(Byte), NEW first \in Nat, NEW last \in Nat,
         1 <= first, first <= last + 1, last <= Len(text),
         LineBegins(text, first), LineEnds(text, last)
  PROVE  RowTimes(SubSeq(text, first, last)) = {text[j] : j \in {k \in first .. last : RowAt(text, k)}}
<1> DEFINE window == SubSeq(text, first, last)
<1>1. /\ window \in Seq(Byte) /\ Len(window) = last - first + 1
      /\ \A i \in 1 .. last - first + 1 : window[i] = text[first + i - 1]
  BY WindowBytes
<1> HIDE DEF window
<1>2. ASSUME NEW i \in 1 .. last - first + 1
      PROVE  RowAt(window, i) <=> RowAt(text, first + i - 1)
  <2>1. first + i - 1 \in first .. last /\ window[i] = text[first + i - 1]
    BY <1>1
  <2>2. CASE i = last - first + 1
    <3>1. ~RowAt(window, i)
      BY <1>1, <2>2 DEF RowAt
    <3>2. ~RowAt(text, last)
      BY BytesAssumption DEF RowAt, LineEnds
    <3> QED
      BY <2>2, <3>1, <3>2
  <2>3. CASE i < last - first + 1
    <3>1. window[i + 1] = text[first + i] /\ i < Len(window) /\ first + i - 1 < Len(text)
      BY <1>1, <2>3
    <3>2. window[i] \in Times =>
            (i = 1 \/ window[i - 1] = Newline <=> first + i - 1 = 1 \/ text[first + i - 2] = Newline)
      <4>1. CASE i = 1
        BY <2>1, <4>1, BytesAssumption DEF LineBegins
      <4>2. CASE i # 1
        <5>1. window[i - 1] = text[first + i - 2]
          BY <1>1, <4>2
        <5> QED
          BY <4>2, <5>1
      <4> QED
        BY <4>1, <4>2
    <3>3. i + 1 = Len(window) \/ window[i + 2] = Newline
            <=> first + i = Len(text) \/ text[first + i + 1] = Newline
      <4>1. CASE i + 1 = Len(window)
        BY <1>1, <4>1 DEF LineEnds
      <4>2. CASE i + 1 # Len(window)
        <5>1. window[i + 2] = text[first + i + 1] /\ first + i < Len(text)
          BY <1>1, <2>3, <4>2
        <5> QED
          BY <4>2, <5>1
      <4> QED
        BY <4>1, <4>2
    <3> QED
      BY <2>1, <3>1, <3>2, <3>3 DEF RowAt
  <2> QED
    BY <1>1, <2>2, <2>3
<1>3. RowTimes(window) \subseteq {text[j] : j \in {k \in first .. last : RowAt(text, k)}}
  <2> SUFFICES ASSUME NEW i \in 1 .. Len(window), RowAt(window, i)
               PROVE  \E j \in first .. last : RowAt(text, j) /\ window[i] = text[j]
    BY DEF RowTimes
  <2>1. first + i - 1 \in first .. last
    BY <1>1
  <2> QED
    BY <1>1, <1>2, <2>1
<1>4. {text[j] : j \in {k \in first .. last : RowAt(text, k)}} \subseteq RowTimes(window)
  <2> SUFFICES ASSUME NEW j \in first .. last, RowAt(text, j)
               PROVE  \E i \in 1 .. Len(window) : RowAt(window, i) /\ window[i] = text[j]
    BY DEF RowTimes
  <2>1. j - first + 1 \in 1 .. last - first + 1 /\ first + (j - first + 1) - 1 = j
    OBVIOUS
  <2>2. RowAt(window, j - first + 1) /\ window[j - first + 1] = text[j]
    BY <1>1, <1>2, <2>1
  <2> QED
    BY <1>1, <2>1, <2>2
<1> QED
  BY <1>3, <1>4 DEF window

\* A window that cuts no character is in UTF-8 when the text is.
LEMMA WindowIsValid ==
  ASSUME NEW text \in Seq(Byte), NEW first \in Nat, NEW last \in Nat,
         1 <= first, first <= last + 1, last <= Len(text), Valid(text),
         first <= last => first = 1 \/ text[first] # Cont,
         last = Len(text) \/ text[last + 1] # Cont
  PROVE  Valid(SubSeq(text, first, last))
<1> DEFINE window == SubSeq(text, first, last)
<1>1. /\ Len(window) = last - first + 1
      /\ \A i \in 1 .. last - first + 1 : window[i] = text[first + i - 1]
  BY WindowBytes
<1> HIDE DEF window
<1>2. ASSUME NEW i \in 1 .. last - first + 1, window[i] = Lead
      PROVE  i < Len(window) /\ window[i + 1] = Cont
  <2>1. first + i - 1 \in 1 .. Len(text) /\ text[first + i - 1] = Lead
    <3>1. first + i - 1 \in 1 .. Len(text)
      OBVIOUS
    <3> QED
      BY <1>1, <1>2, <3>1
  <2>2. first + i - 1 < Len(text) /\ text[first + i - 1 + 1] = Cont
    BY <2>1 DEF Valid
  <2>3. first + i - 1 # last
    BY <2>2
  <2> QED
    BY <1>1, <2>2, <2>3
<1>3. ASSUME NEW i \in 1 .. last - first + 1, window[i] = Cont
      PROVE  i > 1 /\ window[i - 1] = Lead
  <2>1. first + i - 1 \in 1 .. Len(text) /\ text[first + i - 1] = Cont
    <3>1. first + i - 1 \in 1 .. Len(text)
      OBVIOUS
    <3> QED
      BY <1>1, <1>3, <3>1
  <2>2. first + i - 1 > 1 /\ text[first + i - 1 - 1] = Lead
    BY <2>1 DEF Valid
  <2>3. i # 1
    BY <2>1, <2>2
  <2> QED
    BY <1>1, <2>2, <2>3
<1> QED
  BY <1>1, <1>2, <1>3 DEF Valid, window

\* A window of a window is one of the text.
LEMMA WindowOfWindow ==
  ASSUME NEW text \in Seq(Byte), NEW first \in Nat, NEW last \in Nat,
         1 <= first, first <= last + 1, last <= Len(text),
         NEW from \in Nat, NEW to \in Nat, 1 <= from, from <= to + 1, to <= last - first + 1
  PROVE  SubSeq(SubSeq(text, first, last), from, to) = SubSeq(text, first + from - 1, first + to - 1)
<1>1. CASE from > to
  BY <1>1, SubSeqEmpty
<1>2. CASE from <= to
  <2>1. first \in 1 .. Len(text) /\ last \in 1 .. Len(text)
    BY <1>2
  <2>2. from \in 1 .. last - first + 1 /\ to \in 1 .. last - first + 1
    BY <1>2
  <2> QED
    BY <2>1, <2>2, SubSeqOfSubSeq
<1> QED
  BY <1>1, <1>2

-------------------------------------------------------------------------------
(* The slice of a scan at an event.                                        *)

\* It begins within the text, and not within a character.
LEMMA SliceBegins ==
  ASSUME NEW text \in Seq(Byte), NEW old \in Nat
  PROVE  /\ Start(text, old) \in 0 .. Len(text)
         /\ Start(text, old) = Len(text) \/ text[Start(text, old) + 1] # Cont
<1> DEFINE from == IF old > Overlap THEN old - Overlap ELSE 0
           first == Min({from, Len(text)})
           later == {k \in first .. Len(text) : k = Len(text) \/ text[k + 1] # Cont}
<1>1. from \in Nat /\ Len(text) \in Nat
  BY OverlapAssumption
<1> HIDE DEF from
<1>2. first \in 0 .. Len(text)
  <2>1. {from, Len(text)} \in SUBSET Nat /\ {from, Len(text)} # {}
    BY <1>1
  <2>2. first \in {from, Len(text)} /\ first <= Len(text)
    BY <2>1, MinType
  <2> QED
    BY <1>1, <2>2
<1> HIDE DEF first
<1>3. later \in SUBSET Nat /\ Len(text) \in later
  BY <1>1, <1>2
<1>4. Min(later) \in later
  BY <1>3, MinType
<1>5. Start(text, old) = Min(later)
  BY DEF Start, from, first
<1> QED
  BY <1>2, <1>4, <1>5

\* What a text in UTF-8 is cut to is in UTF-8.
LEMMA SliceIsValid ==
  ASSUME NEW text \in Seq(Byte), NEW old \in Nat, Valid(text)
  PROVE  Valid(ScanSlice(text, old))
<1> DEFINE first == Start(text, old) + 1
<1>1. /\ first \in Nat /\ 1 <= first /\ first <= Len(text) + 1 /\ Len(text) \in Nat
      /\ first <= Len(text) => text[first] # Cont
  <2>1. /\ Start(text, old) \in 0 .. Len(text) /\ Len(text) \in Nat
        /\ Start(text, old) = Len(text) \/ text[Start(text, old) + 1] # Cont
    BY SliceBegins
  <2> QED
    BY <2>1
<1> HIDE DEF first
<1>2. Valid(SubSeq(text, first, Len(text)))
  BY <1>1, WindowIsValid
<1> QED
  BY <1>2 DEF ScanSlice, first

-------------------------------------------------------------------------------
(* The inductive invariant.                                                *)

Types ==
  /\ disk \in Seq(Byte) /\ rest \in Seq(Byte) /\ file \in Seq(Byte) /\ carry \in Seq(Byte)
  /\ pos \in Nat /\ cached \in Nat /\ size \in Nat

\* Before the startup scan nothing is carried.
Closed ==
  /\ phase \in {"start", "sized"} => state = "closed"
  /\ state = "closed" => carry = <<>>

\* All complete lines behind the carried bytes are read and have no row.
ReadBehind(last) ==
  /\ carry = SubSeq(file, pos + 1, last) /\ LineEnds(file, last)
  /\ \A k \in last + 1 .. Len(file) : ~RowAt(file, k)

Reading ==
  state = "scanning" =>
    /\ pos <= Len(file) /\ (pos = 0 => file = <<>>)
    /\ Valid(file) => \E last \in pos .. Len(file) : ReadBehind(last)

IInv == Types /\ Closed /\ Reading /\ StopsAtASuffix

\* The buffer of a chunk is a window of the file.
LEMMA BufferIsWindow ==
  ASSUME Types, NEW last \in pos .. Len(file), pos <= Len(file), ReadBehind(last)
  PROVE  /\ ReadStart \in 0 .. pos /\ Buffer = SubSeq(file, ReadStart + 1, last)
         /\ Buffer \in Seq(Byte) /\ Len(Buffer) = last - ReadStart
         /\ \A i \in 1 .. Len(Buffer) : Buffer[i] = file[ReadStart + i]
<1>1. ReadStart \in 0 .. pos
  BY ChunkAssumption DEF ReadStart, Types
<1>2. /\ ReadStart + 1 \in 1 .. Len(file) + 1 /\ pos \in (ReadStart + 1) - 1 .. Len(file)
      /\ last \in pos .. Len(file) /\ file \in Seq(Byte)
  BY <1>1 DEF Types
<1>3. Buffer = SubSeq(file, ReadStart + 1, last)
  BY <1>2, ConcatAdjacentSubSeq DEF Buffer, ReadBehind
<1>4. /\ ReadStart + 1 \in Nat /\ last \in Nat /\ 1 <= ReadStart + 1
      /\ ReadStart + 1 <= last + 1 /\ last <= Len(file)
  BY <1>1, <1>2 DEF Types
<1>5. /\ Buffer \in Seq(Byte) /\ Len(Buffer) = last - (ReadStart + 1) + 1
      /\ \A i \in 1 .. last - (ReadStart + 1) + 1 : Buffer[i] = file[ReadStart + 1 + i - 1]
  BY <1>2, <1>3, <1>4, WindowBytes
<1> QED
  BY <1>1, <1>3, <1>4, <1>5

\* From the first newline on the buffer holds complete lines.
LEMMA ContentIsWindow ==
  ASSUME Types, NEW last \in pos .. Len(file), pos <= Len(file), ReadBehind(last),
         Has(Buffer, Newline)
  PROVE  /\ FirstNewline \in 1 .. Len(Buffer)
         /\ file[ReadStart + FirstNewline] = Newline
         /\ SubSeq(Buffer, FirstNewline, Len(Buffer)) = SubSeq(file, ReadStart + FirstNewline, last)
         /\ SubSeq(Buffer, 1, FirstNewline - 1)
              = SubSeq(file, ReadStart + 1, ReadStart + FirstNewline - 1)
<1> DEFINE S == {i \in 1 .. Len(Buffer) : Buffer[i] = Newline}
<1>1. /\ ReadStart \in 0 .. pos /\ Buffer = SubSeq(file, ReadStart + 1, last)
      /\ Buffer \in Seq(Byte) /\ Len(Buffer) = last - ReadStart
      /\ \A i \in 1 .. Len(Buffer) : Buffer[i] = file[ReadStart + i]
  BY BufferIsWindow
<1>2. S \in SUBSET Nat /\ S # {}
  BY <1>1 DEF Has
<1>3. FirstNewline \in S
  BY <1>2, MinType DEF FirstNewline
<1>4. FirstNewline \in 1 .. Len(Buffer) /\ file[ReadStart + FirstNewline] = Newline
  <2>1. FirstNewline \in 1 .. Len(Buffer) /\ Buffer[FirstNewline] = Newline
    BY <1>3
  <2> QED
    BY <1>1, <2>1
<1>5. /\ file \in Seq(Byte) /\ ReadStart \in Nat /\ last \in Nat /\ last <= Len(file)
      /\ ReadStart <= last /\ FirstNewline \in Nat
      /\ 1 <= FirstNewline /\ FirstNewline <= last - ReadStart
  <2>1. file \in Seq(Byte) /\ pos \in Nat
    BY DEF Types
  <2>2. Len(file) \in Nat
    BY <2>1, LenProperties
  <2>3. last \in Nat /\ last <= Len(file) /\ pos <= last
    BY <2>1, <2>2
  <2>4. ReadStart \in Nat /\ ReadStart <= last
    BY <1>1, <2>1, <2>3
  <2>5. FirstNewline \in Nat /\ 1 <= FirstNewline /\ FirstNewline <= last - ReadStart
    BY <1>1, <1>4, <2>3, <2>4
  <2> QED
    BY <2>1, <2>3, <2>4, <2>5
<1>6. SubSeq(SubSeq(file, ReadStart + 1, last), FirstNewline, last - ReadStart)
        = SubSeq(file, (ReadStart + 1) + FirstNewline - 1, (ReadStart + 1) + (last - ReadStart) - 1)
  BY <1>5, WindowOfWindow
<1>7. SubSeq(SubSeq(file, ReadStart + 1, last), 1, FirstNewline - 1)
        = SubSeq(file, (ReadStart + 1) + 1 - 1, (ReadStart + 1) + (FirstNewline - 1) - 1)
  <2>1. /\ FirstNewline - 1 \in Nat /\ 1 \in Nat /\ 1 <= (FirstNewline - 1) + 1
        /\ FirstNewline - 1 <= last - (ReadStart + 1) + 1 /\ ReadStart + 1 \in Nat
        /\ 1 <= ReadStart + 1 /\ ReadStart + 1 <= last + 1
    BY <1>5
  <2> QED
    BY <1>5, <2>1, WindowOfWindow
<1>8. /\ (ReadStart + 1) + FirstNewline - 1 = ReadStart + FirstNewline
      /\ (ReadStart + 1) + (last - ReadStart) - 1 = last
      /\ (ReadStart + 1) + 1 - 1 = ReadStart + 1
      /\ (ReadStart + 1) + (FirstNewline - 1) - 1 = ReadStart + FirstNewline - 1
  BY <1>5
<1> QED
  BY <1>1, <1>4, <1>6, <1>7, <1>8

\* Their rows are those of the file in these lines, and they are in UTF-8 when
\* the file is.
LEMMA ContentRows ==
  ASSUME Types, NEW last \in pos .. Len(file), pos <= Len(file), ReadBehind(last),
         Has(Buffer, Newline), NEW content, content = SubSeq(Buffer, FirstNewline, Len(Buffer))
  PROVE  /\ content \in Seq(Byte)
         /\ RowTimes(content)
              = {file[j] : j \in {k \in ReadStart + FirstNewline .. last : RowAt(file, k)}}
         /\ Valid(file) => Valid(content)
<1>1. /\ FirstNewline \in 1 .. Len(Buffer) /\ file[ReadStart + FirstNewline] = Newline
      /\ content = SubSeq(file, ReadStart + FirstNewline, last)
  BY ContentIsWindow
<1>2. ReadStart \in 0 .. pos /\ Len(Buffer) = last - ReadStart
  BY BufferIsWindow
<1> DEFINE first == ReadStart + FirstNewline
<1>3. /\ file \in Seq(Byte) /\ first \in Nat /\ last \in Nat /\ 1 <= first /\ first <= last + 1
      /\ last <= Len(file) /\ file[first] = Newline
  BY <1>1, <1>2 DEF Types
<1> HIDE DEF first
<1>4. LineBegins(file, first) /\ LineEnds(file, last)
  BY <1>3 DEF LineBegins, ReadBehind
<1>5. content = SubSeq(file, first, last)
  BY <1>1 DEF first
<1>6. content \in Seq(Byte)
  BY <1>3, <1>5, WindowBytes
<1>7. RowTimes(content) = {file[j] : j \in {k \in first .. last : RowAt(file, k)}}
  BY <1>3, <1>4, <1>5, WindowRows
<1>8. last = Len(file) \/ file[last + 1] # Cont
  BY <1>4, BytesAssumption DEF LineEnds
<1>9. first <= last => first = 1 \/ file[first] # Cont
  BY <1>3, BytesAssumption
<1>10. Valid(file) => Valid(content)
  BY <1>3, <1>5, <1>8, <1>9, WindowIsValid
<1> QED
  BY <1>6, <1>7, <1>10 DEF first

\* Bytes are carried as bytes, whatever the text.
LEMMA IterateTypes ==
  ASSUME Types, Reading, Iterate
  PROVE  /\ carry' \in Seq(Byte) /\ pos' \in Nat
         /\ state' = "scanning" => pos' <= Len(file) /\ (pos' = 0 => file = <<>>)
<1>1. /\ file \in Seq(Byte) /\ carry \in Seq(Byte) /\ pos \in Nat /\ state = "scanning"
      /\ pos <= Len(file) /\ (pos = 0 => file = <<>>)
  BY DEF Types, Reading, Iterate, NothingLeft, WithinLine, ScanChunk, SkipChunk, ScanFirstChunk
<1>2. ReadStart \in 0 .. pos
  BY <1>1, ChunkAssumption DEF ReadStart
<1>3. SubSeq(file, ReadStart + 1, pos) \in Seq(Byte)
  BY <1>1, <1>2, WindowBytes
<1>4. Buffer \in Seq(Byte)
  BY <1>1, <1>3 DEF Buffer
<1>5. ASSUME Has(Buffer, Newline) PROVE SubSeq(Buffer, 1, FirstNewline - 1) \in Seq(Byte)
  <2> DEFINE S == {i \in 1 .. Len(Buffer) : Buffer[i] = Newline}
  <2>1. S \in SUBSET Nat /\ S # {}
    BY <1>5 DEF Has
  <2>2. FirstNewline \in S
    BY <2>1, MinType DEF FirstNewline
  <2>3. FirstNewline \in 1 .. Len(Buffer) /\ Len(Buffer) \in Nat
    BY <1>4, <2>2
  <2> QED
    BY <1>4, <2>3, WindowBytes
<1>6. CASE NothingLeft \/ ScanFirstChunk
  BY <1>1, <1>6 DEF NothingLeft, ScanFirstChunk, Return
<1>7. CASE WithinLine
  BY <1>1, <1>2, <1>4, <1>7 DEF WithinLine
<1>8. CASE ScanChunk
  <2>1. CASE state' = "done" /\ UNCHANGED <<pos, carry>>
    BY <1>1, <2>1
  <2>2. CASE /\ carry' = SubSeq(Buffer, 1, FirstNewline - 1) /\ pos' = ReadStart
             /\ ReadStart > 0 /\ Has(Buffer, Newline)
    BY <1>1, <1>2, <1>5, <2>2
  <2> QED
    BY <1>8, <2>1, <2>2 DEF ScanChunk, Return
<1>9. CASE SkipChunk
  BY <1>1, <1>5, <1>9 DEF SkipChunk
<1> QED
  BY <1>6, <1>7, <1>8, <1>9 DEF Iterate

\* A chunk without an update leaves the beginning of its first line to be carried.
LEMMA ReadingGoesOn ==
  ASSUME Types, Reading, Iterate, state' = "scanning", Valid(file)
  PROVE  \E last \in pos' .. Len(file) : ReadBehind(last)'
<1>1. state = "scanning" /\ pos \in Nat /\ pos <= Len(file) /\ file' = file /\ file \in Seq(Byte)
  BY DEF Types, Reading, Iterate, NothingLeft, WithinLine, ScanChunk, SkipChunk, ScanFirstChunk, Return
<1>2. PICK last \in pos .. Len(file) : ReadBehind(last)
  BY <1>1 DEF Reading
<1>3. /\ ReadStart \in 0 .. pos /\ Buffer = SubSeq(file, ReadStart + 1, last)
      /\ Len(Buffer) = last - ReadStart
  BY <1>1, <1>2, BufferIsWindow
<1>4. CASE WithinLine
  <2>1. carry' = Buffer /\ pos' = ReadStart /\ last \in pos' .. Len(file)
    BY <1>1, <1>3, <1>4 DEF WithinLine
  <2> QED
    BY <1>1, <1>2, <1>3, <2>1 DEF ReadBehind, LineEnds, RowAt
<1>5. CASE ScanChunk
  <2> DEFINE content == SubSeq(Buffer, FirstNewline, Len(Buffer))
  <2>1. /\ Has(Buffer, Newline) /\ Newest(content) = None
        /\ carry' = SubSeq(Buffer, 1, FirstNewline - 1) /\ pos' = ReadStart
    BY <1>5 DEF ScanChunk, Return
  <2>2. /\ FirstNewline \in 1 .. Len(Buffer) /\ file[ReadStart + FirstNewline] = Newline
        /\ carry' = SubSeq(file, pos' + 1, ReadStart + FirstNewline - 1)
    BY <1>1, <1>2, <2>1, ContentIsWindow
  <2>3. PICK before \in pos' .. Len(file) : before + 1 = ReadStart + FirstNewline
    <3>1. /\ ReadStart + FirstNewline - 1 \in pos' .. Len(file)
          /\ (ReadStart + FirstNewline - 1) + 1 = ReadStart + FirstNewline
      BY <1>1, <1>2, <1>3, <2>1, <2>2
    <3> QED
      BY <3>1
  <2>4. /\ content \in Seq(Byte)
        /\ RowTimes(content) = {file[j] : j \in {k \in before + 1 .. last : RowAt(file, k)}}
    BY <1>1, <1>2, <2>1, <2>3, ContentRows
  <2>5. RowTimes(content) = {}
    BY <2>1, <2>4, NewestType
  <2> HIDE DEF content
  <2>6. \A k \in before + 1 .. last : ~RowAt(file, k)
    BY <2>4, <2>5
  <2>7. \A k \in last + 1 .. Len(file) : ~RowAt(file, k)
    BY <1>2 DEF ReadBehind
  <2>8. \A k \in before + 1 .. Len(file) : k \in before + 1 .. last \/ k \in last + 1 .. Len(file)
    BY <1>1, <1>2, <2>3
  <2>9. LineEnds(file, before)
    BY <2>2, <2>3 DEF LineEnds
  <2>10. carry' = SubSeq(file, pos' + 1, before)
    <3>1. ReadStart + FirstNewline - 1 = before
      BY <1>1, <1>3, <2>2, <2>3
    <3> QED
      BY <2>2, <3>1
  <2>11. ReadBehind(before)'
    BY <1>1, <2>6, <2>7, <2>8, <2>9, <2>10 DEF ReadBehind, LineEnds, RowAt
  <2> QED
    BY <2>3, <2>11
<1>6. CASE SkipChunk
  BY <1>1, <1>2, <1>6, ContentRows DEF SkipChunk
<1> QED
  BY <1>1, <1>4, <1>5, <1>6 DEF Iterate, NothingLeft, ScanFirstChunk, Return

\* What is returned is the newest row of some complete last lines.
LEMMA ReturnsASuffix ==
  ASSUME Types, Reading, Iterate, state' = "done", Valid(file)
  PROVE  StopsAtASuffix'
<1>1. /\ state = "scanning" /\ pos \in Nat /\ pos <= Len(file) /\ (pos = 0 => file = <<>>)
      /\ file' = file /\ file \in Seq(Byte)
  BY DEF Types, Reading, Iterate, NothingLeft, WithinLine, ScanChunk, SkipChunk, ScanFirstChunk, Return
<1>2. PICK last \in pos .. Len(file) : ReadBehind(last)
  BY <1>1 DEF Reading
<1>3. /\ ReadStart \in 0 .. pos /\ Buffer = SubSeq(file, ReadStart + 1, last)
      /\ Buffer \in Seq(Byte) /\ Len(Buffer) = last - ReadStart
  BY <1>1, <1>2, BufferIsWindow
<1>4. SUFFICES IF RowTimes(file) = {} THEN result' = None
               ELSE \E k \in LineStarts : result' # None /\ result' = Newest(SubSeq(file, k, Len(file)))
  BY <1>1 DEF StopsAtASuffix, LineStarts
<1>5. RowTimes(file) = {file[j] : j \in {k \in 1 .. Len(file) : RowAt(file, k)}}
  BY DEF RowTimes
<1>6. CASE NothingLeft
  <2>1. result' = None /\ file = <<>>
    BY <1>1, <1>6 DEF NothingLeft, Return
  <2>2. RowTimes(file) = {}
    BY <2>1 DEF RowTimes
  <2> QED
    BY <2>1, <2>2
<1>7. CASE ScanChunk
  <2> DEFINE content == SubSeq(Buffer, FirstNewline, Len(Buffer))
             start == ReadStart + FirstNewline + 1
  <2>1. Has(Buffer, Newline) /\ result' = Newest(content) /\ result' # None
    BY <1>1, <1>7 DEF ScanChunk, Return
  <2>2. FirstNewline \in 1 .. Len(Buffer) /\ file[ReadStart + FirstNewline] = Newline
    BY <1>1, <1>2, <2>1, ContentIsWindow
  <2>3. start \in Nat /\ start - 1 \in 1 .. last /\ start - 1 = ReadStart + FirstNewline /\ file[start - 1] = Newline
    BY <1>1, <1>2, <1>3, <2>2
  <2>4. /\ content \in Seq(Byte)
        /\ RowTimes(content) = {file[j] : j \in {k \in start - 1 .. last : RowAt(file, k)}}
    BY <1>1, <1>2, <2>1, <2>3, ContentRows
  <2>5. RowTimes(content) # {}
    BY <2>1, <2>4, NewestType
  <2> HIDE DEF content, start
  <2>6. {k \in start - 1 .. last : RowAt(file, k)} = {k \in start .. Len(file) : RowAt(file, k)}
    <3>1. ~RowAt(file, start - 1)
      BY <2>3, BytesAssumption DEF RowAt
    <3>2. \A k \in last + 1 .. Len(file) : ~RowAt(file, k)
      BY <1>2 DEF ReadBehind
    <3>3. ASSUME NEW k \in Nat, RowAt(file, k) PROVE k \in start - 1 .. last <=> k \in start .. Len(file)
      <4>1. k # start - 1 /\ k \notin last + 1 .. Len(file)
        BY <3>1, <3>2, <3>3
      <4> QED
        BY <1>1, <1>2, <2>3, <4>1
    <3>4. start - 1 .. last \subseteq Nat /\ start .. Len(file) \subseteq Nat
      BY <1>1, <1>2, <2>3
    <3> QED
      BY <3>3, <3>4
  <2>7. start <= Len(file)
    BY <1>1, <2>3, <2>4, <2>5, <2>6
  <2>8. start \in LineStarts
    BY <1>1, <2>3, <2>7 DEF LineStarts
  <2>9. LineBegins(file, start) /\ LineEnds(file, Len(file))
    <3>1. file[start - 1] = Newline
      BY <2>3
    <3> QED
      BY <3>1 DEF LineBegins, LineEnds
  <2>10. /\ Len(file) \in Nat /\ 1 <= start /\ start <= Len(file) + 1 /\ Len(file) <= Len(file)
    BY <1>1, <1>2, <2>3, <2>7
  <2>11. RowTimes(SubSeq(file, start, Len(file))) = RowTimes(content)
    <3> DEFINE n == Len(file)
    <3>1. n \in Nat /\ start <= n + 1 /\ n <= Len(file) /\ LineEnds(file, n)
      BY <2>9, <2>10
    <3> HIDE DEF n
    <3>2. RowTimes(SubSeq(file, start, n)) = {file[j] : j \in {k \in start .. n : RowAt(file, k)}}
      BY <1>1, <2>3, <2>9, <2>10, <3>1, WindowRows
    <3> QED
      BY <2>4, <2>6, <3>2 DEF n
  <2>12. result' = Newest(SubSeq(file, start, Len(file)))
    BY <2>1, <2>11 DEF Newest
  <2>13. RowTimes(file) # {}
    <3>1. PICK j \in start .. Len(file) : RowAt(file, j)
      BY <2>4, <2>5, <2>6
    <3>2. j \in 1 .. Len(file)
      BY <2>3, <2>10
    <3> QED
      BY <1>5, <3>1, <3>2
  <2> QED
    BY <2>1, <2>8, <2>12, <2>13
<1>8. CASE ScanFirstChunk
  <2>1. ReadStart = 0 /\ pos > 0 /\ result' = IF Valid(Buffer) THEN Newest(Buffer) ELSE None
    BY <1>8 DEF ScanFirstChunk, Return
  <2>2. Buffer = SubSeq(file, 1, last) /\ last \in Nat /\ 1 <= last + 1 /\ last <= Len(file)
    BY <1>1, <1>2, <1>3, <2>1
  <2>3. last = Len(file) \/ file[last + 1] # Cont
    BY <1>2, BytesAssumption DEF ReadBehind, LineEnds
  <2>4. Valid(Buffer)
    BY <1>1, <2>2, <2>3, WindowIsValid
  <2>5. RowTimes(Buffer) = {file[j] : j \in {k \in 1 .. last : RowAt(file, k)}}
    BY <1>1, <1>2, <2>2, WindowRows DEF LineBegins, ReadBehind
  <2>6. {k \in 1 .. last : RowAt(file, k)} = {k \in 1 .. Len(file) : RowAt(file, k)}
    <3>1. \A k \in last + 1 .. Len(file) : ~RowAt(file, k)
      BY <1>2 DEF ReadBehind
    <3>2. \A k \in 1 .. Len(file) : k \in 1 .. last \/ k \in last + 1 .. Len(file)
      BY <1>1, <2>2
    <3>3. 1 .. last \subseteq 1 .. Len(file)
      BY <1>1, <2>2
    <3> QED
      BY <3>1, <3>2, <3>3
  <2>7. RowTimes(Buffer) = RowTimes(file)
    BY <1>5, <2>5, <2>6
  <2>8. result' = Newest(file)
    BY <2>1, <2>4, <2>7 DEF Newest
  <2>9. 1 \in LineStarts
    BY <1>1, <2>1 DEF LineStarts
  <2>10. SubSeq(file, 1, Len(file)) = file
    BY <1>1, SubSeqFull
  <2> QED
    BY <1>1, <2>8, <2>9, <2>10, NewestType
<1> QED
  BY <1>1, <1>6, <1>7, <1>8 DEF Iterate, WithinLine, SkipChunk

-------------------------------------------------------------------------------
(* The rows behind the cursor.                                             *)

\* A number that is found, and none smaller.
Found(time) == newest # None /\ time <= newest

UpdateTypes == update \in Times \cup {None} /\ newest \in Times \cup {None} /\ result \in Times \cup {None}

\* Before the first scan at an event every byte behind the cursor is excused.
NothingScanned == phase \in {"start", "sized", "baseline"} => skipped = cached

\* The cursor is beyond the end only if the file was replaced.
CursorInv ==
  /\ skipped \in Nat
  /\ cached > Len(disk) => skipped >= cached
  /\ \A i \in 1 .. Len(disk) : RowAt(disk, i) /\ i + 1 > skipped /\ i + 1 <= cached => Found(disk[i])

\* Of a file that is as it was the running scan has found the newest row.
ScanInv ==
  Scanning /\ ~touched =>
    /\ size = Len(disk)
    /\ phase = "read" => update = IF size > cached THEN Newest(ScanSlice(disk, cached)) ELSE None

RowsInv == UpdateTypes /\ NothingScanned /\ CursorInv /\ ScanInv

\* The overlap reaches a row whose first byte the cursor has passed.
LEMMA SliceHasRow ==
  ASSUME NEW text \in Seq(Byte), NEW old \in Nat, NEW i \in 1 .. Len(text),
         RowAt(text, i), i + 1 > old
  PROVE  text[i] \in RowTimes(ScanSlice(text, old))
<1> DEFINE from == IF old > Overlap THEN old - Overlap ELSE 0
           first == Min({from, Len(text)})
           later == {k \in first .. Len(text) : k = Len(text) \/ text[k + 1] # Cont}
           start == Start(text, old) + 1
<1>1. from \in Nat /\ from <= i - 1 /\ Len(text) \in Nat
  BY OverlapAssumption
<1>2. first = from
  <2>1. {from, Len(text)} \in SUBSET Nat /\ {from, Len(text)} # {}
    BY <1>1
  <2>2. first \in {from, Len(text)} /\ first <= from
    BY <2>1, MinType
  <2> QED
    BY <1>1, <2>2
<1>3. i - 1 \in later
  <2>1. text[i] # Cont
    BY BytesAssumption DEF RowAt
  <2> HIDE DEF from, first
  <2> QED
    BY <1>1, <1>2, <2>1
<1>4. Start(text, old) \in later /\ Start(text, old) <= i - 1
  <2>1. later \in SUBSET Nat /\ later # {}
    <3>1. first \in Nat
      BY <1>1, <1>2
    <3> HIDE DEF first
    <3> QED
      BY <1>1, <1>3, <3>1
  <2>2. Start(text, old) = Min(later)
    BY DEF Start
  <2> HIDE DEF later
  <2>3. Min(later) \in later /\ \A other \in later : Min(later) <= other
    BY <2>1, MinType
  <2> QED
    BY <1>3, <2>2, <2>3
<1>5. start \in 1 .. i
  BY <1>1, <1>2, <1>4
<1> HIDE DEF start, from, first, later
<1>6. ScanSlice(text, old) = SubSeq(text, start, Len(text))
  BY DEF ScanSlice, start
<1>7. /\ Len(SubSeq(text, start, Len(text))) = Len(text) - start + 1
      /\ \A k \in 1 .. Len(text) - start + 1 : SubSeq(text, start, Len(text))[k] = text[start + k - 1]
  BY <1>5, WindowBytes
<1> DEFINE slice == SubSeq(text, start, Len(text))
           place == i - start + 1
<1>8. place \in 1 .. Len(slice) /\ slice[place] = text[i]
  BY <1>5, <1>7
<1>9. RowAt(slice, place)
  <2>1. /\ i < Len(text) /\ i \in Nat /\ start \in Nat \ {0} /\ Len(text) \in Nat /\ start <= i
        /\ start + (place + 1) - 1 = i + 1 /\ start + (place - 1) - 1 = i - 1
        /\ start + (place + 2) - 1 = i + 2
    BY <1>5 DEF RowAt
  <2>2. place < Len(slice) /\ slice[place + 1] = text[i + 1]
    BY <1>7, <2>1
  <2>3. place = 1 \/ slice[place - 1] = Newline
    <3>1. CASE place # 1
      <4>1. place - 1 \in 1 .. Len(text) - start + 1 /\ i # 1
        BY <2>1, <3>1
      <4>2. slice[place - 1] = text[i - 1]
        BY <1>7, <2>1, <4>1
      <4> QED
        BY <4>1, <4>2 DEF RowAt
    <3> QED
      BY <3>1
  <2>4. place + 1 = Len(slice) \/ slice[place + 2] = Newline
    BY <1>7, <2>1 DEF RowAt
  <2> QED
    BY <1>8, <2>2, <2>3, <2>4 DEF RowAt
<1> QED
  BY <1>6, <1>8, <1>9 DEF RowTimes

\* What was found stays found, and the update of the scan is.
LEMMA KeepFinds ==
  ASSUME UpdateTypes, KeepScan
  PROVE  /\ newest' \in Times \cup {None}
         /\ \A time \in Times : Found(time) => Found(time)'
         /\ update # None => newest' # None /\ update <= newest'
<1>1. newest' = IF update = None THEN newest
                ELSE IF newest = None THEN update ELSE Max({newest, update})
  BY DEF KeepScan
<1>2. ASSUME update # None, newest # None
      PROVE  /\ newest' \in {newest, update} /\ newest <= newest' /\ update <= newest'
  <2>1. newest \in Nat /\ update \in Nat
    BY <1>2, TimesAssumption DEF UpdateTypes
  <2>2. \E last \in {newest, update} : \A other \in {newest, update} : last >= other
    BY <2>1
  <2>3. Max({newest, update}) \in {newest, update}
        /\ \A other \in {newest, update} : Max({newest, update}) >= other
    BY <2>2 DEF Max
  <2> QED
    BY <1>1, <1>2, <2>1, <2>3
<1>3. \A time \in Times : time \in Nat /\ time # None
  BY TimesAssumption, BytesAssumption
<1> QED
  BY <1>1, <1>2, <1>3 DEF UpdateTypes, Found

\* The rows that a step of the program leaves in place were there before.
LEMMA RowsStay ==
  ASSUME disk \in Seq(Byte), NEW byte \in Byte, disk' = Append(disk, byte),
         NEW i \in 1 .. Len(disk), i + 1 <= Len(disk), RowAt(disk', i)
  PROVE  RowAt(disk, i) /\ disk'[i] = disk[i]
<1>1. Len(disk') = Len(disk) + 1 /\ \A k \in 1 .. Len(disk) : disk'[k] = disk[k]
  OBVIOUS
<1> QED
  BY <1>1 DEF RowAt

-------------------------------------------------------------------------------
(* Every step.                                                             *)

\* A line that is written is a sequence of bytes, and so is what is left of it.
LEMMA LinesAreBytes == Lines \subseteq Seq(Byte)
<1>1. \A t \in Times : <<t, t, Newline>> \in Seq(Byte)
  BY DEF Byte
<1>2. <<Lead, Cont, Newline>> \in Seq(Byte)
  BY DEF Byte
<1> QED
  BY <1>1, <1>2 DEF Lines

\* The program and the scans at an event leave the startup scan alone.
LEMMA OtherSteps ==
  ASSUME IInv, Program \/ EventScan \/ CacheSize
  PROVE  IInv'
<1> USE DEF IInv
<1>1. UNCHANGED vars
  BY DEF Program, EventScan, Append1, BeginLine, Replace, CacheSize, MapFile, ReadSlice, ReadBeyond,
         ReadNothing, KeepScan, DropScan
<1>2. disk' \in Seq(Byte) /\ rest' \in Seq(Byte)
  <2>1. CASE Append1
    BY <2>1 DEF Append1, Types
  <2>2. CASE BeginLine
    BY <2>2, LinesAreBytes DEF BeginLine, Types
  <2>3. CASE Replace
    <3>1. <<>> \in Seq(Byte)
      OBVIOUS
    <3> QED
      BY <2>3, <3>1, LinesAreBytes DEF Replace
  <2>4. CASE EventScan \/ CacheSize
    BY <2>4 DEF EventScan, CacheSize, MapFile, ReadSlice, ReadBeyond, ReadNothing, KeepScan,
                DropScan, fileVars, Types
  <2> QED
    BY <2>1, <2>2, <2>3, <2>4 DEF Program
<1>3. cached' \in Nat /\ size' \in Nat
  BY DEF Program, EventScan, Append1, BeginLine, Replace, CacheSize, MapFile, ReadSlice, ReadBeyond,
         ReadNothing, KeepScan, DropScan, EndScan, scanVars, Types
<1>4. Types'
  BY <1>1, <1>2, <1>3 DEF Types, vars
<1>5. phase' \in {"start", "sized"} => phase \in {"start", "sized"}
  BY DEF Program, EventScan, Append1, BeginLine, Replace, CacheSize, MapFile, ReadSlice, ReadBeyond,
         ReadNothing, KeepScan, DropScan, EndScan, scanVars
<1>6. Closed'
  BY <1>1, <1>5 DEF Closed, vars
<1>7. Reading'
  BY <1>1 DEF Reading, ReadBehind, vars
<1>8. StopsAtASuffix'
  BY <1>1 DEF StopsAtASuffix, LineStarts, vars
<1> QED
  BY <1>4, <1>6, <1>7, <1>8

\* Every step of the startup scan keeps the invariant.
LEMMA BaselineSteps ==
  ASSUME IInv, OpenBaseline \/ BaselineStep \/ BaselineFails \/ BaselineDone
  PROVE  IInv'
<1> USE DEF IInv
<1>1. CASE OpenBaseline
  <2>1. /\ file' = disk /\ pos' = Len(disk) /\ state' = "scanning" /\ carry' = <<>>
        /\ phase' = "baseline" /\ UNCHANGED <<disk, rest, cached, size>>
    BY <1>1 DEF OpenBaseline, fileVars, Closed
  <2>2. disk \in Seq(Byte) /\ Len(disk) \in Nat
    BY DEF Types
  <2>3. Types' /\ Closed'
    <3>1. <<>> \in Seq(Byte)
      OBVIOUS
    <3> QED
      BY <2>1, <2>2, <3>1 DEF Types, Closed
  <2>4. Len(disk) = 0 => disk = <<>>
    BY <2>2
  <2>5. carry' = SubSeq(file', pos' + 1, Len(disk))
    BY <2>1, <2>2, SubSeqEmpty
  <2>6. Reading'
    BY <2>1, <2>2, <2>4, <2>5 DEF Reading, ReadBehind, LineEnds
  <2> QED
    BY <2>1, <2>3, <2>6 DEF StopsAtASuffix
<1>2. CASE BaselineStep
  <2>1. Iterate /\ phase' = phase /\ phase = "baseline" /\ UNCHANGED <<file, disk, rest, cached, size>>
    BY <1>2 DEF BaselineStep, scanVars, fileVars, Iterate, NothingLeft, WithinLine, ScanChunk,
                SkipChunk, ScanFirstChunk, Return
  <2>2. state' \in {"scanning", "done"}
    BY <2>1 DEF Iterate, NothingLeft, WithinLine, ScanChunk, SkipChunk, ScanFirstChunk, Return
  <2>3. Types' /\ Closed'
    BY <2>1, <2>2, IterateTypes DEF Types, Closed
  <2>4. Reading'
    BY <2>1, <2>2, IterateTypes, ReadingGoesOn DEF Reading
  <2>5. StopsAtASuffix'
    BY <2>1, <2>2, ReturnsASuffix DEF StopsAtASuffix
  <2> QED
    BY <2>3, <2>4, <2>5
<1>3. CASE BaselineFails
  BY <1>3 DEF BaselineFails, ReadFails, scanVars, fileVars, Types, Closed, Reading, StopsAtASuffix
<1>4. CASE BaselineDone
  <2>1. <<>> \in Seq(Byte)
    OBVIOUS
  <2>2. Types'
    BY <1>4, <2>1 DEF BaselineDone, fileVars, Types
  <2> QED
    BY <1>4, <2>2 DEF BaselineDone, Closed, Reading, StopsAtASuffix
<1> QED
  BY <1>1, <1>2, <1>3, <1>4

\* The bytes read so far, the bytes carried and what is returned fit together in
\* every reachable state (scan_file_backwards).
THEOREM InvariantHolds == TranscriptSpec => []IInv
<1>1. StartInit => IInv
  <2> SUFFICES ASSUME StartInit PROVE IInv
    OBVIOUS
  <2>1. <<>> \in Seq(Byte)
    OBVIOUS
  <2> QED
    BY <2>1 DEF StartInit, IInv, Types, Closed, Reading, StopsAtASuffix
<1>2. IInv /\ [ScanNext]_allVars => IInv'
  <2> SUFFICES ASSUME IInv, [ScanNext]_allVars PROVE IInv'
    OBVIOUS
  <2>1. CASE UNCHANGED allVars
    BY <2>1 DEF IInv, Types, Closed, Reading, ReadBehind, StopsAtASuffix, LineStarts, allVars, vars,
                scanVars, fileVars
  <2> QED
    BY <2>1, OtherSteps, BaselineSteps DEF ScanNext, Baseline
<1> QED
  BY <1>1, <1>2, PTL DEF TranscriptSpec

\* The startup scan finds the newest row of the file's last lines, however the
\* chunks fall on the lines (the carried bytes of scan_file_backwards).
THEOREM ScanFindsTheNewest == TranscriptSpec => []StopsAtASuffix
<1>1. IInv => StopsAtASuffix
  BY DEF IInv
<1> QED
  BY <1>1, InvariantHolds, PTL

\* A scan at an event does not fail because its slice begins within a character
\* (the boundary search of scan_one_path).
THEOREM SliceOfATextIsRead == TranscriptSpec => []WholeTextIsRead
<1>1. IInv => WholeTextIsRead
  <2> SUFFICES ASSUME Types, size <= Len(disk), Valid(SubSeq(disk, 1, size))
               PROVE  Valid(ScanSlice(SubSeq(disk, 1, size), cached))
    BY DEF IInv, WholeTextIsRead
  <2>1. SubSeq(disk, 1, size) \in Seq(Byte) /\ cached \in Nat
    BY WindowBytes DEF Types
  <2> QED
    BY <2>1, SliceIsValid
<1> QED
  BY <1>1, InvariantHolds, PTL

-------------------------------------------------------------------------------
(* No row is overlooked.                                                   *)

\* What a scan returns is the time of a row.
LEMMA NewestIsTime == \A text \in Seq(Byte) : Newest(text) \in Times \cup {None}
<1> SUFFICES ASSUME NEW text \in Seq(Byte) PROVE Newest(text) \in Times \cup {None}
  OBVIOUS
<1>1. RowTimes(text) \subseteq Times
  BY DEF RowTimes, RowAt
<1> QED
  BY <1>1, NewestType

\* Only the startup scan returns a result.
LEMMA ResultType ==
  ASSUME Types, Reading, UpdateTypes, Iterate
  PROVE  result' \in Times \cup {None}
<1>1. /\ file \in Seq(Byte) /\ carry \in Seq(Byte) /\ pos \in Nat /\ pos <= Len(file)
  BY DEF Types, Reading, Iterate, NothingLeft, WithinLine, ScanChunk, SkipChunk, ScanFirstChunk
<1>2. ReadStart \in 0 .. pos
  BY <1>1, ChunkAssumption DEF ReadStart
<1>3. Buffer \in Seq(Byte)
  BY <1>1, <1>2, WindowBytes DEF Buffer
<1>4. CASE ScanChunk /\ Has(Buffer, Newline)
  <2> DEFINE S == {i \in 1 .. Len(Buffer) : Buffer[i] = Newline}
  <2>1. S \in SUBSET Nat /\ S # {}
    BY <1>4 DEF Has
  <2>2. FirstNewline \in S
    BY <2>1, MinType DEF FirstNewline
  <2>3. FirstNewline \in 1 .. Len(Buffer) /\ Len(Buffer) \in Nat
    BY <1>3, <2>2
  <2>4. SubSeq(Buffer, FirstNewline, Len(Buffer)) \in Seq(Byte)
    BY <1>3, <2>3, WindowBytes
  <2> QED
    BY <1>4, <2>4, NewestIsTime DEF ScanChunk, Return, UpdateTypes
<1>5. CASE ScanFirstChunk
  BY <1>3, <1>5, NewestIsTime DEF ScanFirstChunk, Return
<1>6. CASE NothingLeft \/ WithinLine \/ SkipChunk
  BY <1>6 DEF NothingLeft, WithinLine, SkipChunk, Return, UpdateTypes
<1> QED
  BY <1>4, <1>5, <1>6 DEF Iterate, ScanChunk

\* The slice is a sequence of bytes.
LEMMA SliceBytes ==
  ASSUME NEW text \in Seq(Byte), NEW old \in Nat
  PROVE  ScanSlice(text, old) \in Seq(Byte)
<1>1. Start(text, old) \in 0 .. Len(text)
  BY SliceBegins
<1>2. /\ Start(text, old) + 1 \in Nat /\ 1 <= Start(text, old) + 1
      /\ Start(text, old) + 1 <= Len(text) + 1 /\ Len(text) \in Nat /\ Len(text) <= Len(text)
  BY <1>1
<1> QED
  BY <1>2, WindowBytes DEF ScanSlice

\* The program's writes: a row that was behind the cursor is one already.
LEMMA ProgramKeepsRows ==
  ASSUME IInv, RowsInv, Program
  PROVE  RowsInv'
<1> USE DEF RowsInv
<1>1. UNCHANGED <<result, update, newest, phase, cached, size>> /\ (Scanning' <=> Scanning)
  BY DEF Program, Append1, BeginLine, Replace, vars, scanVars, Scanning
<1>2. UpdateTypes'
  BY <1>1 DEF UpdateTypes
<1>3. CASE Append1
  <2>1. /\ disk' = Append(disk, Head(rest)) /\ UNCHANGED skipped /\ touched' = Scanning
        /\ rest # <<>> /\ rest \in Seq(Byte) /\ disk \in Seq(Byte) /\ cached \in Nat
    BY <1>3 DEF Append1, IInv, Types
  <2>2. Head(rest) \in Byte /\ Len(disk') = Len(disk) + 1 /\ Len(disk) \in Nat
    BY <2>1
  <2>3. ASSUME NEW i \in 1 .. Len(disk'), RowAt(disk', i), i + 1 > skipped, i + 1 <= cached
        PROVE  newest' # None /\ disk'[i] <= newest'
    <3>1. cached <= Len(disk) /\ skipped \in Nat
      BY <1>1, <2>1, <2>2, <2>3 DEF CursorInv
    <3>2. i \in 1 .. Len(disk) /\ i + 1 <= Len(disk)
      BY <2>1, <2>2, <2>3, <3>1
    <3>3. RowAt(disk, i) /\ disk'[i] = disk[i]
      BY <2>1, <2>2, <2>3, <3>2, RowsStay
    <3> QED
      BY <1>1, <2>3, <3>2, <3>3 DEF CursorInv, Found
  <2>4. CursorInv'
    BY <1>1, <2>1, <2>2, <2>3 DEF CursorInv, Found
  <2> QED
    BY <1>1, <1>2, <2>1, <2>4 DEF NothingScanned, ScanInv, Scanning
<1>4. CASE BeginLine
  BY <1>1, <1>2, <1>4 DEF BeginLine, NothingScanned, CursorInv, ScanInv, Found, Scanning
<1>5. CASE Replace
  <2>1. skipped' = cached /\ touched' = Scanning /\ cached \in Nat
    BY <1>5 DEF Replace, IInv, Types
  <2>2. disk' \in Seq(Byte)
    <3>1. <<>> \in Seq(Byte)
      OBVIOUS
    <3> QED
      BY <1>5, <3>1, LinesAreBytes DEF Replace
  <2>3. CursorInv'
    BY <1>1, <2>1, <2>2 DEF CursorInv
  <2> QED
    BY <1>1, <1>2, <2>1, <2>3 DEF NothingScanned, ScanInv, Scanning
<1> QED
  BY <1>3, <1>4, <1>5 DEF Program

\* The startup scan: all that is behind the cursor is excused.
LEMMA BaselineKeepsRows ==
  ASSUME IInv, RowsInv, Baseline
  PROVE  RowsInv'
<1> USE DEF RowsInv
<1>1. UNCHANGED <<disk, update>> /\ disk \in Seq(Byte) /\ Len(disk) \in Nat /\ cached \in Nat
  BY DEF Baseline, CacheSize, OpenBaseline, BaselineStep, BaselineFails, BaselineDone, scanVars, fileVars,
         IInv, Types
<1>2. skipped' = cached' /\ cached' \in Nat
  BY <1>1 DEF Baseline, CacheSize, OpenBaseline, BaselineStep, BaselineFails, BaselineDone, scanVars, fileVars,
         NothingScanned
<1>3. ~Scanning'
  BY DEF Baseline, CacheSize, OpenBaseline, BaselineStep, BaselineFails, BaselineDone, scanVars, Scanning
<1>4. UpdateTypes'
  <2>1. CASE BaselineStep
    BY <2>1, ResultType DEF BaselineStep, scanVars, UpdateTypes, IInv
  <2>2. CASE CacheSize \/ OpenBaseline \/ BaselineFails \/ BaselineDone
    BY <2>2 DEF CacheSize, OpenBaseline, BaselineFails, ReadFails, BaselineDone, scanVars, vars, UpdateTypes
  <2> QED
    BY <2>1, <2>2 DEF Baseline
<1>5. CursorInv'
  BY <1>1, <1>2 DEF CursorInv
<1> QED
  BY <1>2, <1>3, <1>4, <1>5 DEF NothingScanned, ScanInv

\* The cursor moves only over rows that were found.
LEMMA KeptScanKeepsRows ==
  ASSUME IInv, RowsInv, KeepScan
  PROVE  RowsInv'
<1> USE DEF RowsInv
<1>1. /\ phase = "read" /\ ~touched /\ cached' = size /\ UNCHANGED <<disk, result>>
      /\ skipped' = (IF size < cached THEN size ELSE skipped)
      /\ phase' = "watching" /\ update' = None
  BY DEF KeepScan, EndScan, vars
<1>2. /\ size = Len(disk) /\ disk \in Seq(Byte) /\ size \in Nat /\ cached \in Nat /\ skipped \in Nat
      /\ update = IF size > cached THEN Newest(ScanSlice(disk, cached)) ELSE None
  BY <1>1 DEF ScanInv, Scanning, IInv, Types, CursorInv
<1>3. ASSUME NEW i \in 1 .. Len(disk), RowAt(disk, i), i + 1 > skipped', i + 1 <= size
      PROVE  Found(disk[i])'
  <2>1. disk[i] \in Times /\ disk[i] \in Nat /\ i \in Nat
    <3>1. disk[i] \in Times
      BY <1>3 DEF RowAt
    <3>2. disk[i] \in Nat
      BY <3>1, TimesAssumption
    <3>3. i \in Nat
      BY <1>3
    <3> QED
      BY <3>1, <3>2, <3>3
  <2>2. size >= cached /\ skipped' = skipped
    BY <1>1, <1>2, <1>3, <2>1
  <2>3. CASE i + 1 <= cached
    <3>1. Found(disk[i])
      BY <1>3, <2>2, <2>3 DEF CursorInv
    <3> QED
      BY <1>1, <2>1, <3>1, KeepFinds DEF Found
  <2>4. CASE i + 1 > cached
    <3>1. size > cached
      BY <1>2, <1>3, <2>1, <2>2, <2>4
    <3>2. disk[i] \in RowTimes(ScanSlice(disk, cached))
      BY <1>2, <1>3, <2>4, SliceHasRow
    <3>3. update # None /\ disk[i] <= update
      BY <1>2, <3>1, <3>2, SliceBytes, NewestType
    <3>4. newest' # None /\ update <= newest' /\ newest' \in Times /\ update \in Times
      BY <3>3, KeepFinds DEF UpdateTypes
    <3>5. newest' \in Nat /\ update \in Nat
      BY <3>4, TimesAssumption
    <3> QED
      BY <1>1, <2>1, <3>3, <3>4, <3>5 DEF Found
  <2> QED
    BY <1>2, <2>1, <2>3, <2>4
<1>4. CursorInv'
  BY <1>1, <1>2, <1>3 DEF CursorInv
<1>5. UpdateTypes'
  BY <1>1, KeepFinds DEF UpdateTypes
<1> QED
  BY <1>1, <1>4, <1>5 DEF NothingScanned, ScanInv, Scanning

\* A scan that is not kept moves nothing.
LEMMA ScanKeepsRows ==
  ASSUME IInv, RowsInv, EventScan
  PROVE  RowsInv'
<1> USE DEF RowsInv
<1>1. CASE MapFile \/ ReadSlice \/ ReadBeyond \/ ReadNothing \/ DropScan
  <2>1. /\ UNCHANGED <<disk, cached, skipped, newest, result>>
        /\ phase' \notin {"start", "sized", "baseline"}
    BY <1>1 DEF MapFile, ReadSlice, ReadBeyond, ReadNothing, DropScan, EndScan, fileVars, vars
  <2>2. CursorInv'
    BY <2>1 DEF CursorInv, Found
  <2>3. disk \in Seq(Byte) /\ Len(disk) \in Nat /\ size \in Nat /\ cached \in Nat
    BY DEF IInv, Types
  <2>4. UpdateTypes'
    <3>1. CASE ReadSlice
      <4>1. Len(disk) >= size
        BY <3>1 DEF ReadSlice
      <4>2. SubSeq(disk, 1, size) \in Seq(Byte)
        BY <2>3, <4>1, WindowBytes
      <4>3. Newest(ScanSlice(SubSeq(disk, 1, size), cached)) \in Times \cup {None}
        BY <2>3, <4>2, SliceBytes, NewestIsTime
      <4>4. update' \in Times \cup {None}
        BY <3>1, <4>3 DEF ReadSlice
      <4> QED
        BY <2>1, <4>4 DEF UpdateTypes
    <3> QED
      BY <1>1, <2>1, <3>1 DEF MapFile, ReadBeyond, ReadNothing, DropScan, EndScan, UpdateTypes
  <2>5. ScanInv'
    <3>1. CASE ReadSlice
      <4>1. phase = "mapped" /\ UNCHANGED <<size, touched>>
            /\ update' = IF size > cached THEN Newest(ScanSlice(SubSeq(disk, 1, size), cached)) ELSE None
        BY <3>1 DEF ReadSlice, fileVars
      <4>2. ~touched => size = Len(disk) /\ SubSeq(disk, 1, size) = disk
        BY <2>3, <4>1, SubSeqFull DEF ScanInv, Scanning
      <4> QED
        BY <2>1, <4>1, <4>2 DEF ScanInv, Scanning
    <3>2. CASE ReadNothing
      BY <2>1, <2>3, <3>2 DEF ReadNothing, ScanInv, Scanning, fileVars
    <3> QED
      BY <1>1, <2>1, <3>1, <3>2 DEF MapFile, ReadBeyond, DropScan, EndScan, ScanInv, Scanning
  <2> QED
    BY <2>1, <2>2, <2>4, <2>5 DEF NothingScanned
<1> QED
  BY <1>1, KeptScanKeepsRows DEF EventScan

\* Between the cursor and what was found every row has its place, in every
\* reachable state (scan_one_path and apply_limit_update).
THEOREM RowsInvariantHolds == TranscriptSpec => []RowsInv
<1>1. StartInit => RowsInv
  <2> SUFFICES ASSUME StartInit PROVE RowsInv
    OBVIOUS
  <2>1. disk = <<>> /\ Len(disk) = 0 /\ skipped = 0 /\ cached = 0
    BY DEF StartInit
  <2>2. CursorInv
    BY <2>1 DEF CursorInv
  <2> QED
    BY <2>1, <2>2 DEF StartInit, RowsInv, UpdateTypes, NothingScanned, ScanInv, Scanning
<1>2. IInv /\ RowsInv /\ [ScanNext]_allVars => RowsInv'
  <2>1. CASE UNCHANGED allVars
    BY <2>1 DEF allVars, vars, scanVars, fileVars, RowsInv, UpdateTypes, NothingScanned, CursorInv, ScanInv,
                Scanning, Found
  <2> QED
    BY <2>1, ProgramKeepsRows, BaselineKeepsRows, ScanKeepsRows DEF ScanNext
<1> QED
  BY <1>1, <1>2, InvariantHolds, PTL DEF TranscriptSpec

\* However the writing of a row and the scans are cut into pieces, every row
\* behind the startup scan is found once the cursor is at the end of the file,
\* for files, rows and overlaps of any size (scan_one_path).
THEOREM EveryRowIsFound == TranscriptSpec => []NoRowIsOverlooked
<1>1. IInv /\ RowsInv => NoRowIsOverlooked
  <2> SUFFICES ASSUME IInv, RowsInv, cached = Len(disk), NEW i \in 1 .. Len(disk),
                      RowAt(disk, i), i + 1 > skipped
               PROVE  newest # None /\ disk[i] <= newest
    BY DEF NoRowIsOverlooked
  <2>1. i + 1 <= Len(disk)
    BY DEF RowAt, IInv, Types
  <2> QED
    BY <2>1 DEF RowsInv, CursorInv, Found
<1> QED
  BY <1>1, InvariantHolds, RowsInvariantHolds, PTL
===============================================================================
