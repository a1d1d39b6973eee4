---------------------------- MODULE LinePumpProofs -----------------------------
(***************************************************************************)
(* The pump's lines, proved for every output, every size of the reads, of  *)
(* the channel and of a line: the parser gets the lines that the child     *)
(* wrote, in their order, wherever the reads cut them.                     *)
(***************************************************************************)
EXTENDS LinePump, SequenceTheorems, WellFoundedInduction, TLAPS

-------------------------------------------------------------------------------
(* Numbers.                                                                *)

\* A set of numbers that has zero, and with every number the next, has all.
LEMMA NaturalsClosed ==
  ASSUME NEW S \in SUBSET Nat, 0 \in S, \A k \in S : k + 1 \in S
  PROVE  S = Nat
<1> SUFFICES ASSUME Nat \ S # {} PROVE FALSE
  OBVIOUS
<1>1. \E least \in Nat \ S : \A other \in Nat \ S : ~(<<other, least>> \in OpToRel(<, Nat))
  BY NatLessThanWellFounded, WFMin
<1>2. PICK least \in Nat \ S : \A other \in Nat \ S : ~(<<other, least>> \in OpToRel(<, Nat))
  BY <1>1
<1>3. least - 1 \in Nat /\ least = (least - 1) + 1 /\ least - 1 < least
  OBVIOUS
<1>4. <<least - 1, least>> \in {pair \in Nat \X Nat : pair[1] < pair[2]}
  BY <1>3
<1>5. least - 1 \notin Nat \ S
  BY <1>2, <1>4 DEF OpToRel
<1> QED
  BY <1>3, <1>5

\* A set of numbers up to n has a greatest.
LEMMA MaxType ==
  ASSUME NEW n \in Nat, NEW s \in SUBSET (1 .. n), s # {}
  PROVE  Max(s) \in s /\ \A other \in s : other <= Max(s)
<1> DEFINE Bounded(k) == \A t \in SUBSET (1 .. k) : t # {} => \E last \in t : \A other \in t : last >= other
           S == {k \in Nat : Bounded(k)}
<1>1. Bounded(0)
  BY 1 .. 0 = {}
<1>2. ASSUME NEW k \in Nat, Bounded(k) PROVE Bounded(k + 1)
  <2> SUFFICES ASSUME NEW t \in SUBSET (1 .. k + 1), t # {}
               PROVE  \E last \in t : \A other \in t : last >= other
    OBVIOUS
  <2>1. CASE k + 1 \in t
    BY <2>1
  <2>2. CASE k + 1 \notin t
    <3>1. t \in SUBSET (1 .. k)
      BY <2>2
    <3> QED
      BY <1>2, <3>1
  <2> QED
    BY <2>1, <2>2
<1>3. S = Nat
  <2>1. S \in SUBSET Nat /\ 0 \in S
    BY <1>1
  <2>2. \A k \in S : k + 1 \in S
    BY <1>2
  <2> HIDE DEF S
  <2> QED
    BY <2>1, <2>2, NaturalsClosed
<1>4. Bounded(n)
  BY <1>3
<1>5. \E last \in s : \A other \in s : last >= other
  BY <1>4
<1>6. Max(s) \in s /\ \A other \in s : Max(s) >= other
  BY <1>5 DEF Max
<1> QED
  BY <1>6

\* A set of numbers up to n has a least.
LEMMA MinType ==
  ASSUME NEW n \in Nat, NEW s \in SUBSET (1 .. n), s # {}
  PROVE  Min(s) \in s /\ \A other \in s : Min(s) <= other
<1> DEFINE Bounded(k) == \A t \in SUBSET (1 .. k) : t # {} => \E first \in t : \A other \in t : first <= other
           S == {k \in Nat : Bounded(k)}
<1>1. Bounded(0)
  BY 1 .. 0 = {}
<1>2. ASSUME NEW k \in Nat, Bounded(k) PROVE Bounded(k + 1)
  <2> SUFFICES ASSUME NEW t \in SUBSET (1 .. k + 1), t # {}
               PROVE  \E first \in t : \A other \in t : first <= other
    OBVIOUS
  <2>1. CASE t \ {k + 1} # {}
    <3>1. t \ {k + 1} \in SUBSET (1 .. k)
      OBVIOUS
    <3>2. PICK first \in t \ {k + 1} : \A other \in t \ {k + 1} : first <= other
      BY <1>2, <2>1, <3>1
    <3>3. first <= k + 1
      BY <3>1
    <3> QED
      BY <3>2, <3>3
  <2>2. CASE t \ {k + 1} = {}
    <3>1. k + 1 \in t /\ \A other \in t : other = k + 1
      BY <2>2
    <3> QED
      BY <3>1
  <2> QED
    BY <2>1, <2>2
<1>3. S = Nat
  <2> HIDE DEF Bounded
  <2>1. S \in SUBSET Nat /\ 0 \in S
    BY <1>1
  <2>2. \A k \in S : k + 1 \in S
    BY <1>2
  <2> HIDE DEF S
  <2> QED
    BY <2>1, <2>2, NaturalsClosed
<1>4. Bounded(n)
  BY <1>3
<1>5. \E first \in s : \A other \in s : first <= other
  BY <1>4
<1> QED
  BY <1>5 DEF Min

-------------------------------------------------------------------------------
(* Parts of a text.                                                        *)

LEMMA SliceFacts ==
  ASSUME NEW text \in Seq(Byte), NEW m \in Nat \ {0}, NEW n \in 0 .. Len(text), m <= n + 1
  PROVE  /\ SubSeq(text, m, n) \in Seq(Byte) /\ Len(SubSeq(text, m, n)) = n - m + 1
         /\ \A i \in 1 .. n - m + 1 : SubSeq(text, m, n)[i] = text[m + i - 1]
<1>1. \A i \in m .. n : text[i] \in Byte
  OBVIOUS
<1> QED
  BY <1>1, SubSeqProperties

LEMMA SliceOfSlice ==
  ASSUME NEW text \in Seq(Byte), NEW c \in Nat, NEW r \in 0 .. Len(text), c <= r,
         NEW i \in Nat \ {0}, NEW j \in Nat, i <= j + 1, j <= r - c
  PROVE  SubSeq(SubSeq(text, c + 1, r), i, j) = SubSeq(text, c + i, c + j)
<1> DEFINE chunk0 == SubSeq(text, c + 1, r)
           inner == SubSeq(chunk0, i, j)
           outer == SubSeq(text, c + i, c + j)
<1>1. /\ chunk0 \in Seq(Byte) /\ Len(chunk0) = r - c
      /\ \A k \in 1 .. r - c : chunk0[k] = text[c + k]
  <2>1. c + 1 \in Nat \ {0} /\ c + 1 <= r + 1
    OBVIOUS
  <2>2. /\ chunk0 \in Seq(Byte) /\ Len(chunk0) = r - (c + 1) + 1
        /\ \A k \in 1 .. r - (c + 1) + 1 : chunk0[k] = text[(c + 1) + k - 1]
    BY <2>1, SliceFacts
  <2> HIDE DEF chunk0
  <2> QED
    BY <2>2
<1> HIDE DEF chunk0
<1>2. /\ inner \in Seq(Byte) /\ Len(inner) = j - i + 1
      /\ \A k \in 1 .. j - i + 1 : inner[k] = chunk0[i + k - 1]
  <2>1. j \in 0 .. Len(chunk0)
    BY <1>1
  <2> QED
    BY <1>1, <2>1, SliceFacts
<1>3. /\ outer \in Seq(Byte) /\ Len(outer) = j - i + 1
      /\ \A k \in 1 .. j - i + 1 : outer[k] = text[c + i + k - 1]
  <2>1. c + i \in Nat \ {0} /\ c + j \in 0 .. Len(text) /\ c + i <= (c + j) + 1
    OBVIOUS
  <2>2. /\ outer \in Seq(Byte) /\ Len(outer) = (c + j) - (c + i) + 1
        /\ \A k \in 1 .. (c + j) - (c + i) + 1 : outer[k] = text[(c + i) + k - 1]
    BY <2>1, SliceFacts
  <2> HIDE DEF outer
  <2> QED
    BY <2>2
<1> HIDE DEF inner, outer
<1>4. ASSUME NEW k \in 1 .. j - i + 1 PROVE inner[k] = outer[k]
  <2>1. i + k - 1 \in 1 .. r - c /\ c + (i + k - 1) = c + i + k - 1
    OBVIOUS
  <2> QED
    BY <1>1, <1>2, <1>3, <2>1
<1>5. inner = outer
  BY <1>2, <1>3, <1>4, SeqEqual
<1> QED
  BY <1>5 DEF inner, outer, chunk0

-------------------------------------------------------------------------------
(* The lines of a text.                                                    *)

\* A line begins at or before the place after it, behind all newlines.
LEMMA LineStartFacts ==
  ASSUME NEW text, NEW i \in Nat \ {0}
  PROVE  LineStart(text, i) \in 1 .. i
<1> DEFINE ends == {k \in 1 .. i - 1 : text[k] = Newline}
<1>1. CASE ends = {}
  BY <1>1 DEF LineStart
<1>2. CASE ends # {}
  <2>1. i - 1 \in Nat /\ ends \in SUBSET (1 .. i - 1)
    OBVIOUS
  <2>2. Max(ends) \in 1 .. i - 1
    BY <1>2, <2>1, MaxType
  <2>3. LineStart(text, i) = Max(ends) + 1
    BY <1>2 DEF LineStart
  <2> HIDE DEF ends
  <2> QED
    BY <2>2, <2>3
<1> QED
  BY <1>1, <1>2

\* It goes on as long as there is no newline.
LEMMA LineGoesOn ==
  ASSUME NEW text, NEW a \in Nat, NEW b \in Nat, a <= b, \A k \in a + 1 .. b : text[k] # Newline
  PROVE  LineStart(text, b + 1) = LineStart(text, a + 1)
<1>1. {k \in 1 .. (b + 1) - 1 : text[k] = Newline} = {k \in 1 .. (a + 1) - 1 : text[k] = Newline}
  OBVIOUS
<1> QED
  BY <1>1 DEF LineStart

LEMMA LineBegins ==
  ASSUME NEW text, NEW i \in Nat \ {0}, text[i] = Newline
  PROVE  LineStart(text, i + 1) = i + 1
<1> DEFINE ends == {k \in 1 .. (i + 1) - 1 : text[k] = Newline}
<1>1. i \in ends /\ ends \in SUBSET (1 .. i)
  OBVIOUS
<1>2. LineStart(text, i + 1) = Max(ends) + 1
  BY <1>1 DEF LineStart
<1> HIDE DEF ends
<1>3. Max(ends) \in ends /\ i <= Max(ends)
  BY <1>1, MaxType
<1>4. Max(ends) = i
  <2>1. Max(ends) \in 1 .. i
    BY <1>1, <1>3
  <2> QED
    BY <1>3, <2>1
<1> QED
  BY <1>2, <1>4

\* The function by which DueLines is defined, up to a place.
IsDue(due, text, n) ==
  due = [k \in 0 .. n |->
           IF k = 0 THEN <<>>
           ELSE IF text[k] = Newline /\ ForParser(LineEnding(text, k))
             THEN Append(due[k - 1], LineEnding(text, k))
           ELSE due[k - 1]]

LEMMA DueExists ==
  ASSUME NEW text, NEW n \in Nat
  PROVE  \E due : IsDue(due, text, n)
<1> DEFINE S == {k \in Nat : \E due : IsDue(due, text, k)}
<1>1. 0 \in S
  <2> DEFINE due == [k \in 0 .. 0 |-> <<>>]
  <2>1. IsDue(due, text, 0)
    BY DEF IsDue
  <2> HIDE DEF due
  <2> QED
    BY <2>1
<1>2. ASSUME NEW k \in S PROVE k + 1 \in S
  <2>1. k \in Nat /\ \E due : IsDue(due, text, k)
    BY <1>2
  <2>2. PICK due : IsDue(due, text, k)
    BY <2>1
  <2> DEFINE more == [i \in 0 .. k + 1 |->
                        IF i = 0 THEN <<>>
                        ELSE IF text[i] = Newline /\ ForParser(LineEnding(text, i))
                          THEN Append(due[i - 1], LineEnding(text, i))
                        ELSE due[i - 1]]
  <2>3. ASSUME NEW i \in 0 .. k PROVE more[i] = due[i]
    <3>1. i \in 0 .. k + 1
      BY <2>1
    <3> QED
      BY <2>2, <3>1 DEF IsDue
  <2>4. ASSUME NEW i \in 0 .. k + 1
        PROVE  more[i] = IF i = 0 THEN <<>>
                         ELSE IF text[i] = Newline /\ ForParser(LineEnding(text, i))
                           THEN Append(more[i - 1], LineEnding(text, i))
                         ELSE more[i - 1]
    <3>1. i # 0 => i - 1 \in 0 .. k
      BY <2>1
    <3>2. i # 0 => more[i - 1] = due[i - 1]
      BY <2>3, <3>1
    <3>3. more[i] = IF i = 0 THEN <<>>
                    ELSE IF text[i] = Newline /\ ForParser(LineEnding(text, i))
                      THEN Append(due[i - 1], LineEnding(text, i))
                    ELSE due[i - 1]
      OBVIOUS
    <3> HIDE DEF more
    <3> QED
      BY <3>2, <3>3
  <2>5. IsDue(more, text, k + 1)
    BY <2>4 DEF IsDue
  <2> HIDE DEF more
  <2> QED
    BY <2>1, <2>5
<1>3. S = Nat
  <2>1. S \in SUBSET Nat
    OBVIOUS
  <2> HIDE DEF S
  <2> QED
    BY <1>1, <1>2, <2>1, NaturalsClosed
<1> QED
  BY <1>3

LEMMA DueIs ==
  ASSUME NEW text \in Seq(Byte)
  PROVE  /\ DueLines(text)[0] = <<>>
         /\ \A k \in 1 .. Len(text) :
              DueLines(text)[k] =
                IF text[k] = Newline /\ ForParser(LineEnding(text, k))
                  THEN Append(DueLines(text)[k - 1], LineEnding(text, k))
                ELSE DueLines(text)[k - 1]
<1> DEFINE d == CHOOSE due : IsDue(due, text, Len(text))
<1>1. Len(text) \in Nat
  OBVIOUS
<1>2. IsDue(d, text, Len(text))
  BY <1>1, DueExists
<1>3. DueLines(text) = d
  BY DEF DueLines, IsDue
<1> HIDE DEF d
<1>4. d[0] = <<>>
  <2>1. 0 \in 0 .. Len(text)
    OBVIOUS
  <2> QED
    BY <1>2, <2>1 DEF IsDue
<1>5. ASSUME NEW k \in 1 .. Len(text)
      PROVE  d[k] = IF text[k] = Newline /\ ForParser(LineEnding(text, k))
                      THEN Append(d[k - 1], LineEnding(text, k))
                    ELSE d[k - 1]
  <2>1. k \in 0 .. Len(text) /\ k # 0
    OBVIOUS
  <2> QED
    BY <1>2, <2>1 DEF IsDue
<1> QED
  BY <1>3, <1>4, <1>5

\* The lines due do not change where there is no newline.
LEMMA DueGoesOn ==
  ASSUME NEW text \in Seq(Byte), NEW a \in Nat, NEW b \in 0 .. Len(text), a <= b,
         \A k \in a + 1 .. b : text[k] # Newline
  PROVE  DueLines(text)[b] = DueLines(text)[a]
<1> DEFINE Same(k) == a + k <= b => DueLines(text)[a + k] = DueLines(text)[a]
           S == {k \in Nat : Same(k)}
<1>1. Same(0)
  OBVIOUS
<1>2. ASSUME NEW k \in Nat, Same(k) PROVE Same(k + 1)
  <2> SUFFICES ASSUME a + (k + 1) <= b PROVE DueLines(text)[a + (k + 1)] = DueLines(text)[a]
    OBVIOUS
  <2> DEFINE i == a + (k + 1)
  <2>1. i \in 1 .. Len(text) /\ i \in a + 1 .. b /\ i - 1 = a + k /\ a + k <= b
    OBVIOUS
  <2>2. text[i] # Newline
    BY <2>1
  <2> HIDE DEF i
  <2>3. DueLines(text)[i] = DueLines(text)[i - 1]
    BY <2>1, <2>2, DueIs
  <2>4. DueLines(text)[a + k] = DueLines(text)[a]
    BY <1>2, <2>1
  <2> QED
    BY <2>1, <2>3, <2>4 DEF i
<1>3. S = Nat
  <2> HIDE DEF Same
  <2>1. S \in SUBSET Nat /\ 0 \in S
    BY <1>1
  <2>2. \A k \in S : k + 1 \in S
    BY <1>2
  <2> HIDE DEF S
  <2> QED
    BY <2>1, <2>2, NaturalsClosed
<1>4. Same(b - a)
  <2>1. b - a \in Nat
    OBVIOUS
  <2> HIDE DEF Same
  <2> QED
    BY <1>3, <2>1
<1>5. a + (b - a) = b
  OBVIOUS
<1> QED
  BY <1>4, <1>5

\* The next newline of a text ends the line that was begun.
LEMMA LineIs ==
  ASSUME NEW text \in Seq(Byte), NEW c \in Nat, NEW f \in Nat \ {0}, c + f <= Len(text),
         text[c + f] = Newline, \A k \in c + 1 .. c + f - 1 : text[k] # Newline,
         NEW line, line = SubSeq(text, LineStart(text, c + 1), c + f - 1)
  PROVE  /\ LineStart(text, c + f + 1) = c + f + 1
         /\ line \in Seq(Byte) /\ Len(line) = c + f - LineStart(text, c + 1)
         /\ DueLines(text)[c + f] =
              IF ForParser(line) THEN Append(DueLines(text)[c], line) ELSE DueLines(text)[c]
<1> DEFINE e == c + f
           s == LineStart(text, c + 1)
<1>1. /\ e \in Nat \ {0} /\ e \in 1 .. Len(text) /\ c <= e - 1 /\ e - 1 \in 0 .. Len(text)
      /\ c + 1 \in Nat \ {0} /\ (e - 1) + 1 = e /\ c + f - 1 = e - 1 /\ c + f + 1 = e + 1
  OBVIOUS
<1>2. text[e] = Newline /\ \A k \in c + 1 .. e - 1 : text[k] # Newline
  OBVIOUS
<1>3. line = SubSeq(text, s, e - 1)
  BY <1>1
<1>4. s \in 1 .. c + 1
  BY <1>1, LineStartFacts
<1> HIDE DEF e
<1>5. LineStart(text, e + 1) = e + 1
  <2>1. e \in Nat \ {0} /\ text[e] = Newline
    BY <1>1, <1>2
  <2> QED
    BY <2>1, LineBegins
<1>6. LineStart(text, (e - 1) + 1) = LineStart(text, c + 1)
  <2> DEFINE b == e - 1
  <2>1. b \in Nat /\ c <= b /\ \A k \in c + 1 .. b : text[k] # Newline
    BY <1>1, <1>2
  <2> HIDE DEF b
  <2>2. LineStart(text, b + 1) = LineStart(text, c + 1)
    BY <2>1, LineGoesOn
  <2> QED
    BY <2>2 DEF b
<1>7. LineEnding(text, e) = line
  BY <1>1, <1>3, <1>6 DEF LineEnding
<1>8. DueLines(text)[e - 1] = DueLines(text)[c]
  BY <1>1, <1>2, DueGoesOn
<1>9. DueLines(text)[e] = IF ForParser(line) THEN Append(DueLines(text)[c], line) ELSE DueLines(text)[c]
  BY <1>1, <1>2, <1>7, <1>8, DueIs
<1> HIDE DEF s
<1>10. line \in Seq(Byte) /\ Len(line) = (e - 1) - s + 1
  <2> DEFINE b == e - 1
  <2>1. s \in Nat \ {0} /\ b \in 0 .. Len(text) /\ s <= b + 1
    BY <1>1, <1>4
  <2>2. line = SubSeq(text, s, b)
    BY <1>3
  <2> HIDE DEF b
  <2>3. SubSeq(text, s, b) \in Seq(Byte) /\ Len(SubSeq(text, s, b)) = b - s + 1
    BY <2>1, SliceFacts
  <2> QED
    BY <2>2, <2>3 DEF b
<1>11. e = c + f
  BY DEF e
<1>12. LineStart(text, c + f + 1) = c + f + 1
  BY <1>5, <1>11
<1>13. Len(line) = c + f - LineStart(text, c + 1)
  <2> DEFINE n == Len(line)
  <2>1. n = (e - 1) - s + 1 /\ e \in Nat /\ s \in Nat
    BY <1>1, <1>4, <1>10
  <2> HIDE DEF n
  <2>2. n = c + f - s
    BY <1>11, <2>1
  <2> QED
    BY <2>2 DEF n, s
<1> QED
  BY <1>9, <1>10, <1>11, <1>12, <1>13

LEMMA DueType ==
  ASSUME NEW text \in Seq(Byte), NEW n \in 0 .. Len(text)
  PROVE  DueLines(text)[n] \in Seq(Seq(Byte))
<1> DEFINE Typed(k) == k <= Len(text) => DueLines(text)[k] \in Seq(Seq(Byte))
           S == {k \in Nat : Typed(k)}
<1>1. Typed(0)
  <2>1. <<>> \in Seq(Seq(Byte))
    OBVIOUS
  <2>2. DueLines(text)[0] = <<>>
    BY DueIs
  <2> QED
    BY <2>1, <2>2
<1>2. ASSUME NEW k \in Nat, Typed(k) PROVE Typed(k + 1)
  <2> SUFFICES ASSUME k + 1 <= Len(text) PROVE DueLines(text)[k + 1] \in Seq(Seq(Byte))
    OBVIOUS
  <2>1. k + 1 \in 1 .. Len(text) /\ (k + 1) - 1 = k /\ k + 1 \in Nat \ {0} /\ k \in 0 .. Len(text)
    OBVIOUS
  <2>2. DueLines(text)[k] \in Seq(Seq(Byte))
    BY <1>2, <2>1
  <2>3. LineEnding(text, k + 1) \in Seq(Byte)
    <3>1. LineStart(text, k + 1) \in 1 .. k + 1
      BY <2>1, LineStartFacts
    <3>2. LineStart(text, k + 1) \in Nat \ {0} /\ LineStart(text, k + 1) <= k + 1
      BY <3>1
    <3>3. SubSeq(text, LineStart(text, k + 1), k) \in Seq(Byte)
      BY <2>1, <3>2, SliceFacts
    <3> QED
      BY <2>1, <3>3 DEF LineEnding
  <2>4. \/ DueLines(text)[k + 1] = DueLines(text)[k]
        \/ DueLines(text)[k + 1] = Append(DueLines(text)[k], LineEnding(text, k + 1))
    BY <2>1, DueIs
  <2> DEFINE list == DueLines(text)[k]
             line == LineEnding(text, k + 1)
  <2>5. list \in Seq(Seq(Byte)) /\ line \in Seq(Byte)
    BY <2>2, <2>3
  <2>6. DueLines(text)[k + 1] = list \/ DueLines(text)[k + 1] = Append(list, line)
    BY <2>4
  <2> HIDE DEF list, line
  <2>7. Append(list, line) \in Seq(Seq(Byte))
    BY <2>5, AppendProperties
  <2> QED
    BY <2>5, <2>6, <2>7
<1>3. S = Nat
  <2> HIDE DEF Typed
  <2>1. S \in SUBSET Nat /\ 0 \in S
    BY <1>1
  <2>2. \A k \in S : k + 1 \in S
    BY <1>2
  <2> HIDE DEF S
  <2> QED
    BY <2>1, <2>2, NaturalsClosed
<1>4. Typed(n)
  <2>1. n \in Nat
    OBVIOUS
  <2> HIDE DEF Typed
  <2> QED
    BY <1>3, <2>1
<1> QED
  BY <1>4

-------------------------------------------------------------------------------
(* What was got of what is due.                                            *)

Matches(got, gone, due) ==
  IF gone = 0 THEN got = due
  ELSE /\ Len(got) + gone = Len(due)
       /\ \E from \in [1 .. Len(got) -> 1 .. Len(due)] :
            /\ \A i \in 1 .. Len(got) : got[i] = due[from[i]]
            /\ \A i, j \in 1 .. Len(got) : i < j => from[i] < from[j]

LEMMA AppendFacts ==
  ASSUME NEW list \in Seq(Seq(Byte)), NEW x \in Seq(Byte)
  PROVE  /\ Append(list, x) \in Seq(Seq(Byte)) /\ Len(list) \in Nat
         /\ Len(Append(list, x)) = Len(list) + 1 /\ Append(list, x)[Len(list) + 1] = x
         /\ \A i \in 1 .. Len(list) : Append(list, x)[i] = list[i]
  BY AppendProperties

\* What is appended to the last of two lists comes last in both.
LEMMA AppendLast ==
  ASSUME NEW S, NEW a \in Seq(S), NEW b \in Seq(S), NEW x \in S
  PROVE  a \o Append(b, x) = Append(a \o b, x)
<1>1. <<x>> \in Seq(S) /\ Append(b, x) = b \o <<x>>
  BY AppendIsConcat
<1>2. a \o b \in Seq(S)
  BY ConcatProperties
<1>3. Append(a \o b, x) = (a \o b) \o <<x>>
  BY <1>2, AppendIsConcat
<1>4. (a \o b) \o <<x>> = a \o (b \o <<x>>)
  BY <1>1, ConcatAssociative
<1> QED
  BY <1>1, <1>3, <1>4

LEMMA LinesLast ==
  ASSUME NEW a \in Seq(Seq(Byte)), NEW b \in Seq(Seq(Byte)), NEW x \in Seq(Byte)
  PROVE  a \o Append(b, x) = Append(a \o b, x)
  BY AppendLast

\* The next line is got.
LEMMA MatchTaken ==
  ASSUME NEW got \in Seq(Seq(Byte)), NEW due \in Seq(Seq(Byte)), NEW gone \in Nat, NEW x \in Seq(Byte),
         Matches(got, gone, due)
  PROVE  Matches(Append(got, x), gone, Append(due, x))
<1>1. CASE gone = 0
  BY <1>1 DEF Matches
<1>2. CASE gone # 0
  <2> DEFINE g == Append(got, x)
             d == Append(due, x)
             n == Len(got)
             m == Len(due)
  <2>1. PICK from \in [1 .. n -> 1 .. m] :
          /\ \A i \in 1 .. n : got[i] = due[from[i]]
          /\ \A i, j \in 1 .. n : i < j => from[i] < from[j]
    BY <1>2 DEF Matches
  <2>2. /\ n \in Nat /\ Len(g) = n + 1 /\ g[n + 1] = x /\ \A i \in 1 .. n : g[i] = got[i]
        /\ m \in Nat /\ Len(d) = m + 1 /\ d[m + 1] = x /\ \A i \in 1 .. m : d[i] = due[i]
    BY AppendFacts
  <2>3. n + gone = m
    BY <1>2 DEF Matches
  <2> HIDE DEF g, d, n, m
  <2> DEFINE more == [i \in 1 .. n + 1 |-> IF i = n + 1 THEN m + 1 ELSE from[i]]
  <2>4. more \in [1 .. n + 1 -> 1 .. m + 1]
    BY <2>1, <2>2
  <2>5. ASSUME NEW i \in 1 .. n + 1 PROVE g[i] = d[more[i]]
    <3>1. CASE i = n + 1
      BY <2>2, <3>1
    <3>2. CASE i # n + 1
      <4>1. i \in 1 .. n /\ more[i] = from[i] /\ from[i] \in 1 .. m
        BY <2>1, <2>2, <3>2
      <4> HIDE DEF more
      <4> QED
        BY <2>1, <2>2, <4>1
    <3> QED
      BY <3>1, <3>2
  <2>6. ASSUME NEW i \in 1 .. n + 1, NEW j \in 1 .. n + 1, i < j PROVE more[i] < more[j]
    <3>1. i \in 1 .. n /\ more[i] = from[i] /\ from[i] \in 1 .. m
      BY <2>1, <2>2, <2>6
    <3>2. CASE j = n + 1
      BY <2>2, <3>1, <3>2
    <3>3. CASE j # n + 1
      <4>1. j \in 1 .. n /\ more[j] = from[j]
        BY <2>2, <3>3
      <4> HIDE DEF more
      <4> QED
        BY <2>1, <2>6, <3>1, <4>1
    <3> QED
      BY <3>2, <3>3
  <2> HIDE DEF more
  <2>7. Len(g) + gone = Len(d)
    BY <2>2, <2>3
  <2>8. Matches(g, gone, d)
    BY <1>2, <2>2, <2>4, <2>5, <2>6, <2>7 DEF Matches
  <2> QED
    BY <2>8 DEF g, d
<1> QED
  BY <1>1, <1>2

\* The next line is lost.
LEMMA MatchLost ==
  ASSUME NEW got \in Seq(Seq(Byte)), NEW due \in Seq(Seq(Byte)), NEW gone \in Nat, NEW x \in Seq(Byte),
         Matches(got, gone, due)
  PROVE  Matches(got, gone + 1, Append(due, x))
<1> DEFINE d == Append(due, x)
           n == Len(got)
           m == Len(due)
<1>1. /\ n \in Nat /\ m \in Nat /\ Len(d) = m + 1 /\ \A i \in 1 .. m : d[i] = due[i]
  BY AppendFacts
<1>2. n + gone = m /\ \E from \in [1 .. n -> 1 .. m] :
          /\ \A i \in 1 .. n : got[i] = due[from[i]]
          /\ \A i, j \in 1 .. n : i < j => from[i] < from[j]
  <2>1. CASE gone = 0
    <3>1. got = due /\ n = m
      BY <2>1 DEF Matches
    <3> DEFINE same == [i \in 1 .. n |-> i]
    <3>2. same \in [1 .. n -> 1 .. m] /\ \A i \in 1 .. n : same[i] = i
      BY <3>1
    <3> HIDE DEF same
    <3>3. \A i \in 1 .. n : got[i] = due[same[i]]
      BY <3>1, <3>2
    <3>4. \A i, j \in 1 .. n : i < j => same[i] < same[j]
      BY <3>2
    <3>5. n + gone = m
      BY <1>1, <2>1, <3>1
    <3> QED
      BY <3>2, <3>3, <3>4, <3>5
  <2>2. CASE gone # 0
    BY <2>2 DEF Matches
  <2> QED
    BY <2>1, <2>2
<1>3. PICK from \in [1 .. n -> 1 .. m] :
          /\ \A i \in 1 .. n : got[i] = due[from[i]]
          /\ \A i, j \in 1 .. n : i < j => from[i] < from[j]
  BY <1>2
<1> HIDE DEF d, n, m
<1>4. from \in [1 .. n -> 1 .. m + 1]
  BY <1>1
<1>5. \A i \in 1 .. n : got[i] = d[from[i]]
  BY <1>1, <1>3
<1>6. n + (gone + 1) = Len(d) /\ gone + 1 # 0
  BY <1>1, <1>2
<1>7. Matches(got, gone + 1, d)
  BY <1>1, <1>3, <1>4, <1>5, <1>6 DEF Matches, n
<1> QED
  BY <1>7 DEF d

-------------------------------------------------------------------------------
(* The invariant: the chunk is the part of the output between what was cut *)
(* and what was read, and pending is the beginning of the line that is not *)
(* complete, unless that is too long already.                              *)

PumpType ==
  /\ stream \in Seq(Byte) /\ read \in 0 .. Len(stream)
  /\ chunk \in Seq(Byte) /\ Len(chunk) <= read
  /\ chunk = SubSeq(stream, Consumed + 1, read)
  /\ pending \in Seq(Byte) /\ discard \in BOOLEAN
  /\ channel \in Seq(Seq(Byte)) /\ parsed \in Seq(Seq(Byte)) /\ lost \in Nat

\* How much of the open line was cut: all of MaxLine bytes, and one more follows.
TooLong(begun, next) ==
  \/ begun > MaxLine
  \/ begun = MaxLine /\ next # <<>> /\ next[1] # Newline

LineInv ==
  /\ discard =>
       /\ pending = <<>>
       /\ TooLong(Consumed + 1 - LineStart(stream, Consumed + 1), chunk)
  /\ ~discard =>
       /\ pending = SubSeq(stream, LineStart(stream, Consumed + 1), Consumed)
       /\ Len(pending) <= MaxLine

MatchInv == Matches(parsed \o channel, lost, DueLines(stream)[Consumed])

IInv == PumpType /\ LineInv /\ MatchInv

LEMMA ChunkFacts ==
  ASSUME PumpType
  PROVE  /\ Consumed \in Nat /\ Len(chunk) \in Nat /\ Consumed + Len(chunk) = read
         /\ Consumed + Len(chunk) <= Len(stream) /\ Consumed \in 0 .. Len(stream)
         /\ \A i \in 1 .. Len(chunk) : chunk[i] = stream[Consumed + i]
<1> DEFINE c == Consumed
           n == Len(chunk)
<1>1. n \in Nat /\ n <= read /\ read \in Nat /\ read <= Len(stream) /\ Len(stream) \in Nat
  BY DEF PumpType
<1>2. c = read - n
  BY DEF Consumed
<1> HIDE DEF c, n
<1>3. c \in Nat /\ c + n = read /\ c + 1 \in Nat \ {0} /\ c + 1 <= read + 1 /\ read - (c + 1) + 1 = n
  BY <1>1, <1>2
<1>4. stream \in Seq(Byte) /\ read \in 0 .. Len(stream) /\ chunk = SubSeq(stream, c + 1, read)
  BY DEF PumpType, c
<1>5. \A i \in 1 .. read - (c + 1) + 1 : SubSeq(stream, c + 1, read)[i] = stream[(c + 1) + i - 1]
  BY <1>3, <1>4, SliceFacts
<1>6. \A i \in 1 .. n : chunk[i] = stream[c + i]
  BY <1>3, <1>4, <1>5
<1> QED
  BY <1>1, <1>3, <1>6 DEF c, n

\* The part of the output that the next m bytes of the chunk are.
LEMMA PieceFacts ==
  ASSUME PumpType, NEW m \in 0 .. Len(chunk)
  PROVE  SubSeq(chunk, 1, m) = SubSeq(stream, Consumed + 1, Consumed + m)
<1> DEFINE c == Consumed
<1>1. /\ c \in Nat /\ c <= read /\ Len(chunk) = read - c /\ m \in Nat /\ m <= read - c
      /\ 1 \in Nat \ {0} /\ 1 <= m + 1
  <2>1. c \in Nat /\ Len(chunk) \in Nat /\ c + Len(chunk) = read
    BY ChunkFacts
  <2> HIDE DEF c
  <2> QED
    BY <2>1
<1>2. stream \in Seq(Byte) /\ read \in 0 .. Len(stream) /\ chunk = SubSeq(stream, c + 1, read)
  BY DEF PumpType
<1> HIDE DEF c
<1>3. SubSeq(SubSeq(stream, c + 1, read), 1, m) = SubSeq(stream, c + 1, c + m)
  BY <1>1, <1>2, SliceOfSlice
<1> QED
  BY <1>2, <1>3 DEF c

\* What is left of the chunk when m bytes of it were cut.
LEMMA CutFacts ==
  ASSUME PumpType, NEW m \in 0 .. Len(chunk), chunk' = Rest(m), UNCHANGED <<stream, read>>
  PROVE  /\ Consumed' = Consumed + m
         /\ chunk' \in Seq(Byte) /\ Len(chunk') = Len(chunk) - m
         /\ chunk' = SubSeq(stream, (Consumed + m) + 1, read)
         /\ \A i \in 1 .. Len(chunk) - m : chunk'[i] = chunk[m + i]
<1> DEFINE c == Consumed
           n == Len(chunk)
<1>1. /\ c \in Nat /\ n \in Nat /\ c <= read /\ n = read - c /\ m \in 0 .. n /\ read \in Nat
  <2>1. c \in Nat /\ n \in Nat /\ c + n = read /\ m \in 0 .. n
    BY ChunkFacts
  <2> HIDE DEF c, n
  <2> QED
    BY <2>1
<1>2. stream \in Seq(Byte) /\ read \in 0 .. Len(stream) /\ chunk = SubSeq(stream, c + 1, read) /\ chunk \in Seq(Byte)
  BY DEF PumpType
<1>3. chunk' = SubSeq(chunk, m + 1, n)
  BY DEF Rest
<1>4. /\ m + 1 \in Nat \ {0} /\ n \in 0 .. Len(chunk) /\ m + 1 <= n + 1 /\ n <= read - c
      /\ n - (m + 1) + 1 = n - m /\ c + (m + 1) = (c + m) + 1 /\ c + n = read
  BY <1>1
<1> HIDE DEF c, n
<1>5. /\ SubSeq(chunk, m + 1, n) \in Seq(Byte) /\ Len(SubSeq(chunk, m + 1, n)) = n - (m + 1) + 1
      /\ \A i \in 1 .. n - (m + 1) + 1 : SubSeq(chunk, m + 1, n)[i] = chunk[(m + 1) + i - 1]
  BY <1>2, <1>4, SliceFacts
<1>6. chunk' \in Seq(Byte) /\ Len(chunk') = n - m /\ \A i \in 1 .. n - m : chunk'[i] = chunk[m + i]
  <2>1. chunk' \in Seq(Byte) /\ Len(chunk') = n - m
    BY <1>3, <1>4, <1>5
  <2>2. ASSUME NEW i \in 1 .. n - m PROVE chunk'[i] = chunk[m + i]
    <3>1. (m + 1) + i - 1 = m + i /\ i \in 1 .. n - (m + 1) + 1
      BY <1>1, <1>4
    <3>2. chunk'[i] = chunk[(m + 1) + i - 1]
      BY <1>3, <1>5, <3>1
    <3> QED
      BY <3>1, <3>2
  <2> QED
    BY <2>1, <2>2
<1>7. SubSeq(SubSeq(stream, c + 1, read), m + 1, n) = SubSeq(stream, c + (m + 1), c + n)
  BY <1>1, <1>2, <1>4, SliceOfSlice
<1>8. chunk' = SubSeq(stream, (c + m) + 1, read)
  BY <1>2, <1>3, <1>4, <1>7
<1>9. Consumed' = c + m
  BY <1>1, <1>6 DEF Consumed
<1> QED
  BY <1>6, <1>8, <1>9 DEF c, n

LEMMA FirstNewlineFacts ==
  ASSUME chunk \in Seq(Byte), Has(chunk, Newline)
  PROVE  /\ FirstNewline \in 1 .. Len(chunk) /\ chunk[FirstNewline] = Newline
         /\ \A i \in 1 .. FirstNewline - 1 : chunk[i] # Newline
<1> DEFINE ends == {i \in 1 .. Len(chunk) : chunk[i] = Newline}
<1>1. ends # {} /\ ends \in SUBSET (1 .. Len(chunk)) /\ Len(chunk) \in Nat
  BY DEF Has
<1>2. FirstNewline = Min(ends)
  BY DEF FirstNewline
<1>3. Min(ends) \in ends /\ \A other \in ends : Min(ends) <= other
  <2> HIDE DEF ends
  <2> QED
    BY <1>1, MinType
<1>4. FirstNewline \in ends /\ \A other \in ends : FirstNewline <= other
  BY <1>2, <1>3
<1> QED
  BY <1>4

\* The types after a step that cuts m bytes.
LEMMA CutType ==
  ASSUME PumpType, NEW m \in 0 .. Len(chunk), chunk' = Rest(m), UNCHANGED <<stream, read>>,
         pending' \in Seq(Byte), discard' \in BOOLEAN,
         channel' \in Seq(Seq(Byte)), parsed' \in Seq(Seq(Byte)), lost' \in Nat
  PROVE  PumpType'
<1>1. Len(chunk') <= read
  BY CutFacts DEF PumpType
<1>2. chunk' = SubSeq(stream', Consumed' + 1, read') /\ chunk' \in Seq(Byte)
  BY CutFacts
<1> QED
  BY <1>1, <1>2 DEF PumpType

-------------------------------------------------------------------------------
(* One lemma per action.                                                   *)

\* The invariant says so much of the open line.
LEMMA StartFacts ==
  ASSUME PumpType
  PROVE  LineStart(stream, Consumed + 1) \in 1 .. Consumed + 1
<1>1. Consumed + 1 \in Nat \ {0}
  BY ChunkFacts
<1> QED
  BY <1>1, LineStartFacts

\* A piece without a newline leaves the open line open, and the lines due alone.
LEMMA PieceGoesOn ==
  ASSUME PumpType, NEW m \in 0 .. Len(chunk), \A i \in 1 .. m : chunk[i] # Newline
  PROVE  /\ LineStart(stream, (Consumed + m) + 1) = LineStart(stream, Consumed + 1)
         /\ DueLines(stream)[Consumed + m] = DueLines(stream)[Consumed]
<1> DEFINE c == Consumed
           b == c + m
<1>1. stream \in Seq(Byte)
  BY DEF PumpType
<1>2. c \in Nat /\ m \in Nat /\ b \in Nat /\ c <= b /\ b \in 0 .. Len(stream)
  BY <1>1, ChunkFacts
<1>3. \A i \in 1 .. Len(chunk) : chunk[i] = stream[c + i]
  BY ChunkFacts
<1>4. ASSUME NEW k \in c + 1 .. b PROVE stream[k] # Newline
  <2> DEFINE i == k - c
  <2>1. i \in 1 .. m /\ i \in 1 .. Len(chunk) /\ c + i = k
    BY <1>2, ChunkFacts
  <2> HIDE DEF i
  <2> QED
    BY <1>3, <2>1
<1> HIDE DEF b, c
<1>5. LineStart(stream, b + 1) = LineStart(stream, c + 1)
  BY <1>2, <1>4, LineGoesOn
<1>6. DueLines(stream)[b] = DueLines(stream)[c]
  BY <1>1, <1>2, <1>4, DueGoesOn
<1> QED
  BY <1>5, <1>6 DEF b, c

\* The first newline of the chunk ends the open line.
LEMMA PieceEnds ==
  ASSUME PumpType, Has(chunk, Newline), NEW line,
         line = SubSeq(stream, LineStart(stream, Consumed + 1), Consumed + FirstNewline - 1)
  PROVE  /\ LineStart(stream, (Consumed + FirstNewline) + 1) = (Consumed + FirstNewline) + 1
         /\ line \in Seq(Byte) /\ Len(line) = Consumed + FirstNewline - LineStart(stream, Consumed + 1)
         /\ DueLines(stream)[Consumed + FirstNewline] =
              IF ForParser(line) THEN Append(DueLines(stream)[Consumed], line)
              ELSE DueLines(stream)[Consumed]
<1> DEFINE c == Consumed
           f == FirstNewline
<1>1. stream \in Seq(Byte) /\ chunk \in Seq(Byte)
  BY DEF PumpType
<1>2. f \in 1 .. Len(chunk) /\ chunk[f] = Newline /\ \A i \in 1 .. f - 1 : chunk[i] # Newline
  BY <1>1, FirstNewlineFacts
<1>3. c \in Nat /\ f \in Nat \ {0} /\ c + f <= Len(stream) /\ Len(chunk) \in Nat
  <2>1. c \in Nat /\ Len(chunk) \in Nat /\ c + Len(chunk) <= Len(stream) /\ Len(stream) \in Nat
    BY <1>1, ChunkFacts
  <2> HIDE DEF c, f
  <2> QED
    BY <1>2, <2>1
<1>4. \A i \in 1 .. Len(chunk) : chunk[i] = stream[c + i]
  BY ChunkFacts
<1>5. line = SubSeq(stream, LineStart(stream, c + 1), c + f - 1)
  OBVIOUS
<1> HIDE DEF c, f
<1>6. stream[c + f] = Newline
  BY <1>2, <1>4
<1>7. ASSUME NEW k \in c + 1 .. c + f - 1 PROVE stream[k] # Newline
  <2> DEFINE i == k - c
  <2>1. i \in 1 .. f - 1 /\ i \in 1 .. Len(chunk) /\ c + i = k
    BY <1>2, <1>3
  <2> HIDE DEF i
  <2> QED
    BY <1>2, <1>4, <2>1
<1>8. /\ LineStart(stream, c + f + 1) = c + f + 1
      /\ line \in Seq(Byte) /\ Len(line) = c + f - LineStart(stream, c + 1)
      /\ DueLines(stream)[c + f] =
           IF ForParser(line) THEN Append(DueLines(stream)[c], line) ELSE DueLines(stream)[c]
  BY <1>1, <1>3, <1>5, <1>6, <1>7, LineIs
<1> QED
  BY <1>8 DEF c, f

LEMMA ReadKeeps ==
  ASSUME IInv, NEW n \in 1 .. BufSize, Read(n)
  PROVE  IInv'
<1> USE SizesAssumption
<1>1. PumpType /\ chunk = <<>> /\ n \in Nat \ {0} /\ read + n <= Len(stream)
  BY DEF IInv, Read
<1>2. stream \in Seq(Byte) /\ read \in Nat /\ Len(stream) \in Nat
  BY <1>1 DEF PumpType
<1>3. Consumed = read
  BY <1>1, <1>2 DEF Consumed
<1>4. chunk' = SubSeq(stream, read + 1, read + n) /\ read' = read + n /\ stream' = stream
  BY DEF Read
<1>5. chunk' \in Seq(Byte) /\ Len(chunk') = n
  <2> DEFINE a == read + 1
             b == read + n
  <2>1. a \in Nat \ {0} /\ b \in 0 .. Len(stream) /\ a <= b + 1 /\ b - a + 1 = n
    BY <1>1, <1>2
  <2> HIDE DEF a, b
  <2>2. SubSeq(stream, a, b) \in Seq(Byte) /\ Len(SubSeq(stream, a, b)) = b - a + 1
    BY <1>2, <2>1, SliceFacts
  <2> QED
    BY <1>4, <2>1, <2>2 DEF a, b
<1>6. Consumed' = read
  BY <1>1, <1>2, <1>4, <1>5 DEF Consumed
<1>7. PumpType'
  <2>1. read' \in 0 .. Len(stream') /\ Len(chunk') <= read'
    BY <1>1, <1>2, <1>4, <1>5
  <2>2. chunk' = SubSeq(stream', Consumed' + 1, read')
    BY <1>4, <1>6
  <2> QED
    BY <1>1, <1>4, <1>5, <2>1, <2>2 DEF PumpType, Read
<1>8. LineInv'
  <2>1. pending' = pending /\ discard' = discard
    BY DEF Read
  <2>2. Consumed' = Consumed /\ stream' = stream
    BY <1>3, <1>4, <1>6
  <2>3. discard => pending = <<>> /\ Consumed + 1 - LineStart(stream, Consumed + 1) > MaxLine
    BY <1>1 DEF IInv, LineInv, TooLong
  <2> QED
    BY <2>1, <2>2, <2>3 DEF IInv, LineInv, TooLong
<1>9. MatchInv'
  BY <1>3, <1>4, <1>6 DEF IInv, MatchInv, Read
<1> QED
  BY <1>7, <1>8, <1>9 DEF IInv

LEMMA DiscardKeeps ==
  ASSUME IInv, Discard
  PROVE  IInv'
<1> DEFINE c == Consumed
           s == LineStart(stream, Consumed + 1)
<1>1. PumpType /\ chunk # <<>> /\ discard /\ pending = <<>> /\ TooLong(c + 1 - s, chunk)
  BY DEF IInv, LineInv, Discard
<1>2. UNCHANGED <<stream, read, pending, state, channel, parsed, lost>>
  BY DEF Discard
<1>3. c \in Nat /\ s \in 1 .. c + 1 /\ MaxLine \in Nat
  BY <1>1, ChunkFacts, StartFacts, SizesAssumption
<1>4. /\ stream \in Seq(Byte) /\ chunk \in Seq(Byte) /\ Len(chunk) \in Nat \ {0}
      /\ pending \in Seq(Byte) /\ channel \in Seq(Seq(Byte)) /\ parsed \in Seq(Seq(Byte)) /\ lost \in Nat
  BY <1>1, EmptySeq DEF PumpType
<1>5. CASE Has(chunk, Newline)
  <2> DEFINE f == FirstNewline
             line == SubSeq(stream, s, c + f - 1)
  <2>1. chunk' = Rest(f) /\ discard' = FALSE
    BY <1>5 DEF Discard
  <2>2. f \in 1 .. Len(chunk) /\ chunk[f] = Newline
    BY <1>4, <1>5, FirstNewlineFacts
  <2>3. f \in 0 .. Len(chunk) /\ f \in Nat \ {0}
    BY <2>2
  <2>4. Consumed' = c + f
    BY <1>1, <1>2, <2>1, <2>3, CutFacts
  <2>5. PumpType'
    BY <1>1, <1>2, <1>4, <2>1, <2>3, CutType
  <2>6. /\ LineStart(stream, (c + f) + 1) = (c + f) + 1
        /\ Len(line) = c + f - s
        /\ DueLines(stream)[c + f] =
             IF ForParser(line) THEN Append(DueLines(stream)[c], line) ELSE DueLines(stream)[c]
    BY <1>1, <1>5, PieceEnds
  <2>7. f = 1 => ~(c + 1 - s = MaxLine /\ chunk # <<>> /\ chunk[1] # Newline)
    BY <2>2
  <2> HIDE DEF c, s, f, line
  <2>8. (c + f) + 1 \in Int /\ c + f \in Int /\ c + f < (c + f) + 1
    BY <1>3, <2>3
  <2>9. c + f - s > MaxLine
    BY <1>1, <1>3, <2>3, <2>7 DEF TooLong
  <2>10. ~ForParser(line)
    BY <1>3, <2>3, <2>6, <2>9 DEF ForParser
  <2>11. DueLines(stream)[c + f] = DueLines(stream)[c]
    BY <2>6, <2>10
  <2>12. LineInv'
    <3>1. LineStart(stream', Consumed' + 1) = Consumed' + 1
      BY <1>2, <2>4, <2>6
    <3>2. SubSeq(stream, (c + f) + 1, c + f) = <<>>
      BY <2>8, SubSeqEmpty
    <3>3. SubSeq(stream', Consumed' + 1, Consumed') = <<>>
      BY <1>2, <2>4, <3>2
    <3>4. pending' = <<>> /\ Len(pending') <= MaxLine
      BY <1>1, <1>2, <1>3
    <3> QED
      BY <2>1, <3>1, <3>3, <3>4 DEF LineInv
  <2>13. MatchInv'
    BY <1>2, <2>4, <2>11 DEF IInv, MatchInv, c
  <2> QED
    BY <2>5, <2>12, <2>13 DEF IInv
<1>6. CASE ~Has(chunk, Newline)
  <2> DEFINE n == Len(chunk)
  <2>1. chunk' = <<>> /\ discard' = TRUE
    BY <1>1, <1>6 DEF Discard
  <2>2. n \in 0 .. Len(chunk) /\ n \in Nat \ {0}
    BY <1>4
  <2>3. chunk' = Rest(n)
    BY <1>4, <2>1, <2>2, SubSeqProperties DEF Rest
  <2>4. Consumed' = c + n
    BY <1>1, <1>2, <2>2, <2>3, CutFacts
  <2>5. PumpType'
    BY <1>1, <1>2, <1>4, <2>1, <2>2, <2>3, CutType
  <2>6. \A i \in 1 .. n : chunk[i] # Newline
    BY <1>6 DEF Has
  <2>7. LineStart(stream, (c + n) + 1) = s /\ DueLines(stream)[c + n] = DueLines(stream)[c]
    BY <1>1, <2>2, <2>6, PieceGoesOn
  <2> HIDE DEF c, s, n
  <2>8. (c + n) + 1 - s > MaxLine
    BY <1>1, <1>3, <2>2 DEF TooLong
  <2>9. LineInv'
    <3>1. Consumed' + 1 - LineStart(stream', Consumed' + 1) > MaxLine
      BY <1>2, <2>4, <2>7, <2>8
    <3> QED
      BY <1>1, <1>2, <2>1, <3>1 DEF LineInv, TooLong
  <2>10. MatchInv'
    BY <1>2, <2>4, <2>7 DEF IInv, MatchInv, c
  <2> QED
    BY <2>5, <2>9, <2>10 DEF IInv
<1> QED
  BY <1>5, <1>6

\* What is offered is got or lost.
LEMMA OfferMatches ==
  ASSUME channel \in Seq(Seq(Byte)), parsed \in Seq(Seq(Byte)), lost \in Nat,
         NEW line \in Seq(Byte), NEW due \in Seq(Seq(Byte)),
         Matches(parsed \o channel, lost, due), Offer(line), parsed' = parsed
  PROVE  /\ channel' \in Seq(Seq(Byte)) /\ lost' \in Nat
         /\ Matches(parsed' \o channel', lost', Append(due, line))
<1> DEFINE got == parsed \o channel
<1>1. got \in Seq(Seq(Byte)) /\ Matches(got, lost, due)
  BY ConcatProperties
<1>2. CASE Len(channel) < Capacity
  <2>1. channel' = Append(channel, line) /\ lost' = lost
    BY <1>2 DEF Offer
  <2>2. channel' \in Seq(Seq(Byte))
    BY <2>1, AppendProperties
  <2>3. parsed' \o channel' = Append(got, line)
    BY <2>1, LinesLast
  <2> HIDE DEF got
  <2>4. Matches(Append(got, line), lost, Append(due, line))
    BY <1>1, MatchTaken
  <2> QED
    BY <2>1, <2>2, <2>3, <2>4
<1>3. CASE ~(Len(channel) < Capacity)
  <2>1. channel' = channel /\ lost' = lost + 1
    BY <1>3 DEF Offer
  <2> HIDE DEF got
  <2>2. Matches(got, lost + 1, Append(due, line))
    BY <1>1, MatchLost
  <2> QED
    BY <2>1, <2>2 DEF got
<1> QED
  BY <1>2, <1>3

LEMMA EndLineKeeps ==
  ASSUME IInv, EndLine
  PROVE  IInv'
<1> DEFINE c == Consumed
           s == LineStart(stream, Consumed + 1)
           f == FirstNewline
           piece == SubSeq(chunk, 1, FirstNewline - 1)
           line == SubSeq(stream, s, c + f - 1)
           due == DueLines(stream)[c]
<1>1. /\ PumpType /\ ~discard /\ Has(chunk, Newline)
      /\ pending = SubSeq(stream, s, c) /\ Len(pending) <= MaxLine
  BY DEF IInv, LineInv, EndLine
<1>2. UNCHANGED <<stream, read, discard, state, parsed>> /\ pending' = <<>> /\ chunk' = Rest(f)
  BY DEF EndLine
<1>3. /\ stream \in Seq(Byte) /\ chunk \in Seq(Byte) /\ Len(chunk) \in Nat /\ pending \in Seq(Byte)
      /\ channel \in Seq(Seq(Byte)) /\ parsed \in Seq(Seq(Byte)) /\ lost \in Nat
  BY <1>1 DEF PumpType
<1>4. f \in 1 .. Len(chunk) /\ f \in 0 .. Len(chunk) /\ f \in Nat \ {0} /\ f - 1 \in 0 .. Len(chunk)
  <2>1. f \in 1 .. Len(chunk)
    BY <1>1, <1>3, FirstNewlineFacts
  <2> HIDE DEF f
  <2> QED
    BY <1>3, <2>1
<1>5. /\ c \in Nat /\ c + Len(chunk) <= Len(stream) /\ c \in 0 .. Len(stream)
      /\ s \in 1 .. c + 1 /\ MaxLine \in Nat
  BY <1>1, ChunkFacts, StartFacts, SizesAssumption
<1>6. Consumed' = c + f
  BY <1>1, <1>2, <1>4, CutFacts
<1>7. /\ LineStart(stream, (c + f) + 1) = (c + f) + 1
      /\ line \in Seq(Byte) /\ Len(line) = c + f - s
      /\ DueLines(stream)[c + f] = IF ForParser(line) THEN Append(due, line) ELSE due
  BY <1>1, PieceEnds
<1>8. piece = SubSeq(stream, c + 1, c + (f - 1)) /\ piece \in Seq(Byte)
  <2>1. SubSeq(chunk, 1, f - 1) = SubSeq(stream, c + 1, c + (f - 1))
    BY <1>1, <1>4, PieceFacts
  <2>2. f - 1 \in Nat /\ 1 \in Nat \ {0} /\ 1 <= (f - 1) + 1
    BY <1>4
  <2>3. SubSeq(chunk, 1, f - 1) \in Seq(Byte)
    BY <1>3, <1>4, <2>2, SliceFacts
  <2> QED
    BY <2>1, <2>3
<1>9. due \in Seq(Seq(Byte))
  BY <1>3, <1>5, DueType
<1>10. Matches(parsed \o channel, lost, due)
  BY DEF IInv, MatchInv
<1>11. /\ Len(pending) \in Nat /\ Len(piece) \in Nat
       /\ pending \o piece \in Seq(Byte) /\ Len(pending \o piece) = Len(pending) + Len(piece)
  BY <1>3, <1>8, ConcatProperties, LenProperties
<1>12. IF Len(piece) > Remaining \/ Has(pending \o piece, Bad)
         THEN UNCHANGED <<channel, lost>>
         ELSE Offer(pending \o piece)
  BY DEF EndLine
<1> HIDE DEF c, s, f, piece, line, due
<1>13. pending \o piece = line
  <2>1. s \in 1 .. Len(stream) + 1 /\ c \in s - 1 .. Len(stream) /\ c + f - 1 \in c .. Len(stream)
    BY <1>3, <1>4, <1>5
  <2>2. SubSeq(stream, s, c) \o SubSeq(stream, c + 1, c + f - 1) = SubSeq(stream, s, c + f - 1)
    BY <1>3, <2>1, ConcatAdjacentSubSeq
  <2>3. c + (f - 1) = c + f - 1
    BY <1>4, <1>5
  <2> QED
    BY <1>1, <1>8, <2>2, <2>3 DEF line
<1>14. ForParser(line) <=> ~(Len(piece) > Remaining \/ Has(line, Bad))
  <2>1. Len(line) <= MaxLine <=> ~(Len(piece) > MaxLine - Len(pending))
    BY <1>1, <1>5, <1>11, <1>13
  <2> QED
    BY <2>1 DEF ForParser, Remaining
<1>15. /\ channel' \in Seq(Seq(Byte)) /\ lost' \in Nat
       /\ Matches(parsed' \o channel', lost', DueLines(stream)[c + f])
  <2>1. CASE ForParser(line)
    <3>1. Offer(line)
      BY <1>12, <1>13, <1>14, <2>1
    <3>2. DueLines(stream)[c + f] = Append(due, line)
      BY <1>7, <2>1
    <3>3. /\ channel' \in Seq(Seq(Byte)) /\ lost' \in Nat
          /\ Matches(parsed' \o channel', lost', Append(due, line))
      BY <1>2, <1>3, <1>7, <1>9, <1>10, <3>1, OfferMatches
    <3> QED
      BY <3>2, <3>3
  <2>2. CASE ~ForParser(line)
    <3>1. UNCHANGED <<channel, lost, parsed>>
      BY <1>2, <1>12, <1>13, <1>14, <2>2
    <3>2. DueLines(stream)[c + f] = due
      BY <1>7, <2>2
    <3> QED
      BY <1>3, <1>10, <3>1, <3>2
  <2> QED
    BY <2>1, <2>2
<1>16. PumpType'
  <2>1. <<>> \in Seq(Byte) /\ discard \in BOOLEAN
    BY <1>1 DEF PumpType
  <2> QED
    BY <1>1, <1>2, <1>3, <1>4, <1>15, <2>1, CutType
<1>17. LineInv'
  <2>1. LineStart(stream', Consumed' + 1) = Consumed' + 1
    BY <1>2, <1>6, <1>7
  <2>2. (c + f) + 1 \in Int /\ c + f \in Int /\ c + f < (c + f) + 1
    BY <1>4, <1>5
  <2>3. SubSeq(stream, (c + f) + 1, c + f) = <<>>
    BY <2>2, SubSeqEmpty
  <2>4. SubSeq(stream', Consumed' + 1, Consumed') = <<>>
    BY <1>2, <1>6, <2>3
  <2>5. Len(pending') <= MaxLine
    BY <1>2, <1>5
  <2> QED
    BY <1>1, <1>2, <2>1, <2>4, <2>5 DEF LineInv
<1>18. MatchInv'
  BY <1>2, <1>6, <1>15 DEF MatchInv
<1> QED
  BY <1>16, <1>17, <1>18 DEF IInv

\* A piece without a newline: what the two actions that cut one share.
LEMMA PieceKeeps ==
  ASSUME IInv, chunk # <<>>, ~discard, ~Has(chunk, Newline), NEW m \in 0 .. Len(chunk),
         chunk' = Rest(m), UNCHANGED <<stream, read, state, channel, parsed, lost>>,
         pending' \in Seq(Byte), discard' \in BOOLEAN
  PROVE  /\ PumpType' /\ MatchInv' /\ Consumed' = Consumed + m /\ Consumed \in Nat
         /\ LineStart(stream', Consumed' + 1) = LineStart(stream, Consumed + 1)
         /\ LineStart(stream, Consumed + 1) \in 1 .. Consumed + 1
         /\ pending = SubSeq(stream, LineStart(stream, Consumed + 1), Consumed)
         /\ Len(pending) <= MaxLine /\ Len(pending) = Consumed + 1 - LineStart(stream, Consumed + 1)
<1>1. /\ PumpType /\ pending = SubSeq(stream, LineStart(stream, Consumed + 1), Consumed)
      /\ Len(pending) <= MaxLine
  BY DEF IInv, LineInv
<1>2. Consumed' = Consumed + m
  BY <1>1, CutFacts
<1>3. PumpType'
  <2>1. channel \in Seq(Seq(Byte)) /\ parsed \in Seq(Seq(Byte)) /\ lost \in Nat
    BY <1>1 DEF PumpType
  <2> QED
    BY <1>1, <2>1, CutType
<1>4. \A i \in 1 .. m : chunk[i] # Newline
  <2>1. Len(chunk) \in Nat
    BY <1>1, ChunkFacts
  <2> QED
    BY <2>1 DEF Has
<1>5. /\ LineStart(stream, (Consumed + m) + 1) = LineStart(stream, Consumed + 1)
      /\ DueLines(stream)[Consumed + m] = DueLines(stream)[Consumed]
  BY <1>1, <1>4, PieceGoesOn
<1>6. LineStart(stream', Consumed' + 1) = LineStart(stream, Consumed + 1)
  BY <1>2, <1>5
<1>7. MatchInv'
  BY <1>2, <1>5 DEF IInv, MatchInv
<1>8. Consumed \in Nat /\ LineStart(stream, Consumed + 1) \in 1 .. Consumed + 1
  BY <1>1, ChunkFacts, StartFacts
<1>9. Len(pending) = Consumed + 1 - LineStart(stream, Consumed + 1)
  <2> DEFINE s == LineStart(stream, Consumed + 1)
             c == Consumed
  <2>1. stream \in Seq(Byte) /\ c \in 0 .. Len(stream)
    BY <1>1, ChunkFacts DEF PumpType
  <2>2. s \in 1 .. c + 1 /\ c \in Nat
    BY <1>8
  <2>3. pending = SubSeq(stream, s, c)
    BY <1>1
  <2> HIDE DEF s, c
  <2>4. s \in Nat \ {0} /\ s <= c + 1
    BY <2>2
  <2>5. Len(SubSeq(stream, s, c)) = c - s + 1
    BY <2>1, <2>4, SliceFacts
  <2>6. Len(pending) = c + 1 - s
    BY <2>2, <2>3, <2>5
  <2> QED
    BY <2>6 DEF s, c
<1> QED
  BY <1>1, <1>2, <1>3, <1>6, <1>7, <1>8, <1>9

LEMMA KeepPieceKeeps ==
  ASSUME IInv, KeepPiece
  PROVE  IInv'
<1> DEFINE c == Consumed
           s == LineStart(stream, Consumed + 1)
           n == Len(chunk)
<1>1. PumpType /\ ~discard /\ chunk # <<>> /\ ~Has(chunk, Newline) /\ Len(chunk) <= Remaining
  BY DEF IInv, KeepPiece
<1>2. /\ UNCHANGED <<stream, read, discard, state, channel, parsed, lost>>
      /\ pending' = pending \o chunk /\ chunk' = <<>>
  BY DEF KeepPiece
<1>3. stream \in Seq(Byte) /\ chunk \in Seq(Byte) /\ pending \in Seq(Byte) /\ discard \in BOOLEAN
  BY <1>1 DEF PumpType
<1>4. n \in Nat /\ n \in 0 .. Len(chunk) /\ n + 1 \in Int /\ n \in Int /\ n < n + 1
  BY <1>3, LenProperties
<1>5. chunk' = Rest(n)
  BY <1>2, <1>4, SubSeqEmpty DEF Rest
<1>6. pending' \in Seq(Byte) /\ Len(pending') = Len(pending) + n
  BY <1>2, <1>3, ConcatProperties
<1>7. /\ PumpType' /\ MatchInv' /\ Consumed' = c + n /\ c \in Nat
      /\ LineStart(stream', Consumed' + 1) = s /\ s \in 1 .. c + 1
      /\ pending = SubSeq(stream, s, c) /\ Len(pending) <= MaxLine
  BY <1>1, <1>2, <1>3, <1>4, <1>5, <1>6, PieceKeeps
<1>8. chunk = SubSeq(stream, c + 1, c + n)
  <2>1. SubSeq(chunk, 1, n) = SubSeq(stream, c + 1, c + n)
    BY <1>1, <1>4, PieceFacts
  <2>2. SubSeq(chunk, 1, n) = chunk
    BY <1>3, SubSeqFull
  <2> QED
    BY <2>1, <2>2
<1>9. c + n <= Len(stream) /\ Len(stream) \in Nat
  BY <1>1, <1>3, ChunkFacts, LenProperties
<1>10. Len(pending') <= MaxLine
  <2>1. Len(pending) \in Nat /\ MaxLine \in Nat
    BY <1>3, LenProperties, SizesAssumption
  <2> QED
    BY <1>1, <1>4, <1>6, <2>1 DEF Remaining
<1> HIDE DEF c, s, n
<1>11. pending' = SubSeq(stream, s, c + n)
  <2>1. s \in 1 .. Len(stream) + 1 /\ c \in s - 1 .. Len(stream) /\ c + n \in c .. Len(stream)
    BY <1>4, <1>7, <1>9
  <2>2. SubSeq(stream, s, c) \o SubSeq(stream, c + 1, c + n) = SubSeq(stream, s, c + n)
    BY <1>3, <2>1, ConcatAdjacentSubSeq
  <2> QED
    BY <1>2, <1>7, <1>8, <2>2
<1>12. LineInv'
  BY <1>1, <1>2, <1>7, <1>10, <1>11 DEF LineInv
<1> QED
  BY <1>7, <1>12 DEF IInv

LEMMA DropPieceKeeps ==
  ASSUME IInv, DropPiece
  PROVE  IInv'
<1> DEFINE c == Consumed
           s == LineStart(stream, Consumed + 1)
           m == Remaining
<1>1. PumpType /\ ~discard /\ chunk # <<>> /\ ~Has(chunk, Newline) /\ Len(chunk) > m
  BY DEF IInv, DropPiece
<1>2. /\ UNCHANGED <<stream, read, state, channel, parsed, lost>>
      /\ pending' = <<>> /\ discard' = TRUE /\ chunk' = Rest(m)
  BY DEF DropPiece
<1>3. chunk \in Seq(Byte) /\ Len(chunk) \in Nat /\ pending \in Seq(Byte) /\ Len(pending) \in Nat
  BY <1>1, LenProperties DEF PumpType
<1>4. m \in 0 .. Len(chunk) /\ m = MaxLine - Len(pending) /\ m \in Nat
  <2>1. Len(pending) <= MaxLine /\ MaxLine \in Nat
    BY <1>1, SizesAssumption DEF IInv, LineInv
  <2> QED
    BY <1>1, <1>3, <2>1 DEF Remaining
<1>5. pending' \in Seq(Byte) /\ discard' \in BOOLEAN
  BY <1>2
<1>6. /\ PumpType' /\ MatchInv' /\ Consumed' = c + m /\ c \in Nat
      /\ LineStart(stream', Consumed' + 1) = s /\ s \in 1 .. c + 1
      /\ Len(pending) = c + 1 - s
  BY <1>1, <1>2, <1>4, <1>5, PieceKeeps
<1>7. Len(chunk') = Len(chunk) - m /\ \A i \in 1 .. Len(chunk) - m : chunk'[i] = chunk[m + i]
  BY <1>1, <1>2, <1>4, CutFacts
<1>8. chunk' # <<>> /\ chunk'[1] # Newline
  <2>1. 1 \in 1 .. Len(chunk) - m /\ m + 1 \in 1 .. Len(chunk)
    BY <1>1, <1>3, <1>4
  <2>2. chunk'[1] = chunk[m + 1] /\ chunk[m + 1] # Newline
    BY <1>1, <1>7, <2>1 DEF Has
  <2>3. Len(chunk') # 0
    BY <1>1, <1>3, <1>4, <1>7
  <2> QED
    BY <2>2, <2>3, EmptySeq
<1> HIDE DEF c, s, m
<1>9. Consumed' + 1 - LineStart(stream', Consumed' + 1) = MaxLine
  <2>1. MaxLine \in Nat
    BY SizesAssumption
  <2>2. c + m + 1 - s = MaxLine
    BY <1>3, <1>4, <1>6, <2>1
  <2> QED
    BY <1>6, <2>2
<1>10. LineInv'
  BY <1>2, <1>8, <1>9 DEF LineInv, TooLong
<1> QED
  BY <1>6, <1>10 DEF IInv

LEMMA ParseKeeps ==
  ASSUME IInv, Parse
  PROVE  IInv'
<1>1. /\ UNCHANGED <<stream, read, chunk, pending, discard, state, lost>> /\ channel # <<>>
      /\ parsed' = Append(parsed, Head(channel)) /\ channel' = Tail(channel)
  BY DEF Parse
<1>2. channel \in Seq(Seq(Byte)) /\ parsed \in Seq(Seq(Byte))
  BY DEF IInv, PumpType
<1>3. Head(channel) \in Seq(Byte) /\ channel' \in Seq(Seq(Byte))
  BY <1>1, <1>2, HeadTailProperties
<1>4. parsed' \in Seq(Seq(Byte))
  BY <1>1, <1>2, <1>3, AppendProperties
<1>5. parsed' \o channel' = parsed \o channel
  <2> DEFINE first == Head(channel)
             others == Tail(channel)
  <2>1. channel = <<first>> \o others
    <3>1. Len(channel) \in Nat \ {0}
      BY <1>1, <1>2, EmptySeq
    <3>2. 1 \in 1 .. Len(channel) /\ Len(channel) \in 1 .. Len(channel) /\ 1 + 1 = 2
      BY <3>1
    <3>3. SubSeq(channel, 1, Len(channel)) = <<channel[1]>> \o SubSeq(channel, 1 + 1, Len(channel))
      BY <1>2, <3>2, SubSeqRecursiveFirst
    <3>4. Tail(channel) = SubSeq(channel, 2, Len(channel))
      BY <1>1, <1>2, TailIsSubSeq
    <3>5. SubSeq(channel, 1, Len(channel)) = channel
      BY <1>2, SubSeqFull
    <3>6. Head(channel) = channel[1]
      BY <1>1, <1>2
    <3> QED
      BY <3>2, <3>3, <3>4, <3>5, <3>6
  <2>2. first \in Seq(Byte) /\ others \in Seq(Seq(Byte))
    BY <1>1, <1>3
  <2> HIDE DEF first, others
  <2>3. <<first>> \in Seq(Seq(Byte)) /\ Append(parsed, first) = parsed \o <<first>>
    BY <1>2, <2>2, AppendIsConcat
  <2>4. (parsed \o <<first>>) \o others = parsed \o (<<first>> \o others)
    BY <1>2, <2>2, <2>3, ConcatAssociative
  <2> QED
    BY <1>1, <2>1, <2>3, <2>4 DEF first, others
<1>6. Consumed' = Consumed
  BY <1>1 DEF Consumed
<1>7. PumpType'
  BY <1>1, <1>3, <1>4, <1>6 DEF IInv, PumpType
<1>8. LineInv'
  BY <1>1, <1>6 DEF IInv, LineInv
<1>9. MatchInv'
  BY <1>1, <1>5, <1>6 DEF IInv, MatchInv
<1> QED
  BY <1>7, <1>8, <1>9 DEF IInv

LEMMA OthersKeep ==
  ASSUME IInv, EndOfStream \/ PumpFails \/ UNCHANGED vars
  PROVE  IInv'
<1>1. UNCHANGED <<stream, read, chunk, pending, discard, channel, parsed, lost>>
  BY DEF EndOfStream, PumpFails, vars
<1>2. Consumed' = Consumed
  BY <1>1 DEF Consumed
<1>3. PumpType'
  BY <1>1, <1>2 DEF IInv, PumpType
<1>4. LineInv'
  BY <1>1, <1>2 DEF IInv, LineInv
<1>5. MatchInv'
  BY <1>1, <1>2 DEF IInv, MatchInv
<1> QED
  BY <1>3, <1>4, <1>5 DEF IInv

LEMMA InitHolds == Init => IInv
<1> SUFFICES ASSUME Init PROVE IInv
  OBVIOUS
<1>1. /\ read = 0 /\ chunk = <<>> /\ pending = <<>> /\ discard = FALSE
      /\ channel = <<>> /\ parsed = <<>> /\ lost = 0
  BY DEF Init
<1>2. stream \in Seq(Byte)
  BY SizesAssumption DEF Init
<1>3. Consumed = 0 /\ Len(chunk) = 0
  <2>1. Len(chunk) = 0
    BY <1>1, EmptySeq
  <2>2. read = 0
    BY <1>1
  <2> QED
    BY <2>1, <2>2 DEF Consumed
<1>4. LineStart(stream, 0 + 1) \in 1 .. 1
  BY LineStartFacts
<1>5. SubSeq(stream, 0 + 1, 0) = <<>>
  BY SubSeqEmpty
<1>6. PumpType
  <2>1. <<>> \in Seq(Byte) /\ <<>> \in Seq(Seq(Byte))
    BY EmptySeq
  <2>2. Len(stream) \in Nat
    BY <1>2, LenProperties
  <2>3. discard \in BOOLEAN /\ lost \in Nat
    BY <1>1
  <2>4. read \in 0 .. Len(stream) /\ Len(chunk) <= read
    BY <1>1, <1>3, <2>2
  <2> QED
    BY <1>1, <1>2, <1>3, <1>5, <2>1, <2>3, <2>4 DEF PumpType
<1>7. LineInv
  BY <1>1, <1>3, <1>4, <1>5, SizesAssumption DEF LineInv
<1>8. MatchInv
  <2>1. DueLines(stream)[0] = <<>>
    BY <1>2, DueIs
  <2>2. parsed \o channel = <<>>
    BY <1>1
  <2> QED
    BY <1>1, <1>3, <2>1, <2>2 DEF MatchInv, Matches
<1> QED
  BY <1>6, <1>7, <1>8 DEF IInv

\* The invariant of the pump, for every output and all sizes.
THEOREM PumpInvariantHolds == Spec => []IInv
<1>1. Init => IInv
  BY InitHolds
<1>2. IInv /\ [Next]_vars => IInv'
  <2> SUFFICES ASSUME IInv, [Next]_vars PROVE IInv'
    OBVIOUS
  <2>1. ASSUME NEW n \in 1 .. BufSize, Read(n) PROVE IInv'
    BY <2>1, ReadKeeps
  <2>2. CASE EndOfStream \/ PumpFails \/ UNCHANGED vars
    BY <2>2, OthersKeep
  <2>3. CASE Discard
    BY <2>3, DiscardKeeps
  <2>4. CASE EndLine
    BY <2>4, EndLineKeeps
  <2>5. CASE KeepPiece
    BY <2>5, KeepPieceKeeps
  <2>6. CASE DropPiece
    BY <2>6, DropPieceKeeps
  <2>7. CASE Parse
    BY <2>7, ParseKeeps
  <2> QED
    BY <2>1, <2>2, <2>3, <2>4, <2>5, <2>6, <2>7 DEF Next
<1> QED
  BY <1>1, <1>2, PTL DEF Spec

\* The parser gets the complete lines that are in UTF-8 and not too long, in
\* their order, but for those that found its channel full, however the output
\* is cut into reads.
THEOREM ParserGetsTheLines == Spec => []LinesAsWritten
<1>1. IInv => LinesAsWritten
  BY DEF IInv, MatchInv, Matches, LinesAsWritten
<1> QED
  BY <1>1, PumpInvariantHolds, PTL
===============================================================================
