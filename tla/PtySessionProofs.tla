---------------------------- MODULE PtySessionProofs ----------------------------
(***************************************************************************)
(* The safety of PtySession, proved for a write, a terminal and a run of   *)
(* any length: the child's output is shown to the last byte, and what the  *)
(* user types and the monitor's continue never mix.                        *)
(***************************************************************************)
EXTENDS PtySession, TLAPS

\* Where the reader stands in the output, and when it and the input thread run.
OutputInv ==
  /\ shown + unshown <= taken /\ taken <= printed
  /\ reader # "writing" => shown + unshown = taken
  /\ main = "spawn" => child = "none" /\ ~grandchild
  /\ main \in {"spawn", "rawmode"} => reader = "none" /\ input = "none"
  /\ reader = "ended" /\ ~broken => taken = printed /\ ~SlaveOpen
  /\ drain = "completed" => reader = "ended"
  /\ main = "ended" => reader \in {"none", "ended"}

\* The mutex of the writer is held while a write goes on.
LockInv ==
  /\ writer = "user" <=> input = "writing"
  /\ writer = "sink" <=> sink \in {"writing", "flushing"}

\* What is left of the write number `count` are its next parts, and what was
\* sent of it are those before them, at the end of what was sent.
NextOf(by, count, rest, sent) ==
  /\ \A k \in 1 .. Len(rest) :
       rest[k].by = by /\ rest[k].write = count /\ rest[k].part = rest[1].part + k - 1
  /\ \A i \in 1 .. Len(sent) : sent[i].by = by =>
       /\ sent[i].write <= count
       /\ rest # <<>> /\ sent[i].write = count =>
            rest[1].part - sent[i].part = Len(sent) + 1 - i

\* Nothing of a write is sent before the lock is taken.
Fresh(by, count, sent) ==
  \A i \in 1 .. Len(sent) : sent[i].by = by => sent[i].write < count

WritesInv ==
  /\ NextOf("user", reads, chunk, Sent) /\ NextOf("sink", resumes, command, Sent)
  /\ input \in {"locking", "writing"} <=> chunk # <<>>
  /\ sink \in {"locking", "writing"} <=> command # <<>>
  /\ input = "locking" => Fresh("user", reads, Sent)
  /\ sink = "locking" => Fresh("sink", resumes, Sent)

Input == LockInv /\ WritesInv /\ InputIsWhole

IInv == TypeOK /\ OutputInv /\ Input

-------------------------------------------------------------------------------
(* Types.                                                                  *)

\* A write of some parts is a sequence of them, numbered from one.
LEMMA WholeType ==
  ASSUME NEW by \in {"user", "sink"}, NEW write \in Nat, NEW n \in 1 .. Parts
  PROVE  /\ Whole(by, write, n) \in Seq(Part) /\ Len(Whole(by, write, n)) = n
         /\ \A k \in 1 .. n : Whole(by, write, n)[k] = [by |-> by, write |-> write, part |-> k]
<1>1. Parts \in Nat /\ n \in Nat
  BY SizesAssumption
<1> QED
  BY <1>1 DEF Whole, Part

\* The main task's steps keep the types.
LEMMA RunnerTypes ==
  ASSUME TypeOK, RunnerStep
  PROVE  TypeOK'
<1> USE SizesAssumption DEF TypeOK, mainVars, outputVars, inputVars, sinkVars
<1>1. CASE SpawnChild
  BY <1>1 DEF SpawnChild
<1>2. CASE EnterRawMode
  BY <1>2 DEF EnterRawMode
<1>3. CASE ChildWaited
  BY <1>3 DEF ChildWaited
<1>4. CASE DrainCompletes
  BY <1>4 DEF DrainCompletes, Return
<1>5. CASE DrainTimesOut
  <2>1. main' = "closing" /\ raw' \in BOOLEAN /\ drain' = "timedout"
    BY <1>5 DEF DrainTimesOut, Return
  <2> QED
    BY <1>5, <2>1 DEF DrainTimesOut
<1>6. CASE ShutDown
  BY <1>6 DEF ShutDown
<1>7. CASE DropRuntime
  BY <1>7 DEF DropRuntime
<1> QED
  BY <1>1, <1>2, <1>3, <1>4, <1>5, <1>6, <1>7 DEF RunnerStep

\* So do the reader's, which counts no byte it has not taken.
LEMMA ReaderTypes ==
  ASSUME TypeOK, OutputInv, ReaderStep
  PROVE  TypeOK'
<1> USE SizesAssumption DEF TypeOK, mainVars, outputVars, inputVars, sinkVars
<1>1. ASSUME NEW n \in 1 .. Capacity, ReadOutput(n) PROVE TypeOK'
  BY <1>1 DEF ReadOutput
<1>2. CASE ReadEnds
  BY <1>2 DEF ReadEnds
<1>3. CASE ShowOutput
  BY <1>3 DEF ShowOutput, OutputInv
<1> QED
  BY <1>1, <1>2, <1>3 DEF ReaderStep

\* So do the failures of the calls.
LEMMA FailureTypes ==
  ASSUME TypeOK, OutputInv, Failure
  PROVE  TypeOK'
<1> USE SizesAssumption DEF TypeOK, mainVars, outputVars, inputVars, sinkVars, Fault
<1>1. CASE SpawnFails
  BY <1>1 DEF SpawnFails
<1>2. CASE RawModeFails
  BY <1>2 DEF RawModeFails
<1>3. CASE WaitFails
  <2>1. main' = "closing" /\ raw' \in BOOLEAN /\ drain' = "none"
    BY <1>3 DEF WaitFails, Return
  <2>2. faults' \in Nat
    BY <1>3 DEF WaitFails
  <2> QED
    BY <1>3, <2>1, <2>2 DEF WaitFails
<1>4. CASE ReadFails
  BY <1>4 DEF ReadFails
<1>5. CASE ShowFails
  BY <1>5 DEF ShowFails, OutputInv
<1> QED
  BY <1>1, <1>2, <1>3, <1>4, <1>5 DEF Failure

\* So do the input thread's.
LEMMA InputTypes ==
  ASSUME TypeOK, WritesInv, InputStep
  PROVE  TypeOK'
<1> USE SizesAssumption DEF TypeOK, mainVars, outputVars, inputVars, sinkVars, PutPart, WriteError, Fault
<1>1. CASE LockForInput
  BY <1>1 DEF LockForInput
<1>2. CASE WriteInput
  <2>1. chunk # <<>>
    BY <1>2 DEF WriteInput, WritesInv
  <2> QED
    BY <1>2, <2>1 DEF WriteInput
<1>3. CASE WriteInputFails
  BY <1>3 DEF WriteInputFails
<1> QED
  BY <1>1, <1>2, <1>3 DEF InputStep

\* So do the resume sink's.
LEMMA SinkTypes ==
  ASSUME TypeOK, WritesInv, SinkStep
  PROVE  TypeOK'
<1> USE SizesAssumption DEF TypeOK, mainVars, outputVars, inputVars, sinkVars, PutPart, WriteError, Fault, Returned
<1>1. CASE LockForSink
  BY <1>1 DEF LockForSink
<1>2. CASE WriteCommand
  <2>1. command # <<>>
    BY <1>2 DEF WriteCommand, WritesInv
  <2> QED
    BY <1>2, <2>1 DEF WriteCommand
<1>3. CASE FlushCommand
  BY <1>3 DEF FlushCommand
<1>4. CASE ResumeFails
  BY <1>4 DEF ResumeFails
<1> QED
  BY <1>1, <1>2, <1>3, <1>4 DEF SinkStep

\* So do those of the child, the user and the monitor.
LEMMA WorldTypes == ASSUME TypeOK, World PROVE TypeOK'
<1> USE DEF TypeOK, mainVars, outputVars, inputVars, sinkVars
<1>1. ASSUME NEW n \in 1 .. Parts, ReadInput(n) PROVE TypeOK'
  BY <1>1, WholeType DEF ReadInput
<1>2. CASE InputEnds
  BY <1>2 DEF InputEnds
<1>3. CASE Resume
  BY <1>3, WholeType, SizesAssumption DEF Resume
<1>4. CASE ChildPrints
  BY <1>4 DEF ChildPrints
<1>5. CASE ChildReads
  BY <1>5 DEF ChildReads
<1>6. CASE Fork \/ ChildExits \/ GrandchildEnds
  BY <1>6 DEF Fork, ChildExits, GrandchildEnds
<1> QED
  BY <1>1, <1>2, <1>3, <1>4, <1>5, <1>6 DEF World

\* Every step keeps the types.
LEMMA StepTypes == ASSUME IInv, [Next]_vars PROVE TypeOK'
<1>1. CASE UNCHANGED vars
  BY <1>1 DEF IInv, TypeOK, vars, mainVars, outputVars, inputVars, sinkVars
<1> QED
  BY <1>1, RunnerTypes, ReaderTypes, FailureTypes, InputTypes, SinkTypes, WorldTypes DEF IInv, Input, Next

-------------------------------------------------------------------------------
(* Output.                                                                 *)

\* Every step keeps account of the output, from the child to the screen.
LEMMA OutputSteps ==
  ASSUME TypeOK, OutputInv, Next
  PROVE  OutputInv'
<1> USE SizesAssumption DEF TypeOK, OutputInv, SlaveOpen, mainVars, outputVars, inputVars, sinkVars
<1>1. CASE RunnerStep
  <2>1. CASE SpawnChild
    BY <2>1 DEF SpawnChild
  <2>2. CASE EnterRawMode
    BY <2>2 DEF EnterRawMode
  <2>3. CASE ChildWaited
    BY <2>3 DEF ChildWaited
  <2>4. CASE DrainCompletes
    BY <2>4 DEF DrainCompletes, Return
  <2>5. CASE DrainTimesOut
    BY <2>5 DEF DrainTimesOut, Return
  <2>6. CASE ShutDown
    BY <2>6 DEF ShutDown
  <2>7. CASE DropRuntime
    BY <2>7 DEF DropRuntime
  <2> QED
    BY <1>1, <2>1, <2>2, <2>3, <2>4, <2>5, <2>6, <2>7 DEF RunnerStep
<1>2. CASE ReaderStep
  <2>1. ASSUME NEW n \in 1 .. Capacity, ReadOutput(n) PROVE OutputInv'
    BY <2>1 DEF ReadOutput, Alive
  <2>2. CASE ReadEnds
    BY <2>2 DEF ReadEnds, Alive
  <2>3. CASE ShowOutput
    BY <2>3 DEF ShowOutput, Alive
  <2> QED
    BY <1>2, <2>1, <2>2, <2>3 DEF ReaderStep
<1>3. CASE InputStep \/ SinkStep
  <2>1. UNCHANGED <<mainVars, child, grandchild, outputVars>> /\ (input = "none" => input' = "none")
    BY <1>3 DEF InputStep, SinkStep, LockForInput, WriteInput, WriteInputFails, LockForSink,
                WriteCommand, FlushCommand, ResumeFails
  <2> QED
    BY <2>1
<1>4. CASE Failure
  BY <1>4 DEF Failure, SpawnFails, RawModeFails, WaitFails, ReadFails, ShowFails, Return, Alive
<1>5. CASE World
  <2>1. CASE ChildPrints
    BY <2>1 DEF ChildPrints
  <2>2. CASE Fork \/ ChildExits \/ GrandchildEnds
    BY <2>2 DEF Fork, ChildExits, GrandchildEnds
  <2>3. CASE (\E n \in 1 .. Parts : ReadInput(n)) \/ InputEnds \/ Resume \/ ChildReads
    <3>1. UNCHANGED <<mainVars, child, grandchild, outputVars>> /\ (input = "none" => input' = "none")
      BY <2>3 DEF ReadInput, InputEnds, Resume, ChildReads
    <3> QED
      BY <3>1
  <2> QED
    BY <1>5, <2>1, <2>2, <2>3 DEF World
<1> QED
  BY <1>1, <1>2, <1>3, <1>4, <1>5 DEF Next

-------------------------------------------------------------------------------
(* Input.                                                                  *)

\* What is read was sent before: it is not sent again, and not out of order.
LEMMA SentStays ==
  ASSUME TypeOK, ChildReads
  PROVE  Sent' = Sent
<1>1. /\ buffer \in Seq(Part) /\ got \in Seq(Part) /\ buffer # <<>>
      /\ got' = Append(got, Head(buffer)) /\ buffer' = Tail(buffer)
  BY DEF TypeOK, ChildReads
<1>2. Len(Sent') = Len(Sent) /\ Sent' \in Seq(Part) /\ Sent \in Seq(Part)
  BY <1>1 DEF Sent
<1>3. ASSUME NEW i \in 1 .. Len(Sent) PROVE Sent'[i] = Sent[i]
  <2>1. CASE i <= Len(got)
    BY <1>1, <2>1 DEF Sent
  <2>2. CASE i = Len(got) + 1
    BY <1>1, <2>2 DEF Sent
  <2>3. CASE i > Len(got) + 1
    BY <1>1, <1>3, <2>3 DEF Sent
  <2> QED
    BY <1>1, <2>1, <2>2, <2>3
<1> QED
  BY <1>2, <1>3

\* A part that is put comes after all that was sent.
LEMMA SentGrows ==
  ASSUME TypeOK, NEW parts \in Seq(Part), parts # <<>>, PutPart(parts), got' = got
  PROVE  /\ Len(Sent') = Len(Sent) + 1 /\ Sent'[Len(Sent) + 1] = Head(parts)
         /\ \A i \in 1 .. Len(Sent) : Sent'[i] = Sent[i]
<1>1. /\ buffer \in Seq(Part) /\ got \in Seq(Part) /\ Head(parts) \in Part
      /\ buffer' = Append(buffer, Head(parts))
  BY DEF TypeOK, PutPart
<1> QED
  BY <1>1 DEF Sent

\* What was sent is a sequence of parts.
LEMMA SentType == TypeOK => Sent \in Seq(Part) /\ Len(Sent) \in Nat
  BY DEF TypeOK, Sent

\* `next` is `sent` and one more part.
Grown(sent, next, part) ==
  /\ Len(next) = Len(sent) + 1 /\ next[Len(sent) + 1] = part
  /\ \A i \in 1 .. Len(sent) : next[i] = sent[i]

\* A part tells its writer, its write and its place.
LEMMA PartTypes == \A x \in Part : x.by \in {"user", "sink"} /\ x.write \in Nat /\ x.part \in Nat
  BY SizesAssumption DEF Part

\* The next part of a write goes out: the others are still next to it.
LEMMA OwnPart ==
  ASSUME NEW by, NEW count \in Nat, NEW rest \in Seq(Part), rest # <<>>,
         NEW sent \in Seq(Part), NEW next \in Seq(Part),
         NextOf(by, count, rest, sent), Grown(sent, next, Head(rest))
  PROVE  NextOf(by, count, Tail(rest), next)
<1> DEFINE tail == Tail(rest)
<1>1. /\ tail \in Seq(Part) /\ Len(tail) = Len(rest) - 1
      /\ \A k \in 1 .. Len(tail) : tail[k] = rest[k + 1]
  OBVIOUS
<1>2. Head(rest) = rest[1] /\ Len(rest) \in Nat /\ Len(rest) >= 1 /\ Len(sent) \in Nat
  OBVIOUS
<1> HIDE DEF tail
<1>3. rest[1].by = by /\ rest[1].write = count /\ rest[1].part \in Nat
  <2>1. rest[1] \in Part
    BY <1>2
  <2> QED
    BY <1>2, <2>1, PartTypes DEF NextOf
<1>4. \A i \in 1 .. Len(sent) : sent[i].part \in Nat /\ sent[i].write \in Nat
  BY PartTypes
<1>5. tail # <<>> => tail[1].part = rest[1].part + 1
  BY <1>1, <1>2, <1>3 DEF NextOf
<1>6. ASSUME NEW k \in 1 .. Len(tail)
      PROVE  tail[k].by = by /\ tail[k].write = count /\ tail[k].part = tail[1].part + k - 1
  <2>1. /\ rest[k + 1].by = by /\ rest[k + 1].write = count
        /\ rest[k + 1].part = rest[1].part + k
    <3>1. k + 1 \in 1 .. Len(rest) /\ (k + 1) - 1 = k
      BY <1>1, <1>2
    <3> QED
      BY <1>3, <3>1 DEF NextOf
  <2>2. tail # <<>> /\ tail[k] = rest[k + 1]
    BY <1>1
  <2> QED
    BY <1>3, <1>5, <2>1, <2>2
<1>7. ASSUME NEW i \in 1 .. Len(next), next[i].by = by
      PROVE  /\ next[i].write <= count
             /\ tail # <<>> /\ next[i].write = count =>
                  tail[1].part - next[i].part = Len(next) + 1 - i
  <2>1. CASE i = Len(sent) + 1
    BY <1>2, <1>3, <1>5, <2>1 DEF Grown
  <2>2. CASE i \in 1 .. Len(sent)
    <3>1. next[i] = sent[i] /\ Len(next) = Len(sent) + 1
      BY <2>2 DEF Grown
    <3>2. /\ sent[i].write <= count
          /\ sent[i].write = count => rest[1].part - sent[i].part = Len(sent) + 1 - i
      BY <1>7, <2>2, <3>1 DEF NextOf
    <3>3. tail # <<>> /\ sent[i].write = count =>
            tail[1].part - sent[i].part = Len(sent) + 2 - i
      <4> SUFFICES ASSUME tail # <<>>, sent[i].write = count
                   PROVE  tail[1].part - sent[i].part = Len(sent) + 2 - i
        OBVIOUS
      <4>1. tail[1].part = rest[1].part + 1
        BY <1>5
      <4>2. rest[1].part - sent[i].part = Len(sent) + 1 - i
        BY <3>2
      <4>3. sent[i].part \in Nat /\ rest[1].part \in Nat /\ i \in Nat /\ Len(sent) \in Nat
        BY <1>2, <1>3, <1>4, <2>2
      <4> QED
        BY <4>1, <4>2, <4>3, SMTT(30)
    <3> QED
      BY <1>2, <2>2, <3>1, <3>2, <3>3
  <2> QED
    BY <1>2, <2>1, <2>2 DEF Grown
<1> QED
  BY <1>6, <1>7 DEF NextOf, tail

\* The other's part goes out: nothing of this write was sent, or nothing is left.
LEMMA OtherPart ==
  ASSUME NEW by, NEW count \in Nat, NEW rest \in Seq(Part), NEW part \in Part, part.by # by,
         NEW sent \in Seq(Part), NEW next \in Seq(Part),
         NextOf(by, count, rest, sent), Grown(sent, next, part),
         rest = <<>> \/ Fresh(by, count, sent)
  PROVE  /\ NextOf(by, count, rest, next)
         /\ Fresh(by, count, sent) => Fresh(by, count, next)
<1>1. \A i \in 1 .. Len(next) : next[i].by = by => i \in 1 .. Len(sent) /\ next[i] = sent[i]
  BY DEF Grown
<1>2. \A i \in 1 .. Len(sent) : sent[i].write \in Nat
  BY PartTypes
<1>3. NextOf(by, count, rest, next)
  BY <1>1, <1>2 DEF NextOf, Fresh
<1>4. Fresh(by, count, sent) => Fresh(by, count, next)
  BY <1>1 DEF Fresh
<1> QED
  BY <1>3, <1>4

\* A write that begins is told from all that was sent.
LEMMA NewWrite ==
  ASSUME NEW by \in {"user", "sink"}, NEW count \in Nat, NEW sent \in Seq(Part),
         NextOf(by, count, <<>>, sent), NEW n \in 1 .. Parts
  PROVE  /\ NextOf(by, count + 1, Whole(by, count + 1, n), sent)
         /\ Fresh(by, count + 1, sent) /\ Whole(by, count + 1, n) # <<>>
<1>1. \A i \in 1 .. Len(sent) : sent[i].write \in Nat
  BY PartTypes
<1>2. Fresh(by, count + 1, sent)
  BY <1>1 DEF NextOf, Fresh
<1>3. count + 1 \in Nat /\ n \in Nat
  BY SizesAssumption
<1> DEFINE whole == Whole(by, count + 1, n)
<1>4. /\ Len(whole) = n /\ whole # <<>>
      /\ \A k \in 1 .. n : whole[k] = [by |-> by, write |-> count + 1, part |-> k]
  BY <1>3, WholeType
<1> HIDE DEF whole
<1>5. \A k \in 1 .. Len(whole) :
        whole[k].by = by /\ whole[k].write = count + 1 /\ whole[k].part = whole[1].part + k - 1
  BY <1>3, <1>4
<1>6. NextOf(by, count + 1, whole, sent)
  BY <1>1, <1>2, <1>5 DEF NextOf, Fresh
<1> QED
  BY <1>2, <1>4, <1>6 DEF whole

\* What is given up is not sent.
LEMMA GivenUp ==
  ASSUME NEW by, NEW count, NEW rest, NEW sent, NextOf(by, count, rest, sent)
  PROVE  NextOf(by, count, <<>>, sent)
  BY DEF NextOf

\* What InputIsWhole says of what was sent.
WholeIn(sent) ==
  \A i, j \in 1 .. Len(sent) : i < j =>
    /\ sent[i].by = sent[j].by =>
         \/ sent[i].write < sent[j].write
         \/ /\ sent[i].write = sent[j].write
            /\ sent[j].part - sent[i].part = j - i

\* No write is cut by another exactly when that is so of what was sent.
LEMMA WholeInSent == /\ InputIsWhole <=> WholeIn(Sent)
                     /\ InputIsWhole' <=> WholeIn(Sent')
  BY DEF InputIsWhole, WholeIn

\* The next part of a write is in its place.
LEMMA PartInPlace ==
  ASSUME NEW by, NEW count \in Nat, NEW rest \in Seq(Part), rest # <<>>,
         NEW sent \in Seq(Part), NEW next \in Seq(Part),
         NextOf(by, count, rest, sent), Grown(sent, next, Head(rest)), WholeIn(sent)
  PROVE  WholeIn(next)
<1>1. /\ Head(rest) = rest[1] /\ rest[1] \in Part /\ Len(sent) \in Nat
      /\ rest[1].by = by /\ rest[1].write = count
  <2>1. Len(rest) >= 1 /\ Len(rest) \in Nat
    OBVIOUS
  <2> QED
    BY <2>1 DEF NextOf
<1>2. \A i \in 1 .. Len(sent) : sent[i] \in Part
  OBVIOUS
<1> SUFFICES ASSUME NEW i \in 1 .. Len(next), NEW j \in 1 .. Len(next), i < j,
                    next[i].by = next[j].by
             PROVE  \/ next[i].write < next[j].write
                    \/ /\ next[i].write = next[j].write
                       /\ next[j].part - next[i].part = j - i
  BY DEF WholeIn
<1>3. CASE j \in 1 .. Len(sent)
  <2>1. i \in 1 .. Len(sent) /\ next[i] = sent[i] /\ next[j] = sent[j]
    BY <1>1, <1>3 DEF Grown
  <2> QED
    BY <1>3, <2>1 DEF WholeIn
<1>4. CASE j = Len(sent) + 1
  <2>1. i \in 1 .. Len(sent) /\ next[i] = sent[i] /\ next[j] = rest[1]
    BY <1>1, <1>4 DEF Grown
  <2>2. /\ sent[i].write <= count
        /\ sent[i].write = count => rest[1].part - sent[i].part = Len(sent) + 1 - i
    BY <1>1, <2>1 DEF NextOf
  <2>3. sent[i].write \in Nat
    BY <1>2, <2>1, PartTypes
  <2> QED
    BY <1>1, <1>4, <2>1, <2>2, <2>3
<1> QED
  BY <1>1, <1>3, <1>4 DEF Grown

\* Steps that neither send nor begin or give up a write.
LEMMA InputIdle ==
  ASSUME Input, UNCHANGED <<writer, Sent, input, chunk, reads, sink, command, resumes>>
  PROVE  Input'
  BY DEF Input, LockInv, WritesInv, NextOf, Fresh, InputIsWhole

\* The input thread writes only with the lock, and its parts one after another.
LEMMA InputSteps ==
  ASSUME TypeOK, TypeOK', Input, InputStep
  PROVE  Input'
<1> USE DEF sinkVars
<1>1. CASE LockForInput
  <2>1. Sent' = Sent
    BY <1>1 DEF LockForInput, Sent
  <2> QED
    BY <1>1, <2>1 DEF LockForInput, Input, LockInv, WritesInv, NextOf, Fresh, InputIsWhole
<1>2. CASE WriteInput
  <2>1. /\ PutPart(chunk) /\ got' = got /\ chunk' = Tail(chunk) /\ input = "writing"
        /\ UNCHANGED <<reads, sink, command, resumes>>
        /\ IF chunk' = <<>> THEN input' = "reading" /\ writer' = "none" ELSE UNCHANGED <<input, writer>>
    BY <1>2 DEF WriteInput
  <2>2. chunk \in Seq(Part) /\ chunk # <<>> /\ command \in Seq(Part)
    BY <2>1 DEF TypeOK, Input, WritesInv
  <2>3. Grown(Sent, Sent', Head(chunk))
    BY <2>1, <2>2, SentGrows DEF Grown
  <2>4. Sent \in Seq(Part) /\ Sent' \in Seq(Part) /\ reads \in Nat /\ resumes \in Nat
    BY SentType DEF TypeOK, Sent
  <2>5. Head(chunk) \in Part /\ Head(chunk).by = "user"
    <3>1. Head(chunk) = chunk[1] /\ Len(chunk) \in Nat /\ Len(chunk) >= 1 /\ chunk[1] \in Part
      BY <2>2
    <3> QED
      BY <3>1 DEF Input, WritesInv, NextOf
  <2>6. NextOf("user", reads, chunk', Sent')
    BY <2>1, <2>2, <2>3, <2>4, OwnPart DEF Input, WritesInv
  <2>7. command = <<>> \/ (sink = "locking" /\ Fresh("sink", resumes, Sent))
    BY <2>1 DEF Input, LockInv, WritesInv
  <2>8. /\ NextOf("sink", resumes, command, Sent')
        /\ sink = "locking" => Fresh("sink", resumes, Sent')
    BY <2>2, <2>3, <2>4, <2>5, <2>7, OtherPart DEF Input, WritesInv
  <2>9. InputIsWhole'
    BY <2>2, <2>3, <2>4, PartInPlace, WholeInSent DEF Input, WritesInv
  <2> QED
    BY <2>1, <2>2, <2>6, <2>8, <2>9 DEF Input, LockInv, WritesInv
<1>3. CASE WriteInputFails
  <2>1. Sent' = Sent
    BY <1>3 DEF WriteInputFails, Sent
  <2> QED
    BY <1>3, <2>1 DEF WriteInputFails, Input, LockInv, WritesInv, NextOf, Fresh, InputIsWhole
<1> QED
  BY <1>1, <1>2, <1>3 DEF InputStep

\* So does the sink.
LEMMA SinkSteps ==
  ASSUME TypeOK, TypeOK', Input, SinkStep
  PROVE  Input'
<1> USE DEF inputVars
<1>1. CASE LockForSink
  <2>1. Sent' = Sent
    BY <1>1 DEF LockForSink, Sent
  <2> QED
    BY <1>1, <2>1 DEF LockForSink, Input, LockInv, WritesInv, NextOf, Fresh, InputIsWhole
<1>2. CASE WriteCommand
  <2>1. /\ PutPart(command) /\ got' = got /\ command' = Tail(command) /\ sink = "writing"
        /\ UNCHANGED <<writer, resumes, input, chunk, reads>>
        /\ sink' = IF command' = <<>> THEN "flushing" ELSE "writing"
    BY <1>2 DEF WriteCommand
  <2>2. command \in Seq(Part) /\ command # <<>> /\ chunk \in Seq(Part)
    BY <2>1 DEF TypeOK, Input, WritesInv
  <2>3. Grown(Sent, Sent', Head(command))
    BY <2>1, <2>2, SentGrows DEF Grown
  <2>4. Sent \in Seq(Part) /\ Sent' \in Seq(Part) /\ reads \in Nat /\ resumes \in Nat
    BY SentType DEF TypeOK, Sent
  <2>5. Head(command) \in Part /\ Head(command).by = "sink"
    <3>1. /\ Head(command) = command[1] /\ Len(command) \in Nat /\ Len(command) >= 1
          /\ command[1] \in Part
      BY <2>2
    <3> QED
      BY <3>1 DEF Input, WritesInv, NextOf
  <2>6. NextOf("sink", resumes, command', Sent')
    BY <2>1, <2>2, <2>3, <2>4, OwnPart DEF Input, WritesInv
  <2>7. chunk = <<>> \/ (input = "locking" /\ Fresh("user", reads, Sent))
    BY <2>1 DEF Input, LockInv, WritesInv
  <2>8. /\ NextOf("user", reads, chunk, Sent')
        /\ input = "locking" => Fresh("user", reads, Sent')
    BY <2>2, <2>3, <2>4, <2>5, <2>7, OtherPart DEF Input, WritesInv
  <2>9. InputIsWhole'
    BY <2>2, <2>3, <2>4, PartInPlace, WholeInSent DEF Input, WritesInv
  <2> QED
    BY <2>1, <2>2, <2>6, <2>8, <2>9 DEF Input, LockInv, WritesInv
<1>3. CASE FlushCommand \/ ResumeFails
  <2>1. Sent' = Sent
    BY <1>3 DEF FlushCommand, ResumeFails, Sent
  <2> QED
    BY <1>3, <2>1 DEF FlushCommand, ResumeFails, Returned, Input, LockInv, WritesInv, NextOf, Fresh,
                      InputIsWhole
<1> QED
  BY <1>1, <1>2, <1>3 DEF SinkStep

\* The runner and the reader touch neither the lock nor the writes.
LEMMA OtherSteps ==
  ASSUME TypeOK, OutputInv, Input, RunnerStep \/ ReaderStep \/ Failure
  PROVE  Input'
<1> USE DEF mainVars, outputVars, inputVars, sinkVars
<1>1. CASE (RunnerStep /\ ~EnterRawMode) \/ ReaderStep \/ Failure
  <2>1. UNCHANGED <<writer, buffer, got, input, chunk, reads, sink, command, resumes>>
    BY <1>1 DEF RunnerStep, SpawnChild, ChildWaited, DrainCompletes, DrainTimesOut, ShutDown,
                DropRuntime, ReaderStep, ReadOutput, ReadEnds, ShowOutput, Failure, SpawnFails,
                RawModeFails, WaitFails, ReadFails, ShowFails
  <2> QED
    BY <2>1, InputIdle DEF Sent
<1>2. CASE EnterRawMode
  <2>1. Sent' = Sent
    BY <1>2 DEF EnterRawMode, Sent
  <2>2. input = "none"
    BY <1>2 DEF EnterRawMode, OutputInv
  <2> QED
    BY <1>2, <2>1, <2>2 DEF EnterRawMode, Input, LockInv, WritesInv, NextOf, Fresh, InputIsWhole
<1> QED
  BY <1>1, <1>2

\* What the user types and the monitor sends begins a write of its own.
LEMMA WorldInput ==
  ASSUME TypeOK, Input, World
  PROVE  Input'
<1> USE DEF mainVars, outputVars, inputVars, sinkVars
<1>1. ASSUME NEW n \in 1 .. Parts, ReadInput(n) PROVE Input'
  <2>1. /\ Sent' = Sent /\ input = "reading" /\ input' = "locking"
        /\ reads' = reads + 1 /\ chunk' = Whole("user", reads + 1, n)
        /\ UNCHANGED <<writer, sink, command, resumes>>
    BY <1>1 DEF ReadInput, Sent
  <2>2. chunk = <<>> /\ Sent \in Seq(Part) /\ reads \in Nat
    BY <2>1, SentType DEF Input, WritesInv, TypeOK
  <2>3. NextOf("user", reads', chunk', Sent) /\ Fresh("user", reads', Sent) /\ chunk' # <<>>
    BY <2>1, <2>2, NewWrite DEF Input, WritesInv
  <2>4. WritesInv'
    BY <2>1, <2>3 DEF Input, WritesInv
  <2> QED
    BY <2>1, <2>4 DEF Input, LockInv, InputIsWhole
<1>2. CASE Resume
  <2>1. /\ Sent' = Sent /\ sink = "idle" /\ sink' = "locking"
        /\ resumes' = resumes + 1 /\ command' = Whole("sink", resumes + 1, Parts)
        /\ UNCHANGED <<writer, input, chunk, reads>>
    BY <1>2 DEF Resume, Sent
  <2>2. command = <<>> /\ Sent \in Seq(Part) /\ resumes \in Nat /\ Parts \in 1 .. Parts
    BY <2>1, SentType, SizesAssumption DEF Input, WritesInv, TypeOK
  <2>3. NextOf("sink", resumes', command', Sent) /\ Fresh("sink", resumes', Sent) /\ command' # <<>>
    BY <2>1, <2>2, NewWrite DEF Input, WritesInv
  <2>4. WritesInv'
    BY <2>1, <2>3 DEF Input, WritesInv
  <2> QED
    BY <2>1, <2>4 DEF Input, LockInv, InputIsWhole
<1>3. CASE InputEnds
  <2>1. Sent' = Sent
    BY <1>3 DEF InputEnds, Sent
  <2> QED
    BY <1>3, <2>1 DEF InputEnds, Input, LockInv, WritesInv, InputIsWhole
<1>4. CASE ChildReads
  <2>1. Sent' = Sent
    BY <1>4, SentStays
  <2> QED
    BY <1>4, <2>1, InputIdle DEF ChildReads
<1>5. CASE ChildPrints \/ Fork \/ ChildExits \/ GrandchildEnds
  <2>1. UNCHANGED <<writer, buffer, got, input, chunk, reads, sink, command, resumes>>
    BY <1>5 DEF ChildPrints, Fork, ChildExits, GrandchildEnds
  <2> QED
    BY <2>1, InputIdle DEF Sent
<1> QED
  BY <1>1, <1>2, <1>3, <1>4, <1>5 DEF World

-------------------------------------------------------------------------------
(* The invariant, and what follows from it.                                *)

\* It holds before anything was spawned or written.
LEMMA InitInvariant == Init => IInv
<1> SUFFICES ASSUME Init PROVE IInv
  OBVIOUS
<1>1. TypeOK
  <2>1. raw \in BOOLEAN /\ grandchild \in BOOLEAN /\ broken \in BOOLEAN
    BY DEF Init
  <2> QED
    BY <2>1 DEF Init, TypeOK
<1>2. OutputInv
  BY DEF Init, OutputInv
<1>3. Sent = <<>> /\ Len(Sent) = 0
  BY DEF Init, Sent
<1>4. Input
  BY <1>3 DEF Init, Input, LockInv, WritesInv, NextOf, InputIsWhole
<1> QED
  BY <1>1, <1>2, <1>4 DEF IInv

\* Every step keeps it.
LEMMA StepInvariant == IInv /\ [Next]_vars => IInv'
<1> SUFFICES ASSUME IInv, [Next]_vars PROVE IInv'
  OBVIOUS
<1>1. TypeOK'
  BY StepTypes
<1>2. CASE Next
  <2>1. OutputInv'
    BY <1>2, OutputSteps DEF IInv
  <2>2. Input'
    BY <1>1, <1>2, InputSteps, SinkSteps, OtherSteps, WorldInput DEF IInv, Next
  <2> QED
    BY <1>1, <2>1, <2>2 DEF IInv
<1>3. CASE UNCHANGED vars
  <2>1. OutputInv'
    BY <1>3 DEF IInv, OutputInv, SlaveOpen, vars, mainVars, outputVars, inputVars
  <2>2. Input'
    BY <1>3, InputIdle DEF IInv, vars, inputVars, sinkVars, Sent
  <2> QED
    BY <1>1, <2>1, <2>2 DEF IInv
<1> QED
  BY <1>2, <1>3

\* The inductive invariant holds in every reachable state.
THEOREM InvariantHolds == Spec => []IInv
  BY InitInvariant, StepInvariant, PTL DEF Spec

\* The threads and the runner stay in the states the code knows.
THEOREM TypeCorrect == Spec => []TypeOK
<1>1. IInv => TypeOK
  BY DEF IInv
<1> QED
  BY <1>1, InvariantHolds, PTL

\* Input and continue do not mix: what one read of the user's input returned and
\* what one resume() writes reach the child in one piece, since both hold the
\* mutex of the writer for the whole write.
THEOREM InputNeverMixes == Spec => []InputIsWhole
<1>1. IInv => InputIsWhole
  BY DEF IInv, Input
<1> QED
  BY <1>1, InvariantHolds, PTL

\* All of the child's output was shown, or tried to be, when the drain is
\* complete and when the process ends, unless no reader was started or a read
\* failed.
THEOREM NoOutputIsLost == Spec => []OutputIsShown
<1>1. IInv => OutputIsShown
  BY DEF IInv, OutputInv, OutputIsShown
<1> QED
  BY <1>1, InvariantHolds, PTL

===============================================================================
