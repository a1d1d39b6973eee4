------------------------------ MODULE InputsProofs ------------------------------
(***************************************************************************)
(* What a viewer shows, what a Codex record means, which reset a Claude    *)
(* message names and what a command line says, proved for streams and      *)
(* command lines of any length, a terminal that fails at any call,         *)
(* calendars of any size and clocks that are changed at any time.          *)
(***************************************************************************)
EXTENDS Inputs, FiniteSetTheorems, SequenceTheorems, WellFoundedInduction, TLAPS

-------------------------------------------------------------------------------
(* Numbers.                                                                *)

\* A set of naturals that has 0 and the successor of each has them all.
LEMMA NaturalsClosed ==
  ASSUME NEW S \in SUBSET Nat, 0 \in S, \A k \in S : k + 1 \in S
  PROVE  S = Nat
<1> SUFFICES ASSUME Nat \ S # {} PROVE FALSE
  OBVIOUS
<1>1. \E least \in Nat \ S : \A other \in Nat \ S : ~(<<other, least>> \in OpToRel(<, Nat))
  BY NatLessThanWellFounded, WFMin
<1>2. PICK least \in Nat \ S : \A other \in Nat \ S : ~(<<other, least>> \in OpToRel(<, Nat))
  BY <1>1
<1>3. least - 1 \in Nat /\ least = (least - 1) + 1 /\ least - 1 < least
  OBVIOUS
<1>4. <<least - 1, least>> \in {pair \in Nat \X Nat : pair[1] < pair[2]}
  BY <1>3
<1>5. least - 1 \notin Nat \ S
  BY <1>2, <1>4 DEF OpToRel
<1> QED
  BY <1>3, <1>5

\* A set of numbers up to n has a greatest.
LEMMA MaxType ==
  ASSUME NEW n \in Nat, NEW s \in SUBSET (1 .. n), s # {}
  PROVE  Max(s) \in s /\ \A other \in s : other <= Max(s)
<1> DEFINE Bounded(k) == \A t \in SUBSET (1 .. k) : t # {} => \E last \in t : \A other \in t : last >= other
           S == {k \in Nat : Bounded(k)}
<1>1. Bounded(0)
  BY 1 .. 0 = {}
<1>2. ASSUME NEW k \in Nat, Bounded(k) PROVE Bounded(k + 1)
  <2> SUFFICES ASSUME NEW t \in SUBSET (1 .. k + 1), t # {}
               PROVE  \E last \in t : \A other \in t : last >= other
    OBVIOUS
  <2>1. CASE k + 1 \in t
    BY <2>1
  <2>2. CASE k + 1 \notin t
    <3>1. t \in SUBSET (1 .. k)
      BY <2>2
    <3> QED
      BY <1>2, <3>1
  <2> QED
    BY <2>1, <2>2
<1>3. S = Nat
  <2>1. S \in SUBSET Nat /\ 0 \in S
    BY <1>1
  <2>2. \A k \in S : k + 1 \in S
    BY <1>2
  <2> HIDE DEF S
  <2> QED
    BY <2>1, <2>2, NaturalsClosed
<1>4. Bounded(n)
  BY <1>3
<1>5. \E last \in s : \A other \in s : last >= other
  BY <1>4
<1>6. Max(s) \in s /\ \A other \in s : Max(s) >= other
  BY <1>5 DEF Max
<1> QED
  BY <1>6

-------------------------------------------------------------------------------
(* The rendering of one message more.                                      *)

\* The function by which the fold of Render is defined.
IsFold(f, k, base, messages, fault) ==
  f = [s \in SUBSET (1 .. k) |->
         IF s = {} THEN base ELSE Show(f[s \ {Max(s)}], messages[Max(s)], fault)]

\* It exists for one message more.
LEMMA FoldGrows ==
  ASSUME NEW k \in Nat, NEW base, NEW messages, NEW fault, NEW f,
         IsFold(f, k, base, messages, fault)
  PROVE  \E g : IsFold(g, k + 1, base, messages, fault)
<1> DEFINE g == [s \in SUBSET (1 .. k + 1) |->
                   IF k + 1 \in s THEN Show(f[s \ {k + 1}], messages[k + 1], fault) ELSE f[s]]
           Grown(s) == IF s = {} THEN base ELSE Show(g[s \ {Max(s)}], messages[Max(s)], fault)
<1>1. k + 1 \in Nat /\ k + 1 \notin 1 .. k /\ 1 .. k + 1 = (1 .. k) \cup {k + 1}
  OBVIOUS
<1>2. ASSUME NEW s \in SUBSET (1 .. k)
      PROVE  /\ g[s] = f[s]
             /\ f[s] = IF s = {} THEN base ELSE Show(f[s \ {Max(s)}], messages[Max(s)], fault)
  <2>1. s \in SUBSET (1 .. k + 1) /\ k + 1 \notin s
    BY <1>1, <1>2
  <2> QED
    BY <2>1 DEF IsFold
<1>3. ASSUME NEW s \in SUBSET (1 .. k + 1) PROVE g[s] = Grown(s)
  <2>1. CASE k + 1 \in s
    <3>1. Max(s) \in 1 .. k + 1 /\ k + 1 <= Max(s)
      BY <1>1, <1>3, <2>1, MaxType
    <3>2. Max(s) = k + 1
      BY <3>1
    <3>3. s \ {k + 1} \in SUBSET (1 .. k) /\ s # {}
      BY <1>1, <1>3, <2>1
    <3>4. g[s] = Show(f[s \ {k + 1}], messages[k + 1], fault)
      BY <1>3, <2>1
    <3>5. g[s \ {k + 1}] = f[s \ {k + 1}]
      BY <1>2, <3>3
    <3> HIDE DEF g
    <3> QED
      BY <3>2, <3>3, <3>4, <3>5
  <2>2. CASE k + 1 \notin s
    <3>1. s \in SUBSET (1 .. k)
      BY <1>1, <1>3, <2>2
    <3>2. s # {} => Max(s) \in s
      BY <3>1, MaxType
    <3>3. s \ {Max(s)} \in SUBSET (1 .. k)
      BY <3>1
    <3>4. g[s \ {Max(s)}] = f[s \ {Max(s)}]
      BY <1>2, <3>3
    <3> HIDE DEF g
    <3> QED
      BY <1>2, <3>1, <3>4
  <2> QED
    BY <2>1, <2>2
<1>4. IsFold(g, k + 1, base, messages, fault)
  BY <1>3 DEF IsFold
<1> HIDE DEF g
<1> QED
  BY <1>4

\* It exists for any number of messages.
LEMMA FoldExists ==
  ASSUME NEW n \in Nat, NEW base, NEW messages, NEW fault
  PROVE  \E f : IsFold(f, n, base, messages, fault)
<1> DEFINE S == {k \in Nat : \E f : IsFold(f, k, base, messages, fault)}
<1>1. 0 \in S
  <2> DEFINE f == [s \in SUBSET (1 .. 0) |-> base]
  <2>1. \A s \in SUBSET (1 .. 0) : s = {}
    OBVIOUS
  <2>2. IsFold(f, 0, base, messages, fault)
    BY <2>1 DEF IsFold
  <2> HIDE DEF f
  <2> QED
    BY <2>2
<1>2. ASSUME NEW k \in S PROVE k + 1 \in S
  <2>1. k \in Nat /\ \E f : IsFold(f, k, base, messages, fault)
    BY <1>2
  <2>2. \E f : IsFold(f, k + 1, base, messages, fault)
    BY <2>1, FoldGrows
  <2> QED
    BY <2>1, <2>2
<1>3. S \in SUBSET Nat
  OBVIOUS
<1>4. S = Nat
  <2> HIDE DEF S
  <2> QED
    BY <1>1, <1>2, <1>3, NaturalsClosed
<1> QED
  BY <1>4

\* What is on the terminal before the first message.
First(interactive, fault) == Draw(Rendering("none", interactive), fault)

\* Render shows the messages one after the other.
LEMMA RenderSteps ==
  ASSUME NEW interactive, NEW fault, NEW M, NEW messages \in Seq(M), NEW n \in Nat, n = Len(messages)
  PROVE  \E r : /\ r[0] = First(interactive, fault)
                /\ r[n] = Render("none", interactive, messages, fault)
                /\ \A k \in 0 .. n - 1 : r[k + 1] = Show(r[k], messages[k + 1], fault)
<1> DEFINE base == First(interactive, fault)
           fold == CHOOSE f : IsFold(f, n, base, messages, fault)
           r == [k \in 0 .. n |-> fold[1 .. k]]
<1>1. DOMAIN messages = 1 .. n
  OBVIOUS
<1>2. IsFold(fold, n, base, messages, fault)
  BY FoldExists
<1>3. Render("none", interactive, messages, fault) = fold[1 .. n]
  BY <1>1 DEF Render, FoldLeft, MapThenFoldSet, IsFold, First
<1> HIDE DEF fold, base
<1>4. r[0] = base
  <2>1. 1 .. 0 = {} /\ {} \in SUBSET (1 .. n) /\ 0 \in 0 .. n
    OBVIOUS
  <2> QED
    BY <1>2, <2>1 DEF IsFold
<1>5. ASSUME NEW k \in 0 .. n - 1 PROVE r[k + 1] = Show(r[k], messages[k + 1], fault)
  <2>1. k \in Nat /\ k + 1 \in Nat /\ k + 1 \in 1 .. n /\ k \in 0 .. n /\ k + 1 \in 0 .. n
    BY <1>5
  <2>2. 1 .. k + 1 \in SUBSET (1 .. n) /\ 1 .. k + 1 \in SUBSET (1 .. k + 1) /\ k + 1 \in 1 .. k + 1
    BY <2>1
  <2>3. Max(1 .. k + 1) = k + 1
    <3>1. Max(1 .. k + 1) \in 1 .. k + 1 /\ k + 1 <= Max(1 .. k + 1)
      BY <2>1, <2>2, MaxType
    <3> QED
      BY <2>1, <3>1
  <2>4. (1 .. k + 1) \ {k + 1} = 1 .. k
    BY <2>1
  <2>5. fold[1 .. k + 1] = Show(fold[1 .. k], messages[k + 1], fault)
    <3>1. \A s \in SUBSET (1 .. n) :
            fold[s] = IF s = {} THEN base ELSE Show(fold[s \ {Max(s)}], messages[Max(s)], fault)
      BY <1>2 DEF IsFold
    <3> DEFINE s == 1 .. k + 1
    <3>2. s \in SUBSET (1 .. n) /\ s # {} /\ Max(s) = k + 1 /\ s \ {k + 1} = 1 .. k
      BY <2>2, <2>3, <2>4
    <3> HIDE DEF s
    <3>3. fold[s] = Show(fold[1 .. k], messages[k + 1], fault)
      BY <3>1, <3>2
    <3> QED
      BY <3>3 DEF s
  <2> QED
    BY <2>1, <2>5
<1>6. r[n] = Render("none", interactive, messages, fault)
  BY <1>3
<1> HIDE DEF r
<1> QED
  BY <1>4, <1>5, <1>6 DEF base

\* Nothing read yet: only the footer.
LEMMA RenderEmpty ==
  ASSUME NEW interactive, NEW fault
  PROVE  Render("none", interactive, <<>>, fault) = First(interactive, fault)
<1> DEFINE none == <<>>
           n == 0
<1>1. none \in Seq({}) /\ n = Len(none) /\ n \in Nat /\ n = 0
  OBVIOUS
<1> HIDE DEF none, n
<1>2. PICK r : /\ r[0] = First(interactive, fault)
               /\ r[n] = Render("none", interactive, none, fault)
               /\ \A k \in 0 .. n - 1 : r[k + 1] = Show(r[k], none[k + 1], fault)
  BY <1>1, RenderSteps
<1> QED
  BY <1>1, <1>2 DEF none

\* One message more is shown on top of the others.
LEMMA RenderGrows ==
  ASSUME NEW interactive, NEW fault, NEW M, NEW messages \in Seq(M), NEW m \in M
  PROVE  Render("none", interactive, Append(messages, m), fault)
           = Show(Render("none", interactive, messages, fault), m, fault)
<1> DEFINE n == Len(messages)
           more == Append(messages, m)
<1>1. /\ n \in Nat /\ n + 1 \in Nat
      /\ more \in Seq(M) /\ Len(more) = n + 1 /\ more[n + 1] = m
      /\ \A k \in 1 .. n : more[k] = messages[k]
  BY LenProperties, AppendProperties
<1> HIDE DEF n, more
<1>2. n = Len(messages)
  BY DEF n
<1>3. PICK r : /\ r[0] = First(interactive, fault)
               /\ r[n] = Render("none", interactive, messages, fault)
               /\ \A k \in 0 .. n - 1 : r[k + 1] = Show(r[k], messages[k + 1], fault)
  BY <1>1, <1>2, RenderSteps
<1>4. PICK q : /\ q[0] = First(interactive, fault)
               /\ q[n + 1] = Render("none", interactive, more, fault)
               /\ \A k \in 0 .. (n + 1) - 1 : q[k + 1] = Show(q[k], more[k + 1], fault)
  BY <1>1, RenderSteps
<1> DEFINE S == {k \in Nat : k <= n => q[k] = r[k]}
<1>5. S = Nat
  <2>1. S \in SUBSET Nat /\ 0 \in S
    BY <1>3, <1>4
  <2>2. ASSUME NEW k \in S PROVE k + 1 \in S
    <3>1. k \in Nat /\ k + 1 \in Nat /\ (k <= n => q[k] = r[k])
      BY <2>2
    <3>2. SUFFICES ASSUME k + 1 <= n PROVE q[k + 1] = r[k + 1]
      BY <3>1
    <3>3. k <= n /\ k + 1 \in 1 .. n /\ k \in 0 .. n - 1 /\ k \in 0 .. (n + 1) - 1
      BY <1>1, <3>1, <3>2
    <3> QED
      BY <1>1, <1>3, <1>4, <3>1, <3>3
  <2> HIDE DEF S
  <2> QED
    BY <2>1, <2>2, NaturalsClosed
<1>6. q[n] = r[n] /\ n \in 0 .. (n + 1) - 1
  BY <1>1, <1>5
<1>7. q[n + 1] = Show(q[n], more[n + 1], fault)
  BY <1>4, <1>6
<1> QED
  BY <1>1, <1>3, <1>4, <1>6, <1>7 DEF more

-------------------------------------------------------------------------------
(* What is shown.                                                          *)

Statuses == {"none", "limited", "resuming", NoStatus}

Message == [frame : BOOLEAN, line : Nat, status : Statuses]

Renderings ==
  [status : Statuses, interactive : BOOLEAN, footer : Statuses, shown : Seq(Nat),
   calls : Nat, over : BOOLEAN]

\* While the viewer goes on it has shown these lines, remembers this status and
\* has it in the footer.
IsShown(r, lines, status) ==
  ~r.over => /\ r.shown = [n \in 1 .. lines |-> n]
             /\ r.status = status
             /\ r.interactive => r.footer = status

\* The last status that could be decoded.
Frames(messages) ==
  {k \in 1 .. Len(messages) : messages[k].frame /\ messages[k].status # NoStatus}
LastStatus(messages) ==
  IF Frames(messages) = {} THEN "none" ELSE messages[Max(Frames(messages))].status

\* A control sequence changes the footer or gives up on it.
LEMMA ControlShows ==
  ASSUME NEW r \in Renderings, NEW footer \in Statuses, NEW fault \in [at : Nat, pipe : BOOLEAN]
  PROVE  /\ Control(r, footer, fault) \in Renderings
         /\ Control(r, footer, fault).shown = r.shown
         /\ Control(r, footer, fault).status = r.status
         /\ r.over => Control(r, footer, fault).over
         /\ ~Control(r, footer, fault).over /\ Control(r, footer, fault).interactive =>
              Control(r, footer, fault).footer = footer
<1>0. r.calls + 1 \in Nat
  BY DEF Renderings
<1> DEFINE after == Control(r, footer, fault)
<1>1. CASE r.over \/ ~r.interactive
  <2>1. after = r
    BY <1>1 DEF Control
  <2> QED
    BY <1>0, <1>1, <2>1 DEF Renderings
<1>2. CASE ~r.over /\ r.interactive /\ ~Fails(r, fault)
  <2>1. after = [r EXCEPT !.calls = r.calls + 1, !.footer = footer]
    BY <1>2 DEF Control
  <2> HIDE DEF after
  <2>2. after \in Renderings
    BY <1>0, <2>1 DEF Renderings
  <2>3. /\ after.shown = r.shown /\ after.status = r.status
        /\ ~after.over /\ after.interactive => after.footer = footer
    BY <1>2, <2>1 DEF Renderings
  <2> QED
    BY <1>2, <2>2, <2>3 DEF after
<1>3. CASE ~r.over /\ r.interactive /\ Fails(r, fault) /\ fault.pipe
  <2>1. after = [r EXCEPT !.calls = r.calls + 1, !.over = TRUE]
    BY <1>3 DEF Control
  <2> HIDE DEF after
  <2>2. after \in Renderings
    BY <1>0, <2>1 DEF Renderings
  <2>3. /\ after.shown = r.shown /\ after.status = r.status
        /\ ~after.over /\ after.interactive => after.footer = footer
    BY <1>3, <2>1 DEF Renderings
  <2> QED
    BY <1>3, <2>2, <2>3 DEF after
<1>4. CASE ~r.over /\ r.interactive /\ Fails(r, fault) /\ ~fault.pipe
  <2>1. after = [r EXCEPT !.calls = r.calls + 1, !.interactive = FALSE]
    BY <1>4 DEF Control
  <2> HIDE DEF after
  <2>2. after \in Renderings
    BY <1>0, <2>1 DEF Renderings
  <2>3. /\ after.shown = r.shown /\ after.status = r.status
        /\ ~after.over /\ after.interactive => after.footer = footer
    BY <1>4, <2>1 DEF Renderings
  <2> QED
    BY <1>4, <2>2, <2>3 DEF after
<1> QED
  BY <1>1, <1>2, <1>3, <1>4

\* A line is shown behind the others or ends the rendering.
LEMMA WriteShows ==
  ASSUME NEW r \in Renderings, NEW line \in Nat, NEW fault \in [at : Nat, pipe : BOOLEAN]
  PROVE  /\ Write(r, line, fault) \in Renderings
         /\ Write(r, line, fault).status = r.status
         /\ r.over => Write(r, line, fault).over
         /\ ~Write(r, line, fault).over => Write(r, line, fault).shown = Append(r.shown, line)
<1>1. Append(r.shown, line) \in Seq(Nat)
  BY DEF Renderings
<1>0. r.calls + 1 \in Nat
  BY DEF Renderings
<1> DEFINE after == Write(r, line, fault)
<1>2. CASE r.over
  BY <1>2 DEF Write
<1>3. CASE ~r.over /\ Fails(r, fault)
  <2>1. after = [r EXCEPT !.calls = r.calls + 1, !.over = TRUE, !.shown = r.shown]
    BY <1>3 DEF Write
  <2> HIDE DEF after
  <2>2. after \in Renderings
    <3>1. r.shown \in Seq(Nat)
      BY DEF Renderings
    <3> QED
      BY <1>0, <2>1, <3>1 DEF Renderings
  <2>3. after.status = r.status /\ after.over
    BY <2>1 DEF Renderings
  <2> QED
    BY <1>3, <2>2, <2>3 DEF after
<1>4. CASE ~r.over /\ ~Fails(r, fault)
  <2>1. after = [r EXCEPT !.calls = r.calls + 1, !.over = FALSE, !.shown = Append(r.shown, line)]
    BY <1>4 DEF Write, Fails
  <2> HIDE DEF after
  <2>2. after \in Renderings
    BY <1>0, <1>1, <2>1 DEF Renderings
  <2>3. after.status = r.status /\ after.shown = Append(r.shown, line)
    BY <2>1 DEF Renderings
  <2> QED
    BY <1>4, <2>2, <2>3 DEF after
<1> QED
  BY <1>2, <1>3, <1>4

\* A rendering that went on to this.
Follows(r, next, shown, status) ==
  /\ r.over => next.over
  /\ ~next.over =>
       /\ next.shown = shown
       /\ next.status = status
       /\ next.interactive => next.footer = status

\* ShowLine and ShowFrame keep what is shown in step with what was read.
LEMMA ShowShows ==
  ASSUME NEW r \in Renderings, NEW m \in Message, NEW fault \in [at : Nat, pipe : BOOLEAN]
  PROVE  /\ Show(r, m, fault) \in Renderings
         /\ CASE m.frame /\ m.status = NoStatus -> Show(r, m, fault) = r
              [] m.frame /\ m.status # NoStatus -> Follows(r, Show(r, m, fault), r.shown, m.status)
              [] ~m.frame -> Follows(r, Show(r, m, fault), Append(r.shown, m.line), r.status)
<1>1. CASE m.frame /\ m.status = NoStatus
  <2>1. Show(r, m, fault) = r
    BY <1>1 DEF Show, ShowFrame
  <2> QED
    BY <1>1, <2>1
<1>2. CASE m.frame /\ m.status # NoStatus
  <2> DEFINE told == [r EXCEPT !.status = m.status]
             drawn == Control(told, told.status, fault)
  <2>1. Show(r, m, fault) = drawn
    BY <1>2 DEF Show, ShowFrame, Draw
  <2>2. /\ told \in Renderings /\ told.status = m.status /\ told.shown = r.shown
        /\ told.over = r.over /\ told.status \in Statuses
    BY DEF Renderings, Message
  <2> HIDE DEF told
  <2>3. /\ drawn \in Renderings /\ drawn.shown = told.shown /\ drawn.status = told.status
        /\ told.over => drawn.over
        /\ ~drawn.over /\ drawn.interactive => drawn.footer = told.status
    BY <2>2, ControlShows
  <2> HIDE DEF drawn
  <2>4. Follows(r, drawn, r.shown, m.status)
    BY <2>2, <2>3 DEF Follows
  <2> QED
    BY <1>2, <2>1, <2>3, <2>4
<1>3. CASE ~m.frame
  <2> DEFINE erased == Control(r, NoStatus, fault)
             written == Write(erased, m.line, fault)
             drawn == Control(written, written.status, fault)
  <2>1. Show(r, m, fault) = drawn
    BY <1>3 DEF Show, ShowLine, Erase, Draw
  <2>2. NoStatus \in Statuses /\ m.line \in Nat
    BY DEF Statuses, Message
  <2>3. /\ erased \in Renderings /\ erased.shown = r.shown /\ erased.status = r.status
        /\ r.over => erased.over
    BY <2>2, ControlShows
  <2> HIDE DEF erased
  <2>4. /\ written \in Renderings /\ written.status = erased.status
        /\ erased.over => written.over
        /\ ~written.over => written.shown = Append(erased.shown, m.line)
    BY <2>2, <2>3, WriteShows
  <2> HIDE DEF written
  <2>5. written.status \in Statuses
    BY <2>4 DEF Renderings
  <2>6. /\ drawn \in Renderings /\ drawn.shown = written.shown /\ drawn.status = written.status
        /\ written.over => drawn.over
        /\ ~drawn.over /\ drawn.interactive => drawn.footer = written.status
    BY <2>4, <2>5, ControlShows
  <2> HIDE DEF drawn
  <2>7. Follows(r, drawn, Append(r.shown, m.line), r.status)
    BY <2>3, <2>4, <2>6 DEF Follows
  <2> QED
    BY <1>3, <2>1, <2>6, <2>7
<1>4. m.frame \in BOOLEAN
  BY DEF Message
<1> QED
  BY <1>1, <1>2, <1>3, <1>4

\* A line behind the last one.
LEMMA LineBehind ==
  ASSUME NEW lines \in Nat
  PROVE  Append([n \in 1 .. lines |-> n], lines + 1) = [n \in 1 .. lines + 1 |-> n]
<1> DEFINE old == [n \in 1 .. lines |-> n]
           new == [n \in 1 .. lines + 1 |-> n]
<1>1. old \in Seq(Nat) /\ Len(old) = lines /\ new \in Seq(Nat) /\ Len(new) = lines + 1
  OBVIOUS
<1>2. Append(old, lines + 1) \in Seq(Nat) /\ Len(Append(old, lines + 1)) = lines + 1
  BY <1>1
<1>3. ASSUME NEW k \in 1 .. lines + 1 PROVE Append(old, lines + 1)[k] = new[k]
  <2>1. CASE k = lines + 1
    BY <1>1, <2>1
  <2>2. CASE k # lines + 1
    <3>1. k \in 1 .. lines
      BY <2>2
    <3> QED
      BY <1>1, <3>1
  <2> QED
    BY <2>1, <2>2
<1> HIDE DEF old, new
<1> QED
  BY <1>1, <1>2, <1>3 DEF old, new

\* The last status after one message more.
LEMMA StatusBehind ==
  ASSUME NEW messages \in Seq(Message), NEW m \in Message
  PROVE  LastStatus(Append(messages, m)) =
           IF m.frame /\ m.status # NoStatus THEN m.status ELSE LastStatus(messages)
<1> DEFINE n == Len(messages)
           more == Append(messages, m)
<1>1. /\ n \in Nat /\ n + 1 \in Nat /\ Len(more) = n + 1 /\ more[n + 1] = m
      /\ \A k \in 1 .. n : more[k] = messages[k]
  BY LenProperties, AppendProperties
<1>2. n + 1 \notin 1 .. n /\ 1 .. n + 1 = (1 .. n) \cup {n + 1}
  BY <1>1
<1> HIDE DEF n, more
<1>3. CASE m.frame /\ m.status # NoStatus
  <2>1. n + 1 \in Frames(more) /\ Frames(more) \in SUBSET (1 .. n + 1)
    BY <1>1, <1>2, <1>3 DEF Frames
  <2>2. Max(Frames(more)) \in 1 .. n + 1 /\ n + 1 <= Max(Frames(more))
    BY <1>1, <2>1, MaxType
  <2>3. Max(Frames(more)) = n + 1
    BY <1>1, <2>2
  <2> QED
    BY <1>1, <1>3, <2>1, <2>3 DEF LastStatus, more
<1>4. CASE ~(m.frame /\ m.status # NoStatus)
  <2>1. Frames(messages) = {k \in 1 .. n : messages[k].frame /\ messages[k].status # NoStatus}
    BY DEF Frames, n
  <2>2. Frames(more) = Frames(messages)
    BY <1>1, <1>2, <1>4, <2>1 DEF Frames
  <2>3. Frames(messages) # {} => Max(Frames(messages)) \in 1 .. n
    BY <1>1, <2>1, MaxType
  <2> QED
    BY <1>1, <1>4, <2>2, <2>3 DEF LastStatus, more
<1> QED
  BY <1>3, <1>4

-------------------------------------------------------------------------------
(* The calendar and the clock.                                             *)

\* An hour and a day are not empty, and an hour is no longer than a day.
LEMMA Units ==
  /\ Hour \in Nat \ {0} /\ Day \in Nat \ {0} /\ Hour <= Day
  /\ Grace \in Nat /\ Forward \in Int /\ Back \in Int
<1>1. /\ MonthDays \in Nat \ {0} /\ HalfDay \in Nat \ {0} /\ HourMinutes \in Nat \ {0}
      /\ MinuteTicks \in Nat \ {0} /\ Grace \in Nat /\ Forward \in Int /\ Back \in Int
  BY CalendarAssumption
<1>2. Hour \in Nat \ {0}
  BY <1>1 DEF Hour
<1>3. Day \in Nat \ {0} /\ Hour <= Day
  <2>1. 2 * HalfDay \in Nat \ {0} /\ Day = (2 * HalfDay) * Hour
    BY <1>1 DEF Day
  <2>2. \A a, b \in Nat \ {0} : a * b \in Nat \ {0} /\ b <= a * b
    OBVIOUS
  <2> QED
    BY <1>2, <2>1, <2>2
<1> QED
  BY <1>1, <1>2, <1>3

\* The days before a day.
Earlier(d) == {e \in Dates : Before(e, d)}

\* Dates are finitely many.
LEMMA DatesFinite == IsFiniteSet(Dates)
<1> DEFINE days == 1 .. MonthDays + 1
           records == [year : Years, month : Months, day : days]
           triples == (Years \X Months) \X days
           f == [d \in records |-> <<<<d.year, d.month>>, d.day>>]
<1>1. IsFiniteSet(Years) /\ IsFiniteSet(Months) /\ IsFiniteSet(days)
  <2>1. 1 \in Int /\ MonthDays + 1 \in Int
    BY CalendarAssumption
  <2> QED
    BY <2>1, CalendarAssumption, FS_Interval
<1>2. IsFiniteSet(triples)
  <2> HIDE DEF days
  <2> QED
    BY <1>1, FS_Product
<1>3. f \in Injection(records, triples)
  <2> HIDE DEF days
  <2>1. f \in [records -> triples]
    OBVIOUS
  <2>2. \A d, e \in records : f[d] = f[e] => d = e
    OBVIOUS
  <2> HIDE DEF f
  <2> QED
    BY <2>1, <2>2 DEF Injection, IsInjective
<1>4. IsFiniteSet(records)
  <2> HIDE DEF f, records, triples
  <2> QED
    BY <1>2, <1>3, FS_Injection
<1>5. Dates \in SUBSET records
  BY DEF Dates
<1> HIDE DEF records
<1> QED
  BY <1>4, <1>5, FS_Subset

\* One date is before another, or the other before it.
LEMMA BeforeOrders ==
  /\ \A d \in Dates : ~Before(d, d)
  /\ \A d, e \in Dates : d = e \/ Before(d, e) \/ Before(e, d)
  /\ \A d, e, f \in Dates : Before(d, e) /\ Before(e, f) => Before(d, f)
<1>1. \A d \in Dates : d.year \in Int /\ d.month \in Int /\ d.day \in Int
                    /\ d = [year |-> d.year, month |-> d.month, day |-> d.day]
  BY CalendarAssumption DEF Dates
<1>2. \A d \in Dates : ~Before(d, d)
  BY <1>1 DEF Before
<1>3. \A d, e \in Dates : d = e \/ Before(d, e) \/ Before(e, d)
  BY <1>1 DEF Before
<1>4. \A d, e, f \in Dates : Before(d, e) /\ Before(e, f) => Before(d, f)
  BY <1>1 DEF Before
<1> QED
  BY <1>2, <1>3, <1>4

\* The number of a day grows with the day.
LEMMA DayNumberOrders ==
  /\ \A d \in Dates : DayNumber[d] \in 0 .. Cardinality(Dates) - 1
  /\ \A d, e \in Dates : Before(d, e) => DayNumber[d] < DayNumber[e]
  /\ Cardinality(Dates) \in Nat
<1>1. IsFiniteSet(Dates) /\ Cardinality(Dates) \in Nat
  BY DatesFinite, FS_CardinalityType
<1>2. \A d \in Dates : DayNumber[d] = Cardinality(Earlier(d))
  BY DEF DayNumber, Earlier
<1>3. ASSUME NEW d \in Dates
      PROVE  IsFiniteSet(Earlier(d)) /\ Cardinality(Earlier(d)) \in Nat
  <2>1. Earlier(d) \in SUBSET Dates
    BY DEF Earlier
  <2> QED
    BY <1>1, <2>1, FS_Subset, FS_CardinalityType
<1>4. ASSUME NEW T, IsFiniteSet(T), NEW S \in SUBSET T, NEW x \in T, x \notin S
      PROVE  Cardinality(S) < Cardinality(T)
  <2>1. IsFiniteSet(S) /\ Cardinality(S) <= Cardinality(T) /\ Cardinality(S) # Cardinality(T)
    BY <1>4, FS_Subset
  <2>2. Cardinality(S) \in Nat /\ Cardinality(T) \in Nat
    BY <1>4, <2>1, FS_CardinalityType
  <2> QED
    BY <2>1, <2>2
<1>5. ASSUME NEW d \in Dates PROVE Cardinality(Earlier(d)) < Cardinality(Dates)
  <2>1. Earlier(d) \in SUBSET Dates /\ d \notin Earlier(d)
    BY BeforeOrders DEF Earlier
  <2> QED
    BY <1>1, <1>4, <2>1
<1>6. ASSUME NEW d \in Dates, NEW e \in Dates, Before(d, e)
      PROVE  Cardinality(Earlier(d)) < Cardinality(Earlier(e))
  <2>1. Earlier(d) \in SUBSET Earlier(e) /\ d \in Earlier(e) /\ d \notin Earlier(d)
    BY <1>6, BeforeOrders DEF Earlier
  <2> QED
    BY <1>3, <1>4, <2>1
<1> QED
  BY <1>1, <1>2, <1>3, <1>5, <1>6

\* Every number below theirs is the number of one day.
LEMMA DateAtNumber ==
  ASSUME NEW n \in 0 .. Cardinality(Dates) - 1
  PROVE  DateAt[n] \in Dates /\ DayNumber[DateAt[n]] = n
<1> DEFINE numbers == 0 .. Cardinality(Dates) - 1
<1>1. IsFiniteSet(Dates) /\ Cardinality(Dates) \in Nat
  BY DatesFinite, FS_CardinalityType
<1>2. IsFiniteSet(numbers) /\ Cardinality(numbers) = Cardinality(Dates)
  BY <1>1, FS_Interval
<1>3. DayNumber \in [Dates -> numbers]
  BY DayNumberOrders DEF DayNumber
<1>4. \A d, e \in Dates : DayNumber[d] = DayNumber[e] => d = e
  BY DayNumberOrders, BeforeOrders
<1>5. DayNumber \in Injection(Dates, numbers)
  BY <1>3, <1>4 DEF Injection, IsInjective
<1>6. DayNumber \in Surjection(Dates, numbers)
  BY <1>2, <1>5, FS_Injection
<1>7. \E d \in Dates : DayNumber[d] = n
  BY <1>6 DEF Surjection
<1> QED
  BY <1>7 DEF DateAt

\* A later year has later days.
LEMMA LaterYears ==
  ASSUME NEW d \in Dates, NEW e \in Dates, d.year < e.year
  PROVE  DayNumber[d] + 1 <= DayNumber[e]
<1>1. Before(d, e)
  BY DEF Before
<1> QED
  BY <1>1, DayNumberOrders

\* The least of a set of numbers.
LEMMA MinIsLeast ==
  ASSUME NEW S, NEW least \in S, \A t \in S : t \in Int /\ least <= t
  PROVE  Min(S) = least
<1>1. Min(S) \in S /\ \A t \in S : Min(S) <= t
  <2>1. \E x \in S : \A t \in S : x <= t
    OBVIOUS
  <2> QED
    BY <2>1 DEF Min
<1>2. Min(S) \in Int /\ least \in Int /\ Min(S) <= least /\ least <= Min(S)
  BY <1>1
<1> QED
  BY <1>2

\* The clock of the summer is an hour ahead.
Summer(instant) == Forward <= instant /\ instant < Back

\* Of two instants at which the clock shows a time, the first.
Earliest(wall) == IF Summer(wall - Hour) THEN wall - Hour ELSE wall

\* A time of the clock is what the clock of the summer shows, if it shows it,
\* and else what it shows without it, also when the hour is skipped.
LEMMA FromLocalTime ==
  ASSUME NEW wall \in Int
  PROVE  FromLocal(wall) = Earliest(wall)
<1>1. Hour \in Nat \ {0} /\ Forward \in Int /\ Back \in Int
  BY Units
<1>2. \A t \in Int : Wall(t) = IF Summer(t) THEN t + Hour ELSE t
  BY DEF Wall, Summer
<1>3. \A t : Min({t}) = t
  BY <1>1 DEF Min
<1>4. CASE Summer(wall - Hour)
  <2>1. wall - Hour \in Int /\ Wall(wall - Hour) = wall
    BY <1>1, <1>2, <1>4
  <2>2. wall - Hour \in Instants(wall) /\ \A t \in Instants(wall) : t \in Int /\ wall - Hour <= t
    BY <1>1, <2>1 DEF Instants
  <2>3. Min(Instants(wall)) = wall - Hour
    <3> DEFINE S == Instants(wall)
               u == wall - Hour
    <3>1. u \in S /\ u \in Int /\ \A t \in S : t \in Int /\ u <= t
      BY <2>1, <2>2
    <3> HIDE DEF S, u
    <3>2. Min(S) = u
      BY <3>1, MinIsLeast
    <3> QED
      BY <3>2 DEF S, u
  <2> QED
    BY <1>4, <2>2, <2>3 DEF FromLocal, Earliest
<1>5. CASE ~Summer(wall - Hour) /\ ~Summer(wall)
  <2>1. Instants(wall) = {wall}
    BY <1>1, <1>2, <1>5 DEF Instants
  <2>2. Min({wall}) = wall
    BY <1>3
  <2> QED
    BY <1>5, <2>1, <2>2 DEF FromLocal, Earliest
<1>6. CASE ~Summer(wall - Hour) /\ Summer(wall)
  <2>1. Instants(wall) = {}
    BY <1>1, <1>2, <1>6 DEF Instants
  <2> DEFINE S == Instants(wall + Hour)
  <2>2. wall \in S /\ \A t \in S : t \in Int /\ wall <= t
    BY <1>1, <1>2, <1>6 DEF Instants
  <2> HIDE DEF S
  <2>3. Min(S) = wall /\ S # {}
    BY <2>2, MinIsLeast
  <2> QED
    BY <1>6, <2>1, <2>3 DEF FromLocal, S, Earliest
<1> QED
  BY <1>4, <1>5, <1>6

\* An hour and a minute of a dial are a moment of the day, the grace included.
LEMMA TimeOfDay ==
  ASSUME NEW hour \in Nat, NEW minute \in Nat, hour < 2 * HalfDay, minute < HourMinutes
  PROVE  /\ hour * Hour + minute * MinuteTicks \in Nat
         /\ hour * Hour + minute * MinuteTicks + Grace < Day
<1>1. /\ HalfDay \in Nat \ {0} /\ HourMinutes \in Nat \ {0} /\ MinuteTicks \in Nat \ {0}
      /\ Grace \in Nat /\ Grace < MinuteTicks /\ Hour \in Nat \ {0}
  BY CalendarAssumption, Units
<1>2. \A a, b, c \in Nat : a <= b => a * c <= b * c
  OBVIOUS
<1>3. /\ hour * Hour \in Nat /\ minute * MinuteTicks \in Nat
      /\ hour + 1 \in Nat /\ minute + 1 \in Nat /\ 2 * HalfDay \in Nat
  BY <1>1
<1>4. (hour + 1) * Hour <= (2 * HalfDay) * Hour
  BY <1>1, <1>2, <1>3
<1>5. (minute + 1) * MinuteTicks <= HourMinutes * MinuteTicks
  BY <1>1, <1>2, <1>3
<1>6. (hour + 1) * Hour = hour * Hour + Hour /\ (minute + 1) * MinuteTicks = minute * MinuteTicks + MinuteTicks
  BY <1>1
<1>7. Day = (2 * HalfDay) * Hour /\ Hour = HourMinutes * MinuteTicks
  BY <1>1 DEF Day, Hour
<1>8. Day \in Nat
  BY Units
<1> QED
  BY <1>1, <1>3, <1>4, <1>5, <1>6, <1>7, <1>8

\* What local_datetime returns lies, with the grace, within the day, but for an
\* hour of the summer.
LEMMA LocalDay ==
  ASSUME NEW year, NEW month, NEW day, NEW hour \in Nat, NEW minute \in Nat,
         LocalDatetime(year, month, day, hour, minute) # NoTime
  PROVE  LET date == [year |-> year, month |-> month, day |-> day]
         IN /\ date \in Dates
            /\ \E wall \in Int :
                 /\ DayNumber[date] * Day <= wall /\ wall + Grace < DayNumber[date] * Day + Day
                 /\ LocalDatetime(year, month, day, hour, minute) = Earliest(wall)
<1> DEFINE date == [year |-> year, month |-> month, day |-> day]
           time == hour * Hour + minute * MinuteTicks
           wall == DayNumber[date] * Day + time
<1>1. /\ date \in Dates /\ hour < 2 * HalfDay /\ minute < HourMinutes
      /\ LocalDatetime(year, month, day, hour, minute) =
           FromLocal(DayNumber[date] * Day + hour * Hour + minute * MinuteTicks)
  BY DEF LocalDatetime
<1>2. time \in Nat /\ time + Grace < Day
  BY <1>1, TimeOfDay
<1>3. DayNumber[date] \in Nat /\ Day \in Nat /\ Grace \in Nat
  BY <1>1, DayNumberOrders, Units
<1>4. DayNumber[date] * Day \in Nat
  BY <1>3
<1>5. hour * Hour \in Nat /\ minute * MinuteTicks \in Nat
  BY CalendarAssumption, Units
<1>6. wall = DayNumber[date] * Day + hour * Hour + minute * MinuteTicks
  BY <1>4, <1>5
<1>7. /\ wall \in Int /\ DayNumber[date] * Day <= wall
      /\ wall + Grace < DayNumber[date] * Day + Day
  BY <1>2, <1>3, <1>4
<1> HIDE DEF wall
<1>8. FromLocal(wall) = Earliest(wall)
  BY <1>7, FromLocalTime
<1> QED
  BY <1>1, <1>6, <1>7, <1>8

\* The day on which a message is logged.
LEMMA LogDay ==
  ASSUME NEW log \in 0 .. LastLog
  PROVE  /\ DateOf(log) \in Dates
         /\ DayNumber[DateOf(log)] * Day <= Wall(log)
         /\ Wall(log) < DayNumber[DateOf(log)] * Day + Day
         /\ Wall(log) \in Nat
<1> DEFINE n == Wall(log) \div Day
<1>1. /\ Hour \in Nat \ {0} /\ Day \in Nat \ {0} /\ Forward \in Int /\ Back \in Int
      /\ log \in Nat /\ Cardinality(Dates) \in Nat
      /\ log <= LastLog /\ LastLog \in Nat /\ LastLog + Day + Hour < Cardinality(Dates) * Day
  BY Units, LogAssumption, DayNumberOrders
<1>2. Wall(log) \in Nat /\ Wall(log) <= log + Hour
  BY <1>1 DEF Wall
<1>3. Cardinality(Dates) * Day \in Nat
  BY <1>1
<1>4. Wall(log) < Cardinality(Dates) * Day
  BY <1>1, <1>2, <1>3
<1>5. \A x \in Nat, d \in Nat \ {0} :
        /\ x \div d \in Nat /\ (x \div d) * d <= x /\ x < (x \div d) * d + d
        /\ \A k \in Nat : x < k * d => x \div d < k
  OBVIOUS
<1>6. n \in Nat /\ n * Day <= Wall(log) /\ Wall(log) < n * Day + Day /\ n < Cardinality(Dates)
  BY <1>1, <1>2, <1>4, <1>5
<1> HIDE DEF n
<1>7. n \in 0 .. Cardinality(Dates) - 1
  BY <1>1, <1>6
<1>8. DateOf(log) = DateAt[n]
  BY DEF DateOf, n
<1> QED
  BY <1>2, <1>6, <1>7, <1>8, DateAtNumber

\* A time of day that was logged with `log` on the day that begins at `start`.
LEMMA NotBeforeByTime ==
  ASSUME NEW log \in Nat, NEW start \in Nat, NEW wall \in Int, NEW target \in Int,
         start <= Wall(log), Wall(log) < start + Day, start <= wall, wall + Grace < start + Day,
         LET today == Earliest(wall) + Grace
         IN target = IF today < log THEN today + Day ELSE today
  PROVE  /\ target >= log \/ (Back \in log - Day - Hour .. log /\ target >= log - Hour)
         /\ target <= log + Day + Hour
<1>1. /\ Hour \in Nat \ {0} /\ Day \in Nat \ {0} /\ Grace \in Nat
      /\ Forward \in Int /\ Back \in Int
  BY Units
<1>2. CASE Summer(log)
  BY <1>1, <1>2 DEF Wall, Summer, Earliest
<1>3. CASE ~Summer(log)
  BY <1>1, <1>3 DEF Wall, Summer, Earliest
<1> QED
  BY <1>2, <1>3

\* A date of a later day.
LEMMA NotBeforeByDate ==
  ASSUME NEW log \in Nat, NEW start \in Nat, NEW wall \in Int, NEW target \in Int,
         Wall(log) < start, start <= wall,
         target = Earliest(wall) + Grace
  PROVE  \/ target >= log
         \/ /\ Back \in log - Day - Hour .. log /\ target >= log - Hour
            /\ Wall(log + Hour) = log + Hour /\ start <= log + Hour /\ log < start
<1>1. /\ Hour \in Nat \ {0} /\ Day \in Nat \ {0} /\ Grace \in Nat /\ Hour <= Day
      /\ Forward \in Int /\ Back \in Int
  BY Units
<1>2. CASE Summer(log)
  BY <1>1, <1>2 DEF Wall, Summer, Earliest
<1>3. CASE ~Summer(log)
  BY <1>1, <1>3 DEF Wall, Summer, Earliest
<1> QED
  BY <1>2, <1>3

-------------------------------------------------------------------------------
(* The inputs.                                                             *)

\* What was shown of a stream is what was read.
StreamInv ==
  kind = "stream" =>
    /\ input \in [interactive : BOOLEAN, messages : Seq(Message), lines : Nat,
                  fault : [at : Nat, pipe : BOOLEAN]]
    /\ Rendered \in Renderings
    /\ IsShown(Rendered, input.lines, LastStatus(input.messages))

\* A record and the time at which it is read.
RecordInv == kind = "record" => input \in [at : Nat, record : Records]

\* A message and the time at which it is logged.
MessageInv == kind = "message" => input \in [log : 0 .. LastLog, text : Messages]

\* The arguments.
ArgumentInv == kind \in {"claude", "codex"} => input \in Seq(Tokens)

IInv == StreamInv /\ RecordInv /\ MessageInv /\ ArgumentInv

\* Before the first message there is the footer with the first status.
LEMMA InitStream ==
  ASSUME Init PROVE StreamInv
<1> SUFFICES ASSUME kind = "stream" PROVE StreamInv
  BY DEF StreamInv
<1>1. input \in [interactive : BOOLEAN, messages : {<<>>}, lines : {0},
                fault : [at : 0 .. MaxCalls, pipe : BOOLEAN]]
  BY DEF Init
<1>2. /\ input.interactive \in BOOLEAN /\ input.messages = <<>> /\ input.lines = 0
      /\ input.fault \in [at : Nat, pipe : BOOLEAN]
  BY <1>1
<1>3. input \in [interactive : BOOLEAN, messages : Seq(Message), lines : Nat,
                fault : [at : Nat, pipe : BOOLEAN]]
  <2>1. <<>> \in Seq(Message) /\ 0 \in Nat
    BY EmptySeq
  <2>2. input = [interactive |-> input.interactive, messages |-> <<>>, lines |-> 0,
                 fault |-> input.fault]
    BY <1>1
  <2> QED
    BY <1>2, <2>1, <2>2
<1> DEFINE r == Rendering("none", input.interactive)
           drawn == Control(r, r.status, input.fault)
<1>4. Rendered = drawn
  BY <1>2, RenderEmpty DEF Rendered, First, Draw
<1>5. r \in Renderings /\ r.status = "none" /\ "none" \in Statuses /\ r.shown = <<>>
  BY <1>2, EmptySeq DEF Rendering, Renderings, Statuses
<1> HIDE DEF r
<1>6. /\ drawn \in Renderings /\ drawn.shown = r.shown /\ drawn.status = r.status
      /\ ~drawn.over /\ drawn.interactive => drawn.footer = r.status
  BY <1>2, <1>5, ControlShows
<1> HIDE DEF drawn
<1>7. LastStatus(input.messages) = "none"
  <2>1. Frames(<<>>) = {}
    BY DEF Frames
  <2> QED
    BY <1>2, <2>1 DEF LastStatus
<1>8. <<>> = [n \in 1 .. 0 |-> n]
  OBVIOUS
<1> QED
  BY <1>2, <1>3, <1>4, <1>5, <1>6, <1>7, <1>8 DEF StreamInv, IsShown

\* One message more is shown.
LEMMA MessageShown ==
  ASSUME StreamInv, kind = "stream", kind' = kind, NEW m \in Message, NEW lines \in Nat,
         input' = [input EXCEPT !.lines = lines, !.messages = Append(@, m)],
         IF m.frame THEN lines = input.lines
         ELSE lines = input.lines + 1 /\ m.line = lines
  PROVE  StreamInv'
<1>1. /\ input \in [interactive : BOOLEAN, messages : Seq(Message), lines : Nat,
                   fault : [at : Nat, pipe : BOOLEAN]]
      /\ Rendered \in Renderings
      /\ IsShown(Rendered, input.lines, LastStatus(input.messages))
  BY DEF StreamInv
<1>2. /\ input.messages \in Seq(Message) /\ input.lines \in Nat
      /\ input.fault \in [at : Nat, pipe : BOOLEAN]
      /\ Append(input.messages, m) \in Seq(Message)
  BY <1>1, AppendProperties
<1>3. /\ input'.interactive = input.interactive /\ input'.fault = input.fault
      /\ input'.lines = lines /\ input'.messages = Append(input.messages, m)
  BY <1>1
<1>4. input' \in [interactive : BOOLEAN, messages : Seq(Message), lines : Nat,
                 fault : [at : Nat, pipe : BOOLEAN]]
  BY <1>1, <1>2
<1> DEFINE before == Rendered
           after == Show(before, m, input.fault)
<1>5. Rendered' = after
  BY <1>2, <1>3, RenderGrows DEF Rendered
<1>6. /\ after \in Renderings
      /\ CASE m.frame /\ m.status = NoStatus -> after = before
           [] m.frame /\ m.status # NoStatus -> Follows(before, after, before.shown, m.status)
           [] ~m.frame -> Follows(before, after, Append(before.shown, m.line), before.status)
  BY <1>1, <1>2, ShowShows
<1>7. LastStatus(Append(input.messages, m)) =
        IF m.frame /\ m.status # NoStatus THEN m.status ELSE LastStatus(input.messages)
  BY <1>2, StatusBehind
<1>8. IsShown(before, input.lines, LastStatus(input.messages)) /\ before \in Renderings
  BY <1>1
<1> HIDE DEF before, after
<1>9. m.frame \in BOOLEAN
  BY DEF Message
<1>10. IsShown(after, lines, LastStatus(Append(input.messages, m)))
  <2>1. CASE m.frame /\ m.status = NoStatus
    BY <1>6, <1>7, <1>8, <2>1
  <2>2. CASE m.frame /\ m.status # NoStatus
    <3>1. Follows(before, after, before.shown, m.status)
      BY <1>6, <2>2
    <3>2. SUFFICES ASSUME ~after.over
                   PROVE  /\ after.shown = [n \in 1 .. lines |-> n]
                          /\ after.status = m.status
                          /\ after.interactive => after.footer = m.status
      BY <1>7, <2>2 DEF IsShown
    <3>3. ~before.over /\ before.shown = [n \in 1 .. input.lines |-> n] /\ lines = input.lines
      BY <1>8, <2>2, <3>1, <3>2 DEF Follows, IsShown
    <3> QED
      BY <3>1, <3>2, <3>3 DEF Follows
  <2>3. CASE ~m.frame
    <3>1. Follows(before, after, Append(before.shown, m.line), before.status)
      BY <1>6, <2>3
    <3>2. Append([n \in 1 .. input.lines |-> n], lines) = [n \in 1 .. lines |-> n]
      BY <1>2, <2>3, LineBehind
    <3>3. SUFFICES ASSUME ~after.over
                   PROVE  /\ after.shown = [n \in 1 .. lines |-> n]
                          /\ after.status = LastStatus(input.messages)
                          /\ after.interactive => after.footer = LastStatus(input.messages)
      BY <1>7, <2>3 DEF IsShown
    <3>4. /\ ~before.over /\ before.shown = [n \in 1 .. input.lines |-> n]
          /\ before.status = LastStatus(input.messages) /\ m.line = lines
      BY <1>8, <2>3, <3>1, <3>3 DEF Follows, IsShown
    <3> QED
      BY <3>1, <3>2, <3>3, <3>4 DEF Follows
  <2> QED
    BY <1>9, <2>1, <2>2, <2>3
<1> QED
  BY <1>3, <1>4, <1>5, <1>6, <1>10 DEF StreamInv

\* Every input keeps what was said of it.
LEMMA StepKeeps ==
  ASSUME IInv, [Next]_vars PROVE IInv'
<1>1. CASE UNCHANGED vars
  BY <1>1 DEF IInv, StreamInv, RecordInv, MessageInv, ArgumentInv, Rendered, vars
<1>2. CASE AddArgument
  <2>1. kind \in {"claude", "codex"} /\ kind' = kind /\ input \in Seq(Tokens)
    BY <1>2 DEF IInv, ArgumentInv, AddArgument
  <2>2. \E a \in Tokens : input' = Append(input, a)
    BY <1>2 DEF AddArgument, Tokens
  <2>3. input' \in Seq(Tokens)
    BY <2>1, <2>2
  <2> QED
    BY <2>1, <2>3 DEF IInv, StreamInv, RecordInv, MessageInv, ArgumentInv
<1>3. CASE AddLine
  <2> DEFINE m == Line(input.lines + 1)
             lines == input.lines + 1
  <2>1. StreamInv /\ kind = "stream" /\ kind' = kind
    BY <1>3 DEF AddLine, IInv
  <2>2. input.lines \in Nat /\ lines \in Nat
    BY <2>1 DEF StreamInv
  <2>3. m \in Message /\ ~m.frame /\ m.line = lines /\ lines = input.lines + 1
    BY <2>2 DEF Line, Message, Statuses
  <2>4. input' = [input EXCEPT !.lines = lines, !.messages = Append(@, m)]
    BY <1>3 DEF AddLine
  <2> HIDE DEF m, lines
  <2>5. StreamInv'
    BY <2>1, <2>2, <2>3, <2>4, MessageShown
  <2> QED
    BY <2>1, <2>5 DEF IInv, RecordInv, MessageInv, ArgumentInv
<1>4. CASE AddFrame
  <2>1. StreamInv /\ kind = "stream" /\ kind' = kind
    BY <1>4 DEF AddFrame, IInv
  <2>2. PICK s \in {"limited", "resuming", NoStatus} :
          input' = [input EXCEPT !.messages = Append(@, Frame(s))]
    BY <1>4 DEF AddFrame
  <2> DEFINE m == Frame(s)
             lines == input.lines
  <2>3. lines \in Nat /\ lines = input.lines
    BY <2>1 DEF StreamInv
  <2>4. m \in Message /\ m.frame
    BY DEF Frame, Message, Statuses
  <2>5. input' = [input EXCEPT !.lines = lines, !.messages = Append(@, m)]
    BY <2>1, <2>2 DEF StreamInv
  <2> HIDE DEF m, lines
  <2>6. StreamInv'
    BY <2>1, <2>3, <2>4, <2>5, MessageShown
  <2> QED
    BY <2>1, <2>6 DEF IInv, RecordInv, MessageInv, ArgumentInv
<1>5. CASE LogLater
  <2>1. /\ kind = "message" /\ kind' = kind /\ input \in [log : 0 .. LastLog, text : Messages]
        /\ input.log < LastLog /\ input' = [input EXCEPT !.log = @ + 1]
    BY <1>5 DEF IInv, MessageInv, LogLater
  <2>2. input.log + 1 \in 0 .. LastLog
    BY <2>1, LogAssumption
  <2>3. input' = [input EXCEPT !.log = input.log + 1]
    BY <2>1
  <2>4. input' \in [log : 0 .. LastLog, text : Messages]
    BY <2>1, <2>2, <2>3
  <2> QED
    BY <2>1, <2>4 DEF IInv, StreamInv, RecordInv, MessageInv, ArgumentInv
<1>6. CASE ReadLater
  <2>1. kind = "record" /\ kind' = kind /\ input \in [at : Nat, record : Records]
        /\ input' = [input EXCEPT !.at = @ + 1]
    BY <1>6 DEF IInv, RecordInv, ReadLater
  <2>2. input.at + 1 \in Nat
    BY <2>1
  <2>3. input' = [input EXCEPT !.at = input.at + 1]
    BY <2>1
  <2>4. input' \in [at : Nat, record : Records]
    BY <2>1, <2>2, <2>3
  <2> QED
    BY <2>1, <2>4 DEF IInv, StreamInv, RecordInv, MessageInv, ArgumentInv
<1> QED
  BY <1>1, <1>2, <1>3, <1>4, <1>5, <1>6 DEF Next

\* What the invariants about streams and records rest on.
THEOREM InputsInvariantHolds == Spec => []IInv
<1>1. Init => IInv
  <2> SUFFICES ASSUME Init PROVE IInv
    OBVIOUS
  <2>1. StreamInv
    BY InitStream
  <2>2. RecordInv
    BY DEF Init, RecordInv
  <2>3. MessageInv
    BY LogAssumption DEF Init, MessageInv
  <2>4. ArgumentInv
    <3>1. kind \in {"claude", "codex"} => input = <<>>
      BY DEF Init
    <3>2. <<>> \in Seq(Tokens)
      OBVIOUS
    <3> QED
      BY <3>1, <3>2 DEF ArgumentInv
  <2> QED
    BY <2>1, <2>2, <2>3, <2>4 DEF IInv
<1>2. IInv /\ [Next]_vars => IInv'
  BY StepKeeps
<1> QED
  BY <1>1, <1>2, PTL DEF Spec

\* Every viewer has the lines of the log and the last status, whatever its
\* terminal can do.
THEOREM ViewersSeeTheLog == Spec => []ViewIsFaithful
<1>1. IInv => ViewIsFaithful
  BY DEF IInv, StreamInv, ViewIsFaithful, EveryLineIsShown, FooterIsCurrent, IsShown,
         LastStatus, Frames
<1> QED
  BY <1>1, InputsInvariantHolds, PTL

-------------------------------------------------------------------------------
(* What a Codex record says.                                               *)

\* The saturated windows of a record are at most two and each names a reset.
LEMMA ResetsOfTwo ==
  ASSUME NEW record \in Records
  PROVE  \E a, b \in Int \cup {None} : Resets(record) \subseteq {a, b}
<1>1. record.windows = {} \/ \E v, w \in Windows : record.windows = {v, w}
  BY DEF Records
<1>2. CASE record.windows = {}
  BY <1>2 DEF Resets, Saturated
<1>3. CASE \E v, w \in Windows : record.windows = {v, w}
  <2>1. PICK v, w \in Windows : record.windows = {v, w}
    BY <1>3
  <2>2. v.reset \in Int \cup {None} /\ w.reset \in Int \cup {None}
    BY DEF Windows
  <2>3. Resets(record) \subseteq {v.reset, w.reset}
    BY <2>1 DEF Resets, Saturated
  <2> QED
    BY <2>2, <2>3
<1> QED
  BY <1>1, <1>2, <1>3

\* Of the resets the latest is taken.
LEMMA LatestIsLatest ==
  ASSUME NEW record \in Records, None \notin Resets(record), Resets(record) # {}
  PROVE  /\ Latest(Resets(record)) \in Resets(record)
         /\ \A t \in Resets(record) : t \in Int /\ t <= Latest(Resets(record))
<1> DEFINE resets == Resets(record)
<1>1. PICK a, b \in Int \cup {None} : resets \subseteq {a, b}
  BY ResetsOfTwo
<1>2. \A t \in resets : t \in Int /\ (t = a \/ t = b)
  BY <1>1
<1>3. \E t \in resets : \A u \in resets : u <= t
  BY <1>2
<1> HIDE DEF resets
<1>4. Latest(resets) \in resets /\ \A u \in resets : u <= Latest(resets)
  BY <1>3 DEF Latest
<1> QED
  BY <1>2, <1>4 DEF resets

\* An update says what all saturated windows together say.
LEMMA LockedUntilTheLast ==
  ASSUME IInv PROVE LockedUntilAllReset
<1> SUFFICES ASSUME kind = "record", ParseRecord(input.record, input.at) # None
             PROVE  LET update == ParseRecord(input.record, input.at)
                    IN /\ update.target = None <=> Saturated(input.record) = {}
                       /\ \A w \in Saturated(input.record) :
                            input.at < w.reset /\ w.reset <= update.target
  BY DEF LockedUntilAllReset
<1> DEFINE record == input.record
           update == ParseRecord(record, input.at)
<1>1. record \in Records /\ input.at \in Nat
  BY DEF IInv, RecordInv
<1>2. /\ \A t \in Resets(record) : t # None /\ ~(t <= input.at)
      /\ update = [time |-> record.time,
                   target |-> IF Resets(record) = {} THEN None ELSE Latest(Resets(record))]
  BY DEF ParseRecord
<1>3. Resets(record) = {} <=> Saturated(record) = {}
  BY DEF Resets
<1>4. None \notin Resets(record)
  BY <1>2
<1>5. CASE Saturated(record) = {}
  BY <1>2, <1>3, <1>5
<1>6. CASE Saturated(record) # {}
  <2>1. /\ Latest(Resets(record)) \in Resets(record)
        /\ \A t \in Resets(record) : t \in Int /\ t <= Latest(Resets(record))
    BY <1>1, <1>3, <1>4, <1>6, LatestIsLatest
  <2>2. update.target = Latest(Resets(record))
    BY <1>2, <1>3, <1>6
  <2>3. update.target # None
    BY <1>4, <2>1, <2>2
  <2>4. ASSUME NEW w \in Saturated(record)
        PROVE  input.at < w.reset /\ w.reset <= update.target
    <3>1. w.reset \in Resets(record)
      BY DEF Resets
    <3>2. w.reset \in Int /\ ~(w.reset <= input.at) /\ w.reset <= Latest(Resets(record))
      BY <1>2, <2>1, <3>1
    <3> QED
      BY <1>1, <2>2, <3>2
  <2> QED
    BY <1>6, <2>3, <2>4
<1> QED
  BY <1>5, <1>6

\* Rows with one reset are all that a scan can see of a record with one.
LEMMA RowsStand ==
  ASSUME IInv PROVE RowStandsForRecord
<1> DEFINE record == input.record
           resets == Resets(record)
           row == [time |-> record.time, reset |-> IF resets = {} THEN None ELSE Latest(resets)]
<1> SUFFICES ASSUME kind = "record", record.kind = "token_count", record.limits, record.time # None,
                    Cardinality(resets) <= 1, None \notin resets
             PROVE  ParseRecord(record, input.at) = Interpret(row, input.at)
  BY DEF RowStandsForRecord
<1>1. record \in Records /\ input.at \in Nat
  BY DEF IInv, RecordInv
<1>2. Provider # "claude"
  BY CodexAssumption
<1>3. CASE resets = {}
  BY <1>3 DEF ParseRecord, Interpret
<1>4. CASE resets # {}
  <2>1. Latest(resets) \in resets /\ \A t \in resets : t \in Int
    BY <1>1, <1>4, LatestIsLatest
  <2>2. \A t \in resets : t = Latest(resets)
    <3>1. SUFFICES ASSUME NEW t \in resets, t # Latest(resets) PROVE FALSE
      OBVIOUS
    <3>2. IsFiniteSet(resets)
      <4>1. PICK a, b \in Int \cup {None} : resets \subseteq {a, b}
        BY <1>1, ResetsOfTwo
      <4>2. IsFiniteSet({a} \cup {b}) /\ {a} \cup {b} = {a, b}
        BY FS_Singleton, FS_AddElement
      <4> QED
        BY <4>1, <4>2, FS_Subset
    <3>3. Cardinality(resets) \in Nat /\ Cardinality(resets) # 0
      BY <1>4, <3>2, FS_CardinalityType, FS_EmptySet
    <3>4. Cardinality(resets) = 1
      BY <3>3
    <3>5. \E u : resets = {u}
      BY <3>2, <3>4, FS_Singleton
    <3> QED
      BY <2>1, <3>1, <3>5
  <2>3. row.reset = Latest(resets) /\ row.reset # None
    BY <1>4, <2>1, NoneAssumption
  <2>4. CASE Latest(resets) <= input.at
    <3>1. ParseRecord(record, input.at) = None
      BY <2>1, <2>4 DEF ParseRecord
    <3>2. ~(row.reset > input.at)
      BY <1>1, <2>1, <2>3, <2>4
    <3> QED
      BY <1>2, <2>3, <3>1, <3>2 DEF Interpret
  <2>5. CASE ~(Latest(resets) <= input.at)
    <3>1. \A t \in resets : t # None /\ ~(t <= input.at)
      BY <2>2, <2>5
    <3>2. ParseRecord(record, input.at) = [time |-> record.time, target |-> Latest(resets)]
      BY <1>4, <3>1 DEF ParseRecord
    <3>3. row.reset > input.at
      BY <1>1, <2>1, <2>3, <2>5
    <3> QED
      BY <2>3, <3>2, <3>3 DEF Interpret
  <2> QED
    BY <2>4, <2>5
<1> QED
  BY <1>3, <1>4

\* A record is understood as its windows mean it, alone and where the monitor's
\* model has a row for it.
THEOREM RecordsMeanTheirWindows == Spec => []RecordsAreUnderstood
<1>1. IInv => RecordsAreUnderstood
  BY LockedUntilTheLast, RowsStand DEF RecordsAreUnderstood
<1> QED
  BY <1>1, InputsInvariantHolds, PTL

-------------------------------------------------------------------------------
(* The reset a message names.                                              *)

\* The hour of the day.
LEMMA MilHourType ==
  ASSUME NEW m \in Messages
  PROVE  MilHour(m.hour, m.period) \in Nat /\ m.minute \in Nat
<1>1. HalfDay \in Nat /\ HourMinutes \in Nat
  BY CalendarAssumption
<1>2. m.hour \in 0 .. HalfDay + 1 \cup {1, HalfDay} /\ m.minute \in 0 .. HourMinutes \cup {0, 1}
  BY DEF Messages
<1> QED
  BY <1>1, <1>2 DEF MilHour

\* A message without a date.
LEMMA TimeIsNotBefore ==
  ASSUME NEW log \in 0 .. LastLog, NEW m \in Messages, TimeOnly(log, m) # NoTime
  PROVE  /\ TimeOnly(log, m) >= log
              \/ (Back \in log - Day - Hour .. log /\ TimeOnly(log, m) >= log - Hour)
         /\ TimeOnly(log, m) <= log + Day + Hour
<1> DEFINE date == DateOf(log)
           hour == MilHour(m.hour, m.period)
           local == LocalDatetime(date.year, date.month, date.day, hour, m.minute)
           start == DayNumber[date] * Day
           today == IF local = NoTime THEN NoTime ELSE local + Grace
<1>1. date \in Dates /\ start <= Wall(log) /\ Wall(log) < start + Day /\ log \in Nat
  BY LogDay
<1>2. hour \in Nat /\ m.minute \in Nat
  BY MilHourType
<1>3. Day \in Nat \ {0} /\ Hour \in Nat \ {0} /\ Grace \in Nat
  BY Units
<1>4. start \in Nat
  <2>1. DayNumber[date] \in Nat
    BY <1>1, DayNumberOrders
  <2> QED
    BY <1>3, <2>1
<1>5. date = [year |-> date.year, month |-> date.month, day |-> date.day]
  BY <1>1 DEF Dates
<1>6. TimeOnly(log, m) = IF today # NoTime /\ today < log THEN today + Day ELSE today
  BY DEF TimeOnly, Plus
<1> HIDE DEF hour
<1>7. local # NoTime
  BY <1>6
<1>8. \E wall \in Int :
        /\ DayNumber[date] * Day <= wall /\ wall + Grace < DayNumber[date] * Day + Day
        /\ local = Earliest(wall)
  BY <1>2, <1>5, <1>7, LocalDay
<1>9. PICK wall \in Int :
        /\ start <= wall /\ wall + Grace < start + Day
        /\ local = Earliest(wall)
  BY <1>8
<1>10. local \in Int /\ today = local + Grace /\ today \in Int /\ today # NoTime
  BY <1>3, <1>7, <1>9, NoTimeAssumption DEF Earliest
<1> DEFINE target == TimeOnly(log, m)
<1>11. /\ target = IF today < log THEN today + Day ELSE today
       /\ target \in Int
  BY <1>3, <1>6, <1>10
<1>12. today = Earliest(wall) + Grace
  BY <1>9, <1>10
<1> HIDE DEF date, local, start, today, target
<1>13. LET this == Earliest(wall) + Grace
       IN target = IF this < log THEN this + Day ELSE this
  BY <1>11, <1>12
<1>14. /\ target >= log \/ (Back \in log - Day - Hour .. log /\ target >= log - Hour)
       /\ target <= log + Day + Hour
  BY <1>1, <1>4, <1>9, <1>11, <1>13, NotBeforeByTime
<1> QED
  BY <1>14 DEF target

\* A message with a date.
LEMMA DateIsNotBefore ==
  ASSUME NEW log \in 0 .. LastLog, NEW m \in Messages, Dated(log, m) # NoTime
  PROVE  \/ Dated(log, m) >= log
         \/ /\ Back \in log - Day - Hour .. log /\ Dated(log, m) >= log - Hour
            /\ DateOf(log + Hour).year # DateOf(log).year
<1> DEFINE hour == MilHour(m.hour, m.period)
           Local(year) == LocalDatetime(year, m.month, m.day, hour, m.minute)
           In(year) == IF Local(year) = NoTime THEN NoTime ELSE Local(year) + Grace
           year == DateOf(log).year
           next == year + 1
           target == Dated(log, m)
<1>1. /\ DateOf(log) \in Dates /\ Wall(log) < DayNumber[DateOf(log)] * Day + Day /\ log \in Nat
      /\ Wall(log) \in Nat
  BY LogDay
<1>2. hour \in Nat /\ m.minute \in Nat
  BY MilHourType
<1>3. Day \in Nat \ {0} /\ Hour \in Nat \ {0} /\ Grace \in Nat /\ Hour <= Day
  BY Units
<1>4. target = IF In(year) # NoTime /\ In(year) < log THEN In(next) ELSE In(year)
  BY DEF Dated, Plus
<1> HIDE DEF hour
<1>5. ASSUME NEW y, Local(y) # NoTime
      PROVE  LET date == [year |-> y, month |-> m.month, day |-> m.day]
             IN /\ date \in Dates
                /\ \E wall \in Int :
                     /\ DayNumber[date] * Day <= wall /\ wall + Grace < DayNumber[date] * Day + Day
                     /\ Local(y) = Earliest(wall)
  BY <1>2, <1>5, LocalDay
<1>6. ASSUME NEW y, In(y) # NoTime
      PROVE  In(y) \in Int
  <2>1. Local(y) # NoTime
    BY <1>6
  <2>2. Local(y) \in Int
    <3>1. PICK wall \in Int : Local(y) = Earliest(wall)
      BY <1>5, <2>1
    <3> HIDE DEF Local
    <3> QED
      BY <1>3, <3>1 DEF Earliest
  <2> HIDE DEF Local
  <2> QED
    BY <1>3, <2>1, <2>2
<1>7. CASE ~(In(year) # NoTime /\ In(year) < log)
  <2>1. target = In(year) /\ In(year) # NoTime
    BY <1>4, <1>7
  <2>2. In(year) \in Int /\ ~(In(year) < log)
    BY <1>6, <1>7, <2>1
  <2> HIDE DEF In, target
  <2>3. target >= log
    BY <1>1, <2>1, <2>2
  <2> QED
    BY <2>3 DEF target
<1>8. CASE In(year) # NoTime /\ In(year) < log
  <2> DEFINE date == [year |-> next, month |-> m.month, day |-> m.day]
             start == DayNumber[date] * Day
  <2>1. target = In(next) /\ In(next) # NoTime /\ Local(next) # NoTime
    BY <1>4, <1>8
  <2>2. date \in Dates
    BY <1>5, <2>1
  <2>3. PICK wall \in Int :
          /\ start <= wall /\ wall + Grace < start + Day
          /\ Local(next) = Earliest(wall)
    BY <1>5, <2>1
  <2>4. target \in Int /\ target = Earliest(wall) + Grace
    BY <1>6, <2>1, <2>3
  <2>5. year \in Int /\ date.year = year + 1
    BY <1>1, CalendarAssumption DEF Dates
  <2>6. /\ DayNumber[date] \in 0 .. Cardinality(Dates) - 1 /\ DayNumber[date] \in Nat
        /\ DayNumber[DateOf(log)] \in Nat
    BY <1>1, <2>2, DayNumberOrders
  <2>7. DayNumber[DateOf(log)] + 1 <= DayNumber[date]
    <3>1. DateOf(log).year < date.year
      BY <2>5
    <3> HIDE DEF date
    <3> QED
      BY <1>1, <2>2, <3>1, LaterYears
  <2>8. start \in Nat /\ Wall(log) < start
    <3> HIDE DEF date
    <3>1. \A a, b \in Nat : a + 1 <= b => a * Day + Day <= b * Day
      BY <1>3
    <3>2. start \in Nat /\ DayNumber[DateOf(log)] * Day \in Nat
      BY <1>3, <2>6
    <3>3. DayNumber[DateOf(log)] * Day + Day <= start
      BY <2>6, <2>7, <3>1
    <3> QED
      BY <1>1, <1>3, <3>2, <3>3
  <2> HIDE DEF date, start, target
  <2>9. \/ target >= log
        \/ /\ Back \in log - Day - Hour .. log /\ target >= log - Hour
           /\ Wall(log + Hour) = log + Hour /\ start <= log + Hour /\ log < start
    BY <1>1, <2>3, <2>4, <2>8, NotBeforeByDate
  <2>10. ASSUME Wall(log + Hour) = log + Hour, start <= log + Hour, log < start
         PROVE  DateOf(log + Hour).year # DateOf(log).year
    <3>1. log + Hour \in Nat /\ log + Hour < start + Day
      BY <1>1, <1>3, <2>8, <2>10
    <3>2. start = DayNumber[date] * Day
      BY DEF start
    <3>3. (log + Hour) \div Day = DayNumber[date]
      <4>1. \A n, x \in Nat, d \in Nat \ {0} : n * d <= x /\ x < n * d + d => x \div d = n
        OBVIOUS
      <4> QED
        BY <1>3, <2>6, <2>10, <3>1, <3>2, <4>1
    <3>4. DateOf(log + Hour) = DateAt[DayNumber[date]]
      BY <2>10, <3>3 DEF DateOf
    <3>5. DateAt[DayNumber[date]] = date
      <4>1. /\ DateAt[DayNumber[date]] \in Dates
            /\ DayNumber[DateAt[DayNumber[date]]] = DayNumber[date]
        BY <2>6, DateAtNumber
      <4> QED
        BY <2>2, <4>1, DayNumberOrders, BeforeOrders
    <3> QED
      BY <2>5, <3>4, <3>5
  <2> QED
    BY <2>9, <2>10 DEF target
<1> QED
  BY <1>7, <1>8

\* The row that reports a limit does not clear it, but for the hour that the
\* clock repeats.
THEOREM ResetsLieAhead == Spec => []ResetIsNotBefore
<1>1. IInv => ResetIsNotBefore
  <2> SUFFICES ASSUME IInv, kind = "message", ParseResetTime(input.log, input.text) # NoTime
               PROVE  ResetIsNotBefore
    BY DEF ResetIsNotBefore
  <2>1. input.log \in 0 .. LastLog /\ input.text \in Messages
    BY DEF IInv, MessageInv
  <2>2. CASE input.text.dated
    <3>1. ParseResetTime(input.log, input.text) = Dated(input.log, input.text)
      BY <2>2 DEF ParseResetTime
    <3> QED
      BY <2>1, <2>2, <3>1, DateIsNotBefore DEF ResetIsNotBefore
  <2>3. CASE ~input.text.dated
    <3>1. ParseResetTime(input.log, input.text) = TimeOnly(input.log, input.text)
      BY <2>3 DEF ParseResetTime
    <3> QED
      BY <2>1, <2>3, <3>1, TimeIsNotBefore DEF ResetIsNotBefore
  <2> QED
    BY <2>2, <2>3
<1> QED
  BY <1>1, InputsInvariantHolds, PTL

-------------------------------------------------------------------------------
(* The next time at which the clock shows what a message names.            *)

\* Named, because the provers take the symbols apart.
Quotient(x, d) == x \div d
Remainder(x, d) == x % d

\* Quotients and remainders.
LEMMA Division ==
  ASSUME NEW d \in Nat \ {0}, NEW x \in Nat
  PROVE  /\ Quotient(x, d) \in Nat /\ Remainder(x, d) \in Nat /\ Remainder(x, d) < d
         /\ x = Quotient(x, d) * d + Remainder(x, d)
<1>1. Quotient(x, d) \in Nat
  BY DEF Quotient
<1>2. Remainder(x, d) \in 0 .. d - 1
  BY DEF Remainder
<1>3. Remainder(x, d) = x - d * Quotient(x, d)
  BY DEF Remainder, Quotient
<1>4. d * Quotient(x, d) = Quotient(x, d) * d /\ Quotient(x, d) * d \in Nat
  BY <1>1
<1> QED
  BY <1>1, <1>2, <1>3, <1>4

\* They are the only ones.
LEMMA DivisionOf ==
  ASSUME NEW d \in Nat \ {0}, NEW q \in Nat, NEW r \in Nat, r < d
  PROVE  Quotient(q * d + r, d) = q /\ Remainder(q * d + r, d) = r
<1>1. Remainder(q * d + r, d) = r
  BY DEF Remainder
<1>2. Quotient(q * d + r, d) = q
  BY DEF Quotient
<1> QED
  BY <1>1, <1>2

\* Two times of the same remainder are a multiple apart.
LEMMA SameTimeOfDay ==
  ASSUME NEW d \in Nat \ {0}, NEW v \in Nat, NEW w \in Nat,
         Remainder(v, d) = Remainder(w, d), v < w
  PROVE  v + d <= w
<1> DEFINE a == Quotient(v, d)
           b == Quotient(w, d)
           r == Remainder(v, d)
<1>1. a \in Nat /\ b \in Nat /\ r \in Nat /\ v = a * d + r /\ w = b * d + r
  BY Division
<1> HIDE DEF a, b, r
<1>2. a + 1 <= b
  BY <1>1
<1>3. \A x, y \in Nat : x + 1 <= y => x * d + d <= y * d
  OBVIOUS
<1>4. a * d \in Nat /\ b * d \in Nat /\ a * d + d <= b * d
  BY <1>1, <1>2, <1>3
<1> QED
  BY <1>1, <1>4

\* What a dial of twelve hours shows.
Dial(wall, m) ==
  LET hour == Quotient(Remainder(wall, Day), Hour)
  IN /\ Remainder(wall, Hour) = m.minute * MinuteTicks
     /\ Remainder(hour, HalfDay) = Remainder(m.hour, HalfDay)
     /\ m.period = IF hour < HalfDay THEN "am" ELSE "pm"

\* The hour of the day and the hour on the dial.
LEMMA DialHour ==
  ASSUME NEW h \in Nat, h < 2 * HalfDay, NEW hour \in 1 .. HalfDay, NEW period \in {"am", "pm"}
  PROVE  /\ MilHour(hour, period) \in Nat /\ MilHour(hour, period) < 2 * HalfDay
         /\ h = MilHour(hour, period) <=>
              Remainder(h, HalfDay) = Remainder(hour, HalfDay) /\ period = IF h < HalfDay THEN "am" ELSE "pm"
<1>1. HalfDay \in Nat \ {0} /\ hour \in Nat /\ hour >= 1 /\ hour <= HalfDay
  BY CalendarAssumption
<1>2. ASSUME NEW r \in Nat, r < HalfDay
      PROVE  Remainder(r, HalfDay) = r /\ Remainder(HalfDay + r, HalfDay) = r
  <2>1. ASSUME NEW q \in Nat, NEW x \in Nat, x = q * HalfDay + r PROVE Remainder(x, HalfDay) = r
    BY <1>1, <1>2, <2>1, DivisionOf
  <2>2. r = 0 * HalfDay + r /\ HalfDay + r = 1 * HalfDay + r /\ HalfDay + r \in Nat
    BY <1>1
  <2>3. Remainder(r, HalfDay) = r
    BY <2>1, <2>2
  <2>4. Remainder(HalfDay + r, HalfDay) = r
    BY <2>1, <2>2
  <2> QED
    BY <2>3, <2>4
<1>3. Remainder(h, HalfDay) = IF h < HalfDay THEN h ELSE h - HalfDay
  <2>1. CASE h < HalfDay
    BY <1>2, <2>1
  <2>2. CASE ~(h < HalfDay)
    <3> DEFINE r == h - HalfDay
    <3>1. r \in Nat /\ r < HalfDay /\ HalfDay + r = h
      BY <1>1, <2>2
    <3> HIDE DEF r
    <3>2. Remainder(HalfDay + r, HalfDay) = r
      BY <1>2, <3>1
    <3> QED
      BY <2>2, <3>1, <3>2 DEF r
  <2> QED
    BY <2>1, <2>2
<1>4. Remainder(hour, HalfDay) = IF hour = HalfDay THEN 0 ELSE hour
  <2>1. CASE hour = HalfDay
    <3>1. Remainder(HalfDay + 0, HalfDay) = 0 /\ HalfDay + 0 = hour
      BY <1>1, <1>2, <2>1
    <3> QED
      BY <2>1, <3>1
  <2>2. CASE hour # HalfDay
    BY <1>1, <1>2, <2>2
  <2> QED
    BY <2>1, <2>2
<1> QED
  BY <1>1, <1>3, <1>4 DEF MilHour

\* The dial shows a message's time at one time of the day.
LEMMA DialTime ==
  ASSUME NEW wall \in Nat, NEW m \in Messages, IsReading(m)
  PROVE  Dial(wall, m) <=>
           Remainder(wall, Day) = MilHour(m.hour, m.period) * Hour + m.minute * MinuteTicks
<1> DEFINE r == Remainder(wall, Day)
           h == Quotient(r, Hour)
           s == Remainder(r, Hour)
           days == Quotient(wall, Day)
           hour == MilHour(m.hour, m.period)
           minutes == m.minute * MinuteTicks
<1>1. /\ Hour \in Nat \ {0} /\ Day \in Nat \ {0} /\ HalfDay \in Nat \ {0}
      /\ HourMinutes \in Nat \ {0} /\ MinuteTicks \in Nat \ {0} /\ Day = (2 * HalfDay) * Hour
  BY Units, CalendarAssumption DEF Day
<1>2. m.hour \in 1 .. HalfDay /\ m.period \in {"am", "pm"} /\ m.minute \in Nat /\ m.minute < HourMinutes
  <2>1. m.period \in {"am", "pm"}
    BY DEF Messages
  <2> QED
    BY <2>1, MilHourType DEF IsReading
<1>3. r \in Nat /\ r < Day /\ days \in Nat /\ wall = days * Day + r
  BY <1>1, Division
<1>4. h \in Nat /\ s \in Nat /\ s < Hour /\ r = h * Hour + s
  BY <1>1, <1>3, Division
<1>5. Remainder(wall, Hour) = s
  <2> DEFINE q == days
  <2>1. q \in Nat /\ wall = q * ((2 * HalfDay) * Hour) + (h * Hour + s)
    BY <1>1, <1>3, <1>4
  <2> HIDE DEF q, h, s
  <2>2. \A a, b, c, e \in Nat : a * (b * c) + e * c = (a * b + e) * c
    OBVIOUS
  <2>3. q * (2 * HalfDay) + h \in Nat /\ 2 * HalfDay \in Nat
    BY <1>1, <1>4, <2>1
  <2>4. wall = (q * (2 * HalfDay) + h) * Hour + s
    <3>1. q * ((2 * HalfDay) * Hour) \in Nat /\ h * Hour \in Nat
      BY <1>1, <1>4, <2>1, <2>3
    <3>2. q * ((2 * HalfDay) * Hour) + h * Hour = (q * (2 * HalfDay) + h) * Hour
      BY <1>1, <1>4, <2>1, <2>2, <2>3
    <3> QED
      BY <1>4, <2>1, <3>1, <3>2
  <2> QED
    BY <1>1, <1>4, <2>3, <2>4, DivisionOf
<1>6. h < 2 * HalfDay
  <2> HIDE DEF h, s
  <2>1. \A a, b \in Nat, c \in Nat \ {0} : a * c < b * c => a < b
    OBVIOUS
  <2>2. h * Hour \in Nat /\ 2 * HalfDay \in Nat
    BY <1>1, <1>4
  <2>3. h * Hour < (2 * HalfDay) * Hour
    BY <1>1, <1>3, <1>4, <2>2
  <2> QED
    BY <1>1, <1>4, <2>1, <2>2, <2>3
<1>7. minutes \in Nat /\ minutes < Hour
  <2>1. \A a, b, c \in Nat : a + 1 <= b => a * c + c <= b * c
    OBVIOUS
  <2>2. minutes + MinuteTicks <= HourMinutes * MinuteTicks /\ minutes \in Nat
    BY <1>1, <1>2, <2>1
  <2> QED
    BY <1>1, <2>2 DEF Hour
<1>8. /\ hour \in Nat
      /\ h = hour <=> Remainder(h, HalfDay) = Remainder(m.hour, HalfDay) /\ m.period = IF h < HalfDay THEN "am" ELSE "pm"
  BY <1>2, <1>4, <1>6, DialHour
<1>9. Dial(wall, m) <=> s = minutes /\ h = hour
  BY <1>5, <1>8 DEF Dial
<1> HIDE DEF h, s, hour, minutes, r
<1>10. ASSUME r = hour * Hour + minutes PROVE s = minutes /\ h = hour
  <2>1. Quotient(hour * Hour + minutes, Hour) = hour /\ Remainder(hour * Hour + minutes, Hour) = minutes
    BY <1>1, <1>7, <1>8, DivisionOf
  <2> QED
    BY <1>10, <2>1 DEF h, s
<1>11. Dial(wall, m) <=> r = hour * Hour + minutes
  BY <1>4, <1>9, <1>10
<1> QED
  BY <1>11 DEF r, hour, minutes

\* The moment of the day that a message names.
Moment(m) == MilHour(m.hour, m.period) * Hour + m.minute * MinuteTicks

\* It is a moment of the day, the grace included.
LEMMA MomentType ==
  ASSUME NEW m \in Messages, IsReading(m)
  PROVE  Moment(m) \in Nat /\ Moment(m) + Grace < Day
<1>1. m.hour \in 1 .. HalfDay /\ m.minute \in Nat /\ m.minute < HourMinutes
  BY MilHourType DEF IsReading
<1>2. m.period \in {"am", "pm"}
  BY DEF Messages
<1>3. 0 \in Nat /\ 0 < 2 * HalfDay
  BY CalendarAssumption
<1>4. MilHour(m.hour, m.period) \in Nat /\ MilHour(m.hour, m.period) < 2 * HalfDay
  BY <1>1, <1>2, <1>3, DialHour
<1> QED
  BY <1>1, <1>4, TimeOfDay DEF Moment

\* What local_datetime makes of a message's time on a day, if there is the day.
LEMMA LocalMoment ==
  ASSUME NEW m \in Messages, IsReading(m), NEW year, NEW month, NEW day
  PROVE  LET date == [year |-> year, month |-> month, day |-> day]
         IN LocalDatetime(year, month, day, MilHour(m.hour, m.period), m.minute) =
              IF date \in Dates THEN Earliest(DayNumber[date] * Day + Moment(m)) ELSE NoTime
<1> DEFINE date == [year |-> year, month |-> month, day |-> day]
           hour == MilHour(m.hour, m.period)
<1>1. m.hour \in 1 .. HalfDay /\ m.minute \in Nat /\ m.minute < HourMinutes
  BY MilHourType DEF IsReading
<1>2. m.period \in {"am", "pm"}
  BY DEF Messages
<1>3. 0 \in Nat /\ 0 < 2 * HalfDay
  BY CalendarAssumption
<1>4. hour \in Nat /\ hour < 2 * HalfDay
  BY <1>1, <1>2, <1>3, DialHour
<1> HIDE DEF hour
<1>5. CASE date \in Dates
  <2>1. LocalDatetime(year, month, day, hour, m.minute) =
          FromLocal(DayNumber[date] * Day + hour * Hour + m.minute * MinuteTicks)
    BY <1>1, <1>4, <1>5 DEF LocalDatetime
  <2>2. DayNumber[date] * Day \in Nat /\ hour * Hour \in Nat /\ m.minute * MinuteTicks \in Nat
    BY <1>1, <1>4, <1>5, DayNumberOrders, Units, CalendarAssumption
  <2>3. Moment(m) = hour * Hour + m.minute * MinuteTicks
    BY DEF Moment, hour
  <2>4. /\ DayNumber[date] * Day + hour * Hour + m.minute * MinuteTicks =
             DayNumber[date] * Day + Moment(m)
        /\ DayNumber[date] * Day + Moment(m) \in Int
    BY <2>2, <2>3
  <2>5. FromLocal(DayNumber[date] * Day + Moment(m)) = Earliest(DayNumber[date] * Day + Moment(m))
    BY <2>4, FromLocalTime
  <2> QED
    BY <1>5, <2>1, <2>4, <2>5 DEF hour
<1>6. CASE date \notin Dates
  BY <1>6 DEF LocalDatetime, hour
<1> QED
  BY <1>5, <1>6

\* Where the clock is still it is ahead all the time, or never.
LEMMA StillClock ==
  ASSUME NEW from \in Int, NEW to \in Int, ClockIsStill(from, to)
  PROVE  \E ahead \in {0, Hour} :
           \A t \in Int : from - Day - Hour <= t /\ t <= to + Day + Hour => Wall(t) = t + ahead
<1>1. /\ Hour \in Nat \ {0} /\ Day \in Nat \ {0} /\ Forward \in Int /\ Back \in Int
  BY Units
<1> DEFINE low == from - Day - Hour
           high == to + Day + Hour
           ahead == IF Forward < low /\ high < Back THEN Hour ELSE 0
<1>2. low \in Int /\ high \in Int /\ (Forward < low \/ high < Forward) /\ (Back < low \/ high < Back)
  BY <1>1 DEF ClockIsStill
<1> HIDE DEF low, high
<1>3. ASSUME NEW t \in Int, low <= t, t <= high PROVE Wall(t) = t + ahead
  BY <1>1, <1>2, <1>3 DEF Wall
<1>4. ahead \in {0, Hour}
  OBVIOUS
<1> QED
  BY <1>3, <1>4 DEF low, high

\* A time that the clock does not skip is shown.
LEMMA EarliestShows ==
  ASSUME NEW wall \in Int, ~(wall - Hour < Forward /\ Forward <= wall)
  PROVE  /\ Earliest(wall) \in Int /\ Wall(Earliest(wall)) = wall
         /\ wall >= 0 => Earliest(wall) >= 0
<1>1. Hour \in Nat \ {0} /\ Forward \in Nat /\ Back \in Int
  BY Units, CalendarAssumption
<1>2. CASE Summer(wall - Hour)
  BY <1>1, <1>2 DEF Earliest, Wall, Summer
<1>3. CASE ~Summer(wall - Hour)
  BY <1>1, <1>3 DEF Earliest, Wall, Summer
<1> QED
  BY <1>2, <1>3

\* An instant at which the clock does not repeat is the first with its time.
LEMMA EarliestOf ==
  ASSUME NEW t \in Int, ~(t - Hour < Back /\ Back <= t)
  PROVE  Earliest(Wall(t)) = t
<1>1. Hour \in Nat \ {0} /\ Forward \in Int /\ Back \in Int
  BY Units
<1>2. CASE Summer(t)
  BY <1>1, <1>2 DEF Earliest, Wall, Summer
<1>3. CASE ~Summer(t)
  BY <1>1, <1>3 DEF Earliest, Wall, Summer
<1> QED
  BY <1>2, <1>3

\* The day of a time within the calendar.
LEMMA DayOf ==
  ASSUME NEW t \in Int, Wall(t) \in Nat, Wall(t) < Cardinality(Dates) * Day
  PROVE  /\ DateOf(t) \in Dates
         /\ DayNumber[DateOf(t)] \in Nat /\ DayNumber[DateOf(t)] = Quotient(Wall(t), Day)
         /\ Wall(t) = DayNumber[DateOf(t)] * Day + Remainder(Wall(t), Day)
<1> DEFINE n == Quotient(Wall(t), Day)
           r == Remainder(Wall(t), Day)
<1>1. Day \in Nat \ {0} /\ Cardinality(Dates) \in Nat
  BY Units, DayNumberOrders
<1>2. n \in Nat /\ r \in Nat /\ Wall(t) = n * Day + r
  BY <1>1, Division
<1>3. DateOf(t) = DateAt[n]
  BY DEF DateOf, Quotient
<1> HIDE DEF n, r
<1>4. n < Cardinality(Dates)
  <2>1. \A a, b \in Nat, c \in Nat \ {0} : a * c < b * c => a < b
    OBVIOUS
  <2>2. n * Day \in Nat /\ Cardinality(Dates) * Day \in Nat
    BY <1>1, <1>2
  <2>3. n * Day < Cardinality(Dates) * Day
    BY <1>2, <2>2
  <2> QED
    BY <1>1, <1>2, <2>1, <2>3
<1>5. n \in 0 .. Cardinality(Dates) - 1
  BY <1>1, <1>2, <1>4
<1>6. DateAt[n] \in Dates /\ DayNumber[DateAt[n]] = n
  BY <1>5, DateAtNumber
<1> QED
  BY <1>2, <1>3, <1>6 DEF n, r

\* The clock shows what the message names first at this instant.
IsNext(first, log, m) ==
  /\ first \in Nat /\ log - Grace <= first /\ first < Cardinality(Dates) * Day
  /\ Shows(first, m)
  /\ \A t \in Nat : log - Grace <= t /\ t < first => ~Shows(t, m)

\* What the clock shows is what its dial shows, and the date.
LEMMA ShowsDial ==
  ASSUME NEW t \in Int, Wall(t) \in Nat, NEW m \in Messages, IsReading(m)
  PROVE  Shows(t, m) <=>
           /\ Remainder(Wall(t), Day) = Moment(m)
           /\ m.dated => DateOf(t).month = m.month /\ DateOf(t).day = m.day
<1>1. Dial(Wall(t), m) <=> Remainder(Wall(t), Day) = Moment(m)
  BY DialTime DEF Moment
<1>2. Shows(t, m) <=>
        /\ Dial(Wall(t), m)
        /\ m.dated => DateOf(t).month = m.month /\ DateOf(t).day = m.day
  BY DEF Shows, Dial, Quotient, Remainder
<1> QED
  BY <1>1, <1>2

\* Where the clock is still, a reset lies at or after the message.
LEMMA StillNotBefore ==
  ASSUME NEW log \in Nat, NEW target \in Int, ClockIsStill(log, target),
         target >= log \/ (Back \in log - Day - Hour .. log /\ target >= log - Hour)
  PROVE  target >= log
<1>1. Hour \in Nat /\ Day \in Nat /\ Back \in Int
  BY Units
<1>2. Back \notin log - Day - Hour .. target + Day + Hour
  BY DEF ClockIsStill
<1> QED
  BY <1>1, <1>2

\* A time of day is the next one.
LEMMA NextByTime ==
  ASSUME NEW log \in 0 .. LastLog, NEW m \in Messages, IsReading(m), ~m.dated
  PROVE  /\ TimeOnly(log, m) # NoTime /\ TimeOnly(log, m) \in Int
         /\ ClockIsStill(log, TimeOnly(log, m)) => IsNext(TimeOnly(log, m) - Grace, log, m)
<1> DEFINE date == DateOf(log)
           n == DayNumber[date]
           start == n * Day
           off == Moment(m)
           wall == start + off
           local == Earliest(wall)
           target == TimeOnly(log, m)
           first == target - Grace
<1>1. /\ date \in Dates /\ start <= Wall(log) /\ Wall(log) < start + Day /\ log \in Nat
      /\ Wall(log) \in Nat
  BY LogDay
<1>2. /\ Day \in Nat \ {0} /\ Hour \in Nat \ {0} /\ Grace \in Nat /\ Hour <= Day
      /\ Forward \in Int /\ Back \in Int
  BY Units
<1>3. off \in Nat /\ off + Grace < Day
  BY MomentType
<1>4. n \in Nat /\ start \in Nat
  BY <1>1, <1>2, DayNumberOrders
<1>5. wall \in Nat /\ start <= wall /\ wall + Grace < start + Day
  BY <1>2, <1>3, <1>4
<1>6. local \in Int /\ local <= wall /\ wall - Hour <= local
  BY <1>2, <1>5 DEF Earliest
<1>7. target = IF local + Grace < log THEN local + Grace + Day ELSE local + Grace
  <2>1. date = [year |-> date.year, month |-> date.month, day |-> date.day]
    BY <1>1 DEF Dates
  <2>2. LocalDatetime(date.year, date.month, date.day, MilHour(m.hour, m.period), m.minute) = local
    BY <1>1, <2>1, LocalMoment
  <2> HIDE DEF local
  <2>3. local # NoTime /\ local + Grace # NoTime
    BY <1>2, <1>6, NoTimeAssumption
  <2> HIDE DEF date
  <2> QED
    BY <2>2, <2>3 DEF TimeOnly, Plus, date
<1>8. target \in Int /\ target # NoTime
  <2> HIDE DEF local, target
  <2> QED
    BY <1>1, <1>2, <1>6, <1>7, NoTimeAssumption
<1>9. ASSUME ClockIsStill(log, target) PROVE IsNext(first, log, m)
  <2>1. target >= log /\ target <= log + Day + Hour
    <3>1. /\ target >= log \/ (Back \in log - Day - Hour .. log /\ target >= log - Hour)
          /\ target <= log + Day + Hour
      BY <1>8, TimeIsNotBefore
    <3> HIDE DEF target
    <3> QED
      BY <1>1, <1>8, <1>9, <3>1, StillNotBefore
  <2>2. PICK ahead \in {0, Hour} :
          \A t \in Int : log - Day - Hour <= t /\ t <= target + Day + Hour => Wall(t) = t + ahead
    BY <1>1, <1>8, <1>9, StillClock
  <2>3. Forward \notin log - Day - Hour .. target + Day + Hour
    BY <1>9 DEF ClockIsStill
  <2> HIDE DEF date, n, start, off, target
  <2>4. Wall(log) = log + ahead /\ ahead \in Nat /\ ahead <= Hour
    BY <1>1, <1>2, <1>8, <2>1, <2>2
  <2>5. log - Day - Hour <= local /\ local <= target + Day + Hour
    <3> HIDE DEF local, wall
    <3> QED
      BY <1>1, <1>2, <1>4, <1>5, <1>6, <1>7, <1>8, <2>1, <2>4
  <2>6. Wall(local) = wall /\ local \in Nat
    <3>1. ~(wall - Hour < Forward /\ Forward <= wall)
      <4>1. SUFFICES ASSUME wall - Hour < Forward, Forward <= wall PROVE FALSE
        OBVIOUS
      <4>2. local = wall
        BY <1>2, <1>5, <4>1 DEF Earliest, Summer
      <4> HIDE DEF local, wall
      <4>3. log - Day - Hour <= Forward /\ Forward <= target + Day + Hour
        BY <1>1, <1>2, <1>4, <1>5, <1>7, <1>8, <2>4, <4>1, <4>2
      <4> QED
        BY <1>2, <2>3, <4>3
    <3>2. wall \in Int /\ wall >= 0
      BY <1>5
    <3> HIDE DEF wall
    <3> QED
      BY <3>1, <3>2, EarliestShows
  <2>7. wall = local + ahead
    BY <1>6, <2>2, <2>5, <2>6
  <2>8. /\ first \in Nat /\ log - Grace <= first /\ first <= target
        /\ first = IF local + Grace < log THEN local + Day ELSE local
    <3> HIDE DEF local
    <3> QED
      BY <1>1, <1>2, <1>7, <1>8, <2>1, <2>6
  <2>9. first < Cardinality(Dates) * Day
    <3>1. /\ LastLog \in Nat /\ LastLog + Day + Hour < Cardinality(Dates) * Day /\ log <= LastLog
          /\ Cardinality(Dates) * Day \in Nat
      BY <1>2, LogAssumption, DayNumberOrders
    <3>2. Cardinality(Dates) * Day \in Int /\ first <= log + Day + Hour
      BY <1>1, <1>2, <1>8, <2>1, <2>8, <3>1
    <3> HIDE DEF first
    <3> QED
      BY <1>1, <1>2, <2>8, <3>1, <3>2
  <2> HIDE DEF first
  <2>10. Wall(first) = first + ahead
    <3>1. first \in Int /\ log - Day - Hour <= first /\ first <= target + Day + Hour
      <4>1. Grace <= Day
        BY <1>2, <1>3
      <4> QED
        BY <1>1, <1>2, <1>8, <2>8, <4>1
    <3> QED
      BY <2>2, <3>1
  <2>11. Wall(first) \in Nat /\ Remainder(Wall(first), Day) = off
    <3>1. ASSUME NEW q \in Nat, NEW x \in Nat, x = q * Day + off PROVE Remainder(x, Day) = off
      <4>1. off < Day
        BY <1>2, <1>3
      <4> QED
        BY <1>2, <1>3, <3>1, <4>1, DivisionOf
    <3>2. wall = n * Day + off /\ wall + Day = (n + 1) * Day + off /\ n + 1 \in Nat
      BY <1>2, <1>3, <1>4 DEF start
    <3>3. Wall(first) \in Nat /\ (Wall(first) = wall \/ Wall(first) = wall + Day)
      <4> HIDE DEF local, wall
      <4> QED
        BY <1>2, <1>5, <2>4, <2>6, <2>7, <2>8, <2>10
    <3> HIDE DEF wall
    <3> QED
      BY <1>2, <1>4, <1>5, <3>1, <3>2, <3>3
  <2>12. Shows(first, m)
    BY <2>8, <2>11, ShowsDial DEF off
  <2>13. ASSUME NEW t \in Nat, log - Grace <= t, t < first, Shows(t, m) PROVE FALSE
    <3>1. Wall(t) = t + ahead /\ Wall(t) \in Nat
      <4>1. Grace <= Day
        BY <1>2, <1>3
      <4>2. t \in Int /\ log - Day - Hour <= t /\ t <= target + Day + Hour
        BY <1>1, <1>2, <1>8, <2>8, <2>13, <4>1
      <4>3. Wall(t) = t + ahead
        BY <2>2, <4>2
      <4> QED
        BY <2>4, <4>3
    <3>2. Remainder(Wall(t), Day) = off
      BY <2>13, <3>1, ShowsDial DEF off
    <3>3. Wall(t) + Day <= Wall(first)
      <4>1. Wall(t) < Wall(first)
        BY <2>4, <2>8, <2>10, <2>13, <3>1
      <4> QED
        BY <1>2, <2>11, <3>1, <3>2, <4>1, SameTimeOfDay
    <3>4. t + Day <= first
      BY <1>2, <2>4, <2>8, <2>10, <3>1, <3>3
    <3>5. CASE local + Grace < log
      <4> HIDE DEF local
      <4> QED
        BY <1>1, <1>2, <2>6, <2>8, <2>13, <3>4, <3>5
    <3>6. CASE ~(local + Grace < log)
      <4> HIDE DEF local, wall
      <4>1. wall + Grace < log + ahead + Day
        BY <1>1, <1>2, <1>4, <1>5, <2>4
      <4> QED
        BY <1>1, <1>2, <1>5, <2>4, <2>6, <2>7, <2>8, <2>13, <3>4, <3>6, <4>1
    <3> QED
      BY <3>5, <3>6
  <2> QED
    BY <2>8, <2>9, <2>12, <2>13 DEF IsNext
<1> QED
  BY <1>8, <1>9

\* The date in a year.
In(year, m) == [year |-> year, month |-> m.month, day |-> m.day]

\* The reset on a date.
ResetOn(date, m) == Earliest(DayNumber[date] * Day + Moment(m)) + Grace

\* A date is meant for the year of the message or, if it has passed, the next.
LEMMA DatedYear ==
  ASSUME NEW log \in 0 .. LastLog, NEW m \in Messages, IsReading(m), Dated(log, m) # NoTime
  PROVE  \E y \in {DateOf(log).year, DateOf(log).year + 1} :
           /\ In(y, m) \in Dates /\ Dated(log, m) = ResetOn(In(y, m), m)
           /\ y # DateOf(log).year /\ In(DateOf(log).year, m) \in Dates =>
                ResetOn(In(DateOf(log).year, m), m) < log
<1> DEFINE year == DateOf(log).year
           Local(y) == LocalDatetime(y, m.month, m.day, MilHour(m.hour, m.period), m.minute)
           Meant(y) == Plus(Local(y), Grace)
<1>1. ASSUME NEW y
      PROVE  Meant(y) = IF In(y, m) \in Dates THEN ResetOn(In(y, m), m) ELSE NoTime
  <2>1. Local(y) = IF In(y, m) \in Dates THEN Earliest(DayNumber[In(y, m)] * Day + Moment(m)) ELSE NoTime
    BY LocalMoment DEF In
  <2>2. CASE In(y, m) \in Dates
    <3>1. DayNumber[In(y, m)] * Day + Moment(m) \in Int /\ Hour \in Int
      BY <2>2, DayNumberOrders, Units, MomentType
    <3>2. Earliest(DayNumber[In(y, m)] * Day + Moment(m)) \in Int
      BY <3>1 DEF Earliest
    <3>3. Local(y) = Earliest(DayNumber[In(y, m)] * Day + Moment(m)) /\ Local(y) # NoTime
      BY <2>1, <2>2, <3>2, NoTimeAssumption
    <3> QED
      BY <2>2, <3>3 DEF Plus, ResetOn
  <2>3. CASE In(y, m) \notin Dates
    BY <2>1, <2>3 DEF Plus
  <2> QED
    BY <2>2, <2>3
<1>2. Dated(log, m) =
        IF m.month \notin Months THEN NoTime
        ELSE IF Meant(year) # NoTime /\ Meant(year) < log THEN Meant(year + 1) ELSE Meant(year)
  BY DEF Dated
<1> HIDE DEF Meant, year
<1>3. CASE Meant(year) # NoTime /\ Meant(year) < log
  <2>1. Dated(log, m) = Meant(year + 1) /\ In(year, m) \in Dates /\ In(year + 1, m) \in Dates
    BY <1>1, <1>2, <1>3
  <2>2. ResetOn(In(year, m), m) < log /\ Dated(log, m) = ResetOn(In(year + 1, m), m)
    BY <1>1, <1>3, <2>1
  <2> QED
    BY <2>1, <2>2 DEF year
<1>4. CASE ~(Meant(year) # NoTime /\ Meant(year) < log)
  <2>1. Dated(log, m) = Meant(year) /\ In(year, m) \in Dates
    BY <1>1, <1>2, <1>4
  <2> QED
    BY <1>1, <2>1 DEF year
<1> QED
  BY <1>3, <1>4

\* A date is the next one.
LEMMA NextByDate ==
  ASSUME NEW log \in 0 .. LastLog, NEW m \in Messages, IsReading(m), m.dated,
         Dated(log, m) # NoTime
  PROVE  /\ Dated(log, m) \in Int
         /\ ClockIsStill(log, Dated(log, m)) => IsNext(Dated(log, m) - Grace, log, m)
<1> DEFINE today == DateOf(log)
           year == today.year
<1>1. PICK y \in {year, year + 1} :
        /\ In(y, m) \in Dates /\ Dated(log, m) = ResetOn(In(y, m), m)
        /\ y # year /\ In(year, m) \in Dates => ResetOn(In(year, m), m) < log
  BY DatedYear
<1> DEFINE date == In(y, m)
           n == DayNumber[date]
           start == n * Day
           off == Moment(m)
           wall == start + off
           local == Earliest(wall)
           target == Dated(log, m)
           first == target - Grace
<1>2. /\ today \in Dates /\ DayNumber[today] * Day <= Wall(log) /\ log \in Nat
      /\ Wall(log) \in Nat /\ date \in Dates
  BY <1>1, LogDay
<1>3. /\ Day \in Nat \ {0} /\ Hour \in Nat \ {0} /\ Grace \in Nat /\ Hour <= Day
      /\ Forward \in Int /\ Back \in Int
  BY Units
<1>4. off \in Nat /\ off + Grace < Day
  BY MomentType
<1>5. n \in 0 .. Cardinality(Dates) - 1 /\ n \in Nat /\ start \in Nat /\ Cardinality(Dates) \in Nat
  BY <1>2, <1>3, DayNumberOrders
<1>6. wall \in Nat /\ start <= wall /\ wall < start + Day
  BY <1>3, <1>4, <1>5
<1>7. local \in Int /\ local <= wall /\ wall - Hour <= local
  BY <1>3, <1>6 DEF Earliest
<1>8. target = local + Grace /\ target \in Int /\ first = local
  <2>1. target = local + Grace
    BY <1>1 DEF ResetOn
  <2> HIDE DEF local, target
  <2> QED
    BY <1>3, <1>7, <2>1
<1>9. y \in Int /\ year \in Int /\ year <= y /\ y <= year + 1 /\ date.year = y
  <2>1. year \in Int
    BY <1>2, CalendarAssumption DEF Dates
  <2> QED
    BY <1>1, <2>1 DEF In
<1>10. start + Day <= Cardinality(Dates) * Day /\ Cardinality(Dates) * Day \in Nat
  <2>1. \A a, b \in Nat : a + 1 <= b => a * Day + Day <= b * Day
    BY <1>3
  <2>2. n + 1 <= Cardinality(Dates)
    BY <1>5
  <2> QED
    BY <1>3, <1>5, <2>1, <2>2
<1>11. ASSUME ClockIsStill(log, target) PROVE IsNext(first, log, m)
  <2>1. target >= log
    <3>1. target >= log \/ (Back \in log - Day - Hour .. log /\ target >= log - Hour)
      BY DateIsNotBefore
    <3> HIDE DEF target
    <3> QED
      BY <1>2, <1>8, <1>11, <3>1, StillNotBefore
  <2>2. PICK ahead \in {0, Hour} :
          \A t \in Int : log - Day - Hour <= t /\ t <= target + Day + Hour => Wall(t) = t + ahead
    BY <1>2, <1>8, <1>11, StillClock
  <2>3. \A change \in {Forward, Back} : ~(log - Day - Hour <= change /\ change <= target + Day + Hour)
    <3> HIDE DEF target
    <3> QED
      BY <1>2, <1>3, <1>8, <1>11 DEF ClockIsStill
  <2> HIDE DEF date, n, start, off, target
  <2>4. Wall(log) = log + ahead /\ ahead \in Nat /\ ahead <= Hour
    BY <1>2, <1>3, <1>8, <2>1, <2>2
  <2>5. Grace <= Day
    BY <1>3, <1>4
  <2>6. Wall(local) = wall /\ local \in Nat
    <3>1. ~(wall - Hour < Forward /\ Forward <= wall)
      <4> HIDE DEF local, wall
      <4> QED
        BY <1>2, <1>3, <1>6, <1>7, <1>8, <2>1, <2>3, <2>5
    <3>2. wall \in Int /\ wall >= 0
      BY <1>6
    <3> HIDE DEF wall
    <3> QED
      BY <3>1, <3>2, EarliestShows
  <2> HIDE DEF local, wall
  <2>7. first \in Nat /\ log - Grace <= first /\ first <= target /\ first < Cardinality(Dates) * Day
    BY <1>2, <1>3, <1>5, <1>6, <1>7, <1>8, <1>10, <2>1, <2>6
  <2>8. Wall(first) = wall /\ wall = first + ahead
    <3>1. log - Day - Hour <= first /\ first <= target + Day + Hour /\ first \in Int
      BY <1>2, <1>3, <1>8, <2>5, <2>7
    <3> QED
      BY <1>8, <2>2, <2>6, <3>1
  <2>9. wall < Cardinality(Dates) * Day
    BY <1>3, <1>5, <1>6, <1>10
  <2>10. ASSUME NEW t \in Nat, Wall(t) \in Nat, Wall(t) < Cardinality(Dates) * Day
         PROVE  /\ DateOf(t) \in Dates /\ DayNumber[DateOf(t)] \in Nat
                /\ Wall(t) = DayNumber[DateOf(t)] * Day + Remainder(Wall(t), Day)
                /\ DayNumber[DateOf(t)] = Quotient(Wall(t), Day)
                /\ \A e \in Dates : DayNumber[e] = DayNumber[DateOf(t)] => e = DateOf(t)
    <3>1. /\ DateOf(t) \in Dates
          /\ DayNumber[DateOf(t)] \in Nat /\ DayNumber[DateOf(t)] = Quotient(Wall(t), Day)
          /\ Wall(t) = DayNumber[DateOf(t)] * Day + Remainder(Wall(t), Day)
      BY <2>10, DayOf
    <3>2. \A e \in Dates : DayNumber[e] = DayNumber[DateOf(t)] => e = DateOf(t)
      BY <3>1, DayNumberOrders, BeforeOrders
    <3> QED
      BY <3>1, <3>2
  <2>11. Quotient(wall, Day) = n /\ Remainder(wall, Day) = off
    <3>1. wall = n * Day + off /\ off < Day
      BY <1>3, <1>4 DEF start, wall
    <3> QED
      BY <1>3, <1>4, <1>5, <3>1, DivisionOf
  <2> HIDE DEF first, today
  <2>12. DateOf(first) = date
    BY <1>2, <1>6, <2>7, <2>8, <2>9, <2>10, <2>11 DEF n
  <2>13. Shows(first, m)
    <3>1. Wall(first) \in Nat /\ first \in Int /\ Remainder(Wall(first), Day) = Moment(m)
      BY <1>6, <2>7, <2>8, <2>11 DEF off
    <3>2. DateOf(first).month = m.month /\ DateOf(first).day = m.day
      BY <2>12 DEF date, In
    <3> QED
      BY <3>1, <3>2, ShowsDial
  <2>14. ASSUME NEW t \in Nat, log - Grace <= t, t < first, Shows(t, m) PROVE FALSE
    <3> DEFINE e == DateOf(t)
               k == DayNumber[e]
    <3>1. t \in Int /\ Wall(t) = t + ahead /\ Wall(t) \in Nat /\ Wall(t) < wall
      <4>1. t \in Int /\ log - Day - Hour <= t /\ t <= target + Day + Hour
        BY <1>2, <1>3, <1>8, <2>5, <2>7, <2>14
      <4>2. Wall(t) = t + ahead
        BY <2>2, <4>1
      <4> QED
        BY <2>4, <2>7, <2>8, <2>14, <4>1, <4>2
    <3>2. Remainder(Wall(t), Day) = off /\ e.month = m.month /\ e.day = m.day
      BY <2>14, <3>1, ShowsDial DEF off
    <3>3. Wall(t) < Cardinality(Dates) * Day
      BY <1>6, <1>10, <2>9, <3>1
    <3>4. /\ e \in Dates /\ k \in Nat /\ Wall(t) = k * Day + off
      BY <2>10, <3>1, <3>2, <3>3
    <3>5. e = In(e.year, m) /\ e.year \in Int
      BY <3>2, <3>4, CalendarAssumption DEF Dates, In
    <3> HIDE DEF e
    <3>6. k * Day \in Nat /\ \A a, b \in Nat : a + 1 <= b => a * Day + Day <= b * Day
      BY <1>3, <3>4
    <3>7. CASE e.year < year
      <4>1. DayNumber[today] \in Nat /\ k + 1 <= DayNumber[today]
        BY <1>2, <3>4, <3>7, LaterYears, DayNumberOrders
      <4>2. k * Day + Day <= DayNumber[today] * Day /\ DayNumber[today] * Day \in Nat
        BY <1>3, <3>4, <3>6, <4>1
      <4> QED
        BY <1>2, <1>3, <1>4, <2>4, <2>14, <3>1, <3>4, <3>6, <4>2
    <3>8. CASE e.year = y
      <4>1. e = date
        BY <3>5, <3>8 DEF date
      <4>2. Wall(t) = wall
        BY <3>4, <4>1 DEF wall, start, n
      <4> QED
        BY <1>6, <3>1, <4>2
    <3>9. CASE e.year = year /\ y # year
      <4>1. e = In(year, m)
        BY <3>5, <3>9
      <4>2. ResetOn(e, m) < log
        BY <1>1, <3>4, <3>9, <4>1
      <4>3. ResetOn(e, m) = Earliest(Wall(t)) + Grace
        BY <3>4 DEF ResetOn, off
      <4>4. Earliest(Wall(t)) = t
        <5>1. ~(t - Hour < Back /\ Back <= t)
          BY <1>2, <1>3, <1>8, <2>3, <2>5, <2>7, <2>14
        <5> QED
          BY <3>1, <5>1, EarliestOf
      <4> QED
        BY <1>2, <1>3, <2>14, <4>2, <4>3, <4>4
    <3>10. CASE y < e.year
      <4>1. n + 1 <= k
        BY <1>2, <1>9, <3>4, <3>10, LaterYears DEF n
      <4>2. start + Day <= k * Day
        BY <1>5, <3>4, <3>6, <4>1 DEF start
      <4> QED
        BY <1>3, <1>4, <1>5, <1>6, <3>1, <3>4, <3>6, <4>2
    <3> QED
      BY <1>9, <3>5, <3>7, <3>8, <3>9, <3>10
  <2> QED
    BY <2>7, <2>13, <2>14 DEF IsNext
<1> QED
  BY <1>8, <1>11

\* The set of which the reset is the least has that least member.
LEMMA NextIsLeast ==
  ASSUME NEW log \in Nat, NEW m, NEW first, IsNext(first, log, m)
  PROVE  Min({t \in Max({0, log - Grace}) .. Cardinality(Dates) * Day - 1 : Shows(t, m)}) = first
<1>1. Grace \in Nat /\ Day \in Nat /\ Cardinality(Dates) \in Nat
  BY Units, DayNumberOrders
<1> DEFINE low == Max({0, log - Grace})
           high == Cardinality(Dates) * Day
           named == {t \in low .. high - 1 : Shows(t, m)}
<1>2. low \in {0, log - Grace} /\ low >= 0 /\ low >= log - Grace
  <2>1. \E x \in {0, log - Grace} : \A t \in {0, log - Grace} : x >= t
    BY <1>1
  <2> QED
    BY <2>1 DEF Max
<1>3. low \in Nat /\ high \in Nat
  BY <1>1, <1>2
<1> HIDE DEF low, high
<1>4. first \in Nat /\ low <= first /\ first <= high - 1 /\ Shows(first, m)
  BY <1>1, <1>2, <1>3 DEF IsNext, high
<1>5. first \in named
  BY <1>3, <1>4
<1>6. \A t \in named : t \in Int /\ first <= t
  <2> SUFFICES ASSUME NEW t \in named PROVE t \in Int /\ first <= t
    OBVIOUS
  <2>1. t \in Nat /\ log - Grace <= t /\ Shows(t, m)
    BY <1>1, <1>2, <1>3
  <2>2. ~(t < first)
    BY <2>1 DEF IsNext
  <2> QED
    BY <1>4, <2>1, <2>2
<1> HIDE DEF named
<1>7. Min(named) = first
  BY <1>5, <1>6, MinIsLeast
<1> QED
  BY <1>7 DEF named, low, high

\* A message is understood as its reader understands it: the reset is the next
\* moment at which the clock shows what it names.
THEOREM ResetsAreTheNextNamed == Spec => []ResetIsTheNextNamed
<1>1. IInv => ResetIsTheNextNamed
  <2> SUFFICES ASSUME IInv, kind = "message", IsReading(input.text) PROVE ResetIsTheNextNamed
    BY DEF ResetIsTheNextNamed
  <2> DEFINE log == input.log
             m == input.text
             target == ParseResetTime(log, m)
             named == {t \in Max({0, log - Grace}) .. Cardinality(Dates) * Day - 1 : Shows(t, m)}
  <2>1. log \in 0 .. LastLog /\ m \in Messages /\ log \in Nat /\ Grace \in Nat
    BY LogAssumption, Units DEF IInv, MessageInv
  <2>2. m.dated \in BOOLEAN
    BY <2>1 DEF Messages
  <2>3. target = NoTime => m.dated
    BY <2>1, NextByTime DEF ParseResetTime
  <2>4. ASSUME target # NoTime, ClockIsStill(log, target) PROVE target = Min(named) + Grace
    <3>1. target \in Int /\ IsNext(target - Grace, log, m)
      <4>1. CASE m.dated
        <5>1. target = Dated(log, m)
          BY <4>1 DEF ParseResetTime
        <5> QED
          BY <2>1, <2>4, <4>1, <5>1, NextByDate
      <4>2. CASE ~m.dated
        <5>1. target = TimeOnly(log, m)
          BY <4>2 DEF ParseResetTime
        <5> QED
          BY <2>1, <2>4, <4>2, <5>1, NextByTime
      <4> QED
        BY <4>1, <4>2
    <3> HIDE DEF target, log, m
    <3>2. Min(named) = target - Grace
      BY <2>1, <3>1, NextIsLeast
    <3> HIDE DEF named
    <3> QED
      BY <2>1, <3>1, <3>2
  <2> QED
    BY <2>2, <2>3, <2>4 DEF ResetIsTheNextNamed
<1> QED
  BY <1>1, InputsInvariantHolds, PTL

-------------------------------------------------------------------------------
(* Loops that end.                                                         *)

\* A set has whatever it has all of a lower rank for.
IsInductive(P, D, rank) ==
  \A x \in D : (\A y \in D : rank[y] < rank[x] => y \in P) => x \in P

\* Then it has all.
LEMMA DescentInduction ==
  ASSUME NEW D, NEW rank \in [D -> Nat], NEW P \in SUBSET D, IsInductive(P, D, rank)
  PROVE  P = D
<1> DEFINE S == {k \in Nat : \A x \in D : rank[x] < k => x \in P}
<1>1. S \in SUBSET Nat /\ 0 \in S
  OBVIOUS
<1>2. ASSUME NEW k \in S PROVE k + 1 \in S
  <2> SUFFICES ASSUME NEW x \in D, rank[x] < k + 1 PROVE x \in P
    OBVIOUS
  <2>1. \A y \in D : rank[y] < rank[x] => rank[y] < k
    OBVIOUS
  <2> QED
    BY <2>1 DEF IsInductive
<1> HIDE DEF S
<1>3. S = Nat
  BY <1>1, <1>2, NaturalsClosed
<1>4. \A x \in D : rank[x] + 1 \in S /\ rank[x] < rank[x] + 1
  BY <1>3
<1> QED
  BY <1>4 DEF S

\* A function whose value is its value at a lower rank, until it stops.
IsDescent(f, D, stop, base, next) ==
  f = [x \in D |-> IF stop[x] THEN base[x] ELSE f[next[x]]]

\* There is one, if the ranks are bounded.
LEMMA DescentExists ==
  ASSUME NEW D, NEW rank \in [D -> Nat], NEW bound \in Nat, \A x \in D : rank[x] < bound,
         NEW stop, NEW base, NEW next,
         \A x \in D : ~stop[x] => next[x] \in D /\ rank[next[x]] < rank[x]
  PROVE  \E f : IsDescent(f, D, stop, base, next)
<1> DEFINE Below(k) == {x \in D : rank[x] < k}
           S == {k \in Nat : \E f : IsDescent(f, Below(k), stop, base, next)}
<1>1. S \in SUBSET Nat
  OBVIOUS
<1>2. 0 \in S
  <2> DEFINE f == [x \in Below(0) |-> base[x]]
  <2>1. Below(0) = {}
    OBVIOUS
  <2>2. IsDescent(f, Below(0), stop, base, next)
    BY <2>1 DEF IsDescent
  <2> HIDE DEF f
  <2> QED
    BY <2>2
<1>3. ASSUME NEW k \in S PROVE k + 1 \in S
  <2>1. k \in Nat /\ \E f : IsDescent(f, Below(k), stop, base, next)
    BY <1>3
  <2>2. PICK f : IsDescent(f, Below(k), stop, base, next)
    BY <2>1
  <2> DEFINE g == [x \in Below(k + 1) |-> IF stop[x] THEN base[x] ELSE f[next[x]]]
  <2>3. \A x \in Below(k) : x \in Below(k + 1) /\ f[x] = IF stop[x] THEN base[x] ELSE f[next[x]]
    BY <2>1, <2>2 DEF IsDescent
  <2>4. \A x \in Below(k) : g[x] = f[x]
    BY <2>3
  <2>5. \A x \in Below(k + 1) : ~stop[x] => next[x] \in Below(k)
    BY <2>1
  <2>6. \A x \in Below(k + 1) : (IF stop[x] THEN base[x] ELSE f[next[x]]) = IF stop[x] THEN base[x] ELSE g[next[x]]
    BY <2>4, <2>5
  <2>7. g = [x \in Below(k + 1) |-> IF stop[x] THEN base[x] ELSE g[next[x]]]
    BY <2>6
  <2> HIDE DEF g
  <2>8. IsDescent(g, Below(k + 1), stop, base, next)
    BY <2>7 DEF IsDescent
  <2> QED
    BY <2>1, <2>8
<1>4. S = Nat
  <2> HIDE DEF S
  <2> QED
    BY <1>1, <1>2, <1>3, NaturalsClosed
<1>5. \E f : IsDescent(f, Below(bound), stop, base, next)
  BY <1>4
<1>6. Below(bound) = D
  OBVIOUS
<1> QED
  BY <1>5, <1>6

-------------------------------------------------------------------------------
\* The places that are reached from a place.
ReachedFrom(k, n, next) ==
  {j \in 1 .. n : \A S \in SUBSET (1 .. n) :
     k \in S /\ (\A i \in S : next[i] \in 1 .. n => next[i] \in S) => j \in S}

\* They are the place itself and those reached from the next.
LEMMA ReachedStep ==
  ASSUME NEW n \in Nat, NEW next, NEW k \in 1 .. n
  PROVE  ReachedFrom(k, n, next) =
           {k} \cup IF next[k] \in 1 .. n THEN ReachedFrom(next[k], n, next) ELSE {}
<1> DEFINE places == 1 .. n
           Closed(S) == \A i \in S : next[i] \in places => next[i] \in S
           R(i) == {j \in places : \A S \in SUBSET places : i \in S /\ Closed(S) => j \in S}
           rest == IF next[k] \in places THEN R(next[k]) ELSE {}
<1> HIDE DEF places
<1>1. k \in places
  BY DEF places
<1>2. ASSUME NEW i \in places PROVE i \in R(i) /\ R(i) \in SUBSET places /\ Closed(R(i))
  OBVIOUS
<1>3. \A j \in R(k) : j \in {k} \cup rest
  <2>1. {k} \cup rest \in SUBSET places /\ k \in {k} \cup rest
    BY <1>1
  <2>2. Closed({k} \cup rest)
    BY <1>2
  <2> QED
    BY <2>1, <2>2
<1>4. \A j \in {k} \cup rest : j \in R(k)
  BY <1>1
<1>5. R(k) = {k} \cup rest
  BY <1>3, <1>4
<1> QED
  BY <1>5 DEF ReachedFrom, places

\* They lie behind it, if the next place always does.
LEMMA ReachedBehind ==
  ASSUME NEW n \in Nat, NEW next, \A i \in 1 .. n : next[i] \in 1 .. n => i < next[i],
         NEW k \in 1 .. n
  PROVE  \A j \in ReachedFrom(k, n, next) : k <= j
<1> DEFINE S == k .. n
<1>1. S \in SUBSET (1 .. n) /\ k \in S /\ \A i \in S : next[i] \in 1 .. n => next[i] \in S
  OBVIOUS
<1>2. ReachedFrom(k, n, next) \subseteq S
  BY <1>1 DEF ReachedFrom
<1> QED
  BY <1>2

-------------------------------------------------------------------------------
(* The model that is named.                                                *)

Models(args) == {Missing, "v"} \cup {args[i] : i \in 1 .. Len(args)}
ModelPlaces(args) == (1 .. Len(args) + 2) \X Models(args)

\* The loop of explicit_model.
IsModelScan(f, args) ==
  f = [x \in ModelPlaces(args) |->
        LET k == x[1]
        IN IF k > Len(args) THEN x[2]
           ELSE IF args[k] = "--" THEN x[2]
           ELSE IF args[k] = "-m"
             THEN IF k = Len(args) THEN Missing
                  ELSE IF args[k + 1] = "--" THEN Missing
                  ELSE f[<<k + 2, Value(args[k + 1])>>]
           ELSE f[<<k + 1, IF args[k] = "--model=v" THEN "v" ELSE x[2]>>]]

\* It goes through the arguments once.
LEMMA ModelScanExists ==
  ASSUME NEW args, Len(args) \in Nat
  PROVE  \E f : IsModelScan(f, args) /\ ExplicitModel(args) = f[<<1, Missing>>]
<1> DEFINE n == Len(args)
           D == ModelPlaces(args)
           rank == [x \in D |-> n + 2 - x[1]]
           Ends(x) == x[1] > n \/ args[x[1]] = "--"
           Lacks(x) == args[x[1]] = "-m" /\ (x[1] = n \/ args[x[1] + 1] = "--")
           stop == [x \in D |-> Ends(x) \/ Lacks(x)]
           base == [x \in D |-> IF Ends(x) THEN x[2] ELSE Missing]
           next == [x \in D |-> IF args[x[1]] = "-m" THEN <<x[1] + 2, Value(args[x[1] + 1])>>
                                ELSE <<x[1] + 1, IF args[x[1]] = "--model=v" THEN "v" ELSE x[2]>>]
<1>1. n \in Nat
  OBVIOUS
<1>2. ASSUME NEW x \in D
      PROVE  x[1] \in 1 .. n + 2 /\ x[2] \in Models(args) /\ rank[x] = n + 2 - x[1]
  BY DEF ModelPlaces
<1>3. rank \in [D -> Nat] /\ \A x \in D : rank[x] < n + 2
  <2>1. \A x \in D : n + 2 - x[1] \in Nat /\ n + 2 - x[1] < n + 2
    BY <1>1, <1>2
  <2> QED
    BY <2>1
<1>4. ASSUME NEW x \in D, ~stop[x]
      PROVE  next[x] \in D /\ rank[next[x]] < rank[x]
  <2>1. x[1] \in 1 .. n /\ ~Lacks(x)
    <3>1. ~Ends(x) /\ ~Lacks(x)
      BY <1>4
    <3> QED
      BY <1>1, <1>2, <3>1
  <2>2. CASE args[x[1]] = "-m"
    <3>1. x[1] # n /\ x[1] + 1 \in 1 .. n /\ x[1] + 2 \in 1 .. n + 2
      BY <1>1, <2>1, <2>2
    <3>2. Value(args[x[1] + 1]) \in Models(args)
      BY <3>1 DEF Value, Models
    <3>3. <<x[1] + 2, Value(args[x[1] + 1])>> \in D /\ next[x] = <<x[1] + 2, Value(args[x[1] + 1])>>
      BY <2>2, <3>1, <3>2 DEF ModelPlaces
    <3>4. rank[next[x]] = n + 2 - (x[1] + 2)
      BY <3>3
    <3> HIDE DEF rank, next
    <3> QED
      BY <1>1, <1>2, <2>1, <3>3, <3>4
  <2>3. CASE args[x[1]] # "-m"
    <3> DEFINE model == IF args[x[1]] = "--model=v" THEN "v" ELSE x[2]
    <3>1. x[1] + 1 \in 1 .. n + 2 /\ model \in Models(args)
      BY <1>1, <1>2, <2>1 DEF Models
    <3>2. next[x] = <<x[1] + 1, model>>
      BY <2>3
    <3> HIDE DEF model
    <3>3. <<x[1] + 1, model>> \in D
      BY <3>1 DEF ModelPlaces
    <3>4. rank[next[x]] = n + 2 - (x[1] + 1)
      BY <3>2, <3>3
    <3> HIDE DEF rank, next
    <3> QED
      BY <1>1, <1>2, <2>1, <3>2, <3>3, <3>4
  <2> QED
    BY <2>2, <2>3
<1> HIDE DEF rank
<1>5. \E f : IsDescent(f, D, stop, base, next)
  <2> DEFINE bound == n + 2
  <2>1. bound \in Nat /\ \A x \in D : rank[x] < bound
    BY <1>1, <1>3
  <2>2. \A x \in D : ~stop[x] => next[x] \in D /\ rank[next[x]] < rank[x]
    BY <1>4
  <2> HIDE DEF D, stop, base, next, bound
  <2> QED
    BY <1>3, <2>1, <2>2, DescentExists
<1>6. ASSUME NEW f, NEW x \in D
      PROVE  (IF stop[x] THEN base[x] ELSE f[next[x]]) =
               LET k == x[1]
               IN IF k > n THEN x[2]
                  ELSE IF args[k] = "--" THEN x[2]
                  ELSE IF args[k] = "-m"
                    THEN IF k = n THEN Missing
                         ELSE IF args[k + 1] = "--" THEN Missing
                         ELSE f[<<k + 2, Value(args[k + 1])>>]
                  ELSE f[<<k + 1, IF args[k] = "--model=v" THEN "v" ELSE x[2]>>]
  <2>1. CASE Ends(x)
    BY <2>1
  <2>2. CASE ~Ends(x) /\ args[x[1]] = "-m"
    BY <2>2
  <2>3. CASE ~Ends(x) /\ args[x[1]] # "-m"
    BY <2>3
  <2> QED
    BY <2>1, <2>2, <2>3
<1>7. \A f : IsDescent(f, D, stop, base, next) => IsModelScan(f, args)
  <2> HIDE DEF stop, base, next
  <2> QED
    BY <1>6 DEF IsDescent, IsModelScan
<1>8. \E f : IsModelScan(f, args)
  BY <1>5, <1>7
<1>9. ExplicitModel(args) = (CHOOSE f : IsModelScan(f, args))[<<1, Missing>>]
  BY DEF ExplicitModel, IsModelScan, ModelPlaces, Models
<1> QED
  BY <1>8, <1>9

-------------------------------------------------------------------------------
(* Where the arguments of the program end, and which model they name.      *)

\* A set of naturals has a least.
LEMMA LeastExists ==
  ASSUME NEW S \in SUBSET Nat, S # {}
  PROVE  \E least \in S : \A other \in S : least <= other
<1>1. \E least \in S : \A other \in S : ~(<<other, least>> \in OpToRel(<, Nat))
  BY NatLessThanWellFounded, WFMin
<1>2. PICK least \in S : \A other \in S : ~(<<other, least>> \in OpToRel(<, Nat))
  BY <1>1
<1>3. \A other \in S : ~(other < least)
  BY <1>2 DEF OpToRel
<1> QED
  BY <1>3

\* There is one boundary.
LEMMA BoundaryType ==
  ASSUME NEW T, NEW args \in Seq(T)
  PROVE  /\ Boundary(args) \in 1 .. Len(args) + 1
         /\ Boundary(args) = Len(args) + 1 \/ args[Boundary(args)] = "--"
         /\ \A i \in 1 .. Boundary(args) - 1 : args[i] # "--"
<1> DEFINE n == Len(args)
           Ends(k) == k = n + 1 \/ args[k] = "--"
           ends == {k \in 1 .. n + 1 : Ends(k)}
<1>1. n \in Nat
  OBVIOUS
<1>2. ends \in SUBSET Nat /\ n + 1 \in ends
  BY <1>1
<1>3. PICK least \in ends : \A other \in ends : least <= other
  <2> HIDE DEF ends
  <2> QED
    BY <1>2, LeastExists
<1>4. least \in 1 .. n + 1 /\ Ends(least) /\ \A i \in 1 .. least - 1 : args[i] # "--"
  <2>1. ASSUME NEW i \in 1 .. least - 1 PROVE args[i] # "--"
    <3>1. i \in 1 .. n + 1 /\ i < least
      BY <1>1, <1>3
    <3>2. i \notin ends
      BY <1>1, <1>3, <3>1
    <3> QED
      BY <3>1, <3>2
  <2> QED
    BY <1>3, <2>1
<1> QED
  BY <1>4 DEF Boundary

\* It is the first, and it is that of a beginning that has it.
LEMMA BoundaryOfCut ==
  ASSUME NEW T, NEW args \in Seq(T), NEW n \in Boundary(args) .. Len(args)
  PROVE  BeforeBoundary(SubSeq(args, 1, n)) = BeforeBoundary(args)
<1> DEFINE cut == SubSeq(args, 1, n)
           b == Boundary(args)
           c == Boundary(cut)
<1>1. /\ b \in 1 .. Len(args) + 1 /\ (b = Len(args) + 1 \/ args[b] = "--")
      /\ \A i \in 1 .. b - 1 : args[i] # "--"
  BY BoundaryType
<1>2. Len(args) \in Nat /\ n \in 1 .. Len(args) /\ b <= n /\ args[b] = "--" /\ b \in 1 .. n
  BY <1>1
<1>3. cut \in Seq(T) /\ Len(cut) = n /\ \A i \in 1 .. n : cut[i] = args[i]
  BY <1>2
<1>4. c \in 1 .. n + 1 /\ (c = n + 1 \/ cut[c] = "--") /\ \A i \in 1 .. c - 1 : cut[i] # "--"
  <2> HIDE DEF cut
  <2> QED
    BY <1>3, BoundaryType
<1> HIDE DEF cut, b, c
<1>5. c = b
  <2>1. ~(b < c)
    BY <1>2, <1>3, <1>4
  <2>2. ~(c < b)
    BY <1>1, <1>2, <1>3, <1>4
  <2> QED
    BY <1>2, <1>4, <2>1, <2>2
<1>6. SubSeq(cut, 1, b - 1) = SubSeq(args, 1, b - 1)
  <2>1. b - 1 \in 0 .. n /\ b - 1 \in 0 .. Len(args)
    BY <1>2
  <2>2. /\ SubSeq(cut, 1, b - 1) \in Seq(T) /\ Len(SubSeq(cut, 1, b - 1)) = b - 1
        /\ SubSeq(args, 1, b - 1) \in Seq(T) /\ Len(SubSeq(args, 1, b - 1)) = b - 1
        /\ \A i \in 1 .. b - 1 : SubSeq(cut, 1, b - 1)[i] = SubSeq(args, 1, b - 1)[i]
    BY <1>2, <1>3, <2>1
  <2> QED
    BY <2>2, SeqEqual
<1> QED
  BY <1>5, <1>6 DEF BeforeBoundary, cut, b, c

\* What is before it.
LEMMA OwnType ==
  ASSUME NEW T, NEW args \in Seq(T)
  PROVE  /\ BeforeBoundary(args) \in Seq(T) /\ Len(BeforeBoundary(args)) = Boundary(args) - 1
         /\ \A i \in 1 .. Boundary(args) - 1 : BeforeBoundary(args)[i] = args[i]
<1> DEFINE b == Boundary(args)
<1>1. b \in 1 .. Len(args) + 1 /\ Len(args) \in Nat
  BY BoundaryType
<1> HIDE DEF b
<1>2. b - 1 \in 0 .. Len(args)
  BY <1>1
<1>3. /\ SubSeq(args, 1, b - 1) \in Seq(T) /\ Len(SubSeq(args, 1, b - 1)) = b - 1
      /\ \A i \in 1 .. b - 1 : SubSeq(args, 1, b - 1)[i] = args[i]
  BY <1>1, <1>2
<1> QED
  BY <1>3 DEF BeforeBoundary, b

\* The places reached from a place.
Places(k, own, next) == IF k \in 1 .. Len(own) THEN ReachedFrom(k, Len(own), next) ELSE {}

AfterModel(own) == [k \in 1 .. Len(own) |-> IF own[k] = "-m" THEN k + 2 ELSE k + 1]

NamesFrom(k, own) == {j \in Places(k, own, AfterModel(own)) : own[j] \in {"-m", "--model=v"}}

Named(k, own) ==
  IF own[k] = "--model=v" THEN "v"
  ELSE IF k = Len(own) \/ own[k + 1] = Raw THEN Missing ELSE own[k + 1]

LastNamed(k, own, model) ==
  IF NamesFrom(k, own) = {} THEN model ELSE Named(Max(NamesFrom(k, own)), own)

\* The last name from a place on is that from the next place on, if there is any.
LEMMA LastNamedStep ==
  ASSUME NEW T, NEW own \in Seq(T), NEW k \in 1 .. Len(own), NEW model
  PROVE  LastNamed(k, own, model) =
           LastNamed(IF own[k] = "-m" THEN k + 2 ELSE k + 1, own,
                     IF own[k] \in {"-m", "--model=v"} THEN Named(k, own) ELSE model)
<1> DEFINE n == Len(own)
           next == AfterModel(own)
           after == next[k]
           rest == NamesFrom(after, own)
<1>1. n \in Nat /\ k \in 1 .. n
  OBVIOUS
<1>2. /\ \A i \in 1 .. n : next[i] = IF own[i] = "-m" THEN i + 2 ELSE i + 1
      /\ after \in Nat /\ k < after
  BY <1>1 DEF AfterModel
<1>3. \A i \in 1 .. n : next[i] \in 1 .. n => i < next[i]
  BY <1>1, <1>2
<1> HIDE DEF next
<1>4. Places(k, own, next) = {k} \cup Places(after, own, next)
  BY <1>1, ReachedStep DEF Places
<1>5. Places(after, own, next) \in SUBSET (1 .. n) /\ \A j \in Places(after, own, next) : k < j
  <2>1. CASE after \in 1 .. n
    <3>1. \A j \in ReachedFrom(after, n, next) : after <= j
      BY <1>1, <1>3, <2>1, ReachedBehind
    <3>2. ReachedFrom(after, n, next) \in SUBSET (1 .. n)
      BY DEF ReachedFrom
    <3> QED
      BY <1>1, <1>2, <2>1, <3>1, <3>2 DEF Places
  <2>2. CASE after \notin 1 .. n
    BY <2>2 DEF Places
  <2> QED
    BY <2>1, <2>2
<1>6. /\ NamesFrom(k, own) = IF own[k] \in {"-m", "--model=v"} THEN {k} \cup rest ELSE rest
      /\ rest \in SUBSET (1 .. n) /\ \A j \in rest : k < j
  BY <1>4, <1>5 DEF NamesFrom, next
<1> HIDE DEF after, rest
<1>7. Max({k}) = k
  <2>1. Max({k}) \in {k}
    BY <1>1, MaxType
  <2> QED
    BY <2>1
<1>8. rest # {} => Max({k} \cup rest) = Max(rest)
  <2> SUFFICES ASSUME rest # {} PROVE Max({k} \cup rest) = Max(rest)
    OBVIOUS
  <2> DEFINE last == Max(rest)
             other == Max({k} \cup rest)
  <2>1. last \in rest /\ \A j \in rest : j <= last
    BY <1>1, <1>6, MaxType
  <2>2. other \in {k} \cup rest /\ \A j \in {k} \cup rest : j <= other
    <3>1. {k} \cup rest \in SUBSET (1 .. n) /\ {k} \cup rest # {}
      BY <1>1, <1>6
    <3> QED
      BY <1>1, <3>1, MaxType
  <2> HIDE DEF last, other
  <2>3. last \in Nat /\ k < last /\ last <= other
    BY <1>1, <1>6, <2>1, <2>2
  <2>4. other \in rest /\ other \in Nat
    BY <1>1, <1>6, <2>2, <2>3
  <2>5. other <= last
    BY <2>1, <2>4
  <2>6. other = last
    BY <2>3, <2>4, <2>5
  <2> QED
    BY <2>6 DEF last, other
<1>9. LastNamed(k, own, model) =
        IF own[k] \in {"-m", "--model=v"}
          THEN IF rest = {} THEN Named(k, own) ELSE Named(Max(rest), own)
          ELSE IF rest = {} THEN model ELSE Named(Max(rest), own)
  <2>1. CASE own[k] \in {"-m", "--model=v"}
    <3>1. rest = {} => {k} \cup rest = {k}
      OBVIOUS
    <3>2. {k} \cup rest # {}
      OBVIOUS
    <3> QED
      BY <1>6, <1>7, <1>8, <2>1, <3>1, <3>2 DEF LastNamed
  <2>2. CASE own[k] \notin {"-m", "--model=v"}
    BY <1>6, <2>2 DEF LastNamed
  <2> QED
    BY <2>1, <2>2
<1>10. after = IF own[k] = "-m" THEN k + 2 ELSE k + 1
  BY <1>1, <1>2 DEF after
<1> QED
  BY <1>9, <1>10 DEF LastNamed, rest

\* From every place on explicit_model keeps the last name.
LEMMA ModelFrom ==
  ASSUME NEW T, NEW args \in Seq(T), NEW f, IsModelScan(f, args)
  PROVE  \A k \in 1 .. Boundary(args), model \in Models(args) :
           f[<<k, model>>] = LastNamed(k, BeforeBoundary(args), model)
<1> DEFINE b == Boundary(args)
           n == Len(args)
           own == BeforeBoundary(args)
           D == 1 .. b
           rank == [k \in D |-> b - k]
           P == {k \in D : \A model \in Models(args) : f[<<k, model>>] = LastNamed(k, own, model)}
<1>1. /\ n \in Nat /\ b \in 1 .. n + 1 /\ (b = n + 1 \/ args[b] = "--")
      /\ \A i \in 1 .. b - 1 : args[i] # "--"
  BY BoundaryType
<1>2. own \in Seq(T) /\ Len(own) = b - 1 /\ \A i \in 1 .. b - 1 : own[i] = args[i]
  BY OwnType
<1> HIDE DEF b, own, n
<1>3. ASSUME NEW k \in 1 .. n + 2, NEW model \in Models(args)
      PROVE  f[<<k, model>>] =
               IF k > n THEN model
               ELSE IF args[k] = "--" THEN model
               ELSE IF args[k] = "-m"
                 THEN IF k = n THEN Missing
                      ELSE IF args[k + 1] = "--" THEN Missing
                      ELSE f[<<k + 2, Value(args[k + 1])>>]
               ELSE f[<<k + 1, IF args[k] = "--model=v" THEN "v" ELSE model>>]
  <2>1. <<k, model>> \in ModelPlaces(args)
    BY DEF ModelPlaces, n
  <2> QED
    BY <2>1 DEF IsModelScan, n
<1>4. ASSUME NEW k \in D, \A i \in D : rank[i] < rank[k] => i \in P
      PROVE  k \in P
  <2> SUFFICES ASSUME NEW model \in Models(args)
               PROVE  f[<<k, model>>] = LastNamed(k, own, model)
    OBVIOUS
  <2>1. \A i \in D : k < i => \A m \in Models(args) : f[<<i, m>>] = LastNamed(i, own, m)
    BY <1>1, <1>4
  <2> HIDE DEF P, rank
  <2>2. CASE k = b
    <3>1. Places(k, own, AfterModel(own)) = {}
      BY <1>1, <1>2, <2>2 DEF Places
    <3>2. LastNamed(k, own, model) = model
      BY <3>1 DEF LastNamed, NamesFrom
    <3>3. k \in 1 .. n + 2 /\ (k > n \/ args[k] = "--")
      BY <1>1, <2>2
    <3>4. f[<<k, model>>] = model
      BY <1>3, <3>3
    <3> QED
      BY <3>2, <3>4
  <2>3. CASE k # b
    <3>1. /\ k \in 1 .. b - 1 /\ k \in 1 .. n + 2 /\ k \in 1 .. Len(own) /\ ~(k > n)
          /\ own[k] = args[k] /\ args[k] # "--" /\ k + 1 \in D /\ k < k + 1 /\ k < k + 2
      BY <1>1, <1>2, <2>3
    <3>2. CASE own[k] = "-m" /\ k = b - 1
      <4>1. f[<<k, model>>] = Missing
        <5>1. k = n \/ args[k + 1] = "--"
          BY <1>1, <3>1, <3>2
        <5> QED
          BY <1>3, <3>1, <3>2, <5>1
      <4>2. LastNamed(k, own, model) = LastNamed(k + 2, own, Named(k, own))
        BY <1>2, <3>1, <3>2, LastNamedStep
      <4>3. Named(k, own) = Missing
        BY <1>2, <3>2 DEF Named
      <4>4. Places(k + 2, own, AfterModel(own)) = {}
        BY <1>1, <1>2, <3>1, <3>2 DEF Places
      <4>5. LastNamed(k + 2, own, Named(k, own)) = Named(k, own)
        BY <4>4 DEF LastNamed, NamesFrom
      <4> QED
        BY <4>1, <4>2, <4>3, <4>5
    <3>3. CASE own[k] = "-m" /\ k # b - 1
      <4>1. k + 1 \in 1 .. b - 1 /\ k + 2 \in D /\ k # n /\ k # Len(own) /\ k + 1 \in 1 .. n
        BY <1>1, <1>2, <3>1, <3>3
      <4>2. own[k + 1] = args[k + 1] /\ args[k + 1] # "--"
        BY <1>1, <1>2, <4>1
      <4>3. Named(k, own) = Value(args[k + 1]) /\ Value(args[k + 1]) \in Models(args)
        BY <3>3, <4>1, <4>2 DEF Named, Value, Models, n
      <4>4. f[<<k, model>>] = f[<<k + 2, Value(args[k + 1])>>]
        BY <1>3, <3>1, <3>3, <4>1, <4>2
      <4>5. LastNamed(k, own, model) = LastNamed(k + 2, own, Named(k, own))
        BY <1>2, <3>1, <3>3, LastNamedStep
      <4> QED
        BY <2>1, <3>1, <4>1, <4>3, <4>4, <4>5
    <3>4. CASE own[k] # "-m"
      <4> DEFINE then == IF args[k] = "--model=v" THEN "v" ELSE model
      <4>1. f[<<k, model>>] = f[<<k + 1, then>>] /\ then \in Models(args)
        BY <1>3, <3>1, <3>4 DEF Models
      <4>2. then = IF own[k] \in {"-m", "--model=v"} THEN Named(k, own) ELSE model
        BY <3>1, <3>4 DEF Named
      <4> HIDE DEF then
      <4>3. LastNamed(k, own, model) = LastNamed(k + 1, own, then)
        BY <1>2, <3>1, <3>4, <4>2, LastNamedStep
      <4> QED
        BY <2>1, <3>1, <4>1, <4>3
    <3> QED
      BY <3>2, <3>3, <3>4
  <2> QED
    BY <2>2, <2>3
<1>5. P = D
  <2>1. rank \in [D -> Nat] /\ P \in SUBSET D
    BY <1>1
  <2>2. IsInductive(P, D, rank)
    BY <1>4 DEF IsInductive
  <2> HIDE DEF P, rank, D
  <2> QED
    BY <2>1, <2>2, DescentInduction
<1> QED
  BY <1>5 DEF b, own

\* explicit_model is the last name before the boundary.
LEMMA ModelIsLast ==
  ASSUME NEW T, NEW args \in Seq(T)
  PROVE  ExplicitModel(args) = LastNamed(1, BeforeBoundary(args), Missing)
<1>1. Len(args) \in Nat /\ 1 \in 1 .. Boundary(args) /\ Missing \in Models(args)
  <2>1. Missing \in Models(args)
    BY DEF Models
  <2>2. Boundary(args) \in 1 .. Len(args) + 1
    BY BoundaryType
  <2> QED
    BY <2>1, <2>2
<1>2. PICK f : IsModelScan(f, args) /\ ExplicitModel(args) = f[<<1, Missing>>]
  BY <1>1, ModelScanExists
<1> QED
  BY <1>1, <1>2, ModelFrom

-------------------------------------------------------------------------------
(* The subcommand of Codex.                                                *)

IsValueAt(k, args) == args[k] = Raw \/ ~IsOption(args[k])

\* The end of the images that follow a place, and where reading goes on.
NextOption(k, args) ==
  LET later == {j \in k .. Len(args) : ~IsValueAt(j, args)}
  IN IF later = {} THEN Len(args) + 1 ELSE Min(later)

AfterOption(k, args) ==
  IF args[k] = "-i" THEN NextOption(k + 1, args)
  ELSE IF TakesValue(args[k]) THEN k + 2 ELSE k + 1

\* The loops of has_exec_subcommand.
IsValues(f, args) ==
  f = [k \in 1 .. Len(args) + 1 |-> IF k <= Len(args) /\ IsValueAt(k, args) THEN f[k + 1] ELSE k]

IsExecScan(f, values, args) ==
  f = [k \in 1 .. Len(args) + 2 |->
        IF k > Len(args) THEN FALSE
        ELSE IF args[k] \in {Raw, "--"} THEN FALSE
        ELSE IF args[k] = "exec" THEN TRUE
        ELSE IF ~IsOption(args[k]) THEN FALSE
        ELSE IF args[k] = "-i" THEN f[values[k + 1]]
        ELSE f[IF TakesValue(args[k]) THEN k + 2 ELSE k + 1]]

\* The next option of a place is itself or that of the next place.
LEMMA NextOptionStep ==
  ASSUME NEW args, Len(args) \in Nat, NEW k \in 1 .. Len(args) + 1
  PROVE  /\ NextOption(k, args) \in k .. Len(args) + 1
         /\ NextOption(k, args) =
              IF k <= Len(args) /\ IsValueAt(k, args) THEN NextOption(k + 1, args) ELSE k
<1> DEFINE n == Len(args)
           Later(j) == {i \in j .. n : ~IsValueAt(i, args)}
<1>1. n \in Nat /\ k \in Nat /\ k <= n + 1
  OBVIOUS
<1>2. \A j : NextOption(j, args) = IF Later(j) = {} THEN n + 1 ELSE Min(Later(j))
  BY DEF NextOption
<1>3. \A j : Later(j) \in SUBSET (j .. n)
  OBVIOUS
<1>4. NextOption(k, args) \in k .. n + 1
  <2> HIDE DEF n, Later
  <2>1. CASE Later(k) = {}
    BY <1>1, <1>2, <2>1
  <2>2. CASE Later(k) # {}
    <3>1. Later(k) \in SUBSET Nat
      BY <1>1, <1>3
    <3>2. PICK least \in Later(k) : \A t \in Later(k) : least <= t
      BY <2>2, <3>1, LeastExists
    <3>3. \A t \in Later(k) : t \in Int /\ least <= t
      BY <3>1, <3>2
    <3>4. Min(Later(k)) = least
      BY <3>3, MinIsLeast
    <3> QED
      BY <1>1, <1>2, <1>3, <2>2, <3>4
  <2> QED
    BY <2>1, <2>2
<1> HIDE DEF n
<1>5. CASE k <= n /\ IsValueAt(k, args)
  <2>1. Later(k) = Later(k + 1)
    <3>1. \A i \in k .. n : i = k \/ i \in k + 1 .. n
      BY <1>1
    <3>2. \A i \in k + 1 .. n : i \in k .. n
      BY <1>1
    <3> QED
      BY <1>5, <3>1, <3>2
  <2> HIDE DEF Later
  <2> QED
    BY <1>2, <1>4, <1>5, <2>1 DEF n
<1>6. CASE k <= n /\ ~IsValueAt(k, args)
  <2>1. k \in Later(k) /\ \A t \in Later(k) : t \in Int /\ k <= t
    BY <1>1, <1>6
  <2> HIDE DEF Later
  <2>2. Later(k) # {} /\ Min(Later(k)) = k
    BY <2>1, MinIsLeast
  <2> QED
    BY <1>2, <1>4, <1>6, <2>2 DEF n
<1>7. CASE ~(k <= n)
  <2>1. k = n + 1 /\ Later(k) = {}
    BY <1>1, <1>7
  <2> HIDE DEF Later
  <2> QED
    BY <1>2, <1>4, <1>7, <2>1 DEF n
<1> QED
  BY <1>5, <1>6, <1>7

\* The loops end.
LEMMA ExecScanExists ==
  ASSUME NEW args, Len(args) \in Nat
  PROVE  \E values, f : /\ IsValues(values, args) /\ IsExecScan(f, values, args)
                        /\ HasExec(args) = f[1]
                        /\ \A k \in 1 .. Len(args) + 1 : values[k] = NextOption(k, args)
<1> DEFINE n == Len(args)
<1>1. n \in Nat
  OBVIOUS
<1>2. \E f : IsValues(f, args)
  <2> DEFINE D == 1 .. n + 1
             rank == [k \in D |-> n + 1 - k]
             stop == [k \in D |-> ~(k <= n /\ IsValueAt(k, args))]
             base == [k \in D |-> k]
             next == [k \in D |-> k + 1]
             bound == n + 1
  <2>1. rank \in [D -> Nat] /\ bound \in Nat /\ \A k \in D : rank[k] < bound
    BY <1>1
  <2>2. ASSUME NEW k \in D, ~stop[k] PROVE next[k] \in D /\ rank[next[k]] < rank[k]
    <3>1. k <= n
      BY <2>2
    <3> QED
      BY <1>1, <3>1
  <2>3. \E f : IsDescent(f, D, stop, base, next)
    <3>1. \A k \in D : ~stop[k] => next[k] \in D /\ rank[next[k]] < rank[k]
      BY <2>2
    <3> HIDE DEF D, rank, stop, base, next, bound
    <3> QED
      BY <2>1, <3>1, DescentExists
  <2>4. ASSUME NEW f, NEW k \in D
        PROVE  (IF stop[k] THEN base[k] ELSE f[next[k]]) =
                 IF k <= n /\ IsValueAt(k, args) THEN f[k + 1] ELSE k
    OBVIOUS
  <2>5. \A f : IsDescent(f, D, stop, base, next) => IsValues(f, args)
    <3> HIDE DEF stop, base, next
    <3> QED
      BY <2>4 DEF IsDescent, IsValues
  <2> QED
    BY <2>3, <2>5
<1>3. ASSUME NEW values, IsValues(values, args)
      PROVE  \A k \in 1 .. n + 1 : values[k] = NextOption(k, args)
  <2> DEFINE D == 1 .. n + 1
             rank == [k \in D |-> n + 1 - k]
             P == {k \in D : values[k] = NextOption(k, args)}
  <2>1. rank \in [D -> Nat] /\ P \in SUBSET D
    BY <1>1
  <2>2. ASSUME NEW k \in D, \A i \in D : rank[i] < rank[k] => i \in P
        PROVE  k \in P
    <3>1. values[k] = IF k <= n /\ IsValueAt(k, args) THEN values[k + 1] ELSE k
      BY <1>3 DEF IsValues
    <3>2. NextOption(k, args) = IF k <= n /\ IsValueAt(k, args) THEN NextOption(k + 1, args) ELSE k
      BY <1>1, NextOptionStep
    <3>3. k <= n => k + 1 \in D /\ rank[k + 1] < rank[k]
      BY <1>1
    <3>4. k <= n => values[k + 1] = NextOption(k + 1, args)
      <4> HIDE DEF rank, D
      <4> QED
        BY <2>2, <3>3
    <3> HIDE DEF rank
    <3> QED
      BY <3>1, <3>2, <3>4
  <2>3. IsInductive(P, D, rank)
    BY <2>2 DEF IsInductive
  <2>4. P = D
    <3> HIDE DEF P, rank, D
    <3> QED
      BY <2>1, <2>3, DescentInduction
  <2> QED
    BY <2>4
<1>4. ASSUME NEW values, \A k \in 1 .. n + 1 : values[k] = NextOption(k, args)
      PROVE  \E f : IsExecScan(f, values, args)
  <2> DEFINE D == 1 .. n + 2
             rank == [k \in D |-> n + 2 - k]
             Ends(k) == k > n \/ args[k] \in {Raw, "--", "exec"} \/ ~IsOption(args[k])
             stop == [k \in D |-> Ends(k)]
             base == [k \in D |-> ~(k > n) /\ args[k] \notin {Raw, "--"} /\ args[k] = "exec"]
             next == [k \in D |-> IF args[k] = "-i" THEN values[k + 1]
                                  ELSE IF TakesValue(args[k]) THEN k + 2 ELSE k + 1]
             bound == n + 2
  <2>1. rank \in [D -> Nat] /\ bound \in Nat /\ \A k \in D : rank[k] < bound
    BY <1>1
  <2>2. ASSUME NEW k \in D, ~stop[k] PROVE next[k] \in D /\ rank[next[k]] < rank[k]
    <3>1. k \in 1 .. n
      <4>1. ~Ends(k)
        BY <2>2
      <4>2. ~(k > n)
        BY <4>1
      <4> QED
        BY <1>1, <4>2
    <3>2. next[k] \in Int /\ k < next[k] /\ next[k] <= n + 2
      <4>1. k + 1 \in 1 .. n + 1 /\ values[k + 1] \in k + 1 .. n + 1
        <5>1. k + 1 \in 1 .. n + 1
          BY <1>1, <3>1
        <5>2. NextOption(k + 1, args) \in k + 1 .. n + 1
          BY <1>1, <5>1, NextOptionStep
        <5> QED
          BY <1>4, <5>1, <5>2
      <4>2. next[k] = IF args[k] = "-i" THEN values[k + 1]
                      ELSE IF TakesValue(args[k]) THEN k + 2 ELSE k + 1
        OBVIOUS
      <4> HIDE DEF next
      <4> QED
        BY <1>1, <3>1, <4>1, <4>2
    <3> HIDE DEF next
    <3>3. next[k] \in D
      BY <1>1, <3>1, <3>2
    <3>4. rank[next[k]] = n + 2 - next[k] /\ rank[k] = n + 2 - k
      BY <3>3
    <3> HIDE DEF rank
    <3> QED
      BY <1>1, <3>1, <3>2, <3>3, <3>4
  <2>3. \E f : IsDescent(f, D, stop, base, next)
    <3>1. \A k \in D : ~stop[k] => next[k] \in D /\ rank[next[k]] < rank[k]
      BY <2>2
    <3> HIDE DEF D, rank, stop, base, next, bound
    <3> QED
      BY <2>1, <3>1, DescentExists
  <2>4. ASSUME NEW f, NEW k \in D
        PROVE  (IF stop[k] THEN base[k] ELSE f[next[k]]) =
                 IF k > n THEN FALSE
                 ELSE IF args[k] \in {Raw, "--"} THEN FALSE
                 ELSE IF args[k] = "exec" THEN TRUE
                 ELSE IF ~IsOption(args[k]) THEN FALSE
                 ELSE IF args[k] = "-i" THEN f[values[k + 1]]
                 ELSE f[IF TakesValue(args[k]) THEN k + 2 ELSE k + 1]
    <3>1. stop[k] = Ends(k) /\ base[k] = (~(k > n) /\ args[k] \notin {Raw, "--"} /\ args[k] = "exec")
      OBVIOUS
    <3>2. next[k] = IF args[k] = "-i" THEN values[k + 1]
                    ELSE IF TakesValue(args[k]) THEN k + 2 ELSE k + 1
      OBVIOUS
    <3> HIDE DEF stop, base, next
    <3>3. CASE Ends(k)
      BY <3>1, <3>3
    <3>4. CASE ~Ends(k)
      BY <3>1, <3>2, <3>4
    <3> QED
      BY <3>3, <3>4
  <2>5. \A f : IsDescent(f, D, stop, base, next) => IsExecScan(f, values, args)
    <3> HIDE DEF stop, base, next
    <3> QED
      BY <2>4 DEF IsDescent, IsExecScan
  <2> QED
    BY <2>3, <2>5
<1>5. HasExec(args) =
        (CHOOSE f : IsExecScan(f, CHOOSE values : IsValues(values, args), args))[1]
  BY DEF HasExec, IsExecScan, IsValues, IsValueAt
<1> DEFINE values == CHOOSE v : IsValues(v, args)
           scan == CHOOSE f : IsExecScan(f, values, args)
<1>6. IsValues(values, args)
  BY <1>2
<1>7. HasExec(args) = scan[1]
  BY <1>5
<1> HIDE DEF values
<1>8. IsExecScan(scan, values, args)
  BY <1>3, <1>4, <1>6
<1> HIDE DEF scan
<1> QED
  BY <1>3, <1>6, <1>7, <1>8

\* Where reading goes on, as long as it does.
AfterExec(args) ==
  [k \in 1 .. Len(args) |-> IF ~IsOption(args[k]) \/ args[k] = "--" THEN 0 ELSE AfterOption(k, args)]

\* has_exec_subcommand finds "exec" where reading comes to it.
LEMMA ExecIsReached ==
  ASSUME NEW args, Len(args) \in Nat
  PROVE  HasExec(args) <=> \E k \in Places(1, args, AfterExec(args)) : args[k] = "exec"
<1> DEFINE n == Len(args)
           next == AfterExec(args)
           D == 1 .. n + 2
           rank == [k \in D |-> n + 2 - k]
           From(k) == \E j \in Places(k, args, next) : args[j] = "exec"
<1>1. n \in Nat
  OBVIOUS
<1>2. PICK values, f : /\ IsValues(values, args) /\ IsExecScan(f, values, args)
                       /\ HasExec(args) = f[1]
                       /\ \A k \in 1 .. Len(args) + 1 : values[k] = NextOption(k, args)
  BY ExecScanExists
<1> DEFINE P == {k \in D : f[k] <=> From(k)}
<1>3. ASSUME NEW k \in D
      PROVE  f[k] = IF k > n THEN FALSE
                    ELSE IF args[k] \in {Raw, "--"} THEN FALSE
                    ELSE IF args[k] = "exec" THEN TRUE
                    ELSE IF ~IsOption(args[k]) THEN FALSE
                    ELSE IF args[k] = "-i" THEN f[values[k + 1]]
                    ELSE f[IF TakesValue(args[k]) THEN k + 2 ELSE k + 1]
  BY <1>2 DEF IsExecScan
<1>4. ASSUME NEW k \in D, \A i \in D : rank[i] < rank[k] => i \in P
      PROVE  k \in P
  <2>1. \A i \in D : k < i => (f[i] <=> From(i))
    BY <1>1, <1>4
  <2>2. CASE k > n
    <3>1. k \notin 1 .. n
      BY <1>1, <2>2
    <3>2. ~From(k)
      BY <3>1 DEF Places
    <3>3. f[k] = FALSE
      BY <1>3, <2>2
    <3> QED
      BY <3>2, <3>3
  <2>3. CASE ~(k > n)
    <3>1. k \in 1 .. n
      BY <1>1, <2>3
    <3>2. next[k] = IF ~IsOption(args[k]) \/ args[k] = "--" THEN 0 ELSE AfterOption(k, args)
      BY <3>1 DEF AfterExec
    <3> HIDE DEF next
    <3>3. Places(k, args, next) = {k} \cup Places(next[k], args, next)
      BY <1>1, <3>1, ReachedStep DEF Places
    <3>4. From(k) <=> args[k] = "exec" \/ From(next[k])
      BY <3>3
    <3> HIDE DEF From
    <3>5. CASE ~IsOption(args[k]) \/ args[k] = "--"
      <4>1. ~From(next[k])
        <5>1. next[k] \notin 1 .. n
          BY <3>2, <3>5
        <5> QED
          BY <5>1 DEF From, Places
      <4>2. f[k] <=> args[k] = "exec"
        BY <1>3, <2>3, <3>5, RawAssumption
      <4> QED
        BY <3>4, <4>1, <4>2
    <3>6. CASE IsOption(args[k]) /\ args[k] # "--"
      <4>1. args[k] # "exec" /\ args[k] # Raw
        BY <3>6, RawAssumption DEF IsOption, Options
      <4>2. k + 1 \in 1 .. n + 1 /\ values[k + 1] = NextOption(k + 1, args)
        BY <1>1, <1>2, <3>1
      <4>3. f[k] = f[AfterOption(k, args)]
        BY <1>3, <2>3, <3>6, <4>1, <4>2 DEF AfterOption
      <4>4. AfterOption(k, args) \in D /\ k < AfterOption(k, args)
        <5>1. NextOption(k + 1, args) \in k + 1 .. n + 1
          BY <1>1, <4>2, NextOptionStep
        <5> QED
          BY <1>1, <3>1, <5>1 DEF AfterOption
      <4>5. next[k] = AfterOption(k, args)
        BY <3>2, <3>6
      <4>6. f[AfterOption(k, args)] <=> From(AfterOption(k, args))
        BY <2>1, <4>4
      <4> QED
        BY <3>4, <4>1, <4>3, <4>5, <4>6
    <3> QED
      BY <3>5, <3>6
  <2> QED
    BY <2>2, <2>3
<1>5. P = D
  <2>1. rank \in [D -> Nat] /\ P \in SUBSET D
    BY <1>1
  <2>2. IsInductive(P, D, rank)
    BY <1>4 DEF IsInductive
  <2> HIDE DEF P, rank, D
  <2> QED
    BY <2>1, <2>2, DescentInduction
<1>6. 1 \in D
  BY <1>1
<1> QED
  BY <1>2, <1>5, <1>6

-------------------------------------------------------------------------------
(* The arguments.                                                          *)

\* The model in the manifest.
LEMMA ModelIsUnderstood ==
  ASSUME ArgumentInv PROVE ModelIsTheLastNamed
<1> SUFFICES ASSUME kind \in {"claude", "codex"} PROVE ModelIsTheLastNamed
  BY DEF ModelIsTheLastNamed
<1> DEFINE own == BeforeBoundary(input)
           n == Len(own)
           next == AfterModel(own)
           Goes(S) == 1 \in S /\ \A k \in S : next[k] \in 1 .. n => next[k] \in S
           Closed(S) == 1 \in S /\ \A k \in S : (IF own[k] = "-m" THEN k + 2 ELSE k + 1) \in 1 .. n =>
                                                  (IF own[k] = "-m" THEN k + 2 ELSE k + 1) \in S
           reached == {k \in 1 .. n : \A S \in SUBSET (1 .. n) : Closed(S) => k \in S}
<1>1. input \in Seq(Tokens)
  BY DEF ArgumentInv
<1>2. own \in Seq(Tokens) /\ n \in Nat
  BY <1>1, OwnType
<1>3. ExplicitModel(input) = LastNamed(1, own, Missing)
  BY <1>1, ModelIsLast
<1> HIDE DEF own
<1>4. \A S \in SUBSET (1 .. n) : Closed(S) <=> Goes(S)
  <2>1. \A k \in 1 .. n : next[k] = IF own[k] = "-m" THEN k + 2 ELSE k + 1
    BY DEF AfterModel
  <2> HIDE DEF next
  <2> QED
    BY <2>1
<1>5. reached = Places(1, own, next)
  <2>1. CASE n = 0
    <3>1. 1 .. n = {} /\ 1 \notin 1 .. n
      BY <2>1
    <3> QED
      BY <3>1 DEF Places
  <2>2. CASE n # 0
    <3>1. 1 \in 1 .. n
      BY <1>2, <2>2
    <3>2. Places(1, own, next) = {k \in 1 .. n : \A S \in SUBSET (1 .. n) : Goes(S) => k \in S}
      BY <3>1 DEF Places, ReachedFrom
    <3> HIDE DEF Closed, Goes
    <3> QED
      BY <1>4, <3>2
  <2> QED
    BY <2>1, <2>2
<1>6. Reached(own, LAMBDA k : IF own[k] = "-m" THEN k + 2 ELSE k + 1) = reached
  BY DEF Reached
<1>7. ModelIsTheLastNamed <=>
        LET names == {k \in reached : own[k] \in {"-m", "--model=v"}}
        IN ExplicitModel(input) = IF names = {} THEN Missing ELSE Named(Max(names), own)
  BY <1>6 DEF ModelIsTheLastNamed, Named, own
<1>8. {k \in reached : own[k] \in {"-m", "--model=v"}} = NamesFrom(1, own)
  BY <1>5 DEF NamesFrom
<1> HIDE DEF reached
<1> QED
  BY <1>3, <1>7, <1>8 DEF LastNamed

\* What Codex is refused.
LEMMA ExecIsUnderstood ==
  ASSUME ArgumentInv PROVE ExecIsRefused
<1> SUFFICES ASSUME kind = "codex", Command("codex", input) # Missing PROVE ExecIsRefused
  BY DEF ExecIsRefused
<1> DEFINE c == Command("codex", input)
           args == c.args
           n == Len(args)
           next == AfterExec(args)
           Following(k) == IF ~IsOption(args[k]) \/ args[k] = "--" THEN 0 ELSE AfterOption(k, args)
           Goes(S) == 1 \in S /\ \A k \in S : next[k] \in 1 .. n => next[k] \in S
           Closed(S) == 1 \in S /\ \A k \in S : Following(k) \in 1 .. n => Following(k) \in S
           reached == {k \in 1 .. n : \A S \in SUBSET (1 .. n) : Closed(S) => k \in S}
<1>1. input \in Seq(Tokens)
  BY DEF ArgumentInv
<1>2. args \in Seq(Tokens)
  <2>1. CASE Len(input) > 0 /\ input[1] = "--"
    <3>1. args = SubSeq(input, 3, Len(input)) /\ Len(input) # 1
      BY <2>1 DEF Command
    <3>2. SubSeq(input, 3, Len(input)) \in Seq(Tokens)
      BY <1>1, <2>1, <3>1
    <3> QED
      BY <3>1, <3>2
  <2>2. CASE ~(Len(input) > 0 /\ input[1] = "--")
    <3>1. args = input
      BY <2>2 DEF Command
    <3> QED
      BY <1>1, <3>1
  <2> QED
    BY <2>1, <2>2
<1>3. n \in Nat
  BY <1>2
<1>4. Refused(input) <=> c.program = "codex" /\ HasExec(args)
  BY DEF Refused
<1> HIDE DEF c
<1>5. HasExec(args) <=> \E k \in Places(1, args, next) : args[k] = "exec"
  BY <1>3, ExecIsReached
<1>6. \A S \in SUBSET (1 .. n) : Closed(S) <=> Goes(S)
  <2>1. \A k \in 1 .. n : next[k] = Following(k)
    BY DEF AfterExec
  <2> HIDE DEF next, Following
  <2> QED
    BY <2>1
<1>7. reached = Places(1, args, next)
  <2>1. CASE n = 0
    <3>1. 1 .. n = {} /\ 1 \notin 1 .. n
      BY <2>1
    <3> QED
      BY <3>1 DEF Places
  <2>2. CASE n # 0
    <3>1. 1 \in 1 .. n
      BY <1>3, <2>2
    <3>2. Places(1, args, next) = {k \in 1 .. n : \A S \in SUBSET (1 .. n) : Goes(S) => k \in S}
      BY <3>1 DEF Places, ReachedFrom
    <3> HIDE DEF Closed, Goes
    <3> QED
      BY <1>6, <3>2
  <2> QED
    BY <2>1, <2>2
<1>8. ExecIsRefused <=> (Refused(input) <=> c.program = "codex" /\ \E k \in reached : args[k] = "exec")
  BY DEF ExecIsRefused, Reached, AfterOption, NextOption, IsValueAt, c
<1> HIDE DEF reached, next
<1> QED
  BY <1>4, <1>5, <1>7, <1>8

\* What the wrapped program's own arguments change.
LEMMA ChildArgsAreUnread ==
  ASSUME ArgumentInv PROVE ChildArgsAreOpaque
<1> SUFFICES ASSUME kind \in {"claude", "codex"}, NEW n \in Boundary(input) .. Len(input)
             PROVE  LET cut == SubSeq(input, 1, n)
                    IN /\ ExplicitModel(cut) = ExplicitModel(input)
                       /\ input[1] # "--" => UsesStreamRunner(cut) = UsesStreamRunner(input)
  BY DEF ChildArgsAreOpaque
<1> DEFINE cut == SubSeq(input, 1, n)
<1>1. input \in Seq(Tokens)
  BY DEF ArgumentInv
<1>2. Boundary(input) \in 1 .. Len(input) + 1
  BY <1>1, BoundaryType
<1>3. n \in 1 .. Len(input)
  BY <1>1, <1>2
<1>4. cut \in Seq(Tokens) /\ Len(cut) > 0 /\ cut[1] = input[1] /\ Len(input) > 0
  BY <1>1, <1>3
<1>5. BeforeBoundary(cut) = BeforeBoundary(input)
  BY <1>1, BoundaryOfCut
<1> HIDE DEF cut
<1>6. ExplicitModel(cut) = ExplicitModel(input)
  <2>1. ExplicitModel(cut) = LastNamed(1, BeforeBoundary(cut), Missing)
    BY <1>4, ModelIsLast
  <2>2. ExplicitModel(input) = LastNamed(1, BeforeBoundary(input), Missing)
    BY <1>1, ModelIsLast
  <2> QED
    BY <1>5, <2>1, <2>2
<1>7. ASSUME input[1] # "--" PROVE UsesStreamRunner(cut) = UsesStreamRunner(input)
  <2>1. /\ Command("claude", cut) = [program |-> "claude", args |-> cut]
        /\ Command("claude", input) = [program |-> "claude", args |-> input]
    BY <1>4, <1>7 DEF Command
  <2>2. Command("claude", cut) # Missing /\ Command("claude", input) # Missing
    BY <1>1, <1>4, <2>1, MissingAssumption DEF Programs
  <2>3. /\ Command("claude", cut).program = Command("claude", input).program
        /\ BeforeBoundary(Command("claude", cut).args) = BeforeBoundary(Command("claude", input).args)
    BY <1>5, <2>1
  <2> QED
    BY <2>2, <2>3 DEF UsesStreamRunner
<1> QED
  BY <1>6, <1>7 DEF cut

\* The program takes from its command line what its user and the wrapped program
\* mean, however many arguments there are.
THEOREM ArgumentsMeanWhatTheySay == Spec => []ArgumentsAreUnderstood
<1>1. IInv => ArgumentsAreUnderstood
  BY ModelIsUnderstood, ExecIsUnderstood, ChildArgsAreUnread DEF IInv, ArgumentsAreUnderstood
<1> QED
  BY <1>1, InputsInvariantHolds, PTL
===============================================================================
