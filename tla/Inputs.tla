--------------------------------- MODULE Inputs ---------------------------------
(***************************************************************************)
(* The pure parts of the program next to what they should compute: every   *)
(* behaviour lets one kind of input grow, the invariants compare.          *)
(*                                                                         *)
(* A command line gets one argument more, a stream to a viewer one message *)
(* more, a Claude message is logged a tick later, a Codex record is read a *)
(* moment later.                                                           *)
(***************************************************************************)
EXTENDS CommandLine, ResetTime, ViewerRender, CodexRecord

CONSTANTS
  CodexTokens, ClaudeTokens,  \* arguments
  MaxArgs, MaxMessages, MaxCalls, MaxTime, LastLog  \* bounds

\* Messages are logged within the calendar, but for its last day.
ASSUME LogAssumption == LastLog \in Nat /\ LastLog + Day + Hour < Cardinality(Dates) * Day

Tokens == CodexTokens \cup ClaudeTokens

\* No command is the missing one.
ASSUME MissingAssumption == Missing \notin [program : Tokens \cup Programs, args : Seq(Tokens)]

VARIABLES kind, input
vars == <<kind, input>>

Messages == [dated : {FALSE}, month : {1}, day : {1}, hour : 0 .. HalfDay + 1,
             minute : 0 .. HourMinutes, period : {"am", "pm"}]
       \cup [dated : {TRUE}, month : Months \cup {0}, day : 1 .. MonthDays + 1, hour : {1, HalfDay},
             minute : {0, 1}, period : {"am", "pm"}]

Windows == [full : BOOLEAN, reset : 0 .. MaxTime \cup {None}]
Records == [kind : {"other", "token_count", "malformed"}, limits : BOOLEAN,
            time : {0, None}, windows : {{v, w} : v, w \in Windows} \cup {{}}]

Init ==
  \/ kind \in {"claude", "codex"} /\ input = <<>>
  \/ /\ kind = "stream"
     /\ input \in [interactive : BOOLEAN, messages : {<<>>}, lines : {0},
                   fault : [at : 0 .. MaxCalls, pipe : BOOLEAN]]
  \/ kind = "message" /\ input \in [log : {0}, text : Messages]
  \/ kind = "record" /\ input \in [at : {0}, record : Records]

AddArgument ==
  /\ kind \in {"claude", "codex"} /\ Len(input) < MaxArgs
  /\ \E a \in IF kind = "codex" THEN CodexTokens ELSE ClaudeTokens : input' = Append(input, a)
  /\ UNCHANGED kind

AddLine ==
  /\ kind = "stream" /\ Len(input.messages) < MaxMessages
  /\ input' = [input EXCEPT !.lines = @ + 1, !.messages = Append(@, Line(input.lines + 1))]
  /\ UNCHANGED kind

AddFrame ==
  /\ kind = "stream" /\ Len(input.messages) < MaxMessages
  /\ \E s \in {"limited", "resuming", NoStatus} :
       input' = [input EXCEPT !.messages = Append(@, Frame(s))]
  /\ UNCHANGED kind

LogLater ==
  /\ kind = "message" /\ input.log < LastLog
  /\ input' = [input EXCEPT !.log = @ + 1]
  /\ UNCHANGED kind

ReadLater ==
  /\ kind = "record" /\ input.at < MaxTime
  /\ input' = [input EXCEPT !.at = @ + 1]
  /\ UNCHANGED kind

Next == AddArgument \/ AddLine \/ AddFrame \/ LogLater \/ ReadLater
Spec == Init /\ [][Next]_vars

-------------------------------------------------------------------------------
\* The places at which reading the arguments from left to right stops, when the
\* argument at place k and its values take Next(k) places: the members of every
\* set of places that has the first and is closed under going on.
Reached(args, Following(_)) ==
  LET places == 1 .. Len(args)
      Closed(S) == 1 \in S /\ \A k \in S : Following(k) \in places => Following(k) \in S
  IN {k \in places : \A S \in SUBSET places : Closed(S) => k \in S}

\* The model shown in the manifest is the last one that is named before the
\* boundary, where the word after a "-m" is its value whatever it looks like; a
\* "-m" without a value leaves none.
ModelIsTheLastNamed ==
  kind \in {"claude", "codex"} =>
    LET own == BeforeBoundary(input)
        names == {k \in Reached(own, LAMBDA k : IF own[k] = "-m" THEN k + 2 ELSE k + 1) :
                    own[k] \in {"-m", "--model=v"}}
        Named(k) == IF own[k] = "--model=v" THEN "v"
                    ELSE IF k = Len(own) \/ own[k + 1] = Raw THEN Missing ELSE own[k + 1]
    IN ExplicitModel(input) = IF names = {} THEN Missing ELSE Named(Max(names))

\* Codex is refused exactly when "exec" is its subcommand: the first argument
\* that is no option, no option's value and no image, with none before it that
\* could not be read.
ExecIsRefused ==
  kind = "codex" /\ Command("codex", input) # Missing =>
    LET c == Command("codex", input)
        args == c.args
        IsValue(k) == args[k] = Raw \/ ~IsOption(args[k])
        After(k) == LET later == {j \in k + 1 .. Len(args) : ~IsValue(j)}
                    IN IF later = {} THEN Len(args) + 1 ELSE Min(later)
        Following(k) ==
          IF ~IsOption(args[k]) \/ args[k] = "--" THEN 0
          ELSE IF args[k] = "-i" THEN After(k)
          ELSE IF TakesValue(args[k]) THEN k + 2 ELSE k + 1
    IN Refused(input) <=>
         c.program = "codex" /\ \E k \in Reached(args, Following) : args[k] = "exec"

\* What follows the boundary belongs to the wrapped command: neither the model
\* in the manifest nor the choice of Claude's runner depends on it.
ChildArgsAreOpaque ==
  kind \in {"claude", "codex"} =>
    \A n \in Boundary(input) .. Len(input) :
      LET cut == SubSeq(input, 1, n)
      IN /\ ExplicitModel(cut) = ExplicitModel(input)
         /\ input[1] # "--" => UsesStreamRunner(cut) = UsesStreamRunner(input)

\* What the program takes from its command line is what its user, and the
\* wrapped program, mean by it.
ArgumentsAreUnderstood == ModelIsTheLastNamed /\ ExecIsRefused /\ ChildArgsAreOpaque

Rendered == Render("none", input.interactive, input.messages, input.fault)

\* A terminal that does not take control sequences costs the footer and no line
\* of the log: all of them are shown, in their order.
EveryLineIsShown ==
  kind = "stream" /\ ~Rendered.over => Rendered.shown = [n \in 1 .. input.lines |-> n]

\* While the viewer waits for the next message the footer shows the last status
\* that could be decoded.
FooterIsCurrent ==
  kind = "stream" /\ ~Rendered.over /\ Rendered.interactive =>
    LET frames == {k \in 1 .. Len(input.messages) :
                     input.messages[k].frame /\ input.messages[k].status # NoStatus}
    IN Rendered.footer = IF frames = {} THEN "none" ELSE input.messages[Max(frames)].status

\* What a viewer shows is the log and the status, whatever the terminal can do.
ViewIsFaithful == EveryLineIsShown /\ FooterIsCurrent

\* The clock is not changed between two instants, nor in a day and an hour before
\* or after.
ClockIsStill(from, to) ==
  \A change \in {Forward, Back} : change \notin from - Day - Hour .. to + Day + Hour

\* What the local clock shows at an instant, on a dial of twelve hours.
Shows(instant, m) ==
  LET wall == Wall(instant)
      hour == (wall % Day) \div Hour
  IN /\ wall % Hour = m.minute * MinuteTicks
     /\ hour % HalfDay = m.hour % HalfDay
     /\ m.period = IF hour < HalfDay THEN "am" ELSE "pm"
     /\ m.dated => /\ DateOf(instant).month = m.month
                   /\ DateOf(instant).day = m.day

\* A time as a dial shows it.
IsReading(m) == m.hour \in 1 .. HalfDay /\ m.minute < HourMinutes

\* The reset is the first moment, from the message on, at which the clock shows
\* what the message names, noon and midnight and the ends of days, months and
\* years included; only around a change of the clock is it another, and a leap
\* day is not looked for beyond the next year.
ResetIsTheNextNamed ==
  kind = "message" /\ IsReading(input.text) =>
    LET target == ParseResetTime(input.log, input.text)
        named == {t \in Max({0, input.log - Grace}) .. Cardinality(Dates) * Day - 1 : Shows(t, input.text)}
    IN IF target = NoTime THEN input.text.dated
       ELSE ClockIsStill(input.log, target) => target = Min(named) + Grace

\* A reset lies at or after the message that names it, so that no limit is
\* cleared by the row that reports it, whatever year or month ends and although
\* the clock skips an hour; one named by its time is at most a day and an hour
\* away.  Only where the clock has just repeated an hour may it lie less than an
\* hour before the message, and the limit is cleared at once: the 24 hours that are
\* added to a time of day do not reach the message, or the year ends within the hour.
ResetIsNotBefore ==
  kind = "message" =>
    LET target == ParseResetTime(input.log, input.text)
        repeated == Back \in input.log - Day - Hour .. input.log
        newYear == DateOf(input.log + Hour).year # DateOf(input.log).year
    IN target # NoTime =>
         /\ target >= input.log
              \/ (repeated /\ (newYear \/ ~input.text.dated) /\ target >= input.log - Hour)
         /\ input.text.dated \/ target <= input.log + Day + Hour

\* A Codex session is locked until the last of the saturated windows is over,
\* free only if none is saturated, and a record that cannot tell is no update.
LockedUntilAllReset ==
  kind = "record" =>
    LET update == ParseRecord(input.record, input.at)
    IN update # None =>
         /\ update.target = None <=> Saturated(input.record) = {}
         /\ \A w \in Saturated(input.record) :
              input.at < w.reset /\ w.reset <= update.target

\* The rows of LimitUpdates are what the monitor's scans see of a record: of one
\* that can be read and has one reset, or none, they make the same at every time.
\* Only a record with several resets is worth nothing once the first is over.
RowStandsForRecord ==
  kind = "record" =>
    LET r == input.record
        resets == Resets(r)
        row == [time |-> r.time, reset |-> IF resets = {} THEN None ELSE Latest(resets)]
    IN /\ r.kind = "token_count" /\ r.limits /\ r.time # None
       /\ Cardinality(resets) <= 1 /\ None \notin resets
       => ParseRecord(r, input.at) = Interpret(row, input.at)

\* A Codex session is told free or locked as its records say, also where the
\* monitor is modelled with rows in their place.
RecordsAreUnderstood == LockedUntilAllReset /\ RowStandsForRecord
===============================================================================
