------------------------------ MODULE CommandLine ------------------------------
(***************************************************************************)
(* What botsitter makes of the arguments after the provider's name: the    *)
(* program to run, the model it shows, the runner it takes, and whether    *)
(* Codex is asked for something else than an interactive session.          *)
(*                                                                         *)
(* An argument is a string of Options, a name of a program, a value, or    *)
(* Raw, which is not UTF-8.  One option stands for all of its kind.        *)
(***************************************************************************)
EXTENDS Integers, Sequences

CONSTANTS Missing, Raw

Options == {"--", "-i", "-c", "-m", "--model=v", "-x", "-p", "--output-format",
            "--output-format=stream-json"}
Programs == {"codex", "claude"}

ASSUME RawAssumption == Raw \notin Options \cup {"exec"}

\* The arguments before the first "--" from a place on.
Boundary(args) ==
  CHOOSE k \in 1 .. Len(args) + 1 :
    /\ k = Len(args) + 1 \/ args[k] = "--"
    /\ \A i \in 1 .. k - 1 : args[i] # "--"

BeforeBoundary(args) == SubSeq(args, 1, Boundary(args) - 1)

-------------------------------------------------------------------------------
\* command_from_args: after a leading "--" comes a command of the user's own.
Command(default, args) ==
  IF Len(args) > 0 /\ args[1] = "--"
    THEN IF Len(args) = 1 THEN Missing
         ELSE [program |-> args[2], args |-> SubSeq(args, 3, Len(args))]
    ELSE [program |-> default, args |-> args]

\* What the word after a "-m" stands for.
Value(arg) == IF arg = Raw THEN Missing ELSE arg

\* explicit_model: the last model named before the boundary; an option without
\* its value makes it none at all.  The scan goes on at a place with the model so far.
ExplicitModel(args) ==
  LET models == {Missing, "v"} \cup {args[i] : i \in 1 .. Len(args)}
      scan[x \in (1 .. Len(args) + 2) \X models] ==
        LET k == x[1]
        IN IF k > Len(args) THEN x[2]
           ELSE IF args[k] = "--" THEN x[2]
           ELSE IF args[k] = "-m"
             THEN IF k = Len(args) THEN Missing
                  ELSE IF args[k + 1] = "--" THEN Missing
                  ELSE scan[<<k + 2, Value(args[k + 1])>>]
           ELSE scan[<<k + 1, IF args[k] = "--model=v" THEN "v" ELSE x[2]>>]
  IN scan[<<1, Missing>>]

IsOption(arg) == arg \in Options

\* option_takes_separate_value
TakesValue(arg) == arg \in {"-c", "-m", "-p"}

\* Not the code: the value of an option is taken for an argument of its own.
ExecAfterFlags(args) ==
  LET scan[k \in 1 .. Len(args) + 1] ==
        IF k > Len(args) THEN FALSE
        ELSE IF args[k] \in {Raw, "--"} THEN FALSE
        ELSE IF args[k] = "exec" THEN TRUE
        ELSE IsOption(args[k]) /\ scan[k + 1]
  IN scan[1]

\* has_exec_subcommand
HasExec(args) ==
  LET values[k \in 1 .. Len(args) + 1] ==
        IF k <= Len(args) /\ (args[k] = Raw \/ ~IsOption(args[k])) THEN values[k + 1] ELSE k
      scan[k \in 1 .. Len(args) + 2] ==
        IF k > Len(args) THEN FALSE
        ELSE IF args[k] \in {Raw, "--"} THEN FALSE
        ELSE IF args[k] = "exec" THEN TRUE
        ELSE IF ~IsOption(args[k]) THEN FALSE
        ELSE IF args[k] = "-i" THEN scan[values[k + 1]]
        ELSE scan[IF TakesValue(args[k]) THEN k + 2 ELSE k + 1]
  IN scan[1]

\* codex::command
Refused(args) ==
  LET command == Command("codex", args)
  IN command = Missing \/ (command.program = "codex" /\ HasExec(command.args))

\* claude::runner
UsesStreamRunner(args) ==
  LET command == Command("claude", args)
      own == BeforeBoundary(command.args)
      Has(arg) == \E i \in 1 .. Len(own) : own[i] = arg
  IN /\ command # Missing /\ command.program = "claude"
     /\ Has("-p")
     /\ \/ Has("--output-format=stream-json")
        \/ \E i \in 1 .. Len(own) - 1 : own[i] = "--output-format" /\ own[i + 1] = "stream-json"
===============================================================================
