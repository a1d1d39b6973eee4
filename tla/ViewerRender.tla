------------------------------ MODULE ViewerRender ------------------------------
(***************************************************************************)
(* What a viewer makes of the logger's stream on its terminal: lines of    *)
(* the log above a footer with the last status, and only the lines when    *)
(* the terminal does not take the control sequences: render_stream.        *)
(*                                                                         *)
(* A message is a line, told by its number, or a frame with a status, None *)
(* when it cannot be decoded.  Of the calls to the terminal, told by their *)
(* number, the one `fault.at` fails, with a broken pipe or otherwise.      *)
(***************************************************************************)
EXTENDS Integers, SequencesExt

CONSTANT NoStatus

Line(n) == [frame |-> FALSE, line |-> n, status |-> NoStatus]
Frame(status) == [frame |-> TRUE, line |-> 0, status |-> status]

-------------------------------------------------------------------------------
\* The rendering so far: `over` when it returned an error.
Rendering(status, interactive) ==
  [status |-> status, interactive |-> interactive, footer |-> NoStatus,
   shown |-> <<>>, calls |-> 0, over |-> FALSE]

Fails(r, fault) == r.calls + 1 = fault.at

\* A control sequence that leaves this footer; fall_back_on_render_error.
Control(r, footer, fault) ==
  LET next == [r EXCEPT !.calls = @ + 1]
  IN IF r.over \/ ~r.interactive THEN r
     ELSE IF ~Fails(r, fault) THEN [next EXCEPT !.footer = footer]
     ELSE IF fault.pipe THEN [next EXCEPT !.over = TRUE]
     ELSE [next EXCEPT !.interactive = FALSE]

\* The line itself: any error ends the rendering.
Write(r, n, fault) ==
  IF r.over THEN r
  ELSE [r EXCEPT !.calls = @ + 1, !.over = Fails(r, fault),
                 !.shown = IF Fails(r, fault) THEN @ ELSE Append(@, n)]

Draw(r, fault) == Control(r, r.status, fault)
Erase(r, fault) == Control(r, NoStatus, fault)

\* Not the code: the footer is drawn before the frame is taken over.
ShowFrameLate(r, m, fault) ==
  IF m.status = NoStatus THEN r
  ELSE [Draw(r, fault) EXCEPT !.status = m.status]

ShowFrame(r, m, fault) ==
  IF m.status = NoStatus THEN r
  ELSE Draw([r EXCEPT !.status = m.status], fault)

ShowLine(r, m, fault) == Draw(Write(Erase(r, fault), m.line, fault), fault)

Show(r, m, fault) == IF m.frame THEN ShowFrame(r, m, fault) ELSE ShowLine(r, m, fault)

\* render_stream up to the message that was read last.
Render(initial, interactive, messages, fault) ==
  FoldLeft(LAMBDA r, m : Show(r, m, fault),
           Draw(Rendering(initial, interactive), fault), messages)
===============================================================================
