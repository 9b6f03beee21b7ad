------------------------------ MODULE Decision ------------------------------
(***************************************************************************)
(* How an event loop finds the decision of a run in a text (core           *)
(* event_loop.rs).  A text is the sequence of its lines, and a line what   *)
(* the two parsers can tell of it.  A value that is pretty-printed over    *)
(* several lines is one line here if it is the whole text, which is parsed *)
(* first, and otherwise a "cut" one among plain ones.  No state.           *)
(***************************************************************************)
EXTENDS Sequences, SequencesExt, Naturals

CONSTANT None

Actions == {"continue", "stop", "backoff", "fail"}

\* Lines with the schema: a decision, one with no event_loop in it, one where
\* that is no decision, one that is no JSON.
Schematic == Actions \cup {"no loop", "bad loop", "cut schema"}

\* Lines without: nothing, no brace, the two halves of an injection pattern
\* and a whole one, JSON of another kind, the silent gate, no JSON.
Plain == {"blank", "plain", "half", "other half", "poison",
          "json", "wake false", "cut"}

Line == Schematic \cup Plain
Text == Seq(Line)

\* None is a value of its own, and a line is a string.
ASSUME NoneIsNoLine == None \notin Line

-----------------------------------------------------------------------------

\* Some decision, or None when the value has another schema or none.
decision_from_value(line) ==
    IF line \in Actions THEN line
    ELSE IF line \in {"no loop", "bad loop"} THEN "fail"
    ELSE None

\* Defect: every line that is no JSON is noise.
OfLineLenient(line) == decision_from_value(line)

\* What the loop over the lines does with one of them.
OfLine(line) == IF line = "cut schema" THEN "fail" ELSE decision_from_value(line)

\* The first line that decides; none is a stop.
parse_event_loop_decision(text) ==
    LET first == SelectInSeq(text, LAMBDA line : OfLine(line) # None)
    IN  IF first = 0 THEN "stop" ELSE OfLine(text[first])

=============================================================================
