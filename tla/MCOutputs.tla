----------------------------- MODULE MCOutputs -----------------------------
(* Values of the constants of Outputs for TLC. *)
EXTENDS Outputs

CONSTANTS watch, report, here, there

\* A watchdog, and an agent that reports on what it has found.
MCVector == <<watch, report>>

MCDefs == [j \in {watch, report} |->
    IF j = watch
    THEN [executor |-> "shell", prompt |-> <<>>, script |-> TRUE, context |-> None]
    ELSE [executor |-> "codex", prompt |-> <<"other half">>, script |-> FALSE,
          context |-> watch]]

MCUrl(host) == [user |-> TRUE, host |-> host, port |-> FALSE]

MCSpecs == [j \in {watch, report} |->
    IF j = watch
    THEN <<[kind |-> "webhook"], [kind |-> "file"], [kind |-> "url", url |-> MCUrl(there)]>>
    ELSE <<>>]

MCDefaults == {None, MCUrl(here)}
MCAllowlists == {{}, {there}}

\* The watchdog prints a pattern over two lines, the first half of one, or the
\* silent gate; the agent decides, on stderr or by a broken line mended later.
MCChildren == [j \in {watch, report} |->
    IF j = watch
    THEN { [ok |-> TRUE,  stdout |-> <<"half", "blank", "other half">>, stderr |-> <<>>],
           [ok |-> TRUE,  stdout |-> <<"plain">>, stderr |-> <<"half">>],
           [ok |-> FALSE, stdout |-> <<"blank", "wake false">>, stderr |-> <<>>] }
    ELSE { [ok |-> TRUE,  stdout |-> <<"json", "cut schema", "continue">>, stderr |-> <<>>],
           [ok |-> FALSE, stdout |-> <<"cut">>, stderr |-> <<"backoff", "stop">>] }]

=============================================================================
