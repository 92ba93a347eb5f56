--------------------------- MODULE MCConvertSession ---------------------------
(***************************************************************************)
(* Small files for the whole of `convert`: calls and results with ids used *)
(* again, and every line and block that the parser passes over; and        *)
(* trajectories of up to two steps with content parts of every kind, which *)
(* the Claude parser never builds but a trajectory may have.               *)
(***************************************************************************)
EXTENDS MCClaudeParser, ConvertSession

\* Calls in one record and in several, spoken and silent; results before their call,
\* unidentified, twice, out of order, alone and beside text; and records without a time.
CorrelationLines ==
    {[Agent EXCEPT !.blocks = <<Use(a)>>],
     [Agent EXCEPT !.blocks = <<Text, Use(b), Use(a)>>, !.timestamp = "absent"],
     [Turn EXCEPT !.blocks = <<Res(a)>>],
     [Turn EXCEPT !.blocks = <<Res(b), Text, [Res(a) EXCEPT !.is_error = "true"]>>],
     [Turn EXCEPT !.blocks = <<Res(noCall), Res(a)>>, !.timestamp = "absent"],
     [Turn EXCEPT !.content = "string", !.text = TRUE, !.type = "system", !.role = "system"]}

\* Lines that are not converted, or end the conversion, and blocks that are not.
SkippedLines ==
    {[Turn EXCEPT !.shape = s] : s \in {"malformed", "value"}}
    \cup {[Turn EXCEPT !.type = t] : t \in {"mode", "unhashable"}}
    \cup {[Turn EXCEPT !.role = r] : r \in {"other", "unhashable"}}
    \cup {[Agent EXCEPT !.message = FALSE],
          [Turn EXCEPT !.meta = [None EXCEPT !["sessionId"] = "list"]],
          [Agent EXCEPT !.blocks = <<Res(a), [Use(b) EXCEPT !.valid = FALSE], Use(a)>>],
          [Agent EXCEPT !.blocks = <<Use(" "), Use(b)>>],
          [Turn EXCEPT !.blocks = <<Blk("thinking"), Res(b), Res(" ")>>]}

ConvertLines == CorrelationLines \cup SkippedLines

\* Bound: they occur in files of up to three lines only.
SkippedInShortFiles == Len(log) <= 3 \/ \A n \in DOMAIN log : log[n] \in CorrelationLines

Contents == {<<>>, <<"text">>, <<"empty", "text">>, <<"image", "empty">>}

Steps ==
    {[source |-> s, timestamp |-> 0, message |-> m, tool_calls |-> <<>>, observation |-> <<>>] :
        s \in {"user", "system"}, m \in Contents}
    \cup {[source |-> "agent", timestamp |-> 0, message |-> m, tool_calls |-> <<a>>,
           observation |-> [n \in DOMAIN o |-> [content |-> o[n]]]] :
        m \in Contents, o \in {<<>>} \cup {<<c>> : c \in Contents} \cup {<<c, d>> : c, d \in Contents}}

MCTrajectories == {<<s>> : s \in Steps} \cup {<<s, t>> : s, t \in Steps}
=============================================================================
