--------------------------- MODULE MCExplainSession ---------------------------
(***************************************************************************)
(* Files for the report: responses that repeat their usage, calls answered *)
(* never, once, twice and in error, an id used again, results without a    *)
(* call, and losses of every section of the report beside clean records.   *)
(***************************************************************************)
EXTENDS MCClaudeParser, ExplainSession

MCTokens == [u \in {u1, u2} |-> IF u = u1 THEN 1 ELSE 10]

Untimed(l) == [l EXCEPT !.timestamp = "absent"]

ExplainLines ==
    {[Agent EXCEPT !.id = m1, !.usage = u1, !.blocks = <<Use(a)>>],
     [Agent EXCEPT !.id = m1, !.usage = u2, !.blocks = <<Text, Use(b), Use(a)>>],
     Untimed([Turn EXCEPT !.blocks = <<Res(a)>>]),
     Untimed([Turn EXCEPT !.blocks = <<[Res(b) EXCEPT !.is_error = "true"], Text, Res(a)>>]),
     Untimed([Turn EXCEPT !.blocks = <<[Res(a) EXCEPT !.is_error = "true"]>>]),
     [Turn EXCEPT !.blocks = <<[Res(a) EXCEPT !.is_error = "affirmed", !.items = <<"text", "image">>],
                               Res(noCall)>>, !.ignored = {f1}],
     [Turn EXCEPT !.content = "string", !.text = TRUE, !.type = "system", !.role = "system",
                  !.timestamp = "invalid"],
     [Turn EXCEPT !.type = "mode", !.message = FALSE],
     [Turn EXCEPT !.type = "unhashable"]}
    \cup (UsageLines \ {[Agent EXCEPT !.id = noMessage, !.usage = u2],
                        [Turn EXCEPT !.content = "string", !.text = TRUE]})
=============================================================================
