--------------------------- MODULE MCTraceSanitizer ---------------------------
(***************************************************************************)
(* Every way for a line or a block not to be converted, with identifiers   *)
(* used again, usage, and every kind of content that the sanitizer treats  *)
(* on its own.  The pseudonyms are ids like others: a log may hold them.   *)
(***************************************************************************)
EXTENDS MCClaudeParser, TraceSanitizer

MCCallPseudonyms == <<b, a, "call-3", "call-4", "call-5", "call-6", "call-7", "call-8", "call-9">>
SanitizerCallIds == Range(MCCallPseudonyms)
MCMessagePseudonyms == <<m2, m1>>

WithItems(items) == [Turn EXCEPT !.blocks = <<[Res(a) EXCEPT !.items = items]>>]

SanitizerLines ==
    LossLines
    \cup {WithItems(i) : i \in {<<"text", "untyped">>, <<"bare_image">>, <<"untyped", "other">>}}
    \cup {[Agent EXCEPT !.blocks = <<[Blk("thinking") EXCEPT !.valid = FALSE], Use(a), Use(b)>>,
                        !.id = m1, !.usage = u1],
          [Agent EXCEPT !.blocks = <<Use(b)>>, !.id = m2, !.usage = u1],
          [Turn EXCEPT !.blocks = <<[Res(b) EXCEPT !.is_error = "affirmed"], Text, Res(a)>>],
          [Agent EXCEPT !.blocks = <<Use(" "), Use(a)>>],
          [Agent EXCEPT !.blocks = <<[Use(" ") EXCEPT !.valid = FALSE]>>],
          [Turn EXCEPT !.blocks = <<Res(" "), Res(a), Use(" ")>>],
          [Turn EXCEPT !.meta = [None EXCEPT !["sessionId"] = "list", !["cwd"] = "list"]]}

\* The lines that are JSON objects: no doubt can be about what a line is.
ObjectLines == {l \in SanitizerLines : l.shape = "object"}
=============================================================================
