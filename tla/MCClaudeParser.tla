---------------------------- MODULE MCClaudeParser ----------------------------
(***************************************************************************)
(* Small files for TLC: each run draws its lines from one of the sets      *)
(* below, chosen so that one question of the parser is asked in depth.     *)
(***************************************************************************)
EXTENDS ClaudeParserProperties

CONSTANTS a, b, noCall, m1, m2, noMessage, u1, u2, noUsage, x, y, noMeta, f1, f2

MCCallIds == {a, b}
MCMessageIds == {m1, m2}
MCUsages == {u1, u2}
MCBlankIds == {" "}
MCMetaValues == {x, y, "list"}
MCNotStrings == {"list"}
MCFields == {f1, f2}

None == [f \in MetaFields |-> noMeta]

\* A user record with one text, to be varied.
Turn == [shape |-> "object", type |-> "user", subtype |-> "none", message |-> TRUE,
         role |-> "user", timestamp |-> "valid", content |-> "list", text |-> FALSE,
         blocks |-> <<>>, model |-> "absent", usage |-> noUsage, id |-> noMessage,
         ignored |-> {}, meta |-> None]

Blk(kind) == [kind |-> kind, valid |-> TRUE, payload |-> TRUE, id |-> noCall,
              is_error |-> "none", items |-> <<>>]

Text == Blk("text")
Use(id) == [Blk("tool_use") EXCEPT !.id = id]
Res(id) == [Blk("tool_result") EXCEPT !.id = id]
Agent == [Turn EXCEPT !.type = "assistant", !.role = "assistant", !.model = "named"]

-----------------------------------------------------------------------------
\* Usage: responses in several records with equal, different and unusable usage,
\* unidentified, synthetic and without a model, around a turn of the user.
UsageLines ==
    {[Agent EXCEPT !.id = id, !.usage = u] : id \in {m1, noMessage}, u \in {u1, u2}}
    \cup {[Agent EXCEPT !.id = m2, !.usage = u1],
          [Agent EXCEPT !.id = m1],
          [Agent EXCEPT !.id = m1, !.usage = u1, !.model = "synthetic"],
          [Agent EXCEPT !.id = m1, !.usage = u2, !.model = "absent"],
          [Turn EXCEPT !.content = "string", !.text = TRUE]}

\* Loss: every way for a line or a block not to be converted.
LossLines ==
    {[Turn EXCEPT !.shape = s] : s \in {"malformed", "value"}}
    \cup {[Turn EXCEPT !.type = t] : t \in {"mode", "attachment", "progress", "untyped", "unhashable"}}
    \cup {[Turn EXCEPT !.type = "system", !.subtype = "turn_duration", !.message = FALSE],
          [Turn EXCEPT !.type = "assistant", !.message = FALSE, !.meta = [None EXCEPT !["version"] = x]],
          [Turn EXCEPT !.role = "other", !.meta = [None EXCEPT !["sessionId"] = x]],
          [Turn EXCEPT !.role = "unhashable"],
          [Turn EXCEPT !.content = "empty", !.timestamp = "invalid", !.ignored = {f1},
                       !.meta = [None EXCEPT !["sessionId"] = y, !["cwd"] = y]],
          [Turn EXCEPT !.content = "other", !.timestamp = "absent", !.ignored = {f1, f2}],
          [Turn EXCEPT !.blocks = <<Use(a), Blk("non_object"), [Text EXCEPT !.valid = FALSE]>>],
          [Turn EXCEPT !.blocks = <<[Res(a) EXCEPT !.items = <<"text", "image", "bare_image">>],
                                    [Blk("thinking") EXCEPT !.payload = FALSE]>>],
          [Agent EXCEPT !.blocks = <<Res(a), [Use(b) EXCEPT !.valid = FALSE], Use(a)>>,
                        !.timestamp = "invalid"]}
=============================================================================
