------------------------------ MODULE MCVerifier ------------------------------
(***************************************************************************)
(* Small sources for the verifier: calls that are usable, unusable and in  *)
(* the wrong place; results before, after and without their call, several  *)
(* for one id, with every kind of time, and in a record that the parser    *)
(* does not convert; and every reason for a record to be unsupported.      *)
(***************************************************************************)
EXTENDS MCClaudeParser, Verifier

VerifierLines ==
    {[Agent EXCEPT !.blocks = <<Use(a), Use(b)>>],
     [Agent EXCEPT !.blocks = <<Use(a), [Use(b) EXCEPT !.valid = FALSE], Use(" ")>>],
     [Turn EXCEPT !.blocks = <<Res(a)>>],
     [Turn EXCEPT !.blocks = <<Res(b), Text, Res(a)>>, !.timestamp = "absent"],
     [Turn EXCEPT !.blocks = <<Res(b), Res(noCall), Res(" ")>>, !.timestamp = "invalid"],
     [Turn EXCEPT !.blocks = <<Res(a), Use(b)>>, !.type = "attachment"],
     [Agent EXCEPT !.blocks = <<Use(b)>>, !.type = "progress"],
     [Turn EXCEPT !.shape = "malformed"],
     [Turn EXCEPT !.type = "system", !.message = FALSE],
     [Turn EXCEPT !.role = "other"],
     [Turn EXCEPT !.role = "unhashable"]}
=============================================================================
