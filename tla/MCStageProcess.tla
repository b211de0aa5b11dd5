--------------------------- MODULE MCStageProcess ---------------------------
(* All commands of up to MaxLength characters of Chars.                    *)
EXTENDS StageProcess

CONSTANTS Chars, MaxLength, s, t

ShortCommands == UNION {[1..n -> Chars] : n \in 0..MaxLength}
=============================================================================
