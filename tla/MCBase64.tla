------------------------------- MODULE MCBase64 -------------------------------
(* All texts of up to MaxLength characters: two groups and what may follow. *)
EXTENDS Base64Decoder

CONSTANT MaxLength

MCTexts == UNION {[1..n -> Character] : n \in 0..MaxLength}
=============================================================================
