--------------------------- MODULE MCHeaderOptions ---------------------------
(***************************************************************************)
(* Texts over the characters that the scans tell apart and one letter.     *)
(***************************************************************************)
EXTENDS HeaderOptions

MCChar == {QUOTE, BACKSLASH, SEMICOLON, EQUALS, SP, UPPER, LOWER}
=============================================================================
