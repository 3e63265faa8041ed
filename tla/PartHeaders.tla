----------------------------- MODULE PartHeaders -----------------------------
(***************************************************************************)
(* What the adapter reads of the raw header fields of a part: the loop of  *)
(* _parse_headers and the questions that _begin_part asks of its result.   *)
(*                                                                         *)
(* One byte stands for each header name that is asked for, and one for     *)
(* each fact of a value that is: a value has a NAME byte if it has a name  *)
(* parameter and one more for every character of that (which may be empty),*)
(* a FILENAME byte if it has a file name, and an UNUSABLE byte if          *)
(* sanitize_file_name rejects that.  A field with an UNDECODABLE byte      *)
(* fails to decode or to be parsed.                                        *)
(***************************************************************************)
EXTENDS MultipartBytes, FiniteSetsExt

CONSTANTS DISPOSITION, ENCODING,      \* the names content-disposition and
                                      \* content-transfer-encoding
          NAME, FILENAME, UNUSABLE,   \* what a disposition says
          BASE64,                     \* the encoding base64
          UNDECODABLE

ASSUME PartHeadersAssumption ==
  {DISPOSITION, ENCODING, NAME, FILENAME, UNUSABLE, BASE64, UNDECODABLE} \subseteq Byte

Has(bytes, byte) == \E i \in DOMAIN bytes : bytes[i] = byte

Decodable(field) == ~Has(field.name, UNDECODABLE) /\ ~Has(field.value, UNDECODABLE)

(* The first field of a name is kept.                                      *)
Stored_First(found, field) ==
  LET key == TrimEnd(field.name, {SP})
  IN  IF ~Decodable(field) THEN found
      ELSE [name \in DOMAIN found \cup {key} |->
              IF name \in DOMAIN found THEN found[name] ELSE field.value]

(* headers[name] = value                                                   *)
Stored(found, field) ==
  LET key == TrimEnd(field.name, {SP})
  IN  IF ~Decodable(field) THEN found
      ELSE [name \in DOMAIN found \cup {key} |->
              IF name = key THEN field.value ELSE found[name]]

ParseHeaders(fields) ==
  LET found[n \in 0..Len(fields)] ==
        IF n = 0 THEN <<>> ELSE Stored(found[n - 1], fields[n])
  IN  found[Len(fields)]

Get(found, name) == IF name \in DOMAIN found THEN found[name] ELSE <<>>

(* The record of a part that UploadAdapter calls its header block.         *)
PartOf(fields) ==
  LET found == ParseHeaders(fields)
      disposition == Get(found, <<DISPOSITION>>)
      named == Cardinality({i \in DOMAIN disposition : disposition[i] = NAME})
  IN  [name |-> IF named = 0 THEN {} ELSE {named - 1},
       filename |-> CASE ~Has(disposition, FILENAME) -> "absent"
                      [] Has(disposition, FILENAME) /\ Has(disposition, UNUSABLE) -> "unusable"
                      [] OTHER -> "usable",
       base64 |-> Get(found, <<ENCODING>>) = <<BASE64>>]
=============================================================================
