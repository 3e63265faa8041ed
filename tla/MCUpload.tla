------------------------------ MODULE MCUpload ------------------------------
EXTENDS UploadProperties

Headers(name, filename, base64) == [name |-> name, filename |-> filename, base64 |-> base64]

(* Fields with a name of one character or none at all; files that are      *)
(* started, rejected for their file name, unnamed, or with an empty name.  *)
AField == Headers({1}, "absent", FALSE)
Nameless == Headers({}, "absent", FALSE)
AFile == Headers({1}, "usable", FALSE)
Encoded == Headers({1}, "usable", TRUE)
Rejected == Headers({1}, "unusable", FALSE)
Unnamed == Headers({}, "usable", FALSE)
EmptyName == Headers({0}, "usable", FALSE)

EncodedField == Headers({1}, "absent", TRUE)

LimitParts == {AField, EncodedField, Nameless, AFile, Rejected, Unnamed}

(* An encoded file does whatever a plain one does, its chunks the data.    *)
HandlerParts == {AField, Encoded, EmptyName}

NoMaximum == {}
One == {1}
Two == {2}
Four == {4}
Six == {6}
Eight == {8}
=============================================================================
