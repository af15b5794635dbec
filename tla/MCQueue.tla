------------------------------ MODULE MCQueue ------------------------------
(***************************************************************************)
(* JobQueue for TLC: a job with a bad phone number, one whose data lacks   *)
(* what its handler insists on, and a sound one.                           *)
(***************************************************************************)
EXTENDS JobQueue

CONSTANTS bad, empty, ok1

\* The last part each handler asks for.
LastPart == CASE Queue = "whatsapp-text"     -> "text"
              [] Queue = "whatsapp-buttons"  -> "buttons"
              [] Queue = "whatsapp-list"     -> "sections"
              [] Queue = "whatsapp-image"    -> "imageUrl"
              [] Queue = "whatsapp-document" -> "fileName"

MissingParts == [j \in Jobs |-> IF j = empty THEN {LastPart} ELSE {}]
=============================================================================
