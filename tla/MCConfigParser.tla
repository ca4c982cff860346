--------------------------- MODULE MCConfigParser ---------------------------
(* Instances of ConfigParser: every file of a few characters.  "w" stands    *)
(* for any character that the parser does not single out.                    *)
EXTENDS ConfigParser

Plain == {"w", "sp", "semi", "lbrace", "rbrace"}

\* "tab" is left out: no state tells "tab" from "sp".
All == Plain \cup {"nl", "cr", "dq", "sq", "hash"}
=============================================================================
