------------------------------ MODULE MCStrPool ------------------------------
(* Instance of StrPool for TLC: a block of a few bytes.                      *)
EXTENDS StrPool, TLC

CONSTANTS a, b, c

\* b leaves little of the block, and c is larger than it.
Length  == (a :> 1) @@ (b :> Size - 4) @@ (c :> Size + 1) @@ (Key :> 1)
MCBytes == [s \in Strings \cup {Key} |-> Length[s]]

\* Three strings are too much for the block, two are not.
Thirds == [s \in Strings \cup {Key} |-> Size \div 3]

\* Two strings that hash alike, and none.
Colliding == [s \in Strings |-> IF s = b THEN a ELSE s]
Distinct  == [s \in Strings |-> s]
=============================================================================
