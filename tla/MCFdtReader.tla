----------------------------- MODULE MCFdtReader -----------------------------
(* A root, two names for nodes and one with a slash; the terminator, a     *)
(* control byte and the two characters that matter to quoting; one         *)
(* property holds strings and one does not.                                *)
EXTENDS FdtReader

MCNodeNames == {"", "a", "b", "a/b"}
MCParts == [name \in MCNodeNames |->
              CASE name = "" -> <<>>
                [] name = "a/b" -> <<"a", "b">>
                [] OTHER -> <<name>>]

MCPropNames == {"model", "reg"}
MCStringProps == {"model"}
MCBytes == {NUL, 1, Quote, Backslash}
=============================================================================
