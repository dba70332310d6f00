----------------------------- MODULE MCEntities -----------------------------
(* Small instances of Entities for TLC.                                    *)
EXTENDS Entities, TLC

CONSTANTS a, b, c, amp, ref

(* Texts of three entities, so that a, b and c can refer to each other in  *)
(* circles of every length, to c twice, and to a predefined entity.        *)
MCThree == {<<Char, amp>>, <<b>>, <<c, c>>, <<a, amp>>}
(* Texts of two entities, none of them empty.                              *)
MCPairs == {<<Char>>, <<a>>, <<b>>, <<a, b>>, <<b, amp>>}
(* The same with the empty text.                                           *)
MCWithEmpty == MCPairs \cup {<<>>}

=============================================================================
