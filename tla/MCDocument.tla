----------------------------- MODULE MCDocument -----------------------------
(* Small instances of Document for TLC.                                    *)
EXTENDS Document, TLC

CONSTANTS d1, d2

(* Options of the model: a limit that a document may meet and a larger one. *)
MCOptions == {[nesting |-> 2, expansion |-> 1], [nesting |-> 1, expansion |-> 2]}
MCWideOptions == [nesting : 2 .. 3, expansion : 1 .. 2]
MCSmallest == [nesting |-> 1, expansion |-> 1]
MCOneOption == {MCSmallest}
MCDefaultOptions == [nesting |-> 2, expansion |-> 1]

(* The identities of DTD nodes are interchangeable.                        *)
Symmetry == Permutations(Dtds)

=============================================================================
