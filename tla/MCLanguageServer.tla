-------------------------- MODULE MCLanguageServer --------------------------
(***************************************************************************)
(* Small instances of LanguageServer: u1 imports u2.  The first version of *)
(* a text is `.a.b'; the second has three lines, begins with a letter and  *)
(* ends in a `.'; the third has a line of four characters of two bytes     *)
(* before one that ends in a `.'.                                          *)
(***************************************************************************)
EXTENDS LanguageServer, TLC

CONSTANTS u1, u2, s1, s2, s3

MCImports == [u \in Uris |-> IF u = u1 THEN Uris ELSE {u}]

Pos(line, column) == [line |-> line, column |-> column]

MCLineStarts == [v \in Versions |-> CASE v = 2 -> <<5, 7>>
                                      [] v = 3 -> <<9>>
                                      [] OTHER -> <<>>]
MCChars == [v \in Versions |-> CASE v = 2 -> 9 [] v = 3 -> 7 [] OTHER -> 4]
MCAscii == Versions \ {3}
MCWordFirst == {2} \cap Versions
MCDots == [v \in Versions |-> CASE v = 2 -> {Pos(2, 2)}
                                [] v = 3 -> {Pos(1, 2)}
                                [] OTHER -> {Pos(0, 1), Pos(0, 3)}]
MCPositions == [v \in Versions |-> MCDots[v] \cup {Pos(0, 0)}]

SlotSymmetry == Permutations(Slots)
=============================================================================
