---------------------------- MODULE MCEnrollment ----------------------------
(* Small instances of Enrollment for TLC.                                  *)
EXTENDS Enrollment, TLC

(* Two directories, one within the other, and one beside them. *)
Nested   == {<<"V">>, <<"V", "a">>, <<"W">>}
(* The POSIX root and a directory in it. *)
FromRoot == {<<>>, <<"a">>}

OldA     == {<<"V">>}
Both     == {<<"V">>, <<"V", "a">>}

Windows  == {"strong", "fallback", "weak"}
Posix    == {"weak"}

Symmetry == Permutations(ProvId) \cup Permutations(Actor) \cup Permutations(Dir)
=============================================================================
