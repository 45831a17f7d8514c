----------------------------- MODULE MCStorage -----------------------------
(* Storage on a small instance. *)
EXTENDS Storage, TLC

\* With the zeros of a field that is not given, two values for each field.
OneAddress == {<<10, 0, 1, 9>>}
AllModes == {{"READ"}, {"READ", "WRITE", "CREATE_NEW"}, {"READ", "WRITE", "CREATE_ALWAYS"},
             {"READ", "WRITE", "OPEN_ALWAYS", "SEEKEND"}}
\* An empty volume, one with a free cluster between two files, and a full one.
SomeLayouts == {<< <<>>, <<>> >>, << <<3>>, <<5, 2>> >>, << <<4, 3>>, <<2, 5>> >>}
Symmetric == Permutations(Names)
=============================================================================
