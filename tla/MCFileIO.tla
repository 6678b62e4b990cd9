------------------------------- MODULE MCFileIO -------------------------------
(* Model-checking instance of FileIO. *)
EXTENDS FileIO, TLC

\* Threads are interchangeable.
Symmetry == Permutations(Threads)

\* In a file of one and a half sectors: nothing, all of it and more, a part of
\* the first sector, the second sector and more, and past the end.
SampleRequests == {<<0, 0>>, <<4, 0>>, <<1, 1>>, <<2, 2>>, <<1, 3>>}
=============================================================================
