---------------------------- MODULE MCSequential ----------------------------
(* Model-checking instance of the sequential components: a behaviour is about *)
(* one of them, and makes calls of it.                                        *)
EXTENDS LinkedList, HashTable, Memory, Console, CLibraryCalls, Format,
        Loader, Syscalls

MCKey(e) == [e1 |-> 1, e2 |-> 1, e3 |-> 2, e4 |-> 3][e]
MCSeeds == {<<1, 2>>, <<3, 0>>}
MCWidths == {-6, 0, 3, 8}
MCPrecisions == {-1, 0, 5}
MCStrings == {<<>>, <<"a", "b", "c">>}
MCFileData == [a |-> <<"x">>]
MCUserFrames == {{}, {"f1", "f2"}, {"f1", "f2", "f3"}}

\* Program headers: each field at its limits, and pairs that may overlap.
Phdr(type, offset, vaddr, filesz, memsz, w) ==
  [type |-> type, offset |-> offset, vaddr |-> vaddr, filesz |-> filesz, memsz |-> memsz, w |-> w]
MCSegments ==
  {Phdr("load", o, v, f, m, TRUE) : o \in {0, 1, 5, 8, 10}, v \in {1, 4, 5, 9, 12, 16, 30},
                                    f \in {0, 1, 6}, m \in {0, 1, 6, 8, 29}}
MCHeaders ==
  {Phdr(type, 0, 0, 0, 0, FALSE) : type \in {"other", "dynamic", "cut"}}
    \cup {Phdr("load", 0, 4, 2, 3, FALSE), Phdr("load", 5, 5, 3, 4, TRUE),
          Phdr("load", 0, 8, 1, 2, FALSE), Phdr("load", 1, 9, 0, 2, TRUE)}
Exe(opens, header, phdrs) == [opens |-> opens, header |-> header, phdrs |-> phdrs]
MCExecutables ==
  {Exe(TRUE, TRUE, <<p>>) : p \in MCSegments} \cup {Exe(TRUE, TRUE, <<p, q>>) : p, q \in MCHeaders}
    \cup {Exe(FALSE, FALSE, <<>>), Exe(TRUE, FALSE, <<>>), Exe(TRUE, TRUE, <<>>)}

Init ==
  \/ ListInit \/ HashInit \/ BitmapInit \/ MemInit \/ KeyInit \/ VgaInit
  \/ LibInit \/ RandomInit \/ FmtInit \/ PdInit \/ LoadInit \/ SysInit
Next ==
  \/ ListNext \/ HashNext \/ BitmapNext \/ MemNext \/ KeyNext \/ VgaNext
  \/ LibNext \/ RandomNext \/ FmtNext \/ PdNext \/ LoadNext \/ SysNext
Spec == Init /\ [][Next]_callerVars

\* The lists, hash tables and bitmaps of lib/kernel are the sequences, sets and
\* arrays they stand for after any sequence of calls (list.c, hash.c, bitmap.c).
ContainersExact == ListsExact /\ HashExact /\ BitmapExact
\* The C library computes what its comments say: strings, sorting, 64-bit
\* division and random numbers from a seed (string.c, stdlib.c, arithmetic.c,
\* random.c).
LibrariesExact == LibraryExact /\ RandomRepeats
=============================================================================
