--------------------------- MODULE PromptContextMC ---------------------------
(* PromptContext for a branch of four files, two in a subdirectory that comes *)
(* first, one of them binary and two with a long version; the dictionary      *)
(* holds three.                                                               *)
EXTENDS PromptContext

Lib == <<"lib">>
A == <<"lib", "a">>
Bin == <<"lib", "bin">>
B == <<"b">>
C == <<"c">>

DirsValue == {Root, Lib}
FilesValue == {A, Bin, B, C}
BinaryValue == {Bin}
LongValue == {<<A, 1>>, <<C, 2>>}
EntriesValue == [d \in DirsValue |-> IF d = Root THEN <<Lib, B, C>> ELSE <<A, Bin>>]
=============================================================================
