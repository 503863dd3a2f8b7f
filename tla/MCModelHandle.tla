--------------------------- MODULE MCModelHandle ---------------------------
EXTENDS ModelHandle
ReadableFiles == {[rows |-> 1, cols |-> 2, entries |-> [c \in {<<0, 0>>, <<0, 1>>} |-> 1]]}
=============================================================================
