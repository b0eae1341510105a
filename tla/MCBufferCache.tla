--------------------------- MODULE MCBufferCache ---------------------------
(* Model checking BufferCache: tasks and blocks are interchangeable (the   *)
(* buffers are not, the free list orders them).                            *)
EXTENDS BufferCache, TLC

Symmetry == Permutations(Task) \cup Permutations(Block)

(* Contents: all that goes through bread, undisturbed.  Faulty: buffers    *)
(* are dropped, copies fault and the disk fails.  Whole: with writes of    *)
(* whole blocks.                                                           *)
Contents == [ops |-> {"read", "breada", "file_write", "sync"}, faults |-> FALSE, errors |-> FALSE]
Faulty == [ops |-> {"file_write", "invalidate"}, faults |-> TRUE, errors |-> TRUE]
Whole == [ops |-> {"block_write", "invalidate"}, faults |-> FALSE, errors |-> TRUE]
WholeBlocks == [ops |-> {"read", "block_write"}, faults |-> FALSE, errors |-> FALSE]

MCSetups == {Contents, Faulty, Whole}
BlockWrites == {WholeBlocks}
=============================================================================
