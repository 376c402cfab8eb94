----------------------------- MODULE MCBufferPool ------------------------------
(* Instances of BufferPool for TLC. *)
EXTENDS BufferPool

\* A limit of the pool is given, or none: -1 cannot be written in a cfg's set.
NoneOrThree == {-1, 1, 3}

\* The threads run any of the code that uses the pool, so they are interchangeable.
ThreadSymmetry == Permutations(Threads)
===============================================================================
