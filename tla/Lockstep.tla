------------------------------ MODULE Lockstep ------------------------------
(***************************************************************************)
(* What ggml_barrier promises to the threads of a graph (src/ggml/src/     *)
(* ggml-cpu/ggml-cpu.c): the work of a graph is cut into pieces by the     *)
(* barriers, and no thread starts a piece before every other thread of the *)
(* graph has finished the one before.                                      *)
(***************************************************************************)
EXTENDS Naturals

CONSTANT Threads

VARIABLES
    active,     \* the threads of the current graph
    work        \* pieces each thread has finished in the current graph

lvars == <<active, work>>

LInit == active = {} /\ work = [t \in Threads |-> 0]

\* A thread finishes its next piece: nobody is still in the one before.
Finish(t) ==
    /\ t \in active
    /\ \A u \in active : work[u] >= work[t]
    /\ work' = [work EXCEPT ![t] = @ + 1]
    /\ UNCHANGED active

\* A new graph starts: everybody has finished the last one.
Begin(A) ==
    /\ \A t, u \in active : work[t] = work[u]
    /\ active' = A
    /\ work' = [t \in Threads |-> 0]

LNext == (\E t \in Threads : Finish(t)) \/ (\E A \in SUBSET Threads : Begin(A))

LSpec == LInit /\ [][LNext]_lvars
=============================================================================
