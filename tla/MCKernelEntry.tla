--------------------------- MODULE MCKernelEntry ---------------------------
EXTENDS KernelEntry, TLC

Symmetry == Permutations(Threads)

\* User code before the first system call as well.
FreshPoints == SafePoints \union {"fresh"}

\* All of the system call path.
CallPoints == Points \ {"fresh", "freshEntry"}
=============================================================================
