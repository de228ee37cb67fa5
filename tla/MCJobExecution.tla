--------------------------- MODULE MCJobExecution ---------------------------
\* TLC instances of JobExecution.
EXTENDS JobExecution, TLC

CONSTANTS jobA, jobB

MCJobs == {jobA, jobB}
MCRunIds == 1 .. 2
JobSymmetry == Permutations(MCJobs)
=============================================================================
