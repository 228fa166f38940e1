------------------------- MODULE MCStudentDirectory -------------------------
EXTENDS StudentDirectory

CONSTANTS c3, ann, bob

\* The third client logs in as bob, the others as ann.
MCStudentOf == [c \in Conns |-> IF c = c3 THEN bob ELSE ann]

=============================================================================
