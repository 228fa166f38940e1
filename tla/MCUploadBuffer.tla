--------------------------- MODULE MCUploadBuffer ---------------------------
EXTENDS UploadBuffer

CONSTANTS ann, bob, u1, u2, u3

\* ann uploads two files, the second too large for the buffer, and bob one that
\* does not fit beside ann's first.
MCOwnerOf == [u \in Uploads |-> IF u = u3 THEN bob ELSE ann]
MCFileLength == [u \in Uploads |-> CASE u = u1 -> 1 [] u = u2 -> 3 [] u = u3 -> 2]

=============================================================================
