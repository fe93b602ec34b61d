---------------------------- MODULE MCAuditFile ----------------------------
\* A small instance of AuditFile.
EXTENDS AuditFile

\* Files are interchangeable.
Symmetry == Permutations(Files)
=============================================================================
