---------------------------- MODULE MCCallRecord ----------------------------
\* Small instances of CallRecord, and the promise of DESIGN.md about records
\* at shutdown that the code does not keep.
EXTENDS CallRecord

\* Calls are interchangeable.
Symmetry == Permutations(Calls)

\* "A poorer record is possible, an audit gap is not" (DESIGN.md:1698), also
\* for a call "still running when the session ends".
NoAuditGap == ~Alive => \A c \in Owed : attempts[c] > 0
=============================================================================
