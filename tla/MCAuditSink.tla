---------------------------- MODULE MCAuditSink ----------------------------
\* Small instances of AuditSink, and a statement the source makes about the
\* sink that its code does not keep.
EXTENDS AuditSink

\* Calls are interchangeable: no action compares two of them.
Symmetry == Permutations(Calls)

\* A pending loss is never missed, wherever the gate's reads begin:
\* "this order cannot miss a loss moved under us" (audit.rs:1631).
GateSeesEveryLoss == gate = "pass" => watch = {}
=============================================================================
