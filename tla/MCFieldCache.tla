----------------------------- MODULE MCFieldCache -----------------------------
(* FieldCache with one code of each kind and one nobody has audited.       *)
EXTENDS FieldCache

MCNames == {1, 2}
MCAsks == {{1}, {1, 2}}
MCCodes == {1, 6, 23}
MCSchemas == {<<1, 6>>, <<6, 1>>, <<23, 1>>}
MCSeconds == {1}
MCListCodes == {}
MCPlainCodes == {1}
=============================================================================
