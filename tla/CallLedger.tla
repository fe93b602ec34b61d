---------------------------- MODULE CallLedger ----------------------------
(***************************************************************************)
(* What call_tool promises of the audit stream (DESIGN.md, "One record per *)
(* call"), without saying how: a call that began is owed one record, the   *)
(* sink is asked to keep it at most once, and when the process has ended   *)
(* nothing more is begun or written.                                       *)
(***************************************************************************)
EXTENDS Naturals

CONSTANT Calls

VARIABLES owed,      \* calls that call_tool has begun to work on
          attempts,  \* how often the sink was asked to keep each record
          over       \* the process has ended

ledgerVars == <<owed, attempts, over>>

LedgerInit ==
  owed = {} /\ attempts = [c \in Calls |-> 0] /\ over = FALSE

Owe(c) ==
  /\ ~over /\ c \notin owed
  /\ owed' = owed \union {c}
  /\ UNCHANGED <<attempts, over>>

Write(c) ==
  /\ ~over /\ c \in owed /\ attempts[c] = 0
  /\ attempts' = [attempts EXCEPT ![c] = 1]
  /\ UNCHANGED <<owed, over>>

End ==
  /\ ~over /\ over' = TRUE
  /\ UNCHANGED <<owed, attempts>>

LedgerNext == (\E c \in Calls : Owe(c) \/ Write(c)) \/ End

LedgerSpec == LedgerInit /\ [][LedgerNext]_ledgerVars
=============================================================================
