---------------------------- MODULE AtomicStore ----------------------------
(***************************************************************************)
(* What the Database class promises its callers, without its thread, its   *)
(* connection lock or its statement by statement execution: the operations *)
(* that were delayed wait in one line and take effect in that order, each  *)
(* at once and either wholly or not at all; a direct operation takes       *)
(* effect at once, ahead of the line.                                      *)
(***************************************************************************)
EXTENDS Naturals, Sequences

CONSTANT Operations     \* records with the fields id, kind and size

VARIABLES
    pending,            \* the delayed operations that have not taken effect
    log                 \* the statements that took effect, in order

storeVars == <<pending, log>>

\* The statements of an operation; a query changes nothing.
Statements(op) ==
    IF op.kind = "query"
    THEN << >>
    ELSE [n \in 1 .. op.size |-> [op |-> op.id, n |-> n]]

StoreInit ==
    /\ pending = << >>
    /\ log = << >>

Submit ==
    /\ \E op \in Operations : pending' = Append(pending, op)
    /\ UNCHANGED log

\* The oldest delayed operation takes effect, or fails and leaves no trace.
Apply ==
    /\ pending # << >>
    /\ pending' = Tail(pending)
    /\ \/ log' = log \o Statements(Head(pending))
       \/ UNCHANGED log

ApplyDirect ==
    /\ \E op \in Operations : log' = log \o Statements(op)
    /\ UNCHANGED pending

StoreNext == Submit \/ Apply \/ ApplyDirect

StoreSpec == StoreInit /\ [][StoreNext]_storeVars
=============================================================================
