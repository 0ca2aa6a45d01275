---------------------------- MODULE SerialLedger ----------------------------
(***************************************************************************)
(* What the transaction endpoints promise, with no concurrency in sight:   *)
(* every request is one step, decided on the table it changes.  Ledger     *)
(* extends this module and keeps its variable, so that comparing the two   *)
(* needs no refinement mapping.                                            *)
(***************************************************************************)
EXTENDS LedgerRules

CONSTANT Payloads  \* the request bodies clients send

ASSUME PayloadsAssumption ==
    /\ Payloads \subseteq Operation
    /\ \A op \in Payloads :
          /\ op.kind = "csv" => \A p \in DOMAIN op.file : op.file[p].asset = op.asset
          /\ op.kind \in {"csv", "bulk"} => Len(op.utc) = Len(op.file)

VARIABLE rows      \* the committed transactions table

\* `file` is inserted under consecutive fresh keys. Keys burnt by a request
\* that rolled back leave gaps, so any base will do.
SerialInsert(file) ==
    \E base \in {0} \cup {i - 1 : i \in DOMAIN rows'} :
        /\ (base + 1 .. base + Len(file)) \cap DOMAIN rows = {}
        /\ rows' = Apply(rows, Inserts(base, file), {})

SerialAdd(op) ==
    /\ op.kind = "add"
    /\ AddAllowed(rows, op.row)
    /\ SerialInsert(<<op.row>>)

SerialEdit(op) ==
    /\ op.kind = "edit"
    /\ EditAllowed(rows, op.id, op.row)
    /\ rows' = Apply(rows, [i \in {op.id} |-> op.row], {})

SerialRemove(op) ==
    /\ op.kind = "remove"
    /\ Found(rows, op.id, op.asset)
    /\ rows' = Apply(rows, EmptyTable, {op.id})

SerialImport(op) ==
    /\ op.kind \in {"csv", "bulk"}
    /\ ImportAllowed(rows, op)
    /\ SerialInsert(op.file)

SerialStep(op) ==
    SerialAdd(op) \/ SerialEdit(op) \/ SerialRemove(op) \/ SerialImport(op)

SerialInit == rows = EmptyTable

SerialNext == \E op \in Payloads : SerialStep(op)

SerialSpec == SerialInit /\ [][SerialNext]_rows
=============================================================================
