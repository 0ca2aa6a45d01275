------------------------------- MODULE Ledger -------------------------------
(***************************************************************************)
(* The transaction endpoints as they run: every request owns one database  *)
(* session (get_db_session), reads through the snapshot its first query    *)
(* takes, flushes at most one write and commits after the handler returns. *)
(* Nothing locks the rows a check was computed from; only a row an UPDATE  *)
(* or DELETE has touched is locked until its session ends.                 *)
(***************************************************************************)
EXTENDS SerialLedger

CONSTANTS Requests,   \* request slots: how many requests may overlap
          MaxServed   \* bound: requests served in one behaviour

ASSUME LedgerAssumption == MaxServed \in Nat

VARIABLES nextId,  \* AUTO_INCREMENT: allocated at flush, never handed back
          req,     \* per slot: the session and what it is about to write
          served   \* requests accepted so far

vars == <<rows, nextId, req, served>>

NoOp == [kind |-> "none"]

Replies == {"none", "ok", "rejected", "stale", "typeError", "aborted"}

Session(phase, op, view, put, del, reply) ==
    [phase |-> phase, op |-> op, view |-> view, put |-> put, del |-> del, reply |-> reply]

Closed(reply) == Session("idle", NoOp, EmptyTable, EmptyTable, {}, reply)

Init ==
    /\ rows = EmptyTable
    /\ nextId = 1
    /\ req = [r \in Requests |-> Closed("none")]
    /\ served = 0

\* The session's first SELECT (get_by_id of the user_asset, or the symbol
\* lookup of a bulk import) fixes the snapshot every later read uses.
Begin(r, op) ==
    /\ req[r].phase = "idle"
    /\ served < MaxServed
    /\ req' = [req EXCEPT ![r] = Session("reading", op, rows, EmptyTable, {}, "none")]
    /\ served' = served + 1
    /\ UNCHANGED <<rows, nextId>>

\* An exception leaves the handler: get_db_session rolls back.
Refuse(r, reply) ==
    /\ req' = [req EXCEPT ![r] = Closed(reply)]
    /\ UNCHANGED <<rows, nextId, served>>

\* Mutant: an insert does not consume the keys it uses.
FlushReusingIds(r, put, del, ids) ==
    /\ req' = [req EXCEPT ![r] = Session("flushed", @.op, @.view, put, del, "none")]
    /\ UNCHANGED <<rows, nextId, served>>

Flush(r, put, del, ids) ==
    /\ req' = [req EXCEPT ![r] = Session("flushed", @.op, @.view, put, del, "none")]
    /\ nextId' = nextId + ids
    /\ UNCHANGED <<rows, served>>

\* Rows another session has updated or deleted and not yet committed.
LockedByOther(r, i) ==
    \E s \in Requests \ {r} :
        req[s].phase = "flushed" /\ i \in (DOMAIN req[s].put \cap DOMAIN rows) \cup req[s].del

Insert(r, file) == Flush(r, Inserts(nextId - 1, file), {}, Len(file))

AddTx(r) ==
    LET op == req[r].op IN
    /\ req[r].phase = "reading" /\ op.kind = "add"
    /\ IF AddAllowed(req[r].view, op.row)
       THEN Insert(r, <<op.row>>)
       ELSE Refuse(r, "rejected")

\* The columns an ORM UPDATE names: those whose value differs from the one
\* loaded. A traded_at with an offset never equals a loaded one without.
Changed(seen, sent) == {c \in DOMAIN sent : sent[c] # seen[c] \/ c = "at"}

\* Mutant: the columns that did not change are the ones written.
MergeSwapped(latest, seen, sent) ==
    [c \in DOMAIN latest |-> IF c \in Changed(seen, sent) THEN latest[c] ELSE sent[c]]

\* The UPDATE changes the row's latest committed version.
Merge(latest, seen, sent) ==
    [c \in DOMAIN latest |-> IF c \in Changed(seen, sent) THEN sent[c] ELSE latest[c]]

\* Mutant: only the row's existence is checked, not the holding it leaves.
EditTxUnchecked(r) ==
    LET op == req[r].op IN
    /\ req[r].phase = "reading" /\ op.kind = "edit"
    /\ IF Found(req[r].view, op.id, op.row.asset)
       THEN Flush(r, [i \in {op.id} |-> op.row], {}, 0)
       ELSE Refuse(r, "rejected")

\* Mutant: the row is written back whether or not it still exists.
EditTxUpsert(r) ==
    LET op == req[r].op IN
    /\ req[r].phase = "reading" /\ op.kind = "edit"
    /\ IF EditAllowed(req[r].view, op.id, op.row)
       THEN ~LockedByOther(r, op.id) /\ Flush(r, [i \in {op.id} |-> op.row], {}, 0)
       ELSE Refuse(r, "rejected")

EditTx(r) ==
    LET op   == req[r].op
        view == req[r].view
    IN
    /\ req[r].phase = "reading" /\ op.kind = "edit"
    /\ \/ /\ ~EditAllowed(view, op.id, op.row)
          /\ Refuse(r, "rejected")
       \/ /\ EditAllowed(view, op.id, op.row)
          /\ ~LockedByOther(r, op.id)
          /\ IF op.id \in DOMAIN rows
             THEN Flush(r, [i \in {op.id} |-> Merge(rows[i], view[i], op.row)], {}, 0)
             ELSE Refuse(r, "stale")

\* A DELETE that matches no row is not an error: the request still succeeds.
RemoveTx(r) ==
    LET op == req[r].op IN
    /\ req[r].phase = "reading" /\ op.kind = "remove"
    /\ \/ /\ ~Found(req[r].view, op.id, op.asset)
          /\ Refuse(r, "rejected")
       \/ /\ Found(req[r].view, op.id, op.asset)
          /\ ~LockedByOther(r, op.id)
          /\ Flush(r, EmptyTable, {op.id} \cap DOMAIN rows, 0)

\* import_csv of one asset and import_json / import_csv across assets.
ImportTx(r) ==
    LET op == req[r].op IN
    /\ req[r].phase = "reading" /\ op.kind \in {"csv", "bulk"}
    /\ \/ /\ WellFormed(op) /\ SortRaises(req[r].view, op)
          /\ Refuse(r, "typeError")
       \/ /\ ~(WellFormed(op) /\ SortRaises(req[r].view, op))
          /\ ~ImportAllowed(req[r].view, op)
          /\ Refuse(r, "rejected")
       \/ /\ ImportAllowed(req[r].view, op)
          /\ Insert(r, op.file)

\* Mutant: a session that wrote nothing is never committed.
CommitWhenDirty(r) ==
    /\ req[r].phase = "flushed"
    /\ req[r].put # EmptyTable \/ req[r].del # {}
    /\ rows' = Apply(rows, req[r].put, req[r].del)
    /\ req' = [req EXCEPT ![r] = Closed("ok")]
    /\ UNCHANGED <<nextId, served>>

Commit(r) ==
    /\ req[r].phase = "flushed"
    /\ rows' = Apply(rows, req[r].put, req[r].del)
    /\ req' = [req EXCEPT ![r] = Closed("ok")]
    /\ UNCHANGED <<nextId, served>>

\* The client goes away, the process dies, a lock wait or the commit fails:
\* the session closes without a commit.
Abort(r) ==
    /\ req[r].phase # "idle"
    /\ Refuse(r, "aborted")

Handle(r) == AddTx(r) \/ EditTx(r) \/ RemoveTx(r) \/ ImportTx(r)

Next == \E r \in Requests :
    \/ \E op \in Payloads : Begin(r, op)
    \/ Handle(r)
    \/ Commit(r)
    \/ Abort(r)

Spec == Init /\ [][Next]_vars

\* The event loop runs every coroutine that is not waiting for a row lock.
Fairness == \A r \in Requests : WF_vars(Handle(r)) /\ WF_vars(Commit(r))

FairSpec == Spec /\ Fairness

-----------------------------------------------------------------------------
(***************************************************************************)
(* Properties.                                                             *)
(***************************************************************************)
IsSession(s) ==
    /\ s = Session(s.phase, s.op, s.view, s.put, s.del, s.reply)
    /\ s.phase \in {"idle", "reading", "flushed"}
    /\ s.op \in Payloads \cup {NoOp}
    /\ s.phase # "idle" => s.op \in Payloads
    /\ IsTable(s.view) /\ IsTable(s.put) /\ s.del \subseteq Nat \ {0}
    /\ s.reply \in Replies

\* Types, and the primary key: no key in use has yet to be allocated.
TypeOK ==
    /\ IsTable(rows)
    /\ nextId \in Nat \ {0}
    /\ served \in 0 .. MaxServed
    /\ req = [r \in Requests |-> req[r]]
    /\ \A r \in Requests : IsSession(req[r])
    /\ DOMAIN rows \subseteq 1 .. nextId - 1

\* No asset is ever sold beyond what was bought (TransactionService.add and
\* edit raise InsufficientHoldingError for it).
NoNegativeHolding == \A a \in Assets : Remaining(rows, a) >= 0

\* With one request at a time, a holding goes below zero, or further below,
\* only by a DELETE, the one operation that checks nothing: adds, edits and
\* imports may start from such a table but never make it worse.
OnlyRemoveOversells ==
    [][\A a \in Assets :
          Remaining(rows', a) < 0 =>
             \/ Remaining(rows', a) >= Remaining(rows, a)
             \/ \E r \in Requests : Commit(r) /\ req[r].op.kind = "remove"]_vars

\* The quantity the summary card and the holdings table show, the end of the
\* capped walk, is bought minus sold.
WalkIsBoughtMinusSold == \A a \in Assets : WalkQty(rows, a) = Remaining(rows, a)

\* The file gives the asset's trades in one and the same offset.
OneOffset(op, a) ==
    \A p, q \in {n \in DOMAIN op.file : op.file[n].asset = a} :
        op.file[p].at - op.utc[p] = op.file[q].at - op.utc[q]

\* An import checks the timeline in one order (instants, stably, file rows
\* last) and the walks read what it stored in another (the clocks kept when
\* the offsets were dropped, BUY first). Once it has committed, no asset it
\* names is oversold, and the history of one whose trades share an offset is
\* feasible in the walks' order too, so that nothing is capped.
ImportLeavesFeasible ==
    [][\A r \in Requests :
          Commit(r) /\ req[r].op.kind \in {"csv", "bulk"} =>
             \A a \in Named(req[r].op) :
                /\ Remaining(rows', a) >= 0
                /\ OneOffset(req[r].op, a) =>
                      /\ NeverNegative(Chronological(rows', a))
                      /\ WalkQty(rows', a) = Remaining(rows', a)]_vars

\* The same of every file, whatever its offsets.
ImportsWalk ==
    [][\A r \in Requests :
          Commit(r) /\ req[r].op.kind \in {"csv", "bulk"} =>
             \A a \in Named(req[r].op) : NeverNegative(Chronological(rows', a))]_vars

\* import_csv and import_json fail with NotFoundError or
\* CsvImportValidationError, never with an exception nobody handles.
ImportsFailCleanly == \A r \in Requests : req[r].reply # "typeError"

\* A key whose row is gone, and which no session is about to insert, never
\* comes back: an edit racing a delete fails instead of restoring the row.
Gone(i) == i \notin DOMAIN rows /\ \A r \in Requests : i \notin DOMAIN req[r].put

DeletedStaysDeleted ==
    [][\A i \in 1 .. nextId - 1 : Gone(i) => Gone(i)']_vars

\* A request that commits while its snapshot is still the table does exactly
\* what the serial ledger does: all anomalies come from overlap.
OverlapFreeIsSerial ==
    [][\A r \in Requests :
          Commit(r) /\ req[r].view = rows => SerialStep(req[r].op)]_vars

\* An edit that commits leaves the row its request described: "Replace all
\* fields of an existing transaction", never a mix of two requests.
EditReplacesAll ==
    [][\A r \in Requests :
          Commit(r) /\ req[r].op.kind = "edit" => rows'[req[r].op.id] = req[r].op.row]_vars

\* With a single request slot the endpoints are the serial ledger.
ImplementsSerial == SerialSpec

\* Row locks never make requests wait for each other forever.
RequestEnds ==
    \A r \in Requests : req[r].phase # "idle" ~> req[r].phase = "idle"
=============================================================================
