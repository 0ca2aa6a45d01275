---------------------------- MODULE LedgerProofs ----------------------------
(***************************************************************************)
(* Theorems about Ledger, for any set of requests, payloads and bounds.    *)
(*                                                                         *)
(* The inductive invariant says of every flushed session that its write is *)
(* the one its check allowed on its snapshot, that the keys it inserts are *)
(* in nobody's sight, and that no two sessions touch the same key.         *)
(***************************************************************************)
EXTENDS Ledger, DataInduction

Touched(r) == DOMAIN req[r].put \cup req[r].del

\* r has flushed `file` under keys that are in no snapshot and not in rows.
Inserting(r, file) ==
    /\ req[r].del = {}
    /\ \E base \in Nat :
          /\ req[r].put = Inserts(base, file)
          /\ base + Len(file) < nextId
          /\ (base + 1 .. base + Len(file)) \cap DOMAIN rows = {}
          /\ \A s \in Requests : (base + 1 .. base + Len(file)) \cap DOMAIN req[s].view = {}

Editing(r, op) ==
    /\ EditAllowed(req[r].view, op.id, op.row)
    /\ req[r].del = {}
    /\ op.id \in DOMAIN rows
    /\ req[r].put = [i \in {op.id} |-> Merge(rows[i], req[r].view[i], op.row)]

Removing(r, op) ==
    /\ Found(req[r].view, op.id, op.asset)
    /\ req[r].put = EmptyTable
    /\ req[r].del = {op.id} \cap DOMAIN rows

WriteOK(r) ==
    LET op == req[r].op IN
    /\ op.kind = "add" => AddAllowed(req[r].view, op.row) /\ Inserting(r, <<op.row>>)
    /\ op.kind = "edit" => Editing(r, op)
    /\ op.kind = "remove" => Removing(r, op)
    /\ op.kind \in {"csv", "bulk"} => ImportAllowed(req[r].view, op) /\ Inserting(r, op.file)

KeysInv == \A r \in Requests :
    /\ DOMAIN req[r].view \subseteq 1 .. nextId - 1
    /\ Touched(r) \subseteq 1 .. nextId - 1

NothingPending == \A r \in Requests :
    req[r].phase # "flushed" => req[r].put = EmptyTable /\ req[r].del = {}

Exclusive == \A r, s \in Requests : r # s => Touched(r) \cap Touched(s) = {}

FlushedInv == \A r \in Requests : req[r].phase = "flushed" => WriteOK(r)

IInv == TypeOK /\ KeysInv /\ NothingPending /\ Exclusive /\ FlushedInv

-----------------------------------------------------------------------------
(***************************************************************************)
(* Tables and rows.                                                        *)
(***************************************************************************)
LEMMA EmptyTableIsTable == IsTable(EmptyTable) /\ DOMAIN EmptyTable = {}
  BY DEF IsTable, EmptyTable

LEMMA MergeTyped ==
  ASSUME NEW x \in Row, NEW y \in Row, NEW z \in Row
  PROVE  Merge(x, y, z) \in Row
  <1> DEFINE m == Merge(x, y, z)
  <1>1. DOMAIN x = {"asset", "type", "qty", "at"}
    BY DEF Row
  <1>2. m = [asset |-> m.asset, type |-> m.type, qty |-> m.qty, at |-> m.at]
    BY <1>1 DEF Merge
  <1>3. m.asset \in Assets /\ m.type \in {"BUY", "SELL"} /\ m.qty \in Qtys /\ m.at \in Instants
    BY <1>1 DEF Merge, Row
  <1> QED BY <1>2, <1>3 DEF Row

\* With no commit in between, the UPDATE writes what the client sent.
LEMMA MergeCurrent ==
  ASSUME NEW x \in Row, NEW z \in Row
  PROVE  Merge(x, x, z) = z
  <1>1. DOMAIN x = DOMAIN z /\ z = [c \in DOMAIN z |-> z[c]]
    BY DEF Row
  <1> QED BY <1>1 DEF Merge, Changed

LEMMA InsertsIsTable ==
  ASSUME NEW base \in Nat, NEW file \in Seq(Row)
  PROVE  /\ IsTable(Inserts(base, file))
         /\ DOMAIN Inserts(base, file) = base + 1 .. base + Len(file)
  BY DEF IsTable, Inserts

LEMMA ApplyIsTable ==
  ASSUME NEW t, IsTable(t), NEW put, IsTable(put), NEW del
  PROVE  /\ IsTable(Apply(t, put, del))
         /\ DOMAIN Apply(t, put, del) = (DOMAIN t \cup DOMAIN put) \ del
  BY DEF IsTable, Apply

LEMMA PayloadTypes ==
  ASSUME NEW op \in Payloads
  PROVE  /\ op.kind \in {"add", "edit", "remove", "csv", "bulk"}
         /\ op.kind = "add" => op.row \in Row
         /\ op.kind = "edit" => op.row \in Row /\ op.id \in Nat \ {0}
         /\ op.kind = "remove" => op.id \in Nat \ {0}
         /\ op.kind \in {"csv", "bulk"} =>
               op.file \in Seq(Row) /\ op.utc \in Seq(Instants) /\ Len(op.utc) = Len(op.file)
  BY PayloadsAssumption DEF Operation, AddOp, EditOp, RemoveOp, CsvOp, BulkOp

-----------------------------------------------------------------------------
(***************************************************************************)
(* The invariant, one kind of step at a time.                              *)
(***************************************************************************)
LEMMA SessionFields ==
  ASSUME NEW phase, NEW op, NEW view, NEW put, NEW del, NEW reply
  PROVE  LET s == Session(phase, op, view, put, del, reply)
         IN  /\ s.phase = phase /\ s.op = op /\ s.view = view
             /\ s.put = put /\ s.del = del /\ s.reply = reply
  BY DEF Session

LEMMA ClosedFields ==
  ASSUME NEW reply \in Replies
  PROVE  /\ IsSession(Closed(reply))
         /\ Closed(reply).phase = "idle" /\ Closed(reply).view = EmptyTable
         /\ Closed(reply).put = EmptyTable /\ Closed(reply).del = {}
  BY EmptyTableIsTable, SessionFields DEF IsSession, Closed

LEMMA InitInv == Init => IInv
  <1> SUFFICES ASSUME Init PROVE IInv
    OBVIOUS
  <1>1. \A r \in Requests : req[r] = Closed("none")
    BY DEF Init
  <1>2. "none" \in Replies
    BY DEF Replies
  <1>3. TypeOK
    BY <1>1, <1>2, ClosedFields, EmptyTableIsTable, LedgerAssumption DEF Init, TypeOK
  <1>4. \A r \in Requests : DOMAIN req[r].view = {} /\ Touched(r) = {}
    BY <1>1, <1>2, ClosedFields, EmptyTableIsTable DEF Touched
  <1>5. KeysInv /\ Exclusive
    BY <1>4 DEF KeysInv, Exclusive
  <1>6. NothingPending /\ FlushedInv
    BY <1>1, <1>2, ClosedFields DEF NothingPending, FlushedInv
  <1> QED BY <1>3, <1>5, <1>6 DEF IInv

\* What a step that replaces one session leaves alone.
LEMMA Frame ==
  ASSUME TypeOK, NEW r \in Requests, NEW new, req' = [req EXCEPT ![r] = new]
  PROVE  /\ req' = [s \in Requests |-> req'[s]]
         /\ req'[r] = new
         /\ \A s \in Requests \ {r} : req'[s] = req[s] /\ Touched(s)' = Touched(s)
  BY DEF TypeOK, Touched

LEMMA BeginInv ==
  ASSUME IInv, NEW r \in Requests, NEW op \in Payloads, Begin(r, op)
  PROVE  IInv'
  <1> DEFINE new == Session("reading", op, rows, EmptyTable, {}, "none")
  <1>1. req' = [req EXCEPT ![r] = new] /\ UNCHANGED <<rows, nextId>>
    BY DEF Begin
  <1>2. /\ IsSession(new) /\ new.phase = "reading" /\ new.op = op
        /\ new.view = rows /\ new.put = EmptyTable /\ new.del = {}
    <2>1. "none" \in Replies /\ IsTable(rows)
      BY DEF Replies, IInv, TypeOK
    <2> QED BY <2>1, SessionFields, EmptyTableIsTable DEF IsSession
  <1> HIDE DEF new
  <1>3. /\ req' = [s \in Requests |-> req'[s]] /\ req'[r] = new
        /\ \A s \in Requests \ {r} : req'[s] = req[s] /\ Touched(s)' = Touched(s)
    BY <1>1, Frame DEF IInv
  <1>4. TypeOK'
    <2>1. \A s \in Requests : IsSession(req'[s])
      BY <1>2, <1>3 DEF IInv, TypeOK
    <2>2. served' \in 0 .. MaxServed
      BY LedgerAssumption DEF IInv, TypeOK, Begin
    <2> QED BY <1>1, <1>3, <2>1, <2>2 DEF IInv, TypeOK
  <1>5. Touched(r)' = {}
    BY <1>2, <1>3, EmptyTableIsTable DEF Touched
  <1>6. KeysInv' /\ Exclusive'
    BY <1>1, <1>2, <1>3, <1>5 DEF IInv, TypeOK, KeysInv, Exclusive
  <1>7. NothingPending'
    BY <1>2, <1>3 DEF IInv, NothingPending
  <1>8. ASSUME NEW s \in Requests, req'[s].phase = "flushed" PROVE WriteOK(s)'
    <2>1. s # r /\ req'[s] = req[s] /\ WriteOK(s)
      BY <1>2, <1>3, <1>8 DEF IInv, FlushedInv
    <2>2. ASSUME NEW file, Inserting(s, file) PROVE Inserting(s, file)'
      BY <1>1, <1>2, <1>3, <2>1, <2>2 DEF Inserting
    <2> QED BY <1>1, <2>1, <2>2 DEF WriteOK, Editing, Removing
  <1> QED BY <1>4, <1>6, <1>7, <1>8 DEF IInv, FlushedInv

LEMMA RefuseInv ==
  ASSUME IInv, NEW r \in Requests, NEW reply \in Replies, Refuse(r, reply)
  PROVE  IInv'
  <1> DEFINE new == Closed(reply)
  <1>1. req' = [req EXCEPT ![r] = new] /\ UNCHANGED <<rows, nextId, served>>
    BY DEF Refuse
  <1>2. /\ IsSession(new) /\ new.phase = "idle" /\ new.view = EmptyTable
        /\ new.put = EmptyTable /\ new.del = {}
    BY ClosedFields
  <1> HIDE DEF new
  <1>3. /\ req' = [s \in Requests |-> req'[s]] /\ req'[r] = new
        /\ \A s \in Requests \ {r} : req'[s] = req[s] /\ Touched(s)' = Touched(s)
    BY <1>1, Frame DEF IInv
  <1>4. TypeOK'
    BY <1>1, <1>2, <1>3 DEF IInv, TypeOK
  <1>5. Touched(r)' = {} /\ DOMAIN req'[r].view = {}
    BY <1>2, <1>3, EmptyTableIsTable DEF Touched
  <1>6. KeysInv' /\ Exclusive'
    BY <1>1, <1>3, <1>5 DEF IInv, TypeOK, KeysInv, Exclusive
  <1>7. NothingPending'
    BY <1>2, <1>3 DEF IInv, NothingPending
  <1>8. ASSUME NEW s \in Requests, req'[s].phase = "flushed" PROVE WriteOK(s)'
    <2>1. s # r /\ req'[s] = req[s] /\ WriteOK(s)
      BY <1>2, <1>3, <1>8 DEF IInv, FlushedInv
    <2>2. ASSUME NEW file, Inserting(s, file) PROVE Inserting(s, file)'
      BY <1>1, <1>3, <1>5, <2>1, <2>2 DEF Inserting
    <2> QED BY <1>1, <2>1, <2>2 DEF WriteOK, Editing, Removing
  <1> QED BY <1>4, <1>6, <1>7, <1>8 DEF IInv, FlushedInv

\* Inserting `file` under the next keys, as the check of the payload allowed.
LEMMA InsertInv ==
  ASSUME IInv, NEW r \in Requests, req[r].phase = "reading",
         NEW file \in Seq(Row), Insert(r, file),
         req[r].op.kind = "add" => AddAllowed(req[r].view, req[r].op.row) /\ file = <<req[r].op.row>>,
         req[r].op.kind \in {"csv", "bulk"} => ImportAllowed(req[r].view, req[r].op) /\ file = req[r].op.file,
         req[r].op.kind \in {"add", "csv", "bulk"}
  PROVE  IInv'
  <1> DEFINE put == Inserts(nextId - 1, file)
             keys == nextId .. nextId - 1 + Len(file)
             new == Session("flushed", req[r].op, req[r].view, put, {}, "none")
  <1>1. req' = [req EXCEPT ![r] = new] /\ nextId' = nextId + Len(file) /\ UNCHANGED <<rows, served>>
    BY DEF Insert, Flush, IInv, TypeOK
  <1>2. nextId - 1 \in Nat /\ nextId \in Nat /\ nextId' \in Nat \ {0} /\ Len(file) \in Nat
    BY <1>1 DEF IInv, TypeOK
  <1>3. IsTable(put) /\ DOMAIN put = keys
    <2>1. IsTable(put) /\ DOMAIN put = nextId - 1 + 1 .. nextId - 1 + Len(file)
      BY <1>2, InsertsIsTable
    <2> QED BY <1>2, <2>1
  <1>4. /\ IsSession(new) /\ new.phase = "flushed" /\ new.op = req[r].op
        /\ new.view = req[r].view /\ new.put = put /\ new.del = {}
    <2>1. "none" \in Replies /\ IsSession(req[r])
      BY DEF Replies, IInv, TypeOK
    <2> HIDE DEF put
    <2> QED BY <1>3, <2>1, SessionFields DEF IsSession
  <1> HIDE DEF new, put
  <1>5. /\ req' = [s \in Requests |-> req'[s]] /\ req'[r] = new
        /\ \A s \in Requests \ {r} : req'[s] = req[s] /\ Touched(s)' = Touched(s)
    BY <1>1, Frame DEF IInv
  <1>6. Touched(r)' = keys
    BY <1>3, <1>4, <1>5 DEF Touched
  <1>7. TypeOK'
    <2>1. \A s \in Requests : IsSession(req'[s])
      BY <1>4, <1>5 DEF IInv, TypeOK
    <2>2. DOMAIN rows \subseteq 1 .. nextId' - 1
      BY <1>1, <1>2 DEF IInv, TypeOK
    <2> QED BY <1>1, <1>2, <1>5, <2>1, <2>2 DEF IInv, TypeOK
  <1>8. KeysInv'
    <2> SUFFICES ASSUME NEW s \in Requests
                 PROVE  /\ DOMAIN req'[s].view \subseteq 1 .. nextId' - 1
                        /\ Touched(s)' \subseteq 1 .. nextId' - 1
      BY DEF KeysInv
    <2>1. DOMAIN req'[s].view \subseteq 1 .. nextId - 1
      BY <1>4, <1>5 DEF IInv, KeysInv
    <2>2. Touched(s)' \subseteq 1 .. nextId - 1 \/ Touched(s)' = keys
      BY <1>5, <1>6 DEF IInv, KeysInv
    <2> QED BY <1>1, <1>2, <2>1, <2>2
  <1>9. Exclusive'
    BY <1>2, <1>5, <1>6 DEF IInv, KeysInv, Exclusive
  <1>10. NothingPending'
    BY <1>4, <1>5 DEF IInv, NothingPending
  <1>11. Inserting(r, file)'
    <2>1. \A s \in Requests : DOMAIN req'[s].view \subseteq 1 .. nextId - 1
      BY <1>4, <1>5 DEF IInv, KeysInv
    <2>2. nextId - 1 + 1 = nextId /\ nextId - 1 + Len(file) < nextId'
      BY <1>1, <1>2
    <2>3. keys \cap DOMAIN rows' = {} /\ \A s \in Requests : keys \cap DOMAIN req'[s].view = {}
      <3>1. DOMAIN rows' \subseteq 1 .. nextId - 1
        BY <1>1 DEF IInv, TypeOK
      <3>2. keys \cap (1 .. nextId - 1) = {}
        BY <1>2
      <3> HIDE DEF keys
      <3> QED BY <2>1, <3>1, <3>2
    <2>4. req'[r].put = Inserts(nextId - 1, file) /\ req'[r].del = {}
      BY <1>4, <1>5 DEF put
    <2> QED BY <1>2, <2>2, <2>3, <2>4 DEF Inserting
  <1>12. ASSUME NEW s \in Requests, req'[s].phase = "flushed" PROVE WriteOK(s)'
    <2>1. CASE s = r
      BY <1>4, <1>5, <1>11, <2>1 DEF WriteOK
    <2>2. CASE s # r
      <3>1. req'[s] = req[s] /\ WriteOK(s)
        BY <1>5, <1>12, <2>2 DEF IInv, FlushedInv
      <3>2. ASSUME NEW f \in Seq(Row), Inserting(s, f) PROVE Inserting(s, f)'
        <4>1. \A t \in Requests : req'[t].view = req[t].view
          BY <1>4, <1>5
        <4>2. PICK base \in Nat :
                 /\ req[s].put = Inserts(base, f)
                 /\ base + Len(f) < nextId
                 /\ (base + 1 .. base + Len(f)) \cap DOMAIN rows = {}
                 /\ \A t \in Requests : (base + 1 .. base + Len(f)) \cap DOMAIN req[t].view = {}
          BY <3>2 DEF Inserting
        <4>3. base + Len(f) < nextId'
          BY <1>1, <1>2, <4>2
        <4> QED BY <1>1, <3>1, <3>2, <4>1, <4>2, <4>3 DEF Inserting
      <3>3. /\ req[s].op.kind = "add" => <<req[s].op.row>> \in Seq(Row)
            /\ req[s].op.kind \in {"csv", "bulk"} => req[s].op.file \in Seq(Row)
        <4>1. req[s].op \in Payloads
          BY <1>12, <3>1 DEF IInv, TypeOK, IsSession
        <4> QED BY <4>1, PayloadTypes
      <3> QED BY <1>1, <3>1, <3>2, <3>3 DEF WriteOK, Editing, Removing
    <2> QED BY <2>1, <2>2
  <1> QED BY <1>7, <1>8, <1>9, <1>10, <1>12 DEF IInv, FlushedInv

\* An UPDATE or DELETE of a row nobody else has touched, or of nothing.
LEMMA FlushInv ==
  ASSUME IInv, NEW r \in Requests, req[r].phase = "reading",
         NEW put, IsTable(put), NEW del, del \subseteq Nat \ {0},
         Flush(r, put, del, 0),
         DOMAIN put \cup del \subseteq DOMAIN rows,
         \A s \in Requests \ {r} : (DOMAIN put \cup del) \cap Touched(s) = {},
         req[r].op.kind \in {"edit", "remove"},
         req[r].op.kind = "edit" => Editing(r, req[r].op)',
         req[r].op.kind = "remove" => Removing(r, req[r].op)'
  PROVE  IInv'
  <1> DEFINE new == Session("flushed", req[r].op, req[r].view, put, del, "none")
  <1>1. req' = [req EXCEPT ![r] = new] /\ UNCHANGED <<rows, served, nextId>>
    BY DEF Flush, IInv, TypeOK
  <1>2. /\ IsSession(new) /\ new.phase = "flushed" /\ new.op = req[r].op
        /\ new.view = req[r].view /\ new.put = put /\ new.del = del
    <2>1. "none" \in Replies /\ IsSession(req[r])
      BY DEF Replies, IInv, TypeOK
    <2>2. /\ new.phase = "flushed" /\ new.op = req[r].op /\ new.view = req[r].view
          /\ new.put = put /\ new.del = del /\ new.reply = "none"
      BY SessionFields
    <2>3. new = Session(new.phase, new.op, new.view, new.put, new.del, new.reply)
      BY <2>2
    <2> HIDE DEF new
    <2> QED BY <2>1, <2>2, <2>3 DEF IsSession
  <1> HIDE DEF new
  <1>3. /\ req' = [s \in Requests |-> req'[s]] /\ req'[r] = new
        /\ \A s \in Requests \ {r} : req'[s] = req[s] /\ Touched(s)' = Touched(s)
    BY <1>1, Frame DEF IInv
  <1>4. Touched(r)' = DOMAIN put \cup del
    BY <1>2, <1>3 DEF Touched
  <1>5. TypeOK'
    <2>1. \A s \in Requests : IsSession(req'[s])
      BY <1>2, <1>3 DEF IInv, TypeOK
    <2> QED BY <1>1, <1>3, <2>1 DEF IInv, TypeOK
  <1>6. KeysInv' /\ Exclusive'
    BY <1>1, <1>2, <1>3, <1>4 DEF IInv, TypeOK, KeysInv, Exclusive
  <1>7. NothingPending'
    BY <1>2, <1>3 DEF IInv, NothingPending
  <1>8. ASSUME NEW s \in Requests, req'[s].phase = "flushed" PROVE WriteOK(s)'
    <2>1. CASE s = r
      BY <1>2, <1>3, <2>1 DEF WriteOK
    <2>2. CASE s # r
      <3>1. req'[s] = req[s] /\ WriteOK(s)
        BY <1>3, <1>8, <2>2 DEF IInv, FlushedInv
      <3>2. ASSUME NEW f, Inserting(s, f) PROVE Inserting(s, f)'
        <4>1. \A t \in Requests : req'[t].view = req[t].view
          BY <1>2, <1>3
        <4> QED BY <1>1, <3>1, <3>2, <4>1 DEF Inserting
      <3> QED BY <1>1, <3>1, <3>2, ZenonT(40) DEF WriteOK, Editing, Removing
    <2> QED BY <2>1, <2>2
  <1> QED BY <1>5, <1>6, <1>7, <1>8 DEF IInv, FlushedInv

\* A flushed session is serving a payload, and its write is typed.
LEMMA FlushedTypes ==
  ASSUME IInv, NEW r \in Requests, req[r].phase = "flushed"
  PROVE  /\ req[r].op \in Payloads
         /\ req[r].op.kind \in {"add", "edit", "remove", "csv", "bulk"}
         /\ IsTable(req[r].put)
         /\ WriteOK(r)
  <1>1. req[r].op \in Payloads /\ IsTable(req[r].put)
    BY DEF IInv, TypeOK, IsSession
  <1> QED BY <1>1, PayloadTypes DEF IInv, FlushedInv

\* What Inserting says of the keys, without the witness.
LEMMA InsertingKeys ==
  ASSUME NEW r \in Requests, NEW file \in Seq(Row), Inserting(r, file)
  PROVE  /\ DOMAIN req[r].put \cap DOMAIN rows = {}
         /\ \A s \in Requests : DOMAIN req[r].put \cap DOMAIN req[s].view = {}
  BY InsertsIsTable DEF Inserting

\* Keys about to be inserted are in no snapshot.
LEMMA PutUnseen ==
  ASSUME IInv, NEW r \in Requests, req[r].phase = "flushed", NEW s \in Requests
  PROVE  DOMAIN req[r].put \cap DOMAIN req[s].view \subseteq DOMAIN rows
  <1>1. CASE req[r].op.kind \in {"add", "csv", "bulk"}
    <2>1. PICK file \in Seq(Row) : Inserting(r, file)
      <3>1. CASE req[r].op.kind = "add"
        <4>1. <<req[r].op.row>> \in Seq(Row)
          BY <3>1, FlushedTypes, PayloadTypes
        <4> QED BY <3>1, <4>1, FlushedTypes DEF WriteOK
      <3>2. CASE req[r].op.kind \in {"csv", "bulk"}
        BY <3>2, FlushedTypes, PayloadTypes DEF WriteOK
      <3> QED BY <1>1, <3>1, <3>2
    <2> QED BY <2>1, InsertingKeys
  <1>2. CASE req[r].op.kind = "edit"
    <2>1. Editing(r, req[r].op)
      BY <1>2, FlushedTypes DEF WriteOK
    <2> QED BY <2>1, EmptyTableIsTable DEF Editing
  <1>3. CASE req[r].op.kind = "remove"
    <2>1. Removing(r, req[r].op)
      BY <1>3, FlushedTypes DEF WriteOK
    <2> QED BY <2>1, EmptyTableIsTable DEF Removing
  <1> QED BY <1>1, <1>2, <1>3, FlushedTypes

LEMMA CommitInv ==
  ASSUME IInv, NEW r \in Requests, Commit(r)
  PROVE  IInv'
  <1> DEFINE new == Closed("ok")
             put == req[r].put
             del == req[r].del
  <1>1. /\ req' = [req EXCEPT ![r] = new] /\ UNCHANGED <<nextId, served>>
        /\ rows' = Apply(rows, put, del) /\ req[r].phase = "flushed"
    BY DEF Commit
  <1>2. /\ IsSession(new) /\ new.phase = "idle" /\ new.view = EmptyTable
        /\ new.put = EmptyTable /\ new.del = {}
    BY ClosedFields DEF Replies
  <1> HIDE DEF new
  <1>3. /\ req' = [s \in Requests |-> req'[s]] /\ req'[r] = new
        /\ \A s \in Requests \ {r} : req'[s] = req[s] /\ Touched(s)' = Touched(s)
    BY <1>1, Frame DEF IInv
  <1>4. IsTable(rows') /\ DOMAIN rows' = (DOMAIN rows \cup DOMAIN put) \ del
    <2>1. IsTable(rows) /\ IsTable(put)
      BY <1>1, FlushedTypes DEF IInv, TypeOK
    <2> HIDE DEF put, del
    <2>2. /\ IsTable(Apply(rows, put, del))
          /\ DOMAIN Apply(rows, put, del) = (DOMAIN rows \cup DOMAIN put) \ del
      BY <2>1, ApplyIsTable
    <2>3. rows' = Apply(rows, put, del)
      BY <1>1
    <2> QED BY <2>2, <2>3
  <1>5. TypeOK'
    <2>1. \A s \in Requests : IsSession(req'[s])
      BY <1>2, <1>3 DEF IInv, TypeOK
    <2>2. DOMAIN rows' \subseteq 1 .. nextId - 1
      BY <1>4 DEF IInv, TypeOK, KeysInv, Touched
    <2> QED BY <1>1, <1>3, <1>4, <2>1, <2>2 DEF IInv, TypeOK
  <1>6. Touched(r)' = {} /\ DOMAIN req'[r].view = {}
    BY <1>2, <1>3, EmptyTableIsTable DEF Touched
  <1>7. KeysInv' /\ Exclusive'
    BY <1>1, <1>3, <1>6 DEF IInv, TypeOK, KeysInv, Exclusive
  <1>8. NothingPending'
    BY <1>2, <1>3 DEF IInv, NothingPending
  <1>9. ASSUME NEW s \in Requests, req'[s].phase = "flushed" PROVE WriteOK(s)'
    <2>1. s # r /\ req'[s] = req[s] /\ WriteOK(s) /\ req[s].phase = "flushed"
      BY <1>2, <1>3, <1>9 DEF IInv, FlushedInv
    <2>2. \A i \in Touched(s) : i \in DOMAIN rows' <=> i \in DOMAIN rows
      BY <1>4, <2>1 DEF IInv, Exclusive, Touched
    <2>3. \A i \in Touched(s) \cap DOMAIN rows : rows'[i] = rows[i]
      BY <1>1, <2>1 DEF IInv, Exclusive, Touched, Apply
    <2>4. ASSUME NEW f \in Seq(Row), Inserting(s, f) PROVE Inserting(s, f)'
      <3>1. PICK base \in Nat :
               /\ req[s].put = Inserts(base, f)
               /\ base + Len(f) < nextId
               /\ (base + 1 .. base + Len(f)) \cap DOMAIN rows = {}
               /\ \A t \in Requests : (base + 1 .. base + Len(f)) \cap DOMAIN req[t].view = {}
        BY <2>4 DEF Inserting
      <3>2. base + 1 .. base + Len(f) \subseteq Touched(s)
        BY <3>1, InsertsIsTable DEF Touched
      <3>3. (base + 1 .. base + Len(f)) \cap DOMAIN rows' = {}
        BY <2>2, <3>1, <3>2
      <3>4. \A t \in Requests : (base + 1 .. base + Len(f)) \cap DOMAIN req'[t].view = {}
        BY <1>3, <1>6, <3>1
      <3> QED BY <1>1, <2>1, <2>4, <3>1, <3>3, <3>4 DEF Inserting
    <2>5. CASE req[s].op.kind \in {"add", "csv", "bulk"}
      <3>1. /\ req[s].op.kind = "add" => <<req[s].op.row>> \in Seq(Row)
            /\ req[s].op.kind \in {"csv", "bulk"} => req[s].op.file \in Seq(Row)
        BY <2>1, FlushedTypes, PayloadTypes
      <3> QED BY <2>1, <2>4, <2>5, <3>1 DEF WriteOK
    <2>6. CASE req[s].op.kind = "edit"
      <3>1. Editing(s, req[s].op)
        BY <2>1, <2>6 DEF WriteOK
      <3>2. Editing(s, req[s].op)'
        <4>1. req[s].op.id \in Touched(s) /\ req[s].op.id \in DOMAIN rows
          BY <3>1 DEF Touched, Editing
        <4> QED BY <2>1, <2>2, <2>3, <3>1, <4>1 DEF Editing
      <3> QED BY <2>1, <2>6, <3>2 DEF WriteOK
    <2>7. CASE req[s].op.kind = "remove"
      <3> DEFINE id == req[s].op.id
      <3>1. Removing(s, req[s].op)
        BY <2>1, <2>7 DEF WriteOK
      <3>2. id \in DOMAIN req[s].view
        BY <3>1 DEF Removing, Found, OfAsset
      <3>3. {id} \cap DOMAIN rows' = {id} \cap DOMAIN rows
        <4>1. CASE id \in DOMAIN rows
          BY <2>2, <3>1, <4>1 DEF Removing, Touched
        <4>2. CASE id \notin DOMAIN rows
          BY <1>1, <1>4, <3>2, <4>2, PutUnseen
        <4> QED BY <4>1, <4>2
      <3> QED BY <2>1, <2>7, <3>1, <3>3 DEF WriteOK, Removing
    <2> QED BY <2>1, <2>5, <2>6, <2>7, FlushedTypes
  <1> QED BY <1>5, <1>7, <1>8, <1>9 DEF IInv, FlushedInv

LEMMA ReadingTypes ==
  ASSUME IInv, NEW r \in Requests, req[r].phase = "reading"
  PROVE  req[r].op \in Payloads /\ IsTable(req[r].view)
  BY DEF IInv, TypeOK, IsSession

LEMMA AddInv ==
  ASSUME IInv, NEW r \in Requests, AddTx(r)
  PROVE  IInv'
  <1>1. req[r].phase = "reading" /\ req[r].op.kind = "add"
    BY DEF AddTx
  <1>2. <<req[r].op.row>> \in Seq(Row)
    BY <1>1, ReadingTypes, PayloadTypes
  <1>3. CASE AddAllowed(req[r].view, req[r].op.row)
    <2>1. Insert(r, <<req[r].op.row>>)
      BY <1>3 DEF AddTx
    <2> QED BY <1>1, <1>2, <1>3, <2>1, InsertInv
  <1>4. CASE ~AddAllowed(req[r].view, req[r].op.row)
    BY <1>4, RefuseInv DEF AddTx, Replies
  <1> QED BY <1>3, <1>4

LEMMA EditInv ==
  ASSUME IInv, NEW r \in Requests, EditTx(r)
  PROVE  IInv'
  <1> DEFINE op == req[r].op
             view == req[r].view
  <1>1. req[r].phase = "reading" /\ op.kind = "edit" /\ op.row \in Row /\ op.id \in Nat \ {0}
    BY ReadingTypes, PayloadTypes DEF EditTx
  <1>2. CASE Refuse(r, "rejected") \/ Refuse(r, "stale")
    BY <1>2, RefuseInv DEF Replies
  <1>4. CASE /\ EditAllowed(view, op.id, op.row)
             /\ ~LockedByOther(r, op.id)
             /\ op.id \in DOMAIN rows
             /\ Flush(r, [i \in {op.id} |-> Merge(rows[i], view[i], op.row)], {}, 0)
    <2>1. PICK put : put = [i \in {op.id} |-> Merge(rows[i], view[i], op.row)]
      OBVIOUS
    <2>2. op.id \in DOMAIN view
      BY <1>4 DEF EditAllowed, Found, OfAsset
    <2>3. Merge(rows[op.id], view[op.id], op.row) \in Row
      BY <1>1, <1>4, <2>2, ReadingTypes, MergeTyped DEF IInv, TypeOK, IsTable
    <2>4. IsTable(put) /\ DOMAIN put = {op.id}
      BY <1>1, <2>1, <2>3 DEF IsTable
    <2>5. \A s \in Requests \ {r} : (DOMAIN put \cup {}) \cap Touched(s) = {}
      BY <1>4, <2>4, EmptyTableIsTable DEF LockedByOther, Touched, IInv, NothingPending
    <2>6. Flush(r, put, {}, 0)
      BY <1>4, <2>1
    <2>7. req'[r] = Session("flushed", op, view, put, {}, "none")
      BY <2>6 DEF Flush, IInv, TypeOK
    <2>8. rows' = rows
      BY <2>6 DEF Flush
    <2>9. req'[r].op = op /\ req'[r].view = view /\ req'[r].put = put /\ req'[r].del = {}
      BY <2>7, SessionFields
    <2>10. Editing(r, req[r].op)'
      BY <1>4, <2>1, <2>8, <2>9 DEF Editing
    <2> QED BY <1>1, <1>4, <2>4, <2>5, <2>6, <2>10, FlushInv
  <1> QED BY <1>2, <1>4 DEF EditTx

LEMMA RemoveInv ==
  ASSUME IInv, NEW r \in Requests, RemoveTx(r)
  PROVE  IInv'
  <1> DEFINE op == req[r].op
             view == req[r].view
  <1>1. req[r].phase = "reading" /\ op.kind = "remove" /\ op.id \in Nat \ {0}
    BY ReadingTypes, PayloadTypes DEF RemoveTx
  <1>2. CASE Refuse(r, "rejected")
    BY <1>2, RefuseInv DEF Replies
  <1>3. CASE /\ Found(view, op.id, op.asset)
             /\ ~LockedByOther(r, op.id)
             /\ Flush(r, EmptyTable, {op.id} \cap DOMAIN rows, 0)
    <2>1. PICK del : del = {op.id} \cap DOMAIN rows
      OBVIOUS
    <2>2. \A s \in Requests \ {r} : (DOMAIN EmptyTable \cup del) \cap Touched(s) = {}
      BY <1>3, <2>1, EmptyTableIsTable DEF LockedByOther, Touched, IInv, NothingPending
    <2>3. Flush(r, EmptyTable, del, 0)
      BY <1>3, <2>1
    <2>4. req'[r] = Session("flushed", op, view, EmptyTable, del, "none")
      BY <2>3 DEF Flush, IInv, TypeOK
    <2>5. rows' = rows
      BY <2>3 DEF Flush
    <2>6. Removing(r, req[r].op)'
      BY <1>3, <2>1, <2>4, <2>5, SessionFields DEF Removing
    <2>7. DOMAIN EmptyTable \cup del \subseteq DOMAIN rows /\ del \subseteq Nat \ {0}
      BY <1>1, <2>1, EmptyTableIsTable
    <2> QED BY <1>1, <2>2, <2>3, <2>6, <2>7, EmptyTableIsTable, FlushInv
  <1> QED BY <1>2, <1>3 DEF RemoveTx

LEMMA ImportInv ==
  ASSUME IInv, NEW r \in Requests, ImportTx(r)
  PROVE  IInv'
  <1>1. /\ req[r].phase = "reading" /\ req[r].op.kind \in {"csv", "bulk"}
        /\ req[r].op.file \in Seq(Row)
    BY ReadingTypes, PayloadTypes DEF ImportTx
  <1>2. CASE Refuse(r, "typeError") \/ Refuse(r, "rejected")
    BY <1>2, RefuseInv DEF Replies
  <1>3. CASE ImportAllowed(req[r].view, req[r].op) /\ Insert(r, req[r].op.file)
    BY <1>1, <1>3, InsertInv
  <1> QED BY <1>2, <1>3 DEF ImportTx

LEMMA StutterInv == IInv /\ UNCHANGED vars => IInv'
  <1> SUFFICES ASSUME IInv, UNCHANGED vars PROVE IInv'
    OBVIOUS
  <1>1. rows' = rows /\ nextId' = nextId /\ req' = req /\ served' = served
    BY DEF vars
  <1>2. TypeOK' /\ KeysInv' /\ NothingPending' /\ Exclusive'
    BY <1>1 DEF IInv, TypeOK, KeysInv, NothingPending, Exclusive, Touched
  <1>3. ASSUME NEW s \in Requests, req'[s].phase = "flushed" PROVE WriteOK(s)'
    <2>1. WriteOK(s)
      BY <1>1, <1>3 DEF IInv, FlushedInv
    <2>2. ASSUME NEW file, Inserting(s, file) PROVE Inserting(s, file)'
      BY <1>1, <2>2 DEF Inserting
    <2> QED BY <1>1, <2>1, <2>2 DEF WriteOK, Editing, Removing
  <1> QED BY <1>2, <1>3 DEF IInv, FlushedInv

LEMMA NextInv == IInv /\ [Next]_vars => IInv'
  <1> SUFFICES ASSUME IInv, [Next]_vars PROVE IInv'
    OBVIOUS
  <1>1. CASE UNCHANGED vars
    BY <1>1, StutterInv
  <1>2. ASSUME NEW r \in Requests, NEW op \in Payloads, Begin(r, op) PROVE IInv'
    BY <1>2, BeginInv
  <1>3. ASSUME NEW r \in Requests, Handle(r) PROVE IInv'
    BY <1>3, AddInv, EditInv, RemoveInv, ImportInv DEF Handle
  <1>4. ASSUME NEW r \in Requests, Commit(r) PROVE IInv'
    BY <1>4, CommitInv
  <1>5. ASSUME NEW r \in Requests, Abort(r) PROVE IInv'
    BY <1>5, RefuseInv DEF Abort, Replies
  <1> QED BY <1>1, <1>2, <1>3, <1>4, <1>5 DEF Next

\* The inductive invariant holds of every behaviour.
THEOREM Invariance == Spec => []IInv
  <1> QED BY InitInv, NextInv, PTL DEF Spec

-----------------------------------------------------------------------------
(***************************************************************************)
(* The results.                                                            *)
(***************************************************************************)
\* TypeOK: tables, sessions and primary keys stay well formed, however many
\* requests overlap and whatever they send.
THEOREM TypeCorrect == Spec => []TypeOK
  <1>1. IInv => TypeOK
    BY DEF IInv
  <1> QED BY <1>1, Invariance, PTL

LEMMA GoneStays ==
  ASSUME IInv, [Next]_vars, NEW i \in 1 .. nextId - 1, Gone(i)
  PROVE  Gone(i)'
  <1>1. CASE UNCHANGED vars
    BY <1>1 DEF Gone, vars
  <1>2. ASSUME NEW r \in Requests, NEW op \in Payloads, Begin(r, op) PROVE Gone(i)'
    <2>1. rows' = rows /\ req' = [req EXCEPT ![r] = Session("reading", op, rows, EmptyTable, {}, "none")]
      BY <1>2 DEF Begin
    <2>2. \A s \in Requests : req'[s] = req[s] \/ req'[s].put = EmptyTable
      BY <2>1, SessionFields DEF IInv, TypeOK
    <2> QED BY <2>1, <2>2, EmptyTableIsTable DEF Gone
  <1>3. ASSUME NEW r \in Requests, NEW reply \in Replies, Refuse(r, reply) PROVE Gone(i)'
    <2>1. rows' = rows /\ \A s \in Requests : req'[s] = req[s] \/ req'[s].put = EmptyTable
      BY <1>3, ClosedFields DEF Refuse, IInv, TypeOK
    <2> QED BY <2>1, EmptyTableIsTable DEF Gone
  <1>4. ASSUME NEW r \in Requests, NEW put, NEW del, NEW n, Flush(r, put, del, n), i \notin DOMAIN put
        PROVE  Gone(i)'
    <2>1. rows' = rows /\ \A s \in Requests : req'[s] = req[s] \/ req'[s].put = put
      BY <1>4, SessionFields DEF Flush, IInv, TypeOK
    <2> QED BY <1>4, <2>1 DEF Gone
  <1>5. ASSUME NEW r \in Requests, NEW file \in Seq(Row), Insert(r, file) PROVE Gone(i)'
    <2>1. nextId - 1 \in Nat
      BY DEF IInv, TypeOK
    <2>2. DOMAIN Inserts(nextId - 1, file) = nextId - 1 + 1 .. nextId - 1 + Len(file)
      BY <2>1, InsertsIsTable
    <2>3. i \notin DOMAIN Inserts(nextId - 1, file)
      BY <2>1, <2>2
    <2> QED BY <1>4, <1>5, <2>3 DEF Insert
  <1>6. ASSUME NEW r \in Requests, AddTx(r) PROVE Gone(i)'
    <2>1. <<req[r].op.row>> \in Seq(Row)
      BY <1>6, ReadingTypes, PayloadTypes DEF AddTx
    <2> QED BY <1>3, <1>5, <1>6, <2>1 DEF AddTx, Replies
  <1>7. ASSUME NEW r \in Requests, EditTx(r) PROVE Gone(i)'
    <2>1. CASE Refuse(r, "rejected") \/ Refuse(r, "stale")
      BY <1>3, <2>1 DEF Replies
    <2>3. CASE /\ req[r].op.id \in DOMAIN rows
               /\ Flush(r, [j \in {req[r].op.id} |-> Merge(rows[j], req[r].view[j], req[r].op.row)], {}, 0)
      <3>1. PICK put : put = [j \in {req[r].op.id} |-> Merge(rows[j], req[r].view[j], req[r].op.row)]
        OBVIOUS
      <3>2. i \notin DOMAIN put
        BY <2>3, <3>1 DEF Gone
      <3>3. Flush(r, put, {}, 0)
        BY <2>3, <3>1
      <3> QED BY <1>4, <3>2, <3>3
    <2> QED BY <1>7, <2>1, <2>3 DEF EditTx
  <1>8. ASSUME NEW r \in Requests, RemoveTx(r) PROVE Gone(i)'
    <2>1. CASE Refuse(r, "rejected")
      BY <1>3, <2>1 DEF Replies
    <2>2. CASE Flush(r, EmptyTable, {req[r].op.id} \cap DOMAIN rows, 0)
      BY <1>4, <2>2, EmptyTableIsTable
    <2> QED BY <1>8, <2>1, <2>2 DEF RemoveTx
  <1>9. ASSUME NEW r \in Requests, ImportTx(r) PROVE Gone(i)'
    <2>1. req[r].op.file \in Seq(Row)
      BY <1>9, ReadingTypes, PayloadTypes DEF ImportTx
    <2> QED BY <1>3, <1>5, <1>9, <2>1 DEF ImportTx, Replies
  <1>10. ASSUME NEW r \in Requests, Commit(r) PROVE Gone(i)'
    <2>1. /\ rows' = Apply(rows, req[r].put, req[r].del)
          /\ \A s \in Requests : req'[s] = req[s] \/ req'[s].put = EmptyTable
      BY <1>10, ClosedFields DEF Commit, Replies, IInv, TypeOK
    <2>2. i \notin DOMAIN rows'
      BY <2>1 DEF Gone, Apply
    <2> QED BY <2>1, <2>2, EmptyTableIsTable DEF Gone
  <1>11. ASSUME NEW r \in Requests, Abort(r) PROVE Gone(i)'
    BY <1>3, <1>11 DEF Abort, Replies
  <1> QED BY <1>1, <1>2, <1>6, <1>7, <1>8, <1>9, <1>10, <1>11 DEF Next, Handle

\* DeletedStaysDeleted: whatever interleaving of edits and deletes of one
\* row, the row never comes back once it is gone.
THEOREM NoResurrection == Spec => DeletedStaysDeleted
  <1>1. IInv /\ [Next]_vars => [\A i \in 1 .. nextId - 1 : Gone(i) => Gone(i)']_vars
    BY GoneStays
  <1> QED BY <1>1, Invariance, PTL DEF Spec, DeletedStaysDeleted

-----------------------------------------------------------------------------
(***************************************************************************)
(* Commits of a snapshot that is still the table.                          *)
(***************************************************************************)
LEMMA InsertIsSerial ==
  ASSUME NEW r \in Requests, NEW file \in Seq(Row), Inserting(r, file), Commit(r)
  PROVE  SerialInsert(file)
  <1>1. PICK base \in Nat :
           /\ req[r].put = Inserts(base, file)
           /\ (base + 1 .. base + Len(file)) \cap DOMAIN rows = {}
    BY DEF Inserting
  <1>2. rows' = Apply(rows, Inserts(base, file), {})
    BY <1>1 DEF Commit, Inserting
  <1>3. CASE Len(file) = 0
    <2>1. Inserts(base, file) = Inserts(0, file)
      <3>1. base + 1 .. base + Len(file) = {} /\ 0 + 1 .. 0 + Len(file) = {}
        BY <1>3
      <3> QED BY <3>1 DEF Inserts
    <2>2. rows' = Apply(rows, Inserts(0, file), {})
      BY <1>2, <2>1
    <2>3. (0 + 1 .. 0 + Len(file)) \cap DOMAIN rows = {}
      BY <1>3
    <2> QED BY <2>2, <2>3 DEF SerialInsert
  <1>4. CASE Len(file) # 0
    <2>1. base + 1 \in DOMAIN Inserts(base, file)
      BY <1>4, InsertsIsTable
    <2>2. base + 1 \in DOMAIN rows'
      BY <1>2, <2>1 DEF Apply
    <2>3. base = (base + 1) - 1
      BY <1>1
    <2>4. base \in {0} \cup {j - 1 : j \in DOMAIN rows'}
      BY <2>2, <2>3
    <2> QED BY <1>1, <1>2, <2>4 DEF SerialInsert
  <1> QED BY <1>3, <1>4

LEMMA EditIsSerial ==
  ASSUME IInv, NEW r \in Requests, Commit(r), req[r].view = rows,
         NEW op \in Payloads, op.kind = "edit", Editing(r, op)
  PROVE  SerialEdit(op)
  <1> DEFINE id == op.id
             sent == [i \in {op.id} |-> op.row]
  <1>1. EditAllowed(rows, id, op.row)
    BY DEF Editing
  <1>2. id \in DOMAIN rows
    BY <1>1 DEF EditAllowed, Found, OfAsset
  <1>3. rows' = Apply(rows, req[r].put, {}) /\ IsTable(rows)
    BY DEF Commit, Editing, IInv, TypeOK
  <1>4. rows[id] \in Row /\ op.row \in Row
    BY <1>2, <1>3, PayloadTypes DEF IsTable
  <1>5. Merge(rows[id], rows[id], op.row) = op.row
    BY <1>4, MergeCurrent
  <1>6. req[r].put = sent
    BY <1>5 DEF Editing
  <1> QED BY <1>1, <1>3, <1>6 DEF SerialEdit

LEMMA RemoveIsSerial ==
  ASSUME NEW r \in Requests, Commit(r), req[r].view = rows,
         NEW op \in Payloads, op.kind = "remove", Removing(r, op)
  PROVE  SerialRemove(op)
  <1>1. Found(rows, op.id, op.asset)
    BY DEF Removing
  <1>2. req[r].del = {op.id} /\ req[r].put = EmptyTable
    BY <1>1 DEF Removing, Found, OfAsset
  <1> QED BY <1>1, <1>2 DEF Commit, SerialRemove

LEMMA CommitIsSerial ==
  ASSUME IInv, NEW r \in Requests, Commit(r), req[r].view = rows
  PROVE  req[r].op \in Payloads /\ SerialStep(req[r].op)
  <1>1. /\ req[r].op \in Payloads /\ WriteOK(r)
        /\ req[r].op.kind \in {"add", "edit", "remove", "csv", "bulk"}
    BY FlushedTypes DEF Commit
  <1>2. CASE req[r].op.kind = "add"
    <2>1. <<req[r].op.row>> \in Seq(Row)
      BY <1>1, <1>2, PayloadTypes
    <2>2. AddAllowed(rows, req[r].op.row) /\ Inserting(r, <<req[r].op.row>>)
      BY <1>1, <1>2 DEF WriteOK
    <2>3. SerialInsert(<<req[r].op.row>>)
      BY <2>1, <2>2, InsertIsSerial
    <2> QED BY <1>1, <1>2, <2>2, <2>3 DEF SerialStep, SerialAdd
  <1>3. CASE req[r].op.kind = "edit"
    BY <1>1, <1>3, EditIsSerial DEF WriteOK, SerialStep
  <1>4. CASE req[r].op.kind = "remove"
    BY <1>1, <1>4, RemoveIsSerial DEF WriteOK, SerialStep
  <1>5. CASE req[r].op.kind \in {"csv", "bulk"}
    <2>1. req[r].op.file \in Seq(Row)
      BY <1>1, <1>5, PayloadTypes
    <2>2. ImportAllowed(rows, req[r].op) /\ Inserting(r, req[r].op.file)
      BY <1>1, <1>5 DEF WriteOK
    <2>3. SerialInsert(req[r].op.file)
      BY <2>1, <2>2, InsertIsSerial
    <2> QED BY <1>1, <1>5, <2>2, <2>3 DEF SerialStep, SerialImport
  <1> QED BY <1>1, <1>2, <1>3, <1>4, <1>5

\* OverlapFreeIsSerial: a commit whose snapshot is still current does what
\* the serial ledger does, whatever other sessions hold uncommitted.
THEOREM OverlapFree == Spec => OverlapFreeIsSerial
  <1>1. IInv /\ [Next]_vars =>
          [\A r \in Requests : Commit(r) /\ req[r].view = rows => SerialStep(req[r].op)]_vars
    BY CommitIsSerial
  <1> QED BY <1>1, Invariance, PTL DEF Spec, OverlapFreeIsSerial

-----------------------------------------------------------------------------
(***************************************************************************)
(* One request at a time implements the serial ledger.                     *)
(***************************************************************************)
Current == \A r \in Requests : req[r].phase # "idle" => req[r].view = rows

LEMMA AloneIsCurrent ==
  ASSUME \A r, s \in Requests : r = s, IInv, Current, [Next]_vars
  PROVE  Current' /\ [SerialNext]_rows
  <1>1. CASE UNCHANGED vars
    BY <1>1 DEF vars, Current
  <1>2. ASSUME NEW r \in Requests, NEW op \in Payloads, Begin(r, op)
        PROVE  Current' /\ rows' = rows
    <2>1. rows' = rows /\ req' = [req EXCEPT ![r] = Session("reading", op, rows, EmptyTable, {}, "none")]
      BY <1>2 DEF Begin
    <2>2. \A s \in Requests : req'[s].view = rows
      BY <2>1, SessionFields DEF IInv, TypeOK
    <2> QED BY <2>1, <2>2 DEF Current
  <1>3. ASSUME NEW r \in Requests, NEW reply \in Replies, Refuse(r, reply)
        PROVE  Current' /\ rows' = rows
    <2>1. rows' = rows /\ \A s \in Requests : req'[s].phase = "idle"
      BY <1>3, ClosedFields DEF Refuse, IInv, TypeOK
    <2> QED BY <2>1 DEF Current
  <1>4. ASSUME NEW r \in Requests, NEW put, NEW del, NEW n, Flush(r, put, del, n),
               req[r].phase = "reading"
        PROVE  Current' /\ rows' = rows
    <2>1. rows' = rows /\ \A s \in Requests : req'[s].view = req[r].view
      BY <1>4, SessionFields DEF Flush, IInv, TypeOK
    <2> QED BY <1>4, <2>1 DEF Current
  <1>5. ASSUME NEW r \in Requests, Handle(r) PROVE Current' /\ rows' = rows
    <2>1. req[r].phase = "reading"
      BY <1>5 DEF Handle, AddTx, EditTx, RemoveTx, ImportTx
    <2>2. \/ \E reply \in Replies : Refuse(r, reply)
          \/ \E put, del, n : Flush(r, put, del, n)
      BY <1>5 DEF Handle, AddTx, EditTx, RemoveTx, ImportTx, Insert, Replies
    <2> QED BY <1>3, <1>4, <2>1, <2>2
  <1>6. ASSUME NEW r \in Requests, Commit(r) PROVE Current' /\ SerialNext
    <2>1. req[r].view = rows /\ \A s \in Requests : req'[s].phase = "idle"
      BY <1>6, ClosedFields DEF Commit, Current, Replies, IInv, TypeOK
    <2>2. SerialNext
      BY <1>6, <2>1, CommitIsSerial DEF SerialNext
    <2> QED BY <2>1, <2>2 DEF Current
  <1>7. ASSUME NEW r \in Requests, Abort(r) PROVE Current' /\ rows' = rows
    BY <1>3, <1>7 DEF Abort, Replies
  <1> QED BY <1>1, <1>2, <1>5, <1>6, <1>7 DEF Next

\* ImplementsSerial: with one request in flight at a time, every behaviour of
\* sessions, flushes, commits and aborts is a behaviour of SerialLedger.
THEOREM SerialRefinement ==
  ASSUME \A r, s \in Requests : r = s
  PROVE  Spec => ImplementsSerial
  <1>1. Init => SerialInit /\ Current
    <2> SUFFICES ASSUME Init PROVE SerialInit /\ Current
      OBVIOUS
    <2>1. \A r \in Requests : req[r].phase = "idle"
      BY ClosedFields DEF Init, Replies
    <2> QED BY <2>1 DEF Init, SerialInit, Current
  <1>2. IInv /\ Current /\ [Next]_vars => Current' /\ [SerialNext]_rows
    BY AloneIsCurrent
  <1> QED BY <1>1, <1>2, Invariance, PTL DEF Spec, ImplementsSerial, SerialSpec

-----------------------------------------------------------------------------
(***************************************************************************)
(* Holdings as sums: what rows of a table, entries of a file or entries of *)
(* a timeline add up to.                                                   *)
(***************************************************************************)
Net(s, D) == SumFunctionOnSet(Moves(s), D)

\* The entries that are rows of C.
In(s, C) == {i \in DOMAIN s : s[i] \in C}

RowsOf(a) == {x \in Row : x.asset = a}

LEMMA RowFacts ==
  ASSUME NEW x \in Row
  PROVE  /\ Signed(x) \in Int /\ x.at \in Nat /\ x.qty \in Nat /\ x.qty > 0
         /\ x.type = "BUY" \/ x.type = "SELL"
         /\ x.type = "BUY" => Signed(x) = x.qty /\ SideRank(x) = 0
         /\ x.type = "SELL" => Signed(x) = -x.qty /\ SideRank(x) = 1
  <1>1. x.type \in {"BUY", "SELL"} /\ x.qty \in Qtys /\ x.at \in Instants
    BY DEF Row
  <1>2. x.qty \in Nat \ {0} /\ x.at \in Nat
    BY <1>1, LedgerRulesAssumption
  <1> QED BY <1>1, <1>2 DEF Signed, SideRank

LEMMA MovesOf ==
  ASSUME NEW s, \A i \in DOMAIN s : s[i] \in Row
  PROVE  \A i \in DOMAIN s : Moves(s)[i] = Signed(s[i]) /\ Moves(s)[i] \in Int
  BY RowFacts DEF Moves

LEMMA NetType ==
  ASSUME NEW s, \A i \in DOMAIN s : s[i] \in Row, NEW D, D \subseteq DOMAIN s, IsFiniteSet(D)
  PROVE  Net(s, D) \in Int
  <1>1. \A i \in D : Moves(s)[i] \in Int
    BY MovesOf
  <1> QED BY <1>1, SumOnSet DEF Net

\* u holds the rows of t and, beyond place `base`, those of the file.
Joined(t, file, base, u) ==
    /\ IsFiniteSet(DOMAIN t) /\ \A i \in DOMAIN t : t[i] \in Row
    /\ IsFiniteSet(DOMAIN file) /\ \A p \in DOMAIN file : p \in Nat /\ file[p] \in Row
    /\ base \in Nat
    /\ DOMAIN u = DOMAIN t \cup {base + p : p \in DOMAIN file}
    /\ \A i \in DOMAIN t : u[i] = t[i]
    /\ \A p \in DOMAIN file : base + p \notin DOMAIN t /\ u[base + p] = file[p]

LEMMA JoinedNet ==
  ASSUME NEW t, NEW file, NEW base, NEW u, Joined(t, file, base, u), NEW C
  PROVE  Net(u, In(u, C)) = Net(t, In(t, C)) + Net(file, In(file, C))
  <1>0. /\ IsFiniteSet(DOMAIN t) /\ \A i \in DOMAIN t : t[i] \in Row
        /\ IsFiniteSet(DOMAIN file) /\ \A p \in DOMAIN file : p \in Nat /\ file[p] \in Row
        /\ base \in Nat
        /\ DOMAIN u = DOMAIN t \cup {base + p : p \in DOMAIN file}
        /\ \A i \in DOMAIN t : u[i] = t[i]
        /\ \A p \in DOMAIN file : base + p \notin DOMAIN t /\ u[base + p] = file[p]
    BY DEF Joined
  <1> USE <1>0
  <1> DEFINE I == In(t, C)
             P == In(file, C)
             h == [p \in DOMAIN file |-> base + p]
             K == {h[p] : p \in P}
  <1>1. I \subseteq DOMAIN t /\ P \subseteq DOMAIN file /\ IsFiniteSet(I) /\ IsFiniteSet(P)
    BY FS_Subset DEF In
  <1>2. \A i \in DOMAIN u : u[i] \in Row
    OBVIOUS
  <1>3. /\ \A p \in P : Moves(file)[p] \in Int /\ Moves(u)[h[p]] = Moves(file)[p]
        /\ \A p, q \in P : h[p] = h[q] => p = q
    <2>1. ASSUME NEW p \in P PROVE Moves(file)[p] \in Int /\ Moves(u)[h[p]] = Moves(file)[p]
      <3>1. p \in DOMAIN file /\ h[p] = base + p /\ h[p] \in DOMAIN u /\ u[h[p]] = file[p]
        BY <1>1
      <3> HIDE DEF h, P
      <3> QED BY <1>2, <3>1, MovesOf
    <2>2. \A p, q \in P : p \in Nat /\ q \in Nat /\ h[p] = base + p /\ h[q] = base + q
      BY <1>1
    <2> HIDE DEF h, P
    <2> QED BY <2>1, <2>2
  <1>4. IsFiniteSet(K) /\ Net(file, P) = Net(u, K)
    <2> DEFINE f == Moves(file)
               g == Moves(u)
    <2>1. /\ \A p \in P : f[p] \in Int /\ g[h[p]] = f[p] /\ h[p] \in K
          /\ \A k \in K : \E p \in P : h[p] = k
      BY <1>3
    <2> HIDE DEF h, P, f, g, K
    <2>2. Renaming(h, f, P, g, K)
      BY <1>3, <2>1 DEF Renaming
    <2>3. IsFiniteSet(K) /\ SumFunctionOnSet(f, P) = SumFunctionOnSet(g, K)
      BY <1>1, <2>2, SumOverImage
    <2> QED BY <2>3 DEF Net, f, g
  <1>5. In(u, C) = I \cup K /\ I \cap K = {} /\ K \subseteq DOMAIN u /\ I \subseteq DOMAIN u
    <2>1. K = {base + p : p \in P}
      BY <1>1
    <2> QED BY <2>1 DEF In
  <1>6. Net(t, I) = Net(u, I)
    <2>1. \A i \in I : Moves(t)[i] \in Int /\ Moves(t)[i] = Moves(u)[i]
      BY <1>2, <1>1, <1>5, MovesOf
    <2> HIDE DEF I
    <2> QED BY <1>1, <2>1, SumOnSet DEF Net
  <1>7. Net(u, I \cup K) = Net(u, I) + Net(u, K)
    <2>1. \A i \in I \cup K : Moves(u)[i] \in Int
      BY <1>2, <1>5, MovesOf
    <2> HIDE DEF I, K
    <2> QED BY <1>1, <1>4, <1>5, <2>1, SumSplit DEF Net
  <1> HIDE DEF I, K, P
  <1>8. Net(u, In(u, C)) = Net(t, I) + Net(file, P)
    BY <1>4, <1>5, <1>6, <1>7
  <1> QED BY <1>8 DEF I, P

\* The same rows in another order, or under other keys: c[p] is t[h[p]].
Reordered(t, n, c, h) ==
    /\ \A i \in DOMAIN t : t[i] \in Row
    /\ n \in Nat /\ DOMAIN c = 1 .. n
    /\ \A p \in 1 .. n : h[p] \in DOMAIN t /\ c[p] = t[h[p]]
    /\ \A p, q \in 1 .. n : h[p] = h[q] => p = q

IsImage(h, P, T) == (\A p \in P : h[p] \in T) /\ \A i \in T : \E p \in P : h[p] = i

LEMMA ReorderedNet ==
  ASSUME NEW t, NEW n, NEW c, NEW h, Reordered(t, n, c, h), NEW P \in SUBSET (1 .. n),
         NEW T, IsImage(h, P, T)
  PROVE  Net(c, P) = Net(t, T)
  <1>0. /\ \A i \in DOMAIN t : t[i] \in Row
        /\ n \in Nat /\ DOMAIN c = 1 .. n
        /\ \A p \in 1 .. n : h[p] \in DOMAIN t /\ c[p] = t[h[p]]
        /\ \A p, q \in 1 .. n : h[p] = h[q] => p = q
    BY DEF Reordered
  <1> USE <1>0
  <1>1. IsFiniteSet(P)
    <2>1. IsFiniteSet(1 .. n)
      BY FS_Interval
    <2> QED BY <2>1, FS_Subset
  <1>2. \A p \in 1 .. n : c[p] \in Row
    OBVIOUS
  <1>3. \A p \in P : Moves(c)[p] \in Int /\ Moves(t)[h[p]] = Moves(c)[p]
    <2>1. ASSUME NEW p \in P PROVE Moves(c)[p] \in Int /\ Moves(t)[h[p]] = Moves(c)[p]
      <3>1. p \in DOMAIN c /\ h[p] \in DOMAIN t /\ c[p] = t[h[p]]
        OBVIOUS
      <3> QED BY <1>2, <3>1, MovesOf
    <2> QED BY <2>1
  <1> DEFINE f == Moves(c)
             g == Moves(t)
  <1>4. /\ \A p, q \in P : h[p] = h[q] => p = q
        /\ \A p \in P : f[p] \in Int /\ g[h[p]] = f[p] /\ h[p] \in T
        /\ \A k \in T : \E p \in P : h[p] = k
    BY <1>3 DEF IsImage
  <1> HIDE DEF f, g
  <1>5. SumFunctionOnSet(f, P) = SumFunctionOnSet(g, T)
    <2>1. Renaming(h, f, P, g, T)
      BY <1>4 DEF Renaming
    <2> QED BY <1>1, <2>1, SumOverImage
  <1> QED BY <1>5 DEF Net, f, g

\* The totals of the checks are the sum of the moves.
LEMMA RemainingIsNet ==
  ASSUME NEW t, IsTable(t), IsFiniteSet(DOMAIN t), NEW a
  PROVE  /\ Remaining(t, a) = Net(t, OfAsset(t, a))
         /\ Total(t, a, "BUY") \in Int /\ Total(t, a, "SELL") \in Int
         /\ OfAsset(t, a) = In(t, RowsOf(a)) /\ IsFiniteSet(OfAsset(t, a))
  <1> DEFINE O == OfAsset(t, a)
             B == {i \in O : t[i].type = "BUY"}
             S == {i \in O : t[i].type = "SELL"}
  <1>1. \A i \in DOMAIN t : t[i] \in Row
    BY DEF IsTable
  <1>2. O \subseteq DOMAIN t /\ O = In(t, RowsOf(a))
    BY <1>1 DEF OfAsset, In, RowsOf
  <1>3. IsFiniteSet(O) /\ IsFiniteSet(B) /\ IsFiniteSet(S)
    BY <1>2, FS_Subset
  <1>4. O = B \cup S /\ B \cap S = {}
    <2>1. \A i \in O : t[i].type = "BUY" \/ t[i].type = "SELL"
      BY <1>1, <1>2, RowFacts
    <2> QED BY <2>1
  <1>5. \A i \in O : Moves(t)[i] \in Int /\ Amounts(t)[i] \in Int
    BY <1>1, <1>2, MovesOf, RowFacts DEF Amounts
  <1>6. SumFunctionOnSet(Amounts(t), B) = Net(t, B) /\ SumFunctionOnSet(Amounts(t), B) \in Int
    <2>1. \A i \in B : Amounts(t)[i] = Moves(t)[i] /\ Amounts(t)[i] \in Int
      BY <1>1, <1>2, <1>5, MovesOf, RowFacts DEF Amounts
    <2> HIDE DEF B
    <2> QED BY <1>3, <2>1, SumOnSet DEF Net
  <1>7. SumFunctionOnSet(Amounts(t), S) = -Net(t, S) /\ SumFunctionOnSet(Amounts(t), S) \in Int
        /\ Net(t, S) \in Int
    <2>1. \A i \in S : Amounts(t)[i] = -Moves(t)[i] /\ Moves(t)[i] \in Int /\ Amounts(t)[i] \in Int
      <3>1. ASSUME NEW i \in S PROVE Amounts(t)[i] = -Moves(t)[i]
        <4>1. i \in DOMAIN t /\ t[i] \in Row /\ t[i].type = "SELL"
          BY <1>1, <1>2
        <4>2. Moves(t)[i] = -t[i].qty /\ Amounts(t)[i] = t[i].qty /\ t[i].qty \in Int
          BY <1>1, <4>1, MovesOf, RowFacts DEF Amounts
        <4> QED BY <4>2
      <3> QED BY <1>5, <3>1
    <2> HIDE DEF S
    <2> QED BY <1>3, <2>1, SumNegated, SumOnSet DEF Net
  <1>8. Net(t, B \cup S) = Net(t, B) + Net(t, S)
    <2>1. \A i \in B \cup S : Moves(t)[i] \in Int
      BY <1>4, <1>5
    <2> HIDE DEF B, S
    <2> QED BY <1>3, <1>4, <2>1, SumSplit DEF Net
  <1>9. Total(t, a, "BUY") = SumFunctionOnSet(Amounts(t), B)
        /\ Total(t, a, "SELL") = SumFunctionOnSet(Amounts(t), S)
    BY DEF Total
  <1>10. Remaining(t, a) = Net(t, B) + Net(t, S)
    <2> HIDE DEF B, S
    <2> QED BY <1>6, <1>7, <1>9 DEF Remaining
  <1>11. Net(t, O) = Net(t, B) + Net(t, S)
    <2> HIDE DEF O, B, S
    <2> QED BY <1>4, <1>8
  <1> QED BY <1>2, <1>3, <1>6, <1>7, <1>9, <1>10, <1>11

-----------------------------------------------------------------------------
(***************************************************************************)
(* The order the walks read an asset's rows in.                            *)
(***************************************************************************)
\* Every table can be ordered.
LEMMA DatedTable == \A t : IsTable(t) => Dated(t, DOMAIN t)
  BY RowFacts DEF IsTable, Dated

\* The walk's rows: every row of the asset once, in the repository's order.
LEMMA ChronologicalPlaces ==
  ASSUME NEW t, IsTable(t), IsFiniteSet(DOMAIN t), NEW a
  PROVE  LET n == Cardinality(OfAsset(t, a))
             c == Chronological(t, a)
         IN  /\ n \in Nat /\ c \in Seq(Row) /\ Len(c) = n /\ DOMAIN c = 1 .. n
             /\ \E h \in [1 .. n -> OfAsset(t, a)] :
                   /\ \A p \in 1 .. n : c[p] = t[h[p]]
                   /\ \A p, q \in 1 .. n : p < q => Precedes(t, h[p], h[q])
                   /\ {h[p] : p \in 1 .. n} = OfAsset(t, a)
  <1> DEFINE ids == OfAsset(t, a)
             n   == Cardinality(ids)
             c   == Chronological(t, a)
  <1>1. IsFiniteSet(ids) /\ \A i \in ids : t[i] \in Row
    BY FS_Subset DEF OfAsset, IsTable
  <1>2. Dated(t, ids)
    BY DatedTable DEF OfAsset, Dated
  <1> HIDE DEF ids, n, c
  <1>3. /\ n \in Nat /\ DOMAIN c = 1 .. n /\ c = [p \in 1 .. n |-> c[p]]
        /\ \E h \in [1 .. n -> ids] :
              /\ \A p \in 1 .. n : c[p] = t[h[p]]
              /\ \A p, q \in 1 .. n : p < q => Precedes(t, h[p], h[q])
              /\ {h[p] : p \in 1 .. n} = ids
    <2>1. c = InOrder(t, ids)
      BY DEF c, ids, Chronological
    <2> QED BY <1>1, <1>2, <2>1, OrderedPlaces DEF n
  <1>4. \A p \in 1 .. n : c[p] \in Row
    BY <1>1, <1>3
  <1>5. c \in Seq(Row) /\ Len(c) = n
    BY <1>3, <1>4
  <1> QED BY <1>3, <1>5 DEF ids, n, c

-----------------------------------------------------------------------------
(***************************************************************************)
(* From the timeline an import checks to the table it leaves.              *)
(***************************************************************************)
\* The running balance is read at every entry; where it never sinks below
\* zero, no set of entries closed under "no later" sums below zero either.
LEMMA ClosedPrefix ==
  ASSUME NEW s \in Seq(Row), NeverNegative(s), NEW D \in SUBSET DOMAIN s,
         \A q \in D, p \in DOMAIN s : NoLater(s, p, q) => p \in D
  PROVE  Net(s, D) >= 0
  <1> DEFINE low(q) == {p \in DOMAIN s : NoLater(s, p, q)}
             rests  == {D \ low(q) : q \in D}
  <1>1. IsFiniteSet(D)
    <2>1. IsFiniteSet(1 .. Len(s))
      BY FS_Interval
    <2> QED BY <2>1, FS_Subset
  <1>2. /\ \A p \in DOMAIN s : NoLater(s, p, p)
        /\ \A p, q \in DOMAIN s : NoLater(s, p, q) \/ NoLater(s, q, p)
        /\ \A o, p, q \in DOMAIN s : NoLater(s, o, p) /\ NoLater(s, p, q) => NoLater(s, o, q)
    <2>1. \A p \in DOMAIN s : s[p].at \in Nat /\ p \in Nat
      BY RowFacts
    <2> QED BY <2>1 DEF NoLater
  <1>3. CASE D = {}
    <2>1. SumFunctionOnSet(Moves(s), {}) = 0
      BY FS_EmptySet, SumOnSet
    <2> QED BY <1>3, <2>1 DEF Net
  <1>4. CASE D # {}
    <2>1. rests \subseteq SUBSET D /\ rests # {}
      BY <1>4, ZenonT(40)
    <2>2. PICK m \in rests : \A k \in rests : k \subseteq m => k = m
      <3> HIDE DEF rests
      <3> QED BY <1>1, <2>1, MinimalSubset
    <2>3. PICK q \in D : m = D \ low(q)
      OBVIOUS
    <2>4. ASSUME NEW p \in D, p \notin low(q) PROVE FALSE
      <3>1. NoLater(s, q, p) /\ ~NoLater(s, p, q) /\ NoLater(s, p, p)
        BY <1>2, <2>4
      <3>2. D \ low(p) \subseteq D \ low(q)
        BY <1>2, <3>1
      <3>3. D \ low(p) \in rests
        OBVIOUS
      <3>4. D \ low(p) = D \ low(q)
        <4> HIDE DEF rests, low
        <4> QED BY <2>2, <2>3, <3>2, <3>3
      <3>5. p \in D \ low(q) /\ p \notin D \ low(p)
        BY <2>4, <3>1
      <3> HIDE DEF low
      <3> QED BY <3>4, <3>5
    <2>5. D = low(q)
      BY <2>4
    <2> HIDE DEF low
    <2>6. RunningBalance(s, q) = Net(s, low(q))
      BY DEF RunningBalance, Net, low
    <2>7. RunningBalance(s, q) >= 0
      BY DEF NeverNegative
    <2> QED BY <2>5, <2>6, <2>7
  <1> QED BY <1>3, <1>4

\* The walk's rows of C are the table's.
LEMMA ChronologicalNet ==
  ASSUME NEW t, IsTable(t), IsFiniteSet(DOMAIN t), NEW a, NEW C
  PROVE  Net(Chronological(t, a), In(Chronological(t, a), C)) = Net(t, In(t, C \cap RowsOf(a)))
  <1> DEFINE c == Chronological(t, a)
             R == RowsOf(a)
             n == Cardinality(OfAsset(t, a))
  <1>1. \A i \in DOMAIN t : t[i] \in Row /\ i \in Nat
    BY DEF IsTable
  <1>2. /\ n \in Nat /\ c \in Seq(Row) /\ Len(c) = n /\ DOMAIN c = 1 .. n
        /\ \E h \in [1 .. n -> OfAsset(t, a)] :
              /\ \A p \in 1 .. n : c[p] = t[h[p]]
              /\ \A p, q \in 1 .. n : p < q => Precedes(t, h[p], h[q])
              /\ {h[p] : p \in 1 .. n} = OfAsset(t, a)
    BY ChronologicalPlaces
  <1>3. Net(c, In(c, C)) = Net(t, In(t, C \cap R))
    <2>1. PICK h \in [1 .. n -> OfAsset(t, a)] :
              /\ \A p \in 1 .. n : c[p] = t[h[p]]
              /\ \A p, q \in 1 .. n : p < q => Precedes(t, h[p], h[q])
              /\ {h[p] : p \in 1 .. n} = OfAsset(t, a)
      BY <1>2
    <2>2. OfAsset(t, a) \subseteq DOMAIN t
      BY DEF OfAsset
    <2>3. ASSUME NEW p \in 1 .. n, NEW q \in 1 .. n, h[p] = h[q] PROVE p = q
      <3>1. h[p] \in DOMAIN t /\ h[q] \in DOMAIN t
        BY <2>2
      <3>2. ~Precedes(t, h[p], h[p])
        BY <3>1, DatedTable, PrecedesOrder
      <3>3. ~(p < q) /\ ~(q < p)
        BY <2>1, <2>3, <3>2
      <3> QED BY <1>2, <3>3
    <2> DEFINE P == In(c, C)
    <2>4. P \in SUBSET (1 .. n)
      BY <1>2 DEF In
    <2>5. IsImage(h, P, In(t, C \cap R))
      <3>1. ASSUME NEW p \in P PROVE h[p] \in In(t, C \cap R)
        <4>1. p \in 1 .. n /\ c[p] \in C /\ c[p] = t[h[p]] /\ h[p] \in OfAsset(t, a)
          BY <2>1, <2>4 DEF In
        <4>2. t[h[p]] \in R /\ h[p] \in DOMAIN t
          BY <1>1, <4>1 DEF OfAsset, RowsOf
        <4> QED BY <4>1, <4>2 DEF In
      <3>2. ASSUME NEW i \in In(t, C \cap R) PROVE \E p \in P : h[p] = i
        <4>1. i \in OfAsset(t, a) /\ t[i] \in C
          BY DEF In, OfAsset, RowsOf
        <4>2. PICK p \in 1 .. n : h[p] = i
          BY <2>1, <4>1
        <4>3. p \in P
          BY <1>2, <2>1, <4>1, <4>2 DEF In
        <4> QED BY <4>2, <4>3
      <3> QED BY <3>1, <3>2 DEF IsImage
    <2>6. h \in [1 .. n -> DOMAIN t]
      BY <2>2
    <2> HIDE DEF P, c, n, R
    <2>8. Reordered(t, n, c, h)
      BY <1>1, <1>2, <2>1, <2>3, <2>6 DEF Reordered
    <2>7. Net(c, P) = Net(t, In(t, C \cap R))
      BY <2>4, <2>5, <2>8, ReorderedNet
    <2> QED BY <2>7 DEF P
  <1> QED BY <1>3

\* A file whose keys are fresh, and the table with its rows.
Fits(t, file, base) ==
    /\ IsTable(t) /\ IsFiniteSet(DOMAIN t) /\ file \in Seq(Row) /\ base \in Nat
    /\ (base + 1 .. base + Len(file)) \cap DOMAIN t = {}

Extended(t, file, base) == Apply(t, Inserts(base, file), {})

\* What an insert adds to the rows of C.
LEMMA InsertedNet ==
  ASSUME NEW t, NEW file, NEW base, Fits(t, file, base), NEW C
  PROVE  LET u == Extended(t, file, base)
         IN  Net(u, In(u, C)) = Net(t, In(t, C)) + Net(file, In(file, C))
  <1> DEFINE u == Extended(t, file, base)
  <1>0. /\ IsTable(t) /\ IsFiniteSet(DOMAIN t) /\ file \in Seq(Row) /\ base \in Nat
        /\ (base + 1 .. base + Len(file)) \cap DOMAIN t = {}
    BY DEF Fits
  <1> USE <1>0
  <1>1. \A i \in DOMAIN t : t[i] \in Row /\ i \in Nat
    BY DEF IsTable
  <1>2. Net(u, In(u, C)) = Net(t, In(t, C)) + Net(file, In(file, C))
    <2> DEFINE N == Len(file)
    <2>1. N \in Nat /\ DOMAIN file = 1 .. N /\ IsFiniteSet(1 .. N)
      BY FS_Interval
    <2>2. \A p \in 1 .. N : p \in Nat /\ file[p] \in Row
      OBVIOUS
    <2>3. /\ DOMAIN Inserts(base, file) = base + 1 .. base + N
          /\ \A i \in base + 1 .. base + N : Inserts(base, file)[i] = file[i - base]
      BY DEF Inserts
    <2> HIDE DEF N
    <2>4. base + 1 .. base + N = {base + p : p \in 1 .. N}
      <3>1. \A i \in base + 1 .. base + N : i - base \in 1 .. N /\ base + (i - base) = i
        BY <2>1
      <3>2. \A p \in 1 .. N : base + p \in base + 1 .. base + N
        BY <2>1
      <3> QED BY <3>1, <3>2
    <2>5. DOMAIN u = DOMAIN t \cup {base + p : p \in DOMAIN file}
      BY <2>1, <2>3, <2>4 DEF Apply, Extended
    <2>6. ASSUME NEW p \in DOMAIN file PROVE base + p \notin DOMAIN t /\ u[base + p] = file[p]
      <3>1. base + p \in base + 1 .. base + N /\ (base + p) - base = p
        BY <2>1
      <3>2. base + p \notin DOMAIN t
        BY <3>1 DEF N
      <3>3. Inserts(base, file)[base + p] = file[p] /\ base + p \in DOMAIN Inserts(base, file)
        BY <2>3, <3>1
      <3> QED BY <3>2, <3>3 DEF Apply, Extended
    <2>7. \A i \in DOMAIN t : u[i] = t[i]
      <3>1. \A i \in DOMAIN t : i \notin DOMAIN Inserts(base, file)
        BY <2>3 DEF N
      <3> QED BY <3>1 DEF Apply, Extended
    <2> HIDE DEF u
    <2>8. Joined(t, file, base, u)
      BY <1>1, <2>1, <2>2, <2>5, <2>6, <2>7 DEF Joined
    <2> QED BY <2>8, JoinedNet
  <1> QED BY <1>2

\* An asset's rows of the table, then those of a file.
Timeline(t, a, file) == Chronological(t, a) \o FileRows(file, a)

\* The rows of C a timeline holds are those of the table with the file added.
LEMMA TimelineNet ==
  ASSUME NEW t, NEW file, NEW base, Fits(t, file, base), NEW a, NEW C
  PROVE  LET s == Timeline(t, a, file)
             u == Extended(t, file, base)
         IN  s \in Seq(Row) /\ Net(s, In(s, C)) = Net(u, In(u, C \cap RowsOf(a)))
  <1> DEFINE c == Chronological(t, a)
             k == FileRows(file, a)
             s == Timeline(t, a, file)
             u == Extended(t, file, base)
             R == RowsOf(a)
             n == Cardinality(OfAsset(t, a))
             l == Len(k)
  <1>0. /\ IsTable(t) /\ IsFiniteSet(DOMAIN t) /\ file \in Seq(Row) /\ base \in Nat
        /\ (base + 1 .. base + Len(file)) \cap DOMAIN t = {}
    BY DEF Fits
  <1> USE <1>0
  <1>1. \A i \in DOMAIN t : t[i] \in Row /\ i \in Nat
    BY DEF IsTable
  <1>2. /\ n \in Nat /\ c \in Seq(Row) /\ Len(c) = n /\ DOMAIN c = 1 .. n
        /\ \E h \in [1 .. n -> OfAsset(t, a)] :
              /\ \A p \in 1 .. n : c[p] = t[h[p]]
              /\ \A p, q \in 1 .. n : p < q => Precedes(t, h[p], h[q])
              /\ {h[p] : p \in 1 .. n} = OfAsset(t, a)
    BY ChronologicalPlaces
  <1>3. /\ k \in Seq(Row) /\ l \in Nat /\ DOMAIN k = 1 .. l
        /\ \E h : Places(k, file, R, h)
    <2>1. k = Keep(file, R)
      BY DEF FileRows, RowsOf
    <2>2. k \in Seq(Row \cap R)
      BY <2>1, KeepMembers
    <2>3. k \in Seq(Row)
      BY <2>2
    <2> HIDE DEF k, R, l
    <2>4. \E h : Places(k, file, R, h)
      BY <2>1, KeepPlaces
    <2>5. l \in Nat /\ DOMAIN k = 1 .. l
      BY <2>3 DEF l
    <2> QED BY <2>3, <2>4, <2>5
  <1>4. s \in Seq(Row) /\ s = c \o k
    <2> HIDE DEF c, k
    <2> QED BY <1>2, <1>3 DEF Timeline, c, k
  <1>5. Net(c, In(c, C)) = Net(t, In(t, C \cap R))
    <2> HIDE DEF c, R
    <2> QED BY ChronologicalNet DEF c, R
  <1>6. Net(k, In(k, C)) = Net(file, In(file, C \cap R))
    <2>0. PICK h : Places(k, file, R, h)
      BY <1>3
    <2>1. /\ h \in [1 .. l -> 1 .. Len(file)]
          /\ \A p \in 1 .. l : k[p] = file[h[p]]
          /\ \A p, q \in 1 .. l : p < q => h[p] < h[q]
          /\ {h[p] : p \in 1 .. l} = {p \in 1 .. Len(file) : file[p] \in R}
      BY <2>0 DEF Places
    <2>2. DOMAIN file = 1 .. Len(file) /\ \A p \in DOMAIN file : file[p] \in Row /\ p \in Nat
      OBVIOUS
    <2>3. ASSUME NEW p \in 1 .. l, NEW q \in 1 .. l, h[p] = h[q] PROVE p = q
      <3>1. h[p] \in Nat /\ h[q] \in Nat
        BY <2>1
      <3>3. ~(p < q) /\ ~(q < p)
        BY <2>1, <2>3, <3>1
      <3> QED BY <1>3, <3>3
    <2> DEFINE P == In(k, C)
    <2>4. P \in SUBSET (1 .. l)
      BY <1>3 DEF In
    <2>5. IsImage(h, P, In(file, C \cap R))
      <3>1. ASSUME NEW p \in P PROVE h[p] \in In(file, C \cap R)
        <4>1. p \in 1 .. l /\ k[p] \in C /\ k[p] = file[h[p]] /\ h[p] \in {q \in 1 .. Len(file) : file[q] \in R}
          <5>1. p \in 1 .. l /\ k[p] \in C
            BY <2>4 DEF In
          <5>2. h[p] \in {h[q] : q \in 1 .. l}
            BY <5>1
          <5> HIDE DEF k, l, R, P
          <5> QED BY <2>1, <5>1, <5>2
        <4> QED BY <2>2, <4>1 DEF In
      <3>2. ASSUME NEW i \in In(file, C \cap R) PROVE \E p \in P : h[p] = i
        <4>1. i \in {p \in 1 .. Len(file) : file[p] \in R} /\ file[i] \in C
          BY <2>2 DEF In
        <4>2. PICK p \in 1 .. l : h[p] = i
          <5> HIDE DEF k, l, R, P
          <5> QED BY <2>1, <4>1
        <4>3. p \in P
          BY <1>3, <2>1, <4>1, <4>2 DEF In
        <4> QED BY <4>2, <4>3
      <3> QED BY <3>1, <3>2 DEF IsImage
    <2>6. h \in [1 .. l -> DOMAIN file]
      BY <2>1, <2>2
    <2> HIDE DEF P, k, l, R
    <2>8. Reordered(file, l, k, h)
      BY <1>3, <2>1, <2>2, <2>3, <2>6 DEF Reordered
    <2>7. Net(k, P) = Net(file, In(file, C \cap R))
      BY <2>4, <2>5, <2>8, ReorderedNet
    <2> QED BY <2>7 DEF P
  <1>7. Net(s, In(s, C)) = Net(c, In(c, C)) + Net(k, In(k, C))
    <2> HIDE DEF c, k, s, l, n
    <2>1. IsFiniteSet(1 .. n) /\ IsFiniteSet(1 .. l)
      <3>1. n \in Int /\ l \in Int
        BY <1>2, <1>3
      <3> QED BY <3>1, FS_Interval
    <2>2. /\ \A p \in 1 .. n : c[p] \in Row /\ s[p] = c[p]
          /\ \A p \in 1 .. l : p \in Nat /\ k[p] \in Row /\ n + p \notin 1 .. n /\ s[n + p] = k[p]
          /\ DOMAIN s = 1 .. n + l
      BY <1>2, <1>3, <1>4, ConcatProperties DEF l
    <2>3. 1 .. n + l = (1 .. n) \cup {n + p : p \in 1 .. l}
      <3>1. \A q \in 1 .. n + l : q \notin 1 .. n => q - n \in 1 .. l /\ n + (q - n) = q
        BY <1>2, <1>3
      <3>2. \A p \in 1 .. l : n + p \in 1 .. n + l
        BY <1>2, <1>3
      <3>3. 1 .. n \subseteq 1 .. n + l
        BY <1>2, <1>3
      <3> QED BY <3>1, <3>2, <3>3
    <2>4. DOMAIN s = DOMAIN c \cup {n + p : p \in DOMAIN k}
      BY <1>2, <1>3, <2>2, <2>3
    <2>5. Joined(c, k, n, s)
      BY <1>2, <1>3, <2>1, <2>2, <2>4 DEF Joined
    <2> QED BY <2>5, JoinedNet
  <1>8. Net(u, In(u, C \cap R)) = Net(t, In(t, C \cap R)) + Net(file, In(file, C \cap R))
    <2> HIDE DEF u, R
    <2> QED BY InsertedNet DEF u
  <1> HIDE DEF s, u, R
  <1>9. Net(s, In(s, C)) = Net(u, In(u, C \cap R))
    BY <1>5, <1>6, <1>7, <1>8
  <1> QED BY <1>4, <1>9 DEF s, u, R

-----------------------------------------------------------------------------
\* Rows are rows the walk can take.
LEMMA WalkableRows == Walkable(Row)
  BY RowFacts DEF Walkable

\* In the repository's order, the running balance is the sum up to the entry.
LEMMA BalanceOfPrefix ==
  ASSUME NEW d \in Seq(Row), TimeOrdered(d), NEW q \in DOMAIN d
  PROVE  RunningBalance(d, q) = Added(d, 1 .. q)
  <1> DEFINE n == Len(d)
  <1>1. n \in Nat /\ DOMAIN d = 1 .. n /\ \A p \in 1 .. n : d[p].at \in Int /\ SideRank(d[p]) \in {0, 1}
    <2>1. n \in Nat /\ DOMAIN d = 1 .. n /\ \A p \in 1 .. n : d[p] \in Row
      OBVIOUS
    <2>2. \A x \in Row : x.at \in Int /\ SideRank(x) \in {0, 1}
      BY RowFacts
    <2> QED BY <2>1, <2>2
  <1>2. ASSUME NEW p \in 1 .. n PROVE NoLater(d, p, q) <=> p <= q
    <2>1. q \in 1 .. n /\ d[p].at \in Int /\ d[q].at \in Int
      BY <1>1
    <2>2. p < q => d[p].at <= d[q].at
      BY <1>1, <2>1 DEF TimeOrdered
    <2>3. q < p => d[q].at <= d[p].at
      BY <1>1, <2>1 DEF TimeOrdered
    <2> HIDE DEF n
    <2> QED BY <1>1, <2>1, <2>2, <2>3 DEF NoLater
  <1>3. \A p \in 1 .. n : p <= q <=> p \in 1 .. q
    BY <1>1
  <1>4. 1 .. q \subseteq 1 .. n
    BY <1>1
  <1>5. {p \in DOMAIN d : NoLater(d, p, q)} = 1 .. q
    BY <1>1, <1>2, <1>3, <1>4
  <1>6. Moves(d) = Signs(d)
    BY DEF Moves, Signs
  <1> QED BY <1>5, <1>6 DEF RunningBalance, Added

-----------------------------------------------------------------------------
(***************************************************************************)
(* What each operation of the serial ledger does to the holdings.          *)
(***************************************************************************)
\* The table an insert leaves.
LEMMA InsertedTable ==
  ASSUME NEW t, NEW file, NEW base, Fits(t, file, base)
  PROVE  LET u == Extended(t, file, base)
         IN  IsTable(u) /\ IsFiniteSet(DOMAIN u)
  <1> DEFINE put == Inserts(base, file)
             none == {}
             u == Apply(t, put, none)
             keys == base + 1 .. base + Len(file)
  <1>0. /\ IsTable(t) /\ IsFiniteSet(DOMAIN t) /\ file \in Seq(Row) /\ base \in Nat
        /\ (base + 1 .. base + Len(file)) \cap DOMAIN t = {}
    BY DEF Fits
  <1> USE <1>0
  <1>1. IsTable(put) /\ DOMAIN put = keys
    BY InsertsIsTable
  <1>2. IsFiniteSet(keys)
    <2>1. base + 1 \in Int /\ base + Len(file) \in Int
      OBVIOUS
    <2> QED BY <2>1, FS_Interval
  <1> HIDE DEF put, keys, none
  <1>3. IsTable(u) /\ DOMAIN u = (DOMAIN t \cup keys) \ none
    <2>1. IsTable(t) /\ IsTable(put)
      BY <1>0, <1>1
    <2>2. IsTable(u)
      BY <2>1 DEF IsTable, Apply
    <2>3. DOMAIN u = (DOMAIN t \cup DOMAIN put) \ none
      BY DEF Apply
    <2> QED BY <1>1, <2>2, <2>3
  <1>4. IsFiniteSet(DOMAIN t \cup keys)
    BY <1>2, FS_Union
  <1>5. DOMAIN u = DOMAIN t \cup keys
    BY <1>3 DEF none
  <1> QED BY <1>3, <1>4, <1>5 DEF put, none, Extended

\* Rows traded by a time.
Traded(time) == {x \in Row : x.at <= time}

\* An asset whose rows sum to no less than zero at the end of every day is one
\* the walks, which read a day's BUYs first, never cap.
LEMMA FeasibleDays ==
  ASSUME NEW u, IsTable(u), IsFiniteSet(DOMAIN u), NEW a,
         \A time \in Int : Net(u, In(u, Traded(time) \cap RowsOf(a))) >= 0
  PROVE  /\ NeverNegative(Chronological(u, a))
         /\ WalkQty(u, a) = Remaining(u, a)
  <1> DEFINE d == Chronological(u, a)
             R == RowsOf(a)
  <1>3. d \in Seq(Row) /\ \A C : Net(d, In(d, C)) = Net(u, In(u, C \cap R))
    <2>1. d \in Seq(Row)
      BY ChronologicalPlaces
    <2>2. \A C : Net(d, In(d, C)) = Net(u, In(u, C \cap R))
      BY ChronologicalNet
    <2> QED BY <2>1, <2>2
  <1>5. TimeOrdered(d)
    <2> DEFINE n == Cardinality(OfAsset(u, a))
    <2>1. /\ DOMAIN d = 1 .. n
          /\ \E h \in [1 .. n -> OfAsset(u, a)] :
                /\ \A p \in 1 .. n : d[p] = u[h[p]]
                /\ \A p, q \in 1 .. n : p < q => Precedes(u, h[p], h[q])
      BY ChronologicalPlaces
    <2>2. PICK h \in [1 .. n -> OfAsset(u, a)] :
                /\ \A p \in 1 .. n : d[p] = u[h[p]]
                /\ \A p, q \in 1 .. n : p < q => Precedes(u, h[p], h[q])
      BY <2>1
    <2>3. OfAsset(u, a) \subseteq DOMAIN u
      BY DEF OfAsset
    <2>4. \A i, j \in DOMAIN u : Precedes(u, i, j) => u[i].at <= u[j].at /\ ~Earlier(u[j], u[i])
      <3>1. \A i, j \in DOMAIN u : Precedes(u, i, j) => u[i].at <= u[j].at /\ ~Precedes(u, j, i)
        BY DatedTable, PrecedesOrder
      <3> QED BY <3>1 DEF Precedes
    <2> HIDE DEF d, n
    <2> QED BY <2>1, <2>2, <2>3, <2>4 DEF TimeOrdered
  <1> HIDE DEF d, R
  <1>6. ASSUME NEW time \in Int PROVE Net(d, By(d, time)) >= 0
    <2>1. In(d, Traded(time)) = By(d, time)
      BY <1>3 DEF In, By, Traded
    <2>2. Net(d, In(d, Traded(time))) = Net(u, In(u, Traded(time) \cap R))
      BY <1>3
    <2> QED BY <2>1, <2>2 DEF R
  <1>7. (\A q \in DOMAIN d : Added(d, 1 .. q) >= 0) /\ Walk(d) = Added(d, DOMAIN d)
    <2>1. \A D : Added(d, D) = Net(d, D)
      BY DEF Added, Net, Signs, Moves
    <2> QED BY <1>3, <1>5, <1>6, <2>1, WalkableRows, WalkOfWholeDays
  <1>8. Walk(d) = Net(d, DOMAIN d) /\ \A q \in DOMAIN d : RunningBalance(d, q) >= 0
    <2>1. Added(d, DOMAIN d) = Net(d, DOMAIN d)
      BY DEF Added, Net, Signs, Moves
    <2> QED BY <1>3, <1>5, <1>7, <2>1, BalanceOfPrefix
  <1>9. Net(d, DOMAIN d) = Remaining(u, a)
    <2>1. In(d, Row) = DOMAIN d
      <3>1. d \in Seq(Row)
        BY <1>3
      <3>2. \A p \in DOMAIN d : d[p] \in Row
        BY <3>1
      <3> QED BY <3>2 DEF In
    <2>2. Row \cap R = R
      BY DEF R, RowsOf
    <2>3. Remaining(u, a) = Net(u, In(u, R))
      BY RemainingIsNet DEF R
    <2> QED BY <1>3, <2>1, <2>2, <2>3
  <1>11. NeverNegative(d)
    BY <1>8 DEF NeverNegative
  <1>12. WalkQty(u, a) = Walk(d)
    BY DEF WalkQty, d
  <1> QED BY <1>8, <1>9, <1>11, <1>12 DEF d

\* An import's file, and the same rows at their instants.
LEMMA InstantRows ==
  ASSUME NEW op, op.file \in Seq(Row), op.utc \in Seq(Instants), Len(op.utc) = Len(op.file)
  PROVE  LET g == AtInstant(op)
         IN  /\ g \in Seq(Row) /\ Len(g) = Len(op.file) /\ DOMAIN g = DOMAIN op.file
             /\ \A p \in DOMAIN g : /\ g[p].asset = op.file[p].asset
                                    /\ g[p].at = op.utc[p]
                                    /\ op.file[p] \in Row /\ g[p] \in Row
             /\ Moves(g) = Moves(op.file)
  <1> DEFINE f == op.file
             g == AtInstant(op)
  <1>0. Len(f) \in Nat /\ DOMAIN f = 1 .. Len(f) /\ DOMAIN op.utc = 1 .. Len(f)
    OBVIOUS
  <1>1. ASSUME NEW p \in 1 .. Len(f)
        PROVE  /\ [f[p] EXCEPT !.at = op.utc[p]] \in Row
               /\ f[p] \in Row
    <2>1. f[p] \in Row /\ op.utc[p] \in Instants
      BY <1>0
    <2> QED BY <2>1 DEF Row
  <1>2. /\ DOMAIN g = 1 .. Len(f) /\ g = [p \in 1 .. Len(f) |-> g[p]]
        /\ \A p \in 1 .. Len(f) : g[p] = [f[p] EXCEPT !.at = op.utc[p]]
    BY <1>0 DEF AtInstant
  <1> HIDE DEF g, f
  <1>6. DOMAIN g = DOMAIN f /\ g \in Seq(Row) /\ Len(g) = Len(f)
    <2>1. \A p \in 1 .. Len(f) : g[p] \in Row
      BY <1>1, <1>2
    <2>2. g \in [1 .. Len(f) -> Row]
      BY <1>2, <2>1
    <2>3. g \in Seq(Row)
      BY <1>0, <2>2
    <2> QED BY <1>0, <1>2, <2>3
  <1>3. ASSUME NEW p \in DOMAIN f
        PROVE  /\ g[p].asset = f[p].asset /\ g[p].at = op.utc[p]
               /\ Signed(g[p]) = Signed(f[p])
    <2>1. f[p] \in Row /\ g[p] = [f[p] EXCEPT !.at = op.utc[p]]
      BY <1>0, <1>1, <1>2
    <2>2. /\ g[p].asset = f[p].asset /\ g[p].at = op.utc[p]
          /\ g[p].type = f[p].type /\ g[p].qty = f[p].qty
      BY <2>1 DEF Row
    <2> QED BY <2>2 DEF Signed
  <1>4. Moves(g) = Moves(f)
    BY <1>3, <1>6 DEF Moves
  <1>5. \A p \in DOMAIN g : f[p] \in Row /\ g[p] \in Row
    BY <1>0, <1>1, <1>2
  <1>7. g = AtInstant(op) /\ f = op.file
    BY DEF f, g
  <1> QED BY <1>3, <1>4, <1>5, <1>6, <1>7

\* The asset's rows u holds by a time are those v holds by some instant.
Shifted(u, v, a) ==
    \A time \in Int : \E instant \in Int :
        Net(u, In(u, Traded(time) \cap RowsOf(a))) = Net(v, In(v, Traded(instant) \cap RowsOf(a)))

\* Where the table has no rows of the asset or the file has none, the rows
\* stored by a time are those traded by some instant, if the asset's offset is
\* one; and all of them are all of them whatever the offsets.
LEMMA StoredIsShifted ==
  ASSUME NEW t, NEW op, NEW base, Fits(t, op.file, base),
         op.utc \in Seq(Instants), Len(op.utc) = Len(op.file),
         NEW a, OfAsset(t, a) = {} \/ FileRows(op.file, a) = << >>
  PROVE  LET u == Extended(t, op.file, base)
             v == Extended(t, AtInstant(op), base)
         IN  /\ Fits(t, AtInstant(op), base)
             /\ Net(u, In(u, RowsOf(a))) = Net(v, In(v, RowsOf(a)))
             /\ OneOffset(op, a) => Shifted(u, v, a)
  <1> DEFINE f == op.file
             g == AtInstant(op)
             u == Extended(t, f, base)
             v == Extended(t, g, base)
             R == RowsOf(a)
  <1>1. /\ IsTable(t) /\ IsFiniteSet(DOMAIN t) /\ f \in Seq(Row) /\ base \in Nat
        /\ (base + 1 .. base + Len(f)) \cap DOMAIN t = {}
    BY DEF Fits
  <1>2. /\ g \in Seq(Row) /\ Len(g) = Len(f) /\ DOMAIN g = DOMAIN f
        /\ \A p \in DOMAIN g : /\ g[p].asset = f[p].asset /\ g[p].at = op.utc[p]
                               /\ f[p] \in Row /\ g[p] \in Row
        /\ Moves(g) = Moves(f)
    BY <1>1, InstantRows
  <1>3. Fits(t, g, base)
    BY <1>1, <1>2 DEF Fits
  <1> HIDE DEF f, g
  <1>4. \A C : /\ Net(u, In(u, C)) = Net(t, In(t, C)) + Net(f, In(f, C))
               /\ Net(v, In(v, C)) = Net(t, In(t, C)) + Net(g, In(g, C))
    <2>1. Fits(t, f, base)
      BY DEF f
    <2>2. ASSUME NEW C
          PROVE  /\ Net(u, In(u, C)) = Net(t, In(t, C)) + Net(f, In(f, C))
                 /\ Net(v, In(v, C)) = Net(t, In(t, C)) + Net(g, In(g, C))
      BY <1>3, <2>1, InsertedNet
    <2> HIDE DEF u, v
    <2> QED BY <2>2
  <1>5. \A D : Net(g, D) = Net(f, D)
    BY <1>2 DEF Net
  <1>6. In(f, R) = In(g, R)
    BY <1>2 DEF In, RowsOf
  <1>7. Net(u, In(u, R)) = Net(v, In(v, R))
    <2> HIDE DEF u, v, R
    <2> QED BY <1>4, <1>5, <1>6
  <1>8. ASSUME OneOffset(op, a), NEW time \in Int
        PROVE  \E instant \in Int :
                   Net(u, In(u, Traded(time) \cap R)) = Net(v, In(v, Traded(instant) \cap R))
    <2>1. CASE OfAsset(t, a) = {}
      <3>1. PICK d \in Int : \A p \in DOMAIN f : f[p].asset = a => f[p].at - op.utc[p] = d
        <4>1. \A p, q \in DOMAIN f : f[p].asset = a /\ f[q].asset = a =>
                 f[p].at - op.utc[p] = f[q].at - op.utc[q]
          BY <1>8 DEF OneOffset, f
        <4>2. \A p \in DOMAIN f : f[p].at - op.utc[p] \in Int
          BY <1>2, RowFacts
        <4>3. CASE \E p \in DOMAIN f : f[p].asset = a
          <5>1. PICK p \in DOMAIN f : f[p].asset = a
            BY <4>3
          <5> QED BY <4>1, <4>2, <5>1
        <4>4. CASE ~\E p \in DOMAIN f : f[p].asset = a
          <5>1. 0 \in Int
            OBVIOUS
          <5> QED BY <4>4, <5>1
        <4> QED BY <4>3, <4>4
      <3>2. In(f, Traded(time) \cap R) = In(g, Traded(time - d) \cap R)
        <4>1. ASSUME NEW p \in DOMAIN f
              PROVE  f[p] \in Traded(time) \cap R <=> g[p] \in Traded(time - d) \cap R
          <5>1. /\ f[p] \in Row /\ g[p] \in Row /\ g[p].asset = f[p].asset
                /\ f[p].at \in Nat /\ g[p].at \in Nat /\ g[p].at = op.utc[p]
            BY <1>2, <4>1, RowFacts
          <5>2. CASE f[p].asset # a
            BY <5>1, <5>2 DEF RowsOf
          <5>3. CASE f[p].asset = a
            <6>1. f[p].at - g[p].at = d
              BY <3>1, <4>1, <5>1, <5>3
            <6>2. f[p].at <= time <=> g[p].at <= time - d
              BY <5>1, <6>1
            <6> QED BY <5>1, <5>3, <6>2 DEF RowsOf, Traded
          <5> QED BY <5>2, <5>3
        <4> HIDE DEF R
        <4> QED BY <1>2, <4>1 DEF In
      <3>3. In(t, Traded(time) \cap R) = {} /\ In(t, Traded(time - d) \cap R) = {}
        BY <2>1 DEF In, OfAsset, RowsOf
      <3>4. time - d \in Int
        OBVIOUS
      <3> HIDE DEF u, v, R
      <3> QED BY <1>4, <1>5, <3>2, <3>3, <3>4
    <2>2. CASE FileRows(op.file, a) = << >>
      <3>1. In(f, R) = {}
        <4>1. Keep(f, R) = << >>
          BY <2>2 DEF FileRows, RowsOf, f
        <4>2. PICK h : Places(Keep(f, R), f, R, h)
          <5> HIDE DEF R
          <5> QED BY <1>1, KeepPlaces
        <4>3. {h[p] : p \in 1 .. Len(Keep(f, R))} = {p \in 1 .. Len(f) : f[p] \in R}
          BY <4>2 DEF Places
        <4>4. 1 .. Len(Keep(f, R)) = {}
          BY <4>1
        <4>5. DOMAIN f = 1 .. Len(f)
          BY <1>1
        <4> HIDE DEF R
        <4> QED BY <4>3, <4>4, <4>5 DEF In
      <3>2. In(f, Traded(time) \cap R) = {} /\ In(g, Traded(time) \cap R) = {}
        BY <1>6, <3>1 DEF In
      <3> HIDE DEF u, v, R
      <3> QED BY <1>4, <1>5, <3>2
    <2> QED BY <2>1, <2>2
  <1>9. OneOffset(op, a) => Shifted(u, v, a)
    BY <1>8 DEF Shifted
  <1> QED BY <1>3, <1>7, <1>9 DEF f, g

\* What an import's check promises of the table it leaves: the timeline it
\* walks, stably sorted on the instants with the file's rows last, and the
\* order the walks read agree at the end of every day when the offset is one,
\* and a day's BUYs come first.
LEMMA FeasibleAfterImport ==
  ASSUME NEW t, NEW op, NEW base, Fits(t, op.file, base),
         op.utc \in Seq(Instants), Len(op.utc) = Len(op.file),
         NEW a, OfAsset(t, a) = {} \/ FileRows(op.file, a) = << >>,
         NeverNegative(MergedTimeline(t, a, op))
  PROVE  LET u == Extended(t, op.file, base)
         IN  /\ Remaining(u, a) >= 0
             /\ OneOffset(op, a) => /\ NeverNegative(Chronological(u, a))
                                    /\ WalkQty(u, a) = Remaining(u, a)
  <1> DEFINE g == AtInstant(op)
             s == Timeline(t, a, g)
             u == Extended(t, op.file, base)
             v == Extended(t, g, base)
             R == RowsOf(a)
  <1>1. /\ Fits(t, g, base)
        /\ Net(u, In(u, R)) = Net(v, In(v, R))
        /\ OneOffset(op, a) => Shifted(u, v, a)
    BY StoredIsShifted
  <1>2. IsTable(u) /\ IsFiniteSet(DOMAIN u)
    BY InsertedTable
  <1>3. NeverNegative(s)
    BY DEF MergedTimeline, Timeline
  <1> HIDE DEF g
  <1>4. s \in Seq(Row) /\ \A C : Net(s, In(s, C)) = Net(v, In(v, C \cap R))
    <2>1. ASSUME NEW C PROVE s \in Seq(Row) /\ Net(s, In(s, C)) = Net(v, In(v, C \cap R))
      BY <1>1, TimelineNet
    <2> HIDE DEF s, v, R
    <2> QED BY <2>1
  <1> HIDE DEF s, u, v, R
  <1>5. ASSUME NEW time \in Int PROVE Net(v, In(v, Traded(time) \cap R)) >= 0
    <2>1. In(s, Traded(time)) \in SUBSET DOMAIN s
      BY DEF In
    <2>2. ASSUME NEW q \in In(s, Traded(time)), NEW p \in DOMAIN s, NoLater(s, p, q)
          PROVE  p \in In(s, Traded(time))
      <3>1. q \in DOMAIN s /\ s[q] \in Row /\ s[p] \in Row /\ s[q].at <= time
        BY <1>4 DEF In, Traded
      <3>2. s[p].at \in Nat /\ s[q].at \in Nat /\ s[p].at <= s[q].at
        BY <2>2, <3>1, RowFacts DEF NoLater
      <3> QED BY <3>1, <3>2 DEF In, Traded
    <2>3. Net(s, In(s, Traded(time))) >= 0
      BY <1>3, <1>4, <2>1, <2>2, ClosedPrefix
    <2> QED BY <1>4, <2>3
  <1>6. Remaining(u, a) >= 0
    <2>1. In(s, Row) = DOMAIN s
      <3>1. \A p \in DOMAIN s : s[p] \in Row
        BY <1>4
      <3> QED BY <3>1 DEF In
    <2>2. Row \cap R = R
      BY DEF R, RowsOf
    <2>3. Remaining(u, a) = Net(u, In(u, R))
      BY <1>2, RemainingIsNet DEF R
    <2>4. Net(s, DOMAIN s) >= 0
      BY <1>3, <1>4, ClosedPrefix
    <2> QED BY <1>1, <1>4, <2>1, <2>2, <2>3, <2>4
  <1>7. ASSUME OneOffset(op, a)
        PROVE  NeverNegative(Chronological(u, a)) /\ WalkQty(u, a) = Remaining(u, a)
    <2>1. \A time \in Int : Net(u, In(u, Traded(time) \cap R)) >= 0
      BY <1>1, <1>5, <1>7 DEF Shifted, R
    <2> QED BY <1>2, <2>1, FeasibleDays DEF R
  <1> QED BY <1>6, <1>7 DEF u

\* What an insert does to the totals of an asset.
LEMMA RemainingAfterInsert ==
  ASSUME NEW t, NEW file, NEW base, Fits(t, file, base), NEW a
  PROVE  LET u == Extended(t, file, base)
         IN  /\ Remaining(t, a) \in Int
             /\ Remaining(u, a) = Remaining(t, a) + Net(file, In(file, RowsOf(a)))
  <1> DEFINE u == Extended(t, file, base)
  <1>0. /\ IsTable(t) /\ IsFiniteSet(DOMAIN t) /\ file \in Seq(Row) /\ base \in Nat
        /\ (base + 1 .. base + Len(file)) \cap DOMAIN t = {}
    BY DEF Fits
  <1> USE <1>0
  <1>1. IsTable(u) /\ IsFiniteSet(DOMAIN u)
    BY InsertedTable
  <1>2. Remaining(t, a) \in Int
    BY RemainingIsNet DEF Remaining
  <1>3. Net(u, In(u, RowsOf(a))) = Net(t, In(t, RowsOf(a))) + Net(file, In(file, RowsOf(a)))
    <2> HIDE DEF u
    <2> QED BY InsertedNet DEF u
  <1>4. Remaining(u, a) = Net(u, In(u, RowsOf(a))) /\ Remaining(t, a) = Net(t, In(t, RowsOf(a)))
    <2> HIDE DEF u
    <2> QED BY <1>1, RemainingIsNet
  <1> QED BY <1>2, <1>3, <1>4

\* What an edit does to them.
Edited(t, id, row) == Apply(t, [i \in {id} |-> row], {})

LEMMA RemainingAfterEdit ==
  ASSUME NEW t, IsTable(t), IsFiniteSet(DOMAIN t), NEW id \in DOMAIN t, NEW row \in Row,
         row.asset = t[id].asset, NEW a
  PROVE  LET u == Edited(t, id, row)
         IN  /\ Remaining(t, a) \in Int
             /\ a # row.asset => Remaining(u, a) = Remaining(t, a)
             /\ a = row.asset => Remaining(u, a) = Remaining(t, a) - Signed(t[id]) + Signed(row)
  <1> DEFINE u == Edited(t, id, row)
             O == OfAsset(t, a)
             rest == O \ {id}
  <1>1. /\ DOMAIN u = DOMAIN t /\ u[id] = row
        /\ \A i \in DOMAIN t \ {id} : u[i] = t[i]
    BY DEF Edited, Apply
  <1>2. u = [i \in DOMAIN u |-> u[i]]
    BY DEF Edited, Apply
  <1>3. IsTable(u) /\ \A i \in DOMAIN t : t[i] \in Row /\ u[i] \in Row
    BY <1>1, <1>2 DEF IsTable
  <1>4. OfAsset(u, a) = O
    BY <1>1 DEF OfAsset
  <1> HIDE DEF u
  <1>5. Remaining(t, a) \in Int
    BY RemainingIsNet DEF Remaining
  <1>6. Remaining(t, a) = Net(t, O) /\ Remaining(u, a) = Net(u, O) /\ IsFiniteSet(O) /\ O \subseteq DOMAIN t
    <2>1. O \subseteq DOMAIN t
      BY DEF OfAsset
    <2>2. IsTable(u) /\ IsFiniteSet(DOMAIN u)
      BY <1>1, <1>3
    <2>3. Remaining(u, a) = Net(u, OfAsset(u, a))
      BY <2>2, RemainingIsNet
    <2>4. Remaining(t, a) = Net(t, O) /\ IsFiniteSet(O)
      BY RemainingIsNet
    <2> HIDE DEF O
    <2> QED BY <1>4, <2>1, <2>3, <2>4
  <1>7. \A i \in DOMAIN t : /\ Moves(t)[i] = Signed(t[i]) /\ Moves(t)[i] \in Int
                            /\ Moves(u)[i] = Signed(u[i]) /\ Moves(u)[i] \in Int
    BY <1>1, <1>3, MovesOf
  <1> HIDE DEF O
  <1>8. IsFiniteSet(rest) /\ Net(t, rest) = Net(u, rest) /\ Net(t, rest) \in Int
    <2>1. IsFiniteSet(rest)
      BY <1>6, FS_Subset
    <2>2. \A i \in rest : Moves(t)[i] = Moves(u)[i] /\ Moves(t)[i] \in Int
      BY <1>1, <1>6, <1>7
    <2> HIDE DEF rest
    <2> QED BY <2>1, <2>2, SumOnSet DEF Net
  <1>9. CASE a # row.asset
    <2>1. rest = O
      BY <1>9 DEF O, OfAsset
    <2> QED BY <1>5, <1>6, <1>8, <1>9, <2>1 DEF u
  <1>10. CASE a = row.asset
    <2>1. id \in O /\ O = rest \cup {id} /\ id \notin rest
      BY <1>10 DEF O, OfAsset
    <2>2. /\ Moves(t)[id] = Signed(t[id]) /\ Moves(u)[id] = Signed(row)
          /\ Moves(t)[id] \in Int /\ Moves(u)[id] \in Int
          /\ \A i \in rest : Moves(t)[i] \in Int /\ Moves(u)[i] \in Int
      BY <1>1, <1>6, <1>7
    <2> HIDE DEF rest
    <2>3. Net(t, rest \cup {id}) = Net(t, rest) + Moves(t)[id]
      BY <1>8, <2>1, <2>2, SumWith DEF Net
    <2>4. Net(u, rest \cup {id}) = Net(u, rest) + Moves(u)[id]
      BY <1>8, <2>1, <2>2, SumWith DEF Net
    <2>5. Net(t, O) = Net(t, rest) + Moves(t)[id] /\ Net(u, O) = Net(u, rest) + Moves(u)[id]
      BY <2>1, <2>3, <2>4
    <2>6. Remaining(u, a) = Remaining(t, a) - Signed(t[id]) + Signed(row)
      BY <1>6, <1>8, <2>2, <2>5
    <2> QED BY <1>5, <1>10, <2>6 DEF u
  <1> QED BY <1>9, <1>10

\* An insert of the serial ledger.
LEMMA SerialInsertFits ==
  ASSUME IsTable(rows), IsFiniteSet(DOMAIN rows), IsTable(rows'),
         NEW file \in Seq(Row), SerialInsert(file)
  PROVE  \E base : Fits(rows, file, base) /\ rows' = Extended(rows, file, base)
  <1>1. PICK base \in {0} \cup {i - 1 : i \in DOMAIN rows'} :
           /\ (base + 1 .. base + Len(file)) \cap DOMAIN rows = {}
           /\ rows' = Apply(rows, Inserts(base, file), {})
    BY DEF SerialInsert
  <1>2. base \in Nat
    <2>1. \A i \in DOMAIN rows' : i - 1 \in Nat
      BY DEF IsTable
    <2> QED BY <1>1, <2>1
  <1>3. Fits(rows, file, base)
    BY <1>1, <1>2 DEF Fits
  <1> QED BY <1>1, <1>3 DEF Extended

\* A row of the file that belongs to the asset.
LEMMA OneRowNet ==
  ASSUME NEW row \in Row, NEW a
  PROVE  /\ a # row.asset => Net(<<row>>, In(<<row>>, RowsOf(a))) = 0
         /\ a = row.asset => Net(<<row>>, In(<<row>>, RowsOf(a))) = Signed(row)
  <1> DEFINE file == <<row>>
  <1>1. DOMAIN file = {1} /\ file[1] = row /\ Moves(file)[1] = Signed(row) /\ Signed(row) \in Int
    BY RowFacts DEF Moves
  <1>2. SumFunctionOnSet(Moves(file), {}) = 0
    BY FS_EmptySet, SumOnSet
  <1> HIDE DEF file
  <1>3. CASE a # row.asset
    <2>1. In(file, RowsOf(a)) = {}
      BY <1>1, <1>3 DEF In, RowsOf
    <2> QED BY <1>2, <1>3, <2>1 DEF Net, file
  <1>4. CASE a = row.asset
    <2>1. In(file, RowsOf(a)) = {} \cup {1}
      BY <1>1, <1>4 DEF In, RowsOf
    <2>2. IsFiniteSet({})
      BY FS_EmptySet
    <2>3. SumFunctionOnSet(Moves(file), {} \cup {1}) = SumFunctionOnSet(Moves(file), {}) + Moves(file)[1]
      BY <1>1, <2>2, SumWith, ZenonT(40)
    <2>4. In(file, RowsOf(a)) = {1}
      BY <2>1
    <2>5. {} \cup {1} = {1}
      OBVIOUS
    <2>6. Net(file, In(file, RowsOf(a))) = Signed(row)
      BY <1>1, <1>2, <2>3, <2>4, <2>5 DEF Net
    <2> QED BY <1>4, <2>6 DEF file
  <1> QED BY <1>3, <1>4

LEMMA SerialAddKeeps ==
  ASSUME IsTable(rows), IsFiniteSet(DOMAIN rows), IsTable(rows'),
         NEW op \in Payloads, SerialAdd(op), NEW a \in Assets
  PROVE  Remaining(rows', a) >= 0 \/ Remaining(rows', a) >= Remaining(rows, a)
  <1> DEFINE row == op.row
             file == <<row>>
  <1>1. row \in Row /\ file \in Seq(Row) /\ AddAllowed(rows, row) /\ SerialInsert(file)
    BY PayloadTypes DEF SerialAdd
  <1>2. Signed(row) \in Int /\ row.qty \in Nat /\ row.type \in {"BUY", "SELL"}
        /\ (row.type = "BUY" => Signed(row) = row.qty) /\ (row.type = "SELL" => Signed(row) = -row.qty)
    BY <1>1, RowFacts
  <1>3. /\ a # row.asset => Net(file, In(file, RowsOf(a))) = 0
        /\ a = row.asset => Net(file, In(file, RowsOf(a))) = Signed(row)
    BY <1>1, OneRowNet
  <1>4. row.type = "SELL" => row.qty <= Remaining(rows, row.asset)
    BY <1>1 DEF AddAllowed
  <1> HIDE DEF row, file
  <1>5. PICK base : Fits(rows, file, base) /\ rows' = Extended(rows, file, base)
    BY <1>1, SerialInsertFits
  <1>6. /\ Remaining(rows, a) \in Int
        /\ Remaining(rows', a) = Remaining(rows, a) + Net(file, In(file, RowsOf(a)))
    BY <1>5, RemainingAfterInsert
  <1> QED BY <1>2, <1>3, <1>4, <1>6

LEMMA SerialEditKeeps ==
  ASSUME IsTable(rows), IsFiniteSet(DOMAIN rows),
         NEW op \in Payloads, SerialEdit(op), NEW a \in Assets
  PROVE  Remaining(rows', a) >= 0 \/ Remaining(rows', a) >= Remaining(rows, a)
  <1> DEFINE row == op.row
             id == op.id
             old == rows[id]
             otherBought == Total(rows, row.asset, "BUY") - IF old.type = "BUY" THEN old.qty ELSE 0
             otherSold   == Total(rows, row.asset, "SELL") - IF old.type = "SELL" THEN old.qty ELSE 0
  <1>1. /\ row \in Row /\ EditAllowed(rows, id, row)
        /\ rows' = Edited(rows, id, row)
    BY PayloadTypes DEF SerialEdit, Edited
  <1>2. /\ id \in DOMAIN rows /\ old.asset = row.asset /\ old \in Row
        /\ IF row.type = "BUY"
           THEN otherBought + row.qty - otherSold >= 0
           ELSE otherBought - otherSold - row.qty >= 0
    BY <1>1 DEF EditAllowed, Found, OfAsset, IsTable
  <1>3. /\ Signed(row) \in Int /\ row.qty \in Nat /\ row.type \in {"BUY", "SELL"}
        /\ (row.type = "BUY" => Signed(row) = row.qty) /\ (row.type = "SELL" => Signed(row) = -row.qty)
        /\ Signed(old) \in Int /\ old.qty \in Nat /\ old.type \in {"BUY", "SELL"}
        /\ (old.type = "BUY" => Signed(old) = old.qty) /\ (old.type = "SELL" => Signed(old) = -old.qty)
    BY <1>1, <1>2, RowFacts
  <1>4. /\ Total(rows, row.asset, "BUY") \in Int /\ Total(rows, row.asset, "SELL") \in Int
        /\ Remaining(rows, row.asset) = Total(rows, row.asset, "BUY") - Total(rows, row.asset, "SELL")
    BY RemainingIsNet DEF Remaining
  <1>7. IsTable(rows) /\ IsFiniteSet(DOMAIN rows) /\ row.asset = rows[id].asset
    BY <1>2
  <1>5. /\ Remaining(rows, a) \in Int
        /\ a # row.asset => Remaining(rows', a) = Remaining(rows, a)
        /\ a = row.asset => Remaining(rows', a) = Remaining(rows, a) - Signed(old) + Signed(row)
    <2> HIDE DEF row, id
    <2> QED BY <1>1, <1>2, <1>7, RemainingAfterEdit
  <1>6. Remaining(rows, row.asset) - Signed(old) + Signed(row) >= 0
    <2>1. "BUY" # "SELL"
      OBVIOUS
    <2> DEFINE bought == Total(rows, row.asset, "BUY")
               sold == Total(rows, row.asset, "SELL")
    <2>2. bought \in Int /\ sold \in Int /\ Remaining(rows, row.asset) = bought - sold
      BY <1>4
    <2> HIDE DEF bought, sold
    <2>3. otherBought - otherSold = bought - sold - Signed(old)
          /\ otherBought \in Int /\ otherSold \in Int
      BY <1>3, <2>2 DEF bought, sold
    <2> HIDE DEF otherBought, otherSold
    <2> QED BY <1>2, <1>3, <2>2, <2>3
  <1> QED BY <1>5, <1>6

\* An import of assets it does not name leaves them alone; of those it names,
\* the timeline check promises the holding.
LEMMA SerialImportKeeps ==
  ASSUME IsTable(rows), IsFiniteSet(DOMAIN rows), IsTable(rows'),
         NEW op \in Payloads, SerialImport(op)
  PROVE  /\ \A a \in Named(op) :
               /\ Remaining(rows', a) >= 0
               /\ OneOffset(op, a) => /\ NeverNegative(Chronological(rows', a))
                                      /\ WalkQty(rows', a) = Remaining(rows', a)
         /\ \A a \in Assets \ Named(op) : Remaining(rows', a) = Remaining(rows, a)
  <1> DEFINE file == op.file
  <1>1. /\ op.kind \in {"csv", "bulk"} /\ file \in Seq(Row) /\ SerialInsert(file)
        /\ op.utc \in Seq(Instants) /\ Len(op.utc) = Len(file)
        /\ \A a \in Named(op) : /\ NeverNegative(MergedTimeline(rows, a, op))
                                /\ OfAsset(rows, a) = {} \/ FileRows(file, a) = << >>
    BY PayloadTypes DEF SerialImport, ImportAllowed, SortRaises
  <1>2. \A p \in DOMAIN file : file[p].asset \in Named(op)
    <2>1. CASE op.kind = "csv"
      BY <2>1, PayloadsAssumption DEF Named
    <2>2. CASE op.kind = "bulk"
      BY <2>2 DEF Named
    <2> QED BY <1>1, <2>1, <2>2
  <1> HIDE DEF file
  <1>3. PICK base : Fits(rows, file, base) /\ rows' = Extended(rows, file, base)
    BY <1>1, SerialInsertFits
  <1>4. ASSUME NEW a \in Named(op)
        PROVE  /\ Remaining(rows', a) >= 0
               /\ OneOffset(op, a) => /\ NeverNegative(Chronological(rows', a))
                                      /\ WalkQty(rows', a) = Remaining(rows', a)
    BY <1>1, <1>3, FeasibleAfterImport DEF file
  <1>5. ASSUME NEW a \in Assets \ Named(op) PROVE Remaining(rows', a) = Remaining(rows, a)
    <2>1. In(file, RowsOf(a)) = {}
      BY <1>2, <1>5 DEF In, RowsOf
    <2>2. Net(file, {}) = 0
      BY FS_EmptySet, SumOnSet DEF Net
    <2>3. /\ Remaining(rows, a) \in Int
          /\ Remaining(rows', a) = Remaining(rows, a) + Net(file, In(file, RowsOf(a)))
      BY <1>3, RemainingAfterInsert
    <2> QED BY <2>1, <2>2, <2>3
  <1> QED BY <1>4, <1>5

LEMMA RowsFinite ==
  ASSUME IInv
  PROVE  IsTable(rows) /\ IsFiniteSet(DOMAIN rows)
  <1>1. IsTable(rows) /\ nextId \in Nat \ {0} /\ DOMAIN rows \subseteq 1 .. nextId - 1
    BY DEF IInv, TypeOK
  <1>2. IsFiniteSet(1 .. nextId - 1)
    <2>1. nextId - 1 \in Int
      BY <1>1
    <2> QED BY <2>1, FS_Interval
  <1> QED BY <1>1, <1>2, FS_Subset

\* Only a commit changes the table.
LEMMA OnlyCommits ==
  ASSUME [Next]_vars
  PROVE  rows' = rows \/ \E r \in Requests : Commit(r)
  <1>1. ASSUME NEW r \in Requests, Handle(r) PROVE rows' = rows
    BY <1>1 DEF Handle, AddTx, EditTx, RemoveTx, ImportTx, Insert, Flush, Refuse
  <1>2. ASSUME NEW r \in Requests, Abort(r) PROVE rows' = rows
    BY <1>2 DEF Abort, Refuse
  <1>3. ASSUME NEW r \in Requests, NEW op \in Payloads, Begin(r, op) PROVE rows' = rows
    BY <1>3 DEF Begin
  <1> QED BY <1>1, <1>2, <1>3 DEF Next, vars

\* A commit on a snapshot that is still the table is the serial step.
LEMMA CommitCurrent ==
  ASSUME IInv, [Next]_vars, NEW r \in Requests, Commit(r), req[r].view = rows
  PROVE  /\ req[r].op \in Payloads /\ SerialStep(req[r].op)
         /\ IsTable(rows) /\ IsFiniteSet(DOMAIN rows)
         /\ IsTable(rows') /\ IsFiniteSet(DOMAIN rows')
  <1>1. IInv'
    BY NextInv
  <1>2. IsTable(rows') /\ nextId' \in Nat \ {0} /\ DOMAIN rows' \subseteq 1 .. nextId' - 1
    BY <1>1 DEF IInv, TypeOK
  <1>3. IsFiniteSet(1 .. nextId' - 1)
    <2>1. nextId' - 1 \in Int
      BY <1>2
    <2> QED BY <2>1, FS_Interval
  <1>4. IsFiniteSet(DOMAIN rows')
    BY <1>2, <1>3, FS_Subset
  <1> QED BY <1>2, <1>4, CommitIsSerial, RowsFinite

LEMMA CurrentNeverOversells ==
  ASSUME IInv, [Next]_vars, NEW r \in Requests, Commit(r), req[r].view = rows,
         req[r].op.kind # "remove", NEW a \in Assets
  PROVE  Remaining(rows', a) >= 0 \/ Remaining(rows', a) >= Remaining(rows, a)
  <1> DEFINE op == req[r].op
  <1>1. /\ op \in Payloads /\ SerialStep(op)
        /\ IsTable(rows) /\ IsFiniteSet(DOMAIN rows)
        /\ IsTable(rows') /\ IsFiniteSet(DOMAIN rows')
    BY CommitCurrent
  <1>2. op.kind # "remove"
    OBVIOUS
  <1> HIDE DEF op
  <1>3. Remaining(rows, a) \in Int /\ Remaining(rows', a) \in Int
    BY <1>1, RemainingIsNet DEF Remaining
  <1>4. CASE SerialAdd(op)
    BY <1>1, <1>3, <1>4, SerialAddKeeps
  <1>5. CASE SerialEdit(op)
    BY <1>1, <1>3, <1>5, SerialEditKeeps
  <1>6. CASE SerialImport(op)
    <2>1. /\ \A b \in Named(op) : Remaining(rows', b) >= 0
          /\ \A b \in Assets \ Named(op) : Remaining(rows', b) = Remaining(rows, b)
      BY <1>1, <1>6, SerialImportKeeps
    <2> QED BY <1>3, <2>1
  <1> QED BY <1>1, <1>2, <1>4, <1>5, <1>6 DEF SerialStep, SerialRemove

LEMMA CurrentImport ==
  ASSUME IInv, [Next]_vars, NEW r \in Requests, Commit(r), req[r].view = rows,
         req[r].op.kind \in {"csv", "bulk"}, NEW a \in Named(req[r].op)
  PROVE  /\ Remaining(rows', a) >= 0
         /\ OneOffset(req[r].op, a) => /\ NeverNegative(Chronological(rows', a))
                                       /\ WalkQty(rows', a) = Remaining(rows', a)
  <1> DEFINE op == req[r].op
  <1>1. /\ op \in Payloads /\ SerialStep(op)
        /\ IsTable(rows) /\ IsFiniteSet(DOMAIN rows) /\ IsTable(rows')
    BY CommitCurrent
  <1>2. SerialImport(op)
    BY <1>1 DEF SerialStep, SerialAdd, SerialEdit, SerialRemove
  <1>3. a \in Named(op)
    OBVIOUS
  <1> HIDE DEF op
  <1>4. /\ Remaining(rows', a) >= 0
        /\ OneOffset(op, a) => /\ NeverNegative(Chronological(rows', a))
                               /\ WalkQty(rows', a) = Remaining(rows', a)
    BY <1>1, <1>2, <1>3, SerialImportKeeps
  <1> QED BY <1>4 DEF op

\* Whatever else is under way: a request whose snapshot is still the table when
\* it commits oversells nothing unless it deletes, and an import of trades in
\* one offset leaves a history that is feasible in the walks' order.
THEOREM OnlyOverlapsOversell ==
  Spec => [][\A r \in Requests : Commit(r) /\ req[r].view = rows =>
               /\ req[r].op.kind # "remove" =>
                     \A a \in Assets : \/ Remaining(rows', a) >= 0
                                       \/ Remaining(rows', a) >= Remaining(rows, a)
               /\ req[r].op.kind \in {"csv", "bulk"} =>
                     \A a \in Named(req[r].op) :
                        /\ Remaining(rows', a) >= 0
                        /\ OneOffset(req[r].op, a) =>
                              /\ NeverNegative(Chronological(rows', a))
                              /\ WalkQty(rows', a) = Remaining(rows', a)]_vars
  <1>1. IInv /\ [Next]_vars =>
          [\A r \in Requests : Commit(r) /\ req[r].view = rows =>
               /\ req[r].op.kind # "remove" =>
                     \A a \in Assets : \/ Remaining(rows', a) >= 0
                                       \/ Remaining(rows', a) >= Remaining(rows, a)
               /\ req[r].op.kind \in {"csv", "bulk"} =>
                     \A a \in Named(req[r].op) :
                        /\ Remaining(rows', a) >= 0
                        /\ OneOffset(req[r].op, a) =>
                              /\ NeverNegative(Chronological(rows', a))
                              /\ WalkQty(rows', a) = Remaining(rows', a)]_vars
    BY CurrentNeverOversells, CurrentImport
  <1> QED BY <1>1, Invariance, PTL DEF Spec

\* The snapshot a lone request holds is the table.
LEMMA AloneCurrent ==
  ASSUME \A r, s \in Requests : r = s
  PROVE  Spec => [](IInv /\ Current)
  <1>1. Init => Current
    <2> SUFFICES ASSUME Init PROVE Current
      OBVIOUS
    <2>1. \A r \in Requests : req[r].phase = "idle"
      BY ClosedFields DEF Init, Replies
    <2> QED BY <2>1 DEF Current
  <1>2. IInv /\ Current /\ [Next]_vars => Current'
    BY AloneIsCurrent
  <1> QED BY <1>1, <1>2, Invariance, PTL DEF Spec

LEMMA CommitAlone ==
  ASSUME Current, NEW r \in Requests, Commit(r)
  PROVE  req[r].view = rows
  BY DEF Current, Commit

LEMMA OnlyRemoveStep ==
  ASSUME IInv, Current, [Next]_vars, NEW a \in Assets, Remaining(rows', a) < 0
  PROVE  \/ Remaining(rows', a) >= Remaining(rows, a)
         \/ \E r \in Requests : Commit(r) /\ req[r].op.kind = "remove"
  <1>1. Remaining(rows, a) \in Int
    BY RowsFinite, RemainingIsNet DEF Remaining
  <1>2. CASE rows' = rows
    BY <1>1, <1>2
  <1>3. ASSUME NEW r \in Requests, Commit(r), req[r].op.kind # "remove"
        PROVE  Remaining(rows', a) >= Remaining(rows, a)
    <2>1. req[r].view = rows
      BY <1>3, CommitAlone
    <2>2. Remaining(rows', a) \in Int
      <3>1. IsTable(rows') /\ IsFiniteSet(DOMAIN rows')
        BY <1>3, <2>1, CommitCurrent
      <3> QED BY <3>1, RemainingIsNet DEF Remaining
    <2> QED BY <1>1, <1>3, <2>1, <2>2, CurrentNeverOversells
  <1> QED BY <1>2, <1>3, OnlyCommits

\* OnlyRemoveOversells: with one request at a time no add, edit or import
\* makes an oversold asset worse or oversells one; only a DELETE does.
THEOREM OnlyRemoves ==
  ASSUME \A r, s \in Requests : r = s
  PROVE  Spec => OnlyRemoveOversells
  <1>1. IInv /\ Current /\ [Next]_vars =>
          [\A a \in Assets :
             Remaining(rows', a) < 0 =>
                \/ Remaining(rows', a) >= Remaining(rows, a)
                \/ \E r \in Requests : Commit(r) /\ req[r].op.kind = "remove"]_vars
    BY OnlyRemoveStep
  <1>2. Spec => [](IInv /\ Current)
    BY AloneCurrent
  <1> QED BY <1>1, <1>2, PTL DEF Spec, OnlyRemoveOversells

\* ImportLeavesFeasible: the check an import makes on instants oversells no
\* asset, and where an asset's trades share an offset it leaves a history the
\* walks, which read the clocks that were stored, never cap.
THEOREM ImportsFeasible ==
  ASSUME \A r, s \in Requests : r = s
  PROVE  Spec => ImportLeavesFeasible
  <1>1. IInv /\ Current /\ [Next]_vars =>
          [\A r \in Requests :
             Commit(r) /\ req[r].op.kind \in {"csv", "bulk"} =>
                \A a \in Named(req[r].op) :
                   /\ Remaining(rows', a) >= 0
                   /\ OneOffset(req[r].op, a) =>
                         /\ NeverNegative(Chronological(rows', a))
                         /\ WalkQty(rows', a) = Remaining(rows', a)]_vars
    BY CurrentImport, CommitAlone
  <1>2. Spec => [](IInv /\ Current)
    BY AloneCurrent
  <1> QED BY <1>1, <1>2, PTL DEF Spec, ImportLeavesFeasible
=============================================================================
