-------------------------- MODULE UpbitSyncProofs --------------------------
(***************************************************************************)
(* Proofs about UpbitSync, for every set of coins, slots and typed rows,   *)
(* every history of the account and any number of requests: its type       *)
(* invariant, that no sync or import touches the rows the user typed in,   *)
(* that a sync leaves the holdings the exchange reported, and that one     *)
(* that reconciled leaves the won balance it read.                         *)
(***************************************************************************)
EXTENDS UpbitSync, DataInduction

Synced == {"fetched", "replaced", "cashed", "synced"}

Key(x) == <<x.ext, x.asset>>

Unique(S)      == \A x, y \in S : Key(x) = Key(y) => x = y
Disjoint(S, T) == \A x \in S, y \in T : Key(x) # Key(y)

IsTable(t) ==
    /\ IsFiniteSet(DOMAIN t) /\ DOMAIN t \subseteq CashIds
    /\ \A x \in DOMAIN t : t[x] \in Int \ {0}

\* The rows of a sync: orders without their fee, and adjustments that bring
\* every listed coin to the balance read.
SyncRows(s) ==
    /\ \A x \in s.trades : x.ext[1] \in {"order", "adjust"}
    /\ IsFiniteSet({x \in s.trades : x.ext[1] = "order"})
    /\ \A x \in s.trades : x.ext[1] = "order" => x.fee = 0
    /\ \A c \in DOMAIN s.held : NetQty({x \in s.trades : x.asset = c}) = s.held[c]

\* What a request in progress holds, whatever the others do.
IsSession(s) ==
    /\ IsRequest(s)
    /\ Upbit(s.trades) = s.trades /\ Unique(s.trades)
    /\ s.phase \in {"idle", "orders"} => s.trades = {}
    /\ s.phase \in {"idle", "orders", "fetched", "replaced"} => s.put = NoCash
    /\ s.phase \in Synced => SyncRows(s)
    /\ IsTable(s.put) /\ \A x, y \in ReconcileRows(s.put) : x = y
    /\ \A x \in s.drop : x[1] = "reconcile"
    /\ s.phase # "synced" => s.krw = NoKrw /\ s.drop = {} /\ ReconcileRows(s.put) = {}
    /\ \A t \in s.snap : IsTable(t) /\ \A u \in s.snap : t = u

\* The numbers that tell one reconcile row from the next one.
Numbered(t) == \A x \in ReconcileRows(t) : x[2] \in 0 .. served

Numbers ==
    /\ Numbered(cash)
    /\ \A r \in Slots :
          /\ req[r].no \in 0 .. served
          /\ \A t \in req[r].snap : Numbered(t)
          /\ req[r].phase # "idle" =>
                /\ <<"reconcile", req[r].no>> \notin DOMAIN cash
                /\ \A o \in Slots \ {r} :
                      req[o].phase # "idle" => req[o].no # req[r].no
                /\ \A o \in Slots : \A t \in req[o].snap : <<"reconcile", req[r].no>> \notin DOMAIN t

\* The locks: rows an import has written clash with none committed or being
\* committed, and no sync holds the range they are in.
Locks ==
    \A r \in Slots : req[r].phase = "imported" =>
        /\ Disjoint(req[r].trades, Upbit(txs))
        /\ \A o \in Slots \ {r} :
              /\ req[o].phase = "imported" => Disjoint(req[r].trades, req[o].trades)
              /\ Ranged(req[o]) => req[r].trades = {}

\* One session at a time holds the reconcile row, ...
Reconciling(s) == ~s.poisoned /\ ReconcileRows(s.put) \cup s.drop # {}

\* ... which is the row in the table unless it is the session's own.
OneReconciles ==
    \A r \in Slots : Reconciling(req[r]) =>
        /\ \A o \in Slots \ {r} : ~Reconciling(req[o])
        /\ \A x \in ReconcileRows(req[r].put) :
              /\ x = <<"reconcile", req[r].no>> \/ x \in DOMAIN cash
              /\ ReconcileRows(cash) \subseteq {x}

\* To half a won.
Pins(s, t) ==
    LET off == CashFlow(Overlay(t, s), s.trades) - s.krw
    IN  2 * off \in -UnitsPerWon .. UnitsPerWon

\* A sync that reconciled is right about the table it saw, or that table can
\* no longer be the one it commits to: the reconcile row in it is gone.
Pinned ==
    \A r \in Slots : req[r].krw # NoKrw /\ ~req[r].poisoned =>
        \A t \in req[r].snap : Pins(req[r], t) \/ ReconcileRows(t) \ DOMAIN cash # {}

IInv ==
    /\ TypeOK /\ IsTable(cash) /\ DOMAIN req = Slots
    /\ \A r \in Slots : IsSession(req[r])
    /\ Numbers /\ Locks /\ OneReconciles /\ Pinned

-----------------------------------------------------------------------------
(***************************************************************************)
(* A session put in the place of r's keeps the invariant when it fits the  *)
(* tables and the other sessions.                                          *)
(***************************************************************************)
FitsLocks(r, s) ==
    /\ s.phase = "imported" =>
          /\ Disjoint(s.trades, Upbit(txs))
          /\ \A o \in Slots \ {r} :
                /\ req[o].phase = "imported" => Disjoint(s.trades, req[o].trades)
                /\ Ranged(req[o]) => s.trades = {}
    /\ Ranged(s) => \A o \in Slots \ {r} : req[o].phase = "imported" => req[o].trades = {}

FitsReconcile(r, s) ==
    Reconciling(s) =>
        /\ \A o \in Slots \ {r} : ~Reconciling(req[o])
        /\ \A x \in ReconcileRows(s.put) :
              /\ x = <<"reconcile", s.no>> \/ x \in DOMAIN cash
              /\ ReconcileRows(cash) \subseteq {x}

FitsTable(s) ==
    s.krw # NoKrw /\ ~s.poisoned =>
        \A t \in s.snap : Pins(s, t) \/ ReconcileRows(t) \ DOMAIN cash # {}

\* It goes on under its number, has the next one, or is over.
FitsNumber(r, s) ==
    /\ s.snap \subseteq req[r].snap \cup {cash}
    /\ \/ s.phase = "idle" /\ s.no = 0 /\ served' = served
       \/ req[r].phase # "idle" /\ s.no = req[r].no /\ served' = served
       \/ s.no = served + 1 /\ served' = served + 1 /\ served < MaxServed

LEMMA StepInv ==
  ASSUME IInv, NEW r \in Slots, NEW s, IsSession(s), s.history \subseteq Kind("order"),
         req' = [req EXCEPT ![r] = s], UnchangedTables,
         FitsLocks(r, s), FitsReconcile(r, s), FitsTable(s), FitsNumber(r, s)
  PROVE  IInv'
  <1>1. /\ DOMAIN req' = Slots /\ req'[r] = s /\ \A o \in Slots \ {r} : req'[o] = req[o]
        /\ log' = log /\ txs' = txs /\ cash' = cash /\ assets' = assets
    BY DEF IInv, UnchangedTables
  <1>2. served \in 0 .. MaxServed /\ served' \in 0 .. MaxServed /\ served <= served'
    BY UpbitSyncAssumption DEF IInv, TypeOK, FitsNumber
  <1>3. TypeOK'
    <2>1. \A o \in Slots : IsRequest(req'[o]) /\ req'[o].history \subseteq Kind("order")
      BY <1>1 DEF IInv, TypeOK, IsSession
    <2>2. \A k : Kind(k)' = Kind(k)
      BY <1>1 DEF Kind
    <2> QED BY <1>1, <1>2, <2>1, <2>2 DEF IInv, TypeOK
  <1>4. \A o \in Slots : IsSession(req'[o])
    BY <1>1 DEF IInv
  <1>5. Numbers'
    <2>1. /\ Numbered(cash)
          /\ \A o \in Slots : \A t \in req'[o].snap : Numbered(t)
      BY <1>1 DEF IInv, Numbers, FitsNumber
    <2>2. \A t : Numbered(t) => Numbered(t)'
      BY <1>2 DEF Numbered
    <2>3. \A o \in Slots : req'[o].no \in 0 .. served'
      <3>1. \A o \in Slots : req[o].no \in 0 .. served
        BY DEF IInv, Numbers
      <3>2. s.no \in 0 .. served'
        BY <1>2, <3>1 DEF FitsNumber
      <3> QED BY <1>1, <1>2, <3>1, <3>2
    <2>4. ASSUME NEW o \in Slots, req'[o].phase # "idle"
          PROVE  /\ <<"reconcile", req'[o].no>> \notin DOMAIN cash
                 /\ \A p \in Slots : \A t \in req'[p].snap : <<"reconcile", req'[o].no>> \notin DOMAIN t
      <3>1. \A t : Numbered(t) => <<"reconcile", served + 1>> \notin DOMAIN t
        BY <1>2 DEF Numbered, ReconcileRows
      <3>2. \/ req'[o].no = served + 1
            \/ req[o].phase # "idle" /\ req'[o].no = req[o].no
        BY <1>1, <2>4 DEF FitsNumber, IsSession
      <3> QED BY <1>1, <2>1, <3>1, <3>2 DEF IInv, Numbers, FitsNumber
    <2>5. ASSUME NEW o \in Slots, NEW p \in Slots \ {o}, req'[o].phase # "idle", req'[p].phase # "idle"
          PROVE  req'[o].no # req'[p].no
      <3>1. \A q \in Slots : req[q].no \in 0 .. served
        BY DEF IInv, Numbers
      <3>2. \A q \in Slots : \A u \in Slots \ {q} :
               req[q].phase # "idle" /\ req[u].phase # "idle" => req[q].no # req[u].no
        BY DEF IInv, Numbers
      <3>3. s.phase = "idle" \/ (req[r].phase # "idle" /\ s.no = req[r].no) \/ s.no = served + 1
        BY DEF FitsNumber
      <3> QED BY <1>1, <1>2, <2>5, <3>1, <3>2, <3>3
    <2> QED BY <1>1, <2>1, <2>2, <2>3, <2>4, <2>5 DEF Numbers
  <1>6. Locks'
    <2>1. \A S, T : Disjoint(S, T) => Disjoint(T, S)
      BY DEF Disjoint
    <2> QED BY <1>1, <2>1 DEF IInv, Locks, FitsLocks
  <1>7. OneReconciles'
    BY <1>1 DEF IInv, OneReconciles, FitsReconcile
  <1>8. Pinned'
    BY <1>1 DEF IInv, Pinned, FitsTable
  <1> QED BY <1>1, <1>3, <1>4, <1>5, <1>6, <1>7, <1>8 DEF IInv

LEMMA IdleSession ==
    /\ IsSession(Idle) /\ Idle.phase = "idle" /\ Idle.no = 0 /\ Idle.history = {}
    /\ Idle.trades = {} /\ Idle.snap = {} /\ Idle.put = NoCash /\ Idle.drop = {}
    /\ Idle.krw = NoKrw /\ Idle.poisoned = FALSE
    /\ ReconcileRows(NoCash) = {} /\ IsTable(NoCash)
  <1>1. ReconcileRows(NoCash) = {} /\ IsTable(NoCash) /\ DOMAIN NoCash = {}
    BY FS_EmptySet DEF ReconcileRows, NoCash, IsTable
  <1>2. 0 \in 0 .. MaxServed
    BY UpbitSyncAssumption
  <1>3. IsRequest(Idle)
    BY <1>1, <1>2 DEF IsRequest, Idle
  <1> QED BY <1>1, <1>3 DEF IsSession, Idle, Upbit, Unique, Synced

LEMMA IdleFits ==
  ASSUME IInv, NEW r \in Slots
  PROVE  FitsLocks(r, Idle) /\ FitsReconcile(r, Idle) /\ FitsTable(Idle)
  BY IdleSession DEF FitsLocks, FitsReconcile, FitsTable, Ranged, Reconciling

LEMMA InitInv == Init => IInv
  <1> SUFFICES ASSUME Init PROVE IInv
    OBVIOUS
  <1>1. DOMAIN req = Slots /\ \A r \in Slots : req[r] = Idle
    BY DEF Init
  <1>2. TypeOK
    BY <1>1, IdleSession, ExchangeAssumption, UpbitSyncAssumption DEF Init, TypeOK, IsSession, Upbit, NoCash
  <1>3. Numbers
    BY <1>1, IdleSession, UpbitSyncAssumption DEF Init, Numbers, Numbered
  <1>4. Locks /\ OneReconciles /\ Pinned
    BY <1>1, IdleSession DEF Locks, OneReconciles, Reconciling, Pinned
  <1> QED BY <1>1, <1>2, <1>3, <1>4, IdleSession DEF IInv, Init

LEMMA HappensInv ==
  ASSUME IInv, Happens, UNCHANGED <<txs, cash, assets, req, served>>
  PROVE  IInv'
  <1>1. PICK e \in Event : log' = Append(log, e)
    BY ExchangeAssumption DEF Happens
  <1>2. log \in Seq(Event)
    BY DEF IInv, TypeOK
  <1>3. log' \in Seq(Event)
    BY <1>1, <1>2
  <1>4. \A k : Kind(k) \subseteq Kind(k)'
    BY <1>1, <1>2 DEF Kind
  <1>5. TypeOK'
    BY <1>3, <1>4 DEF IInv, TypeOK
  <1>6. Numbers' /\ Locks' /\ OneReconciles' /\ Pinned'
    BY DEF IInv, Numbers, Numbered, Locks, OneReconciles, Pinned
  <1> QED BY <1>5, <1>6 DEF IInv

LEMMA AddTypedInv ==
  ASSUME IInv, AddTyped
  PROVE  IInv' /\ Upbit(txs') = Upbit(txs)
  <1>1. PICK x \in ManualRows : x.asset \in assets /\ txs' = txs \cup {x}
    BY DEF AddTyped
  <1>2. x \in Row /\ x.ext[1] = "manual" /\ UNCHANGED <<log, cash, assets, req, served>>
    BY UpbitSyncAssumption DEF AddTyped, Manual
  <1>3. Upbit(txs') = Upbit(txs)
    BY <1>1, <1>2 DEF Upbit
  <1>4. TypeOK'
    <2>1. txs' \subseteq Row /\ {y.asset : y \in txs'} \subseteq assets
      BY <1>1, <1>2 DEF IInv, TypeOK
    <2> QED BY <1>2, <1>3, <2>1 DEF IInv, TypeOK, Kind
  <1>5. Numbers' /\ Locks' /\ OneReconciles' /\ Pinned'
    BY <1>2, <1>3 DEF IInv, Numbers, Numbered, Locks, OneReconciles, Pinned
  <1> QED BY <1>2, <1>3, <1>4, <1>5 DEF IInv

LEMMA StutterInv == IInv /\ UNCHANGED vars => IInv'
  BY DEF IInv, vars, TypeOK, Kind, Numbers, Numbered, Locks, OneReconciles, Pinned

LEMMA AbortInv ==
  ASSUME IInv, NEW r \in Slots, Abort(r)
  PROVE  IInv'
  BY StepInv, IdleSession, IdleFits DEF Abort, Step, FitsNumber, UnchangedTables

-----------------------------------------------------------------------------
(***************************************************************************)
(* The commit.                                                             *)
(***************************************************************************)
LEMMA OverlayRows ==
    \A t, s :
        /\ DOMAIN Overlay(t, s) = (DOMAIN t \cup DOMAIN s.put) \ s.drop
        /\ ReconcileRows(Overlay(t, s)) = (ReconcileRows(t) \cup ReconcileRows(s.put)) \ s.drop
  BY DEF Overlay, ReconcileRows

LEMMA OverlayValues ==
    \A t, s : \A x \in DOMAIN Overlay(t, s) :
        /\ x \in DOMAIN s.put => Overlay(t, s)[x] = s.put[x]
        /\ x \notin DOMAIN s.put => Overlay(t, s)[x] = t[x]
  BY DEF Overlay

LEMMA OverlayIsTable ==
  ASSUME NEW t, NEW s, IsTable(t), IsTable(s.put)
  PROVE  IsTable(Overlay(t, s))
  <1> DEFINE whole == DOMAIN t \cup DOMAIN s.put
  <1>0. DOMAIN Overlay(t, s) \subseteq whole
    BY OverlayRows, ZenonT(40)
  <1>1. IsFiniteSet(DOMAIN Overlay(t, s))
    <2>1. IsFiniteSet(whole)
      BY FS_Union DEF IsTable
    <2> HIDE DEF whole
    <2> QED BY <1>0, <2>1, FS_Subset
  <1>2. ASSUME NEW x \in DOMAIN Overlay(t, s) PROVE x \in CashIds /\ Overlay(t, s)[x] \in Int \ {0}
    <2>1. CASE x \in DOMAIN s.put
      BY <1>0, <2>1, OverlayValues DEF IsTable
    <2>2. CASE x \notin DOMAIN s.put
      BY <1>0, <2>2, OverlayValues DEF IsTable
    <2> QED BY <2>1, <2>2
  <1> QED BY <1>1, <1>2 DEF IsTable

\* What the table holds of either kind after a commit.
LEMMA CommittedRows ==
  ASSUME IInv, NEW r \in Slots, req[r].phase \in {"synced", "imported"}
  PROVE  /\ Manual(CommitRows(req[r])) = Manual(txs)
         /\ req[r].phase = "synced" => Upbit(CommitRows(req[r])) = req[r].trades
         /\ req[r].phase = "imported" => Upbit(CommitRows(req[r])) = Upbit(txs) \cup req[r].trades
         /\ CommitRows(req[r]) \subseteq txs \cup req[r].trades
         /\ req[r].trades \subseteq CommitRows(req[r])
  <1>1. Upbit(req[r].trades) = req[r].trades
    BY DEF IInv, IsSession
  <1> QED BY <1>1 DEF CommitRows, Manual, Upbit

LEMMA CommitInv ==
  ASSUME IInv, NEW r \in Slots, Commit(r)
  PROVE  IInv'
  <1> DEFINE s == req[r]
  <1>1. CASE s.poisoned
    BY <1>1, StepInv, IdleSession, IdleFits DEF Commit, FitsNumber, UnchangedTables
  <1>2. CASE ~s.poisoned
    <2>1. /\ s.phase \in {"synced", "imported"} /\ IsSession(s)
          /\ txs' = CommitRows(s) /\ cash' = Overlay(cash, s)
          /\ assets' = assets \cup {x.asset : x \in s.trades}
          /\ UNCHANGED <<log, served>>
          /\ DOMAIN req' = Slots /\ req'[r] = Idle
          /\ \A o \in Slots \ {r} : req'[o] = req[o]
      BY <1>2 DEF Commit, IInv
    <2>2. s.trades \subseteq Row /\ txs \subseteq Row /\ assets \subseteq Coins
      BY <2>1 DEF IInv, TypeOK, IsSession, IsRequest
    <2>3. Unique(Upbit(txs'))
      <3>1. Unique(s.trades) /\ Unique(Upbit(txs))
        BY <2>1 DEF IInv, TypeOK, IsSession, Unique, Key
      <3>2. CASE s.phase = "synced"
        BY <2>1, <3>1, <3>2, CommittedRows
      <3>3. CASE s.phase = "imported"
        <4>1. Disjoint(s.trades, Upbit(txs))
          BY <3>3 DEF IInv, Locks
        <4> QED BY <2>1, <3>1, <3>3, <4>1, CommittedRows DEF Unique, Disjoint
      <3> QED BY <2>1, <3>2, <3>3
    <2>4. IsTable(cash')
      BY <2>1, OverlayIsTable DEF IInv, IsSession
    <2>5. \A x \in ReconcileRows(s.put) :
             /\ x = <<"reconcile", s.no>> \/ x \in DOMAIN cash
             /\ ReconcileRows(cash) \subseteq {x}
      BY <1>2 DEF IInv, OneReconciles, Reconciling
    <2>6. ReconcileRows(cash') = (ReconcileRows(cash) \cup ReconcileRows(s.put)) \ s.drop
      BY <2>1, OverlayRows
    <2>7. \A x, y \in ReconcileRows(cash') : x = y
      <3>1. \A x, y \in ReconcileRows(cash) : x = y
        BY DEF IInv, TypeOK
      <3>2. \A x, y \in ReconcileRows(s.put) : x = y
        BY <2>1 DEF IsSession
      <3> QED BY <2>5, <2>6, <3>1, <3>2
    <2>8. TypeOK'
      <3>1. txs' \subseteq Row /\ {x.asset : x \in txs'} \subseteq assets' /\ assets' \subseteq Coins
        <4>1. txs' \subseteq txs \cup s.trades
          BY <2>1, CommittedRows
        <4>2. {x.asset : x \in txs} \subseteq assets
          BY DEF IInv, TypeOK
        <4>3. \A x \in s.trades : x.asset \in Coins
          BY <2>2 DEF Row
        <4> QED BY <2>1, <2>2, <4>1, <4>2, <4>3
      <3>2. \A o \in Slots : IsRequest(req'[o]) /\ req'[o].history \subseteq Kind("order")
        BY <2>1, IdleSession DEF IInv, TypeOK, IsSession
      <3>3. \A x, y \in Upbit(txs') : <<x.ext, x.asset>> = <<y.ext, y.asset>> => x = y
        BY <2>3 DEF Unique, Key
      <3>4. Kind("order")' = Kind("order")
        BY <2>1 DEF Kind
      <3> QED BY <2>1, <2>4, <2>7, <3>1, <3>2, <3>3, <3>4 DEF IInv, TypeOK, IsTable
    <2>9. Numbers'
      <3>1. s.phase # "idle" /\ s.no \in 0 .. served
        BY <2>1 DEF IInv, Numbers
      <3>2. \A t : Numbered(t)' <=> Numbered(t)
        BY <2>1 DEF Numbered
      <3>3. Numbered(cash')
        BY <2>5, <2>6, <3>1 DEF IInv, Numbers, Numbered, ReconcileRows
      <3>4. \A o \in Slots \ {r} : req[o].phase # "idle" => <<"reconcile", req[o].no>> \notin DOMAIN cash'
        <4> SUFFICES ASSUME NEW o \in Slots \ {r}, req[o].phase # "idle",
                            <<"reconcile", req[o].no>> \in DOMAIN cash'
                     PROVE  FALSE
          OBVIOUS
        <4>1. <<"reconcile", req[o].no>> \in ReconcileRows(cash')
          BY DEF ReconcileRows
        <4>2. req[o].no # s.no /\ <<"reconcile", req[o].no>> \notin DOMAIN cash
          BY <3>1 DEF IInv, Numbers
        <4> QED BY <2>5, <2>6, <4>1, <4>2 DEF ReconcileRows
      <3>5. \A o \in Slots : req'[o].no \in 0 .. served /\ \A t \in req'[o].snap : Numbered(t)
        <4>1. 0 \in 0 .. served
          BY UpbitSyncAssumption DEF IInv, TypeOK
        <4> QED BY <2>1, <4>1, IdleSession DEF IInv, Numbers
      <3> QED BY <2>1, <3>2, <3>3, <3>4, <3>5, IdleSession DEF IInv, Numbers
    <2>10. Locks'
      <3>1. ASSUME NEW o \in Slots \ {r}, req[o].phase = "imported"
            PROVE  Disjoint(req[o].trades, Upbit(txs'))
        <4>1. CASE s.phase = "synced"
          <5>1. req[o].trades = {}
            BY <1>2, <3>1, <4>1 DEF IInv, Locks, Ranged
          <5> QED BY <5>1 DEF Disjoint
        <4>2. CASE s.phase = "imported"
          <5>1. Disjoint(req[o].trades, Upbit(txs)) /\ Disjoint(req[o].trades, s.trades)
            BY <3>1, <4>2 DEF IInv, Locks
          <5> QED BY <2>1, <4>2, <5>1, CommittedRows DEF Disjoint
        <4> QED BY <2>1, <4>1, <4>2
      <3>2. ~Ranged(Idle)
        BY IdleSession DEF Ranged
      <3> QED BY <2>1, <3>1, <3>2, IdleSession DEF IInv, Locks
    <2>11. OneReconciles'
      <3>1. ~Reconciling(Idle)
        BY IdleSession DEF Reconciling
      <3>2. ASSUME NEW o \in Slots \ {r}, Reconciling(req[o])
            PROVE  \A x \in ReconcileRows(req[o].put) :
                      /\ x = <<"reconcile", req[o].no>> \/ x \in DOMAIN cash'
                      /\ ReconcileRows(cash') \subseteq {x}
        <4>1. ~Reconciling(s)
          BY <3>2 DEF IInv, OneReconciles
        <4>2. ReconcileRows(s.put) = {} /\ s.drop = {}
          BY <1>2, <4>1 DEF Reconciling
        <4>3. ReconcileRows(cash') = ReconcileRows(cash)
          BY <2>6, <4>2
        <4>4. DOMAIN cash \subseteq DOMAIN cash'
          <5>1. DOMAIN Overlay(cash, s) = (DOMAIN cash \cup DOMAIN s.put) \ s.drop
            BY OverlayRows
          <5> QED BY <2>1, <4>2, <5>1
        <4> QED BY <3>2, <4>3, <4>4 DEF IInv, OneReconciles
      <3> QED BY <2>1, <3>1, <3>2 DEF IInv, OneReconciles
    <2>12. Pinned'
      <3>1. ASSUME NEW o \in Slots \ {r}, NEW t \in req[o].snap, NEW y \in ReconcileRows(t), y \notin DOMAIN cash
            PROVE  y \notin DOMAIN cash'
        <4>1. <<"reconcile", s.no>> \notin DOMAIN t
          BY <2>1 DEF IInv, Numbers
        <4>2. y # <<"reconcile", s.no>> /\ y[1] = "reconcile"
          BY <3>1, <4>1 DEF ReconcileRows
        <4> QED BY <2>5, <2>6, <3>1, <4>2 DEF ReconcileRows
      <3> QED BY <2>1, <3>1, IdleSession DEF IInv, Pinned
    <2> QED BY <2>1, <2>4, <2>8, <2>9, <2>10, <2>11, <2>12, IdleSession DEF IInv
  <1> QED BY <1>1, <1>2

-----------------------------------------------------------------------------
(***************************************************************************)
(* The orders and the balances.                                            *)
(***************************************************************************)
LEMMA LogFacts ==
  ASSUME log \in Seq(Event)
  PROVE  /\ IsFiniteSet(DOMAIN log) /\ DOMAIN log \subseteq Nat \ {0} /\ Len(log) \in Nat
         /\ \A n \in DOMAIN log :
               /\ log[n] \in Event /\ log[n].qty \in Nat \ {0} /\ log[n].price \in Nat
               /\ log[n].type \in {"BUY", "SELL"} /\ Signed(log[n]) \in Int \ {0}
         /\ \A n \in DOMAIN log : log[n].kind \in {"order", "transfer"} => log[n].coin \in Coins
  <1>1. DOMAIN log = 1 .. Len(log) /\ Len(log) \in Nat
    OBVIOUS
  <1>2. IsFiniteSet(DOMAIN log)
    BY <1>1, FS_Interval
  <1>3. \A n \in DOMAIN log : log[n] \in Event
    BY <1>1
  <1>4. \A e \in Event :
           /\ e.qty \in Nat \ {0} /\ e.price \in Nat /\ e.type \in {"BUY", "SELL"}
           /\ e.kind \in {"order", "transfer"} => e.coin \in Coins
    BY DEF Event
  <1>5. \A e \in Event : Signed(e) \in Int \ {0}
    BY <1>4 DEF Signed
  <1> QED BY <1>1, <1>2, <1>3, <1>4, <1>5

LEMMA OrderRowsFacts ==
  ASSUME log \in Seq(Event), NEW history, history \subseteq Kind("order")
  PROVE  /\ IsFiniteSet(OrderRows(history)) /\ OrderRows(history) \subseteq Row
         /\ \A x \in OrderRows(history) : x.ext[1] = "order" /\ x.fee = 0
         /\ Unique(OrderRows(history))
  <1>1. IsFiniteSet(OrderRows(history))
    <2> DEFINE f == [n \in history |-> Tx(n, "order", 0)]
    <2>1. IsFiniteSet(history)
      BY LogFacts, FS_Subset DEF Kind
    <2>2. OrderRows(history) = {f[n] : n \in history}
      BY DEF OrderRows
    <2>3. f \in Surjection(history, OrderRows(history))
      BY <2>2 DEF Surjection
    <2> QED BY <2>1, <2>3, FS_Surjection
  <1>2. ASSUME NEW n \in history
        PROVE  /\ Tx(n, "order", 0) \in Row /\ Tx(n, "order", 0).ext = <<"order", n>>
               /\ Tx(n, "order", 0).fee = 0
    <2>1. n \in DOMAIN log /\ log[n].kind = "order" /\ n \in Nat /\ 2 * n \in Nat
      BY LogFacts DEF Kind
    <2> QED BY <2>1, LogFacts DEF Tx, Row
  <1> QED BY <1>1, <1>2 DEF OrderRows, Unique, Key

LEMMA NetQtyOf ==
  ASSUME NEW S, IsFiniteSet(S), \A x \in S : Signed(x) \in Int
  PROVE  /\ NetQty(S) \in Int
         /\ \A x : x \notin S /\ Signed(x) \in Int => NetQty(S \cup {x}) = NetQty(S) + Signed(x)
  <1> DEFINE f(T) == [y \in T |-> Signed(y)]
  <1>1. \A T : NetQty(T) = SumFunctionOnSet(f(T), T)
    BY DEF NetQty, SumFunction
  <1>2. \A y \in S : f(S)[y] \in Int
    OBVIOUS
  <1>3. NetQty(S) \in Int
    <2> HIDE DEF f
    <2> QED BY <1>1, <1>2, SumOnSet
  <1>4. ASSUME NEW x, x \notin S, Signed(x) \in Int
        PROVE  NetQty(S \cup {x}) = NetQty(S) + Signed(x)
    <2> DEFINE g == f(S \cup {x})
    <2>1. g[x] = Signed(x) /\ \A y \in S : g[y] \in Int /\ g[y] = f(S)[y]
      OBVIOUS
    <2>2. SumFunctionOnSet(g, S \cup {x}) = SumFunctionOnSet(g, S) + g[x]
      <3> HIDE DEF g
      <3> QED BY <1>4, <2>1, SumWith
    <2>3. SumFunctionOnSet(g, S) = SumFunctionOnSet(f(S), S)
      <3> HIDE DEF g, f
      <3> QED BY <2>1, SumOnSet
    <2> QED BY <1>1, <2>1, <2>2, <2>3
  <1> QED BY <1>3, <1>4

\* The adjustment brings the orders of a coin to its balance.
LEMMA Adjusted ==
  ASSUME log \in Seq(Event), NEW history, history \subseteq Kind("order"), NEW c \in Coins
  PROVE  LET own == {x \in OrderRows(history) : x.asset = c}
         IN  /\ NetQty(own \cup Adjustment(c, history)) = CoinBalance(c)
             /\ \A x \in Adjustment(c, history) :
                   x \in Row /\ x.asset = c /\ x.ext = <<"adjust", 0>> /\ x.fee = 0
             /\ \A x, y \in Adjustment(c, history) : x = y
  <1> DEFINE own  == {x \in OrderRows(history) : x.asset = c}
             diff == CoinBalance(c) - NetQty(own)
             a    == [asset |-> c, type |-> IF diff > 0 THEN "BUY" ELSE "SELL",
                      qty |-> IF diff > 0 THEN diff ELSE -diff, price |-> 1,
                      at |-> 2 * Len(log) + 1, fee |-> 0, ext |-> <<"adjust", 0>>]
  <1>1. Adjustment(c, history) = IF diff = 0 THEN {} ELSE {a}
    BY DEF Adjustment
  <1>2. IsFiniteSet(own) /\ \A x \in own : Signed(x) \in Int /\ x.ext[1] = "order"
    <2>1. IsFiniteSet(own)
      BY OrderRowsFacts, FS_Subset
    <2>2. \A x \in Row : Signed(x) \in Int
      BY DEF Row, Signed
    <2> QED BY <2>1, <2>2, OrderRowsFacts
  <1>3. CoinBalance(c) \in Int
    <2> DEFINE D == {m \in DOMAIN log : log[m].coin = c}
               f == [n \in D |-> Signed(log[n])]
    <2>1. IsFiniteSet(D) /\ \A n \in D : f[n] \in Int
      BY LogFacts, FS_Subset
    <2>2. CoinBalance(c) = SumFunctionOnSet(f, D)
      BY DEF CoinBalance, SumFunction
    <2> HIDE DEF f, D
    <2> QED BY <2>1, <2>2, SumOnSet
  <1>4. NetQty(own) \in Int
    <2> HIDE DEF own
    <2> QED BY <1>2, NetQtyOf
  <1>5. CASE diff = 0
    <2>1. NetQty(own) = CoinBalance(c)
      BY <1>3, <1>4, <1>5
    <2> QED BY <1>1, <1>5, <2>1
  <1>6. CASE diff # 0
    <2>1. Signed(a) = diff
      BY <1>3, <1>4 DEF Signed
    <2>2. a \in Row /\ a.asset = c /\ a.ext = <<"adjust", 0>> /\ a.fee = 0
      BY <1>3, <1>4, <1>6, LogFacts DEF Row
    <2>3. a \notin own
      BY <1>2, <2>2
    <2>4. NetQty(own \cup {a}) = NetQty(own) + Signed(a)
      <3> HIDE DEF own, a
      <3> QED BY <1>2, <1>3, <1>4, <2>1, <2>3, NetQtyOf
    <2>5. Adjustment(c, history) = {a}
      <3> HIDE DEF diff, a
      <3> QED BY <1>1, <1>6
    <2>6. NetQty(own) + Signed(a) = CoinBalance(c)
      <3> HIDE DEF a, own
      <3> QED BY <1>3, <1>4, <2>1
    <2> HIDE DEF diff, a
    <2> QED BY <2>2, <2>4, <2>5, <2>6
  <1> QED BY <1>5, <1>6

LEMMA Fetched ==
  ASSUME log \in Seq(Event), NEW history, history \subseteq Kind("order"),
         NEW listed, listed \subseteq Coins, NEW t,
         t.trades = SyncTrades(history, listed), t.held = Balances(listed)
  PROVE  /\ t.trades \subseteq Row /\ Upbit(t.trades) = t.trades /\ Unique(t.trades)
         /\ SyncRows(t)
  <1> DEFINE O == OrderRows(history)
             A(c) == Adjustment(c, history)
             own(c) == {x \in O : x.asset = c}
  <1>1. \A x \in t.trades : x \in O \/ \E c \in listed : x \in A(c)
    BY DEF SyncTrades
  <1>2. O \subseteq t.trades /\ \A c \in listed : A(c) \subseteq t.trades
    BY DEF SyncTrades
  <1>3. /\ IsFiniteSet(O) /\ O \subseteq Row /\ Unique(O)
        /\ \A x \in O : x.ext[1] = "order" /\ x.fee = 0
    BY OrderRowsFacts
  <1>4. \A c \in listed : \A x \in A(c) :
           /\ x \in Row /\ x.asset = c /\ x.ext = <<"adjust", 0>> /\ x.fee = 0
           /\ \A y \in A(c) : x = y
    BY Adjusted
  <1>5. \A c \in listed : NetQty(own(c) \cup A(c)) = CoinBalance(c)
    BY Adjusted
  <1> HIDE DEF O, A
  <1>6. t.trades \subseteq Row /\ \A x \in t.trades : x.ext[1] \in {"order", "adjust"}
    BY <1>1, <1>3, <1>4
  <1>7. Upbit(t.trades) = t.trades
    BY <1>6 DEF Upbit
  <1>8. Unique(t.trades)
    <2>1. \A x, y : Key(x) = Key(y) => x.ext = y.ext /\ x.asset = y.asset
      BY DEF Key
    <2> QED BY <1>1, <1>3, <1>4, <2>1 DEF Unique
  <1>9. SyncRows(t)
    <2>1. {x \in t.trades : x.ext[1] = "order"} = O
      BY <1>1, <1>2, <1>3, <1>4
    <2>2. \A x \in t.trades : x.ext[1] = "order" => x.fee = 0
      BY <1>1, <1>3, <1>4
    <2>3. ASSUME NEW c \in listed PROVE NetQty({x \in t.trades : x.asset = c}) = t.held[c]
      <3>1. {x \in t.trades : x.asset = c} = own(c) \cup A(c)
        BY <1>1, <1>2, <1>4
      <3> QED BY <1>5, <3>1 DEF Balances
    <2>4. DOMAIN t.held = listed
      BY DEF Balances
    <2> QED BY <1>3, <1>6, <2>4, <2>1, <2>2, <2>3 DEF SyncRows
  <1> QED BY <1>6, <1>7, <1>8, <1>9

LEMMA FetchOrdersInv ==
  ASSUME IInv, NEW r \in Slots, FetchOrders(r)
  PROVE  IInv'
  <1>1. PICK h \in Histories :
           req' = [req EXCEPT ![r] = [Idle EXCEPT !.phase = "orders", !.no = served + 1, !.history = h]]
    BY DEF FetchOrders
  <1> DEFINE t == [Idle EXCEPT !.phase = "orders", !.no = served + 1, !.history = h]
  <1>2. served' = served + 1 /\ served < MaxServed /\ UnchangedTables /\ served \in 0 .. MaxServed
    BY DEF FetchOrders, IInv, TypeOK
  <1>3. /\ t.phase = "orders" /\ t.no = served + 1 /\ t.history = h /\ DOMAIN t = DOMAIN Idle
        /\ t.trades = {} /\ t.snap = {} /\ t.put = NoCash /\ t.drop = {} /\ t.krw = NoKrw
        /\ t.poisoned = FALSE
    BY DEF Idle
  <1> HIDE DEF t
  <1>4. IsSession(t)
    BY <1>2, <1>3, IdleSession, UpbitSyncAssumption
       DEF IsSession, IsRequest, Upbit, Unique, Synced, IsTable
  <1>5. FitsLocks(r, t) /\ FitsReconcile(r, t) /\ FitsTable(t) /\ FitsNumber(r, t)
    BY <1>2, <1>3, IdleSession DEF FitsLocks, FitsReconcile, FitsTable, FitsNumber, Ranged, Reconciling
  <1> QED BY <1>1, <1>2, <1>3, <1>4, <1>5, StepInv DEF Histories, t

LEMMA FetchBalancesInv ==
  ASSUME IInv, NEW r \in Slots, FetchBalances(r)
  PROVE  IInv'
  <1> DEFINE s == req[r]
  <1>1. PICK listed \in SUBSET Coins :
           Step(r, [s EXCEPT !.phase = "fetched", !.held = Balances(listed),
                             !.trades = SyncTrades(s.history, listed)])
    BY DEF FetchBalances
  <1> DEFINE t == [s EXCEPT !.phase = "fetched", !.held = Balances(listed),
                            !.trades = SyncTrades(s.history, listed)]
  <1>2. IsSession(s) /\ s.phase = "orders" /\ s.history \subseteq Kind("order") /\ log \in Seq(Event)
    BY DEF FetchBalances, IInv, TypeOK
  <1>3. /\ t.phase = "fetched" /\ t.held = Balances(listed)
        /\ t.trades = SyncTrades(s.history, listed)
        /\ DOMAIN t = DOMAIN Idle /\ t.no = s.no /\ t.history = s.history /\ t.snap = s.snap
        /\ t.put = s.put /\ t.drop = s.drop /\ t.krw = s.krw /\ t.poisoned = s.poisoned
    BY <1>2 DEF IsSession, IsRequest, Idle
  <1> HIDE DEF t
  <1>4. t.trades \subseteq Row /\ Upbit(t.trades) = t.trades /\ Unique(t.trades) /\ SyncRows(t)
    BY <1>2, <1>3, Fetched
  <1>5. IsSession(t)
    BY <1>2, <1>3, <1>4 DEF IsSession, IsRequest, Synced
  <1>6. FitsLocks(r, t) /\ FitsReconcile(r, t) /\ FitsTable(t) /\ FitsNumber(r, t)
    BY <1>1, <1>2, <1>3
       DEF FitsLocks, FitsReconcile, FitsTable, FitsNumber, Ranged, Reconciling, IsSession, Step
  <1> QED BY <1>1, <1>2, <1>3, <1>5, <1>6, StepInv DEF Step, t

-----------------------------------------------------------------------------
(***************************************************************************)
(* The rows and the cash of a sync.                                        *)
(***************************************************************************)
LEMMA SeenTable ==
  ASSUME IInv, NEW r \in Slots
  PROVE  /\ IsTable(Seen(req[r])) /\ Seen(req[r]) \in req[r].snap \cup {cash}
         /\ req[r].snap # {} => req[r].snap = {Seen(req[r])}
  BY DEF IInv, IsSession, Seen

LEMMA ReplaceInv ==
  ASSUME IInv, NEW r \in Slots, Replace(r)
  PROVE  IInv'
  <1> DEFINE s == req[r]
             t == [s EXCEPT !.phase = "replaced", !.snap = IF s.trades = {} THEN {} ELSE {cash}]
  <1>1. IsSession(s) /\ s.phase = "fetched" /\ s.history \subseteq Kind("order") /\ Step(r, t)
    BY DEF Replace, IInv, TypeOK
  <1>2. /\ t.phase = "replaced" /\ t.snap \subseteq {cash}
        /\ DOMAIN t = DOMAIN Idle /\ t.no = s.no /\ t.history = s.history /\ t.trades = s.trades
        /\ t.held = s.held /\ t.put = s.put /\ t.drop = s.drop /\ t.krw = s.krw
        /\ t.poisoned = s.poisoned
    BY <1>1 DEF IsSession, IsRequest, Idle
  <1>3. ASSUME NEW o \in Slots \ {r}, req[o].phase = "imported" PROVE req[o].trades = {}
    BY <1>3 DEF Replace, MustWait, Wrote
  <1> HIDE DEF t
  <1>4. IsSession(t)
    <2>1. IsTable(cash)
      BY DEF IInv
    <2>2. SyncRows(t)
      BY <1>1, <1>2 DEF IsSession, Synced, SyncRows
    <2> QED BY <1>1, <1>2, <2>1, <2>2 DEF IsSession, IsRequest, Synced
  <1>5. FitsLocks(r, t) /\ FitsReconcile(r, t) /\ FitsTable(t) /\ FitsNumber(r, t)
    BY <1>1, <1>2, <1>3, IdleSession
       DEF FitsLocks, FitsReconcile, FitsTable, FitsNumber, Reconciling, IsSession, Step
  <1> QED BY <1>1, <1>2, <1>4, <1>5, StepInv DEF Step

\* The steps between the locks and the reply: what they may change.
LEMMA CashStepInv ==
  ASSUME IInv, NEW r \in Slots, NEW t, Step(r, t), req[r].phase \in {"replaced", "cashed"},
         t.phase \in {"cashed", "synced"}, DOMAIN t = DOMAIN Idle,
         t.no = req[r].no, t.history = req[r].history, t.trades = req[r].trades, t.held = req[r].held,
         t.snap = req[r].snap \/ t.snap = {Seen(req[r])},
         req[r].poisoned => t.poisoned,
         IsTable(t.put), \A x, y \in ReconcileRows(t.put) : x = y, 
         \A x \in t.drop : x \in CashIds /\ x[1] = "reconcile",
         t.phase = "cashed" => t.krw = NoKrw /\ t.drop = {} /\ ReconcileRows(t.put) = {},
         FitsReconcile(r, t), FitsTable(t)
  PROVE  IInv'
  <1>1. IsSession(req[r]) /\ req[r].history \subseteq Kind("order")
    BY DEF IInv, TypeOK
  <1>2. IsSession(t)
    <2>1. SyncRows(t)
      BY <1>1 DEF IsSession, Synced, SyncRows
    <2>2. \A u \in t.snap : IsTable(u) /\ \A v \in t.snap : u = v
      BY <1>1, SeenTable DEF IsSession
    <2>3. IsRequest(t)
      BY <1>1 DEF IsSession, IsRequest, IsTable
    <2> QED BY <1>1, <2>1, <2>2, <2>3 DEF IsSession
  <1>3. FitsLocks(r, t)
    BY DEF FitsLocks, IInv, Locks, Ranged
  <1>4. FitsNumber(r, t)
    BY SeenTable DEF FitsNumber, Step
  <1> QED BY <1>1, <1>2, <1>3, <1>4, StepInv DEF Step

\* Money rows put under ids of their own.
LEMMA MoneyRows ==
  ASSUME log \in Seq(Event), NEW kind \in {"order", "pdfCash"}, NEW money,
         money \subseteq {<<kind, n>> : n \in Kind("won")}
  PROVE  LET more == [x \in money |-> Signed(log[x[2]])]
         IN  IsTable(more) /\ ReconcileRows(more) = {}
  <1> DEFINE all  == {<<kind, n>> : n \in Kind("won")}
             more == [x \in money |-> Signed(log[x[2]])]
  <1>1. IsFiniteSet(money)
    <2> DEFINE f == [n \in Kind("won") |-> <<kind, n>>]
    <2>1. IsFiniteSet(Kind("won"))
      BY LogFacts, FS_Subset DEF Kind
    <2>2. f \in Surjection(Kind("won"), all)
      BY DEF Surjection
    <2>3. IsFiniteSet(all)
      BY <2>1, <2>2, FS_Surjection
    <2> QED BY <2>3, FS_Subset
  <1>2. ASSUME NEW x \in money PROVE x \in CashIds /\ x[1] = kind /\ Signed(log[x[2]]) \in Int \ {0}
    <2>1. PICK n \in Kind("won") : x = <<kind, n>>
      OBVIOUS
    <2>2. n \in DOMAIN log /\ n \in Nat
      BY LogFacts DEF Kind
    <2> QED BY <2>1, <2>2, LogFacts DEF CashIds
  <1> QED BY <1>1, <1>2 DEF IsTable, ReconcileRows

LEMMA UpsertCashInv ==
  ASSUME IInv, NEW r \in Slots, UpsertCash(r)
  PROVE  IInv'
  <1> DEFINE s == req[r]
  <1>1. PICK list \in MoneyLists :
          LET new  == {n \in list : <<"order", n>> \notin DOMAIN Seen(s)}
              more == [x \in {<<"order", n>> : n \in new} |-> Signed(log[x[2]])]
              t    == [s EXCEPT !.phase = "cashed",
                                !.snap = IF list = {} THEN @ ELSE {Seen(s)}]
          IN  Step(r, t) \/ Step(r, [t EXCEPT !.put = more]) \/ Step(r, Poison(t))
    BY DEF UpsertCash
  <1> DEFINE new  == {n \in list : <<"order", n>> \notin DOMAIN Seen(s)}
             more == [x \in {<<"order", n>> : n \in new} |-> Signed(log[x[2]])]
             t    == [s EXCEPT !.phase = "cashed", !.snap = IF list = {} THEN @ ELSE {Seen(s)}]
  <1>2. IsSession(s) /\ s.phase = "replaced" /\ log \in Seq(Event)
    BY DEF UpsertCash, IInv, TypeOK
  <1>3. IsTable(more) /\ ReconcileRows(more) = {}
    <2>1. {<<"order", n>> : n \in new} \subseteq {<<"order", n>> : n \in Kind("won")}
      <3>1. list \subseteq Kind("won")
        BY DEF MoneyLists
      <3> QED BY <3>1
    <2> HIDE DEF new
    <2> QED BY <1>2, <2>1, MoneyRows
  <1>4. ASSUME NEW u, Step(r, u), u.phase = "cashed", DOMAIN u = DOMAIN Idle,
               u.no = s.no, u.history = s.history, u.trades = s.trades, u.held = s.held,
               u.snap = s.snap \/ u.snap = {Seen(s)}, u.put = s.put \/ u.put = more,
               u.krw = s.krw, u.drop = s.drop
        PROVE  IInv'
    <2>1. u.krw = NoKrw /\ u.drop = {} /\ IsTable(u.put) /\ ReconcileRows(u.put) = {}
      BY <1>2, <1>3, <1>4 DEF IsSession
    <2>2. FitsReconcile(r, u) /\ FitsTable(u)
      BY <2>1 DEF FitsReconcile, FitsTable, Reconciling
    <2>3. ~s.poisoned
      BY <1>2 DEF IsSession, IsRequest
    <2> HIDE DEF more
    <2> QED BY <1>2, <1>4, <2>1, <2>2, <2>3, CashStepInv
  <1>5. /\ t.phase = "cashed" /\ DOMAIN t = DOMAIN Idle /\ t.no = s.no /\ t.history = s.history
        /\ t.trades = s.trades /\ t.held = s.held /\ (t.snap = s.snap \/ t.snap = {Seen(s)})
        /\ t.put = s.put /\ t.krw = s.krw /\ t.drop = s.drop
    BY <1>2 DEF IsSession, IsRequest, Idle
  <1> HIDE DEF more, t
  <1>6. CASE Step(r, t)
    BY <1>4, <1>5, <1>6
  <1>7. CASE Step(r, [t EXCEPT !.put = more])
    <2> DEFINE u == [t EXCEPT !.put = more]
    <2>1. /\ u.phase = "cashed" /\ DOMAIN u = DOMAIN Idle /\ u.no = s.no /\ u.history = s.history
          /\ u.trades = s.trades /\ u.held = s.held /\ (u.snap = s.snap \/ u.snap = {Seen(s)})
          /\ u.put = more /\ u.krw = s.krw /\ u.drop = s.drop
      BY <1>5 DEF Idle
    <2> HIDE DEF u
    <2> QED BY <1>4, <1>7, <2>1 DEF u
  <1>8. CASE Step(r, Poison(t))
    <2> DEFINE u == Poison(t)
    <2>1. /\ u.phase = "cashed" /\ DOMAIN u = DOMAIN Idle /\ u.no = s.no /\ u.history = s.history
          /\ u.trades = s.trades /\ u.held = s.held /\ (u.snap = s.snap \/ u.snap = {Seen(s)})
          /\ u.put = s.put /\ u.krw = s.krw /\ u.drop = s.drop
      BY <1>5 DEF Idle, Poison
    <2> HIDE DEF u
    <2> QED BY <1>4, <1>8, <2>1 DEF u
  <1> QED BY <1>1, <1>6, <1>7, <1>8 DEF more, t

-----------------------------------------------------------------------------
(***************************************************************************)
(* The reconcile row.                                                      *)
(***************************************************************************)
LEMMA QuantizeError ==
  ASSUME NEW d \in Int
  PROVE  Quantize(d) \in Int /\ 2 * (Quantize(d) - d) \in -UnitsPerWon .. UnitsPerWon
  <1> DEFINE U == UnitsPerWon
             q == d \div U
             m == d % U
  <1>1. U \in Nat /\ U > 0
    BY UpbitSyncAssumption
  <1>2. q \in Int /\ m \in 0 .. U - 1 /\ d = U * q + m
    BY <1>1
  <1>3. U * q \in Int /\ U * (q + 1) = U * q + U
    BY <1>1, <1>2
  <1>4. \/ Quantize(d) = U * q /\ 2 * m <= U
        \/ Quantize(d) = U * (q + 1) /\ 2 * m >= U
    <2> HIDE DEF q, m
    <2> QED BY <1>1, <1>2 DEF Quantize, q, m
  <1> HIDE DEF q, m
  <1> QED BY <1>1, <1>2, <1>3, <1>4

\* Orders carry no fee and adjustments move no money: both flows count the
\* same trades of a sync.
LEMMA SameTrades ==
  ASSUME NEW s, SyncRows(s), s.trades \subseteq Row, Upbit(s.trades) = s.trades
  PROVE  \E paid \in Int : \A table :
            /\ CashFlow(table, s.trades) = SumFunction(table) - paid
            /\ Organic(table, s.trades)
                 = SumFunctionOnSet(table, DOMAIN table \ ReconcileRows(table)) - paid
  <1> DEFINE O == {y \in s.trades : y.ext[1] # "adjust"}
             f == [x \in O |-> Signed(x) * x.price]
             g == [x \in O |-> Signed(x) * x.price + x.fee]
  <1>1. O = {y \in Upbit(s.trades) : y.ext[1] \notin {"adjust", "pdfTransfer"}}
    BY DEF SyncRows
  <1>2. IsFiniteSet(O)
    <2>1. O = {x \in s.trades : x.ext[1] = "order"}
      BY DEF SyncRows
    <2> QED BY <2>1 DEF SyncRows
  <1>3. ASSUME NEW x \in O PROVE f[x] \in Int /\ f[x] = g[x]
    <2>1. x.qty \in Int /\ x.price \in Int /\ x.fee = 0
      BY DEF SyncRows, Row
    <2>2. Signed(x) \in Int
      BY <2>1 DEF Signed
    <2>3. Signed(x) * x.price \in Int
      BY <2>1, <2>2
    <2> QED BY <2>1, <2>3
  <1>4. f = g
    BY <1>3
  <1>5. SumFunction(f) \in Int
    <2>1. SumFunction(f) = SumFunctionOnSet(f, O)
      BY DEF SumFunction
    <2> HIDE DEF f, O
    <2> QED BY <1>2, <1>3, <2>1, SumOnSet
  <1>6. \A table :
            /\ CashFlow(table, s.trades) = SumFunction(table) - SumFunction(g)
            /\ Organic(table, s.trades)
                 = SumFunctionOnSet(table, DOMAIN table \ ReconcileRows(table)) - SumFunction(f)
    BY <1>1 DEF CashFlow, Organic
  <1> HIDE DEF f, g
  <1> QED BY <1>4, <1>5, <1>6

\* The table after a reconciliation: no reconcile row, or one with the amount.
LEMMA TableSums ==
  ASSUME NEW V, IsTable(V), NEW N
  PROVE  LET rest == DOMAIN V \ ReconcileRows(V) IN
         /\ SumFunctionOnSet(V, rest) \in Int
         /\ DOMAIN N = rest /\ (\A x \in rest : N[x] = V[x]) =>
               SumFunction(N) = SumFunctionOnSet(V, rest)
         /\ \A R : R \notin rest /\ DOMAIN N = rest \cup {R} /\ N[R] \in Int /\ (\A x \in rest : N[x] = V[x]) =>
               SumFunction(N) = SumFunctionOnSet(V, rest) + N[R]
  <1> DEFINE rest == DOMAIN V \ ReconcileRows(V)
  <1>1. IsFiniteSet(rest) /\ \A x \in rest : V[x] \in Int
    BY FS_Subset DEF IsTable
  <1> HIDE DEF rest
  <1>2. SumFunctionOnSet(V, rest) \in Int
    BY <1>1, SumOnSet
  <1>3. ASSUME \A x \in rest : N[x] = V[x] PROVE SumFunctionOnSet(N, rest) = SumFunctionOnSet(V, rest)
    BY <1>1, <1>3, SumOnSet
  <1>4. ASSUME NEW R, R \notin rest, N[R] \in Int, \A x \in rest : N[x] = V[x]
        PROVE  SumFunctionOnSet(N, rest \cup {R}) = SumFunctionOnSet(V, rest) + N[R]
    <2>1. \A x \in rest : N[x] \in Int
      BY <1>1, <1>4
    <2>2. SumFunctionOnSet(N, rest \cup {R}) = SumFunctionOnSet(N, rest) + N[R]
      BY <1>1, <1>4, <2>1, SumWith
    <2> QED BY <1>3, <1>4, <2>2
  <1> QED BY <1>2, <1>3, <1>4 DEF SumFunction, rest

LEMMA WonBalanceType ==
  ASSUME log \in Seq(Event)
  PROVE  WonBalance \in Int
  <1> DEFINE W == Kind("won")
             O == Kind("order")
             f == [n \in W |-> Signed(log[n])]
             g == [n \in O |-> Signed(log[n]) * log[n].price + Fee]
  <1>1. IsFiniteSet(W) /\ IsFiniteSet(O) /\ W \subseteq DOMAIN log /\ O \subseteq DOMAIN log
    BY LogFacts, FS_Subset DEF Kind
  <1>2. \A n \in DOMAIN log : Signed(log[n]) \in Int /\ Signed(log[n]) * log[n].price + Fee \in Int
    BY LogFacts, ExchangeAssumption
  <1>3. WonBalance = SumFunctionOnSet(f, W) - SumFunctionOnSet(g, O)
    BY DEF WonBalance, SumFunction
  <1>4. (\A n \in W : f[n] \in Int) /\ (\A n \in O : g[n] \in Int)
    BY <1>1, <1>2
  <1>5. SumFunctionOnSet(f, W) \in Int /\ SumFunctionOnSet(g, O) \in Int
    <2> HIDE DEF f, g, W, O
    <2> QED BY <1>1, <1>4, SumOnSet
  <1> QED BY <1>3, <1>5

\* A session that waited for the reconcile row's external id is alone with it.
LEMMA NoClashNoRival ==
  ASSUME IInv, NEW r \in Slots, NEW rows, ~CashClash(r, rows), \E x \in rows : x[1] = "reconcile"
  PROVE  \A o \in Slots \ {r} : ~Reconciling(req[o])
  <1> SUFFICES ASSUME NEW o \in Slots \ {r}, Reconciling(req[o]) PROVE FALSE
    OBVIOUS
  <1>1. IsSession(req[o])
    BY DEF IInv
  <1>2. ~req[o].poisoned /\ req[o].phase # "parsed"
    BY <1>1 DEF IsSession, Reconciling
  <1>3. PICK x \in DOMAIN req[o].put \cup req[o].drop : x[1] = "reconcile"
    BY <1>1 DEF Reconciling, IsSession, ReconcileRows
  <1>4. <<"reconcile", 0>> \in ExtIds(DOMAIN req[o].put \cup req[o].drop)
    BY <1>3 DEF ExtIds
  <1>5. <<"reconcile", 0>> \in ExtIds(rows)
    BY DEF ExtIds
  <1> QED BY <1>2, <1>4, <1>5 DEF CashClash

\* What the row amounts to.
LEMMA OffType ==
  ASSUME NEW s, SyncRows(s), s.trades \subseteq Row, Upbit(s.trades) = s.trades,
         NEW V, IsTable(V), NEW krw \in Int
  PROVE  krw - Organic(V, s.trades) \in Int
  <1>1. PICK paid \in Int :
           Organic(V, s.trades) = SumFunctionOnSet(V, DOMAIN V \ ReconcileRows(V)) - paid
    BY SameTrades
  <1>2. SumFunctionOnSet(V, DOMAIN V \ ReconcileRows(V)) \in Int
    BY TableSums
  <1> QED BY <1>1, <1>2

LEMMA Reconciled ==
  ASSUME NEW s, SyncRows(s), s.trades \subseteq Row, Upbit(s.trades) = s.trades,
         NEW V, IsTable(V), NEW u, u.trades = s.trades, u.krw \in Int,
         NEW t, NEW N, N = Overlay(t, u),
         NEW delta, delta = Quantize(u.krw - Organic(V, s.trades)),
         NEW rest, rest = DOMAIN V \ ReconcileRows(V), \A x \in rest : N[x] = V[x]
  PROVE  /\ delta = 0 /\ DOMAIN N = rest => Pins(u, t)
         /\ \A R : R \notin rest /\ DOMAIN N = rest \cup {R} /\ N[R] = delta => Pins(u, t)
  <1> DEFINE organic == SumFunctionOnSet(V, rest)
             d == u.krw - Organic(V, s.trades)
  <1>1. PICK paid \in Int : \A table :
            /\ CashFlow(table, s.trades) = SumFunction(table) - paid
            /\ Organic(table, s.trades)
                 = SumFunctionOnSet(table, DOMAIN table \ ReconcileRows(table)) - paid
    BY SameTrades
  <1>2. Organic(V, s.trades) = organic - paid /\ CashFlow(N, u.trades) = SumFunction(N) - paid
    BY <1>1
  <1>3. organic \in Int
    BY TableSums
  <1>4. d \in Int
    BY OffType
  <1>5. delta \in Int /\ 2 * (delta - d) \in -UnitsPerWon .. UnitsPerWon
    BY <1>4, QuantizeError
  <1>6. ASSUME SumFunction(N) = organic + delta PROVE Pins(u, t)
    <2>1. CashFlow(N, u.trades) - u.krw = delta - d
      BY <1>2, <1>3, <1>5, <1>6
    <2> HIDE DEF d
    <2> QED BY <1>5, <2>1 DEF Pins
  <1>7. ASSUME delta = 0, DOMAIN N = rest PROVE Pins(u, t)
    <2>1. SumFunction(N) = organic
      BY <1>7, TableSums
    <2> HIDE DEF organic
    <2> QED BY <1>3, <1>6, <1>7, <2>1
  <1>8. ASSUME NEW R, R \notin rest, DOMAIN N = rest \cup {R}, N[R] = delta PROVE Pins(u, t)
    <2>1. SumFunction(N) = organic + N[R]
      BY <1>5, <1>8, TableSums
    <2> QED BY <1>6, <1>8, <2>1
  <1> QED BY <1>7, <1>8

LEMMA ReconcileInv ==
  ASSUME IInv, NEW r \in Slots, Reconcile(r)
  PROVE  IInv'
  <1> DEFINE s       == req[r]
             visible == Overlay(Seen(s), s)
             delta   == Quantize(WonBalance - Organic(visible, s.trades))
             t       == [s EXCEPT !.phase = "synced"]
             read    == [t EXCEPT !.snap = {Seen(s)}]
             seen    == ReconcileRows(Seen(s))
             row     == IF seen = {} THEN {<<"reconcile", s.no>>} ELSE seen
             pinned  == [read EXCEPT !.krw = WonBalance]
             dropped == [pinned EXCEPT !.drop = seen \cap DOMAIN cash]
             more    == Putting(s, [x \in row |-> delta])
             put     == [pinned EXCEPT !.put = more]
             rest    == DOMAIN visible \ ReconcileRows(visible)
  <1>1. /\ IsSession(s) /\ s.phase = "cashed" /\ log \in Seq(Event)
        /\ IsTable(cash) /\ IsTable(Seen(s))
    BY SeenTable DEF Reconcile, IInv, TypeOK
  <1>2. /\ s.krw = NoKrw /\ s.drop = {} /\ ReconcileRows(s.put) = {} /\ IsTable(s.put)
        /\ SyncRows(s) /\ s.trades \subseteq Row /\ Upbit(s.trades) = s.trades /\ DOMAIN s = DOMAIN Idle
    BY <1>1 DEF IsSession, Synced, IsRequest
  <1>3. \/ Step(r, t)
        \/ ~s.poisoned /\ delta = 0 /\ ~CashClash(r, seen \cap DOMAIN cash) /\ Step(r, dropped)
        \/ ~s.poisoned /\ delta # 0 /\ ~CashClash(r, row) /\ seen = ReconcileRows(cash) /\ Step(r, put)
        \/ Step(r, Poison(read))
    BY DEF Reconcile
  <1>4. /\ IsTable(visible) /\ ReconcileRows(visible) = seen
        /\ DOMAIN visible = DOMAIN Seen(s) \cup DOMAIN s.put
    <2>1. IsTable(visible)
      BY <1>1, <1>2, OverlayIsTable
    <2>2. ReconcileRows(visible) = (seen \cup ReconcileRows(s.put)) \ s.drop
      BY OverlayRows
    <2>3. DOMAIN visible = (DOMAIN Seen(s) \cup DOMAIN s.put) \ s.drop
      BY OverlayRows
    <2> HIDE DEF visible
    <2> QED BY <1>2, <2>1, <2>2, <2>3
  <1>5. WonBalance \in Int
    BY <1>1, WonBalanceType
  <1>6. CASE Step(r, t)
    <2>1. /\ t.phase = "synced" /\ DOMAIN t = DOMAIN Idle /\ t.no = s.no /\ t.history = s.history
          /\ t.trades = s.trades /\ t.held = s.held /\ t.snap = s.snap /\ t.put = s.put
          /\ t.drop = {} /\ t.krw = NoKrw /\ t.poisoned = s.poisoned
      BY <1>2 DEF Idle
    <2> HIDE DEF t
    <2>2. FitsReconcile(r, t) /\ FitsTable(t)
      BY <1>2, <2>1 DEF FitsReconcile, FitsTable, Reconciling
    <2> QED BY <1>1, <1>2, <1>6, <2>1, <2>2, CashStepInv
  <1>7. CASE Step(r, Poison(read))
    <2> DEFINE u == Poison(read)
    <2>1. /\ u.phase = "synced" /\ DOMAIN u = DOMAIN Idle /\ u.no = s.no /\ u.history = s.history
          /\ u.trades = s.trades /\ u.held = s.held /\ u.snap = {Seen(s)} /\ u.put = s.put
          /\ u.drop = {} /\ u.poisoned
      BY <1>2 DEF Idle, Poison
    <2> HIDE DEF u
    <2>2. FitsReconcile(r, u) /\ FitsTable(u)
      BY <2>1 DEF FitsReconcile, FitsTable, Reconciling
    <2>3. Step(r, u)
      BY <1>7 DEF u
    <2> QED BY <1>1, <1>2, <2>1, <2>2, <2>3, CashStepInv
  <1>8. CASE ~s.poisoned /\ delta = 0 /\ ~CashClash(r, seen \cap DOMAIN cash) /\ Step(r, dropped)
    <2> DEFINE u == dropped
               N == Overlay(Seen(s), u)
    <2>1. /\ u.phase = "synced" /\ DOMAIN u = DOMAIN Idle /\ u.no = s.no /\ u.history = s.history
          /\ u.trades = s.trades /\ u.held = s.held /\ u.snap = {Seen(s)} /\ u.put = s.put
          /\ u.drop = seen \cap DOMAIN cash /\ u.krw = WonBalance
      BY <1>2 DEF Idle
    <2>2. \A x \in seen : x[1] = "reconcile" /\ x \in CashIds
      BY <1>1 DEF ReconcileRows, IsTable
    <2> HIDE DEF seen, visible, dropped
    <2>3. FitsReconcile(r, u)
      <3> SUFFICES ASSUME Reconciling(u) PROVE \A o \in Slots \ {r} : ~Reconciling(req[o])
        BY <1>2, <2>1 DEF FitsReconcile
      <3>1. PICK x \in seen \cap DOMAIN cash : x[1] = "reconcile"
        BY <1>2, <2>1, <2>2 DEF Reconciling
      <3> QED BY <1>8, <3>1, NoClashNoRival
    <2>4. ASSUME seen \subseteq DOMAIN cash PROVE Pins(u, Seen(s))
      <3>1. u.drop = seen
        BY <2>1, <2>4
      <3>2. DOMAIN N = rest
        <4>1. DOMAIN N = (DOMAIN Seen(s) \cup DOMAIN u.put) \ u.drop
          BY OverlayRows
        <4> QED BY <1>4, <2>1, <3>1, <4>1
      <3>3. \A x \in rest : N[x] = visible[x]
        BY <1>4, <2>1, <3>2, OverlayValues DEF visible
      <3>4. /\ N = Overlay(Seen(s), u) /\ rest = DOMAIN visible \ ReconcileRows(visible)
            /\ delta = Quantize(u.krw - Organic(visible, s.trades)) /\ u.krw \in Int
        BY <1>5, <2>1
      <3> HIDE DEF N, delta, rest, u
      <3> QED BY <1>2, <1>4, <1>8, <2>1, <3>2, <3>3, <3>4, Reconciled
    <2>5. FitsTable(u)
      BY <2>1, <2>4 DEF FitsTable, seen
    <2>6. Step(r, u)
      BY <1>8 DEF dropped
    <2> HIDE DEF u
    <2> QED BY <1>1, <1>2, <1>8, <2>1, <2>2, <2>3, <2>5, <2>6, CashStepInv
  <1>9. CASE ~s.poisoned /\ delta # 0 /\ ~CashClash(r, row) /\ seen = ReconcileRows(cash) /\ Step(r, put)
    <2> DEFINE u == put
               N == Overlay(Seen(s), u)
    <2>1. /\ u.phase = "synced" /\ DOMAIN u = DOMAIN Idle /\ u.no = s.no /\ u.history = s.history
          /\ u.trades = s.trades /\ u.held = s.held /\ u.snap = {Seen(s)} /\ u.put = more
          /\ u.drop = {} /\ u.krw = WonBalance
      BY <1>2 DEF Idle
    <2>2. PICK R : row = {R}
      <3>1. \A x, y \in seen : x = y
        BY <1>9 DEF IInv, TypeOK
      <3> QED BY <3>1
    <2>3. R = <<"reconcile", s.no>> \/ R \in DOMAIN cash
      BY <1>9, <2>2 DEF ReconcileRows
    <2>4. R \in CashIds /\ R[1] = "reconcile" /\ seen \subseteq {R}
      <3>1. s.no \in Nat
        BY <1>1, UpbitSyncAssumption DEF IsSession, IsRequest
      <3>2. <<"reconcile", s.no>> \in CashIds
        BY <3>1 DEF CashIds
      <3> QED BY <1>1, <1>9, <2>2, <3>2 DEF ReconcileRows, IsTable
    <2>5. delta \in Int
      <3>1. WonBalance - Organic(visible, s.trades) \in Int
        <4> HIDE DEF visible
        <4> QED BY <1>2, <1>4, <1>5, OffType
      <3> QED BY <3>1, QuantizeError
    <2> HIDE DEF seen, visible, put, delta, row
    <2>6. /\ DOMAIN more = DOMAIN s.put \cup {R} /\ more[R] = delta
          /\ \A x \in DOMAIN s.put : x # R => more[x] = s.put[x]
          /\ IsTable(more) /\ ReconcileRows(more) = {R}
      <3> DEFINE one == [x \in row |-> delta]
                 add == [put |-> one, drop |-> {}]
      <3>1. IsTable(one)
        BY <1>9, <2>2, <2>4, <2>5, FS_Singleton DEF IsTable
      <3>2. DOMAIN one = {R} /\ one[R] = delta /\ ReconcileRows(one) = {R}
        BY <2>2, <2>4 DEF ReconcileRows
      <3> HIDE DEF one
      <3>3. add.put = one /\ add.drop = {} /\ more = Overlay(s.put, add)
        BY DEF Putting, one
      <3> HIDE DEF add, more
      <3>4. IsTable(more)
        BY <1>2, <3>1, <3>3, OverlayIsTable
      <3>5. DOMAIN more = DOMAIN s.put \cup {R}
        <4>1. DOMAIN Overlay(s.put, add) = (DOMAIN s.put \cup DOMAIN add.put) \ add.drop
          BY OverlayRows
        <4> QED BY <3>2, <3>3, <4>1
      <3>6. ReconcileRows(more) = {R}
        BY <1>2, <3>2, <3>3, OverlayRows
      <3>7. more[R] = delta /\ \A x \in DOMAIN s.put : x # R => more[x] = s.put[x]
        BY <3>2, <3>3, <3>5, OverlayValues
      <3> QED BY <3>4, <3>5, <3>6, <3>7
    <2> HIDE DEF more
    <2>7. FitsReconcile(r, u)
      <3>1. \A o \in Slots \ {r} : ~Reconciling(req[o])
        BY <1>9, <2>2, <2>4, NoClashNoRival
      <3> QED BY <1>9, <2>1, <2>3, <2>4, <2>6, <3>1 DEF FitsReconcile
    <2>8. Pins(u, Seen(s))
      <3>1. R \notin rest
        BY <1>4, <2>2, <2>4 DEF rest, ReconcileRows
      <3>2. DOMAIN N = rest \cup {R}
        <4>1. DOMAIN N = (DOMAIN Seen(s) \cup DOMAIN u.put) \ u.drop
          BY OverlayRows
        <4> QED BY <1>4, <2>1, <2>4, <2>6, <4>1
      <3>3. N[R] = delta
        BY <2>1, <2>6, <3>2, OverlayValues
      <3>4. \A x \in rest : N[x] = visible[x]
        <4> SUFFICES ASSUME NEW x \in rest PROVE N[x] = visible[x]
          OBVIOUS
        <4>1. x # R /\ x \in DOMAIN N /\ x \in DOMAIN visible
          BY <3>1, <3>2
        <4>2. CASE x \in DOMAIN s.put
          BY <2>1, <2>6, <4>1, <4>2, OverlayValues DEF visible
        <4>3. CASE x \notin DOMAIN s.put
          BY <2>1, <2>6, <4>1, <4>3, OverlayValues DEF visible
        <4> QED BY <4>2, <4>3
      <3>5. /\ N = Overlay(Seen(s), u) /\ rest = DOMAIN visible \ ReconcileRows(visible)
            /\ delta = Quantize(u.krw - Organic(visible, s.trades)) /\ u.krw \in Int
        BY <1>5, <2>1 DEF delta
      <3> HIDE DEF N, rest, u
      <3> QED BY <1>2, <1>4, <2>1, <3>1, <3>2, <3>3, <3>4, <3>5, Reconciled
    <2>9. FitsTable(u)
      BY <2>1, <2>8 DEF FitsTable
    <2>10. Step(r, u)
      BY <1>9 DEF put
    <2> HIDE DEF u
    <2> QED BY <1>1, <1>2, <1>9, <2>1, <2>6, <2>7, <2>9, <2>10, CashStepInv
  <1> QED BY <1>3, <1>6, <1>7, <1>8, <1>9

-----------------------------------------------------------------------------
(***************************************************************************)
(* The statement.                                                          *)
(***************************************************************************)
LEMMA FileRowsFacts ==
  ASSUME log \in Seq(Event), NEW period, period \subseteq DOMAIN log
  PROVE  /\ FileRows(period) \subseteq Row /\ Unique(FileRows(period))
         /\ \A x \in FileRows(period) : x.ext[1] # "manual"
  <1>1. ASSUME NEW n \in period, log[n].kind \in {"order", "transfer"},
               NEW ext \in {"pdfTrade", "pdfTransfer"}, NEW fee \in Nat
        PROVE  Tx(n, ext, fee) \in Row /\ Tx(n, ext, fee).ext = <<ext, n>>
    <2>1. n \in DOMAIN log /\ n \in Nat /\ 2 * n \in Nat
      BY LogFacts
    <2> QED BY <1>1, <2>1, LogFacts DEF Tx, Row
  <1>2. \A x \in FileRows(period) : \E n \in period :
           \/ log[n].kind = "order" /\ x = Tx(n, "pdfTrade", Fee)
           \/ log[n].kind = "transfer" /\ x = Tx(n, "pdfTransfer", 0)
    BY DEF FileRows, Kind
  <1>3. \A x \in FileRows(period) : \E n \in period :
           /\ x \in Row
           /\ \/ x = Tx(n, "pdfTrade", Fee) /\ x.ext = <<"pdfTrade", n>>
              \/ x = Tx(n, "pdfTransfer", 0) /\ x.ext = <<"pdfTransfer", n>>
    BY <1>1, <1>2, ExchangeAssumption
  <1> QED BY <1>3 DEF Unique, Key

LEMMA OpenFileInv ==
  ASSUME IInv, NEW r \in Slots, OpenFile(r)
  PROVE  IInv'
  <1>1. log \in Seq(Event) /\ served \in 0 .. MaxServed /\ served < MaxServed /\ IsTable(cash)
    BY DEF OpenFile, IInv, TypeOK
  <1>2. PICK first \in 1 .. Len(log) :
          LET period == first .. Len(log)
              trades == {x \in FileRows(period) : <<x.ext, x.asset>> \notin Ids(txs)}
              money  == {<<"pdfCash", n>> : n \in period \cap Kind("won")} \ DOMAIN cash
          IN  req' = [req EXCEPT ![r] =
                        [Idle EXCEPT !.phase = "parsed", !.no = served + 1,
                                     !.trades = trades, !.snap = {cash},
                                     !.put = [x \in money |-> Signed(log[x[2]])]]]
    BY DEF OpenFile
  <1> DEFINE period == first .. Len(log)
             trades == {x \in FileRows(period) : <<x.ext, x.asset>> \notin Ids(txs)}
             money  == {<<"pdfCash", n>> : n \in period \cap Kind("won")} \ DOMAIN cash
             put    == [x \in money |-> Signed(log[x[2]])]
             t      == [Idle EXCEPT !.phase = "parsed", !.no = served + 1, !.trades = trades,
                                    !.snap = {cash}, !.put = put]
  <1>3. trades \subseteq Row /\ Upbit(trades) = trades /\ Unique(trades)
    <2>1. period \subseteq DOMAIN log
      BY <1>1
    <2> HIDE DEF period
    <2>2. FileRows(period) \subseteq Row /\ Unique(FileRows(period))
      BY <1>1, <2>1, FileRowsFacts
    <2>3. \A x \in FileRows(period) : x.ext[1] # "manual"
      BY <1>1, <2>1, FileRowsFacts
    <2> QED BY <2>2, <2>3 DEF Unique, Upbit
  <1>4. IsTable(put) /\ ReconcileRows(put) = {}
    <2>1. money \subseteq {<<"pdfCash", n>> : n \in Kind("won")}
      OBVIOUS
    <2> HIDE DEF money
    <2> QED BY <1>1, <2>1, MoneyRows
  <1>5. served' = served + 1 /\ UnchangedTables
    BY DEF OpenFile
  <1>6. req' = [req EXCEPT ![r] = t]
    BY <1>2
  <1> HIDE DEF trades, put
  <1>7. /\ t.phase = "parsed" /\ t.no = served + 1 /\ t.history = {} /\ DOMAIN t = DOMAIN Idle
        /\ t.trades = trades /\ t.snap = {cash} /\ t.put = put /\ t.drop = {} /\ t.krw = NoKrw
        /\ t.poisoned = FALSE
    BY DEF Idle
  <1> HIDE DEF t
  <1>8. IsSession(t)
    <2>1. t.no \in 0 .. MaxServed
      BY <1>1, <1>7, UpbitSyncAssumption
    <2> QED BY <1>1, <1>3, <1>4, <1>7, <2>1 DEF IsSession, IsRequest, Synced, IsTable
  <1>9. FitsLocks(r, t) /\ FitsReconcile(r, t) /\ FitsTable(t) /\ FitsNumber(r, t)
    BY <1>1, <1>4, <1>5, <1>7 DEF FitsLocks, FitsReconcile, FitsTable, FitsNumber, Ranged, Reconciling
  <1> QED BY <1>5, <1>6, <1>7, <1>8, <1>9, StepInv

LEMMA IdsApart ==
  ASSUME NEW S, NEW T, Upbit(S) = S, Ids(S) \cap Ids(T) = {}
  PROVE  Disjoint(S, Upbit(T))
  BY DEF Ids, Disjoint, Key

LEMMA WriteFileInv ==
  ASSUME IInv, NEW r \in Slots, WriteFile(r)
  PROVE  IInv'
  <1> DEFINE s == req[r]
             t == [s EXCEPT !.phase = "imported"]
  <1>1. /\ IsSession(s) /\ s.phase = "parsed" /\ s.history \subseteq Kind("order")
        /\ s.trades # {} => \A o \in Slots \ {r} : ~Ranged(req[o])
        /\ ~ImportClash(r, s.trades)
        /\ \/ Ids(s.trades) \cap Ids(txs) = {} /\ Step(r, t)
           \/ Step(r, Idle)
    BY DEF WriteFile, IInv, TypeOK
  <1>2. CASE Step(r, Idle)
    BY <1>2, StepInv, IdleSession, IdleFits DEF Step, FitsNumber
  <1>3. CASE Ids(s.trades) \cap Ids(txs) = {} /\ Step(r, t)
    <2>1. /\ t.phase = "imported" /\ DOMAIN t = DOMAIN Idle /\ t.no = s.no /\ t.history = s.history
          /\ t.trades = s.trades /\ t.held = s.held /\ t.snap = s.snap /\ t.put = s.put
          /\ t.drop = s.drop /\ t.krw = s.krw /\ t.poisoned = s.poisoned
      BY <1>1 DEF IsSession, IsRequest, Idle
    <2> HIDE DEF t
    <2>2. IsSession(t)
      BY <1>1, <2>1 DEF IsSession, IsRequest, Synced
    <2>3. Disjoint(s.trades, Upbit(txs))
      BY <1>1, <1>3, IdsApart DEF IsSession
    <2>4. ASSUME NEW o \in Slots \ {r}, req[o].phase = "imported"
          PROVE  Disjoint(s.trades, req[o].trades)
      <3>1. Ids(s.trades) \cap Ids(req[o].trades) = {}
        BY <1>1, <2>4 DEF ImportClash
      <3>2. Upbit(req[o].trades) = req[o].trades /\ Upbit(s.trades) = s.trades
        BY <1>1 DEF IInv, IsSession
      <3>3. Disjoint(s.trades, Upbit(req[o].trades))
        BY <3>1, <3>2, IdsApart
      <3> QED BY <3>2, <3>3
    <2>5. FitsLocks(r, t)
      BY <1>1, <2>1, <2>3, <2>4 DEF FitsLocks, Ranged
    <2>6. FitsReconcile(r, t) /\ FitsTable(t) /\ FitsNumber(r, t)
      BY <1>1, <1>3, <2>1 DEF FitsReconcile, FitsTable, FitsNumber, Reconciling, IsSession, Step
    <2> QED BY <1>1, <1>3, <2>1, <2>2, <2>5, <2>6, StepInv DEF Step
  <1> QED BY <1>1, <1>2, <1>3

-----------------------------------------------------------------------------
LEMMA NextInv == IInv /\ [Next]_vars => IInv'
  <1> SUFFICES ASSUME IInv, [Next]_vars PROVE IInv'
    OBVIOUS
  <1>1. CASE Happens /\ UNCHANGED <<txs, cash, assets, req, served>>
    BY <1>1, HappensInv
  <1>2. CASE AddTyped
    BY <1>2, AddTypedInv
  <1>3. ASSUME NEW r \in Slots, Sync(r) \/ Import(r) \/ Commit(r) \/ Abort(r)
        PROVE  IInv'
    BY <1>3, FetchOrdersInv, FetchBalancesInv, ReplaceInv, UpsertCashInv, ReconcileInv,
       OpenFileInv, WriteFileInv, CommitInv, AbortInv DEF Sync, Import
  <1>4. CASE UNCHANGED vars
    BY <1>4, StutterInv
  <1> QED BY <1>1, <1>2, <1>3, <1>4 DEF Next

THEOREM Invariance == Spec => []IInv
  <1>1. Init => IInv
    BY InitInv
  <1>2. IInv /\ [Next]_vars => IInv'
    BY NextInv
  <1> QED BY <1>1, <1>2, PTL DEF Spec

\* External ids stay unique in both tables, however many syncs and imports
\* overlap: the unique keys are never what a commit runs into.
THEOREM TypeCorrect == Spec => []TypeOK
  <1>1. IInv => TypeOK
    BY DEF IInv
  <1> QED BY <1>1, Invariance, PTL

LEMMA CommitOf ==
  ASSUME NEW r \in Slots, Commit(r)
  PROVE  /\ req[r].phase \in {"synced", "imported"}
         /\ req[r].poisoned => txs' = txs
         /\ ~req[r].poisoned => txs' = CommitRows(req[r]) /\ cash' = Overlay(cash, req[r])
  BY DEF Commit

\* replace_trades and import_records: "user-entered transactions are NOT
\* touched".
THEOREM ManualKept == Spec => ManualRowsKept
  <1> DEFINE A == \A r \in Slots : Commit(r) => Manual(txs') = Manual(txs)
  <1>1. IInv => A
    BY CommitOf, CommittedRows
  <1>2. IInv /\ [Next]_vars => [A]_vars
    BY <1>1
  <1> QED BY <1>2, Invariance, PTL DEF ManualRowsKept, Spec

\* replace_trades after fetch_trades: holdings that match the balance read,
\* whatever part of the order history was fetched.
THEOREM HoldingsMatch == Spec => HoldingsAsRead
  <1> DEFINE A == \A r \in Slots : SyncCommits(r) =>
                     \A c \in DOMAIN req[r].held :
                        NetQty({x \in Upbit(txs') : x.asset = c}) = req[r].held[c]
  <1>1. ASSUME IInv, NEW r \in Slots, SyncCommits(r), NEW c \in DOMAIN req[r].held
        PROVE  NetQty({x \in Upbit(txs') : x.asset = c}) = req[r].held[c]
    <2>1. Upbit(txs') = req[r].trades
      BY <1>1, CommitOf, CommittedRows DEF SyncCommits
    <2>2. SyncRows(req[r])
      BY <1>1 DEF IInv, IsSession, Synced, SyncCommits
    <2> QED BY <1>1, <2>1, <2>2 DEF SyncRows
  <1>2. IInv /\ [Next]_vars => [A]_vars
    BY <1>1
  <1> QED BY <1>2, Invariance, PTL DEF HoldingsAsRead, Spec

\* reconcile_cash_balance: the derived balance is the one read, to half a
\* won, unless the table it was measured on changed before the commit.
THEOREM CashIsPinned == Spec => CashPinned
  <1> DEFINE A == \A r \in Slots : SyncCommits(r) /\ req[r].krw # NoKrw /\ req[r].snap = {cash} =>
                     LET off == CashFlow(cash', txs') - req[r].krw
                     IN  2 * off \in -UnitsPerWon .. UnitsPerWon
  <1>1. ASSUME IInv, NEW r \in Slots, SyncCommits(r), req[r].krw # NoKrw, req[r].snap = {cash}
        PROVE  LET off == CashFlow(cash', txs') - req[r].krw
               IN  2 * off \in -UnitsPerWon .. UnitsPerWon
    <2>1. /\ Upbit(txs') = req[r].trades /\ Upbit(req[r].trades) = req[r].trades
          /\ cash' = Overlay(cash, req[r])
      BY <1>1, CommitOf, CommittedRows DEF SyncCommits, IInv, IsSession
    <2>2. CashFlow(cash', txs') = CashFlow(Overlay(cash, req[r]), req[r].trades)
      BY <2>1 DEF CashFlow
    <2>3. Pins(req[r], cash)
      <3>1. ReconcileRows(cash) \ DOMAIN cash = {}
        BY DEF ReconcileRows
      <3> QED BY <1>1, <3>1 DEF IInv, Pinned, SyncCommits
    <2> QED BY <2>2, <2>3 DEF Pins
  <1>2. IInv /\ [Next]_vars => [A]_vars
    BY <1>1
  <1> QED BY <1>2, Invariance, PTL DEF CashPinned, Spec
=============================================================================
