--------------------------- MODULE Outbox_proofs ---------------------------
(***************************************************************************)
(* For any number of kinds, publishers, readers and rows, any batch size   *)
(* and whatever the clocks read: publishers never wait for each other in a *)
(* ring, snapshots only move forward, a published change is stored, and no *)
(* step of the outbox, its publishers and its readers breaks what          *)
(* MonotoneConfig promises (that copies settle is left to TLC).            *)
(***************************************************************************)
EXTENDS Outbox, SequenceTheorems, TLAPS

\* A kind is locked by one publisher at a time, each of which locks upwards
\* and rewrites nothing before it has every lock.
Locking ==
    /\ \A p, q \in Publishers : p # q => pub[p].locked \intersect pub[q].locked = {}
    /\ \A p \in Publishers :
         /\ \A k \in pub[p].locked, j \in pub[p].toLock : k < j
         /\ pub[p].toRewrite \subseteq pub[p].toLock \union pub[p].locked
         /\ pub[p].pc # "lock" => pub[p].toLock = {}

\* A row's change is committed, and so is a stored snapshot's.
Committed ==
    /\ \A i \in DOMAIN rows : rows[i].kind # Other => rows[i].value <= table[rows[i].kind]
    /\ \A k \in Kinds : store[k].value <= table[k]

\* The items a transaction holds are of a kind it has locked, and none older than the
\* stored ones.
HoldsItems(tx) ==
    tx.pc = "put" =>
        /\ tx.kind \in tx.locked
        /\ store[tx.kind].value <= tx.items /\ tx.items <= table[tx.kind]

\* What a transaction claimed is still to be read, in its hands, or stored.
Carries(tx) ==
    \A i \in tx.claimed :
        \/ rows[i].kind = Other
        \/ tx.pc \in {"lock", "read", "put"} /\ rows[i].kind \in tx.toRewrite
        \/ tx.pc = "put" /\ rows[i].kind = tx.kind /\ rows[i].value <= tx.items
        \/ rows[i].value <= store[rows[i].kind].value

Rewriting == \A p \in Publishers : HoldsItems(pub[p]) /\ Carries(pub[p])

\* The documents of a kind there are: stored, read, or served.
Held(k) ==
    {store[k]} \union {copy[r][k] : r \in Readers}
      \union {load[l].doc : l \in {m \in Loaders : load[m].kind = k}}

\* Their versions are in the order of their values, the stored one first.
Coherent ==
    \A k \in Kinds : \A d \in Held(k) :
        /\ d.version <= store[k].version
        /\ \A e \in Held(k) : d.version <= e.version => d.value <= e.value

\* What a publisher's transaction becomes in each of its steps.
ClaimTx == [Idle EXCEPT !.pc = AfterLocks(KindsOf(BatchOf)), !.claimed = BatchOf,
                        !.toLock = KindsOf(BatchOf), !.toRewrite = KindsOf(BatchOf)]
StartTx == [Idle EXCEPT !.pc = AfterLocks(Kinds), !.toLock = Kinds, !.toRewrite = Kinds]
LockTx(p, k) == [pub[p] EXCEPT !.toLock = @ \ {k}, !.locked = @ \union {k},
                               !.pc = AfterLocks(pub[p].toLock \ {k})]
ReadTx(p, k) == [pub[p] EXCEPT !.toRewrite = @ \ {k}, !.kind = k, !.items = table[k], !.pc = "put"]
PutTx(p) == [pub[p] EXCEPT !.kind = Other, !.items = 0, !.pc = "read"]
SendTx(p) == [pub[p] EXCEPT !.pc = "commit"]

----------------------------------------------------------------------------
(* Types. *)

\* A sequence of rows is a function from a range of numbers.
LEMMA RowsAre ==
    ASSUME TypeOK
    PROVE  /\ Len(rows) \in Nat /\ DOMAIN rows = 1 .. Len(rows)
           /\ \A i \in DOMAIN rows : rows[i] \in Row
  BY DEF TypeOK

\* A publisher's step changes its own transaction.
LEMMA OneBecomes ==
    ASSUME TypeOK, NEW p \in Publishers, NEW tx \in Tx, Becomes(p, tx)
    PROVE  /\ pub' \in [Publishers -> Tx] /\ pub'[p] = tx
           /\ \A q \in Publishers : q # p => pub'[q] = pub[q]
  BY DEF TypeOK, Becomes

\* Appending a row leaves the others where they are.
LEMMA OneAppended ==
    ASSUME TypeOK, NEW row \in Row, rows' = Append(rows, row)
    PROVE  /\ rows' \in Seq(Row) /\ DOMAIN rows \subseteq DOMAIN rows'
           /\ \A i \in DOMAIN rows' : i \in DOMAIN rows \/ rows'[i] = row
           /\ \A i \in DOMAIN rows : rows'[i] = rows[i]
  <1>1. /\ rows' \in Seq(Row) /\ Len(rows') = Len(rows) + 1
        /\ DOMAIN rows' = 1 .. Len(rows) + 1
        /\ \A i \in 1 .. Len(rows) : rows'[i] = rows[i]
        /\ rows'[Len(rows) + 1] = row
    BY RowsAre DEF TypeOK
  <1> QED
    BY <1>1, RowsAre

\* Rewriting rows in place gives a sequence of as many.
LEMMA RowsRewritten ==
    ASSUME TypeOK, NEW f, f \in [DOMAIN rows -> Row], rows' = f
    PROVE  rows' \in Seq(Row) /\ DOMAIN rows' = DOMAIN rows
  <1>1. Len(rows) \in Nat /\ f \in [1 .. Len(rows) -> Row]
    BY RowsAre
  <1>2. f \in Seq(Row)
    BY <1>1, SeqDef
  <1> QED
    BY <1>2

\* A new row's type.
LEMMA QueuedType ==
    ASSUME NEW k \in Kinds \union {Other}, NEW v \in Nat, NEW b \in BOOLEAN
    PROVE  Queued(k, v, b) \in Row
  BY DEF Queued, Row

\* What a publisher claims are rows of the outbox, and their kinds are kinds.
LEMMA Claimed ==
    ASSUME TypeOK
    PROVE  /\ BatchOf \subseteq DOMAIN rows
           /\ \A ids \in SUBSET DOMAIN rows : KindsOf(ids) \subseteq Kinds
  <1>1. BatchOf \subseteq DOMAIN rows
    BY DEF BatchOf
  <1>2. \A ids \in SUBSET DOMAIN rows : KindsOf(ids) \subseteq Kinds
    BY RowsAre DEF KindsOf, Row
  <1> QED
    BY <1>1, <1>2

\* The version that is given grows, and is a number.
LEMMA NextVersionGrows ==
    ASSUME NEW old \in Nat, NEW t \in Nat
    PROVE  NextVersion(old, t) \in Nat /\ NextVersion(old, t) > old
  BY DEF NextVersion

\* Field by field.
LEMMA TxFields ==
    ASSUME TypeOK, NEW p \in Publishers
    PROVE  /\ ClaimTx.pc = AfterLocks(KindsOf(BatchOf)) /\ ClaimTx.claimed = BatchOf
           /\ ClaimTx.toLock = KindsOf(BatchOf) /\ ClaimTx.locked = {}
           /\ ClaimTx.toRewrite = KindsOf(BatchOf)
           /\ StartTx.pc = AfterLocks(Kinds) /\ StartTx.claimed = {}
           /\ StartTx.toLock = Kinds /\ StartTx.locked = {} /\ StartTx.toRewrite = Kinds
           /\ Idle.pc = "idle" /\ Idle.claimed = {} /\ Idle.toLock = {} /\ Idle.locked = {}
           /\ Idle.toRewrite = {}
           /\ \A k \in Kinds :
                /\ LockTx(p, k).pc = AfterLocks(pub[p].toLock \ {k})
                /\ LockTx(p, k).claimed = pub[p].claimed
                /\ LockTx(p, k).toLock = pub[p].toLock \ {k}
                /\ LockTx(p, k).locked = pub[p].locked \union {k}
                /\ LockTx(p, k).toRewrite = pub[p].toRewrite
           /\ \A k \in Kinds :
                /\ ReadTx(p, k).pc = "put" /\ ReadTx(p, k).claimed = pub[p].claimed
                /\ ReadTx(p, k).toLock = pub[p].toLock /\ ReadTx(p, k).locked = pub[p].locked
                /\ ReadTx(p, k).toRewrite = pub[p].toRewrite \ {k}
                /\ ReadTx(p, k).kind = k /\ ReadTx(p, k).items = table[k]
           /\ PutTx(p).pc = "read" /\ PutTx(p).claimed = pub[p].claimed
           /\ PutTx(p).toLock = pub[p].toLock /\ PutTx(p).locked = pub[p].locked
           /\ PutTx(p).toRewrite = pub[p].toRewrite
           /\ SendTx(p).pc = "commit" /\ SendTx(p).claimed = pub[p].claimed
           /\ SendTx(p).toLock = pub[p].toLock /\ SendTx(p).locked = pub[p].locked
           /\ SendTx(p).toRewrite = pub[p].toRewrite
  <1>1. pub[p] \in Tx
    BY DEF TypeOK
  <1>2. /\ ClaimTx.pc = AfterLocks(KindsOf(BatchOf)) /\ ClaimTx.claimed = BatchOf
        /\ ClaimTx.toLock = KindsOf(BatchOf) /\ ClaimTx.locked = {}
        /\ ClaimTx.toRewrite = KindsOf(BatchOf)
    BY DEF ClaimTx, Idle
  <1>3. /\ StartTx.pc = AfterLocks(Kinds) /\ StartTx.claimed = {}
        /\ StartTx.toLock = Kinds /\ StartTx.locked = {} /\ StartTx.toRewrite = Kinds
    BY DEF StartTx, Idle
  <1>4. /\ Idle.pc = "idle" /\ Idle.claimed = {} /\ Idle.toLock = {} /\ Idle.locked = {}
        /\ Idle.toRewrite = {}
    BY DEF Idle
  <1>5. ASSUME NEW k \in Kinds
        PROVE  /\ LockTx(p, k).pc = AfterLocks(pub[p].toLock \ {k})
               /\ LockTx(p, k).claimed = pub[p].claimed
               /\ LockTx(p, k).toLock = pub[p].toLock \ {k}
               /\ LockTx(p, k).locked = pub[p].locked \union {k}
               /\ LockTx(p, k).toRewrite = pub[p].toRewrite
    BY <1>1 DEF LockTx, Tx
  <1>6. ASSUME NEW k \in Kinds
        PROVE  /\ ReadTx(p, k).pc = "put" /\ ReadTx(p, k).claimed = pub[p].claimed
               /\ ReadTx(p, k).toLock = pub[p].toLock /\ ReadTx(p, k).locked = pub[p].locked
               /\ ReadTx(p, k).toRewrite = pub[p].toRewrite \ {k}
               /\ ReadTx(p, k).kind = k /\ ReadTx(p, k).items = table[k]
    BY <1>1 DEF ReadTx, Tx
  <1>7. /\ PutTx(p).pc = "read" /\ PutTx(p).claimed = pub[p].claimed
        /\ PutTx(p).toLock = pub[p].toLock /\ PutTx(p).locked = pub[p].locked
        /\ PutTx(p).toRewrite = pub[p].toRewrite
    BY <1>1 DEF PutTx, Tx
  <1>8. /\ SendTx(p).pc = "commit" /\ SendTx(p).claimed = pub[p].claimed
        /\ SendTx(p).toLock = pub[p].toLock /\ SendTx(p).locked = pub[p].locked
        /\ SendTx(p).toRewrite = pub[p].toRewrite
    BY <1>1 DEF SendTx, Tx
  <1> QED
    BY <1>2, <1>3, <1>4, <1>5, <1>6, <1>7, <1>8

\* A transaction stays one through each step.
LEMMA TxTypes ==
    ASSUME TypeOK, NEW p \in Publishers
    PROVE  /\ Idle \in Tx /\ ClaimTx \in Tx /\ StartTx \in Tx /\ PutTx(p) \in Tx /\ SendTx(p) \in Tx
           /\ \A k \in Kinds : LockTx(p, k) \in Tx /\ ReadTx(p, k) \in Tx
  <1>1. Idle \in Tx
    BY DEF Idle, Tx
  <1>2. pub[p] \in Tx /\ \A k \in Kinds : table[k] \in Nat
    BY DEF TypeOK
  <1>3. \A kinds \in SUBSET Kinds : AfterLocks(kinds) \in {"lock", "read"}
    BY DEF AfterLocks
  <1>4. BatchOf \in SUBSET Nat /\ KindsOf(BatchOf) \in SUBSET Kinds
    <2>1. DOMAIN rows \subseteq Nat /\ BatchOf \in SUBSET DOMAIN rows
      BY RowsAre, Claimed
    <2> QED
      BY <2>1, Claimed
  <1>5. ClaimTx \in Tx
    BY <1>3, <1>4 DEF ClaimTx, Idle, Tx
  <1>6. StartTx \in Tx
    BY <1>3 DEF StartTx, Idle, Tx
  <1>7. ASSUME NEW k \in Kinds
        PROVE  LockTx(p, k) \in Tx
    BY <1>2, <1>3 DEF LockTx, Tx
  <1>8. ASSUME NEW k \in Kinds
        PROVE  ReadTx(p, k) \in Tx
    BY <1>2 DEF ReadTx, Tx
  <1>9. PutTx(p) \in Tx /\ SendTx(p) \in Tx
    BY <1>2 DEF PutTx, SendTx, Tx
  <1> QED
    BY <1>1, <1>5, <1>6, <1>7, <1>8, <1>9

\* Which of them a publisher's step is.
LEMMA Steps ==
    ASSUME NEW p \in Publishers
    PROVE  /\ Claim(p) => Becomes(p, ClaimTx)
           /\ Start(p) => Becomes(p, StartTx)
           /\ Lock(p) => \E k \in Kinds : NextLock(p, k) /\ Becomes(p, LockTx(p, k))
           /\ ReadItems(p) => \E k \in pub[p].toRewrite : Becomes(p, ReadTx(p, k))
           /\ PutSnapshot(p) => Becomes(p, PutTx(p))
           /\ Send(p) => Becomes(p, SendTx(p))
           /\ Commit(p) \/ Rollback(p) => Becomes(p, Idle)
  BY DEF Claim, Start, Lock, ReadItems, PutSnapshot, Send, Commit, Rollback,
         ClaimTx, StartTx, LockTx, ReadTx, PutTx, SendTx

\* Every document a reader or a loader gets is one.
LEMMA NewerType ==
    ASSUME NEW d \in Document, NEW e \in Document
    PROVE  Newer(d, e) \in Document
  BY DEF Newer

\* Marking a row published or parked keeps its kind and its change.
LEMMA MarkedType ==
    ASSUME NEW row \in Row
    PROVE  /\ Marked(row) \in Row
           /\ Marked(row).kind = row.kind /\ Marked(row).value = row.value
           /\ Marked(row).at \in {"published", "parked"}
  <1>1. CASE row.bad
    <2>1. Marked(row) = [row EXCEPT !.at = "parked", !.attempts = row.attempts + 1]
      BY <1>1 DEF Marked
    <2>2. row.attempts + 1 \in Nat
      BY DEF Row
    <2> QED
      BY <2>1, <2>2 DEF Row
  <1>2. CASE ~row.bad
    BY <1>2 DEF Marked, Row
  <1> QED
    BY <1>1, <1>2

\* What the outbox's upkeep does to a row.
LEMMA UpkeepType ==
    ASSUME TypeOK, NEW i \in DOMAIN rows, NEW at \in {"queued", "pruned"},
           rows' = [rows EXCEPT ![i].at = at]
    PROVE  /\ rows' \in Seq(Row) /\ DOMAIN rows' = DOMAIN rows
           /\ \A j \in DOMAIN rows : rows'[j].kind = rows[j].kind /\ rows'[j].value = rows[j].value
           /\ \A j \in DOMAIN rows : j # i => rows'[j].at = rows[j].at
           /\ rows'[i].at = at
  <1>1. [rows EXCEPT ![i].at = at] \in [DOMAIN rows -> Row]
    BY RowsAre DEF Row
  <1>2. rows' \in Seq(Row) /\ DOMAIN rows' = DOMAIN rows
    BY <1>1, RowsRewritten
  <1>3. \A j \in DOMAIN rows : rows'[j] = IF j = i THEN [rows[i] EXCEPT !.at = at] ELSE rows[j]
    BY RowsAre
  <1>4. rows[i] \in Row
    BY RowsAre
  <1>5. rows'[i].kind = rows[i].kind /\ rows'[i].value = rows[i].value /\ rows'[i].at = at
    BY <1>3, <1>4 DEF Row
  <1> QED
    BY <1>2, <1>3, <1>5

\* What committing a transaction does to the rows.
LEMMA CommitRows ==
    ASSUME TypeOK, NEW p \in Publishers, Commit(p)
    PROVE  /\ rows' \in Seq(Row) /\ DOMAIN rows' = DOMAIN rows
           /\ \A i \in DOMAIN rows : rows'[i].kind = rows[i].kind /\ rows'[i].value = rows[i].value
           /\ \A i \in DOMAIN rows : i \notin pub[p].claimed => rows'[i] = rows[i]
  <1> DEFINE f == [i \in DOMAIN rows |-> IF i \in pub[p].claimed THEN Marked(rows[i]) ELSE rows[i]]
  <1>1. f \in [DOMAIN rows -> Row] /\ rows' = f
    BY RowsAre, MarkedType DEF Commit
  <1>2. rows' \in Seq(Row) /\ DOMAIN rows' = DOMAIN rows
    <2> HIDE DEF f
    <2> QED
      BY <1>1, RowsRewritten
  <1>3. \A i \in DOMAIN rows :
            rows'[i] = IF i \in pub[p].claimed THEN Marked(rows[i]) ELSE rows[i]
    BY <1>1
  <1> QED
    BY <1>2, <1>3, MarkedType, RowsAre

\* The type invariant is inductive.
LEMMA TypeStep ==
    ASSUME TypeOK, [Next]_vars
    PROVE  TypeOK'
  <1> USE OutboxAssumption
  <1>1. /\ table \in [Kinds -> Nat] /\ store \in [Kinds -> Document]
        /\ inbox \in [Readers -> SUBSET Kinds] /\ copy \in [Readers -> [Kinds -> Document]]
        /\ load \in [Loaders -> [kind : Kinds \union {Other}, doc : Document]]
        /\ rows \in Seq(Row) /\ pub \in [Publishers -> Tx]
        /\ \A p \in Publishers : pub[p].claimed \subseteq DOMAIN rows
    BY DEF TypeOK
  <1>2. NotLoading \in [kind : Kinds \union {Other}, doc : Document]
    BY DEF NotLoading, Empty, Document
  <1>3. CASE \E k \in Kinds : Change(k)
    <2>1. PICK k \in Kinds : Change(k)
      BY <1>3
    <2>2. table' \in [Kinds -> Nat] /\ table'[k] \in Nat
      BY <1>1, <2>1 DEF Change
    <2>3. Queued(k, table'[k], FALSE) \in Row
      BY <2>2, QueuedType
    <2>4. rows' \in Seq(Row) /\ DOMAIN rows \subseteq DOMAIN rows'
      BY <2>1, <2>3, OneAppended DEF Change
    <2> QED
      BY <1>1, <2>1, <2>2, <2>4 DEF Change, readers, TypeOK
  <1>4. CASE Enqueue
    <2>1. PICK bad \in BOOLEAN : rows' = Append(rows, Queued(Other, 0, bad))
      BY <1>4 DEF Enqueue
    <2>2. Queued(Other, 0, bad) \in Row
      BY QueuedType
    <2>3. rows' \in Seq(Row) /\ DOMAIN rows \subseteq DOMAIN rows'
      BY <2>1, <2>2, OneAppended
    <2> QED
      BY <1>1, <1>4, <2>3 DEF Enqueue, readers, TypeOK
  <1>5. ASSUME NEW p \in Publishers, NEW tx \in Tx, Becomes(p, tx), tx.claimed \subseteq DOMAIN rows'
        PROVE  pub' \in [Publishers -> Tx] /\ (DOMAIN rows' = DOMAIN rows =>
                  \A q \in Publishers : pub'[q].claimed \subseteq DOMAIN rows')
    BY <1>1, <1>5, OneBecomes
  <1>6. CASE \E p \in Publishers : Claim(p)
    <2>1. PICK p \in Publishers : Claim(p)
      BY <1>6
    <2>2. ClaimTx \in Tx /\ ClaimTx.claimed = BatchOf /\ Becomes(p, ClaimTx)
      BY <2>1, Steps, TxTypes, TxFields
    <2>3. UNCHANGED <<database, store, readers>>
      BY <2>1 DEF Claim
    <2> QED
      BY <1>1, <1>5, <2>2, <2>3, Claimed DEF TypeOK, database, readers
  <1>7. CASE \E p \in Publishers : Start(p)
    <2>1. PICK p \in Publishers : Start(p)
      BY <1>7
    <2>2. StartTx \in Tx /\ StartTx.claimed = {} /\ Becomes(p, StartTx)
      BY <2>1, Steps, TxTypes, TxFields
    <2>3. UNCHANGED <<database, store, readers>>
      BY <2>1 DEF Start
    <2> QED
      BY <1>1, <1>5, <2>2, <2>3 DEF TypeOK, database, readers
  <1>8. CASE \E p \in Publishers : Lock(p)
    <2>1. PICK p \in Publishers : Lock(p)
      BY <1>8
    <2>2. PICK k \in Kinds : Becomes(p, LockTx(p, k))
      BY <2>1, Steps
    <2>3. LockTx(p, k) \in Tx /\ LockTx(p, k).claimed = pub[p].claimed
      BY TxTypes, TxFields, ZenonT(40)
    <2>4. UNCHANGED <<database, store, readers>>
      BY <2>1 DEF Lock
    <2> QED
      BY <1>1, <1>5, <2>2, <2>3, <2>4 DEF TypeOK, database, readers
  <1>9. CASE \E p \in Publishers : ReadItems(p)
    <2>1. PICK p \in Publishers : ReadItems(p)
      BY <1>9
    <2>2. PICK k \in pub[p].toRewrite : Becomes(p, ReadTx(p, k))
      BY <2>1, Steps
    <2>3. k \in Kinds
      BY <1>1 DEF Tx
    <2>4. ReadTx(p, k) \in Tx /\ ReadTx(p, k).claimed = pub[p].claimed
      BY <2>3, TxTypes, TxFields
    <2>5. UNCHANGED <<database, store, readers>>
      BY <2>1 DEF ReadItems
    <2> QED
      BY <1>1, <1>5, <2>2, <2>4, <2>5 DEF TypeOK, database, readers
  <1>10. CASE \E p \in Publishers : PutSnapshot(p)
    <2>1. PICK p \in Publishers : PutSnapshot(p)
      BY <1>10
    <2>2. PutTx(p) \in Tx /\ PutTx(p).claimed = pub[p].claimed /\ Becomes(p, PutTx(p))
      BY <2>1, Steps, TxTypes, TxFields
    <2>3. PICK t \in Clocks :
            store' = [store EXCEPT ![pub[p].kind] =
                        [version |-> NextVersion(store[pub[p].kind].version, t), value |-> pub[p].items]]
      BY <2>1 DEF PutSnapshot
    <2>4. store' \in [Kinds -> Document]
      <3>1. CASE pub[p].kind \in Kinds
        BY <1>1, <2>3, <3>1, NextVersionGrows DEF Document, Tx
      <3>2. CASE pub[p].kind \notin Kinds
        BY <1>1, <2>3, <3>2
      <3> QED
        BY <3>1, <3>2
    <2>5. UNCHANGED <<database, readers>>
      BY <2>1 DEF PutSnapshot
    <2> QED
      BY <1>1, <1>5, <2>2, <2>4, <2>5 DEF TypeOK, database, readers
  <1>11. CASE \E p \in Publishers : Send(p)
    <2>1. PICK p \in Publishers : Send(p)
      BY <1>11
    <2>2. SendTx(p) \in Tx /\ SendTx(p).claimed = pub[p].claimed /\ Becomes(p, SendTx(p))
      BY <2>1, Steps, TxTypes, TxFields
    <2>3. inbox' \in [Readers -> SUBSET Kinds] /\ UNCHANGED <<database, store, load, copy>>
      BY <1>1, <2>1, Claimed DEF Send
    <2> QED
      BY <1>1, <1>5, <2>2, <2>3 DEF TypeOK, database
  <1>12. CASE \E p \in Publishers : Commit(p)
    <2>1. PICK p \in Publishers : Commit(p)
      BY <1>12
    <2>2. Becomes(p, Idle) /\ Idle \in Tx /\ Idle.claimed = {}
      BY <2>1, TxTypes DEF Commit, Idle
    <2>3. rows' \in Seq(Row) /\ DOMAIN rows' = DOMAIN rows
      BY <2>1, CommitRows
    <2>4. UNCHANGED <<table, store, readers>>
      BY <2>1 DEF Commit
    <2> QED
      BY <1>1, <1>5, <2>2, <2>3, <2>4 DEF TypeOK, readers
  <1>13. CASE \E p \in Publishers : Rollback(p)
    <2>1. PICK p \in Publishers : Rollback(p)
      BY <1>13
    <2>2. Becomes(p, Idle) /\ Idle \in Tx /\ Idle.claimed = {}
      BY <2>1, TxTypes DEF Rollback, Idle
    <2>3. UNCHANGED <<database, store, readers>>
      BY <2>1 DEF Rollback
    <2> QED
      BY <1>1, <1>5, <2>2, <2>3 DEF TypeOK, readers, database
  <1>14. CASE \E i \in DOMAIN rows : Requeue(i) \/ Prune(i)
    <2>1. PICK i \in DOMAIN rows, at \in {"queued", "pruned"} : rows' = [rows EXCEPT ![i].at = at]
      BY <1>14 DEF Requeue, Prune
    <2>2. rows' \in Seq(Row) /\ DOMAIN rows' = DOMAIN rows
      BY <2>1, UpkeepType
    <2>3. UNCHANGED <<table, pub, store, readers>>
      BY <1>14 DEF Requeue, Prune
    <2> QED
      BY <1>1, <2>2, <2>3 DEF TypeOK, readers
  <1>15. CASE \E l \in Loaders : Apply(l)
    <2>1. PICK l \in Loaders : Apply(l)
      BY <1>15
    <2>2. /\ l[1] \in Readers /\ load[l].kind \in Kinds /\ load[l].doc \in Document
      BY <1>1, <2>1 DEF Loaders, Apply
    <2>3. Newer(load[l].doc, copy[l[1]][load[l].kind]) \in Document
      <3>1. copy[l[1]][load[l].kind] \in Document
        <4>1. copy[l[1]] \in [Kinds -> Document]
          BY <1>1, <2>2
        <4> QED
          BY <2>2, <4>1
      <3> QED
        BY <2>2, <3>1, NewerType
    <2>4. copy' = [copy EXCEPT ![l[1]][load[l].kind] = Newer(load[l].doc, copy[l[1]][load[l].kind])]
      BY <2>1 DEF Apply
    <2>5. copy' \in [Readers -> [Kinds -> Document]]
      BY <1>1, <2>2, <2>3, <2>4
    <2>6. load' \in [Loaders -> [kind : Kinds \union {Other}, doc : Document]]
      BY <1>1, <1>2, <2>1 DEF Apply
    <2> QED
      BY <1>1, <2>1, <2>5, <2>6 DEF Apply, TypeOK, database
  <1>16. CASE \E l \in Loaders : Fail(l)
    <2>1. PICK l \in Loaders : Fail(l)
      BY <1>16
    <2> QED
      BY <1>1, <1>2, <2>1 DEF Fail, TypeOK, database
  <1>17. CASE \E l \in Loaders, k \in Kinds : Read(l, k)
    <2>1. PICK l \in Loaders, k \in Kinds : Read(l, k)
      BY <1>17
    <2>2. inbox' \in [Readers -> SUBSET Kinds]
      BY <1>1, <2>1 DEF Read
    <2>3. [kind |-> k, doc |-> store[k]] \in [kind : Kinds \union {Other}, doc : Document]
      BY <1>1
    <2>4. load' \in [Loaders -> [kind : Kinds \union {Other}, doc : Document]]
      BY <1>1, <2>1, <2>3 DEF Read
    <2> QED
      BY <1>1, <2>1, <2>2, <2>4 DEF Read, TypeOK, database
  <1>18. CASE \E r \in Readers : Restart(r)
    <2>1. PICK r \in Readers : Restart(r)
      BY <1>18
    <2> QED
      BY <1>1, <1>2, <2>1 DEF Restart, TypeOK, database
  <1>19. CASE UNCHANGED vars
    BY <1>1, <1>19 DEF vars, database, readers, TypeOK
  <1> QED
    BY <1>3, <1>4, <1>6, <1>7, <1>8, <1>9, <1>10, <1>11, <1>12, <1>13, <1>14, <1>15, <1>16,
       <1>17, <1>18, <1>19 DEF Next, Publish

\* The types of the state are those of TypeOK.
THEOREM TypeCorrect == Spec => []TypeOK
  <1>1. Init => TypeOK
    <2> SUFFICES ASSUME Init PROVE TypeOK
      OBVIOUS
    <2>1. Empty \in Document /\ NotLoading \in [kind : Kinds \union {Other}, doc : Document]
      BY DEF Empty, NotLoading, Document
    <2>2. rows \in Seq(Row) /\ Idle \in Tx /\ Idle.claimed = {}
      BY EmptySeq DEF Init, Idle, Tx
    <2> QED
      BY <2>1, <2>2 DEF Init, TypeOK
  <1>2. TypeOK /\ [Next]_vars => TypeOK'
    BY TypeStep
  <1> QED
    BY <1>1, <1>2, PTL DEF Spec

----------------------------------------------------------------------------
(* Locks. *)

\* Only publishers' own steps change their transactions.
LEMMA OthersKeepPub ==
    ASSUME TypeOK, [Next]_vars, ~\E p \in Publishers : Publish(p) \/ Start(p) \/ Rollback(p)
    PROVE  UNCHANGED pub
  BY DEF Next, Change, Enqueue, Requeue, Prune, Read, Apply, Fail, Restart, vars

\* A transaction that takes no lock another has, and locks upwards, keeps the order.
LEMMA LockingBecomes ==
    ASSUME TypeOK, Locking, NEW p \in Publishers, NEW tx \in Tx, Becomes(p, tx),
           \A q \in Publishers : q # p => tx.locked \intersect pub[q].locked = {},
           \A k \in tx.locked, j \in tx.toLock : k < j,
           tx.toRewrite \subseteq tx.toLock \union tx.locked,
           tx.pc # "lock" => tx.toLock = {}
    PROVE  Locking'
  <1>1. /\ pub'[p] = tx /\ \A q \in Publishers : q # p => pub'[q] = pub[q]
    BY OneBecomes
  <1>2. ASSUME NEW q \in Publishers, NEW r \in Publishers, q # r
        PROVE  pub'[q].locked \intersect pub'[r].locked = {}
    <2>1. CASE q = p
      BY <1>1, <1>2, <2>1
    <2>2. CASE r = p
      BY <1>1, <1>2, <2>2
    <2>3. CASE q # p /\ r # p
      BY <1>1, <1>2, <2>3 DEF Locking
    <2> QED
      BY <2>1, <2>2, <2>3
  <1>3. ASSUME NEW q \in Publishers
        PROVE  /\ \A k \in pub'[q].locked, j \in pub'[q].toLock : k < j
               /\ pub'[q].toRewrite \subseteq pub'[q].toLock \union pub'[q].locked
               /\ pub'[q].pc # "lock" => pub'[q].toLock = {}
    <2>1. CASE q = p
      BY <1>1, <2>1
    <2>2. CASE q # p
      BY <1>1, <2>2 DEF Locking
    <2> QED
      BY <2>1, <2>2
  <1> QED
    BY <1>2, <1>3 DEF Locking

\* So does every step.
LEMMA LockingStep ==
    ASSUME TypeOK, Locking, [Next]_vars
    PROVE  Locking'
  <1> USE OutboxAssumption
  <1>1. ASSUME NEW p \in Publishers, NEW tx \in Tx, Becomes(p, tx), tx.locked = {},
               tx.toRewrite \subseteq tx.toLock, tx.pc # "lock" => tx.toLock = {}
        PROVE  Locking'
    BY <1>1, LockingBecomes
  <1>2. ASSUME NEW p \in Publishers, NEW tx \in Tx, Becomes(p, tx), pub[p].pc # "lock",
               tx.locked = pub[p].locked, tx.toLock = pub[p].toLock,
               tx.toRewrite \subseteq pub[p].toRewrite
        PROVE  Locking'
    <2>1. pub[p].toLock = {} /\ pub[p].toRewrite \subseteq pub[p].locked
      BY <1>2 DEF Locking
    <2>2. \A q \in Publishers : q # p => tx.locked \intersect pub[q].locked = {}
      BY <1>2 DEF Locking
    <2> QED
      BY <1>2, <2>1, <2>2, LockingBecomes
  <1>3. ASSUME NEW p \in Publishers, Claim(p)
        PROVE  Locking'
    <2>1. KindsOf(BatchOf) \subseteq Kinds
      BY Claimed
    <2>2. AfterLocks(KindsOf(BatchOf)) # "lock" => KindsOf(BatchOf) = {}
      BY DEF AfterLocks
    <2> QED
      BY <1>1, <1>3, <2>2, Steps, TxTypes, TxFields
  <1>4. ASSUME NEW p \in Publishers, Start(p)
        PROVE  Locking'
    <2>1. AfterLocks(Kinds) # "lock" => Kinds = {}
      BY DEF AfterLocks
    <2>2. StartTx \in Tx /\ Becomes(p, StartTx)
      BY <1>4, Steps, TxTypes
    <2>3. StartTx.locked = {} /\ StartTx.toRewrite = Kinds /\ StartTx.toLock = Kinds
          /\ StartTx.pc = AfterLocks(Kinds)
      BY TxFields
    <2>4. StartTx.pc # "lock" => StartTx.toLock = {}
      BY <2>1, <2>3
    <2> QED
      BY <1>1, <2>2, <2>3, <2>4
  <1>5. ASSUME NEW p \in Publishers, Lock(p)
        PROVE  Locking'
    <2>1. PICK k \in Kinds : NextLock(p, k) /\ Becomes(p, LockTx(p, k))
      BY <1>5, Steps
    <2> DEFINE tx == LockTx(p, k)
    <2>2. tx \in Tx /\ tx.locked = pub[p].locked \union {k} /\ tx.toLock = pub[p].toLock \ {k}
          /\ tx.toRewrite = pub[p].toRewrite /\ tx.pc = AfterLocks(pub[p].toLock \ {k})
      BY TxTypes, TxFields
    <2>3. \A q \in Publishers : q # p => tx.locked \intersect pub[q].locked = {}
      BY <2>1, <2>2 DEF NextLock, Locking
    <2>4. ASSUME NEW i \in tx.locked, NEW j \in tx.toLock
          PROVE  i < j
      <3>1. j \in pub[p].toLock /\ j # k /\ j \in Nat /\ k \in Nat
        BY <2>2 DEF TypeOK, Tx
      <3>2. CASE i = k
        BY <2>1, <3>1, <3>2 DEF NextLock
      <3>3. CASE i # k
        BY <2>2, <3>1, <3>3 DEF Locking
      <3> QED
        BY <3>2, <3>3
    <2>5. tx.toRewrite \subseteq tx.toLock \union tx.locked
      BY <2>2 DEF Locking
    <2>6. tx.pc # "lock" => tx.toLock = {}
      BY <2>2 DEF AfterLocks
    <2> HIDE DEF tx
    <2>7. Becomes(p, tx)
      BY <2>1 DEF tx
    <2> QED
      BY <2>2, <2>3, <2>4, <2>5, <2>6, <2>7, LockingBecomes
  <1>6. ASSUME NEW p \in Publishers, ReadItems(p)
        PROVE  Locking'
    <2>1. PICK k \in pub[p].toRewrite : Becomes(p, ReadTx(p, k))
      BY <1>6, Steps
    <2>2. k \in Kinds /\ pub[p].pc # "lock"
      BY <1>6 DEF TypeOK, Tx, ReadItems
    <2> QED
      BY <1>2, <2>1, <2>2, TxTypes, TxFields
  <1>7. ASSUME NEW p \in Publishers, PutSnapshot(p)
        PROVE  Locking'
    <2>1. pub[p].pc # "lock"
      BY <1>7 DEF PutSnapshot
    <2> QED
      BY <1>2, <1>7, <2>1, Steps, TxTypes, TxFields
  <1>8. ASSUME NEW p \in Publishers, Send(p)
        PROVE  Locking'
    <2>1. pub[p].pc # "lock"
      BY <1>8 DEF Send
    <2> QED
      BY <1>2, <1>8, <2>1, Steps, TxTypes, TxFields
  <1>9. ASSUME NEW p \in Publishers, Commit(p) \/ Rollback(p)
        PROVE  Locking'
    BY <1>1, <1>9, Steps, TxTypes, TxFields
  <1>10. CASE \E p \in Publishers : Publish(p) \/ Start(p) \/ Rollback(p)
    BY <1>3, <1>4, <1>5, <1>6, <1>7, <1>8, <1>9, <1>10 DEF Publish
  <1>11. CASE ~\E p \in Publishers : Publish(p) \/ Start(p) \/ Rollback(p)
    BY <1>11, OthersKeepPub DEF Locking
  <1> QED
    BY <1>10, <1>11

\* Whatever batches publishers claim and whoever rewrites every kind: a publisher that
\* waits for a kind another has locked has locked none the other waits for, because
\* both lock upwards ("locked in sorted order so two publishers cannot deadlock").
THEOREM NoLockCycle == Spec => []LocksDoNotCycle
  <1>1. Init => Locking
    BY DEF Init, Locking, Idle
  <1>2. TypeOK /\ Locking /\ [Next]_vars => Locking'
    BY LockingStep
  <1>3. TypeOK /\ Locking => LocksDoNotCycle
    <2> SUFFICES ASSUME TypeOK, Locking, NEW p \in Publishers, NEW q \in Publishers,
                        NEW k \in pub[p].locked, k \in pub[q].toLock,
                        NEW j \in pub[q].locked, j \in pub[p].toLock
                 PROVE  FALSE
      BY DEF LocksDoNotCycle
    <2>1. k < j /\ j < k
      BY DEF Locking
    <2>2. k \in Nat /\ j \in Nat
      BY OutboxAssumption DEF TypeOK, Tx
    <2> QED
      BY <2>1, <2>2
  <1> QED
    BY <1>1, <1>2, <1>3, TypeCorrect, PTL DEF Spec

----------------------------------------------------------------------------
(* Values. *)

\* A row of a change names a kind.
LEMMA RowKinds ==
    ASSUME TypeOK, NEW i \in DOMAIN rows
    PROVE  /\ rows[i].value \in Nat /\ rows[i].kind \in Kinds \union {Other}
           /\ rows[i].kind # Other => rows[i].kind \in Kinds
  BY RowsAre DEF Row

\* The snapshot a publisher puts has what it read under its lock: a newer version, of
\* a state that is not older.
LEMMA PutEffects ==
    ASSUME TypeOK, Rewriting, NEW p \in Publishers, PutSnapshot(p)
    PROVE  LET k == pub[p].kind IN
           /\ k \in Kinds /\ k \in pub[p].locked
           /\ store'[k].value = pub[p].items /\ store'[k].version > store[k].version
           /\ store[k].value <= pub[p].items /\ pub[p].items <= table[k]
           /\ \A j \in Kinds : j # k => store'[j] = store[j]
  <1> USE OutboxAssumption
  <1> DEFINE k == pub[p].kind
  <1>1. k \in pub[p].locked /\ store[k].value <= pub[p].items /\ pub[p].items <= table[k]
    BY DEF Rewriting, HoldsItems, PutSnapshot
  <1>2. k \in Kinds
    BY <1>1 DEF TypeOK, Tx
  <1>3. PICK t \in Clocks :
          store' = [store EXCEPT ![k] = [version |-> NextVersion(store[k].version, t), value |-> pub[p].items]]
    BY DEF PutSnapshot
  <1>4. store[k] \in Document /\ t \in Nat
    BY <1>2 DEF TypeOK
  <1>5. NextVersion(store[k].version, t) > store[k].version
    BY <1>4, NextVersionGrows DEF Document
  <1>6. store'[k] = [version |-> NextVersion(store[k].version, t), value |-> pub[p].items]
    BY <1>2, <1>3 DEF TypeOK
  <1>7. \A j \in Kinds : j # k => store'[j] = store[j]
    BY <1>2, <1>3 DEF TypeOK
  <1> QED
    BY <1>1, <1>2, <1>5, <1>6, <1>7

\* Only a publisher that puts a snapshot changes the stored ones.
LEMMA OthersKeepStore ==
    ASSUME [Next]_vars, ~\E p \in Publishers : PutSnapshot(p)
    PROVE  UNCHANGED store
  BY DEF Next, Publish, Change, Enqueue, Claim, Start, Lock, ReadItems, Send, Commit, Rollback,
         Requeue, Prune, Read, Apply, Fail, Restart, vars

\* Stored values only grow.
LEMMA StoreGrows ==
    ASSUME TypeOK, Rewriting, [Next]_vars, NEW k \in Kinds
    PROVE  /\ store[k].value <= store'[k].value /\ store[k].version <= store'[k].version
           /\ store'[k] # store[k] => store'[k].version > store[k].version
  <1>1. store[k] \in Document /\ store[k].value \in Nat /\ store[k].version \in Nat
    BY DEF TypeOK, Document
  <1>2. store'[k].value \in Nat /\ store'[k].version \in Nat
    BY TypeStep DEF TypeOK, Document
  <1>3. CASE \E p \in Publishers : PutSnapshot(p)
    BY <1>1, <1>2, <1>3, PutEffects
  <1>4. CASE ~\E p \in Publishers : PutSnapshot(p)
    BY <1>1, <1>4, OthersKeepStore
  <1> QED
    BY <1>3, <1>4

\* Changes are counted up.
LEMMA TableGrows ==
    ASSUME TypeOK, [Next]_vars, NEW k \in Kinds
    PROVE  table[k] <= table'[k] /\ table[k] \in Nat /\ table'[k] \in Nat
  <1>1. table[k] \in Nat /\ table'[k] \in Nat
    BY TypeStep DEF TypeOK
  <1>2. CASE \E j \in Kinds : Change(j)
    BY <1>1, <1>2 DEF Change, TypeOK
  <1>3. CASE ~\E j \in Kinds : Change(j)
    <2>1. table' = table
      BY <1>3 DEF Next, Publish, Enqueue, Claim, Start, Lock, ReadItems, PutSnapshot, Send, Commit,
            Rollback, Requeue, Prune, Read, Apply, Fail, Restart, vars, database
    <2> QED
      BY <1>1, <2>1
  <1> QED
    BY <1>2, <1>3

\* Rows stay what they are of, but for how far they have come; a new one is of the
\* change that queued it.
LEMMA RowsKept ==
    ASSUME TypeOK, [Next]_vars
    PROVE  /\ DOMAIN rows \subseteq DOMAIN rows'
           /\ \A i \in DOMAIN rows : rows'[i].kind = rows[i].kind /\ rows'[i].value = rows[i].value
           /\ \A i \in DOMAIN rows' \ DOMAIN rows :
                /\ rows'[i].at = "queued"
                /\ rows'[i].kind # Other => rows'[i].value = table'[rows'[i].kind]
  <1>1. CASE \E k \in Kinds : Change(k)
    <2>1. PICK k \in Kinds : Change(k)
      BY <1>1
    <2>2. table'[k] \in Nat
      BY <2>1, TypeStep DEF TypeOK
    <2>3. Queued(k, table'[k], FALSE) \in Row /\ rows' = Append(rows, Queued(k, table'[k], FALSE))
      BY <2>1, <2>2, QueuedType DEF Change
    <2> QED
      BY <2>3, OneAppended DEF Queued
  <1>2. CASE Enqueue
    <2>1. PICK bad \in BOOLEAN : rows' = Append(rows, Queued(Other, 0, bad))
      BY <1>2 DEF Enqueue
    <2>2. Queued(Other, 0, bad) \in Row
      BY QueuedType
    <2> QED
      BY <2>1, <2>2, OneAppended DEF Queued
  <1>3. CASE \E p \in Publishers : Commit(p)
    BY <1>3, CommitRows
  <1>4. CASE \E i \in DOMAIN rows : Requeue(i) \/ Prune(i)
    <2>1. PICK i \in DOMAIN rows, at \in {"queued", "pruned"} : rows' = [rows EXCEPT ![i].at = at]
      BY <1>4 DEF Requeue, Prune
    <2> QED
      BY <2>1, UpkeepType
  <1>5. CASE ~ \/ \E k \in Kinds : Change(k)
               \/ Enqueue
               \/ \E p \in Publishers : Commit(p)
               \/ \E i \in DOMAIN rows : Requeue(i) \/ Prune(i)
    <2>1. rows' = rows
      BY <1>5 DEF Next, Publish, Claim, Start, Lock, ReadItems, PutSnapshot, Send,
            Rollback, Read, Apply, Fail, Restart, vars, database
    <2> QED
      BY <2>1
  <1> QED
    BY <1>1, <1>2, <1>3, <1>4, <1>5

\* What is queued and stored is committed.
LEMMA CommittedStep ==
    ASSUME TypeOK, Committed, Rewriting, [Next]_vars
    PROVE  Committed'
  <1>1. ASSUME NEW i \in DOMAIN rows', rows'[i].kind # Other
        PROVE  rows'[i].value <= table'[rows'[i].kind]
    <2>0. TypeOK'
      BY TypeStep
    <2>1. CASE i \in DOMAIN rows
      <3>1. rows[i].kind \in Kinds /\ rows[i].value \in Nat
            /\ rows'[i].kind = rows[i].kind /\ rows'[i].value = rows[i].value
        BY <1>1, <2>1, RowsKept, RowKinds
      <3>2. rows[i].value <= table[rows[i].kind]
        BY <1>1, <2>1, <3>1 DEF Committed
      <3>3. /\ table[rows[i].kind] <= table'[rows[i].kind]
            /\ table[rows[i].kind] \in Nat /\ table'[rows[i].kind] \in Nat
        BY <3>1, TableGrows
      <3> QED
        BY <3>1, <3>2, <3>3
    <2>2. CASE i \notin DOMAIN rows
      <3>1. rows'[i].value = table'[rows'[i].kind]
        BY <1>1, <2>2, RowsKept
      <3>2. rows'[i] \in Row
        BY <2>0 DEF TypeOK
      <3>3. rows'[i].value \in Nat
        BY <3>2 DEF Row
      <3> QED
        BY <3>1, <3>3
    <2> QED
      BY <2>1, <2>2
  <1>2. ASSUME NEW k \in Kinds
        PROVE  store'[k].value <= table'[k]
    <2>0. store[k].value \in Nat /\ store'[k].value \in Nat
      BY TypeStep DEF TypeOK, Document
    <2>1. CASE store'[k] = store[k]
      BY <2>0, <2>1, TableGrows DEF Committed
    <2>2. CASE store'[k] # store[k]
      <3>1. PICK p \in Publishers : PutSnapshot(p)
        BY <2>2, OthersKeepStore
      <3>2. store'[k].value <= table[k]
        BY <2>2, <3>1, PutEffects
      <3> QED
        BY <2>0, <3>2, TableGrows
    <2> QED
      BY <2>1, <2>2
  <1> QED
    BY <1>1, <1>2 DEF Committed

\* A transaction that takes no step keeps what it holds, whatever the others do: its
\* kind is locked, rows stay what they are of, and stored values grow.
LEMMA TxKeeps ==
    ASSUME TypeOK, Locking, Rewriting, [Next]_vars, NEW q \in Publishers, pub'[q] = pub[q]
    PROVE  HoldsItems(pub[q])' /\ Carries(pub[q])'
  <1>1. ASSUME pub[q].pc = "put"
        PROVE  /\ pub[q].kind \in pub[q].locked
               /\ store'[pub[q].kind].value <= pub[q].items
               /\ pub[q].items <= table'[pub[q].kind]
    <2> DEFINE k == pub[q].kind
    <2>1. k \in pub[q].locked /\ store[k].value <= pub[q].items /\ pub[q].items <= table[k]
      BY <1>1 DEF Rewriting, HoldsItems
    <2>2. k \in Kinds /\ pub[q].items \in Nat
      BY <2>1 DEF TypeOK, Tx
    <2>3. store'[k] = store[k]
      <3>1. SUFFICES ASSUME store'[k] # store[k] PROVE FALSE
        OBVIOUS
      <3>2. PICK p \in Publishers : PutSnapshot(p)
        BY <3>1, OthersKeepStore
      <3>3. k = pub[p].kind /\ k \in pub[p].locked
        BY <2>2, <3>1, <3>2, PutEffects
      <3>4. CASE p = q
        <4>1. pub'[q] = PutTx(q)
          BY <3>2, <3>4, Steps, TxTypes, OneBecomes
        <4>2. pub'[q].pc = "read"
          BY <4>1, TxFields
        <4> QED
          BY <1>1, <4>2
      <3>5. CASE p # q
        BY <2>1, <3>3, <3>5 DEF Locking
      <3> QED
        BY <3>4, <3>5
    <2>4. table[k] <= table'[k] /\ table[k] \in Nat /\ table'[k] \in Nat
      BY <2>2, TableGrows
    <2> QED
      BY <2>1, <2>2, <2>3, <2>4
  <1>2. ASSUME NEW i \in pub[q].claimed
        PROVE  \/ rows'[i].kind = Other
               \/ pub[q].pc \in {"lock", "read", "put"} /\ rows'[i].kind \in pub[q].toRewrite
               \/ pub[q].pc = "put" /\ rows'[i].kind = pub[q].kind /\ rows'[i].value <= pub[q].items
               \/ rows'[i].value <= store'[rows'[i].kind].value
    <2>1. i \in DOMAIN rows
      BY DEF TypeOK
    <2>2. rows'[i].kind = rows[i].kind /\ rows'[i].value = rows[i].value /\ rows[i].value \in Nat
      BY <2>1, RowsKept, RowKinds
    <2>3. \/ rows[i].kind = Other
          \/ pub[q].pc \in {"lock", "read", "put"} /\ rows[i].kind \in pub[q].toRewrite
          \/ pub[q].pc = "put" /\ rows[i].kind = pub[q].kind /\ rows[i].value <= pub[q].items
          \/ rows[i].value <= store[rows[i].kind].value
      BY DEF Rewriting, Carries
    <2>4. CASE rows[i].kind # Other /\ rows[i].value <= store[rows[i].kind].value
      <3> DEFINE k == rows[i].kind
      <3>1. k \in Kinds
        BY <2>1, <2>4, RowKinds
      <3>2. store[k].value <= store'[k].value
        BY <3>1, StoreGrows
      <3>3. store[k].value \in Nat /\ store'[k].value \in Nat
        BY <3>1, TypeStep DEF TypeOK, Document
      <3> QED
        BY <2>2, <2>4, <3>2, <3>3
    <2> QED
      BY <2>2, <2>3, <2>4
  <1> QED
    BY <1>1, <1>2 DEF HoldsItems, Carries

\* A publisher's own step.
LEMMA TxSteps ==
    ASSUME TypeOK, Locking, Committed, Rewriting, [Next]_vars, NEW p \in Publishers,
           Publish(p) \/ Start(p) \/ Rollback(p)
    PROVE  HoldsItems(pub[p])' /\ Carries(pub[p])'
  <1>1. CASE Claim(p)
    <2>1. pub'[p] = ClaimTx /\ UNCHANGED <<rows, store, table>>
      BY <1>1, Steps, TxTypes, OneBecomes DEF Claim, database
    <2>2. /\ pub'[p].pc \in {"lock", "read"} /\ pub'[p].claimed = BatchOf
          /\ pub'[p].toRewrite = KindsOf(BatchOf)
      BY <2>1, TxFields DEF AfterLocks
    <2>3. \A i \in BatchOf : rows[i].kind = Other \/ rows[i].kind \in KindsOf(BatchOf)
      BY DEF KindsOf
    <2> QED
      BY <2>1, <2>2, <2>3 DEF HoldsItems, Carries
  <1>2. CASE Start(p)
    <2>1. pub'[p] = StartTx
      BY <1>2, Steps, TxTypes, OneBecomes
    <2>2. pub'[p].pc \in {"lock", "read"} /\ pub'[p].claimed = {}
      BY <2>1, TxFields DEF AfterLocks
    <2> QED
      BY <2>2 DEF HoldsItems, Carries
  <1>3. CASE Lock(p)
    <2>1. PICK k \in Kinds : Becomes(p, LockTx(p, k))
      BY <1>3, Steps
    <2>2. pub'[p] = LockTx(p, k) /\ UNCHANGED <<rows, store, table>> /\ pub[p].pc = "lock"
      BY <1>3, <2>1, TxTypes, OneBecomes DEF Lock, database
    <2>3. /\ pub'[p].pc \in {"lock", "read"} /\ pub'[p].claimed = pub[p].claimed
          /\ pub'[p].toRewrite = pub[p].toRewrite
      BY <2>2, TxFields DEF AfterLocks
    <2>4. Carries(pub[p])
      BY DEF Rewriting
    <2> QED
      BY <2>2, <2>3, <2>4 DEF HoldsItems, Carries
  <1>4. CASE ReadItems(p)
    <2>1. PICK k \in pub[p].toRewrite : Becomes(p, ReadTx(p, k))
      BY <1>4, Steps
    <2>2. k \in Kinds /\ pub[p].pc = "read" /\ UNCHANGED <<rows, store, table>>
      BY <1>4 DEF ReadItems, TypeOK, Tx, database
    <2>3. pub'[p] = ReadTx(p, k)
      BY <2>1, <2>2, TxTypes, OneBecomes
    <2>4. /\ pub'[p].pc = "put" /\ pub'[p].claimed = pub[p].claimed
          /\ pub'[p].locked = pub[p].locked /\ pub'[p].toRewrite = pub[p].toRewrite \ {k}
          /\ pub'[p].kind = k /\ pub'[p].items = table[k]
      <3>1. k \in Kinds
        BY <2>2
      <3>2. /\ ReadTx(p, k).pc = "put" /\ ReadTx(p, k).claimed = pub[p].claimed
            /\ ReadTx(p, k).locked = pub[p].locked /\ ReadTx(p, k).toRewrite = pub[p].toRewrite \ {k}
            /\ ReadTx(p, k).kind = k /\ ReadTx(p, k).items = table[k]
        BY <3>1, TxFields
      <3> QED
        BY <2>3, <3>2
    <2>5. k \in pub[p].locked
      BY <2>2 DEF Locking
    <2>6. store[k].value <= table[k] /\ table[k] \in Nat
      BY <2>2 DEF Committed, TypeOK
    <2>7. HoldsItems(pub[p])'
      BY <2>2, <2>4, <2>5, <2>6 DEF HoldsItems
    <2>8. ASSUME NEW i \in pub[p].claimed, rows[i].kind = k
          PROVE  rows[i].value <= table[k]
      BY OutboxAssumption, <2>2, <2>8 DEF Committed, TypeOK, Other
    <2>9. Carries(pub[p])
      BY DEF Rewriting
    <2>10. Carries(pub[p])'
      BY <2>2, <2>4, <2>8, <2>9 DEF Carries
    <2> QED
      BY <2>7, <2>10
  <1>5. CASE PutSnapshot(p)
    <2>1. pub'[p] = PutTx(p) /\ UNCHANGED <<rows, table>> /\ pub[p].pc = "put"
      BY <1>5, Steps, TxTypes, OneBecomes DEF PutSnapshot, database
    <2>2. /\ pub'[p].pc = "read" /\ pub'[p].claimed = pub[p].claimed
          /\ pub'[p].toRewrite = pub[p].toRewrite
      BY <2>1, TxFields
    <2>3. ASSUME NEW i \in pub[p].claimed
          PROVE  \/ rows[i].kind = Other
                 \/ rows[i].kind \in pub[p].toRewrite
                 \/ rows[i].value <= store'[rows[i].kind].value
      <3>1. i \in DOMAIN rows /\ rows[i].value \in Nat
        BY RowKinds DEF TypeOK
      <3>2. \/ rows[i].kind = Other
            \/ rows[i].kind \in pub[p].toRewrite
            \/ rows[i].kind = pub[p].kind /\ rows[i].value <= pub[p].items
            \/ rows[i].value <= store[rows[i].kind].value
        BY DEF Rewriting, Carries
      <3>3. CASE rows[i].kind = pub[p].kind /\ rows[i].value <= pub[p].items
        BY <1>5, <3>3, PutEffects
      <3>4. CASE rows[i].kind # Other /\ rows[i].value <= store[rows[i].kind].value
        <4> DEFINE k == rows[i].kind
        <4>1. k \in Kinds
          BY <3>1, <3>4, RowKinds
        <4>2. store[k].value <= store'[k].value
          BY <4>1, StoreGrows
        <4>3. store[k].value \in Nat /\ store'[k].value \in Nat
          BY <4>1, TypeStep DEF TypeOK, Document
        <4> QED
          BY <3>1, <3>4, <4>2, <4>3
      <3> QED
        BY <3>2, <3>3, <3>4
    <2> QED
      BY <2>1, <2>2, <2>3 DEF HoldsItems, Carries
  <1>6. CASE Send(p)
    <2>1. pub'[p] = SendTx(p) /\ UNCHANGED <<rows, store, table>>
          /\ pub[p].pc = "read" /\ pub[p].toRewrite = {}
      BY <1>6, Steps, TxTypes, OneBecomes DEF Send, database
    <2>2. pub'[p].pc = "commit" /\ pub'[p].claimed = pub[p].claimed
      BY <2>1, TxFields
    <2>3. Carries(pub[p])
      BY DEF Rewriting
    <2> QED
      BY <2>1, <2>2, <2>3 DEF HoldsItems, Carries
  <1>7. CASE Commit(p) \/ Rollback(p)
    <2>1. pub'[p] = Idle
      BY <1>7, Steps, TxTypes, OneBecomes
    <2>2. pub'[p].pc = "idle" /\ pub'[p].claimed = {}
      BY <2>1, TxFields
    <2> QED
      BY <2>2 DEF HoldsItems, Carries
  <1> QED
    BY <1>1, <1>2, <1>3, <1>4, <1>5, <1>6, <1>7 DEF Publish

\* A step changes one transaction at most.
LEMMA OneAtATime ==
    ASSUME TypeOK, [Next]_vars
    PROVE  \A q \in Publishers :
             pub'[q] = pub[q] \/ Publish(q) \/ Start(q) \/ Rollback(q)
  <1>1. ASSUME NEW p \in Publishers, Publish(p) \/ Start(p) \/ Rollback(p),
               NEW q \in Publishers, q # p
        PROVE  pub'[q] = pub[q]
    <2>1. PICK tx : Becomes(p, tx)
      BY <1>1 DEF Publish, Claim, Start, Lock, ReadItems, PutSnapshot, Send, Commit, Rollback
    <2> QED
      BY <1>1, <2>1 DEF Becomes, TypeOK
  <1> QED
    BY <1>1, OthersKeepPub

\* No step loses a change that a transaction claimed.
LEMMA RewritingStep ==
    ASSUME TypeOK, Locking, Committed, Rewriting, [Next]_vars
    PROVE  Rewriting'
  <1> SUFFICES ASSUME NEW q \in Publishers
               PROVE  HoldsItems(pub[q])' /\ Carries(pub[q])'
    BY DEF Rewriting
  <1> QED
    BY OneAtATime, TxKeeps, TxSteps

\* Only a commit publishes rows, those its transaction claimed.
LEMMA PublishedStep ==
    ASSUME TypeOK, Locking, Committed, Rewriting, PublishedIsStored, [Next]_vars
    PROVE  PublishedIsStored'
  <1> SUFFICES ASSUME NEW i \in DOMAIN rows', rows'[i].kind # Other, rows'[i].at = "published"
               PROVE  store'[rows'[i].kind].value >= rows'[i].value
    BY DEF PublishedIsStored
  <1> DEFINE k == rows[i].kind
  <1>1. i \in DOMAIN rows
    BY RowsKept
  <1>2. rows'[i].kind = k /\ rows'[i].value = rows[i].value /\ k \in Kinds /\ rows[i].value \in Nat
    BY <1>1, RowsKept, RowKinds
  <1>3. /\ store[k].value <= store'[k].value
        /\ store[k].value \in Nat /\ store'[k].value \in Nat
    BY <1>2, StoreGrows, TypeStep DEF TypeOK, Document
  <1>4. CASE rows[i].at = "published"
    <2>1. store[k].value >= rows[i].value
      BY <1>1, <1>2, <1>4 DEF PublishedIsStored
    <2> QED
      BY <1>2, <1>3, <2>1
  <1>5. CASE rows[i].at # "published"
    <2>1. PICK p \in Publishers : Commit(p) /\ i \in pub[p].claimed
      <3>1. CASE \E p \in Publishers : Commit(p)
        BY <1>1, <1>5, <3>1, CommitRows
      <3>2. CASE ~\E p \in Publishers : Commit(p)
        <4>1. CASE \E j \in DOMAIN rows : Requeue(j) \/ Prune(j)
          <5>1. PICK j \in DOMAIN rows, at \in {"queued", "pruned"} : rows' = [rows EXCEPT ![j].at = at]
            BY <4>1 DEF Requeue, Prune
          <5> QED
            BY <1>1, <1>5, <5>1, UpkeepType
        <4>2. CASE (\E j \in Kinds : Change(j)) \/ Enqueue
          <5>1. PICK row : rows' = Append(rows, row)
            BY <4>2 DEF Change, Enqueue
          <5>2. rows'[i] = rows[i]
            BY <1>1, <5>1 DEF TypeOK
          <5> QED
            BY <1>5, <5>2
        <4>3. CASE ~ \/ \E j \in Kinds : Change(j)
                     \/ Enqueue
                     \/ \E j \in DOMAIN rows : Requeue(j) \/ Prune(j)
          <5>1. rows' = rows
            BY <3>2, <4>3 DEF Next, Publish, Claim, Start, Lock, ReadItems, PutSnapshot, Send,
                  Rollback, Read, Apply, Fail, Restart, vars, database
          <5> QED
            BY <1>5, <5>1
        <4> QED
          BY <4>1, <4>2, <4>3
      <3> QED
        BY <3>1, <3>2
    <2>2. pub[p].pc = "commit"
      BY <2>1 DEF Commit
    <2>3. rows[i].value <= store[k].value
      BY <1>2, <2>1, <2>2 DEF Rewriting, Carries
    <2> QED
      BY <1>2, <1>3, <2>3
  <1> QED
    BY <1>4, <1>5

\* The inductive invariant of the values.
Values == Locking /\ Committed /\ Rewriting /\ PublishedIsStored

\* A stored snapshot has only committed changes, and a claimed change is still to be
\* read, in its publisher's hands, or stored, all the while its transaction lasts.
THEOREM ValuesHold == Spec => []Values
  <1>1. Init => Values
    BY DEF Init, Values, Locking, Committed, Rewriting, HoldsItems, Carries, PublishedIsStored,
           Idle, Empty
  <1>2. TypeOK /\ Values /\ [Next]_vars => Values'
    BY LockingStep, CommittedStep, RewritingStep, PublishedStep DEF Values
  <1> QED
    BY <1>1, <1>2, TypeCorrect, PTL DEF Spec

\* "The message always points at the latest state": a row of a change is marked
\* published only when the stored snapshot of its kind has that change, whatever
\* transactions failed and whichever publishers rewrote the kind in between.
THEOREM PublishedStored == Spec => []PublishedIsStored
  <1>1. Values => PublishedIsStored
    BY DEF Values
  <1> QED
    BY <1>1, ValuesHold, PTL

\* "A slower publisher cannot overwrite a newer snapshot": under the advisory lock the
\* items are read after those that are stored were, and a version is above the stored one
\* whatever the clock reads.
THEOREM SnapshotsOnlyAdvance == Spec => SnapshotsAdvance
  <1>1. TypeOK /\ Values /\ [Next]_vars =>
          [\A k \in Kinds : store'[k] # store[k] =>
              store'[k].version > store[k].version /\ store'[k].value >= store[k].value]_vars
    <2> SUFFICES ASSUME TypeOK, Values, [Next]_vars, NEW k \in Kinds, store'[k] # store[k]
                 PROVE  store'[k].version > store[k].version /\ store'[k].value >= store[k].value
      OBVIOUS
    <2>1. /\ store[k].value <= store'[k].value /\ store'[k].version > store[k].version
          /\ store[k].value \in Nat /\ store'[k].value \in Nat
      BY StoreGrows, TypeStep DEF Values, TypeOK, Document
    <2> QED
      BY <2>1
  <1> QED
    BY <1>1, TypeCorrect, ValuesHold, PTL DEF Spec, SnapshotsAdvance

----------------------------------------------------------------------------
(* Copies, and what MonotoneConfig promises of them. *)

\* What is held of a kind are documents.
LEMMA HeldTypes ==
    ASSUME TypeOK, NEW k \in Kinds, NEW d \in Held(k)
    PROVE  d \in Document /\ d.version \in Nat /\ d.value \in Nat
  <1>1. d \in Document
    BY DEF Held, TypeOK
  <1> QED
    BY <1>1 DEF Document

\* Nothing is held that was not, and the stored documents are the same.
LEMMA CoherentFewer ==
    ASSUME Coherent, UNCHANGED store, \A k \in Kinds : Held(k)' \subseteq Held(k)
    PROVE  Coherent'
  BY DEF Coherent

\* A reader's step: it holds what was held or stored already.
LEMMA ReaderSteps ==
    ASSUME TypeOK, NEW k \in Kinds,
           \/ \E l \in Loaders : Apply(l) \/ Fail(l) \/ \E j \in Kinds : Read(l, j)
           \/ \E r \in Readers : Restart(r)
    PROVE  UNCHANGED store /\ Held(k)' \subseteq Held(k)
  <1> USE OutboxAssumption
  <1>0. UNCHANGED store
    BY DEF Apply, Fail, Read, Restart
  <1> SUFFICES ASSUME NEW d \in Held(k)' PROVE d \in Held(k)
    BY <1>0
  <1>1. \/ d = store[k]
        \/ \E r \in Readers : d = copy'[r][k]
        \/ \E m \in Loaders : load'[m].kind = k /\ d = load'[m].doc
    BY <1>0 DEF Held
  <1>2. /\ store[k] \in Held(k)
        /\ \A r \in Readers : copy[r][k] \in Held(k)
        /\ \A m \in Loaders : load[m].kind = k => load[m].doc \in Held(k)
    BY DEF Held
  <1>3. CASE \E l \in Loaders : Apply(l)
    <2>1. PICK l \in Loaders : Apply(l)
      BY <1>3
    <2> DEFINE j == load[l].kind
    <2>2. l[1] \in Readers /\ j \in Kinds
      BY <2>1 DEF TypeOK, Loaders, Apply
    <2>3. copy' = [copy EXCEPT ![l[1]][j] = Newer(load[l].doc, copy[l[1]][j])]
      BY <2>1 DEF Apply
    <2>4. \A r \in Readers : copy'[r][k] = copy[r][k] \/ (j = k /\ copy'[r][k] = load[l].doc)
      BY <2>2, <2>3 DEF TypeOK, Newer
    <2>5. \A m \in Loaders : load'[m].kind = k => load'[m] = load[m]
      BY <2>1 DEF Apply, TypeOK, NotLoading, Other
    <2> QED
      BY <1>1, <1>2, <2>4, <2>5
  <1>4. CASE \E l \in Loaders : Fail(l)
    <2>1. PICK l \in Loaders : Fail(l)
      BY <1>4
    <2>2. \A m \in Loaders : load'[m].kind = k => load'[m] = load[m]
      BY <2>1 DEF Fail, TypeOK, NotLoading, Other
    <2> QED
      BY <1>1, <1>2, <2>1, <2>2 DEF Fail
  <1>5. CASE \E l \in Loaders, j \in Kinds : Read(l, j)
    <2>1. PICK l \in Loaders, j \in Kinds : Read(l, j)
      BY <1>5
    <2>2. \A m \in Loaders : load'[m] = load[m] \/ load'[m] = [kind |-> j, doc |-> store[j]]
      BY <2>1 DEF Read, TypeOK
    <2>3. copy' = copy
      BY <2>1 DEF Read
    <2> QED
      BY <1>1, <1>2, <2>2, <2>3
  <1>6. CASE \E r \in Readers : Restart(r)
    <2>1. PICK r \in Readers : Restart(r)
      BY <1>6
    <2>2. \A q \in Readers : copy'[q][k] = copy[q][k] \/ copy'[q][k] = store[k]
      BY <2>1 DEF Restart, TypeOK
    <2>3. \A m \in Loaders : load'[m].kind = k => load'[m] = load[m]
      BY <2>1 DEF Restart, TypeOK, NotLoading, Other
    <2> QED
      BY <1>1, <1>2, <2>2, <2>3
  <1> QED
    BY <1>3, <1>4, <1>5, <1>6

\* Nobody else touches what readers hold.
LEMMA OthersKeepReaders ==
    ASSUME [Next]_vars,
           ~ \/ \E l \in Loaders : Apply(l) \/ Fail(l) \/ \E j \in Kinds : Read(l, j)
             \/ \E r \in Readers : Restart(r)
    PROVE  UNCHANGED <<load, copy>>
  BY DEF Next, Publish, Change, Enqueue, Claim, Start, Lock, ReadItems, PutSnapshot, Send, Commit,
         Rollback, Requeue, Prune, vars, readers

\* A stored snapshot is newer than all that is held; readers hold what there was.
LEMMA CoherentStep ==
    ASSUME TypeOK, Values, Coherent, [Next]_vars
    PROVE  Coherent'
  <1>1. CASE \/ \E l \in Loaders : Apply(l) \/ Fail(l) \/ \E j \in Kinds : Read(l, j)
             \/ \E r \in Readers : Restart(r)
    <2>1. \A k \in Kinds : UNCHANGED store /\ Held(k)' \subseteq Held(k)
      BY <1>1, ReaderSteps
    <2>2. CASE Kinds = {}
      BY <2>2 DEF Coherent
    <2>3. CASE Kinds # {}
      BY <2>1, <2>3, CoherentFewer
    <2> QED
      BY <2>2, <2>3
  <1>2. CASE ~ \/ \E l \in Loaders : Apply(l) \/ Fail(l) \/ \E j \in Kinds : Read(l, j)
               \/ \E r \in Readers : Restart(r)
    <2>1. UNCHANGED <<load, copy>>
      BY <1>2, OthersKeepReaders
    <2> SUFFICES ASSUME NEW k \in Kinds, NEW d \in Held(k)', NEW e \in Held(k)'
                 PROVE  /\ d.version <= store'[k].version
                        /\ d.version <= e.version => d.value <= e.value
      BY DEF Coherent
    <2>2. d \in Held(k) \union {store'[k]} /\ e \in Held(k) \union {store'[k]}
      BY <2>1 DEF Held
    <2>3. /\ store[k] \in Held(k) /\ store[k].version \in Nat /\ store[k].value \in Nat
          /\ store'[k].version \in Nat /\ store'[k].value \in Nat
      BY TypeStep DEF Held, TypeOK, Document
    <2>4. /\ store[k].value <= store'[k].value /\ store[k].version <= store'[k].version
          /\ store'[k] # store[k] => store'[k].version > store[k].version
      BY StoreGrows DEF Values
    <2>5. \A f \in Held(k) :
            /\ f.version \in Nat /\ f.value \in Nat /\ f.version <= store[k].version
            /\ f.value <= store[k].value
            /\ \A g \in Held(k) : f.version <= g.version => f.value <= g.value
      <3>1. \A f \in Held(k) : f.version \in Nat /\ f.value \in Nat
        BY HeldTypes
      <3>2. \A f \in Held(k) :
              /\ f.version <= store[k].version
              /\ \A g \in Held(k) : f.version <= g.version => f.value <= g.value
        BY DEF Coherent
      <3> QED
        BY <2>3, <3>1, <3>2
    <2>6. CASE store'[k] = store[k]
      BY <2>2, <2>3, <2>5, <2>6
    <2>7. CASE store'[k] # store[k]
      <3>1. \A f \in Held(k) : f.version < store'[k].version /\ f.value <= store'[k].value
        BY <2>3, <2>4, <2>5, <2>7
      <3> QED
        BY <2>2, <2>3, <2>5, <3>1
    <2> QED
      BY <2>6, <2>7
  <1> QED
    BY <1>1, <1>2

\* A reader's copy is replaced by one that is held or stored, and no older.
LEMMA CopiesAdvance ==
    ASSUME TypeOK, NEW r \in Readers, NEW k \in Kinds, Coherent, [Next]_vars
    PROVE  \/ copy'[r][k] = copy[r][k]
           \/ copy'[r][k] \in Held(k) /\ copy'[r][k].version >= copy[r][k].version
  <1>1. copy[r][k] \in Held(k) /\ store[k] \in Held(k)
    BY DEF Held
  <1>2. /\ copy[r][k].version \in Nat /\ store[k].version \in Nat
        /\ copy[r][k].version <= store[k].version
    BY <1>1, HeldTypes DEF Coherent
  <1>3. CASE \E l \in Loaders : Apply(l)
    <2>1. PICK l \in Loaders : Apply(l)
      BY <1>3
    <2> DEFINE j == load[l].kind
    <2>2. l[1] \in Readers /\ j \in Kinds
      BY <2>1 DEF TypeOK, Loaders, Apply
    <2>3. copy' = [copy EXCEPT ![l[1]][j] = Newer(load[l].doc, copy[l[1]][j])]
      BY <2>1 DEF Apply
    <2>4. \/ copy'[r][k] = copy[r][k]
          \/ /\ j = k /\ copy'[r][k] = load[l].doc
             /\ load[l].doc.version >= copy[r][k].version
      BY <2>2, <2>3 DEF TypeOK, Newer
    <2> QED
      BY <2>4 DEF Held
  <1>4. CASE \E q \in Readers : Restart(q)
    <2>1. PICK q \in Readers : Restart(q)
      BY <1>4
    <2>2. copy'[r][k] = copy[r][k] \/ copy'[r][k] = store[k]
      BY <2>1 DEF Restart, TypeOK
    <2> QED
      BY <1>1, <1>2, <2>2
  <1>5. CASE ~(\E l \in Loaders : Apply(l)) /\ ~(\E q \in Readers : Restart(q))
    <2>1. copy' = copy
      BY <1>5 DEF Next, Publish, Change, Enqueue, Claim, Start, Lock, ReadItems, PutSnapshot, Send,
            Commit, Rollback, Requeue, Prune, Fail, Read, vars, readers
    <2> QED
      BY <2>1
  <1> QED
    BY <1>3, <1>4, <1>5

\* Every step of the system is a step of MonotoneConfig, or none.
LEMMA StepRefines ==
    ASSUME TypeOK, Values, Coherent, [Next]_vars
    PROVE  [Config!Next]_(Config!vars)
  <1> DEFINE known == [r \in Readers |-> [k \in Kinds |-> copy[r][k].value]]
  <1>1. CASE \E k \in Kinds : Change(k)
    <2>1. PICK k \in Kinds : Change(k)
      BY <1>1
    <2>2. table' = [table EXCEPT ![k] = @ + 1] /\ known' = known
      BY <2>1 DEF Change, readers
    <2> QED
      BY <2>2 DEF Config!Next, Config!Change
  <1>2. CASE ~\E k \in Kinds : Change(k)
    <2>1. table' = table
      BY <1>2 DEF Next, Publish, Enqueue, Claim, Start, Lock, ReadItems, PutSnapshot, Send, Commit,
            Rollback, Requeue, Prune, Read, Apply, Fail, Restart, vars, database
    <2>2. ASSUME NEW r \in Readers, NEW k \in Kinds
          PROVE  /\ copy'[r][k].value \in Nat
                 /\ copy'[r][k].value \in copy[r][k].value .. table[k]
      <3>1. copy[r][k] \in Held(k) /\ store[k] \in Held(k)
        BY DEF Held
      <3>2. copy[r][k].value \in Nat /\ store[k].value \in Nat /\ table[k] \in Nat
        BY <3>1, HeldTypes DEF TypeOK
      <3>3. copy'[r][k] \in Held(k) /\ copy[r][k].value <= copy'[r][k].value
        <4>1. copy[r][k].version \in Nat
          BY <3>1, HeldTypes
        <4>2. CASE copy'[r][k] = copy[r][k]
          BY <3>1, <3>2, <4>2
        <4>3. CASE copy'[r][k] \in Held(k) /\ copy'[r][k].version >= copy[r][k].version
          <5>1. copy'[r][k].version \in Nat
            BY <4>3, HeldTypes
          <5>2. copy[r][k].version <= copy'[r][k].version
            BY <4>1, <4>3, <5>1
          <5> QED
            BY <3>1, <4>3, <5>2 DEF Coherent
        <4> QED
          BY <4>2, <4>3, CopiesAdvance
      <3>4. copy'[r][k].value \in Nat /\ copy'[r][k].value <= store[k].value
        BY <3>1, <3>3, HeldTypes DEF Coherent
      <3>5. store[k].value <= table[k]
        BY DEF Values, Committed
      <3> QED
        BY <3>2, <3>3, <3>4, <3>5
    <2>3. known' \in [Readers -> [Kinds -> Nat]]
      BY <2>2
    <2>4. \A r \in Readers, k \in Kinds : known'[r][k] \in known[r][k] .. table[k]
      BY <2>2
    <2> QED
      BY <2>1, <2>3, <2>4 DEF Config!Next, Config!Learn
  <1> QED
    BY <1>1, <1>2

\* Of two documents of a kind that are stored, read or served, the one with the higher
\* version has the later changes, and none has a higher version than the stored one: so a
\* reader that keeps the higher version (snapshot.go's Reload) keeps the later state.
THEOREM CopiesCoherent == Spec => []Coherent
  <1>1. Init => Coherent
    <2> SUFFICES ASSUME Init, NEW k \in Kinds, NEW d \in Held(k) PROVE d = Empty
      BY DEF Init, Coherent, Empty
    <2> QED
      BY OutboxAssumption DEF Init, Held, NotLoading, Other
  <1>2. TypeOK /\ Values /\ Coherent /\ [Next]_vars => Coherent'
    BY CoherentStep
  <1> QED
    BY <1>1, <1>2, TypeCorrect, ValuesHold, PTL DEF Spec

\* The outbox, its publishers, snapshots, messages and readers implement the safety
\* part of MonotoneConfig: a copy is one that was current once and never steps back.
THEOREM RefinesConfig == Spec => Config!Safety
  <1>1. Init => Config!Init
    BY DEF Init, Config!Init, Empty
  <1>2. TypeOK /\ Values /\ Coherent /\ [Next]_vars => [Config!Next]_(Config!vars)
    BY StepRefines
  <1> QED
    BY <1>1, <1>2, TypeCorrect, ValuesHold, CopiesCoherent, PTL DEF Spec, Config!Safety
=============================================================================
