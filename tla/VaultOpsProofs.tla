--------------------------- MODULE VaultOpsProofs ---------------------------
(***************************************************************************)
(* What the operators of VaultOps keep, for every set of memory ids and    *)
(* contents: the lemmas of VaultProofs and SharedBundleProofs.             *)
(***************************************************************************)
EXTENDS VaultOps, WellFoundedInduction, TLAPS

-----------------------------------------------------------------------------
(* The shape of a vault and of a bundle is kept by the operators of         *)
(* VaultOps.                                                               *)

\* The hashes of a log are numbers, and so is its root's every element.
LEMMA LogHashes ==
    ASSUME NEW rs \in Seq(Receipt)
    PROVE  /\ \A i \in 1 .. Len(rs) : rs[i] \in Receipt /\ rs[i].id \in Nat
           /\ computeReceiptLogRootFrom(rs) \in SUBSET Nat
<1>1. \A i \in 1 .. Len(rs) : rs[i] \in Receipt
  OBVIOUS
<1>2. \A r \in Receipt : r.id \in Nat
  BY DEF Receipt
<1> QED
  BY <1>1, <1>2 DEF computeReceiptLogRootFrom

\* appendEvent, behind every operation, keeps a vault a vault.
LEMMA AppendEventType ==
    ASSUME NEW v \in VaultState, NEW id \in Nat, NEW op \in Operations,
           NEW a \in Addr \cup {None}, NEW s \in Addr \cup {None}
    PROVE  appendEvent(v, id, op, a, s) \in VaultState
<1> DEFINE r == buildReceipt(v, id, op, a, s)
           rs == Append(v.receipts, r)
<1>1. v.receipts \in Seq(Receipt) /\ v.active \in SUBSET Addr /\ v.sequence \in Nat
      /\ v.tombstones \in [Addr -> TombstoneState] /\ v.memories \in [Addr -> RecordState]
  BY DEF VaultState
<1>2. computeReceiptLogRootFrom(v.receipts) \in SUBSET Nat
  BY <1>1, LogHashes
<1>3. (IF v.receipts = <<>> THEN GENESIS ELSE v.receipts[Len(v.receipts)].id) \in Nat
  <2>1. CASE v.receipts = <<>>
    BY <2>1 DEF GENESIS
  <2>2. CASE v.receipts # <<>>
    <3>1. Len(v.receipts) \in 1 .. Len(v.receipts)
      BY <1>1, <2>2
    <3> QED
      BY <1>1, <2>2, <3>1, LogHashes
  <2> QED
    BY <2>1, <2>2
<1>4. r \in Receipt
  BY <1>1, <1>2, <1>3 DEF buildReceipt, Receipt
<1>5. rs \in Seq(Receipt)
  BY <1>1, <1>4
<1>6. computeReceiptLogRootFrom(rs) \in SUBSET Nat
  BY <1>5, LogHashes
<1>7. lifecycleRoots(v.active, v.tombstones, rs) \in Roots
  BY <1>1, <1>6 DEF lifecycleRoots, Roots
<1>8. appendEvent(v, id, op, a, s) =
        [v EXCEPT !.receipts = rs, !.sequence = v.sequence + 1,
                  !.roots = lifecycleRoots(v.active, v.tombstones, rs)]
  BY DEF appendEvent
<1> HIDE DEF r, rs
<1>9. v.sequence + 1 \in Nat
  BY <1>1
<1> QED
  BY <1>1, <1>5, <1>7, <1>8, <1>9 DEF VaultState

\* What appendEvent changes and what it leaves alone.
LEMMA AppendEventFields ==
    ASSUME NEW v \in VaultState, NEW id, NEW op, NEW a, NEW s
    PROVE  LET w == appendEvent(v, id, op, a, s)
           IN /\ w.receipts = Append(v.receipts, buildReceipt(v, id, op, a, s))
              /\ w.sequence = v.sequence + 1
              /\ w.active = v.active
              /\ w.tombstones = v.tombstones
              /\ w.memories = v.memories
BY DEF appendEvent, VaultState

\* The assignments of remember, updateMemory and deleteMemory before the receipt.
LEMMA AssignmentsType ==
    ASSUME NEW v \in VaultState, NEW a \in Addr, NEW b \in Addr
    PROVE  /\ StoreActive(v, a) \in VaultState
           /\ SupersedeRecord(v, a) \in VaultState
           /\ Supersede(v, a, b) \in VaultState
           /\ MarkDeleted(v, a) \in VaultState
           /\ Tombstone(v, a) \in VaultState
<1>1. StoreActive(v, a) \in VaultState
  BY DEF StoreActive, VaultState, RecordState
<1>2. SupersedeRecord(v, a) \in VaultState
  BY DEF SupersedeRecord, VaultState, RecordState
<1>3. Supersede(v, a, b) \in VaultState
  BY DEF Supersede, VaultState, RecordState, TombstoneState
<1>4. MarkDeleted(v, a) \in VaultState
  BY DEF MarkDeleted, VaultState, RecordState, None
<1>5. Tombstone(v, a) \in VaultState
  BY <1>4 DEF Tombstone, MarkDeleted, VaultState, TombstoneState, RecordState, None
<1> QED
  BY <1>1, <1>2, <1>3, <1>4, <1>5

\* A bundle is what exportBundle takes from a vault.
LEMMA BundleType ==
    ASSUME NEW v \in VaultState
    PROVE  bundleOf(v) \in Bundle
BY DEF bundleOf, VaultState, Bundle

\* What an accepted bundle restores: its own active set and tombstones, found
\* again from the receipts.
LEMMA RestoredFields ==
    ASSUME NEW b \in Bundle, reconcileImportedLifecycle(b)
    PROVE  /\ restored(b) \in VaultState
           /\ restored(b).receipts = b.receipts
           /\ restored(b).sequence = b.sequence
           /\ restored(b).active = b.active_memory_addresses
           /\ restored(b).tombstones = b.tombstones
<1> DEFINE lc == deriveReceiptLifecycle(b.receipts)[Len(b.receipts)]
           ts == mergedTombstones(lc)
           ms == reconciledState(lc, b.memory_objects)
           rt == lifecycleRoots(lc.active, ts, b.receipts)
<1>1. /\ b.memory_objects \in [Addr -> RecordState]
      /\ b.active_memory_addresses \in SUBSET Addr
      /\ b.tombstones \in [Addr -> TombstoneState]
      /\ b.receipts \in Seq(Receipt) /\ b.sequence \in Nat
  BY DEF Bundle
<1>2. /\ b.active_memory_addresses = lc.active
      /\ Tombstoned(b.tombstones) = Tombstoned(lc.tombstones)
      /\ \A a \in Tombstoned(b.tombstones) : b.tombstones[a] = lc.tombstones[a]
  BY DEF reconcileImportedLifecycle, reconciles
<1>3. restored(b) = [memories |-> ms, active |-> lc.active, tombstones |-> ts,
                     receipts |-> b.receipts, sequence |-> b.sequence, roots |-> rt]
  BY DEF restored
<1> HIDE DEF lc
<1>4. ts = b.tombstones
  <2>1. ASSUME NEW a \in Addr PROVE ts[a] = b.tombstones[a]
    <3>1. CASE a \in Tombstoned(b.tombstones)
      BY <1>2, <3>1, <2>1 DEF mergedTombstones
    <3>2. CASE a \notin Tombstoned(b.tombstones)
      BY <1>2, <3>2, <2>1 DEF mergedTombstones, Tombstoned
    <3> QED
      BY <3>1, <3>2
  <2> QED
    BY <1>1, <2>1 DEF mergedTombstones
<1>5. ms \in [Addr -> RecordState]
  BY <1>1 DEF reconciledState, RecordState, None
<1> HIDE DEF ms
<1>6. rt \in Roots
  BY <1>1, <1>2, <1>4, LogHashes DEF lifecycleRoots, Roots
<1> HIDE DEF rt
<1> QED
  BY <1>1, <1>2, <1>3, <1>4, <1>5, <1>6 DEF VaultState

-----------------------------------------------------------------------------
(* The receipt chain. *)

ChainOf(v) == verifyReceiptChain(v.receipts) /\ v.sequence = Len(v.receipts)

\* appendEvent extends a chain that verifies to a chain that verifies.
LEMMA AppendEventChain ==
    ASSUME NEW v \in VaultState, ChainOf(v),
           NEW id, NEW op, NEW a, NEW s
    PROVE  ChainOf(appendEvent(v, id, op, a, s))
<1> DEFINE r == buildReceipt(v, id, op, a, s)
           old == v.receipts
           n == Len(old)
           new == Append(old, r)
<1>1. old \in Seq(Receipt) /\ n \in Nat
  BY DEF VaultState
<1>2. /\ Len(new) = n + 1
      /\ new[n + 1] = r
      /\ \A i \in 1 .. n : new[i] = old[i]
  BY <1>1
<1>3. /\ r.sequence = v.sequence
      /\ r.previous_receipt_hash = IF old = <<>> THEN GENESIS ELSE old[n].id
      /\ r.receipt_log_root = {old[j].id : j \in 1 .. n}
  BY DEF buildReceipt, computeReceiptLogRootFrom
<1>4. v.sequence = n
  BY DEF ChainOf
<1>5. appendEvent(v, id, op, a, s).receipts = new
      /\ appendEvent(v, id, op, a, s).sequence = n + 1
  BY <1>4, AppendEventFields
<1>6. \A i \in 1 .. n :
        /\ old[i].sequence = i - 1
        /\ old[i].previous_receipt_hash = IF i = 1 THEN GENESIS ELSE old[i - 1].id
        /\ old[i].receipt_log_root = {old[j].id : j \in 1 .. i - 1}
  BY DEF ChainOf, verifyReceiptChain
<1>7. old = <<>> <=> n = 0
  BY <1>1
<1> HIDE DEF r, old, n, new
<1>8. ASSUME NEW i \in 1 .. n + 1
      PROVE  {new[j].id : j \in 1 .. i - 1} = {old[j].id : j \in 1 .. i - 1}
  BY <1>1, <1>2
<1>9. ASSUME NEW i \in 1 .. n + 1
      PROVE  /\ new[i].sequence = i - 1
             /\ new[i].previous_receipt_hash = IF i = 1 THEN GENESIS ELSE new[i - 1].id
             /\ new[i].receipt_log_root = {new[j].id : j \in 1 .. i - 1}
  <2>1. CASE i \in 1 .. n
    <3>1. new[i] = old[i] /\ (i # 1 => new[i - 1] = old[i - 1])
      BY <1>1, <1>2, <2>1
    <3> QED
      BY <1>6, <1>8, <2>1, <3>1
  <2>2. CASE i = n + 1
    <3>1. new[i] = r /\ (i # 1 => new[i - 1] = old[n]) /\ i - 1 = n /\ (i = 1 <=> old = <<>>)
      BY <1>1, <1>2, <1>7, <2>2
    <3> QED
      BY <1>3, <1>4, <1>8, <3>1
  <2> QED
    BY <1>1, <2>1, <2>2
<1> QED
  BY <1>2, <1>5, <1>9 DEF ChainOf, verifyReceiptChain
-----------------------------------------------------------------------------
(* The assignments an operation makes before its receipt. *)

\* memoryAddress of a known id and content is an address.
LEMMA UpdateAddress ==
    ASSUME NEW old \in Addr, NEW c \in Contents
    PROVE  memoryAddress(old[1], c) \in Addr
BY DEF Addr, memoryAddress

\* The assignments made before the receipt do not touch the log.
LEMMA AssignmentsKeepLog ==
    ASSUME NEW v \in VaultState, NEW a \in Addr, NEW b \in Addr
    PROVE  \A w \in {StoreActive(v, a), SupersedeRecord(v, a), Supersede(v, a, b),
                      MarkDeleted(v, a), Tombstone(v, a)} :
             w.receipts = v.receipts /\ w.sequence = v.sequence
BY DEF StoreActive, SupersedeRecord, Supersede, MarkDeleted, Tombstone, VaultState

\* No assignment of an operation removes a tombstone.
LEMMA AssignmentsKeepTombstones ==
    ASSUME NEW v \in VaultState, NEW a \in Addr, NEW b \in Addr
    PROVE  /\ Tombstoned(StoreActive(v, a).tombstones) = Tombstoned(v.tombstones)
           /\ Tombstoned(SupersedeRecord(v, a).tombstones) = Tombstoned(v.tombstones)
           /\ Tombstoned(MarkDeleted(v, a).tombstones) = Tombstoned(v.tombstones)
           /\ Tombstoned(Supersede(v, a, b).tombstones) = Tombstoned(v.tombstones) \cup {a}
           /\ Tombstoned(Tombstone(v, a).tombstones) = Tombstoned(v.tombstones) \cup {a}
BY DEF StoreActive, SupersedeRecord, Supersede, MarkDeleted, Tombstone, VaultState, Tombstoned, None

\* A tombstone keeps recall and compileContextPack from serving an address.
LEMMA TombstonedNotServed ==
    ASSUME NEW w \in VaultState, NEW T, T \subseteq Tombstoned(w.tombstones)
    PROVE  T \cap Serveable(w) = {}
BY DEF Tombstoned, Serveable

-----------------------------------------------------------------------------
(* Where a vault comes from, and what every operation makes of it. *)

\* A new vault is well formed and its empty log verifies.
LEMMA CreateVaultFacts ==
    /\ createVault \in VaultState
    /\ ChainOf(createVault)
<1>1. <<>> \in Seq(Receipt) /\ computeReceiptLogRootFrom(<<>>) \in SUBSET Nat
  BY DEF computeReceiptLogRootFrom
<1>2. [a \in Addr |-> None] \in [Addr -> RecordState]
      /\ [a \in Addr |-> None] \in [Addr -> TombstoneState]
  BY DEF RecordState, TombstoneState, None
<1>3. createVault \in VaultState
  BY <1>1, <1>2 DEF createVault, VaultState, lifecycleRoots, Roots
<1>4. createVault.receipts = <<>> /\ createVault.sequence = 0
  BY DEF createVault
<1> QED
  BY <1>3, <1>4 DEF ChainOf, verifyReceiptChain

\* reviveVault takes a bundle as it is.
LEMMA ReviveFields ==
    ASSUME NEW b \in Bundle
    PROVE  /\ reviveVault(b) \in VaultState
           /\ reviveVault(b).receipts = b.receipts
           /\ reviveVault(b).sequence = b.sequence
           /\ reviveVault(b).tombstones = b.tombstones
<1>1. /\ b.memory_objects \in [Addr -> RecordState]
      /\ b.active_memory_addresses \in SUBSET Addr
      /\ b.tombstones \in [Addr -> TombstoneState]
      /\ b.receipts \in Seq(Receipt) /\ b.sequence \in Nat
  BY DEF Bundle
<1> DEFINE rt == lifecycleRoots(b.active_memory_addresses, b.tombstones, b.receipts)
<1>2. rt \in Roots
  BY <1>1, LogHashes DEF lifecycleRoots, Roots
<1>3. reviveVault(b) = [memories |-> b.memory_objects, active |-> b.active_memory_addresses,
                        tombstones |-> b.tombstones, receipts |-> b.receipts,
                        sequence |-> b.sequence, roots |-> rt]
  BY DEF reviveVault
<1> HIDE DEF rt
<1> QED
  BY <1>1, <1>2, <1>3 DEF VaultState

\* w is a later state of the vault v: its log extends v's, still verifies if
\* v's did, and no tombstone has gone.
Continues(v, w) ==
    /\ w \in VaultState
    /\ ChainOf(v) => ChainOf(w)
    /\ Len(v.receipts) <= Len(w.receipts)
    /\ \A i \in 1 .. Len(v.receipts) : w.receipts[i] = v.receipts[i]
    /\ Tombstoned(v.tombstones) \subseteq Tombstoned(w.tombstones)

\* A receipt over assignments that keep the log continues the vault.
LEMMA AppendContinues ==
    ASSUME NEW v \in VaultState, NEW u \in VaultState,
           u.receipts = v.receipts, u.sequence = v.sequence,
           Tombstoned(v.tombstones) \subseteq Tombstoned(u.tombstones),
           NEW id \in Nat, NEW op \in Operations,
           NEW a \in Addr \cup {None}, NEW s \in Addr \cup {None}
    PROVE  /\ Continues(v, appendEvent(u, id, op, a, s))
           /\ appendEvent(u, id, op, a, s).tombstones = u.tombstones
<1> DEFINE w == appendEvent(u, id, op, a, s)
<1>1. w \in VaultState
  BY AppendEventType
<1>2. /\ w.receipts = Append(u.receipts, buildReceipt(u, id, op, a, s))
      /\ w.tombstones = u.tombstones
  BY AppendEventFields
<1>3. ChainOf(v) => ChainOf(w)
  <2>1. ChainOf(v) => ChainOf(u)
    BY DEF ChainOf
  <2> QED
    BY <2>1, AppendEventChain
<1>4. v.receipts \in Seq(Receipt)
  BY DEF VaultState
<1> HIDE DEF w
<1>5. /\ Len(v.receipts) <= Len(w.receipts)
      /\ \A i \in 1 .. Len(v.receipts) : w.receipts[i] = v.receipts[i]
  BY <1>2, <1>4
<1> QED
  BY <1>1, <1>2, <1>3, <1>5 DEF Continues, w

\* A later state of a later state is a later state.
LEMMA ContinuesTransitive ==
    ASSUME NEW u \in VaultState, NEW v, NEW w, Continues(u, v), Continues(v, w)
    PROVE  Continues(u, w)
<1>1. /\ u.receipts \in Seq(Receipt) /\ v.receipts \in Seq(Receipt)
      /\ w.receipts \in Seq(Receipt)
  BY DEF Continues, VaultState
<1> QED
  BY <1>1 DEF Continues

\* Every operation that returns normally continues the vault it is given, and
\* leaves a tombstone on what it removes.
LEMMA OperationsContinue ==
    ASSUME NEW v \in VaultState, NEW id \in Nat, NEW a \in Addr, NEW b \in Addr
    PROVE  /\ Continues(v, v)
           /\ Continues(v, remember(v, id, a))
           /\ Continues(v, recall(v, id, a))
           /\ Continues(v, exportReceipt(v, id))
           /\ Continues(v, updateMemory(v, id, a, b))
           /\ a \in Tombstoned(updateMemory(v, id, a, b).tombstones)
           /\ Continues(v, deleteMemory(v, id, a))
           /\ a \in Tombstoned(deleteMemory(v, id, a).tombstones)
<1>0. /\ {"create", "read", "update", "delete", "export"} \subseteq Operations
      /\ None \in Addr \cup {None}
  BY DEF Operations
<1>1. Continues(v, v)
  BY DEF Continues, VaultState
<1>2. Continues(v, recall(v, id, a)) /\ Continues(v, exportReceipt(v, id))
  BY <1>0, AppendContinues DEF recall, exportReceipt
<1>3. Continues(v, remember(v, id, a))
  BY <1>0, AssignmentsType, AssignmentsKeepLog, AssignmentsKeepTombstones, AppendContinues
     DEF remember
<1>4. Continues(v, updateMemory(v, id, a, b))
      /\ a \in Tombstoned(updateMemory(v, id, a, b).tombstones)
  <2> DEFINE u == Supersede(v, a, b)
  <2>1. u \in VaultState /\ u.receipts = v.receipts /\ u.sequence = v.sequence
        /\ Tombstoned(u.tombstones) = Tombstoned(v.tombstones) \cup {a}
    BY AssignmentsType, AssignmentsKeepLog, AssignmentsKeepTombstones
  <2>2. updateMemory(v, id, a, b) = appendEvent(u, id, "update", b, a)
    BY DEF updateMemory
  <2> HIDE DEF u
  <2> QED
    BY <1>0, <2>1, <2>2, AppendContinues
<1>5. Continues(v, deleteMemory(v, id, a))
      /\ a \in Tombstoned(deleteMemory(v, id, a).tombstones)
  <2> DEFINE u == Tombstone(v, a)
  <2>1. u \in VaultState /\ u.receipts = v.receipts /\ u.sequence = v.sequence
        /\ Tombstoned(u.tombstones) = Tombstoned(v.tombstones) \cup {a}
    BY AssignmentsType, AssignmentsKeepLog, AssignmentsKeepTombstones
  <2>2. deleteMemory(v, id, a) = appendEvent(u, id, "delete", a, None)
    BY DEF deleteMemory
  <2> HIDE DEF u
  <2> QED
    BY <1>0, <2>1, <2>2, AppendContinues
<1> QED
  BY <1>1, <1>2, <1>3, <1>4, <1>5

-----------------------------------------------------------------------------
(* deriveReceiptLifecycle computes what its loop says, for every log.  The   *)
(* recursion is unfolded by induction over the length of the log, stated     *)
(* with a set of numbers in the place of a predicate.                        *)

\* A set that has 0, and n + 1 with every n, has every number.
LEMMA NatInductionSet ==
    ASSUME NEW Q, 0 \in Q, \A n \in Nat : n \in Q => n + 1 \in Q
    PROVE  Nat \subseteq Q
<1> DEFINE B == Nat \ Q
           less == OpToRel(<, Nat)
<1> SUFFICES ASSUME B # {} PROVE FALSE
  OBVIOUS
<1>1. IsWellFoundedOn(less, Nat)
  BY NatLessThanWellFounded
<1>2. B \subseteq Nat
  OBVIOUS
<1>3. PICK n \in B : \A k \in B : <<k, n>> \notin less
  <2> HIDE DEF B, less
  <2> QED
    BY <1>1, <1>2, WFMin
<1>4. n \in Nat /\ n \notin Q /\ n # 0
  OBVIOUS
<1>5. n - 1 \in Nat /\ n - 1 < n /\ (n - 1) + 1 = n
  BY <1>4
<1>6. n - 1 \in B
  BY <1>4, <1>5
<1>7. <<n - 1, n>> \in less
  BY <1>4, <1>5 DEF OpToRel
<1> QED
  BY <1>3, <1>6, <1>7

NoLifecycle == [active |-> {}, tombstones |-> [a \in Addr |-> None]]

\* One iteration of the loop on both parts of the lifecycle.
deriveStep(l, r) == [active |-> deriveActive(l.active, r),
                     tombstones |-> deriveTombstones(l.tombstones, r)]

\* d is the lifecycle after each prefix of rs.
IsDerived(rs, d) ==
    d = [n \in 0 .. Len(rs) |-> IF n = 0 THEN NoLifecycle ELSE deriveStep(d[n - 1], rs[n])]

\* The recursive function of the source's loop, as it is defined.
LEMMA DerivedChosen == \A rs : deriveReceiptLifecycle(rs) = CHOOSE d : IsDerived(rs, d)
BY Zenon DEF deriveReceiptLifecycle, IsDerived, NoLifecycle, deriveStep

\* There is such a function: the loop ends on every log.
LEMMA DerivedExists ==
    ASSUME NEW rs \in Seq(Receipt)
    PROVE  \E d : IsDerived(rs, d)
<1> DEFINE N == Len(rs)
           body(d, n) == IF n = 0 THEN NoLifecycle ELSE deriveStep(d[n - 1], rs[n])
           Good(d, k) == \A n \in 0 .. N : n <= k => d[n] = body(d, n)
           Q == {k \in Nat : \E d : d = [n \in 0 .. N |-> d[n]] /\ Good(d, k)}
<1>0. N \in Nat
  OBVIOUS
<1>1. 0 \in Q
  <2> DEFINE d == [n \in 0 .. N |-> NoLifecycle]
  <2>1. d = [n \in 0 .. N |-> d[n]] /\ Good(d, 0)
    BY <1>0
  <2> QED
    BY <2>1
<1>2. ASSUME NEW k \in Nat, k \in Q PROVE k + 1 \in Q
  <2>1. PICK d : d = [n \in 0 .. N |-> d[n]] /\ Good(d, k)
    BY <1>2
  <2> DEFINE e == [n \in 0 .. N |-> body(d, n)]
  <2>2. ASSUME NEW n \in 0 .. N, n <= k + 1 PROVE e[n] = body(e, n)
    <3>1. CASE n = 0
      BY <3>1
    <3>2. CASE n # 0
      <4>1. n - 1 \in 0 .. N /\ n - 1 <= k
        BY <2>2, <3>2
      <4>2. d[n - 1] = body(d, n - 1) /\ e[n - 1] = body(d, n - 1)
        <5>1. e[n - 1] = body(d, n - 1)
          BY <4>1
        <5> HIDE DEF body
        <5> QED
          BY <2>1, <4>1, <5>1
      <4>3. e[n] = deriveStep(d[n - 1], rs[n]) /\ body(e, n) = deriveStep(e[n - 1], rs[n])
        BY <3>2
      <4> HIDE DEF e, body
      <4> QED
        BY <4>2, <4>3
    <3> QED
      BY <3>1, <3>2
  <2>3. e = [n \in 0 .. N |-> e[n]]
    OBVIOUS
  <2> HIDE DEF e, body
  <2>4. Good(e, k + 1)
    BY <2>2
  <2> QED
    BY <2>3, <2>4
<1> HIDE DEF Q
<1>3. N \in Q
  BY <1>0, <1>1, <1>2, NatInductionSet
<1>4. PICK d : d = [n \in 0 .. N |-> d[n]] /\ Good(d, N)
  BY <1>3 DEF Q
<1> HIDE DEF body
<1>5. \A n \in 0 .. N : d[n] = body(d, n)
  BY <1>0, <1>4
<1>6. d = [n \in 0 .. N |-> body(d, n)]
  BY <1>4, <1>5
<1> QED
  BY <1>6 DEF body, IsDerived

\* The lifecycle after no receipt, and after one more.
LEMMA DerivedSteps ==
    ASSUME NEW rs \in Seq(Receipt)
    PROVE  LET d == deriveReceiptLifecycle(rs)
           IN /\ d[0] = NoLifecycle
              /\ \A n \in 1 .. Len(rs) : d[n] = deriveStep(d[n - 1], rs[n])
<1> DEFINE d == deriveReceiptLifecycle(rs)
<1>1. IsDerived(rs, d)
  BY DerivedChosen, DerivedExists, Zenon
<1> HIDE DEF d
<1>2. Len(rs) \in Nat /\ d = [n \in 0 .. Len(rs) |-> IF n = 0 THEN NoLifecycle
                                                   ELSE deriveStep(d[n - 1], rs[n])]
  BY <1>1 DEF IsDerived
<1>3. d[0] = NoLifecycle
  BY <1>2
<1>4. \A n \in 1 .. Len(rs) : d[n] = deriveStep(d[n - 1], rs[n])
  BY <1>2
<1> QED
  BY <1>3, <1>4 DEF d

\* A longer log has the same lifecycle at every shorter length.
LEMMA DerivedAppend ==
    ASSUME NEW rs \in Seq(Receipt), NEW r \in Receipt
    PROVE  LET d == deriveReceiptLifecycle(rs)
               e == deriveReceiptLifecycle(Append(rs, r))
           IN /\ \A n \in 0 .. Len(rs) : e[n] = d[n]
              /\ e[Len(rs) + 1] = deriveStep(d[Len(rs)], r)
<1> DEFINE d == deriveReceiptLifecycle(rs)
           e == deriveReceiptLifecycle(Append(rs, r))
           N == Len(rs)
           Q == {n \in Nat : n <= N => e[n] = d[n]}
<1>1. /\ N \in Nat /\ Append(rs, r) \in Seq(Receipt) /\ Len(Append(rs, r)) = N + 1
      /\ Append(rs, r)[N + 1] = r /\ \A n \in 1 .. N : Append(rs, r)[n] = rs[n]
  OBVIOUS
<1>2. d[0] = NoLifecycle /\ \A n \in 1 .. N : d[n] = deriveStep(d[n - 1], rs[n])
  BY DerivedSteps
<1>3. /\ e[0] = NoLifecycle
      /\ \A n \in 1 .. N + 1 : e[n] = deriveStep(e[n - 1], Append(rs, r)[n])
  BY <1>1, DerivedSteps
<1> HIDE DEF d, e
<1>4. 0 \in Q
  BY <1>2, <1>3
<1>5. ASSUME NEW n \in Nat, n \in Q PROVE n + 1 \in Q
  <2> SUFFICES ASSUME n + 1 <= N PROVE e[n + 1] = d[n + 1]
    OBVIOUS
  <2>1. n + 1 \in 1 .. N /\ n + 1 \in 1 .. N + 1 /\ (n + 1) - 1 = n /\ n <= N
    BY <1>1
  <2>2. e[n] = d[n] /\ Append(rs, r)[n + 1] = rs[n + 1]
    BY <1>1, <1>5, <2>1
  <2> QED
    BY <1>2, <1>3, <2>1, <2>2
<1> HIDE DEF Q
<1>6. \A n \in Nat : n \in Q
  BY <1>4, <1>5, NatInductionSet
<1>7. \A n \in 0 .. N : e[n] = d[n]
  BY <1>1, <1>6 DEF Q
<1>8. N + 1 \in 1 .. N + 1 /\ (N + 1) - 1 = N /\ N \in 0 .. N
  BY <1>1
<1>9. e[N + 1] = deriveStep(d[N], r)
  BY <1>1, <1>3, <1>7, <1>8
<1> QED
  BY <1>7, <1>9 DEF d, e
=============================================================================
