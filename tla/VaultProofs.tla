---------------------------- MODULE VaultProofs ----------------------------
(***************************************************************************)
(* Proofs about the vault for every set of memory ids and contents, every  *)
(* MaxReceipts and every MaxThrows.                                        *)
(***************************************************************************)
EXTENDS Vault, VaultOpsProofs

-----------------------------------------------------------------------------
(* Type correctness. *)

\* Every step keeps the type, also one that throws half way.
LEMMA NextTypeOK == TypeOK /\ [Next]_vars => TypeOK'
<1> SUFFICES ASSUME TypeOK, [Next]_vars PROVE TypeOK'
  OBVIOUS
<1>0. vault \in VaultState /\ nextId \in Nat
  BY DEF TypeOK
<1>1. ASSUME NEW a \in Addr, Remember(a) PROVE TypeOK'
  <2>1. StoreActive(vault, a) \in VaultState
    BY <1>0, AssignmentsType
  <2>2. remember(vault, nextId, a) \in VaultState
    BY <1>0, <2>1, AppendEventType DEF remember, Operations
  <2> QED
    BY <1>1, <2>1, <2>2 DEF Remember, Receipted, Thrown, TypeOK
<1>2. ASSUME NEW a \in Addr, Recall(a) PROVE TypeOK'
  <2>1. recall(vault, nextId, a) \in VaultState
    BY <1>0, AppendEventType DEF recall, Operations
  <2> QED
    BY <1>2, <2>1 DEF Recall, Receipted, TypeOK
<1>3. ASSUME NEW a \in Addr, DeleteMemory(a) PROVE TypeOK'
  <2>1. Tombstone(vault, a) \in VaultState /\ MarkDeleted(vault, a) \in VaultState
    BY <1>0, AssignmentsType
  <2>2. deleteMemory(vault, nextId, a) \in VaultState
    BY <1>0, <2>1, AppendEventType DEF deleteMemory, Operations
  <2> QED
    BY <1>3, <2>1, <2>2 DEF DeleteMemory, Receipted, Thrown, TypeOK
<1>4. ASSUME NEW a \in Addr, NEW c \in Contents, UpdateMemory(a, c) PROVE TypeOK'
  <2> DEFINE new == memoryAddress(a[1], c)
  <2>0. new \in Addr
    BY UpdateAddress
  <2>1. Supersede(vault, a, new) \in VaultState /\ SupersedeRecord(vault, a) \in VaultState
    BY <1>0, <2>0, AssignmentsType
  <2>2. updateMemory(vault, nextId, a, new) \in VaultState
    BY <1>0, <2>0, <2>1, AppendEventType DEF updateMemory, Operations
  <2> QED
    BY <1>4, <2>1, <2>2 DEF UpdateMemory, Receipted, Thrown, TypeOK
<1>5. CASE ExportBundle
  <2>1. exportReceipt(vault, nextId) \in VaultState
    BY <1>0, AppendEventType DEF exportReceipt, Operations
  <2>2. bundle' \in Bundle
    BY <1>5, <2>1, BundleType DEF ExportBundle, Receipted
  <2> QED
    BY <1>5, <2>1, <2>2 DEF ExportBundle, Receipted, TypeOK
<1>6. CASE ImportBundle
  <2>1. bundle \in Bundle /\ reconcileImportedLifecycle(bundle)
    BY <1>6 DEF ImportBundle, TypeOK
  <2>2. restored(bundle) \in VaultState
    BY <2>1, RestoredFields
  <2>3. importBundle(bundle, nextId) \in VaultState
    BY <1>0, <2>2, AppendEventType DEF importBundle, Operations
  <2> QED
    BY <1>6, <2>3 DEF ImportBundle, Receipted, TypeOK
<1>7. CASE UNCHANGED vars
  BY <1>7 DEF vars, TypeOK
<1> QED
  BY <1>1, <1>2, <1>3, <1>4, <1>5, <1>6, <1>7 DEF Next

\* A new vault is well formed.
LEMMA InitTypeOK == Init => TypeOK
<1> SUFFICES ASSUME Init PROVE TypeOK
  OBVIOUS
<1> QED
  BY CreateVaultFacts DEF Init, TypeOK

\* Every vault and every bundle keeps its shape: in particular importBundle
\* rebuilds a well-formed vault from any bundle it accepts, and no throw half
\* way leaves a malformed one.
THEOREM TypeCorrect == Spec => []TypeOK
BY InitTypeOK, NextTypeOK, PTL DEF Spec

-----------------------------------------------------------------------------
(* The receipt chain of the live vault and of the last bundle verifies.     *)
(* Without the bundle's part the invariant is not inductive: ImportBundle    *)
(* makes the bundle's log the vault's log.                                   *)

ChainInv == /\ TypeOK
            /\ ChainOf(vault)
            /\ bundle # NoBundle => ChainOf(bundle)

\* Every step keeps both chains.
LEMMA NextChainInv == ChainInv /\ [Next]_vars => ChainInv'
<1> SUFFICES ASSUME ChainInv, [Next]_vars PROVE ChainInv'
  OBVIOUS
<1>0. vault \in VaultState /\ TypeOK /\ TypeOK'
  BY NextTypeOK DEF ChainInv, TypeOK
<1>1. ASSUME NEW w \in VaultState, w.receipts = vault.receipts, w.sequence = vault.sequence
      PROVE  ChainOf(w) /\ \A id, op, a, s : ChainOf(appendEvent(w, id, op, a, s))
  <2>1. ChainOf(w)
    BY <1>1 DEF ChainInv, ChainOf
  <2> QED
    BY <2>1, AppendEventChain
<1>2. ASSUME NEW a \in Addr, Remember(a) PROVE ChainInv'
  <2>1. StoreActive(vault, a) \in VaultState
    BY <1>0, AssignmentsType
  <2>2. ChainOf(StoreActive(vault, a)) /\ ChainOf(remember(vault, nextId, a))
    BY <1>0, <1>1, <2>1, AssignmentsKeepLog DEF remember
  <2> QED
    BY <1>0, <1>2, <2>2 DEF Remember, Receipted, Thrown, ChainInv
<1>3. ASSUME NEW a \in Addr, Recall(a) PROVE ChainInv'
  <2>1. ChainOf(recall(vault, nextId, a))
    BY <1>0, <1>1 DEF recall
  <2> QED
    BY <1>0, <1>3, <2>1 DEF Recall, Receipted, ChainInv
<1>4. ASSUME NEW a \in Addr, DeleteMemory(a) PROVE ChainInv'
  <2>1. Tombstone(vault, a) \in VaultState /\ MarkDeleted(vault, a) \in VaultState
    BY <1>0, AssignmentsType
  <2>2. ChainOf(Tombstone(vault, a)) /\ ChainOf(MarkDeleted(vault, a))
        /\ ChainOf(deleteMemory(vault, nextId, a))
    BY <1>0, <1>1, <2>1, AssignmentsKeepLog DEF deleteMemory
  <2> QED
    BY <1>0, <1>4, <2>2 DEF DeleteMemory, Receipted, Thrown, ChainInv
<1>5. ASSUME NEW a \in Addr, NEW c \in Contents, UpdateMemory(a, c) PROVE ChainInv'
  <2> DEFINE new == memoryAddress(a[1], c)
  <2>0. new \in Addr
    BY UpdateAddress
  <2>1. Supersede(vault, a, new) \in VaultState /\ SupersedeRecord(vault, a) \in VaultState
    BY <1>0, <2>0, AssignmentsType
  <2>2. ChainOf(Supersede(vault, a, new)) /\ ChainOf(SupersedeRecord(vault, a))
        /\ ChainOf(updateMemory(vault, nextId, a, new))
    BY <1>0, <1>1, <2>0, <2>1, AssignmentsKeepLog DEF updateMemory
  <2> QED
    BY <1>0, <1>5, <2>2 DEF UpdateMemory, Receipted, Thrown, ChainInv
<1>6. CASE ExportBundle
  <2>1. ChainOf(exportReceipt(vault, nextId))
    BY <1>0, <1>1 DEF exportReceipt
  <2>2. ChainOf(vault') /\ bundle' = bundleOf(vault')
    BY <1>6, <2>1 DEF ExportBundle, Receipted
  <2>3. ChainOf(bundle')
    BY <2>2 DEF ChainOf, bundleOf
  <2> QED
    BY <1>0, <2>2, <2>3 DEF ChainInv
<1>7. CASE ImportBundle
  <2>1. bundle \in Bundle /\ reconcileImportedLifecycle(bundle) /\ ChainOf(bundle)
    BY <1>7 DEF ImportBundle, TypeOK, ChainInv
  <2>2. restored(bundle) \in VaultState /\ ChainOf(restored(bundle))
    BY <2>1, RestoredFields DEF ChainOf
  <2>3. ChainOf(importBundle(bundle, nextId))
    BY <2>2, AppendEventChain DEF importBundle
  <2> QED
    BY <1>0, <1>7, <2>3 DEF ImportBundle, Receipted, ChainInv
<1>8. CASE UNCHANGED vars
  BY <1>8 DEF vars, ChainInv, TypeOK
<1> QED
  BY <1>2, <1>3, <1>4, <1>5, <1>6, <1>7, <1>8 DEF Next

\* verifyReceiptChain accepts every log the vault ever holds or serialises, for
\* any number of memories and operations, throws half way and rollbacks to an
\* old bundle included.
THEOREM ChainCorrect == Spec => []ReceiptChainVerifies
<1>1. Init => ChainInv
  <2> SUFFICES ASSUME Init PROVE ChainInv
    OBVIOUS
  <2>1. vault.receipts = <<>> /\ vault.sequence = 0 /\ bundle = NoBundle
    BY DEF Init, createVault
  <2> QED
    BY <2>1, InitTypeOK DEF ChainInv, ChainOf, verifyReceiptChain
<1>2. ChainInv => ReceiptChainVerifies
  BY DEF ChainInv, ChainOf, ReceiptChainVerifies
<1> QED
  BY <1>1, <1>2, NextChainInv, PTL DEF Spec
-----------------------------------------------------------------------------
(* What the log says about tombstones and reads stays true of the vault.    *)
(* LogSound is stated for a log and the tombstones beside it, so that it    *)
(* speaks of the vault and of the bundle alike: importBundle accepts a      *)
(* bundle only if its own tombstones are the derived ones, so the import    *)
(* cannot drop one that a delete receipt asks for.                          *)

LogSound(receipts, tombstones) ==
    \A i \in 1 .. Len(receipts) :
      /\ receipts[i].operation = "delete" => receipts[i].memory_addr \in Tombstoned(tombstones)
      /\ receipts[i].operation = "read" => receipts[i].memory_addr \in receipts[i].active_set_root

SoundInv == /\ TypeOK
            /\ LogSound(vault.receipts, vault.tombstones)
            /\ bundle # NoBundle => LogSound(bundle.receipts, bundle.tombstones)

\* A log stays sound when tombstones are added.
LEMMA LogSoundMonotone ==
    ASSUME NEW rs, NEW ts, NEW us, LogSound(rs, ts), Tombstoned(ts) \subseteq Tombstoned(us)
    PROVE  LogSound(rs, us)
BY DEF LogSound

\* appendEvent keeps a log sound if the event itself is.
LEMMA AppendEventSound ==
    ASSUME NEW v \in VaultState, LogSound(v.receipts, v.tombstones),
           NEW id, NEW op, NEW a, NEW s,
           op = "delete" => a \in Tombstoned(v.tombstones),
           op = "read" => a \in v.active
    PROVE  LET w == appendEvent(v, id, op, a, s) IN LogSound(w.receipts, w.tombstones)
<1> DEFINE r == buildReceipt(v, id, op, a, s)
           old == v.receipts
           n == Len(old)
           new == Append(old, r)
<1>1. /\ Len(new) = n + 1 /\ n \in Nat
      /\ new[n + 1] = r
      /\ \A i \in 1 .. n : new[i] = old[i]
  BY DEF VaultState
<1>2. r.operation = op /\ r.memory_addr = a /\ r.active_set_root = v.active
  BY DEF buildReceipt
<1>3. appendEvent(v, id, op, a, s).receipts = new
      /\ appendEvent(v, id, op, a, s).tombstones = v.tombstones
  BY AppendEventFields
<1> HIDE DEF r, new
<1>4. ASSUME NEW i \in 1 .. n + 1
      PROVE  /\ new[i].operation = "delete" => new[i].memory_addr \in Tombstoned(v.tombstones)
             /\ new[i].operation = "read" => new[i].memory_addr \in new[i].active_set_root
  <2>1. CASE i \in 1 .. n
    BY <1>1, <2>1 DEF LogSound
  <2>2. CASE i = n + 1
    BY <1>1, <1>2, <2>2
  <2> QED
    BY <1>1, <2>1, <2>2
<1> QED
  BY <1>1, <1>3, <1>4 DEF LogSound

\* Every step keeps both logs sound.
LEMMA NextSoundInv == SoundInv /\ [Next]_vars => SoundInv'
<1> SUFFICES ASSUME SoundInv, [Next]_vars PROVE SoundInv'
  OBVIOUS
<1> DEFINE Sound(v) == LogSound(v.receipts, v.tombstones)
<1>0. vault \in VaultState /\ TypeOK /\ TypeOK' /\ Sound(vault)
  BY NextTypeOK DEF SoundInv, TypeOK
<1>1. ASSUME NEW w, w.receipts = vault.receipts,
             Tombstoned(vault.tombstones) \subseteq Tombstoned(w.tombstones)
      PROVE  Sound(w)
  BY <1>0, <1>1, LogSoundMonotone
<1>2. ASSUME NEW a \in Addr, Remember(a) PROVE SoundInv'
  <2> DEFINE w == StoreActive(vault, a)
  <2>1. w \in VaultState /\ Sound(w)
    BY <1>0, <1>1, AssignmentsType, AssignmentsKeepLog, AssignmentsKeepTombstones
  <2>2. Sound(remember(vault, nextId, a))
    BY <2>1, AppendEventSound DEF remember
  <2> QED
    BY <1>0, <1>2, <2>1, <2>2 DEF Remember, Receipted, Thrown, SoundInv
<1>3. ASSUME NEW a \in Addr, Recall(a) PROVE SoundInv'
  <2>1. a \in vault.active
    BY <1>3 DEF Recall, Serveable
  <2>2. Sound(recall(vault, nextId, a))
    BY <1>0, <2>1, AppendEventSound DEF recall
  <2> QED
    BY <1>0, <1>3, <2>2 DEF Recall, Receipted, SoundInv
<1>4. ASSUME NEW a \in Addr, DeleteMemory(a) PROVE SoundInv'
  <2> DEFINE w == Tombstone(vault, a)
  <2>1. w \in VaultState /\ Sound(w) /\ a \in Tombstoned(w.tombstones)
    BY <1>0, <1>1, AssignmentsType, AssignmentsKeepLog, AssignmentsKeepTombstones
  <2>2. Sound(MarkDeleted(vault, a))
    BY <1>0, <1>1, AssignmentsKeepLog, AssignmentsKeepTombstones
  <2>3. Sound(deleteMemory(vault, nextId, a))
    BY <2>1, AppendEventSound DEF deleteMemory
  <2> QED
    BY <1>0, <1>4, <2>1, <2>2, <2>3 DEF DeleteMemory, Receipted, Thrown, SoundInv
<1>5. ASSUME NEW a \in Addr, NEW c \in Contents, UpdateMemory(a, c) PROVE SoundInv'
  <2> DEFINE new == memoryAddress(a[1], c)
             w == Supersede(vault, a, new)
  <2>0. new \in Addr
    BY UpdateAddress
  <2>1. w \in VaultState /\ Sound(w)
    BY <1>0, <1>1, <2>0, AssignmentsType, AssignmentsKeepLog, AssignmentsKeepTombstones
  <2>2. Sound(SupersedeRecord(vault, a))
    BY <1>0, <1>1, AssignmentsKeepLog, AssignmentsKeepTombstones
  <2>3. Sound(updateMemory(vault, nextId, a, new))
    BY <2>1, AppendEventSound DEF updateMemory
  <2> QED
    BY <1>0, <1>5, <2>1, <2>2, <2>3 DEF UpdateMemory, Receipted, Thrown, SoundInv
<1>6. CASE ExportBundle
  <2>1. Sound(exportReceipt(vault, nextId))
    BY <1>0, AppendEventSound DEF exportReceipt
  <2>2. Sound(vault') /\ bundle' = bundleOf(vault')
    BY <1>6, <2>1 DEF ExportBundle, Receipted
  <2>3. LogSound(bundle'.receipts, bundle'.tombstones)
    BY <2>2 DEF bundleOf
  <2> QED
    BY <1>0, <2>2, <2>3 DEF SoundInv
<1>7. CASE ImportBundle
  <2>1. bundle \in Bundle /\ reconcileImportedLifecycle(bundle)
        /\ LogSound(bundle.receipts, bundle.tombstones)
    BY <1>7 DEF ImportBundle, TypeOK, SoundInv
  <2>2. restored(bundle) \in VaultState /\ Sound(restored(bundle))
    BY <2>1, RestoredFields
  <2>3. Sound(importBundle(bundle, nextId))
    BY <2>2, AppendEventSound DEF importBundle
  <2> QED
    BY <1>0, <1>7, <2>3 DEF ImportBundle, Receipted, SoundInv
<1>8. CASE UNCHANGED vars
  BY <1>8 DEF vars, SoundInv, TypeOK
<1> QED
  BY <1>2, <1>3, <1>4, <1>5, <1>6, <1>7, <1>8 DEF Next

\* The empty log is sound.
LEMMA InitSoundInv == Init => SoundInv
<1> SUFFICES ASSUME Init PROVE SoundInv
  OBVIOUS
<1>1. vault.receipts = <<>> /\ bundle = NoBundle
  BY DEF Init, createVault
<1> QED
  BY <1>1, InitTypeOK DEF SoundInv, LogSound

\* Deletion is final: no sequence of remember, updateMemory, exportBundle and
\* importBundle, complete or thrown half way, leaves an address whose deletion
\* is in the log without its tombstone.
THEOREM DeletionFinal == Spec => []DeletedStaysTombstoned
<1>1. SoundInv => DeletedStaysTombstoned
  BY DEF SoundInv, LogSound, DeletedStaysTombstoned
<1> QED
  BY <1>1, InitSoundInv, NextSoundInv, PTL DEF Spec

\* Every read receipt in the log can be checked against its own active root.
THEOREM ReadsVerifiable == Spec => []ReadsWereActive
<1>1. SoundInv => ReadsWereActive
  BY DEF SoundInv, LogSound, ReadsWereActive
<1> QED
  BY <1>1, InitSoundInv, NextSoundInv, PTL DEF Spec
-----------------------------------------------------------------------------
(* A step never makes a tombstoned address serveable. *)

\* The last receipt after appendEvent is the one it built.
LEMMA AppendEventLast ==
    ASSUME NEW v \in VaultState, NEW id, NEW op, NEW a, NEW s
    PROVE  LET rs == appendEvent(v, id, op, a, s).receipts IN rs[Len(rs)].operation = op
<1>1. appendEvent(v, id, op, a, s).receipts = Append(v.receipts, buildReceipt(v, id, op, a, s))
  BY AppendEventFields
<1>2. buildReceipt(v, id, op, a, s).operation = op
  BY DEF buildReceipt
<1>3. v.receipts \in Seq(Receipt)
  BY DEF VaultState
<1> QED
  BY <1>1, <1>2, <1>3

\* remember, recall, updateMemory, deleteMemory and exportBundle leave every
\* tombstone in place, so what had one is not serveable afterwards; and
\* importBundle takes over every tombstone of its bundle.
THEOREM NeverResurrects == Spec => NoResurrection
<1> DEFINE Step == Tombstoned(IF Imports THEN bundle.tombstones ELSE vault.tombstones)
                     \cap Serveable(vault') = {}
           Keeps == Tombstoned(vault.tombstones) \subseteq Tombstoned(vault'.tombstones)
<1>1. TypeOK /\ [Next]_vars => [Step]_vars
  <2> SUFFICES ASSUME TypeOK, [Next]_vars, vars' # vars PROVE Step
    OBVIOUS
  <2>0. vault \in VaultState /\ vault' \in VaultState /\ nextId \in Nat
    BY NextTypeOK DEF TypeOK
  <2>1. ASSUME Keeps, ~Imports PROVE Step
    BY <2>0, <2>1, TombstonedNotServed
  <2>2. ASSUME NEW a \in Addr, Remember(a) PROVE Step
    <3>1. StoreActive(vault, a) \in VaultState
      BY <2>0, AssignmentsType
    <3>2. Keeps
      BY <2>0, <2>2, <3>1, AppendEventFields, AssignmentsKeepTombstones
         DEF Remember, Receipted, Thrown, remember
    <3>3. ~Imports
      BY <2>0, <2>2, <3>1, AppendEventLast DEF Remember, Receipted, Thrown, remember, Imports
    <3> QED
      BY <2>1, <3>2, <3>3
  <2>3. ASSUME NEW a \in Addr, Recall(a) PROVE Step
    <3>1. Keeps
      BY <2>0, <2>3, AppendEventFields DEF Recall, Receipted, recall
    <3>2. ~Imports
      BY <2>0, <2>3, AppendEventLast DEF Recall, Receipted, recall, Imports
    <3> QED
      BY <2>1, <3>1, <3>2
  <2>4. ASSUME NEW a \in Addr, DeleteMemory(a) PROVE Step
    <3>1. Tombstone(vault, a) \in VaultState
      BY <2>0, AssignmentsType
    <3>2. Keeps
      <4>1. deleteMemory(vault, nextId, a).tombstones = Tombstone(vault, a).tombstones
        BY <3>1, AppendEventFields DEF deleteMemory
      <4>2. vault'.tombstones \in {Tombstone(vault, a).tombstones, MarkDeleted(vault, a).tombstones}
        BY <2>4, <4>1 DEF DeleteMemory, Receipted, Thrown
      <4> QED
        BY <2>0, <4>2, AssignmentsKeepTombstones
    <3>3. ~Imports
      BY <2>0, <2>4, <3>1, AppendEventLast
         DEF DeleteMemory, Receipted, Thrown, deleteMemory, Imports
    <3> QED
      BY <2>1, <3>2, <3>3
  <2>5. ASSUME NEW a \in Addr, NEW c \in Contents, UpdateMemory(a, c) PROVE Step
    <3> DEFINE new == memoryAddress(a[1], c)
    <3>0. new \in Addr
      BY UpdateAddress
    <3>1. Supersede(vault, a, new) \in VaultState
      BY <2>0, <3>0, AssignmentsType
    <3>2. Keeps
      <4>1. updateMemory(vault, nextId, a, new).tombstones = Supersede(vault, a, new).tombstones
        BY <3>1, AppendEventFields DEF updateMemory
      <4>2. vault'.tombstones \in {Supersede(vault, a, new).tombstones,
                                   SupersedeRecord(vault, a).tombstones}
        BY <2>5, <4>1 DEF UpdateMemory, Receipted, Thrown
      <4> QED
        BY <2>0, <3>0, <4>2, AssignmentsKeepTombstones
    <3>3. ~Imports
      BY <2>0, <2>5, <3>1, AppendEventLast
         DEF UpdateMemory, Receipted, Thrown, updateMemory, Imports
    <3> QED
      BY <2>1, <3>2, <3>3
  <2>6. CASE ExportBundle
    <3>1. Keeps
      BY <2>0, <2>6, AppendEventFields DEF ExportBundle, Receipted, exportReceipt
    <3>2. ~Imports
      BY <2>0, <2>6, AppendEventLast DEF ExportBundle, Receipted, exportReceipt, Imports
    <3> QED
      BY <2>1, <3>1, <3>2
  <2>7. CASE ImportBundle
    <3>1. bundle \in Bundle /\ reconcileImportedLifecycle(bundle)
      BY <2>7 DEF ImportBundle, TypeOK
    <3>2. restored(bundle) \in VaultState /\ restored(bundle).tombstones = bundle.tombstones
      BY <3>1, RestoredFields
    <3>3. vault'.tombstones = bundle.tombstones
      BY <2>7, <3>2, AppendEventFields DEF ImportBundle, Receipted, importBundle
    <3>4. Imports
      BY <2>0, <2>7, <3>2, AppendEventLast DEF ImportBundle, Receipted, importBundle, Imports
    <3> QED
      BY <2>0, <3>3, <3>4, TombstonedNotServed
  <2> QED
    BY <2>2, <2>3, <2>4, <2>5, <2>6, <2>7 DEF Next
<1> QED
  BY <1>1, TypeCorrect, PTL DEF Spec, NoResurrection
-----------------------------------------------------------------------------
(* The active set is rebuildable from the log until an operation throws     *)
(* half way: a receipt that buildReceipt refuses leaves the active set      *)
(* changed and the log as it was.                                           *)

Replays(receipts, active) ==
    /\ \A i \in 1 .. Len(receipts) :
         receipts[i].active_set_root =
           deriveActive(IF i = 1 THEN {} ELSE receipts[i - 1].active_set_root, receipts[i])
    /\ active = LastRoot(receipts)

ReplayInv == /\ TypeOK
             /\ throws = 0 =>
                  /\ Replays(vault.receipts, vault.active)
                  /\ bundle # NoBundle => Replays(bundle.receipts, bundle.active_memory_addresses)

\* v is the vault before an operation, w the vault its receipt is built from.
LEMMA AppendEventReplays ==
    ASSUME NEW v \in VaultState, NEW w \in VaultState, NEW id, NEW op, NEW a, NEW s,
           w.receipts = v.receipts, Replays(v.receipts, v.active),
           w.active = deriveActive(v.active, buildReceipt(w, id, op, a, s))
    PROVE  LET u == appendEvent(w, id, op, a, s) IN Replays(u.receipts, u.active)
<1> DEFINE r == buildReceipt(w, id, op, a, s)
           old == v.receipts
           n == Len(old)
           new == Append(old, r)
<1>1. /\ Len(new) = n + 1 /\ n \in Nat /\ (old = <<>> <=> n = 0) /\ new # <<>>
      /\ new[n + 1] = r
      /\ \A i \in 1 .. n : new[i] = old[i]
  BY DEF VaultState
<1>2. r.active_set_root = w.active
  BY DEF buildReceipt
<1>3. appendEvent(w, id, op, a, s).receipts = new /\ appendEvent(w, id, op, a, s).active = w.active
  BY AppendEventFields
<1>4. v.active = IF n = 0 THEN {} ELSE old[n].active_set_root
  BY <1>1 DEF Replays, LastRoot
<1>5. w.active = deriveActive(v.active, r)
  OBVIOUS
<1> HIDE DEF r, new
<1>6. ASSUME NEW i \in 1 .. n + 1
      PROVE  new[i].active_set_root =
               deriveActive(IF i = 1 THEN {} ELSE new[i - 1].active_set_root, new[i])
  <2>1. CASE i \in 1 .. n
    <3>1. new[i] = old[i] /\ (i # 1 => new[i - 1] = old[i - 1])
      BY <1>1, <2>1
    <3> QED
      BY <2>1, <3>1 DEF Replays
  <2>2. CASE i = n + 1
    <3>1. new[i] = r /\ (IF i = 1 THEN {} ELSE new[i - 1].active_set_root) = v.active
      BY <1>1, <1>4, <2>2
    <3> QED
      BY <1>2, <1>5, <3>1
  <2> QED
    BY <1>1, <2>1, <2>2
<1>7. w.active = LastRoot(new)
  BY <1>1, <1>2 DEF LastRoot
<1> QED
  BY <1>1, <1>3, <1>6, <1>7 DEF Replays

\* Every step that does not throw keeps the replay.
LEMMA NextReplayInv == ReplayInv /\ [Next]_vars => ReplayInv'
<1>a. ASSUME TypeOK, [Next]_vars, throws' = 0 PROVE throws = 0
  BY <1>a DEF TypeOK, Next, vars, Remember, Recall, UpdateMemory, DeleteMemory, ExportBundle,
              ImportBundle, Receipted, Thrown
<1> SUFFICES ASSUME ReplayInv, [Next]_vars, throws' = 0 PROVE ReplayInv'
  BY NextTypeOK DEF ReplayInv
<1> DEFINE R(v) == Replays(v.receipts, v.active)
<1>0. vault \in VaultState /\ TypeOK /\ TypeOK' /\ R(vault) /\ throws = 0
  BY <1>a, NextTypeOK DEF ReplayInv, TypeOK
<1>1. ASSUME NEW v, Thrown(v) PROVE FALSE
  BY <1>0, <1>1 DEF Thrown, TypeOK
<1>2. ASSUME NEW a \in Addr, Remember(a) PROVE ReplayInv'
  <2> DEFINE w == StoreActive(vault, a)
  <2>1. w \in VaultState /\ w.receipts = vault.receipts /\ w.active = vault.active \cup {a}
    BY <1>0, AssignmentsType, AssignmentsKeepLog DEF StoreActive, VaultState
  <2>2. R(remember(vault, nextId, a))
    <3>1. w.active = deriveActive(vault.active, buildReceipt(w, nextId, "create", a, None))
      BY <2>1 DEF deriveActive, buildReceipt
    <3> HIDE DEF w
    <3>2. R(appendEvent(w, nextId, "create", a, None))
      BY <1>0, <2>1, <3>1, AppendEventReplays
    <3> QED
      BY <3>2 DEF remember, w
  <2> QED
    BY <1>0, <1>1, <1>2, <2>2 DEF Remember, Receipted, ReplayInv
<1>3. ASSUME NEW a \in Addr, Recall(a) PROVE ReplayInv'
  <2>1. vault.active = deriveActive(vault.active, buildReceipt(vault, nextId, "read", a, None))
    BY DEF deriveActive, buildReceipt
  <2>2. R(recall(vault, nextId, a))
    BY <1>0, <2>1, AppendEventReplays DEF recall
  <2> QED
    BY <1>0, <1>3, <2>2 DEF Recall, Receipted, ReplayInv
<1>4. ASSUME NEW a \in Addr, DeleteMemory(a) PROVE ReplayInv'
  <2> DEFINE w == Tombstone(vault, a)
  <2>1. w \in VaultState /\ w.receipts = vault.receipts /\ w.active = vault.active \ {a}
    <3>1. w.active = vault.active \ {a}
      BY <1>0 DEF Tombstone, MarkDeleted, VaultState
    <3> QED
      BY <1>0, <3>1, AssignmentsType, AssignmentsKeepLog
  <2>2. R(deleteMemory(vault, nextId, a))
    <3>1. w.active = deriveActive(vault.active, buildReceipt(w, nextId, "delete", a, None))
      BY <2>1 DEF deriveActive, buildReceipt
    <3> HIDE DEF w
    <3>2. R(appendEvent(w, nextId, "delete", a, None))
      BY <1>0, <2>1, <3>1, AppendEventReplays
    <3> QED
      BY <3>2 DEF deleteMemory, w
  <2> QED
    BY <1>0, <1>1, <1>4, <2>2 DEF DeleteMemory, Receipted, ReplayInv
<1>5. ASSUME NEW a \in Addr, NEW c \in Contents, UpdateMemory(a, c) PROVE ReplayInv'
  <2> DEFINE new == memoryAddress(a[1], c)
             w == Supersede(vault, a, new)
  <2>0. new \in Addr
    BY UpdateAddress
  <2>1. w \in VaultState /\ w.receipts = vault.receipts
        /\ w.active = (vault.active \ {a}) \cup {new}
    <3>1. w.active = (vault.active \ {a}) \cup {new}
      BY <1>0 DEF Supersede, VaultState
    <3> QED
      BY <1>0, <2>0, <3>1, AssignmentsType, AssignmentsKeepLog
  <2>2. R(updateMemory(vault, nextId, a, new))
    <3>1. w.active = deriveActive(vault.active, buildReceipt(w, nextId, "update", new, a))
      BY <2>1 DEF deriveActive, buildReceipt
    <3> HIDE DEF w
    <3>2. R(appendEvent(w, nextId, "update", new, a))
      BY <1>0, <2>1, <3>1, AppendEventReplays
    <3> QED
      BY <3>2 DEF updateMemory, w
  <2> QED
    BY <1>0, <1>1, <1>5, <2>2 DEF UpdateMemory, Receipted, ReplayInv
<1>6. CASE ExportBundle
  <2>1. vault.active = deriveActive(vault.active, buildReceipt(vault, nextId, "export", None, None))
    BY DEF deriveActive, buildReceipt
  <2>2. R(exportReceipt(vault, nextId))
    BY <1>0, <2>1, AppendEventReplays DEF exportReceipt
  <2>3. R(vault') /\ bundle' = bundleOf(vault')
    BY <1>6, <2>2 DEF ExportBundle, Receipted
  <2>4. Replays(bundle'.receipts, bundle'.active_memory_addresses)
    BY <2>3 DEF bundleOf
  <2> QED
    BY <1>0, <2>3, <2>4 DEF ReplayInv
<1>7. CASE ImportBundle
  <2>1. bundle \in Bundle /\ reconcileImportedLifecycle(bundle)
        /\ Replays(bundle.receipts, bundle.active_memory_addresses)
    BY <1>0, <1>7 DEF ImportBundle, TypeOK, ReplayInv
  <2>2. restored(bundle) \in VaultState /\ R(restored(bundle))
    BY <2>1, RestoredFields
  <2>3. restored(bundle).active =
          deriveActive(restored(bundle).active,
                       buildReceipt(restored(bundle), nextId, "import", None, None))
    BY DEF deriveActive, buildReceipt
  <2>4. R(importBundle(bundle, nextId))
    BY <2>2, <2>3, AppendEventReplays DEF importBundle
  <2> QED
    BY <1>0, <1>7, <2>4 DEF ImportBundle, Receipted, ReplayInv
<1>8. CASE UNCHANGED vars
  BY <1>8 DEF vars, ReplayInv, TypeOK
<1> QED
  BY <1>2, <1>3, <1>4, <1>5, <1>6, <1>7, <1>8 DEF Next

\* Until a call throws half way the receipts determine the active set: each
\* receipt's root follows from the one before it, and the last is the live set.
THEOREM ReceiptsDetermineActive == Spec => []ActiveRebuildable
<1>1. Init => ReplayInv
  <2> SUFFICES ASSUME Init PROVE ReplayInv
    OBVIOUS
  <2>1. vault.receipts = <<>> /\ vault.active = {} /\ bundle = NoBundle
    BY DEF Init, createVault
  <2> QED
    BY <2>1, InitTypeOK DEF ReplayInv, Replays, LastRoot
<1>2. ReplayInv => ActiveRebuildable
  BY DEF ReplayInv, Replays, ActiveRebuildable
<1> QED
  BY <1>1, <1>2, NextReplayInv, PTL DEF Spec
-----------------------------------------------------------------------------
(* What importBundle derives from the log agrees with the vault beside it    *)
(* until an operation throws half way.  An address that updateMemory made    *)
(* active again keeps its tombstone in the vault and loses it in the         *)
(* derivation: there, and only there, the two differ.                        *)

\* The receipts carry the derived active sets, and the last is the live one.
RootsDerived(v, d) == /\ \A i \in 1 .. Len(v.receipts) : v.receipts[i].active_set_root = d[i].active
                      /\ v.active = d[Len(v.receipts)].active

\* A derived tombstone l and the tombstone and record of the vault, at address a.
AddressAgrees(v, l, a) ==
    IF a \in v.active
    THEN l = None /\ v.memories[a] = "active"
    ELSE /\ l = v.tombstones[a]
         /\ v.memories[a] = CASE v.tombstones[a] = "update" -> "superseded"
                              [] v.tombstones[a] = "delete" -> "tombstoned"
                              [] OTHER -> None

Rebuilds(v) ==
    LET d == deriveReceiptLifecycle(v.receipts)
        lifecycle == d[Len(v.receipts)]
    IN /\ RootsDerived(v, d)
       /\ lifecycle.tombstones \in [Addr -> TombstoneState]
       /\ \A a \in Addr : AddressAgrees(v, lifecycle.tombstones[a], a)

RebuildInv == /\ TypeOK
              /\ throws = 0 => /\ Rebuilds(vault)
                               /\ bundle # NoBundle => Rebuilds(reviveVault(bundle))

\* The vault agrees with derived tombstones l everywhere.
Agrees(v, l) == l \in [Addr -> TombstoneState] /\ \A a \in Addr : AddressAgrees(v, l[a], a)

\* appendEvent keeps the agreement if the assignments before it are what the
\* derivation makes of the receipt.
LEMMA AppendEventRebuilds ==
    ASSUME NEW v \in VaultState, NEW w \in VaultState, NEW id \in Nat, NEW op \in Operations,
           NEW a \in Addr \cup {None}, NEW s \in Addr \cup {None},
           w.receipts = v.receipts, Rebuilds(v),
           w.active = deriveActive(v.active, buildReceipt(w, id, op, a, s)),
           \A l : Agrees(v, l) => Agrees(w, deriveTombstones(l, buildReceipt(w, id, op, a, s)))
    PROVE  Rebuilds(appendEvent(w, id, op, a, s))
<1> DEFINE r == buildReceipt(w, id, op, a, s)
           u == appendEvent(w, id, op, a, s)
           old == v.receipts
           n == Len(old)
           d == deriveReceiptLifecycle(old)
           e == deriveReceiptLifecycle(Append(old, r))
<1>1. /\ u.receipts = Append(old, r) /\ u.active = w.active /\ u.tombstones = w.tombstones
      /\ u.memories = w.memories /\ r.active_set_root = w.active
  BY AppendEventFields DEF buildReceipt
<1>2. u \in VaultState
  BY AppendEventType
<1>3. /\ old \in Seq(Receipt) /\ u.receipts \in Seq(Receipt)
  BY <1>2 DEF VaultState
<1> HIDE DEF r, u
<1>4. /\ n \in Nat /\ Len(u.receipts) = n + 1 /\ u.receipts[n + 1] = r
      /\ \A i \in 1 .. n : u.receipts[i] = old[i]
  BY <1>1, <1>3
<1>5. r \in Receipt
  BY <1>3, <1>4
<1>6. (\A i \in 0 .. n : e[i] = d[i]) /\ e[n + 1] = deriveStep(d[n], r)
  BY <1>3, <1>5, DerivedAppend
<1>7. RootsDerived(v, d) /\ Agrees(v, d[n].tombstones)
  BY DEF Rebuilds, Agrees
<1> HIDE DEF d, e
<1>8. e[n + 1].active = w.active /\ e[n + 1].tombstones = deriveTombstones(d[n].tombstones, r)
  BY <1>6, <1>7 DEF deriveStep, RootsDerived, r
<1>9. RootsDerived(u, e)
  <2>1. ASSUME NEW i \in 1 .. n + 1 PROVE u.receipts[i].active_set_root = e[i].active
    <3>1. CASE i = n + 1
      BY <1>1, <1>4, <1>8, <3>1
    <3>2. CASE i # n + 1
      <4>1. i \in 1 .. n /\ i \in 0 .. n
        BY <1>4, <3>2
      <4> QED
        BY <1>4, <1>6, <1>7, <4>1 DEF RootsDerived
    <3> QED
      BY <3>1, <3>2
  <2> QED
    BY <1>1, <1>4, <1>8, <2>1 DEF RootsDerived
<1>10. Agrees(w, e[n + 1].tombstones)
  BY <1>7, <1>8 DEF r
<1>11. Agrees(u, e[n + 1].tombstones)
  BY <1>1, <1>10 DEF Agrees, AddressAgrees
<1> QED
  BY <1>1, <1>4, <1>9, <1>11 DEF Rebuilds, Agrees, e, u

\* The assignments of each operation are what the derivation makes of its receipt.
LEMMA RememberAgrees ==
    ASSUME NEW v \in VaultState, NEW a \in Addr, NEW id, NEW l, Agrees(v, l)
    PROVE  LET w == StoreActive(v, a)
           IN Agrees(w, deriveTombstones(l, buildReceipt(w, id, "create", a, None)))
<1> DEFINE w == StoreActive(v, a)
           k == [l EXCEPT ![a] = None]
<1>1. deriveTombstones(l, buildReceipt(w, id, "create", a, None)) = k
  BY DEF deriveTombstones, buildReceipt
<1>2. /\ w.active = v.active \cup {a} /\ w.tombstones = v.tombstones
      /\ w.memories = [v.memories EXCEPT ![a] = "active"]
  BY DEF StoreActive, VaultState
<1>3. v.memories \in [Addr -> RecordState] /\ l \in [Addr -> TombstoneState]
  BY DEF VaultState, Agrees
<1> HIDE DEF w
<1>4. k \in [Addr -> TombstoneState]
  BY <1>3 DEF TombstoneState, None
<1>5. ASSUME NEW x \in Addr PROVE AddressAgrees(w, k[x], x)
  <2>1. AddressAgrees(v, l[x], x)
    BY DEF Agrees
  <2>2. CASE x = a
    BY <1>2, <1>3, <2>2 DEF AddressAgrees
  <2>3. CASE x # a
    <3>1. k[x] = l[x] /\ w.memories[x] = v.memories[x] /\ (x \in w.active <=> x \in v.active)
      BY <1>2, <1>3, <2>3
    <3> QED
      BY <1>2, <2>1, <3>1 DEF AddressAgrees
  <2> QED
    BY <2>2, <2>3
<1> QED
  BY <1>1, <1>4, <1>5 DEF Agrees, w

\* So are the assignments of updateMemory.
LEMMA UpdateAgrees ==
    ASSUME NEW v \in VaultState, NEW old \in Addr, NEW new \in Addr, NEW id, NEW l, Agrees(v, l)
    PROVE  LET w == Supersede(v, old, new)
           IN Agrees(w, deriveTombstones(l, buildReceipt(w, id, "update", new, old)))
<1> DEFINE w == Supersede(v, old, new)
           k == [l EXCEPT ![old] = "update", ![new] = None]
<1>1. deriveTombstones(l, buildReceipt(w, id, "update", new, old)) = k
  BY DEF deriveTombstones, buildReceipt
<1>2. /\ w.active = (v.active \ {old}) \cup {new}
      /\ w.tombstones = [v.tombstones EXCEPT ![old] = "update"]
      /\ w.memories = [v.memories EXCEPT ![old] = "superseded", ![new] = "active"]
  BY DEF Supersede, VaultState
<1>3. /\ v.memories \in [Addr -> RecordState] /\ v.tombstones \in [Addr -> TombstoneState]
      /\ l \in [Addr -> TombstoneState]
  BY DEF VaultState, Agrees
<1> HIDE DEF w
<1>4. k \in [Addr -> TombstoneState]
  BY <1>3 DEF TombstoneState, None
<1>5. ASSUME NEW x \in Addr PROVE AddressAgrees(w, k[x], x)
  <2>1. AddressAgrees(v, l[x], x)
    BY DEF Agrees
  <2>2. CASE x = new
    <3>1. x \in w.active /\ k[x] = None /\ w.memories[x] = "active"
      BY <1>2, <1>3, <2>2
    <3> QED
      BY <3>1 DEF AddressAgrees
  <2>3. CASE x = old /\ x # new
    <3>1. /\ x \notin w.active /\ k[x] = "update" /\ w.tombstones[x] = "update"
          /\ w.memories[x] = "superseded"
      BY <1>2, <1>3, <2>3
    <3> QED
      BY <3>1 DEF AddressAgrees
  <2>4. CASE x # old /\ x # new
    <3>1. /\ k[x] = l[x] /\ w.memories[x] = v.memories[x] /\ w.tombstones[x] = v.tombstones[x]
          /\ x \in w.active <=> x \in v.active
      BY <1>2, <1>3, <2>4
    <3> QED
      BY <2>1, <3>1 DEF AddressAgrees
  <2> QED
    BY <2>2, <2>3, <2>4
<1> QED
  BY <1>1, <1>4, <1>5 DEF Agrees, w

\* So are the assignments of deleteMemory.
LEMMA DeleteAgrees ==
    ASSUME NEW v \in VaultState, NEW a \in Addr, a \in v.active, NEW id, NEW l, Agrees(v, l)
    PROVE  LET w == Tombstone(v, a)
           IN Agrees(w, deriveTombstones(l, buildReceipt(w, id, "delete", a, None)))
<1> DEFINE w == Tombstone(v, a)
           k == [l EXCEPT ![a] = "delete"]
<1>1. deriveTombstones(l, buildReceipt(w, id, "delete", a, None)) = k
  BY DEF deriveTombstones, buildReceipt
<1>2. v.memories[a] = "active"
  BY DEF Agrees, AddressAgrees
<1>3. /\ w.active = v.active \ {a} /\ w.tombstones = [v.tombstones EXCEPT ![a] = "delete"]
      /\ w.memories = [v.memories EXCEPT ![a] = "tombstoned"]
  BY <1>2 DEF Tombstone, MarkDeleted, VaultState, None
<1>4. /\ v.memories \in [Addr -> RecordState] /\ v.tombstones \in [Addr -> TombstoneState]
      /\ l \in [Addr -> TombstoneState]
  BY DEF VaultState, Agrees
<1> HIDE DEF w
<1>5. k \in [Addr -> TombstoneState]
  BY <1>4 DEF TombstoneState
<1>6. ASSUME NEW x \in Addr PROVE AddressAgrees(w, k[x], x)
  <2>1. AddressAgrees(v, l[x], x)
    BY DEF Agrees
  <2>2. CASE x = a
    <3>1. /\ x \notin w.active /\ k[x] = "delete" /\ w.tombstones[x] = "delete"
          /\ w.memories[x] = "tombstoned"
      BY <1>3, <1>4, <2>2
    <3> QED
      BY <3>1 DEF AddressAgrees
  <2>3. CASE x # a
    <3>1. /\ k[x] = l[x] /\ w.memories[x] = v.memories[x] /\ w.tombstones[x] = v.tombstones[x]
          /\ x \in w.active <=> x \in v.active
      BY <1>3, <1>4, <2>3
    <3> QED
      BY <2>1, <3>1 DEF AddressAgrees
  <2> QED
    BY <2>2, <2>3
<1> QED
  BY <1>1, <1>5, <1>6 DEF Agrees, w

\* read, export and import receipts derive nothing.
LEMMA OthersAgree ==
    ASSUME NEW v, NEW id, NEW op, op \in {"read", "export", "import"}, NEW a, NEW s
    PROVE  LET r == buildReceipt(v, id, op, a, s)
           IN deriveActive(v.active, r) = v.active /\ \A l : deriveTombstones(l, r) = l
BY DEF deriveActive, deriveTombstones, buildReceipt

\* A vault that its log rebuilds is exactly what an import of its export gives,
\* unless an address is both active and tombstoned, and then it is refused.
LEMMA RebuildsImports ==
    ASSUME NEW v \in VaultState, Rebuilds(v), NEW b \in Bundle,
           b.memory_objects = v.memories, b.active_memory_addresses = v.active,
           b.tombstones = v.tombstones, b.receipts = v.receipts
    PROVE  /\ b.active_set_root = v.active =>
                (reconcileImportedLifecycle(b) <=> v.active \cap Tombstoned(v.tombstones) = {})
           /\ reconcileImportedLifecycle(b) => restored(b).memories = v.memories
<1> DEFINE d == deriveReceiptLifecycle(v.receipts)
           n == Len(v.receipts)
           l == d[n].tombstones
<1>1. RootsDerived(v, d) /\ Agrees(v, l)
  BY DEF Rebuilds, Agrees
<1>2. /\ v.memories \in [Addr -> RecordState] /\ v.tombstones \in [Addr -> TombstoneState]
      /\ v.active \subseteq Addr
  BY DEF VaultState
<1>3. reconcileImportedLifecycle(b) <=> reconciles(b, d)
  BY DEF reconcileImportedLifecycle
<1>4. restored(b).memories = reconciledState(d[n], v.memories)
  BY DEF restored
<1> HIDE DEF d
<1>5. /\ \A a \in Addr : a \in v.active => l[a] = None
      /\ \A a \in Addr : a \notin v.active => l[a] = v.tombstones[a]
      /\ \A a \in Addr : v.memories[a] = "active" => a \in v.active
  <2>1. \A a \in Addr : AddressAgrees(v, l[a], a)
    BY <1>1 DEF Agrees
  <2> HIDE DEF l
  <2> QED
    BY <1>2, <2>1 DEF AddressAgrees, None
<1>a. \A t, a : a \in Tombstoned(t) <=> a \in Addr /\ t[a] # None
  BY DEF Tombstoned
<1>6. ASSUME v.active \cap Tombstoned(v.tombstones) = {}, b.active_set_root = v.active
      PROVE  reconciles(b, d)
  <2>1. ASSUME NEW a \in Addr PROVE l[a] = v.tombstones[a]
    <3> HIDE DEF l
    <3>1. CASE a \in v.active
      <4>1. a \notin Tombstoned(v.tombstones)
        BY <1>6, <3>1
      <4> QED
        BY <1>5, <1>a, <3>1, <4>1
    <3>2. CASE a \notin v.active
      BY <1>5, <3>2
    <3> QED
      BY <3>1, <3>2
  <2>2. Tombstoned(v.tombstones) = Tombstoned(l)
    BY <2>1 DEF Tombstoned
  <2>3. /\ \A i \in 1 .. n : v.receipts[i].active_set_root = d[i].active
        /\ v.active = d[n].active
    BY <1>1 DEF RootsDerived
  <2>4. \A a \in Tombstoned(v.tombstones) : v.tombstones[a] = l[a]
    BY <1>a, <2>1
  <2>5. \A a \in Addr : v.memories[a] = "active" => a \in v.active
    BY <1>5
  <2> QED
    BY <1>6, <2>2, <2>3, <2>4, <2>5 DEF reconciles
<1>7. ASSUME reconciles(b, d) PROVE v.active \cap Tombstoned(v.tombstones) = {}
  <2>1. Tombstoned(v.tombstones) = Tombstoned(l)
    BY <1>7 DEF reconciles
  <2> HIDE DEF l
  <2>2. \A a \in v.active : a \notin Tombstoned(l)
    BY <1>2, <1>5, <1>a
  <2> QED
    BY <2>1, <2>2
<1>8. ASSUME reconciles(b, d) PROVE reconciledState(d[n], v.memories) = v.memories
  <2>1. ASSUME NEW a \in Addr PROVE reconciledState(d[n], v.memories)[a] = v.memories[a]
    <3>1. AddressAgrees(v, l[a], a)
      BY <1>1 DEF Agrees
    <3>2. d[n].active = v.active /\ l[a] \in TombstoneState
      BY <1>1 DEF RootsDerived, Agrees
    <3>3. CASE a \in v.active
      BY <3>1, <3>2, <3>3 DEF AddressAgrees, reconciledState, None
    <3>4. CASE a \notin v.active
      BY <3>1, <3>2, <3>4 DEF AddressAgrees, reconciledState, None
    <3> QED
      BY <3>3, <3>4
  <2> QED
    BY <1>2, <2>1 DEF reconciledState
<1> QED
  BY <1>3, <1>4, <1>6, <1>7, <1>8

\* Every step keeps the vault and the bundle rebuildable.
LEMMA NextRebuildInv == RebuildInv /\ [Next]_vars => RebuildInv'
<1>a. ASSUME TypeOK, [Next]_vars, throws' = 0 PROVE throws = 0
  BY <1>a DEF TypeOK, Next, vars, Remember, Recall, UpdateMemory, DeleteMemory, ExportBundle,
              ImportBundle, Receipted, Thrown
<1> SUFFICES ASSUME RebuildInv, [Next]_vars, throws' = 0 PROVE RebuildInv'
  BY NextTypeOK DEF RebuildInv
<1>0. /\ vault \in VaultState /\ nextId \in Nat /\ TypeOK /\ TypeOK' /\ throws = 0
      /\ Rebuilds(vault)
  BY <1>a, NextTypeOK DEF RebuildInv, TypeOK
<1>1. ASSUME NEW v, Thrown(v) PROVE FALSE
  BY <1>0, <1>1 DEF Thrown, TypeOK
<1>2. ASSUME UNCHANGED bundle, Rebuilds(vault') PROVE RebuildInv'
  BY <1>0, <1>2 DEF RebuildInv
<1>3. ASSUME NEW v \in VaultState, Rebuilds(v), NEW op, op \in {"read", "export", "import"},
             NEW x \in Addr \cup {None}
      PROVE  Rebuilds(appendEvent(v, nextId, op, x, None))
  <2>1. op \in Operations
    BY <1>3 DEF Operations
  <2> DEFINE r == buildReceipt(v, nextId, op, x, None)
  <2>2. deriveActive(v.active, r) = v.active /\ \A l : deriveTombstones(l, r) = l
    BY <1>3, OthersAgree
  <2> HIDE DEF r
  <2>3. v.active = deriveActive(v.active, r)
        /\ \A l : Agrees(v, l) => Agrees(v, deriveTombstones(l, r))
    BY <2>2
  <2> QED
    BY <1>0, <1>3, <2>1, <2>3, AppendEventRebuilds DEF r
<1>4. ASSUME NEW a \in Addr, Remember(a) PROVE RebuildInv'
  <2> DEFINE w == StoreActive(vault, a)
             op == "create"
  <2>1. w \in VaultState /\ w.receipts = vault.receipts /\ w.active = vault.active \cup {a}
    BY <1>0, AssignmentsType, AssignmentsKeepLog DEF StoreActive, VaultState
  <2>2. w.active = deriveActive(vault.active, buildReceipt(w, nextId, op, a, None))
    BY <2>1 DEF deriveActive, buildReceipt
  <2>3. \A l : Agrees(vault, l) =>
                 Agrees(w, deriveTombstones(l, buildReceipt(w, nextId, op, a, None)))
    BY <1>0, RememberAgrees
  <2>4. remember(vault, nextId, a) = appendEvent(w, nextId, op, a, None) /\ op \in Operations
    BY DEF remember, Operations
  <2> HIDE DEF w, op
  <2>5. Rebuilds(appendEvent(w, nextId, op, a, None))
    BY <1>0, <2>1, <2>2, <2>3, <2>4, AppendEventRebuilds
  <2> QED
    BY <1>1, <1>2, <1>4, <2>4, <2>5 DEF Remember, Receipted
<1>5. ASSUME NEW a \in Addr, Recall(a) PROVE RebuildInv'
  BY <1>0, <1>2, <1>3, <1>5 DEF Recall, Receipted, recall
<1>6. ASSUME NEW a \in Addr, DeleteMemory(a) PROVE RebuildInv'
  <2> DEFINE w == Tombstone(vault, a)
             op == "delete"
  <2>1. w \in VaultState /\ w.receipts = vault.receipts /\ w.active = vault.active \ {a}
    <3>1. w.active = vault.active \ {a}
      BY <1>0 DEF Tombstone, MarkDeleted, VaultState
    <3> QED
      BY <1>0, <3>1, AssignmentsType, AssignmentsKeepLog
  <2>2. w.active = deriveActive(vault.active, buildReceipt(w, nextId, op, a, None))
    BY <2>1 DEF deriveActive, buildReceipt
  <2>3. \A l : Agrees(vault, l) =>
                 Agrees(w, deriveTombstones(l, buildReceipt(w, nextId, op, a, None)))
    BY <1>0, <1>6, DeleteAgrees DEF DeleteMemory, CanDelete
  <2>4. deleteMemory(vault, nextId, a) = appendEvent(w, nextId, op, a, None) /\ op \in Operations
    BY DEF deleteMemory, Operations
  <2> HIDE DEF w, op
  <2>5. Rebuilds(appendEvent(w, nextId, op, a, None))
    BY <1>0, <2>1, <2>2, <2>3, <2>4, AppendEventRebuilds
  <2> QED
    BY <1>1, <1>2, <1>6, <2>4, <2>5 DEF DeleteMemory, Receipted
<1>7. ASSUME NEW a \in Addr, NEW c \in Contents, UpdateMemory(a, c) PROVE RebuildInv'
  <2> DEFINE new == memoryAddress(a[1], c)
             w == Supersede(vault, a, new)
             op == "update"
  <2>0. new \in Addr
    BY UpdateAddress
  <2>1. w \in VaultState /\ w.receipts = vault.receipts
        /\ w.active = (vault.active \ {a}) \cup {new}
    <3>1. w.active = (vault.active \ {a}) \cup {new}
      BY <1>0 DEF Supersede, VaultState
    <3> QED
      BY <1>0, <2>0, <3>1, AssignmentsType, AssignmentsKeepLog
  <2>2. w.active = deriveActive(vault.active, buildReceipt(w, nextId, op, new, a))
    BY <2>1 DEF deriveActive, buildReceipt
  <2>3. \A l : Agrees(vault, l) =>
                 Agrees(w, deriveTombstones(l, buildReceipt(w, nextId, op, new, a)))
    BY <1>0, <2>0, UpdateAgrees
  <2>4. updateMemory(vault, nextId, a, new) = appendEvent(w, nextId, op, new, a)
        /\ op \in Operations
    BY DEF updateMemory, Operations
  <2> HIDE DEF w, op
  <2>5. Rebuilds(appendEvent(w, nextId, op, new, a))
    BY <1>0, <2>0, <2>1, <2>2, <2>3, <2>4, AppendEventRebuilds
  <2> QED
    BY <1>1, <1>2, <1>7, <2>4, <2>5 DEF UpdateMemory, Receipted
<1>8. CASE ExportBundle
  <2>1. Rebuilds(vault') /\ bundle' = bundleOf(vault')
    BY <1>0, <1>3, <1>8 DEF ExportBundle, Receipted, exportReceipt
  <2>2. Rebuilds(reviveVault(bundle'))
    BY <2>1 DEF reviveVault, bundleOf, Rebuilds, RootsDerived, AddressAgrees
  <2> QED
    BY <1>0, <2>1, <2>2 DEF RebuildInv
<1>9. CASE ImportBundle
  <2> DEFINE v == reviveVault(bundle)
  <2>1. bundle \in Bundle /\ reconcileImportedLifecycle(bundle) /\ Rebuilds(v)
    BY <1>0, <1>9 DEF ImportBundle, TypeOK, RebuildInv
  <2>2. v \in VaultState
    BY <2>1, ReviveFields
  <2>3. /\ v.memories = bundle.memory_objects /\ v.active = bundle.active_memory_addresses
        /\ v.tombstones = bundle.tombstones /\ v.receipts = bundle.receipts
    BY DEF reviveVault
  <2> HIDE DEF v
  <2>4. restored(bundle).memories = v.memories
    BY <2>1, <2>2, <2>3, RebuildsImports
  <2>5. /\ restored(bundle) \in VaultState /\ restored(bundle).receipts = v.receipts
        /\ restored(bundle).active = v.active /\ restored(bundle).tombstones = v.tombstones
    BY <2>1, <2>3, RestoredFields
  <2>6. Rebuilds(restored(bundle))
    BY <2>1, <2>4, <2>5 DEF Rebuilds, RootsDerived, AddressAgrees
  <2> QED
    BY <1>2, <1>3, <1>9, <2>5, <2>6 DEF ImportBundle, Receipted, importBundle
<1>10. CASE UNCHANGED vars
  BY <1>10 DEF vars, RebuildInv, TypeOK
<1> QED
  BY <1>4, <1>5, <1>6, <1>7, <1>8, <1>9, <1>10 DEF Next

\* A new vault is what the empty log derives.
LEMMA InitRebuildInv == Init => RebuildInv
<1> SUFFICES ASSUME Init PROVE RebuildInv
  OBVIOUS
<1>1. /\ vault.receipts = <<>> /\ vault.active = {} /\ bundle = NoBundle
      /\ vault.memories = [a \in Addr |-> None] /\ vault.tombstones = [a \in Addr |-> None]
  BY DEF Init, createVault
<1> DEFINE d == deriveReceiptLifecycle(<<>>)
<1>2. d[0] = NoLifecycle
  <2>1. <<>> \in Seq(Receipt)
    OBVIOUS
  <2> QED
    BY <2>1, DerivedSteps, Zenon
<1> HIDE DEF d
<1>3. d[0].active = {} /\ d[0].tombstones = [a \in Addr |-> None]
  BY <1>2 DEF NoLifecycle
<1>4. d[0].tombstones \in [Addr -> TombstoneState]
  BY <1>3 DEF TombstoneState, None
<1>5. \A a \in Addr : AddressAgrees(vault, d[0].tombstones[a], a)
  BY <1>1, <1>3 DEF AddressAgrees, None
<1>6. Len(vault.receipts) = 0 /\ deriveReceiptLifecycle(vault.receipts) = d
  BY <1>1 DEF d
<1>7. Rebuilds(vault)
  BY <1>1, <1>3, <1>4, <1>5, <1>6 DEF Rebuilds, RootsDerived
<1> QED
  BY <1>1, <1>7, InitTypeOK DEF RebuildInv

\* Until a call throws half way, importBundle accepts the vault's own export
\* exactly when no address is both active and tombstoned, and what it then
\* derives from the log is the vault: for a log of any length.
THEOREM ImportsRestore == Spec => []ImportRestores
<1>1. RebuildInv => ImportRestores
  <2> SUFFICES ASSUME RebuildInv, throws = 0 PROVE ImportRestores
    BY DEF ImportRestores
  <2> DEFINE b == bundleOf(vault)
  <2>1. vault \in VaultState /\ Rebuilds(vault) /\ b \in Bundle
    BY BundleType DEF RebuildInv, TypeOK
  <2>2. /\ b.memory_objects = vault.memories /\ b.active_memory_addresses = vault.active
        /\ b.tombstones = vault.tombstones /\ b.receipts = vault.receipts
        /\ b.active_set_root = vault.active
    BY DEF bundleOf
  <2> HIDE DEF b
  <2>3. /\ reconcileImportedLifecycle(b) <=> vault.active \cap Tombstoned(vault.tombstones) = {}
        /\ reconcileImportedLifecycle(b) => restored(b).memories = vault.memories
    BY <2>1, <2>2, RebuildsImports
  <2>4. reconcileImportedLifecycle(b) =>
          restored(b).active = vault.active /\ restored(b).tombstones = vault.tombstones
    BY <2>1, <2>2, RestoredFields
  <2> QED
    BY <2>3, <2>4 DEF ImportRestores, b
<1> QED
  BY <1>1, InitRebuildInv, NextRebuildInv, PTL DEF Spec
=============================================================================
