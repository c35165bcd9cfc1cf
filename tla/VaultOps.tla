------------------------------ MODULE VaultOps ------------------------------
(***************************************************************************)
(* The operations of packages/vault/src/index.js as functions from vault   *)
(* states to vault states.                                                 *)
(*                                                                         *)
(* An operation that returns normally is one operator.  An operation that  *)
(* throws after it has begun to assign is a second operator with the       *)
(* assignments it had made by then: JavaScript does not undo them.  An     *)
(* operation that throws before its first assignment leaves the vault as   *)
(* it was and needs no operator.                                           *)
(*                                                                         *)
(* Data abstractions.  A memory address is HMAC(subject, memory_id,        *)
(* content_hash), so it is the pair <<memory_id, content>>.  Every event   *)
(* carries a fresh random event_id that the receipt's hash covers, so the  *)
(* hash of a receipt is a number never used before, its id.  A Merkle root *)
(* of a set is the set.  Ciphertext, metadata, signatures and timestamps   *)
(* are left out: signing never fails, and no guard reads the others.       *)
(***************************************************************************)
EXTENDS Naturals, Sequences

CONSTANTS MemoryIds,  \* memory_id values, together with the subject they belong to
          Contents    \* plaintexts, up to content_hash

\* memoryAddress: equal ids and equal contents give equal addresses.
memoryAddress(id, content) == <<id, content>>

Addr == MemoryIds \X Contents

\* "None" is undefined, as a receipt field, a Map entry or a record.
None == "None"

GENESIS == 0

RecordState == {"None", "active", "superseded", "tombstoned"}
TombstoneState == {"None", "update", "delete"}
Operations == {"create", "read", "update", "delete", "export", "import", "retrieve", "inject"}

Receipt == [id : Nat, operation : Operations,
            memory_addr : Addr \cup {None}, source_addr : Addr \cup {None},
            sequence : Nat, previous_receipt_hash : Nat,
            active_set_root : SUBSET Addr, receipt_log_root : SUBSET Nat]

Roots == [active : SUBSET Addr, tombstones : [Addr -> TombstoneState], log : SUBSET Nat]

VaultState == [memories : [Addr -> RecordState], active : SUBSET Addr,
               tombstones : [Addr -> TombstoneState], receipts : Seq(Receipt),
               sequence : Nat, roots : Roots]

\* The addresses with a tombstone: the keys of the tombstones Map.
Tombstoned(ts) == {a \in Addr : ts[a] # None}

\* computeReceiptLogRootFrom: the Merkle set of the receipts' hashes.
computeReceiptLogRootFrom(receipts) == {receipts[i].id : i \in 1 .. Len(receipts)}

lifecycleRoots(active, tombstones, receipts) ==
    [active |-> active, tombstones |-> tombstones,
     log |-> computeReceiptLogRootFrom(receipts)]

-----------------------------------------------------------------------------

createVault == LET none == [a \in Addr |-> None]
               IN [memories |-> none, active |-> {}, tombstones |-> none,
                   receipts |-> <<>>, sequence |-> 0,
                   roots |-> lifecycleRoots({}, none, <<>>)]

\* Mutant: the root cached by the last appendEvent instead of a fresh one.
buildReceiptCachedRoot(v, id, operation, addr, source) ==
    [id |-> id, operation |-> operation, memory_addr |-> addr, source_addr |-> source,
     sequence |-> v.sequence,
     previous_receipt_hash |-> IF v.receipts = <<>> THEN GENESIS
                               ELSE v.receipts[Len(v.receipts)].id,
     active_set_root |-> v.roots.active,
     receipt_log_root |-> computeReceiptLogRootFrom(v.receipts)]

\* The receipt appendEvent builds over the vault as it is at the call; id is fresh.
buildReceipt(v, id, operation, addr, source) ==
    [id |-> id, operation |-> operation, memory_addr |-> addr, source_addr |-> source,
     sequence |-> v.sequence,
     previous_receipt_hash |-> IF v.receipts = <<>> THEN GENESIS
                               ELSE v.receipts[Len(v.receipts)].id,
     active_set_root |-> v.active,
     receipt_log_root |-> computeReceiptLogRootFrom(v.receipts)]

appendEvent(v, id, operation, addr, source) ==
    LET receipts == Append(v.receipts, buildReceipt(v, id, operation, addr, source))
    IN [v EXCEPT !.receipts = receipts,
                 !.sequence = v.sequence + 1,
                 !.roots = lifecycleRoots(v.active, v.tombstones, receipts)]

-----------------------------------------------------------------------------
(* remember.  A malformed date throws before the first assignment; a       *)
(* receipt that mentions a plaintext marker throws in appendEvent, after   *)
(* the record and the active set have been assigned.                       *)

CanRemember(v, a) == v.tombstones[a] = None

StoreActive(v, a) == [v EXCEPT !.memories[a] = "active", !.active = v.active \cup {a}]

remember(v, id, a) == appendEvent(StoreActive(v, a), id, "create", a, None)

(* recall *)

Serveable(v) == {a \in v.active : v.tombstones[a] = None /\ v.memories[a] = "active"}

recall(v, id, a) == appendEvent(v, id, "read", a, None)

(* updateMemory.  Only the old address is checked.  The new one may be the *)
(* old one, or one that already carries a tombstone.                       *)

CanUpdate(v, old) == /\ v.tombstones[old] = None
                     /\ old \in v.active
                     /\ v.memories[old] # None

\* The vault when the second statement, nowIso, throws on a malformed date.
SupersedeRecord(v, old) == [v EXCEPT !.memories[old] = "superseded"]

\* Mutant: the old address is removed after the new one has been added.
SupersedeRemovesLast(v, old, new) ==
    [v EXCEPT !.memories = [v.memories EXCEPT ![old] = "superseded", ![new] = "active"],
              !.active = (v.active \cup {new}) \ {old},
              !.tombstones[old] = "update"]

\* Mutant: a revived address loses its tombstone, as deriveReceiptLifecycle has it.
SupersedeRevives(v, old, new) ==
    [v EXCEPT !.memories = [v.memories EXCEPT ![old] = "superseded", ![new] = "active"],
              !.active = (v.active \ {old}) \cup {new},
              !.tombstones = [v.tombstones EXCEPT ![old] = "update", ![new] = None]]

\* Mutant: the new address is stored and not made active.
SupersedeNotActivated(v, old, new) ==
    [v EXCEPT !.memories = [v.memories EXCEPT ![old] = "superseded", ![new] = "active"],
              !.active = v.active \ {old},
              !.tombstones[old] = "update"]

\* The vault when appendEvent is called: the new address is stored and made
\* active after the old one has been removed, the old one's tombstone is last.
Supersede(v, old, new) ==
    [v EXCEPT !.memories = [v.memories EXCEPT ![old] = "superseded", ![new] = "active"],
              !.active = (v.active \ {old}) \cup {new},
              !.tombstones[old] = "update"]

updateMemory(v, id, old, new) == appendEvent(Supersede(v, old, new), id, "update", new, old)

(* deleteMemory.  A missing record is tolerated. *)

CanDelete(v, a) == v.tombstones[a] = None /\ a \in v.active

\* Mutant: a record state that no reader of the vault knows.
MarkDeletedUnknownState(v, a) == [v EXCEPT !.memories[a] = "deleted"]

\* The vault when nowIso throws: the record is marked, the address still active.
MarkDeleted(v, a) ==
    [v EXCEPT !.memories[a] = IF v.memories[a] = None THEN None ELSE "tombstoned"]

Tombstone(v, a) ==
    [MarkDeleted(v, a) EXCEPT !.active = v.active \ {a}, !.tombstones[a] = "delete"]

\* Mutant: the delete receipt is issued and the state left as it was.
deleteMemoryReceiptOnly(v, id, a) == appendEvent(v, id, "delete", a, None)

deleteMemory(v, id, a) == appendEvent(Tombstone(v, a), id, "delete", a, None)

-----------------------------------------------------------------------------
(* exportBundle: the export receipt is part of what is exported.  The      *)
(* bundle is its serialised form, the canonical text that exportBundle     *)
(* makes before it returns, which the callers in apps and packages write   *)
(* to a file at once and importBundle parses.  The object is not modelled  *)
(* beyond that moment: its receipts and events are the vault's own arrays, *)
(* which grow with the vault, and its sequence is a copy.                  *)

exportReceipt(v, id) == appendEvent(v, id, "export", None, None)

\* The text of the vault at the end of exportBundle.
bundleOf(v) == [memory_objects |-> v.memories, active_memory_addresses |-> v.active,
                tombstones |-> v.tombstones, receipts |-> v.receipts,
                sequence |-> v.sequence, active_set_root |-> v.active]

Bundle == [memory_objects : [Addr -> RecordState], active_memory_addresses : SUBSET Addr,
           tombstones : [Addr -> TombstoneState], receipts : Seq(Receipt),
           sequence : Nat, active_set_root : SUBSET Addr]

-----------------------------------------------------------------------------
(* importBundle of a parsed text: the lifecycle is derived again from the  *)
(* receipts.                                                               *)

Lifecycle == [active : SUBSET Addr, tombstones : [Addr -> TombstoneState]]

\* One iteration of deriveReceiptLifecycle's loop.
deriveActive(active, r) ==
    CASE r.operation = "create" -> active \cup {r.memory_addr}
      [] r.operation = "update" -> (active \ {r.source_addr}) \cup {r.memory_addr}
      [] r.operation = "delete" -> active \ {r.memory_addr}
      [] OTHER -> active

deriveTombstones(ts, r) ==
    CASE r.operation = "create" -> [ts EXCEPT ![r.memory_addr] = None]
      [] r.operation = "update" -> [ts EXCEPT ![r.source_addr] = "update",
                                              ![r.memory_addr] = None]
      [] r.operation = "delete" -> [ts EXCEPT ![r.memory_addr] = "delete"]
      [] OTHER -> ts

deriveReceiptLifecycle(receipts) ==
    LET derived[n \in 0 .. Len(receipts)] ==
          IF n = 0 THEN [active |-> {}, tombstones |-> [a \in Addr |-> None]]
          ELSE [active |-> deriveActive(derived[n - 1].active, receipts[n]),
                tombstones |-> deriveTombstones(derived[n - 1].tombstones, receipts[n])]
    IN derived

\* Mutant: every tombstoned record comes back as deleted.
reconciledStateDeleted(lifecycle, declared) ==
    [a \in Addr |-> CASE declared[a] = None -> None
                      [] a \in lifecycle.active -> "active"
                      [] a \notin lifecycle.active /\ lifecycle.tombstones[a] # None -> "tombstoned"
                      [] OTHER -> declared[a]]

\* The state a record gets from the derived lifecycle.
reconciledState(lifecycle, declared) ==
    [a \in Addr |-> CASE declared[a] = None -> None
                      [] a \in lifecycle.active -> "active"
                      [] a \notin lifecycle.active /\ lifecycle.tombstones[a] = "update" -> "superseded"
                      [] a \notin lifecycle.active /\ lifecycle.tombstones[a] = "delete" -> "tombstoned"
                      [] OTHER -> declared[a]]

\* Every check that importBundle makes before it accepts a bundle.
reconciles(b, derived) ==
    LET n == Len(b.receipts)
        lifecycle == derived[n]
    IN /\ \A i \in 1 .. n : b.receipts[i].active_set_root = derived[i].active
       /\ b.active_memory_addresses = lifecycle.active
       /\ b.active_set_root = lifecycle.active
       /\ Tombstoned(b.tombstones) = Tombstoned(lifecycle.tombstones)
       /\ \A a \in Tombstoned(b.tombstones) : b.tombstones[a] = lifecycle.tombstones[a]
       /\ \A a \in Addr : b.memory_objects[a] = "active" =>
            a \in lifecycle.active \/ lifecycle.tombstones[a] # None

reconcileImportedLifecycle(b) == reconciles(b, deriveReceiptLifecycle(b.receipts))

\* The derived tombstones, each completed from the bundle's own entry.
mergedTombstones(lifecycle) == [a \in Addr |-> lifecycle.tombstones[a]]

\* Mutant: createVault's sequence is kept instead of the bundle's.
restoredSequenceZero(b) ==
    LET lifecycle == deriveReceiptLifecycle(b.receipts)[Len(b.receipts)]
        tombstones == mergedTombstones(lifecycle)
    IN [memories |-> reconciledState(lifecycle, b.memory_objects),
        active |-> lifecycle.active, tombstones |-> tombstones,
        receipts |-> b.receipts, sequence |-> 0,
        roots |-> lifecycleRoots(lifecycle.active, tombstones, b.receipts)]

\* The vault importBundle rebuilds, before its import receipt.
restored(b) ==
    LET lifecycle == deriveReceiptLifecycle(b.receipts)[Len(b.receipts)]
        tombstones == mergedTombstones(lifecycle)
    IN [memories |-> reconciledState(lifecycle, b.memory_objects),
        active |-> lifecycle.active, tombstones |-> tombstones,
        receipts |-> b.receipts, sequence |-> b.sequence,
        roots |-> lifecycleRoots(lifecycle.active, tombstones, b.receipts)]

importBundle(b, id) == appendEvent(restored(b), id, "import", None, None)

(* reviveVault, the loader of the CLI and of the MCP server: it takes the  *)
(* bundle's sets as they are and appends nothing.                          *)
reviveVault(b) ==
    [memories |-> b.memory_objects, active |-> b.active_memory_addresses,
     tombstones |-> b.tombstones, receipts |-> b.receipts, sequence |-> b.sequence,
     roots |-> lifecycleRoots(b.active_memory_addresses, b.tombstones, b.receipts)]

-----------------------------------------------------------------------------
(* verifyReceiptChain of packages/core/src/index.js, with embedded receipt *)
(* log roots verified and a chain that starts at GENESIS.                  *)

verifyReceiptChain(receipts) ==
    \A i \in 1 .. Len(receipts) :
      /\ receipts[i].sequence = i - 1
      /\ receipts[i].previous_receipt_hash = IF i = 1 THEN GENESIS ELSE receipts[i - 1].id
      /\ receipts[i].receipt_log_root = {receipts[j].id : j \in 1 .. i - 1}
=============================================================================
