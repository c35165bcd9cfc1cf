-------------------------------- MODULE Vault --------------------------------
(***************************************************************************)
(* The local memory vault (packages/vault/src/index.js): one live vault    *)
(* and the text of the last bundle exported from it, which may be imported *)
(* again at any later time.  Callers choose the operation and its          *)
(* arguments freely, except that they do not import the object that        *)
(* exportBundle returned once the vault has changed (see VaultOps).        *)
(*                                                                         *)
(* Two kinds of argument make an operation throw half way.  A malformed    *)
(* `now` makes nowIso throw in updateMemory and deleteMemory after the     *)
(* record's state has been assigned.  A policy, subject, provider or model *)
(* name that contains the word plaintext makes buildReceipt throw after    *)
(* every other assignment.  Each is an alternative of the action; throws   *)
(* counts them, because some properties hold only until the first one.     *)
(***************************************************************************)
EXTENDS VaultOps

CONSTANTS MaxReceipts,  \* bound: receipts issued in one behaviour
          MaxThrows     \* bound: operations that throw half way in one behaviour

ASSUME VaultBoundsAssumption == MaxReceipts \in Nat /\ MaxThrows \in Nat

VARIABLES vault,   \* the live vault
          bundle,  \* the last exported bundle as it was serialised, or NoBundle
          nextId,  \* the next fresh receipt hash
          throws   \* operations that threw half way so far

vars == <<vault, bundle, nextId, throws>>

NoBundle == [schema |-> None]

TypeOK == /\ vault \in VaultState
          /\ bundle \in Bundle \cup {NoBundle}
          /\ nextId \in Nat \ {0}
          /\ throws \in Nat

Init == /\ vault = createVault
        /\ bundle = NoBundle
        /\ nextId = 1
        /\ throws = 0

-----------------------------------------------------------------------------

\* The operation returned normally: v is the vault with its new receipt.
Receipted(v) == /\ nextId <= MaxReceipts
                /\ vault' = v
                /\ nextId' = nextId + 1
                /\ UNCHANGED throws

\* The operation threw after the assignments that v holds.
Thrown(v) == /\ throws < MaxThrows
             /\ vault' = v
             /\ throws' = throws + 1
             /\ UNCHANGED <<bundle, nextId>>

Remember(a) == /\ CanRemember(vault, a)
               /\ \/ Receipted(remember(vault, nextId, a)) /\ UNCHANGED bundle
                  \/ Thrown(StoreActive(vault, a))

Recall(a) == /\ a \in Serveable(vault)
             /\ Receipted(recall(vault, nextId, a))
             /\ UNCHANGED bundle

UpdateMemory(old, content) ==
    LET new == memoryAddress(old[1], content)
    IN /\ CanUpdate(vault, old)
       /\ \/ Receipted(updateMemory(vault, nextId, old, new)) /\ UNCHANGED bundle
          \/ Thrown(Supersede(vault, old, new))
          \/ Thrown(SupersedeRecord(vault, old))

DeleteMemory(a) ==
    /\ CanDelete(vault, a)
    /\ \/ Receipted(deleteMemory(vault, nextId, a)) /\ UNCHANGED bundle
       \/ Thrown(Tombstone(vault, a))
       \/ Thrown(MarkDeleted(vault, a))

\* The bundle is kept as text: later receipts of the vault do not reach it.
ExportBundle == /\ Receipted(exportReceipt(vault, nextId))
                /\ bundle' = bundleOf(vault')

ImportBundle == /\ bundle # NoBundle
                /\ reconcileImportedLifecycle(bundle)
                /\ Receipted(importBundle(bundle, nextId))
                /\ UNCHANGED bundle

Next == \/ \E a \in Addr : Remember(a) \/ Recall(a) \/ DeleteMemory(a)
        \/ \E a \in Addr, c \in Contents : UpdateMemory(a, c)
        \/ ExportBundle
        \/ ImportBundle

Spec == Init /\ [][Next]_vars

-----------------------------------------------------------------------------
(* Properties that hold whatever callers do. *)

\* verifyReceiptChain accepts the receipt log of the live vault and of every
\* serialised bundle, also after a throw half way and after an old bundle was
\* imported: sequence numbers have no gap, every receipt names the one before
\* it, and embeds the root of the log before it.
ReceiptChainVerifies ==
    /\ verifyReceiptChain(vault.receipts) /\ vault.sequence = Len(vault.receipts)
    /\ bundle # NoBundle => verifyReceiptChain(bundle.receipts)

\* deleteMemory is final: an address with a delete receipt in the vault's log
\* has a tombstone, so recall refuses it, whatever was remembered, updated,
\* exported or imported since.
DeletedStaysTombstoned ==
    \A i \in 1 .. Len(vault.receipts) :
      vault.receipts[i].operation = "delete" =>
        vault.receipts[i].memory_addr \in Tombstoned(vault.tombstones)

\* A verifier who has only the log can check every read: the address read is
\* in the active set root of its own receipt.
ReadsWereActive ==
    \A i \in 1 .. Len(vault.receipts) :
      vault.receipts[i].operation = "read" =>
        vault.receipts[i].memory_addr \in vault.receipts[i].active_set_root

\* No operation makes a tombstoned address serveable again.  importBundle
\* replaces the vault by the bundle, so there the bundle's tombstones count.
Imports == nextId' # nextId /\ vault'.receipts[Len(vault'.receipts)].operation = "import"

NoResurrection ==
    [][Tombstoned(IF Imports THEN bundle.tombstones ELSE vault.tombstones)
         \cap Serveable(vault') = {}]_vars

-----------------------------------------------------------------------------
(* Properties that hold until the first operation throws half way. *)

\* The active set is rebuildable from the receipts: every receipt's active set
\* root is one replay step of deriveReceiptLifecycle away from the root of the
\* receipt before it, and the last one is the live active set.
LastRoot(receipts) == IF receipts = <<>> THEN {} ELSE receipts[Len(receipts)].active_set_root

ActiveRebuildable == throws = 0 =>
    /\ \A i \in 1 .. Len(vault.receipts) :
         vault.receipts[i].active_set_root =
           deriveActive(IF i = 1 THEN {} ELSE vault.receipts[i - 1].active_set_root,
                        vault.receipts[i])
    /\ vault.active = LastRoot(vault.receipts)

\* An export of the vault can be imported exactly when no address is both
\* active and tombstoned, and then the import gives back every record state,
\* the active set and every tombstone.
ImportRestores == throws = 0 =>
    LET b == bundleOf(vault)
        v == restored(b)
    IN /\ reconcileImportedLifecycle(b) <=> vault.active \cap Tombstoned(vault.tombstones) = {}
       /\ reconcileImportedLifecycle(b) =>
            /\ v.memories = vault.memories
            /\ v.active = vault.active
            /\ v.tombstones = vault.tombstones

-----------------------------------------------------------------------------
(* What the documents say and updateMemory does not keep. *)

\* docs/public-api-reference.md:145: importBundle "Restores Enigma state from a
\* bundle": every bundle exportBundle writes is accepted.
ExportsImport == bundle # NoBundle => reconcileImportedLifecycle(bundle)

=============================================================================
