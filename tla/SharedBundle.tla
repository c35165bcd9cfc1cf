---------------------------- MODULE SharedBundle ----------------------------
(***************************************************************************)
(* One bundle file shared by several processes: every AI client starts its *)
(* own MCP server (packages/mcp-server/src/index.js) on the same           *)
(* ENIGMA_BUNDLE, and the CLI (apps/cli/bin/enigma.mjs) works on it too.   *)
(* Both handle a request the same way: loadState reads the whole file, the *)
(* operation runs on the revived vault in memory, persistState exports the *)
(* vault and writes the whole file back.  There is no lock.  The CLI's     *)
(* init, setup and quickstart write a new vault over whatever is there     *)
(* when they are told to, as the desktop application always tells setup.   *)
(*                                                                         *)
(* A process handles one request at a time (startStdioServer chains them   *)
(* on a promise queue; a CLI process has only one).  What runs between two *)
(* awaits is one step; the steps others can see are the read, the          *)
(* truncation that opening the file for writing is, the write, and the     *)
(* answer.  The loops of compileContextPack, of an import and of the       *)
(* rollback of an import work on private state and are one step per memory.*)
(*                                                                         *)
(* A request that fails (the file does not parse, or the vault refuses the *)
(* operation) and a request that only reads are answered without any       *)
(* change, so they need no action.  A process may be killed at any point.  *)
(*                                                                         *)
(* A bundle is written by one write call, which holds up to 512 KiB.       *)
(***************************************************************************)
EXTENDS VaultOps, SequencesExt

CONSTANTS Procs,       \* processes that share the file
          PackLimit,   \* bound: memories in one context pack
          BatchLimit,  \* bound: candidates in one import
          MaxReceipts, \* bound: no request starts once this many receipts exist
          MaxCrashes   \* bound: processes killed in one behaviour

ASSUME SharedBoundsAssumption == /\ PackLimit \in Nat
                                 /\ BatchLimit \in Nat
                                 /\ MaxReceipts \in Nat
                                 /\ MaxCrashes \in Nat

VARIABLES file,      \* the file's content: a bundle, or one of NotBundles
          pc,        \* where each process is in its request
          vault,     \* each process's vault in memory, or NoVault
          selected,  \* the memories the request's loop has still to go through
          request,   \* the addresses the request stores and removes
          nextId,    \* the next fresh receipt hash
          minted,    \* the memory ids remember has drawn
          stored,    \* addresses some answered request has stored
          deleted,   \* addresses some answered request has deleted or superseded; the
                     \* two are of the vault that an overwriting init made last, if any
          doomed,    \* addresses some request, answered or not, has set out to remove
          batches,   \* the imports some request, answered or not, has begun
          crashes    \* processes killed so far

vars == <<file, pc, vault, selected, request, nextId, minted, stored, deleted, doomed, batches, crashes>>

\* No file; a file that was truncated and not written; bytes that do not parse.
Absent == [schema |-> "absent"]
Empty == [schema |-> "empty"]
Torn == [schema |-> "torn"]
NotBundles == {Absent, Empty, Torn}

Loadable == file \notin NotBundles

NoVault == [schema |-> None]

NoEffect == [kept |-> {}, gone |-> {}]

\* The request works on its copy: on one memory or a pack, on the candidates of
\* an import, on the memories of an import that is rolled back, or on a new vault
\* that will replace what is in the file.
Working == {"loaded", "importing", "rolling", "replacing"}

AtWork(p) == pc[p] \in Working \cup {"writing"}

TypeOK == /\ file \in Bundle \cup NotBundles
          /\ pc \in [Procs -> Working \cup {"idle", "writing", "written"}]
          /\ vault \in [Procs -> VaultState \cup {NoVault}]
          /\ \A p \in Procs : AtWork(p) => vault[p] \in VaultState
          /\ selected \in [Procs -> Seq(Addr)]
          /\ request \in [Procs -> [kept : SUBSET Addr, gone : SUBSET Addr]]
          /\ nextId \in Nat \ {0}
          /\ minted \subseteq MemoryIds
          /\ stored \subseteq Addr
          /\ deleted \subseteq Addr
          /\ doomed \subseteq Addr
          /\ batches \subseteq Seq(Addr)
          /\ crashes \in Nat

Init == /\ file = Absent
        /\ pc = [p \in Procs |-> "idle"]
        /\ vault = [p \in Procs |-> NoVault]
        /\ selected = [p \in Procs |-> <<>>]
        /\ request = [p \in Procs |-> NoEffect]
        /\ nextId = 1
        /\ minted = {}
        /\ stored = {}
        /\ deleted = {}
        /\ doomed = {}
        /\ batches = {}
        /\ crashes = 0

-----------------------------------------------------------------------------
(* The read and the operation. *)

\* The request has its vault v in memory; kept and gone are what it changes.
Loaded(p, at, v, memories, kept, gone) ==
    /\ pc' = [pc EXCEPT ![p] = at]
    /\ vault' = [vault EXCEPT ![p] = v]
    /\ selected' = [selected EXCEPT ![p] = memories]
    /\ request' = [request EXCEPT ![p] = [kept |-> kept, gone |-> gone]]
    /\ doomed' = doomed \cup gone
    /\ UNCHANGED <<file, stored, deleted, crashes>>

\* Mutant: a file that does not parse counts as missing.
MissingOrDamaged(p) ==
    /\ pc[p] = "idle" /\ nextId <= MaxReceipts /\ ~Loadable
    /\ Loaded(p, "loaded", createVault, <<>>, {}, {})
    /\ UNCHANGED <<nextId, minted, batches>>

\* enigma_init, ensureBundle: a vault is made when the file does not exist.
InitBundle(p) ==
    /\ pc[p] = "idle" /\ nextId <= MaxReceipts /\ file = Absent
    /\ Loaded(p, "loaded", createVault, <<>>, {}, {})
    /\ UNCHANGED <<nextId, minted, batches>>

\* buildQuickstartArtifacts (enigma init, setup, quickstart): with --overwrite the
\* file is not looked at, without it there must be none.  A new vault remembers
\* one text and compiles a context pack of it.
Quickstart(p, id, content) ==
    LET a == memoryAddress(id, content)
    IN /\ pc[p] = "idle" /\ nextId <= MaxReceipts /\ id \notin minted
       /\ Loaded(p, "replacing", remember(createVault, nextId, a), <<a>>, {a}, {})
       /\ minted' = minted \cup {id}
       /\ nextId' = nextId + 1
       /\ UNCHANGED batches

\* loadState: the vault in the file, for a process that is free.
CanLoad(p) == pc[p] = "idle" /\ nextId <= MaxReceipts /\ Loadable

\* loadState, then remember, whose memory_id is a new random UUID.
Remember(p, id, content) ==
    LET v == reviveVault(file)
        a == memoryAddress(id, content)
    IN /\ CanLoad(p) /\ id \notin minted /\ CanRemember(v, a)
       /\ Loaded(p, "loaded", remember(v, nextId, a), <<>>, {a}, {})
       /\ minted' = minted \cup {id}
       /\ nextId' = nextId + 1
       /\ UNCHANGED batches

\* loadState, then recall: enigma_search with an address, enigma recall.
Recall(p, a) ==
    LET v == reviveVault(file)
    IN /\ CanLoad(p) /\ a \in Serveable(v)
       /\ Loaded(p, "loaded", recall(v, nextId, a), <<>>, {}, {})
       /\ nextId' = nextId + 1
       /\ UNCHANGED <<minted, batches>>

\* loadState, then updateMemory: enigma update.
UpdateMemory(p, old, content) ==
    LET v == reviveVault(file)
        new == memoryAddress(old[1], content)
    IN /\ CanLoad(p) /\ CanUpdate(v, old)
       /\ Loaded(p, "loaded", updateMemory(v, nextId, old, new), <<>>, {new}, {old})
       /\ nextId' = nextId + 1
       /\ UNCHANGED <<minted, batches>>

\* loadState, then deleteMemory: enigma_delete, enigma delete.
DeleteMemory(p, a) ==
    LET v == reviveVault(file)
    IN /\ CanLoad(p) /\ CanDelete(v, a)
       /\ Loaded(p, "loaded", deleteMemory(v, nextId, a), <<>>, {}, {a})
       /\ nextId' = nextId + 1
       /\ UNCHANGED <<minted, batches>>

\* loadState, then compileContextPack up to its loop: one memory that is not
\* serveable rejects the whole pack.
CompileContextPack(p, memories) ==
    LET v == reviveVault(file)
    IN /\ CanLoad(p) /\ \A i \in 1 .. Len(memories) : memories[i] \in Serveable(v)
       /\ Loaded(p, "loaded", v, memories, {}, {})
       /\ UNCHANGED <<nextId, minted, batches>>

\* Mutant: both receipts of a turn are built before either is appended.
packMemoryBuildsFirst(v, id, a) ==
    LET receipts == v.receipts \o <<buildReceipt(v, id, "retrieve", a, None),
                                    buildReceipt(v, id + 1, "inject", a, None)>>
    IN [v EXCEPT !.receipts = receipts, !.sequence = v.sequence + 2,
                 !.roots = lifecycleRoots(v.active, v.tombstones, receipts)]

\* One turn of compileContextPack's loop: a retrieve and an inject receipt.
packMemory(v, id, a) ==
    appendEvent(appendEvent(v, id, "retrieve", a, None), id + 1, "inject", a, None)

PackMemory(p) ==
    /\ pc[p] \in {"loaded", "replacing"} /\ selected[p] # <<>>
    /\ vault' = [vault EXCEPT ![p] = packMemory(vault[p], nextId, Head(selected[p]))]
    /\ selected' = [selected EXCEPT ![p] = Tail(selected[p])]
    /\ nextId' = nextId + 2
    /\ UNCHANGED <<file, pc, request, minted, stored, deleted, doomed, batches, crashes>>

\* loadState, then writeCandidatesToVault up to its loop (enigma_import_approve,
\* enigma import --write-vault).  Every candidate gets a new random memory_id.
\* An import of nothing is refused, or saved like an empty pack (the CLI).
FreshIds(memories) ==
    /\ \A i \in 1 .. Len(memories) : memories[i][1] \notin minted
    /\ \A i, j \in 1 .. Len(memories) : i # j => memories[i][1] # memories[j][1]

ImportBatch(p, memories) ==
    /\ CanLoad(p) /\ memories # <<>> /\ FreshIds(memories)
    /\ Loaded(p, "importing", reviveVault(file), memories, ToSet(memories), {})
    /\ minted' = minted \cup {a[1] : a \in ToSet(memories)}
    /\ batches' = batches \cup {memories}
    /\ UNCHANGED nextId

\* One turn of writeCandidatesToVault's loop.
WriteCandidate(p) ==
    /\ pc[p] = "importing" /\ selected[p] # <<>>
    /\ vault' = [vault EXCEPT ![p] = remember(vault[p], nextId, Head(selected[p]))]
    /\ selected' = [selected EXCEPT ![p] = Tail(selected[p])]
    /\ nextId' = nextId + 1
    /\ UNCHANGED <<file, pc, request, minted, stored, deleted, doomed, batches, crashes>>

\* loadState, then importRollbackCommand up to its loop, with the report of an
\* import, which is there once its bundle has been written.  When nothing is
\* left to delete, nothing is saved.
ImportRollback(p, memories) ==
    LET v == reviveVault(file)
        gone == {a \in ToSet(memories) : CanDelete(v, a)}
    IN /\ CanLoad(p) /\ gone # {}
       /\ Loaded(p, "rolling", v, memories, {}, gone)
       /\ UNCHANGED <<nextId, minted, batches>>

\* One turn of its loop: what is tombstoned or not active is skipped.
RollbackMemory(p) ==
    LET a == Head(selected[p])
    IN /\ pc[p] = "rolling" /\ selected[p] # <<>>
       /\ selected' = [selected EXCEPT ![p] = Tail(selected[p])]
       /\ \/ /\ CanDelete(vault[p], a)
             /\ vault' = [vault EXCEPT ![p] = deleteMemory(vault[p], nextId, a)]
             /\ nextId' = nextId + 1
          \/ ~CanDelete(vault[p], a) /\ UNCHANGED <<vault, nextId>>
       /\ UNCHANGED <<file, pc, request, minted, stored, deleted, doomed, batches, crashes>>

-----------------------------------------------------------------------------
(* persistState and the answer. *)

\* Mutant: the vault is saved after each candidate.
OpenEarly(p) ==
    /\ pc[p] \in Working
    /\ vault' = [vault EXCEPT ![p] = exportReceipt(vault[p], nextId)]
    /\ nextId' = nextId + 1
    /\ pc' = [pc EXCEPT ![p] = "writing"]
    /\ file' = Empty
    /\ stored' = IF pc[p] = "replacing" THEN {} ELSE stored
    /\ deleted' = IF pc[p] = "replacing" THEN {} ELSE deleted
    /\ UNCHANGED <<selected, request, minted, doomed, batches, crashes>>

\* exportBundle, then writeFile opens the file: it exists and is empty.  What was
\* answered about a vault that is replaced on purpose is not promised any more.
Open(p) ==
    /\ pc[p] \in Working /\ selected[p] = <<>>
    /\ vault' = [vault EXCEPT ![p] = exportReceipt(vault[p], nextId)]
    /\ nextId' = nextId + 1
    /\ pc' = [pc EXCEPT ![p] = "writing"]
    /\ file' = Empty
    /\ stored' = IF pc[p] = "replacing" THEN {} ELSE stored
    /\ deleted' = IF pc[p] = "replacing" THEN {} ELSE deleted
    /\ UNCHANGED <<selected, request, minted, doomed, batches, crashes>>

\* Mutant: the file is parsed once more, and not written when that fails.
WriteChecksFirst(p) ==
    /\ pc[p] = "writing"
    /\ file' = IF Loadable THEN bundleOf(vault[p]) ELSE file
    /\ pc' = [pc EXCEPT ![p] = "written"]
    /\ vault' = [vault EXCEPT ![p] = NoVault]
    /\ UNCHANGED <<selected, request, nextId, minted, stored, deleted, doomed, batches, crashes>>

\* writeFile writes from offset 0.  Over bytes that another process wrote
\* since the truncation the outcome depends on which image is longer.
Write(p) ==
    /\ pc[p] = "writing"
    /\ \/ file' = bundleOf(vault[p])
       \/ file # Empty /\ file' = Torn
    /\ pc' = [pc EXCEPT ![p] = "written"]
    /\ vault' = [vault EXCEPT ![p] = NoVault]
    /\ UNCHANGED <<selected, request, nextId, minted, stored, deleted, doomed, batches, crashes>>

\* The handler returns { ok: true } and the response line is written.
Respond(p) ==
    /\ pc[p] = "written"
    /\ pc' = [pc EXCEPT ![p] = "idle"]
    /\ request' = [request EXCEPT ![p] = NoEffect]
    /\ stored' = stored \cup request[p].kept
    /\ deleted' = deleted \cup request[p].gone
    /\ UNCHANGED <<file, vault, selected, nextId, minted, doomed, batches, crashes>>

\* The process is killed, or its disk write fails; the client starts it again.
Crash(p) ==
    /\ pc[p] # "idle" /\ crashes < MaxCrashes
    /\ pc' = [pc EXCEPT ![p] = "idle"]
    /\ vault' = [vault EXCEPT ![p] = NoVault]
    /\ selected' = [selected EXCEPT ![p] = <<>>]
    /\ request' = [request EXCEPT ![p] = NoEffect]
    /\ crashes' = crashes + 1
    /\ UNCHANGED <<file, nextId, minted, stored, deleted, doomed, batches>>

-----------------------------------------------------------------------------

Start(p) == \/ InitBundle(p)
            \/ \E id \in MemoryIds, c \in Contents : Quickstart(p, id, c) \/ Remember(p, id, c)
            \/ \E a \in Addr : Recall(p, a) \/ DeleteMemory(p, a)
            \/ \E a \in Addr, c \in Contents : UpdateMemory(p, a, c)
            \/ \E memories \in BoundedSeq(Addr, PackLimit) : CompileContextPack(p, memories)
            \/ \E memories \in BoundedSeq(Addr, BatchLimit) : ImportBatch(p, memories)
            \/ \E memories \in batches : ImportRollback(p, memories)

\* What a process does by itself once it has a request.
Continue(p) == PackMemory(p) \/ WriteCandidate(p) \/ RollbackMemory(p) \/ Open(p) \/ Write(p) \/ Respond(p)

Next == \E p \in Procs : Start(p) \/ Continue(p) \/ Crash(p)

Spec == Init /\ [][Next]_vars

\* A process that is not killed goes on with its request: the event loop runs
\* every resolved await.  Nobody is obliged to make requests.
FairSpec == Spec /\ \A p \in Procs : WF_vars(Continue(p))

-----------------------------------------------------------------------------
(* Any number of processes, killed at any point. *)

\* Whatever processes overwrite each other's work, a file that parses holds
\* one writer's whole receipt chain, and verifyReceiptChain accepts it.
LoadableVerifies ==
    Loadable => verifyReceiptChain(file.receipts) /\ file.sequence = Len(file.receipts)

\* A file left empty or torn, with nobody about to write it, stays as it is for a
\* repair by hand, whatever requests are made and killed: enigma_init makes a
\* bundle only where there is no file, and every other request has to load it.
\* Only an init that was told to overwrite takes its place.
Damaged == file \in {Empty, Torn} /\ \A p \in Procs : pc[p] \in {"idle", "replacing"}

DamagedNeedsOverwrite ==
    [][Damaged => \/ Damaged'
                  \/ \E p \in Procs : pc[p] = "replacing" /\ pc'[p] = "writing"]_vars

\* An import is stored whole or not at all, wherever a process is killed and
\* whatever others write in between (writeCandidatesToVault, persistState).
CreatedIn(rs) == {r.memory_addr : r \in {x \in ToSet(rs) : x.operation = "create"}}

WholeIn(rs, memories) == ToSet(memories) \cap CreatedIn(rs) \in {{}, ToSet(memories)}

ImportsWhole == Loadable => \A memories \in batches : WholeIn(file.receipts, memories)

-----------------------------------------------------------------------------
(* A single process. *)

\* packages/mcp-server/src/index.js:792: enigma_delete tombstones a memory "so
\* it is not served in future context packs": once the delete is answered, no
\* file that parses serves the memory, until an init replaces the bundle.
AnsweredDeletesHold == Loadable => deleted \cap Serveable(reviveVault(file)) = {}

\* A memory whose storing was answered, and that nobody set out to remove, is
\* served whenever the file parses, also when later requests were killed, until
\* an init replaces the bundle.
AnsweredMemoriesServed == Loadable => stored \ doomed \subseteq Serveable(reviveVault(file))

\* A truncated file comes back: the process that truncated it writes it, unless
\* it is killed before.
Recovers == \A k \in 0 .. MaxCrashes :
    (crashes = k /\ \E p \in Procs : pc[p] = "writing") ~> (Loadable \/ crashes > k)
=============================================================================
