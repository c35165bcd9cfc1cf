------------------------ MODULE SharedBundleProofs ------------------------
(***************************************************************************)
(* Proofs about the shared bundle file, for every set of processes, memory *)
(* ids and contents and every bound.                                       *)
(***************************************************************************)
EXTENDS SharedBundle, VaultOpsProofs

-----------------------------------------------------------------------------
(* What a step may do. *)

\* A bounded sequence of addresses is a sequence of addresses.
LEMMA BoundedAddrs ==
    ASSUME NEW n \in Nat, NEW memories \in BoundedSeq(Addr, n)
    PROVE  memories \in Seq(Addr)
BY DEF BoundedSeq, SeqOf

\* The elements of a sequence of addresses, and what taking its head leaves.
LEMMA ToSetFacts ==
    ASSUME NEW s \in Seq(Addr)
    PROVE  /\ ToSet(s) \subseteq Addr
           /\ s = <<>> => ToSet(s) = {}
           /\ s # <<>> => /\ Head(s) \in ToSet(s) /\ Head(s) \in Addr
                         /\ Tail(s) \in Seq(Addr)
                         /\ ToSet(s) = {Head(s)} \cup ToSet(Tail(s))
<1>1. ToSet(s) \subseteq Addr /\ (s = <<>> => ToSet(s) = {})
  BY DEF ToSet
<1>2. ASSUME s # <<>>
      PROVE  /\ Head(s) \in ToSet(s) /\ Head(s) \in Addr
             /\ Tail(s) \in Seq(Addr)
             /\ ToSet(s) = {Head(s)} \cup ToSet(Tail(s))
  <2>1. /\ Head(s) = s[1] /\ 1 \in DOMAIN s /\ Tail(s) \in Seq(Addr)
        /\ Len(Tail(s)) = Len(s) - 1 /\ Len(s) \in Nat \ {0}
        /\ DOMAIN s = 1 .. Len(s) /\ DOMAIN Tail(s) = 1 .. Len(Tail(s))
        /\ \A i \in 1 .. Len(Tail(s)) : Tail(s)[i] = s[i + 1]
    BY <1>2
  <2>2. \A i \in DOMAIN s : i = 1 \/ (i - 1 \in DOMAIN Tail(s) /\ Tail(s)[i - 1] = s[i])
    BY <2>1
  <2>3. \A i \in DOMAIN Tail(s) : i + 1 \in DOMAIN s /\ Tail(s)[i] = s[i + 1]
    BY <2>1
  <2>4. Head(s) \in ToSet(s) /\ Head(s) \in Addr
    BY <2>1 DEF ToSet
  <2>5. ASSUME NEW x \in ToSet(s) PROVE x = Head(s) \/ x \in ToSet(Tail(s))
    <3>1. PICK i \in DOMAIN s : x = s[i]
      BY DEF ToSet
    <3>2. CASE i = 1
      BY <2>1, <3>1, <3>2
    <3>3. CASE i - 1 \in DOMAIN Tail(s) /\ Tail(s)[i - 1] = s[i]
      BY <3>1, <3>3 DEF ToSet
    <3> QED
      BY <2>2, <3>2, <3>3
  <2>6. ToSet(Tail(s)) \subseteq ToSet(s)
    BY <2>3 DEF ToSet
  <2> QED
    BY <2>1, <2>4, <2>5, <2>6
<1> QED
  BY <1>1, <1>2

\* A vault, and the record that stands for a bundle, is neither of the others.
LEMMA Distinct ==
    /\ Absent # Empty /\ Absent # Torn /\ Empty # Torn
    /\ \A b \in Bundle : b \notin NotBundles
<1>1. Absent # Empty /\ Absent # Torn /\ Empty # Torn
  BY DEF Absent, Empty, Torn
<1>2. \A b \in Bundle : DOMAIN b = {"memory_objects", "active_memory_addresses", "tombstones",
                                   "receipts", "sequence", "active_set_root"}
  BY DEF Bundle
<1>3. \A x \in NotBundles : DOMAIN x = {"schema"}
  BY DEF NotBundles, Absent, Empty, Torn
<1>4. "schema" \notin {"memory_objects", "active_memory_addresses", "tombstones",
                       "receipts", "sequence", "active_set_root"}
  OBVIOUS
<1> QED
  BY <1>1, <1>2, <1>3, <1>4

\* What a request removes has its tombstone in the request's vault, but for
\* what a rollback has still to come to.
Removed(at, v, todo, gone) ==
    \A a \in gone : \/ a \in Tombstoned(v.tombstones)
                    \/ at = "rolling" /\ a \in ToSet(todo) /\ a \in v.active

\* What every request that starts has loaded: a new vault where there is no
\* file, a vault that continues the one in the file, or one that will replace it.
LoadedFrom(at, v, memories, gone) ==
    \/ at # "replacing" /\ file = Absent /\ v = createVault /\ gone = {}
    \/ /\ at # "replacing" /\ Loadable
       /\ Continues(reviveVault(file), v) /\ Removed(at, v, memories, gone)
    \/ at = "replacing" /\ Continues(createVault, v) /\ gone = {}

\* A request of any kind starts from the file, or from a new vault.
LEMMA StartLoads ==
    ASSUME TypeOK, NEW p \in Procs, Start(p)
    PROVE  /\ pc[p] = "idle"
           /\ nextId' \in Nat \ {0}
           /\ minted' \subseteq MemoryIds
           /\ batches' \subseteq Seq(Addr)
           /\ \E at \in Working, v \in VaultState, memories \in Seq(Addr), kept \in SUBSET Addr,
                 gone \in SUBSET Addr :
                Loaded(p, at, v, memories, kept, gone) /\ LoadedFrom(at, v, memories, gone)
<1> DEFINE Goal == /\ pc[p] = "idle"
                   /\ nextId' \in Nat \ {0}
                   /\ minted' \subseteq MemoryIds
                   /\ batches' \subseteq Seq(Addr)
                   /\ \E at \in Working, v \in VaultState, memories \in Seq(Addr),
                         kept \in SUBSET Addr, gone \in SUBSET Addr :
                        Loaded(p, at, v, memories, kept, gone)
                        /\ LoadedFrom(at, v, memories, gone)
           u == reviveVault(file)
<1>0. nextId \in Nat \ {0} /\ minted \subseteq MemoryIds /\ nextId + 1 \in Nat \ {0}
      /\ <<>> \in Seq(Addr) /\ batches \subseteq Seq(Addr)
      /\ Working = {"loaded", "importing", "rolling", "replacing"}
  BY DEF TypeOK, Working
<1>1. Loadable => u \in VaultState
  BY ReviveFields DEF TypeOK, Loadable
<1>2. CASE InitBundle(p)
  <2>1. Loaded(p, "loaded", createVault, <<>>, {}, {}) /\ LoadedFrom("loaded", createVault, <<>>, {})
    BY <1>2 DEF InitBundle, LoadedFrom
  <2>2. pc[p] = "idle" /\ nextId' = nextId /\ minted' = minted /\ batches' = batches
    BY <1>2 DEF InitBundle
  <2> QED
    BY <1>0, <2>1, <2>2, CreateVaultFacts
<1>3. ASSUME NEW id \in MemoryIds, NEW c \in Contents, Remember(p, id, c) PROVE Goal
  <2> DEFINE a == memoryAddress(id, c)
             w == remember(u, nextId, a)
  <2>1. a \in Addr
    BY DEF memoryAddress, Addr
  <2>2. Loadable /\ pc[p] = "idle" /\ Loaded(p, "loaded", w, <<>>, {a}, {})
        /\ nextId' = nextId + 1 /\ minted' = minted \cup {id} /\ batches' = batches
    BY <1>3 DEF Remember, CanLoad
  <2>3. Continues(u, w)
    BY <1>0, <1>1, <2>1, <2>2, OperationsContinue
  <2>4. w \in VaultState
    BY <2>3 DEF Continues
  <2>5. LoadedFrom("loaded", w, <<>>, {})
    BY <2>2, <2>3 DEF LoadedFrom, Removed
  <2> HIDE DEF w, a
  <2> QED
    BY <1>0, <1>3, <2>1, <2>2, <2>4, <2>5
<1>4. ASSUME NEW a \in Addr, Recall(p, a) PROVE Goal
  <2> DEFINE w == recall(u, nextId, a)
  <2>2. Loadable /\ pc[p] = "idle" /\ Loaded(p, "loaded", w, <<>>, {}, {})
        /\ nextId' = nextId + 1 /\ minted' = minted /\ batches' = batches
    BY <1>4 DEF Recall, CanLoad
  <2>3. Continues(u, w)
    BY <1>0, <1>1, <2>2, OperationsContinue
  <2>4. w \in VaultState
    BY <2>3 DEF Continues
  <2>5. LoadedFrom("loaded", w, <<>>, {})
    BY <2>2, <2>3 DEF LoadedFrom, Removed
  <2> HIDE DEF w
  <2> QED
    BY <1>0, <2>2, <2>4, <2>5
<1>5. ASSUME NEW a \in Addr, DeleteMemory(p, a) PROVE Goal
  <2> DEFINE w == deleteMemory(u, nextId, a)
  <2>2. Loadable /\ pc[p] = "idle" /\ Loaded(p, "loaded", w, <<>>, {}, {a})
        /\ nextId' = nextId + 1 /\ minted' = minted /\ batches' = batches
    BY <1>5 DEF DeleteMemory, CanLoad
  <2>3. Continues(u, w) /\ a \in Tombstoned(w.tombstones)
    BY <1>0, <1>1, <2>2, OperationsContinue
  <2>4. w \in VaultState
    BY <2>3 DEF Continues
  <2>5. LoadedFrom("loaded", w, <<>>, {a})
    BY <2>2, <2>3 DEF LoadedFrom, Removed
  <2> HIDE DEF w
  <2> QED
    BY <1>0, <2>2, <2>4, <2>5
<1>6. ASSUME NEW a \in Addr, NEW c \in Contents, UpdateMemory(p, a, c) PROVE Goal
  <2> DEFINE b == memoryAddress(a[1], c)
             w == updateMemory(u, nextId, a, b)
  <2>1. b \in Addr
    BY UpdateAddress
  <2>2. Loadable /\ pc[p] = "idle" /\ Loaded(p, "loaded", w, <<>>, {b}, {a})
        /\ nextId' = nextId + 1 /\ minted' = minted /\ batches' = batches
    BY <1>6 DEF UpdateMemory, CanLoad
  <2>3. Continues(u, w) /\ a \in Tombstoned(w.tombstones)
    BY <1>0, <1>1, <2>1, <2>2, OperationsContinue
  <2>4. w \in VaultState
    BY <2>3 DEF Continues
  <2>5. LoadedFrom("loaded", w, <<>>, {a})
    BY <2>2, <2>3 DEF LoadedFrom, Removed
  <2> HIDE DEF w, b
  <2> QED
    BY <1>0, <2>1, <2>2, <2>4, <2>5
<1>7. ASSUME NEW memories \in BoundedSeq(Addr, PackLimit), CompileContextPack(p, memories)
      PROVE  Goal
  <2>1. memories \in Seq(Addr)
    BY BoundedAddrs, SharedBoundsAssumption
  <2>2. Loadable /\ pc[p] = "idle" /\ Loaded(p, "loaded", u, memories, {}, {})
        /\ nextId' = nextId /\ minted' = minted /\ batches' = batches
    BY <1>7 DEF CompileContextPack, CanLoad
  <2>3. Continues(u, u) /\ u \in VaultState
    BY <1>1, <2>2 DEF Continues, VaultState
  <2>5. LoadedFrom("loaded", u, memories, {})
    BY <2>2, <2>3 DEF LoadedFrom, Removed
  <2> HIDE DEF u
  <2> QED
    BY <1>0, <2>1, <2>2, <2>3, <2>5
<1>8. ASSUME NEW memories \in BoundedSeq(Addr, BatchLimit), ImportBatch(p, memories)
      PROVE  Goal
  <2>1. memories \in Seq(Addr) /\ ToSet(memories) \subseteq Addr
    BY BoundedAddrs, SharedBoundsAssumption, ToSetFacts
  <2>2. Loadable /\ pc[p] = "idle" /\ Loaded(p, "importing", u, memories, ToSet(memories), {})
        /\ nextId' = nextId /\ batches' = batches \cup {memories}
        /\ minted' = minted \cup {a[1] : a \in ToSet(memories)}
    BY <1>8 DEF ImportBatch, CanLoad
  <2>3. Continues(u, u) /\ u \in VaultState
    BY <1>1, <2>2 DEF Continues, VaultState
  <2>4. LoadedFrom("importing", u, memories, {})
    BY <2>2, <2>3 DEF LoadedFrom, Removed
  <2>5. minted' \subseteq MemoryIds
    BY <1>0, <2>1, <2>2 DEF Addr
  <2> HIDE DEF u
  <2> QED
    BY <1>0, <2>1, <2>2, <2>3, <2>4, <2>5
<1>9. ASSUME NEW memories \in batches, ImportRollback(p, memories) PROVE Goal
  <2> DEFINE gone == {a \in ToSet(memories) : CanDelete(u, a)}
  <2>1. memories \in Seq(Addr) /\ ToSet(memories) \subseteq Addr
    BY <1>0, ToSetFacts
  <2>2. Loadable /\ pc[p] = "idle" /\ Loaded(p, "rolling", u, memories, {}, gone)
        /\ nextId' = nextId /\ minted' = minted /\ batches' = batches
    BY <1>9 DEF ImportRollback, CanLoad
  <2>3. Continues(u, u) /\ u \in VaultState
    BY <1>1, <2>2 DEF Continues, VaultState
  <2>4. LoadedFrom("rolling", u, memories, gone)
    BY <2>2, <2>3 DEF LoadedFrom, Removed, CanDelete
  <2>5. gone \in SUBSET Addr
    BY <2>1
  <2> HIDE DEF u, gone
  <2> QED
    BY <1>0, <2>1, <2>2, <2>3, <2>4, <2>5
<1>10. ASSUME NEW id \in MemoryIds, NEW c \in Contents, Quickstart(p, id, c) PROVE Goal
  <2> DEFINE a == memoryAddress(id, c)
             w == remember(createVault, nextId, a)
  <2>1. a \in Addr
    BY DEF memoryAddress, Addr
  <2>2. pc[p] = "idle" /\ Loaded(p, "replacing", w, <<a>>, {a}, {})
        /\ nextId' = nextId + 1 /\ minted' = minted \cup {id} /\ batches' = batches
    BY <1>10 DEF Quickstart
  <2>3. Continues(createVault, w)
    BY <1>0, <2>1, CreateVaultFacts, OperationsContinue
  <2>4. w \in VaultState
    BY <2>3 DEF Continues
  <2>5. LoadedFrom("replacing", w, <<a>>, {})
    BY <2>3 DEF LoadedFrom
  <2> HIDE DEF w, a
  <2>6. <<a>> \in Seq(Addr) /\ {a} \in SUBSET Addr /\ {} \in SUBSET Addr
    BY <2>1
  <2> QED
    BY <1>0, <1>10, <2>2, <2>4, <2>5, <2>6
<1> QED
  BY <1>2, <1>3, <1>4, <1>5, <1>6, <1>7, <1>8, <1>9, <1>10 DEF Start

\* One turn of compileContextPack's loop continues the vault.
LEMMA PackContinues ==
    ASSUME NEW v \in VaultState, NEW id \in Nat, NEW a \in Addr
    PROVE  Continues(v, packMemory(v, id, a))
<1> DEFINE u == appendEvent(v, id, "retrieve", a, None)
           w == appendEvent(u, id + 1, "inject", a, None)
<1>1. Continues(v, u)
  BY AppendContinues DEF Operations
<1>2. u \in VaultState
  BY <1>1 DEF Continues
<1>3. Continues(u, w)
  BY <1>2, AppendContinues DEF Operations
<1>4. Continues(v, w)
  BY <1>1, <1>3, ContinuesTransitive
<1> QED
  BY <1>4 DEF packMemory

\* The loops: a turn takes the head of what is left, and continues the vault.
Turn(p) == PackMemory(p) \/ WriteCandidate(p) \/ RollbackMemory(p)

\* A turn continues the vault and leaves the rest of the request alone.
LEMMA TurnContinues ==
    ASSUME TypeOK, NEW p \in Procs, Turn(p)
    PROVE  /\ pc[p] \in Working /\ selected[p] # <<>> /\ vault[p] \in VaultState
           /\ selected' = [selected EXCEPT ![p] = Tail(selected[p])]
           /\ nextId' \in Nat \ {0}
           /\ UNCHANGED <<file, pc, request, minted, stored, deleted, doomed, batches, crashes>>
           /\ \E w \in VaultState :
                /\ vault' = [vault EXCEPT ![p] = w]
                /\ Continues(vault[p], w)
                /\ Removed(pc[p], vault[p], selected[p], request[p].gone)
                     => Removed(pc[p], w, Tail(selected[p]), request[p].gone)
<1> DEFINE a == Head(selected[p])
           rest == Tail(selected[p])
           gone == request[p].gone
           Goal(w) == /\ vault' = [vault EXCEPT ![p] = w]
                      /\ Continues(vault[p], w)
                      /\ Removed(pc[p], vault[p], selected[p], gone)
                           => Removed(pc[p], w, rest, gone)
<1>1. /\ pc[p] \in Working /\ selected[p] # <<>>
      /\ selected' = [selected EXCEPT ![p] = rest]
      /\ UNCHANGED <<file, pc, request, minted, stored, deleted, doomed, batches, crashes>>
  BY DEF Turn, PackMemory, WriteCandidate, RollbackMemory, Working
<1>2. /\ vault[p] \in VaultState /\ nextId \in Nat \ {0} /\ gone \subseteq Addr
      /\ selected[p] \in Seq(Addr) /\ vault \in [Procs -> VaultState \cup {NoVault}]
  BY <1>1 DEF TypeOK, AtWork
<1>3. a \in Addr /\ ToSet(selected[p]) = {a} \cup ToSet(rest)
  BY <1>1, <1>2, ToSetFacts
<1>4. nextId' \in Nat \ {0}
  BY <1>2 DEF Turn, PackMemory, WriteCandidate, RollbackMemory
<1>5. ASSUME NEW w, Continues(vault[p], w), pc[p] # "rolling",
             vault' = [vault EXCEPT ![p] = w]
      PROVE  w \in VaultState /\ Goal(w)
  BY <1>5 DEF Continues, Removed
<1>6. CASE PackMemory(p)
  <2> DEFINE w == packMemory(vault[p], nextId, a)
  <2>1. vault' = [vault EXCEPT ![p] = w] /\ pc[p] # "rolling"
    BY <1>6 DEF PackMemory
  <2>2. Continues(vault[p], w)
    BY <1>2, <1>3, PackContinues
  <2> HIDE DEF w
  <2>3. w \in VaultState /\ Goal(w)
    BY <1>5, <2>1, <2>2
  <2> QED
    BY <1>1, <1>2, <1>4, <2>3
<1>7. CASE WriteCandidate(p)
  <2> DEFINE w == remember(vault[p], nextId, a)
  <2>1. vault' = [vault EXCEPT ![p] = w] /\ pc[p] # "rolling"
    BY <1>7 DEF WriteCandidate
  <2>2. Continues(vault[p], w)
    BY <1>2, <1>3, OperationsContinue
  <2> HIDE DEF w
  <2>3. w \in VaultState /\ Goal(w)
    BY <1>5, <2>1, <2>2
  <2> QED
    BY <1>1, <1>2, <1>4, <2>3
<1>8. CASE RollbackMemory(p) /\ CanDelete(vault[p], a)
  <2> DEFINE w == deleteMemory(vault[p], nextId, a)
  <2>1. vault' = [vault EXCEPT ![p] = w]
    BY <1>8 DEF RollbackMemory
  <2>2. Continues(vault[p], w) /\ a \in Tombstoned(w.tombstones)
    BY <1>2, <1>3, OperationsContinue
  <2>3. w.active = vault[p].active \ {a}
    <3> DEFINE t == Tombstone(vault[p], a)
    <3>1. t \in VaultState
      BY <1>2, <1>3, AssignmentsType
    <3>2. t.active = vault[p].active \ {a}
      BY <1>2 DEF Tombstone, MarkDeleted, VaultState
    <3>3. w = appendEvent(t, nextId, "delete", a, None)
      BY DEF deleteMemory
    <3> HIDE DEF t, w
    <3> QED
      BY <3>1, <3>2, <3>3, AppendEventFields
  <2> HIDE DEF w
  <2>4. w \in VaultState /\ Goal(w)
    BY <1>3, <2>1, <2>2, <2>3 DEF Continues, Removed
  <2> QED
    BY <1>1, <1>2, <1>4, <2>4
<1>9. CASE RollbackMemory(p) /\ ~CanDelete(vault[p], a)
  <2> DEFINE w == vault[p]
  <2>1. vault' = [vault EXCEPT ![p] = w]
    BY <1>2, <1>9 DEF RollbackMemory
  <2>2. Continues(vault[p], w)
    BY <1>2 DEF Continues, VaultState
  <2>3. a \in Tombstoned(w.tombstones) \/ a \notin w.active
    BY <1>3, <1>9 DEF CanDelete, Tombstoned
  <2>4. Goal(w)
    BY <1>3, <2>1, <2>2, <2>3 DEF Removed
  <2> QED
    BY <1>1, <1>2, <1>4, <2>4
<1> QED
  BY <1>6, <1>7, <1>8, <1>9 DEF Turn

-----------------------------------------------------------------------------
(* Type correctness. *)

\* Every step keeps the type.
LEMMA NextTypeOK == TypeOK /\ [Next]_vars => TypeOK'
<1> SUFFICES ASSUME TypeOK, [Next]_vars PROVE TypeOK'
  OBVIOUS
<1>1. ASSUME NEW p \in Procs, Start(p) PROVE TypeOK'
  <2>1. nextId' \in Nat \ {0} /\ minted' \subseteq MemoryIds /\ batches' \subseteq Seq(Addr)
    BY <1>1, StartLoads
  <2>2. PICK at \in Working, v \in VaultState, memories \in Seq(Addr), kept \in SUBSET Addr,
             gone \in SUBSET Addr : Loaded(p, at, v, memories, kept, gone)
    BY <1>1, StartLoads
  <2>3. /\ pc' \in [Procs -> Working \cup {"idle", "writing", "written"}]
        /\ vault' \in [Procs -> VaultState \cup {NoVault}]
        /\ \A q \in Procs : AtWork(q)' => vault'[q] \in VaultState
    BY <2>2 DEF Loaded, TypeOK, AtWork
  <2>4. /\ selected' \in [Procs -> Seq(Addr)]
        /\ request' \in [Procs -> [kept : SUBSET Addr, gone : SUBSET Addr]]
        /\ doomed' \subseteq Addr
        /\ UNCHANGED <<file, stored, deleted, crashes>>
    BY <2>2 DEF Loaded, TypeOK
  <2> QED
    BY <2>1, <2>3, <2>4 DEF TypeOK
<1>2. ASSUME NEW p \in Procs, Turn(p) PROVE TypeOK'
  <2>1. /\ selected[p] \in Seq(Addr) /\ selected[p] # <<>>
        /\ selected' = [selected EXCEPT ![p] = Tail(selected[p])]
        /\ nextId' \in Nat \ {0}
        /\ UNCHANGED <<file, pc, request, minted, stored, deleted, doomed, batches, crashes>>
    BY <1>2, TurnContinues DEF TypeOK
  <2>2. Tail(selected[p]) \in Seq(Addr)
    BY <2>1
  <2>3. PICK w \in VaultState : vault' = [vault EXCEPT ![p] = w]
    BY <1>2, TurnContinues
  <2> QED
    BY <2>1, <2>2, <2>3 DEF TypeOK, AtWork
<1>3. ASSUME NEW p \in Procs, Open(p) PROVE TypeOK'
  <2> DEFINE w == exportReceipt(vault[p], nextId)
  <2>1. vault[p] \in VaultState /\ nextId \in Nat
    BY <1>3 DEF Open, TypeOK, AtWork
  <2>2. w \in VaultState
    BY <2>1, AppendEventType DEF exportReceipt, Operations
  <2>3. /\ vault' = [vault EXCEPT ![p] = w]
        /\ nextId' = nextId + 1
        /\ pc' = [pc EXCEPT ![p] = "writing"]
        /\ file' = Empty
        /\ stored' \subseteq stored /\ deleted' \subseteq deleted
        /\ UNCHANGED <<selected, request, minted, doomed, batches, crashes>>
    BY <1>3 DEF Open
  <2> HIDE DEF w
  <2> QED
    BY <2>1, <2>2, <2>3 DEF TypeOK, AtWork, Working, NotBundles
<1>4. ASSUME NEW p \in Procs, Write(p) PROVE TypeOK'
  <2>1. vault[p] \in VaultState
    BY <1>4 DEF Write, TypeOK, AtWork
  <2>2. file' \in Bundle \cup NotBundles
    BY <1>4, <2>1, BundleType DEF Write, NotBundles
  <2>3. /\ pc' = [pc EXCEPT ![p] = "written"]
        /\ vault' = [vault EXCEPT ![p] = NoVault]
        /\ UNCHANGED <<selected, request, nextId, minted, stored, deleted, doomed, batches, crashes>>
    BY <1>4 DEF Write
  <2> QED
    BY <2>2, <2>3 DEF TypeOK, AtWork, Working
<1>5. ASSUME NEW p \in Procs, Respond(p) PROVE TypeOK'
  BY <1>5 DEF Respond, TypeOK, AtWork, Working, NoEffect
<1>6. ASSUME NEW p \in Procs, Crash(p) PROVE TypeOK'
  BY <1>6 DEF Crash, TypeOK, AtWork, Working, NoEffect
<1>7. CASE UNCHANGED vars
  BY <1>7 DEF vars, TypeOK, AtWork
<1> QED
  BY <1>1, <1>2, <1>3, <1>4, <1>5, <1>6, <1>7 DEF Next, Continue, Turn

\* There is no file and no request at the start.
LEMMA InitTypeOK == Init => TypeOK
BY DEF Init, TypeOK, AtWork, Working, NotBundles, NoEffect

\* Whatever processes do to each other's work, the file is a bundle or one of
\* the three things it can be in between, and a process that is at work has a
\* well-formed vault.
THEOREM SharedTypeCorrect == Spec => []TypeOK
BY InitTypeOK, NextTypeOK, PTL DEF Spec

-----------------------------------------------------------------------------
(* Every file that parses verifies.  The invariant also speaks of the       *)
(* vaults in memory, since they are what will be written.                   *)

SharedChainInv == /\ TypeOK
                  /\ Loadable => ChainOf(file)
                  /\ \A p \in Procs : AtWork(p) => ChainOf(vault[p])

\* No step of any process breaks a chain.
LEMMA NextSharedChainInv == SharedChainInv /\ [Next]_vars => SharedChainInv'
<1> SUFFICES ASSUME SharedChainInv, [Next]_vars PROVE SharedChainInv'
  OBVIOUS
<1>0. TypeOK /\ TypeOK'
  BY NextTypeOK DEF SharedChainInv
<1>1. ASSUME NEW p \in Procs, Start(p) PROVE SharedChainInv'
  <2>1. PICK at \in Working, v \in VaultState, memories \in Seq(Addr), kept \in SUBSET Addr,
             gone \in SUBSET Addr :
          Loaded(p, at, v, memories, kept, gone) /\ LoadedFrom(at, v, memories, gone)
    BY <1>0, <1>1, StartLoads
  <2>2. ChainOf(v)
    <3>1. CASE Loadable /\ Continues(reviveVault(file), v)
      <4>1. file \in Bundle
        BY <1>0, <3>1 DEF TypeOK, Loadable
      <4>2. ChainOf(reviveVault(file))
        BY <3>1, <4>1, ReviveFields DEF SharedChainInv, ChainOf
      <4> QED
        BY <3>1, <4>2 DEF Continues
    <3>2. CASE v = createVault
      BY <3>2, CreateVaultFacts
    <3>3. CASE Continues(createVault, v)
      BY <3>3, CreateVaultFacts DEF Continues
    <3> QED
      BY <2>1, <3>1, <3>2, <3>3 DEF LoadedFrom
  <2>3. pc' = [pc EXCEPT ![p] = at] /\ vault' = [vault EXCEPT ![p] = v] /\ file' = file
    BY <2>1 DEF Loaded
  <2>4. \A q \in Procs : AtWork(q)' => ChainOf(vault'[q])
    BY <1>0, <2>2, <2>3 DEF SharedChainInv, AtWork, Working, TypeOK
  <2> QED
    BY <1>0, <2>3, <2>4 DEF SharedChainInv, Loadable
<1>2. ASSUME NEW p \in Procs, Turn(p) PROVE SharedChainInv'
  <2>1. pc[p] \in Working /\ UNCHANGED <<file, pc>>
    BY <1>0, <1>2, TurnContinues
  <2>2. PICK w \in VaultState : vault' = [vault EXCEPT ![p] = w] /\ Continues(vault[p], w)
    BY <1>0, <1>2, TurnContinues
  <2>3. ChainOf(w)
    BY <2>1, <2>2 DEF Continues, SharedChainInv, AtWork, Working
  <2> QED
    BY <1>0, <2>1, <2>2, <2>3 DEF SharedChainInv, AtWork, Working, Loadable, TypeOK
<1>3. ASSUME NEW p \in Procs, Open(p) PROVE SharedChainInv'
  <2> DEFINE w == exportReceipt(vault[p], nextId)
  <2>1. vault[p] \in VaultState /\ ChainOf(vault[p])
    BY <1>0, <1>3 DEF Open, TypeOK, SharedChainInv, AtWork, Working
  <2>2. ChainOf(w)
    BY <2>1, AppendEventChain DEF exportReceipt
  <2>3. vault' = [vault EXCEPT ![p] = w] /\ pc' = [pc EXCEPT ![p] = "writing"] /\ file' = Empty
    BY <1>3 DEF Open
  <2> HIDE DEF w
  <2> QED
    BY <1>0, <2>2, <2>3 DEF SharedChainInv, AtWork, Working, Loadable, NotBundles, TypeOK
<1>4. ASSUME NEW p \in Procs, Write(p) PROVE SharedChainInv'
  <2>1. ChainOf(vault[p])
    BY <1>4 DEF Write, SharedChainInv, AtWork, Working
  <2>2. ChainOf(bundleOf(vault[p]))
    BY <2>1 DEF ChainOf, bundleOf
  <2>3. (Loadable => ChainOf(file))'
    BY <1>4, <2>2 DEF Write, Loadable, NotBundles
  <2>4. pc' = [pc EXCEPT ![p] = "written"] /\ vault' = [vault EXCEPT ![p] = NoVault]
    BY <1>4 DEF Write
  <2>5. \A q \in Procs : AtWork(q)' => ChainOf(vault'[q])
    BY <1>0, <2>4 DEF SharedChainInv, AtWork, Working, TypeOK
  <2> QED
    BY <1>0, <2>3, <2>5 DEF SharedChainInv
<1>5. ASSUME NEW p \in Procs, Respond(p) \/ Crash(p) PROVE SharedChainInv'
  <2>1. /\ pc' = [pc EXCEPT ![p] = "idle"]
        /\ file' = file
        /\ \A q \in Procs : q # p => vault'[q] = vault[q]
    BY <1>0, <1>5 DEF Respond, Crash, TypeOK
  <2> QED
    BY <1>0, <2>1 DEF SharedChainInv, AtWork, Working, Loadable, TypeOK
<1>6. CASE UNCHANGED vars
  BY <1>0, <1>6 DEF vars, SharedChainInv, AtWork, Working, Loadable
<1> QED
  BY <1>1, <1>2, <1>3, <1>4, <1>5, <1>6 DEF Next, Continue, Turn

\* For any number of processes killed at any point, a file that parses holds a
\* receipt chain that verifyReceiptChain accepts: a lost update cannot be seen
\* in the chain.
THEOREM SharedChainCorrect == Spec => []LoadableVerifies
<1>1. Init => SharedChainInv
  BY InitTypeOK DEF Init, SharedChainInv, Loadable, NotBundles, AtWork, Working
<1>2. SharedChainInv => LoadableVerifies
  BY DEF SharedChainInv, LoadableVerifies, ChainOf
<1> QED
  BY <1>1, <1>2, NextSharedChainInv, PTL DEF Spec

\* A damaged file is only ever replaced by an init that was told to overwrite:
\* enigma_init and ensureBundle look at the file's existence only, and every
\* other request fails in loadState.
THEOREM DamageNeedsOverwrite == Spec => DamagedNeedsOverwrite
<1> DEFINE Overwritten == \E p \in Procs : pc[p] = "replacing" /\ pc'[p] = "writing"
<1>1. TypeOK /\ [Next]_vars => [Damaged => Damaged' \/ Overwritten]_vars
  <2> SUFFICES ASSUME TypeOK, [Next]_vars, Damaged PROVE Damaged' \/ Overwritten
    OBVIOUS
  <2>0. /\ \A p \in Procs : pc[p] \in {"idle", "replacing"}
        /\ file \in {Empty, Torn} /\ pc \in [Procs -> Working \cup {"idle", "writing", "written"}]
    BY DEF Damaged, TypeOK
  <2>1. ASSUME NEW p \in Procs, NEW at \in {"idle", "replacing"},
               pc' = [pc EXCEPT ![p] = at], file' = file
        PROVE  Damaged'
    BY <2>0, <2>1 DEF Damaged
  <2>2. ASSUME NEW p \in Procs, Start(p) PROVE Damaged'
    <3>1. PICK at \in Working, v \in VaultState, memories \in Seq(Addr), kept \in SUBSET Addr,
               gone \in SUBSET Addr :
            Loaded(p, at, v, memories, kept, gone) /\ LoadedFrom(at, v, memories, gone)
      BY <2>2, StartLoads
    <3>2. at = "replacing"
      BY <2>0, <3>1, Distinct DEF LoadedFrom, Loadable, NotBundles
    <3>3. pc' = [pc EXCEPT ![p] = at] /\ file' = file
      BY <3>1 DEF Loaded
    <3> QED
      BY <2>1, <3>2, <3>3
  <2>3. ASSUME NEW p \in Procs, Turn(p) PROVE Damaged'
    BY <2>0, <2>3, TurnContinues DEF Damaged
  <2>4. ASSUME NEW p \in Procs, Open(p) PROVE Overwritten
    BY <2>0, <2>4 DEF Open, Working
  <2>5. ASSUME NEW p \in Procs, Write(p) \/ Respond(p) PROVE FALSE
    BY <2>0, <2>5 DEF Write, Respond
  <2>6. ASSUME NEW p \in Procs, Crash(p) PROVE Damaged'
    BY <2>1, <2>6 DEF Crash
  <2>7. CASE UNCHANGED vars
    BY <2>0, <2>7 DEF vars, Damaged
  <2> QED
    BY <2>2, <2>3, <2>4, <2>5, <2>6, <2>7 DEF Next, Continue, Turn
<1> QED
  BY <1>1, SharedTypeCorrect, PTL DEF Spec, DamagedNeedsOverwrite

-----------------------------------------------------------------------------
(* A single process loses nothing.  What was answered as deleted has a       *)
(* tombstone in the vault the process works on as well as in the file, the   *)
(* request's own removals have theirs.  A new vault is only ever made while   *)
(* nothing has been answered, or to replace the bundle: then what was        *)
(* answered before is given up with the old file, not earlier.               *)

Single == \A p, q \in Procs : p = q

SingleInv ==
    /\ TypeOK
    /\ Loadable => deleted \subseteq Tombstoned(file.tombstones)
    /\ file = Absent => deleted = {}
    /\ \A p \in Procs :
         /\ AtWork(p) => /\ pc[p] # "replacing" => deleted \subseteq Tombstoned(vault[p].tombstones)
                         /\ Removed(pc[p], vault[p], selected[p], request[p].gone)
         /\ pc[p] = "written" /\ Loadable => request[p].gone \subseteq Tombstoned(file.tombstones)
         /\ pc[p] \in {"writing", "written"} => file # Absent

\* Every step of the only process keeps the invariant.
LEMMA NextSingleInv == Single /\ SingleInv /\ [Next]_vars => SingleInv'
<1> SUFFICES ASSUME Single, SingleInv, [Next]_vars PROVE SingleInv'
  OBVIOUS
<1>0. TypeOK /\ TypeOK'
  BY NextTypeOK DEF SingleInv
<1>1. ASSUME NEW p \in Procs, Start(p) PROVE SingleInv'
  <2>1. PICK at \in Working, v \in VaultState, memories \in Seq(Addr), kept \in SUBSET Addr,
             gone \in SUBSET Addr :
          Loaded(p, at, v, memories, kept, gone) /\ LoadedFrom(at, v, memories, gone)
    BY <1>0, <1>1, StartLoads
  <2>2. /\ pc' = [pc EXCEPT ![p] = at]
        /\ selected' = [selected EXCEPT ![p] = memories]
        /\ vault' = [vault EXCEPT ![p] = v]
        /\ request' = [request EXCEPT ![p] = [kept |-> kept, gone |-> gone]]
        /\ file' = file /\ deleted' = deleted
    BY <2>1 DEF Loaded
  <2>3. \A q \in Procs : q = p
    BY DEF Single
  <2>4. pc'[p] = at /\ vault'[p] = v /\ selected'[p] = memories /\ request'[p].gone = gone
    BY <1>0, <2>2 DEF TypeOK
  <2>5. Loadable /\ at # "replacing"
          => Tombstoned(file.tombstones) \subseteq Tombstoned(v.tombstones)
    <3> SUFFICES ASSUME Loadable, at # "replacing"
                 PROVE  Tombstoned(file.tombstones) \subseteq Tombstoned(v.tombstones)
      OBVIOUS
    <3>1. Continues(reviveVault(file), v)
      BY <2>1 DEF LoadedFrom, Loadable, NotBundles
    <3>2. file \in Bundle
      BY <1>0 DEF TypeOK, Loadable
    <3> QED
      BY <3>1, <3>2, ReviveFields DEF Continues
  <2>6. (at # "replacing" => deleted \subseteq Tombstoned(v.tombstones))
        /\ Removed(at, v, memories, gone)
    BY <2>1, <2>5 DEF LoadedFrom, Removed, SingleInv
  <2> QED
    BY <1>0, <2>2, <2>3, <2>4, <2>6 DEF SingleInv, AtWork, Working, Loadable
<1>2. ASSUME NEW p \in Procs, Turn(p) PROVE SingleInv'
  <2>1. /\ pc[p] \in Working /\ vault[p] \in VaultState
        /\ selected' = [selected EXCEPT ![p] = Tail(selected[p])]
        /\ UNCHANGED <<file, pc, request, deleted>>
    BY <1>0, <1>2, TurnContinues
  <2>2. PICK w \in VaultState :
          /\ vault' = [vault EXCEPT ![p] = w]
          /\ Continues(vault[p], w)
          /\ Removed(pc[p], vault[p], selected[p], request[p].gone)
               => Removed(pc[p], w, Tail(selected[p]), request[p].gone)
    BY <1>0, <1>2, TurnContinues
  <2>3. /\ vault'[p] = w /\ selected'[p] = Tail(selected[p])
        /\ \A q \in Procs : q = p
    BY <1>0, <2>1, <2>2 DEF TypeOK, Single
  <2>4. AtWork(p)
    BY <2>1 DEF AtWork
  <2>6. (pc[p] # "replacing" => deleted \subseteq Tombstoned(w.tombstones))
        /\ Removed(pc[p], w, Tail(selected[p]), request[p].gone)
    BY <2>2, <2>4 DEF SingleInv, Continues
  <2> QED
    BY <1>0, <2>1, <2>3, <2>6 DEF SingleInv, AtWork, Working, Loadable
<1>3. ASSUME NEW p \in Procs, Open(p) PROVE SingleInv'
  <2> DEFINE w == exportReceipt(vault[p], nextId)
  <2>1. vault[p] \in VaultState /\ nextId \in Nat /\ pc[p] \in Working /\ selected[p] = <<>>
    BY <1>0, <1>3 DEF Open, TypeOK, AtWork
  <2>2. Tombstoned(w.tombstones) = Tombstoned(vault[p].tombstones)
    BY <2>1, AppendEventFields DEF exportReceipt
  <2>3. /\ vault' = [vault EXCEPT ![p] = w]
        /\ pc' = [pc EXCEPT ![p] = "writing"]
        /\ file' = Empty
        /\ deleted' = IF pc[p] = "replacing" THEN {} ELSE deleted
        /\ UNCHANGED <<selected, request>>
    BY <1>3 DEF Open
  <2> HIDE DEF w
  <2>4. vault'[p] = w /\ pc'[p] = "writing" /\ \A q \in Procs : q = p
    BY <1>0, <2>3 DEF TypeOK, Single
  <2>5. ~Loadable' /\ file' # Absent
    BY <2>3, Distinct DEF Loadable, NotBundles
  <2>6. AtWork(p) /\ ToSet(selected[p]) = {}
    BY <2>1 DEF AtWork, ToSet
  <2>7. deleted' \cup request[p].gone \subseteq Tombstoned(w.tombstones)
    BY <2>2, <2>3, <2>6 DEF SingleInv, Removed
  <2>8. Removed("writing", w, selected[p], request[p].gone)
    BY <2>7 DEF Removed
  <2> QED
    BY <1>0, <2>3, <2>4, <2>5, <2>7, <2>8 DEF SingleInv, AtWork, Working
<1>4. ASSUME NEW p \in Procs, Write(p) PROVE SingleInv'
  <2>1. vault[p] \in VaultState /\ pc[p] = "writing"
    BY <1>0, <1>4 DEF Write, TypeOK, AtWork
  <2>2. /\ pc' = [pc EXCEPT ![p] = "written"]
        /\ UNCHANGED <<request, deleted>>
    BY <1>4 DEF Write
  <2>3. pc'[p] = "written" /\ \A q \in Procs : q = p
    BY <1>0, <2>2 DEF TypeOK, Single
  <2>4. file' # Absent /\ (Loadable' => file' = bundleOf(vault[p]))
    <3>1. bundleOf(vault[p]) # Absent
      BY <2>1, BundleType, Distinct DEF NotBundles
    <3> QED
      BY <1>4, <3>1, Distinct DEF Write, Loadable, NotBundles
  <2>5. bundleOf(vault[p]).tombstones = vault[p].tombstones
    BY DEF bundleOf
  <2>6. Loadable' => deleted \cup request[p].gone \subseteq Tombstoned(file'.tombstones)
    BY <2>1, <2>4, <2>5 DEF SingleInv, AtWork, Removed
  <2> QED
    BY <1>0, <2>2, <2>3, <2>4, <2>6 DEF SingleInv, AtWork, Working
<1>5. ASSUME NEW p \in Procs, Respond(p) PROVE SingleInv'
  <2>1. /\ pc[p] = "written" /\ pc' = [pc EXCEPT ![p] = "idle"]
        /\ deleted' = deleted \cup request[p].gone
        /\ file' = file
    BY <1>5 DEF Respond
  <2>2. pc'[p] = "idle" /\ \A q \in Procs : q = p
    BY <1>0, <2>1 DEF TypeOK, Single
  <2>3. Loadable => deleted' \subseteq Tombstoned(file.tombstones)
    BY <2>1 DEF SingleInv
  <2>4. file # Absent
    BY <2>1 DEF SingleInv
  <2> QED
    BY <1>0, <2>1, <2>2, <2>3, <2>4 DEF SingleInv, AtWork, Working, Loadable
<1>6. ASSUME NEW p \in Procs, Crash(p) PROVE SingleInv'
  <2>1. pc' = [pc EXCEPT ![p] = "idle"] /\ UNCHANGED <<file, deleted>>
    BY <1>6 DEF Crash
  <2>2. pc'[p] = "idle" /\ \A q \in Procs : q = p
    BY <1>0, <2>1 DEF TypeOK, Single
  <2> QED
    BY <1>0, <2>1, <2>2 DEF SingleInv, AtWork, Working, Loadable
<1>7. CASE UNCHANGED vars
  BY <1>0, <1>7 DEF vars, SingleInv, AtWork, Loadable
<1> QED
  BY <1>1, <1>2, <1>3, <1>4, <1>5, <1>6, <1>7 DEF Next, Continue, Turn

\* Nothing is deleted and nobody is at work at the start.
LEMMA InitSingleInv == Init => SingleInv
BY InitTypeOK DEF Init, SingleInv, Loadable, NotBundles, AtWork, Working

\* With one process, killed at any point, an answered delete holds: no file
\* that parses serves the memory again, until an init replaces the bundle.
THEOREM SingleDeletesHold ==
    ASSUME Single
    PROVE  Spec => []AnsweredDeletesHold
<1>1. SingleInv => AnsweredDeletesHold
  <2> SUFFICES ASSUME SingleInv, Loadable
               PROVE  deleted \cap Serveable(reviveVault(file)) = {}
    BY DEF AnsweredDeletesHold
  <2>1. file \in Bundle /\ deleted \subseteq Tombstoned(file.tombstones)
    BY DEF SingleInv, TypeOK, Loadable
  <2> QED
    BY <2>1, ReviveFields, TombstonedNotServed
<1>2. SingleInv /\ [Next]_vars => SingleInv'
  BY NextSingleInv
<1> QED
  BY <1>1, <1>2, InitSingleInv, PTL DEF Spec
-----------------------------------------------------------------------------
(* Imports are whole.  A memory id is drawn once, so no two imports share a  *)
(* memory and nobody else creates one of theirs; a copy that misses a part   *)
(* of an import belongs to the request that is still writing its candidates. *)

\* The elements of a log to which a receipt is appended.
LEMMA ToSetAppend ==
    ASSUME NEW rs \in Seq(Receipt), NEW r \in Receipt
    PROVE  ToSet(Append(rs, r)) = ToSet(rs) \cup {r}
<1> DEFINE t == Append(rs, r)
<1>1. /\ DOMAIN rs = 1 .. Len(rs) /\ DOMAIN t = 1 .. Len(rs) + 1 /\ Len(rs) \in Nat
      /\ \A i \in 1 .. Len(rs) : t[i] = rs[i]
      /\ t[Len(rs) + 1] = r
  OBVIOUS
<1> HIDE DEF t
<1>2. ASSUME NEW x \in ToSet(t) PROVE x \in ToSet(rs) \cup {r}
  <2>1. PICK i \in DOMAIN t : x = t[i]
    BY DEF ToSet
  <2>2. i \in 1 .. Len(rs) \/ i = Len(rs) + 1
    BY <1>1
  <2> QED
    BY <1>1, <2>1, <2>2 DEF ToSet
<1>3. ASSUME NEW x \in ToSet(rs) PROVE x \in ToSet(t)
  <2>1. PICK i \in 1 .. Len(rs) : x = rs[i]
    BY <1>1 DEF ToSet
  <2>2. i \in DOMAIN t
    BY <1>1
  <2> QED
    BY <1>1, <2>1, <2>2 DEF ToSet
<1>4. r \in ToSet(t)
  <2>1. Len(rs) + 1 \in DOMAIN t
    BY <1>1
  <2> QED
    BY <1>1, <2>1 DEF ToSet
<1> QED
  BY <1>2, <1>3, <1>4 DEF t

\* Only a create receipt adds to what a log creates.
LEMMA CreatedByAppend ==
    ASSUME NEW v \in VaultState, NEW id \in Nat, NEW op \in Operations,
           NEW a \in Addr \cup {None}, NEW s \in Addr \cup {None}
    PROVE  LET created == CreatedIn(appendEvent(v, id, op, a, s).receipts)
           IN /\ op = "create" => created = CreatedIn(v.receipts) \cup {a}
              /\ op # "create" => created = CreatedIn(v.receipts)
<1> DEFINE r == buildReceipt(v, id, op, a, s)
           w == appendEvent(v, id, op, a, s)
<1>1. w.receipts = Append(v.receipts, r) /\ v.receipts \in Seq(Receipt)
  BY AppendEventFields DEF VaultState
<1>2. w.receipts \in Seq(Receipt)
  BY AppendEventType DEF VaultState
<1>3. r \in Receipt
  <2>1. w.receipts[Len(v.receipts) + 1] = r /\ Len(v.receipts) + 1 \in 1 .. Len(w.receipts)
    BY <1>1
  <2> QED
    BY <1>2, <2>1
<1>4. r.operation = op /\ r.memory_addr = a
  BY DEF buildReceipt
<1>5. ToSet(w.receipts) = ToSet(v.receipts) \cup {r}
  BY <1>1, <1>3, ToSetAppend
<1> HIDE DEF r, w
<1>6. op = "create" => CreatedIn(w.receipts) = CreatedIn(v.receipts) \cup {a}
  BY <1>4, <1>5 DEF CreatedIn
<1>7. op # "create" => CreatedIn(w.receipts) = CreatedIn(v.receipts)
  BY <1>4, <1>5 DEF CreatedIn
<1> QED
  BY <1>6, <1>7 DEF w

\* A create receipt adds its memory.
LEMMA CreatedByCreate ==
    ASSUME NEW v \in VaultState, NEW id \in Nat, NEW a \in Addr
    PROVE  CreatedIn(appendEvent(v, id, "create", a, None).receipts) = CreatedIn(v.receipts) \cup {a}
<1> DEFINE op == "create"
<1>1. op \in Operations /\ op = "create"
  BY DEF Operations
<1>2. a \in Addr \cup {None} /\ None \in Addr \cup {None}
  OBVIOUS
<1> HIDE DEF op
<1>3. CreatedIn(appendEvent(v, id, op, a, None).receipts) = CreatedIn(v.receipts) \cup {a}
  BY <1>1, <1>2, CreatedByAppend
<1> QED
  BY <1>1, <1>3

\* remember creates the memory.
LEMMA RememberCreates ==
    ASSUME NEW v \in VaultState, NEW id \in Nat, NEW a \in Addr
    PROVE  /\ remember(v, id, a) \in VaultState
           /\ CreatedIn(remember(v, id, a).receipts) = CreatedIn(v.receipts) \cup {a}
<1> DEFINE t == StoreActive(v, a)
<1>1. remember(v, id, a) = appendEvent(t, id, "create", a, None)
  BY DEF remember
<1>2. t \in VaultState /\ t.receipts = v.receipts
  BY AssignmentsType, AssignmentsKeepLog
<1> HIDE DEF t
<1>3. CreatedIn(appendEvent(t, id, "create", a, None).receipts) = CreatedIn(t.receipts) \cup {a}
  BY <1>2, CreatedByCreate
<1>4. remember(v, id, a) \in VaultState
  BY OperationsContinue DEF Continues
<1> QED
  BY <1>1, <1>2, <1>3, <1>4

\* An export creates nothing.
LEMMA ExportCreates ==
    ASSUME NEW v \in VaultState, NEW id \in Nat
    PROVE  CreatedIn(exportReceipt(v, id).receipts) = CreatedIn(v.receipts)
<1>1. "export" \in Operations /\ None \in Addr \cup {None}
  BY DEF Operations
<1>2. exportReceipt(v, id) = appendEvent(v, id, "export", None, None)
  BY DEF exportReceipt
<1> QED
  BY <1>1, <1>2, CreatedByAppend

\* No other operation creates anything either.
LEMMA OperationsCreate ==
    ASSUME NEW v \in VaultState, NEW id \in Nat, NEW a \in Addr, NEW b \in Addr
    PROVE  /\ CreatedIn(recall(v, id, a).receipts) = CreatedIn(v.receipts)
           /\ CreatedIn(updateMemory(v, id, a, b).receipts) = CreatedIn(v.receipts)
           /\ CreatedIn(deleteMemory(v, id, a).receipts) = CreatedIn(v.receipts)
           /\ CreatedIn(packMemory(v, id, a).receipts) = CreatedIn(v.receipts)
<1>0. {"read", "update", "delete", "retrieve", "inject"} \subseteq Operations
      /\ None \in Addr \cup {None}
  BY DEF Operations
<1>1. CreatedIn(recall(v, id, a).receipts) = CreatedIn(v.receipts)
  <2>1. recall(v, id, a) = appendEvent(v, id, "read", a, None)
    BY DEF recall
  <2> QED
    BY <1>0, <2>1, CreatedByAppend
<1>2. /\ Supersede(v, a, b) \in VaultState /\ Supersede(v, a, b).receipts = v.receipts
      /\ Tombstone(v, a) \in VaultState /\ Tombstone(v, a).receipts = v.receipts
  BY AssignmentsType, AssignmentsKeepLog
<1>3. CreatedIn(updateMemory(v, id, a, b).receipts) = CreatedIn(v.receipts)
  BY <1>0, <1>2, CreatedByAppend DEF updateMemory
<1>4. CreatedIn(deleteMemory(v, id, a).receipts) = CreatedIn(v.receipts)
  BY <1>0, <1>2, CreatedByAppend DEF deleteMemory
<1>5. CreatedIn(packMemory(v, id, a).receipts) = CreatedIn(v.receipts)
  <2> DEFINE u == appendEvent(v, id, "retrieve", a, None)
  <2>1. u \in VaultState /\ CreatedIn(u.receipts) = CreatedIn(v.receipts)
    BY <1>0, AppendEventType, CreatedByAppend
  <2>2. packMemory(v, id, a) = appendEvent(u, id + 1, "inject", a, None)
    BY DEF packMemory
  <2> HIDE DEF u
  <2> QED
    BY <1>0, <2>1, <2>2, CreatedByAppend
<1> QED
  BY <1>1, <1>3, <1>4, <1>5

\* What the file creates; nothing when it does not parse.
FileCreates == IF Loadable THEN CreatedIn(file.receipts) ELSE {}

\* The ids of the memories are drawn by this step.
DrawsNow(memories) == \A a \in memories : a[1] \in minted' \ minted

\* A request starts from what the file creates, or from nothing when it replaces
\* the bundle, and adds at most a new memory; an import adds nothing yet and draws the ids of all its candidates.
StartsFrom(at, v, memories, kept) ==
    /\ minted \subseteq minted'
    /\ \E old \in {FileCreates, {}} : \E new : CreatedIn(v.receipts) = old \cup new /\ DrawsNow(new)
    /\ \/ at # "importing" /\ batches' = batches
       \/ /\ at = "importing" /\ batches' = batches \cup {memories}
          /\ kept = ToSet(memories) /\ DrawsNow(kept)

\* What a request that starts finds created, and draws.
LEMMA StartCreates ==
    ASSUME TypeOK, NEW p \in Procs, Start(p)
    PROVE  \E at \in Working, v \in VaultState, memories \in Seq(Addr) : \E kept, gone :
             Loaded(p, at, v, memories, kept, gone) /\ StartsFrom(at, v, memories, kept)
<1> DEFINE Goal == \E at \in Working, v \in VaultState, memories \in Seq(Addr) : \E kept, gone :
             Loaded(p, at, v, memories, kept, gone) /\ StartsFrom(at, v, memories, kept)
           u == reviveVault(file)
<1>0. /\ nextId \in Nat /\ <<>> \in Seq(Addr) /\ batches \subseteq Seq(Addr)
      /\ Working = {"loaded", "importing", "rolling", "replacing"}
  BY DEF TypeOK, Working
<1>1. Loadable => u \in VaultState /\ CreatedIn(u.receipts) = FileCreates
  BY ReviveFields DEF TypeOK, Loadable, FileCreates
<1>2. ASSUME NEW at \in {"loaded", "rolling"}, NEW w \in VaultState, NEW memories \in Seq(Addr),
             NEW kept, NEW gone, Loaded(p, at, w, memories, kept, gone),
             CreatedIn(w.receipts) = FileCreates,
             minted' = minted, batches' = batches
      PROVE  Goal
  <2>1. CreatedIn(w.receipts) = FileCreates \cup {} /\ DrawsNow({})
    BY <1>2 DEF DrawsNow
  <2>2. StartsFrom(at, w, memories, kept)
    BY <1>2, <2>1 DEF StartsFrom
  <2> QED
    BY <1>0, <1>2, <2>2
<1>3. CASE InitBundle(p)
  <2>1. Loaded(p, "loaded", createVault, <<>>, {}, {}) /\ minted' = minted /\ batches' = batches
    BY <1>3 DEF InitBundle
  <2>2. CreatedIn(createVault.receipts) = {} /\ FileCreates = {}
    BY <1>3 DEF InitBundle, createVault, CreatedIn, ToSet, FileCreates, Loadable, NotBundles
  <2> QED
    BY <1>0, <1>2, <2>1, <2>2, CreateVaultFacts
<1>4. ASSUME NEW id \in MemoryIds, NEW c \in Contents, Remember(p, id, c) PROVE Goal
  <2> DEFINE a == memoryAddress(id, c)
             w == remember(u, nextId, a)
  <2>1. a \in Addr /\ a[1] = id
    BY DEF memoryAddress, Addr
  <2>2. Loadable /\ Loaded(p, "loaded", w, <<>>, {a}, {})
        /\ id \notin minted /\ minted' = minted \cup {id} /\ batches' = batches
    BY <1>4 DEF Remember, CanLoad
  <2> HIDE DEF a
  <2>3. w \in VaultState /\ CreatedIn(w.receipts) = CreatedIn(u.receipts) \cup {a}
    BY <1>0, <1>1, <2>1, <2>2, RememberCreates
  <2> HIDE DEF w
  <2>4. CreatedIn(w.receipts) = FileCreates \cup {a}
    BY <1>1, <2>2, <2>3
  <2>5. DrawsNow({a}) /\ minted \subseteq minted'
    BY <2>1, <2>2 DEF DrawsNow
  <2>6. StartsFrom("loaded", w, <<>>, {a})
    BY <2>2, <2>4, <2>5 DEF StartsFrom
  <2> QED
    BY <1>0, <2>2, <2>3, <2>6
<1>5. ASSUME NEW a \in Addr, Recall(p, a) PROVE Goal
  <2> DEFINE w == recall(u, nextId, a)
  <2>1. Loadable /\ Loaded(p, "loaded", w, <<>>, {}, {}) /\ minted' = minted /\ batches' = batches
    BY <1>5 DEF Recall, CanLoad
  <2>2. w \in VaultState /\ CreatedIn(w.receipts) = FileCreates
    BY <1>0, <1>1, <2>1, OperationsContinue, OperationsCreate DEF Continues
  <2> HIDE DEF w
  <2> QED
    BY <1>0, <1>2, <2>1, <2>2
<1>6. ASSUME NEW a \in Addr, DeleteMemory(p, a) PROVE Goal
  <2> DEFINE w == deleteMemory(u, nextId, a)
  <2>1. Loadable /\ Loaded(p, "loaded", w, <<>>, {}, {a}) /\ minted' = minted /\ batches' = batches
    BY <1>6 DEF DeleteMemory, CanLoad
  <2>2. w \in VaultState /\ CreatedIn(w.receipts) = FileCreates
    BY <1>0, <1>1, <2>1, OperationsContinue, OperationsCreate DEF Continues
  <2> HIDE DEF w
  <2> QED
    BY <1>0, <1>2, <2>1, <2>2
<1>7. ASSUME NEW a \in Addr, NEW c \in Contents, UpdateMemory(p, a, c) PROVE Goal
  <2> DEFINE b == memoryAddress(a[1], c)
             w == updateMemory(u, nextId, a, b)
  <2>1. Loadable /\ Loaded(p, "loaded", w, <<>>, {b}, {a}) /\ minted' = minted /\ batches' = batches
    BY <1>7 DEF UpdateMemory, CanLoad
  <2>2. b \in Addr
    BY UpdateAddress
  <2>3. w \in VaultState /\ CreatedIn(w.receipts) = FileCreates
    BY <1>0, <1>1, <2>1, <2>2, OperationsContinue, OperationsCreate DEF Continues
  <2> HIDE DEF w, b
  <2> QED
    BY <1>0, <1>2, <2>1, <2>3
<1>8. ASSUME NEW memories \in BoundedSeq(Addr, PackLimit), CompileContextPack(p, memories)
      PROVE  Goal
  <2>1. Loadable /\ Loaded(p, "loaded", u, memories, {}, {}) /\ minted' = minted /\ batches' = batches
    BY <1>8 DEF CompileContextPack, CanLoad
  <2>2. memories \in Seq(Addr)
    BY BoundedAddrs, SharedBoundsAssumption
  <2> HIDE DEF u
  <2> QED
    BY <1>0, <1>1, <1>2, <2>1, <2>2
<1>9. ASSUME NEW memories \in BoundedSeq(Addr, BatchLimit), ImportBatch(p, memories)
      PROVE  Goal
  <2>1. /\ Loadable /\ Loaded(p, "importing", u, memories, ToSet(memories), {})
        /\ FreshIds(memories) /\ batches' = batches \cup {memories}
        /\ minted' = minted \cup {a[1] : a \in ToSet(memories)}
    BY <1>9 DEF ImportBatch, CanLoad
  <2>2. memories \in Seq(Addr)
    BY BoundedAddrs, SharedBoundsAssumption
  <2>3. DrawsNow(ToSet(memories))
    <3>1. \A a \in ToSet(memories) : a[1] \notin minted
      BY <2>1, <2>2 DEF FreshIds, ToSet
    <3> QED
      BY <2>1, <3>1 DEF DrawsNow
  <2>4. CreatedIn(u.receipts) = FileCreates \cup {} /\ DrawsNow({})
    BY <1>1, <2>1 DEF DrawsNow
  <2> HIDE DEF u
  <2>5. StartsFrom("importing", u, memories, ToSet(memories))
    BY <2>1, <2>3, <2>4 DEF StartsFrom
  <2> QED
    BY <1>0, <1>1, <2>1, <2>2, <2>5
<1>10. ASSUME NEW memories \in batches, ImportRollback(p, memories) PROVE Goal
  <2> DEFINE gone == {a \in ToSet(memories) : CanDelete(u, a)}
  <2>1. Loadable /\ Loaded(p, "rolling", u, memories, {}, gone) /\ minted' = minted /\ batches' = batches
    BY <1>10 DEF ImportRollback, CanLoad
  <2> HIDE DEF u, gone
  <2> QED
    BY <1>0, <1>1, <1>2, <2>1
<1>11. ASSUME NEW id \in MemoryIds, NEW c \in Contents, Quickstart(p, id, c) PROVE Goal
  <2> DEFINE a == memoryAddress(id, c)
             w == remember(createVault, nextId, a)
  <2>1. a \in Addr /\ a[1] = id
    BY DEF memoryAddress, Addr
  <2>2. Loaded(p, "replacing", w, <<a>>, {a}, {})
        /\ id \notin minted /\ minted' = minted \cup {id} /\ batches' = batches
    BY <1>11 DEF Quickstart
  <2> HIDE DEF a
  <2>3. CreatedIn(createVault.receipts) = {}
    BY DEF createVault, CreatedIn, ToSet
  <2>4. w \in VaultState /\ CreatedIn(w.receipts) = {} \cup {a}
    BY <1>0, <2>1, <2>3, CreateVaultFacts, RememberCreates
  <2> HIDE DEF w
  <2>5. DrawsNow({a}) /\ minted \subseteq minted'
    BY <2>1, <2>2 DEF DrawsNow
  <2>6. StartsFrom("replacing", w, <<a>>, {a})
    BY <2>2, <2>4, <2>5 DEF StartsFrom
  <2>7. <<a>> \in Seq(Addr)
    BY <2>1
  <2> QED
    BY <1>0, <2>2, <2>4, <2>6, <2>7
<1> QED
  BY <1>3, <1>4, <1>5, <1>6, <1>7, <1>8, <1>9, <1>10, <1>11 DEF Start

\* A turn of a loop creates nothing, but for the turn of an import.
LEMMA TurnCreates ==
    ASSUME TypeOK, NEW p \in Procs, Turn(p)
    PROVE  \E w \in VaultState :
             /\ vault' = [vault EXCEPT ![p] = w]
             /\ CreatedIn(w.receipts) = CreatedIn(vault[p].receipts)
                  \cup (IF pc[p] = "importing" THEN {Head(selected[p])} ELSE {})
<1> DEFINE a == Head(selected[p])
           old == CreatedIn(vault[p].receipts)
<1>1. /\ vault[p] \in VaultState /\ nextId \in Nat /\ a \in Addr
      /\ vault \in [Procs -> VaultState \cup {NoVault}]
  <2>1. selected[p] \in Seq(Addr) /\ selected[p] # <<>>
    BY TurnContinues DEF TypeOK
  <2> QED
    BY <2>1, TurnContinues, ToSetFacts DEF TypeOK
<1>2. CASE PackMemory(p)
  <2> DEFINE w == packMemory(vault[p], nextId, a)
  <2>1. w \in VaultState /\ CreatedIn(w.receipts) = old
    BY <1>1, PackContinues, OperationsCreate DEF Continues
  <2>2. vault' = [vault EXCEPT ![p] = w] /\ pc[p] # "importing"
    BY <1>2 DEF PackMemory
  <2> HIDE DEF w
  <2> QED
    BY <2>1, <2>2
<1>3. CASE WriteCandidate(p)
  <2> DEFINE w == remember(vault[p], nextId, a)
  <2>1. w \in VaultState /\ CreatedIn(w.receipts) = old \cup {a}
    BY <1>1, RememberCreates
  <2>2. vault' = [vault EXCEPT ![p] = w] /\ pc[p] = "importing"
    BY <1>3 DEF WriteCandidate
  <2> HIDE DEF w
  <2> QED
    BY <2>1, <2>2
<1>4. CASE RollbackMemory(p) /\ CanDelete(vault[p], a)
  <2> DEFINE w == deleteMemory(vault[p], nextId, a)
  <2>1. w \in VaultState /\ CreatedIn(w.receipts) = old
    BY <1>1, OperationsContinue, OperationsCreate DEF Continues
  <2>2. vault' = [vault EXCEPT ![p] = w] /\ pc[p] # "importing"
    BY <1>4 DEF RollbackMemory
  <2> HIDE DEF w
  <2> QED
    BY <2>1, <2>2
<1>5. CASE RollbackMemory(p) /\ ~CanDelete(vault[p], a)
  <2>1. vault' = [vault EXCEPT ![p] = vault[p]] /\ pc[p] # "importing"
    BY <1>1, <1>5 DEF RollbackMemory
  <2> QED
    BY <1>1, <2>1
<1> QED
  BY <1>2, <1>3, <1>4, <1>5 DEF Turn

\* The ids of everything a log creates have been drawn.
Drawn(created) == \A a \in created : a[1] \in minted

\* The import a request is writing: what is not created yet is still to come.
UnderWay(created, todo, kept) ==
    /\ \E memories \in batches : ToSet(memories) = kept
    /\ ToSet(todo) \subseteq kept
    /\ kept \subseteq created \cup ToSet(todo)

CopyInv(p) ==
    LET rs == vault[p].receipts
    IN /\ Drawn(CreatedIn(rs))
       /\ \A m \in batches : \/ WholeIn(rs, m)
                             \/ pc[p] = "importing" /\ ToSet(m) = request[p].kept
       /\ pc[p] = "importing" => UnderWay(CreatedIn(rs), selected[p], request[p].kept)

ImportInv ==
    /\ TypeOK
    /\ \A m \in batches : Drawn(ToSet(m))
    /\ \A m, n \in batches : ToSet(m) = ToSet(n) \/ ToSet(m) \cap ToSet(n) = {}
    /\ Loadable => Drawn(CreatedIn(file.receipts))
    /\ ImportsWhole
    /\ \A p \in Procs : AtWork(p) => CopyInv(p)

\* An import whose ids are drawn now meets nothing created before.
LEMMA NewIsDisjoint ==
    ASSUME NEW new, NEW created, DrawsNow(new), Drawn(created)
    PROVE  new \cap created = {}
BY DEF DrawsNow, Drawn

\* Logs that create the same of an import have it whole alike.
LEMMA SameWhole ==
    ASSUME NEW rs, NEW ts, NEW m,
           ToSet(m) \cap CreatedIn(rs) = ToSet(m) \cap CreatedIn(ts), WholeIn(rs, m)
    PROVE  WholeIn(ts, m)
BY DEF WholeIn

\* A process that a step of another leaves alone keeps its invariant.
LEMMA CopyKept ==
    ASSUME NEW q \in Procs, CopyInv(q),
           vault'[q] = vault[q], pc'[q] = pc[q], selected'[q] = selected[q],
           request'[q] = request[q], minted' = minted, batches' = batches
    PROVE  CopyInv(q)'
BY DEF CopyInv, Drawn, UnderWay

\* A request that starts keeps the invariant of imports.
LEMMA StartImportInv ==
    ASSUME ImportInv, TypeOK', NEW p \in Procs, Start(p)
    PROVE  ImportInv'
<1>0. TypeOK
  BY DEF ImportInv
<1>1. PICK at \in Working, v \in VaultState, memories \in Seq(Addr) : \E kept, gone :
        Loaded(p, at, v, memories, kept, gone) /\ StartsFrom(at, v, memories, kept)
  BY <1>0, StartCreates
<1>2. PICK kept, gone : Loaded(p, at, v, memories, kept, gone) /\ StartsFrom(at, v, memories, kept)
  BY <1>1
<1>3. PICK old \in {FileCreates, {}} : \E new : CreatedIn(v.receipts) = old \cup new /\ DrawsNow(new)
  BY <1>2 DEF StartsFrom
<1>3a. PICK new : CreatedIn(v.receipts) = old \cup new /\ DrawsNow(new)
  BY <1>3
<1>4. minted \subseteq minted'
  BY <1>2 DEF StartsFrom
<1>5. /\ pc' = [pc EXCEPT ![p] = at] /\ vault' = [vault EXCEPT ![p] = v]
      /\ selected' = [selected EXCEPT ![p] = memories]
      /\ request' = [request EXCEPT ![p] = [kept |-> kept, gone |-> gone]]
      /\ file' = file
  BY <1>2 DEF Loaded
<1>6. /\ pc'[p] = at /\ vault'[p] = v /\ selected'[p] = memories /\ request'[p].kept = kept
      /\ \A q \in Procs : q # p => /\ pc'[q] = pc[q] /\ vault'[q] = vault[q]
                                   /\ selected'[q] = selected[q] /\ request'[q] = request[q]
  BY <1>0, <1>5 DEF TypeOK
<1>7. Drawn(FileCreates)
  BY DEF ImportInv, FileCreates, Drawn
<1>8. \/ at # "importing" /\ batches' = batches
      \/ /\ at = "importing" /\ batches' = batches \cup {memories}
         /\ kept = ToSet(memories) /\ DrawsNow(ToSet(memories))
  BY <1>2 DEF StartsFrom
<1>9. \A m \in batches' : m \in batches \/ (m = memories /\ at = "importing"
                                           /\ kept = ToSet(memories) /\ DrawsNow(ToSet(memories)))
  BY <1>8
<1>10. batches \subseteq batches'
  BY <1>8
<1>11. \A m \in batches' : Drawn(ToSet(m))'
  BY <1>4, <1>9 DEF ImportInv, Drawn, DrawsNow
<1>12. ASSUME NEW m \in batches', NEW n \in batches'
       PROVE  ToSet(m) = ToSet(n) \/ ToSet(m) \cap ToSet(n) = {}
  <2>1. CASE m \in batches /\ n \in batches
    BY <2>1 DEF ImportInv
  <2>2. CASE m \in batches /\ n = memories /\ DrawsNow(ToSet(memories))
    BY <2>2, NewIsDisjoint DEF ImportInv
  <2>3. CASE n \in batches /\ m = memories /\ DrawsNow(ToSet(memories))
    BY <2>3, NewIsDisjoint DEF ImportInv
  <2> QED
    BY <1>9, <2>1, <2>2, <2>3
<1>13. (Loadable => Drawn(CreatedIn(file.receipts)))'
  BY <1>4, <1>5 DEF ImportInv, Drawn, Loadable
<1>14. ASSUME NEW rs, Drawn(CreatedIn(rs)), NEW m \in batches', m \notin batches
       PROVE  WholeIn(rs, m)
  <2>1. ToSet(m) \cap CreatedIn(rs) = {}
    BY <1>9, <1>14, NewIsDisjoint
  <2> QED
    BY <2>1 DEF WholeIn
<1>15. ImportsWhole'
  <2> SUFFICES ASSUME Loadable', NEW m \in batches' PROVE WholeIn(file'.receipts, m)
    BY DEF ImportsWhole
  <2>1. Loadable /\ Drawn(CreatedIn(file.receipts)) /\ file' = file
    BY <1>5 DEF Loadable, ImportInv
  <2>2. CASE m \in batches
    BY <2>1, <2>2 DEF ImportInv, ImportsWhole
  <2>3. CASE m \notin batches
    BY <1>14, <2>1, <2>3
  <2> QED
    BY <2>2, <2>3
<1>16. ASSUME NEW q \in Procs, q # p, AtWork(q)' PROVE CopyInv(q)'
  <2>1. CopyInv(q) /\ pc'[q] = pc[q] /\ vault'[q] = vault[q] /\ selected'[q] = selected[q]
        /\ request'[q] = request[q]
    BY <1>6, <1>16 DEF ImportInv, AtWork
  <2>2. Drawn(CreatedIn(vault[q].receipts))
    BY <2>1 DEF CopyInv
  <2>3. Drawn(CreatedIn(vault[q].receipts))'
    BY <1>4, <2>1, <2>2 DEF Drawn
  <2>4. \A m \in batches' : \/ WholeIn(vault[q].receipts, m)
                            \/ pc[q] = "importing" /\ ToSet(m) = request[q].kept
    BY <1>14, <2>1, <2>2 DEF CopyInv
  <2>5. pc[q] = "importing" =>
          UnderWay(CreatedIn(vault[q].receipts), selected[q], request[q].kept)'
    BY <1>10, <2>1 DEF CopyInv, UnderWay
  <2> QED
    BY <2>1, <2>3, <2>4, <2>5 DEF CopyInv
<1>17. CopyInv(p)'
  <2>1. Drawn(CreatedIn(v.receipts))'
    BY <1>3a, <1>4, <1>7 DEF Drawn, DrawsNow
  <2>2. ASSUME NEW m \in batches PROVE WholeIn(v.receipts, m)
    <3>1. ToSet(m) \cap new = {}
      BY <1>3a, NewIsDisjoint DEF ImportInv
    <3>2. ToSet(m) \cap CreatedIn(v.receipts) = ToSet(m) \cap old
      BY <1>3a, <3>1
    <3>3. ToSet(m) \cap old \in {{}, ToSet(m)}
      BY DEF FileCreates, ImportInv, ImportsWhole, WholeIn
    <3> QED
      BY <3>2, <3>3 DEF WholeIn
  <2>3. \A m \in batches' : WholeIn(v.receipts, m) \/ (at = "importing" /\ ToSet(m) = kept)
    BY <1>9, <2>2
  <2>4. at = "importing" => UnderWay(CreatedIn(v.receipts), memories, kept)'
    BY <1>8 DEF UnderWay
  <2> QED
    BY <1>6, <2>1, <2>3, <2>4 DEF CopyInv
<1> QED
  BY <1>11, <1>12, <1>13, <1>15, <1>16, <1>17 DEF ImportInv

\* A turn of a loop keeps it.
LEMMA TurnImportInv ==
    ASSUME ImportInv, TypeOK', NEW p \in Procs, Turn(p)
    PROVE  ImportInv'
<1>0. TypeOK
  BY DEF ImportInv
<1> DEFINE old == CreatedIn(vault[p].receipts)
           a == Head(selected[p])
<1>1. /\ pc[p] \in Working /\ selected[p] # <<>> /\ selected[p] \in Seq(Addr)
      /\ selected' = [selected EXCEPT ![p] = Tail(selected[p])]
      /\ UNCHANGED <<file, pc, request, minted, batches>>
  BY <1>0, TurnContinues DEF TypeOK
<1>2. PICK w \in VaultState :
        /\ vault' = [vault EXCEPT ![p] = w]
        /\ CreatedIn(w.receipts) = old \cup (IF pc[p] = "importing" THEN {a} ELSE {})
  BY <1>0, TurnCreates
<1>3. /\ vault'[p] = w /\ selected'[p] = Tail(selected[p])
      /\ \A q \in Procs : q # p => vault'[q] = vault[q] /\ selected'[q] = selected[q]
  BY <1>0, <1>1, <1>2 DEF TypeOK
<1>4. CopyInv(p)
  BY <1>1 DEF ImportInv, AtWork
<1>5. CopyInv(p)'
  <2>1. CASE pc[p] # "importing"
    <3>1. CreatedIn(w.receipts) = old
      BY <1>2, <2>1
    <3>2. \A m \in batches : WholeIn(w.receipts, m)
      BY <1>4, <2>1, <3>1 DEF CopyInv, WholeIn
    <3>3. Drawn(CreatedIn(w.receipts))
      BY <1>4, <3>1 DEF CopyInv
    <3> QED
      BY <1>1, <1>3, <2>1, <3>2, <3>3 DEF CopyInv, Drawn
  <2>2. CASE pc[p] = "importing"
    <3>1. CreatedIn(w.receipts) = old \cup {a}
      BY <1>2, <2>2
    <3>2. UnderWay(old, selected[p], request[p].kept)
      BY <1>4, <2>2 DEF CopyInv
    <3>3. a \in request[p].kept /\ ToSet(selected[p]) = {a} \cup ToSet(Tail(selected[p]))
      BY <1>1, <3>2, ToSetFacts DEF UnderWay
    <3>4. PICK n \in batches : ToSet(n) = request[p].kept
      BY <3>2 DEF UnderWay
    <3>5. Drawn(CreatedIn(w.receipts))
      BY <1>4, <3>1, <3>3, <3>4 DEF CopyInv, Drawn, ImportInv
    <3>6. ASSUME NEW m \in batches, ToSet(m) # request[p].kept PROVE WholeIn(w.receipts, m)
      <4>1. a \notin ToSet(m)
        BY <3>3, <3>4, <3>6 DEF ImportInv
      <4>2. ToSet(m) \cap CreatedIn(w.receipts) = ToSet(m) \cap old
        BY <3>1, <4>1
      <4>3. WholeIn(vault[p].receipts, m)
        BY <1>4, <3>6 DEF CopyInv
      <4> QED
        BY <4>2, <4>3, SameWhole
    <3>7. UnderWay(CreatedIn(w.receipts), Tail(selected[p]), request[p].kept)
      BY <3>1, <3>2, <3>3 DEF UnderWay
    <3> QED
      BY <1>1, <1>3, <2>2, <3>5, <3>6, <3>7 DEF CopyInv, Drawn, UnderWay
  <2> QED
    BY <2>1, <2>2
<1>6. ASSUME NEW q \in Procs, q # p, AtWork(q)' PROVE CopyInv(q)'
  BY <1>1, <1>3, <1>6, CopyKept DEF ImportInv, AtWork
<1>7. /\ \A m \in batches' : Drawn(ToSet(m))'
      /\ \A m, n \in batches' : ToSet(m) = ToSet(n) \/ ToSet(m) \cap ToSet(n) = {}
      /\ (Loadable => Drawn(CreatedIn(file.receipts)))'
      /\ ImportsWhole'
  BY <1>1 DEF ImportInv, Drawn, Loadable, ImportsWhole
<1> QED
  BY <1>5, <1>6, <1>7 DEF ImportInv

\* Every step of any process keeps the imports whole.
LEMMA NextImportInv == ImportInv /\ [Next]_vars => ImportInv'
<1> SUFFICES ASSUME ImportInv, [Next]_vars PROVE ImportInv'
  OBVIOUS
<1>0. TypeOK /\ TypeOK'
  BY NextTypeOK DEF ImportInv
<1>1. ASSUME NEW p \in Procs, Start(p) PROVE ImportInv'
  BY <1>0, <1>1, StartImportInv
<1>2. ASSUME NEW p \in Procs, Turn(p) PROVE ImportInv'
  BY <1>0, <1>2, TurnImportInv
<1>3. ASSUME UNCHANGED <<minted, batches>>
      PROVE  /\ \A m \in batches' : Drawn(ToSet(m))'
             /\ \A m, n \in batches' : ToSet(m) = ToSet(n) \/ ToSet(m) \cap ToSet(n) = {}
  BY <1>3 DEF ImportInv, Drawn
<1>4. ASSUME NEW p \in Procs, Open(p) PROVE ImportInv'
  <2> DEFINE w == exportReceipt(vault[p], nextId)
  <2>1. /\ pc[p] \in Working /\ selected[p] = <<>> /\ vault[p] \in VaultState /\ nextId \in Nat
        /\ vault' = [vault EXCEPT ![p] = w] /\ pc' = [pc EXCEPT ![p] = "writing"] /\ file' = Empty
        /\ UNCHANGED <<selected, request, minted, batches>>
    BY <1>0, <1>4 DEF Open, TypeOK, AtWork
  <2>2. CreatedIn(w.receipts) = CreatedIn(vault[p].receipts)
    BY <2>1, ExportCreates
  <2> HIDE DEF w
  <2>3. /\ vault'[p] = w /\ pc'[p] = "writing"
        /\ \A q \in Procs : q # p => vault'[q] = vault[q] /\ pc'[q] = pc[q]
    BY <1>0, <2>1 DEF TypeOK
  <2>4. CopyInv(p)
    BY <2>1 DEF ImportInv, AtWork
  <2>5. ASSUME NEW m \in batches PROVE WholeIn(w.receipts, m)
    <3>1. CASE WholeIn(vault[p].receipts, m)
      BY <2>2, <3>1 DEF WholeIn
    <3>2. CASE pc[p] = "importing" /\ ToSet(m) = request[p].kept
      <4>1. UnderWay(CreatedIn(vault[p].receipts), selected[p], request[p].kept)
        BY <2>4, <3>2 DEF CopyInv
      <4>2. ToSet(selected[p]) = {}
        BY <2>1 DEF ToSet
      <4>3. ToSet(m) \subseteq CreatedIn(w.receipts)
        BY <2>2, <3>2, <4>1, <4>2 DEF UnderWay
      <4> QED
        BY <4>3 DEF WholeIn
    <3> QED
      BY <2>4, <3>1, <3>2 DEF CopyInv
  <2>6. Drawn(CreatedIn(w.receipts))
    BY <2>2, <2>4 DEF CopyInv
  <2>7. CopyInv(p)'
    BY <2>1, <2>3, <2>5, <2>6 DEF CopyInv, Drawn
  <2>8. ASSUME NEW q \in Procs, q # p, AtWork(q)' PROVE CopyInv(q)'
    BY <2>1, <2>3, <2>8, CopyKept DEF ImportInv, AtWork
  <2>9. ~Loadable'
    BY <2>1 DEF Loadable, NotBundles
  <2> QED
    BY <1>0, <1>3, <2>1, <2>7, <2>8, <2>9 DEF ImportInv, ImportsWhole
<1>5. ASSUME NEW p \in Procs, Write(p) PROVE ImportInv'
  <2>1. /\ pc[p] = "writing" /\ pc' = [pc EXCEPT ![p] = "written"]
        /\ vault' = [vault EXCEPT ![p] = NoVault]
        /\ UNCHANGED <<selected, request, minted, batches>>
    BY <1>5 DEF Write
  <2>2. /\ ~AtWork(p)'
        /\ \A q \in Procs : q # p => vault'[q] = vault[q] /\ pc'[q] = pc[q]
    BY <1>0, <2>1 DEF TypeOK, AtWork, Working
  <2>3. CopyInv(p)
    BY <2>1 DEF ImportInv, AtWork
  <2>4. Loadable' => file'.receipts = vault[p].receipts
    BY <1>5 DEF Write, Loadable, NotBundles, bundleOf
  <2>5. Loadable' => Drawn(CreatedIn(file'.receipts))
    BY <2>3, <2>4 DEF CopyInv
  <2>6. ImportsWhole'
    BY <2>1, <2>3, <2>4 DEF CopyInv, ImportsWhole
  <2>7. ASSUME NEW q \in Procs, AtWork(q)' PROVE CopyInv(q)'
    BY <2>1, <2>2, <2>7, CopyKept DEF ImportInv, AtWork
  <2>8. (Loadable => Drawn(CreatedIn(file.receipts)))'
    BY <2>1, <2>5 DEF Drawn
  <2> QED
    BY <1>0, <1>3, <2>1, <2>6, <2>7, <2>8 DEF ImportInv
<1>6. ASSUME NEW p \in Procs, Respond(p) \/ Crash(p) PROVE ImportInv'
  <2>1. /\ ~AtWork(p)'
        /\ UNCHANGED <<file, minted, batches>>
        /\ \A q \in Procs : q # p => /\ vault'[q] = vault[q] /\ pc'[q] = pc[q]
                                     /\ selected'[q] = selected[q] /\ request'[q] = request[q]
    BY <1>0, <1>6 DEF Respond, Crash, TypeOK, AtWork, Working
  <2>2. ASSUME NEW q \in Procs, AtWork(q)' PROVE CopyInv(q)'
    BY <2>1, <2>2, CopyKept DEF ImportInv, AtWork
  <2>3. (Loadable => Drawn(CreatedIn(file.receipts)))' /\ ImportsWhole'
    BY <2>1 DEF ImportInv, ImportsWhole, Loadable, Drawn
  <2> QED
    BY <1>0, <1>3, <2>1, <2>2, <2>3 DEF ImportInv
<1>7. CASE UNCHANGED vars
  <2>1. ASSUME NEW q \in Procs, AtWork(q)' PROVE CopyInv(q)'
    BY <1>7, <2>1, CopyKept DEF vars, ImportInv, AtWork
  <2>2. (Loadable => Drawn(CreatedIn(file.receipts)))' /\ ImportsWhole' /\ UNCHANGED <<minted, batches>>
    BY <1>7 DEF vars, ImportInv, ImportsWhole, Loadable, Drawn
  <2> QED
    BY <1>0, <1>3, <2>1, <2>2 DEF ImportInv
<1> QED
  BY <1>1, <1>2, <1>4, <1>5, <1>6, <1>7 DEF Next, Continue, Turn

\* For any number of processes, killed at any point, and imports of any size: a
\* file that parses holds every memory of an import or none of them.  Lost
\* updates may take an import away, never a part of it.
THEOREM ImportsAreWhole == Spec => []ImportsWhole
<1>1. Init => ImportInv
  BY InitTypeOK DEF Init, ImportInv, ImportsWhole, Loadable, NotBundles, AtWork, Working
<1>2. ImportInv => ImportsWhole
  BY DEF ImportInv
<1> QED
  BY <1>1, <1>2, NextImportInv, PTL DEF Spec
-----------------------------------------------------------------------------
(* A single process serves what it answered.  Only what a request has set    *)
(* out to remove ever gets a tombstone, so a memory outside doomed stays     *)
(* serveable in every later state of the vault; the candidates of an import  *)
(* that are not serveable yet are still ahead of its loop, and a rollback    *)
(* has nothing ahead that it could delete and did not set out to.            *)

\* w has v's tombstones and perhaps some on gone, and serves what else v serves.
Keeps(v, w, gone) ==
    /\ w \in VaultState
    /\ Tombstoned(v.tombstones) \subseteq Tombstoned(w.tombstones)
    /\ Tombstoned(w.tombstones) \subseteq Tombstoned(v.tombstones) \cup gone
    /\ Serveable(v) \ Tombstoned(w.tombstones) \subseteq Serveable(w)

\* The candidates an import has still to write.
Ahead(at, todo) == IF at = "importing" THEN ToSet(todo) ELSE {}

\* What a request stores is serveable in its vault, or still ahead.
Stores(at, v, todo, kept) ==
    kept \ Tombstoned(v.tombstones) \subseteq Serveable(v) \cup Ahead(at, todo)

\* What a rollback would delete on its way is among what it set out to remove.
RollsBack(at, v, todo, gone) ==
    at = "rolling" => \A a \in ToSet(todo) : CanDelete(v, a) => a \in gone

\* What the copy a request works on holds.
ServedBy(p) ==
    /\ Tombstoned(vault[p].tombstones) \subseteq doomed
    /\ pc[p] # "replacing" => stored \ doomed \subseteq Serveable(vault[p])
    /\ Stores(pc[p], vault[p], selected[p], request[p].kept)
    /\ RollsBack(pc[p], vault[p], selected[p], request[p].gone)
    /\ request[p].gone \subseteq doomed

ServedInv ==
    /\ TypeOK
    /\ AnsweredMemoriesServed
    /\ Loadable => Tombstoned(file.tombstones) \subseteq doomed
    /\ file = Absent => stored = {}
    /\ \A p \in Procs :
         /\ AtWork(p) => ServedBy(p)
         /\ pc[p] = "written" /\ Loadable =>
              request[p].kept \ doomed \subseteq Serveable(reviveVault(file))
         /\ pc[p] \in {"writing", "written"} => file # Absent

\* A receipt leaves what is served and what is removed alone.
LEMMA AppendServes ==
    ASSUME NEW v \in VaultState, NEW id \in Nat, NEW op \in Operations,
           NEW a \in Addr \cup {None}, NEW s \in Addr \cup {None}
    PROVE  LET w == appendEvent(v, id, op, a, s)
           IN /\ w \in VaultState
              /\ Serveable(w) = Serveable(v)
              /\ w.active = v.active
              /\ w.tombstones = v.tombstones
<1> DEFINE w == appendEvent(v, id, op, a, s)
<1>1. w \in VaultState
  BY AppendEventType
<1>2. w.active = v.active /\ w.tombstones = v.tombstones /\ w.memories = v.memories
  BY AppendEventFields
<1> HIDE DEF w
<1>3. Serveable(w) = Serveable(v)
  BY <1>2 DEF Serveable
<1> QED
  BY <1>1, <1>2, <1>3 DEF w

\* What the assignments before the receipt make of what is served.
LEMMA AssignmentsServe ==
    ASSUME NEW v \in VaultState, NEW a \in Addr, NEW b \in Addr
    PROVE  /\ Keeps(v, StoreActive(v, a), {})
           /\ a \in Tombstoned(v.tombstones) \cup Serveable(StoreActive(v, a))
           /\ Keeps(v, Supersede(v, a, b), {a})
           /\ b \in Tombstoned(Supersede(v, a, b).tombstones) \cup Serveable(Supersede(v, a, b))
           /\ Keeps(v, Tombstone(v, a), {a})
           /\ Tombstone(v, a).active \subseteq v.active
<1>1. /\ v.memories \in [Addr -> RecordState] /\ v.active \subseteq Addr
      /\ v.tombstones \in [Addr -> TombstoneState]
  BY DEF VaultState
<1>2. /\ Keeps(v, StoreActive(v, a), {})
      /\ a \in Tombstoned(v.tombstones) \cup Serveable(StoreActive(v, a))
  <2> DEFINE w == StoreActive(v, a)
  <2>1. w.active = v.active \cup {a} /\ w.tombstones = v.tombstones
        /\ w.memories = [v.memories EXCEPT ![a] = "active"]
    BY DEF StoreActive, VaultState
  <2>2. w \in VaultState
    BY AssignmentsType
  <2> HIDE DEF w
  <2>3. Keeps(v, w, {}) /\ a \in Tombstoned(v.tombstones) \cup Serveable(w)
    BY <1>1, <2>1, <2>2 DEF Keeps, Serveable, Tombstoned
  <2> QED
    BY <2>3 DEF w
<1>3. /\ Keeps(v, Supersede(v, a, b), {a})
      /\ b \in Tombstoned(Supersede(v, a, b).tombstones) \cup Serveable(Supersede(v, a, b))
  <2> DEFINE w == Supersede(v, a, b)
  <2>1. w.active = (v.active \ {a}) \cup {b}
        /\ w.tombstones = [v.tombstones EXCEPT ![a] = "update"]
        /\ w.memories = [v.memories EXCEPT ![a] = "superseded", ![b] = "active"]
    BY DEF Supersede, VaultState
  <2>2. w \in VaultState /\ Tombstoned(w.tombstones) = Tombstoned(v.tombstones) \cup {a}
    <3>1. w \in VaultState
      BY AssignmentsType
    <3>2. Tombstoned(w.tombstones) = Tombstoned(v.tombstones) \cup {a}
      BY AssignmentsKeepTombstones
    <3> QED
      BY <3>1, <3>2
  <2> HIDE DEF w
  <2>3. \A x \in Addr \ Tombstoned(w.tombstones) : w.tombstones[x] = None /\ x # a
    BY <2>2 DEF Tombstoned
  <2>4. w.memories[b] = "active" /\ b \in w.active
    BY <1>1, <2>1
  <2>5. \A x \in Addr : x # a /\ v.memories[x] = "active" => w.memories[x] = "active"
    BY <1>1, <2>1
  <2>6. b \in Tombstoned(w.tombstones) \cup Serveable(w)
    BY <2>3, <2>4 DEF Serveable
  <2>7. Serveable(v) \ Tombstoned(w.tombstones) \subseteq Serveable(w)
    BY <1>1, <2>1, <2>3, <2>5 DEF Serveable
  <2> QED
    BY <2>2, <2>6, <2>7 DEF Keeps, w
<1>4. Keeps(v, Tombstone(v, a), {a}) /\ Tombstone(v, a).active \subseteq v.active
  <2> DEFINE w == Tombstone(v, a)
  <2>1. w.active = v.active \ {a} /\ w.tombstones = [v.tombstones EXCEPT ![a] = "delete"]
        /\ \A x \in Addr : x # a => w.memories[x] = v.memories[x]
    BY DEF Tombstone, MarkDeleted, VaultState
  <2>2. w \in VaultState /\ Tombstoned(w.tombstones) = Tombstoned(v.tombstones) \cup {a}
    <3>1. w \in VaultState
      BY AssignmentsType
    <3>2. Tombstoned(w.tombstones) = Tombstoned(v.tombstones) \cup {a}
      BY AssignmentsKeepTombstones
    <3> QED
      BY <3>1, <3>2
  <2> HIDE DEF w
  <2>3. \A x \in Addr \ Tombstoned(w.tombstones) : w.tombstones[x] = None /\ x # a
    BY <2>2 DEF Tombstoned
  <2>4. Serveable(v) \ Tombstoned(w.tombstones) \subseteq Serveable(w)
    BY <1>1, <2>1, <2>3 DEF Serveable
  <2> QED
    BY <2>1, <2>2, <2>4 DEF Keeps, w
<1> QED
  BY <1>2, <1>3, <1>4

\* Every operation keeps what it does not remove, and serves what it stores.
LEMMA OperationsKeep ==
    ASSUME NEW v \in VaultState, NEW id \in Nat, NEW a \in Addr, NEW b \in Addr
    PROVE  /\ Keeps(v, v, {})
           /\ Keeps(v, remember(v, id, a), {})
           /\ a \in Tombstoned(v.tombstones) \cup Serveable(remember(v, id, a))
           /\ Keeps(v, recall(v, id, a), {})
           /\ Keeps(v, exportReceipt(v, id), {})
           /\ Keeps(v, packMemory(v, id, a), {})
           /\ Keeps(v, updateMemory(v, id, a, b), {a})
           /\ b \in Tombstoned(updateMemory(v, id, a, b).tombstones)
                      \cup Serveable(updateMemory(v, id, a, b))
           /\ Keeps(v, deleteMemory(v, id, a), {a})
           /\ deleteMemory(v, id, a).active \subseteq v.active
<1>0. /\ {"create", "read", "update", "delete", "export", "retrieve", "inject"} \subseteq Operations
      /\ None \in Addr \cup {None} /\ id + 1 \in Nat
  BY DEF Operations
<1>1. Keeps(v, v, {})
  BY DEF Keeps
<1>2. ASSUME NEW u \in VaultState, NEW gone, Keeps(v, u, gone), NEW w \in VaultState,
             Serveable(w) = Serveable(u), w.tombstones = u.tombstones
      PROVE  Keeps(v, w, gone)
  BY <1>2 DEF Keeps
<1>3. Keeps(v, recall(v, id, a), {}) /\ Keeps(v, exportReceipt(v, id), {})
  <2> DEFINE w == recall(v, id, a)
             x == exportReceipt(v, id)
  <2>1. w \in VaultState /\ Serveable(w) = Serveable(v) /\ w.tombstones = v.tombstones
    BY <1>0, AppendServes DEF recall
  <2>2. x \in VaultState /\ Serveable(x) = Serveable(v) /\ x.tombstones = v.tombstones
    <3> DEFINE op == "export"
    <3>1. op \in Operations /\ None \in Addr \cup {None}
      BY <1>0
    <3>2. x = appendEvent(v, id, op, None, None)
      BY DEF exportReceipt
    <3> HIDE DEF x, op
    <3> QED
      BY <3>1, <3>2, AppendServes
  <2> HIDE DEF w, x
  <2>3. Keeps(v, w, {}) /\ Keeps(v, x, {})
    BY <1>1, <1>2, <2>1, <2>2
  <2> QED
    BY <2>3 DEF w, x
<1>4. Keeps(v, packMemory(v, id, a), {})
  <2> DEFINE u == appendEvent(v, id, "retrieve", a, None)
             w == appendEvent(u, id + 1, "inject", a, None)
  <2>1. u \in VaultState /\ Serveable(u) = Serveable(v) /\ u.tombstones = v.tombstones
    BY <1>0, AppendServes
  <2> HIDE DEF u
  <2>2. w \in VaultState /\ Serveable(w) = Serveable(u) /\ w.tombstones = u.tombstones
    BY <1>0, <2>1, AppendServes
  <2>3. packMemory(v, id, a) = w
    BY DEF packMemory, u
  <2> HIDE DEF w
  <2> QED
    BY <1>1, <1>2, <2>1, <2>2, <2>3
<1>5. /\ Keeps(v, remember(v, id, a), {})
      /\ a \in Tombstoned(v.tombstones) \cup Serveable(remember(v, id, a))
  <2> DEFINE u == StoreActive(v, a)
             w == appendEvent(u, id, "create", a, None)
  <2>1. Keeps(v, u, {}) /\ a \in Tombstoned(v.tombstones) \cup Serveable(u) /\ u \in VaultState
    BY AssignmentsServe, AssignmentsType
  <2> HIDE DEF u
  <2>2. w \in VaultState /\ Serveable(w) = Serveable(u) /\ w.tombstones = u.tombstones
    BY <1>0, <2>1, AppendServes
  <2>3. remember(v, id, a) = w
    BY DEF remember, u
  <2> HIDE DEF w
  <2> QED
    BY <1>2, <2>1, <2>2, <2>3
<1>6. /\ Keeps(v, updateMemory(v, id, a, b), {a})
      /\ b \in Tombstoned(updateMemory(v, id, a, b).tombstones)
                 \cup Serveable(updateMemory(v, id, a, b))
  <2> DEFINE u == Supersede(v, a, b)
             w == appendEvent(u, id, "update", b, a)
  <2>1. Keeps(v, u, {a}) /\ b \in Tombstoned(u.tombstones) \cup Serveable(u) /\ u \in VaultState
    BY AssignmentsServe, AssignmentsType
  <2> HIDE DEF u
  <2>2. w \in VaultState /\ Serveable(w) = Serveable(u) /\ w.tombstones = u.tombstones
    BY <1>0, <2>1, AppendServes
  <2>3. updateMemory(v, id, a, b) = w
    BY DEF updateMemory, u
  <2> HIDE DEF w
  <2> QED
    BY <1>2, <2>1, <2>2, <2>3
<1>7. Keeps(v, deleteMemory(v, id, a), {a}) /\ deleteMemory(v, id, a).active \subseteq v.active
  <2> DEFINE u == Tombstone(v, a)
             w == appendEvent(u, id, "delete", a, None)
  <2>1. Keeps(v, u, {a}) /\ u.active \subseteq v.active /\ u \in VaultState
    BY AssignmentsServe, AssignmentsType
  <2> HIDE DEF u
  <2>2. w \in VaultState /\ Serveable(w) = Serveable(u) /\ w.tombstones = u.tombstones
        /\ w.active = u.active
    BY <1>0, <2>1, AppendServes
  <2>3. deleteMemory(v, id, a) = w
    BY DEF deleteMemory, u
  <2> HIDE DEF w
  <2> QED
    BY <1>2, <2>1, <2>2, <2>3
<1> QED
  BY <1>1, <1>3, <1>4, <1>5, <1>6, <1>7

\* What every request that starts has loaded, and what it stores and removes.
LoadedServes(at, v, memories, kept, gone) ==
    /\ Stores(at, v, memories, kept)
    /\ RollsBack(at, v, memories, gone)
    /\ \/ at # "replacing" /\ file = Absent /\ v = createVault
       \/ at # "replacing" /\ Loadable /\ Keeps(reviveVault(file), v, gone)
       \/ at = "replacing" /\ Keeps(createVault, v, gone)

\* A request of any kind starts from what the file serves.
LEMMA StartServes ==
    ASSUME TypeOK, NEW p \in Procs, Start(p)
    PROVE  \E at \in Working, v \in VaultState, memories \in Seq(Addr), kept \in SUBSET Addr,
              gone \in SUBSET Addr :
             Loaded(p, at, v, memories, kept, gone) /\ LoadedServes(at, v, memories, kept, gone)
<1> DEFINE Goal == \E at \in Working, v \in VaultState, memories \in Seq(Addr),
                      kept \in SUBSET Addr, gone \in SUBSET Addr :
                     Loaded(p, at, v, memories, kept, gone)
                     /\ LoadedServes(at, v, memories, kept, gone)
           u == reviveVault(file)
<1>0. nextId \in Nat /\ <<>> \in Seq(Addr) /\ batches \subseteq Seq(Addr)
      /\ "loaded" \in Working /\ "importing" \in Working /\ "rolling" \in Working
      /\ "replacing" \in Working
  BY DEF TypeOK, Working
<1>1. Loadable => u \in VaultState
  BY ReviveFields DEF TypeOK, Loadable
<1>2. CASE InitBundle(p)
  <2>1. Loaded(p, "loaded", createVault, <<>>, {}, {}) /\ file = Absent
    BY <1>2 DEF InitBundle
  <2>2. LoadedServes("loaded", createVault, <<>>, {}, {})
    BY <2>1 DEF LoadedServes, Stores, RollsBack
  <2> QED
    BY <1>0, <2>1, <2>2, CreateVaultFacts
<1>3. ASSUME NEW id \in MemoryIds, NEW c \in Contents, Remember(p, id, c) PROVE Goal
  <2> DEFINE a == memoryAddress(id, c)
             w == remember(u, nextId, a)
  <2>1. a \in Addr
    BY DEF memoryAddress, Addr
  <2>2. Loadable /\ Loaded(p, "loaded", w, <<>>, {a}, {})
    BY <1>3 DEF Remember, CanLoad
  <2>3. Keeps(u, w, {}) /\ a \in Tombstoned(u.tombstones) \cup Serveable(w)
    BY <1>0, <1>1, <2>1, <2>2, OperationsKeep
  <2> HIDE DEF w, a
  <2>4. w \in VaultState /\ LoadedServes("loaded", w, <<>>, {a}, {})
    BY <2>2, <2>3 DEF LoadedServes, Stores, RollsBack, Keeps
  <2> QED
    BY <1>0, <2>1, <2>2, <2>4
<1>4. ASSUME NEW a \in Addr, Recall(p, a) PROVE Goal
  <2> DEFINE w == recall(u, nextId, a)
  <2>2. Loadable /\ Loaded(p, "loaded", w, <<>>, {}, {})
    BY <1>4 DEF Recall, CanLoad
  <2>3. Keeps(u, w, {})
    BY <1>0, <1>1, <2>2, OperationsKeep
  <2> HIDE DEF w
  <2>4. w \in VaultState /\ LoadedServes("loaded", w, <<>>, {}, {})
    BY <2>2, <2>3 DEF LoadedServes, Stores, RollsBack, Keeps
  <2> QED
    BY <1>0, <2>2, <2>4
<1>5. ASSUME NEW a \in Addr, DeleteMemory(p, a) PROVE Goal
  <2> DEFINE w == deleteMemory(u, nextId, a)
  <2>2. Loadable /\ Loaded(p, "loaded", w, <<>>, {}, {a})
    BY <1>5 DEF DeleteMemory, CanLoad
  <2>3. Keeps(u, w, {a})
    BY <1>0, <1>1, <2>2, OperationsKeep
  <2> HIDE DEF w
  <2>4. w \in VaultState /\ LoadedServes("loaded", w, <<>>, {}, {a})
    BY <2>2, <2>3 DEF LoadedServes, Stores, RollsBack, Keeps
  <2> QED
    BY <1>0, <2>2, <2>4
<1>6. ASSUME NEW a \in Addr, NEW c \in Contents, UpdateMemory(p, a, c) PROVE Goal
  <2> DEFINE b == memoryAddress(a[1], c)
             w == updateMemory(u, nextId, a, b)
  <2>1. b \in Addr
    BY UpdateAddress
  <2>2. Loadable /\ Loaded(p, "loaded", w, <<>>, {b}, {a})
    BY <1>6 DEF UpdateMemory, CanLoad
  <2>3. Keeps(u, w, {a}) /\ b \in Tombstoned(w.tombstones) \cup Serveable(w)
    <3> HIDE DEF b
    <3> QED
      BY <1>0, <1>1, <2>1, <2>2, OperationsKeep
  <2> HIDE DEF w, b
  <2>4. w \in VaultState /\ LoadedServes("loaded", w, <<>>, {b}, {a})
    BY <2>2, <2>3 DEF LoadedServes, Stores, RollsBack, Keeps
  <2> QED
    BY <1>0, <2>1, <2>2, <2>4
<1>7. ASSUME NEW memories \in BoundedSeq(Addr, PackLimit), CompileContextPack(p, memories)
      PROVE  Goal
  <2>1. memories \in Seq(Addr)
    BY BoundedAddrs, SharedBoundsAssumption
  <2>2. Loadable /\ Loaded(p, "loaded", u, memories, {}, {})
    BY <1>7 DEF CompileContextPack, CanLoad
  <2>3. u \in VaultState /\ Keeps(u, u, {})
    BY <1>1, <2>2 DEF Keeps
  <2>4. LoadedServes("loaded", u, memories, {}, {})
    BY <2>2, <2>3 DEF LoadedServes, Stores, RollsBack
  <2> HIDE DEF u
  <2> QED
    BY <1>0, <2>1, <2>2, <2>3, <2>4
<1>8. ASSUME NEW memories \in BoundedSeq(Addr, BatchLimit), ImportBatch(p, memories)
      PROVE  Goal
  <2>1. memories \in Seq(Addr) /\ ToSet(memories) \subseteq Addr
    BY BoundedAddrs, SharedBoundsAssumption, ToSetFacts
  <2>2. Loadable /\ Loaded(p, "importing", u, memories, ToSet(memories), {})
    BY <1>8 DEF ImportBatch, CanLoad
  <2>3. u \in VaultState /\ Keeps(u, u, {})
    BY <1>1, <2>2 DEF Keeps
  <2>4. LoadedServes("importing", u, memories, ToSet(memories), {})
    BY <2>2, <2>3 DEF LoadedServes, Stores, RollsBack, Ahead
  <2> HIDE DEF u
  <2> QED
    BY <1>0, <2>1, <2>2, <2>3, <2>4
<1>9. ASSUME NEW memories \in batches, ImportRollback(p, memories) PROVE Goal
  <2> DEFINE gone == {a \in ToSet(memories) : CanDelete(u, a)}
  <2>1. memories \in Seq(Addr) /\ ToSet(memories) \subseteq Addr
    BY <1>0, ToSetFacts
  <2>2. Loadable /\ Loaded(p, "rolling", u, memories, {}, gone)
    BY <1>9 DEF ImportRollback, CanLoad
  <2>3. u \in VaultState /\ Keeps(u, u, gone)
    BY <1>1, <2>2 DEF Keeps
  <2>4. LoadedServes("rolling", u, memories, {}, gone)
    BY <2>2, <2>3 DEF LoadedServes, Stores, RollsBack
  <2>5. gone \in SUBSET Addr
    BY <2>1
  <2> HIDE DEF u, gone
  <2> QED
    BY <1>0, <2>1, <2>2, <2>3, <2>4, <2>5
<1>10. ASSUME NEW id \in MemoryIds, NEW c \in Contents, Quickstart(p, id, c) PROVE Goal
  <2> DEFINE a == memoryAddress(id, c)
             new == createVault
             w == remember(new, nextId, a)
  <2>1. a \in Addr
    BY DEF memoryAddress, Addr
  <2>2. Loaded(p, "replacing", w, <<a>>, {a}, {})
    BY <1>10 DEF Quickstart
  <2>3. Keeps(new, w, {}) /\ a \in Tombstoned(new.tombstones) \cup Serveable(w)
    <3>1. new \in VaultState
      BY CreateVaultFacts
    <3> HIDE DEF new, a
    <3> QED
      BY <1>0, <2>1, <3>1, OperationsKeep
  <2> HIDE DEF w, a
  <2>4. w \in VaultState /\ LoadedServes("replacing", w, <<a>>, {a}, {})
    BY <2>3 DEF LoadedServes, Stores, RollsBack, Keeps
  <2>5. <<a>> \in Seq(Addr) /\ {a} \in SUBSET Addr /\ {} \in SUBSET Addr
    BY <2>1
  <2> QED
    BY <1>0, <2>2, <2>4, <2>5
<1> QED
  BY <1>2, <1>3, <1>4, <1>5, <1>6, <1>7, <1>8, <1>9, <1>10 DEF Start

\* A turn of a loop keeps the vault, but for what its request set out to remove.
LEMMA TurnServes ==
    ASSUME TypeOK, NEW p \in Procs, Turn(p), ServedBy(p)
    PROVE  \E w \in VaultState :
             /\ vault' = [vault EXCEPT ![p] = w]
             /\ Keeps(vault[p], w, request[p].gone)
             /\ Stores(pc[p], w, Tail(selected[p]), request[p].kept)
             /\ RollsBack(pc[p], w, Tail(selected[p]), request[p].gone)
<1> DEFINE a == Head(selected[p])
           rest == Tail(selected[p])
           v == vault[p]
           kept == request[p].kept
           gone == request[p].gone
           Goal(w) == /\ w \in VaultState
                      /\ vault' = [vault EXCEPT ![p] = w]
                      /\ Keeps(v, w, gone)
                      /\ Stores(pc[p], w, rest, kept)
                      /\ RollsBack(pc[p], w, rest, gone)
<1> SUFFICES \E w : Goal(w)
  OBVIOUS
<1>1. pc[p] \in Working /\ selected[p] # <<>>
  BY DEF Turn, PackMemory, WriteCandidate, RollbackMemory, Working
<1>2. /\ v \in VaultState /\ nextId \in Nat /\ selected[p] \in Seq(Addr)
      /\ vault \in [Procs -> VaultState \cup {NoVault}]
  BY <1>1 DEF TypeOK, AtWork
<1>3. a \in Addr /\ ToSet(selected[p]) = {a} \cup ToSet(rest)
  BY <1>1, <1>2, ToSetFacts
<1>4. Stores(pc[p], v, selected[p], kept) /\ RollsBack(pc[p], v, selected[p], gone)
  BY DEF ServedBy
<1>5. ASSUME NEW w, Keeps(v, w, {}), vault' = [vault EXCEPT ![p] = w],
             pc[p] \in {"loaded", "replacing"}
      PROVE  Goal(w)
  BY <1>4, <1>5 DEF Keeps, Stores, RollsBack, Ahead
<1>6. CASE PackMemory(p)
  <2> DEFINE w == packMemory(v, nextId, a)
  <2>1. vault' = [vault EXCEPT ![p] = w] /\ pc[p] \in {"loaded", "replacing"}
    BY <1>6 DEF PackMemory
  <2>2. Keeps(v, w, {})
    BY <1>2, <1>3, OperationsKeep
  <2> HIDE DEF w, Goal
  <2> QED
    BY <1>5, <2>1, <2>2
<1>7. CASE WriteCandidate(p)
  <2> DEFINE w == remember(v, nextId, a)
  <2>1. vault' = [vault EXCEPT ![p] = w] /\ pc[p] = "importing"
    BY <1>7 DEF WriteCandidate
  <2>2. Keeps(v, w, {}) /\ a \in Tombstoned(v.tombstones) \cup Serveable(w)
    BY <1>2, <1>3, OperationsKeep
  <2> HIDE DEF w
  <2>3. kept \ Tombstoned(v.tombstones) \subseteq Serveable(v) \cup {a} \cup ToSet(rest)
    BY <1>3, <1>4, <2>1 DEF Stores, Ahead
  <2>4. kept \ Tombstoned(w.tombstones) \subseteq Serveable(w) \cup ToSet(rest)
    BY <2>2, <2>3 DEF Keeps
  <2>5. Stores(pc[p], w, rest, kept) /\ RollsBack(pc[p], w, rest, gone)
    BY <2>1, <2>4 DEF Stores, RollsBack, Ahead
  <2>6. w \in VaultState /\ Keeps(v, w, gone)
    BY <2>2 DEF Keeps
  <2> QED
    BY <2>1, <2>5, <2>6
<1>8. CASE RollbackMemory(p) /\ CanDelete(v, a)
  <2> DEFINE w == deleteMemory(v, nextId, a)
  <2>1. vault' = [vault EXCEPT ![p] = w] /\ pc[p] = "rolling"
    BY <1>8 DEF RollbackMemory
  <2>2. Keeps(v, w, {a}) /\ w.active \subseteq v.active
    BY <1>2, <1>3, OperationsKeep
  <2> HIDE DEF w
  <2>3. a \in gone
    BY <1>3, <1>4, <1>8, <2>1 DEF RollsBack
  <2>4. w \in VaultState /\ Keeps(v, w, gone)
    BY <2>2, <2>3 DEF Keeps
  <2>5. Stores(pc[p], w, rest, kept)
    BY <1>4, <2>1, <2>2 DEF Stores, Keeps, Ahead
  <2>6. \A x \in Addr : CanDelete(w, x) => CanDelete(v, x)
    BY <2>2 DEF CanDelete, Keeps, Tombstoned
  <2>7. ToSet(rest) \subseteq Addr
    BY <1>2, <1>3, ToSetFacts
  <2>8. RollsBack(pc[p], w, rest, gone)
    BY <1>3, <1>4, <2>6, <2>7 DEF RollsBack
  <2> QED
    BY <2>1, <2>4, <2>5, <2>8
<1>9. CASE RollbackMemory(p) /\ ~CanDelete(v, a)
  <2>1. vault' = [vault EXCEPT ![p] = v] /\ pc[p] = "rolling"
    BY <1>2, <1>9 DEF RollbackMemory
  <2>2. Keeps(v, v, gone)
    BY <1>2 DEF Keeps
  <2>3. Stores(pc[p], v, rest, kept) /\ RollsBack(pc[p], v, rest, gone)
    BY <1>3, <1>4, <2>1 DEF Stores, RollsBack, Ahead
  <2> QED
    BY <1>2, <2>1, <2>2, <2>3
<1> QED
  BY <1>6, <1>7, <1>8, <1>9 DEF Turn

\* What is served of a vault is served of the bundle written from it.
LEMMA WrittenServes ==
    ASSUME NEW v \in VaultState
    PROVE  /\ bundleOf(v) \in Bundle
           /\ Serveable(reviveVault(bundleOf(v))) = Serveable(v)
           /\ Tombstoned(bundleOf(v).tombstones) = Tombstoned(v.tombstones)
BY BundleType DEF bundleOf, reviveVault, Serveable

\* Every step of the only process keeps ServedInv.
LEMMA NextServedInv == Single /\ ServedInv /\ [Next]_vars => ServedInv'
<1> SUFFICES ASSUME Single, ServedInv, [Next]_vars PROVE ServedInv'
  OBVIOUS
<1>0. TypeOK /\ TypeOK'
  BY NextTypeOK DEF ServedInv
<1>1. ASSUME NEW p \in Procs, Start(p) PROVE ServedInv'
  <2>1. PICK at \in Working, v \in VaultState, memories \in Seq(Addr), kept \in SUBSET Addr,
             gone \in SUBSET Addr :
          Loaded(p, at, v, memories, kept, gone) /\ LoadedServes(at, v, memories, kept, gone)
    BY <1>0, <1>1, StartServes
  <2>2. /\ pc' = [pc EXCEPT ![p] = at]
        /\ selected' = [selected EXCEPT ![p] = memories]
        /\ vault' = [vault EXCEPT ![p] = v]
        /\ request' = [request EXCEPT ![p] = [kept |-> kept, gone |-> gone]]
        /\ doomed' = doomed \cup gone
        /\ file' = file /\ stored' = stored
    BY <2>1 DEF Loaded
  <2>3. \A q \in Procs : q = p
    BY DEF Single
  <2>4. /\ pc'[p] = at /\ vault'[p] = v /\ selected'[p] = memories
        /\ request'[p].gone = gone /\ request'[p].kept = kept
    BY <1>0, <2>2 DEF TypeOK
  <2>5. Tombstoned(v.tombstones) \subseteq doomed'
        /\ (at # "replacing" => stored \ doomed' \subseteq Serveable(v))
    <3>1. CASE file = Absent /\ v = createVault
      <4>1. v = createVault
        BY <3>1
      <4>2. Tombstoned(v.tombstones) = {}
        BY <4>1 DEF createVault, Tombstoned
      <4>3. stored = {}
        BY <3>1 DEF ServedInv
      <4> QED
        BY <4>2, <4>3
    <3>2. CASE Loadable /\ Keeps(reviveVault(file), v, gone)
      <4>1. file \in Bundle
        BY <1>0, <3>2 DEF TypeOK, Loadable
      <4>2. reviveVault(file).tombstones = file.tombstones
        BY <4>1, ReviveFields
      <4>3. Tombstoned(file.tombstones) \subseteq doomed
            /\ stored \ doomed \subseteq Serveable(reviveVault(file))
        BY <3>2 DEF ServedInv, AnsweredMemoriesServed
      <4> QED
        BY <2>2, <3>2, <4>2, <4>3 DEF Keeps
    <3>3. CASE at = "replacing" /\ Keeps(createVault, v, gone)
      <4>1. Tombstoned(createVault.tombstones) = {}
        BY DEF createVault, Tombstoned
      <4> QED
        BY <2>2, <3>3, <4>1 DEF Keeps
    <3> QED
      BY <2>1, <3>1, <3>2, <3>3 DEF LoadedServes
  <2>6. ServedBy(p)'
    BY <2>1, <2>2, <2>4, <2>5 DEF ServedBy, LoadedServes
  <2>7. AnsweredMemoriesServed' /\ (Loadable => Tombstoned(file.tombstones) \subseteq doomed)'
        /\ (file = Absent => stored = {})'
    BY <2>2 DEF ServedInv, AnsweredMemoriesServed, Loadable
  <2> QED
    BY <1>0, <2>1, <2>3, <2>4, <2>6, <2>7 DEF ServedInv, Working
<1>2. ASSUME NEW p \in Procs, Turn(p) PROVE ServedInv'
  <2>1. /\ pc[p] \in Working /\ vault[p] \in VaultState
        /\ selected' = [selected EXCEPT ![p] = Tail(selected[p])]
        /\ UNCHANGED <<file, pc, request, stored, doomed>>
    BY <1>0, <1>2, TurnContinues
  <2>2. ServedBy(p)
    BY <2>1 DEF ServedInv, AtWork
  <2>3. PICK w \in VaultState :
          /\ vault' = [vault EXCEPT ![p] = w]
          /\ Keeps(vault[p], w, request[p].gone)
          /\ Stores(pc[p], w, Tail(selected[p]), request[p].kept)
          /\ RollsBack(pc[p], w, Tail(selected[p]), request[p].gone)
    BY <1>0, <1>2, <2>2, TurnServes
  <2>4. vault'[p] = w /\ selected'[p] = Tail(selected[p]) /\ \A q \in Procs : q = p
    BY <1>0, <2>1, <2>3 DEF TypeOK, Single
  <2>5. Tombstoned(w.tombstones) \subseteq doomed
        /\ (pc[p] # "replacing" => stored \ doomed \subseteq Serveable(w))
    BY <2>2, <2>3 DEF ServedBy, Keeps
  <2>6. ServedBy(p)'
    BY <2>1, <2>2, <2>3, <2>4, <2>5 DEF ServedBy
  <2> QED
    BY <1>0, <2>1, <2>4, <2>6 DEF ServedInv, AnsweredMemoriesServed, Loadable, Working
<1>3. ASSUME NEW p \in Procs, Open(p) PROVE ServedInv'
  <2> DEFINE w == exportReceipt(vault[p], nextId)
  <2>1. vault[p] \in VaultState /\ nextId \in Nat /\ pc[p] \in Working /\ selected[p] = <<>>
    BY <1>0, <1>3 DEF Open, TypeOK, AtWork
  <2>2. Keeps(vault[p], w, {})
    <3>1. CASE Addr # {}
      BY <2>1, <3>1, OperationsKeep
    <3>2. CASE Addr = {}
      <4>1. w \in VaultState
        BY <2>1, AppendEventType DEF exportReceipt, Operations
      <4> QED
        BY <2>1, <3>2, <4>1 DEF Keeps, Tombstoned, Serveable, VaultState
    <3> QED
      BY <3>1, <3>2
  <2>3. /\ vault' = [vault EXCEPT ![p] = w]
        /\ pc' = [pc EXCEPT ![p] = "writing"]
        /\ file' = Empty
        /\ stored' = IF pc[p] = "replacing" THEN {} ELSE stored
        /\ UNCHANGED <<selected, request, doomed>>
    BY <1>3 DEF Open
  <2> HIDE DEF w
  <2>4. vault'[p] = w /\ pc'[p] = "writing" /\ \A q \in Procs : q = p
    BY <1>0, <2>3 DEF TypeOK, Single
  <2>5. ~Loadable' /\ file' # Absent
    BY <2>3, Distinct DEF Loadable, NotBundles
  <2>6. ServedBy(p) /\ ToSet(selected[p]) = {}
    BY <2>1 DEF ServedInv, AtWork, ToSet
  <2>7. Tombstoned(w.tombstones) \subseteq doomed /\ stored' \ doomed \subseteq Serveable(w)
    BY <2>2, <2>3, <2>6 DEF ServedBy, Keeps
  <2>8. Stores("writing", w, selected[p], request[p].kept)
        /\ RollsBack("writing", w, selected[p], request[p].gone)
    BY <2>2, <2>6 DEF ServedBy, Keeps, Stores, RollsBack, Ahead
  <2>9. ServedBy(p)'
    BY <2>3, <2>4, <2>6, <2>7, <2>8 DEF ServedBy
  <2> QED
    BY <1>0, <2>4, <2>5, <2>9 DEF ServedInv, AnsweredMemoriesServed
<1>4. ASSUME NEW p \in Procs, Write(p) PROVE ServedInv'
  <2>1. vault[p] \in VaultState /\ pc[p] = "writing" /\ ServedBy(p)
    BY <1>0, <1>4 DEF Write, TypeOK, AtWork, ServedInv
  <2>2. /\ pc' = [pc EXCEPT ![p] = "written"]
        /\ UNCHANGED <<request, stored, doomed>>
    BY <1>4 DEF Write
  <2>3. pc'[p] = "written" /\ \A q \in Procs : q = p
    BY <1>0, <2>2 DEF TypeOK, Single
  <2>4. file' # Absent /\ (Loadable' => file' = bundleOf(vault[p]))
    <3>1. bundleOf(vault[p]) # Absent
      BY <2>1, BundleType, Distinct DEF NotBundles
    <3> QED
      BY <1>4, <3>1, Distinct DEF Write, Loadable, NotBundles
  <2>5. Loadable' => /\ Tombstoned(file'.tombstones) = Tombstoned(vault[p].tombstones)
                     /\ Serveable(reviveVault(file')) = Serveable(vault[p])
    BY <2>1, <2>4, WrittenServes
  <2>6. request[p].kept \ doomed \subseteq Serveable(vault[p])
    BY <2>1 DEF ServedBy, Stores, Ahead
  <2>7. Loadable' => /\ Tombstoned(file'.tombstones) \subseteq doomed
                     /\ (stored \cup request[p].kept) \ doomed \subseteq Serveable(reviveVault(file'))
    BY <2>1, <2>5, <2>6 DEF ServedBy
  <2> QED
    BY <1>0, <2>2, <2>3, <2>4, <2>7 DEF ServedInv, AtWork, Working, AnsweredMemoriesServed
<1>5. ASSUME NEW p \in Procs, Respond(p) PROVE ServedInv'
  <2>1. /\ pc[p] = "written" /\ pc' = [pc EXCEPT ![p] = "idle"]
        /\ stored' = stored \cup request[p].kept
        /\ file' = file /\ doomed' = doomed
    BY <1>5 DEF Respond
  <2>2. pc'[p] = "idle" /\ \A q \in Procs : q = p
    BY <1>0, <2>1 DEF TypeOK, Single
  <2>3. Loadable => stored' \ doomed \subseteq Serveable(reviveVault(file))
    BY <2>1 DEF ServedInv, AnsweredMemoriesServed
  <2>4. file # Absent
    BY <2>1 DEF ServedInv
  <2> QED
    BY <1>0, <2>1, <2>2, <2>3, <2>4
       DEF ServedInv, AtWork, Working, AnsweredMemoriesServed, Loadable
<1>6. ASSUME NEW p \in Procs, Crash(p) PROVE ServedInv'
  <2>1. pc' = [pc EXCEPT ![p] = "idle"] /\ UNCHANGED <<file, stored, doomed>>
    BY <1>6 DEF Crash
  <2>2. pc'[p] = "idle" /\ \A q \in Procs : q = p
    BY <1>0, <2>1 DEF TypeOK, Single
  <2> QED
    BY <1>0, <2>1, <2>2 DEF ServedInv, AtWork, Working, AnsweredMemoriesServed, Loadable
<1>7. CASE UNCHANGED vars
  BY <1>0, <1>7 DEF vars, ServedInv, ServedBy, AtWork, AnsweredMemoriesServed, Loadable
<1> QED
  BY <1>1, <1>2, <1>3, <1>4, <1>5, <1>6, <1>7 DEF Next, Continue, Turn

\* Nothing is stored and nobody is at work at the start.
LEMMA InitServedInv == Init => ServedInv
BY InitTypeOK DEF Init, ServedInv, Loadable, NotBundles, AtWork, Working, AnsweredMemoriesServed

\* With one process, killed at any point, a memory whose storing was answered
\* and that no request set out to remove is served whenever the file parses,
\* until an init replaces the bundle.
THEOREM SingleMemoriesServed ==
    ASSUME Single
    PROVE  Spec => []AnsweredMemoriesServed
<1>1. ServedInv => AnsweredMemoriesServed
  BY DEF ServedInv
<1>2. ServedInv /\ [Next]_vars => ServedInv'
  BY NextServedInv
<1> QED
  BY <1>1, <1>2, InitServedInv, PTL DEF Spec
=============================================================================
