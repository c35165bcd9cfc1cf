-------------------------- MODULE MemoryRegistry --------------------------
(***************************************************************************)
(* The memory_registry program: on-chain entries for memories.  An entry   *)
(* is created at its owner and the first 8 bytes of its content hash.  An  *)
(* update replaces the content hash and leaves the entry where it is.      *)
(*                                                                         *)
(* init_memory never assigns memory.bump, and the instructions signed by   *)
(* the owner derive the address again with the stored bump.                *)
(***************************************************************************)
EXTENDS CapabilityRegistry

CONSTANTS Hashes,     \* content hashes, up to the 8 bytes that addresses use
          RoyaltyBps  \* values of royalty_bps passed to set_shareable

VARIABLES memories  \* Memory accounts

MemoryAddress == [owner : Owners, at : Hashes]

Memory == [content_hash : Hashes, shareable : BOOLEAN, royalty_bps : 0 .. 10000, bump : Nat]

MemoryTypeOK == /\ DOMAIN memories \subseteq MemoryAddress
                /\ \A e \in DOMAIN memories : memories[e] \in Memory

MemoryInit == memories = [e \in {} |-> 0]

-----------------------------------------------------------------------------

init_memory(o, h) ==
    LET e == [owner |-> o, at |-> h]
        stored == IF e \in DOMAIN memories THEN memories[e].bump ELSE UnsetBump
    IN  memories' = put(memories, e, [content_hash |-> h, shareable |-> FALSE,
                                      royalty_bps |-> 0, bump |-> stored])

\* register_memory and create_memory are the same instruction.
register_memory(o, h) ==
    /\ init_memory(o, h)
    /\ UNCHANGED registryVars

\* The address constraint of UpdateMemory and DeleteMemory.
ownerAddresses(e) == /\ e \in DOMAIN memories
                     /\ e.at = memories[e].content_hash
                     /\ memories[e].bump = CanonicalBump

update_memory(e, h) ==
    /\ ownerAddresses(e)
    /\ memories' = [memories EXCEPT ![e].content_hash = h]
    /\ UNCHANGED registryVars

set_shareable(e, shareable, bps) ==
    /\ ownerAddresses(e)
    /\ bps <= 10000
    /\ memories' = [memories EXCEPT ![e].shareable = shareable, ![e].royalty_bps = bps]
    /\ UNCHANGED registryVars

delete_memory(e) ==
    /\ ownerAddresses(e)
    /\ memories' = close(memories, e)
    /\ UNCHANGED registryVars

-----------------------------------------------------------------------------
(* Delegated instructions: they name the entry, and check only its owner.  *)

delegated(a, bit) ==
    /\ delegable(a, bit)
    /\ delegate("memory_registry", a, touch_session(sessions[a]), 0)

create_memory_with_session(a, h) ==
    /\ delegated(a, "MEMORY_CREATE")
    /\ init_memory(a.owner, h)

update_memory_with_session(a, e, h) ==
    /\ delegated(a, "MEMORY_UPDATE")
    /\ e \in DOMAIN memories /\ e.owner = a.owner
    /\ memories' = [memories EXCEPT ![e].content_hash = h]

\* Mutant: the entry's owner is not compared with the session's.
delete_memory_with_sessionAnyOwner(a, e) ==
    /\ delegated(a, "MEMORY_DELETE")
    /\ e \in DOMAIN memories
    /\ memories' = close(memories, e)

delete_memory_with_session(a, e) ==
    /\ delegated(a, "MEMORY_DELETE")
    /\ e \in DOMAIN memories /\ e.owner = a.owner
    /\ memories' = close(memories, e)

-----------------------------------------------------------------------------

MemoryStep == \/ \E o \in Owners, h \in Hashes : register_memory(o, h)
              \/ \E a \in DOMAIN sessions, h \in Hashes : create_memory_with_session(a, h)
              \/ \E a \in DOMAIN sessions, e \in DOMAIN memories, h \in Hashes :
                    update_memory_with_session(a, e, h)
              \/ \E a \in DOMAIN sessions, e \in DOMAIN memories : delete_memory_with_session(a, e)

OwnerMemoryStep == \E e \in DOMAIN memories :
                      \/ \E h \in Hashes : update_memory(e, h)
                      \/ \E s \in BOOLEAN, bps \in RoyaltyBps : set_shareable(e, s, bps)
                      \/ delete_memory(e)

===========================================================================
