-------------------------- MODULE MCCacheTopology --------------------------
(* One core's memory, with latencies that tell the levels apart.           *)
EXTENDS CacheTopology

MCServiceTime == [t \in AccessType |-> IF t = "STORE" THEN 2 ELSE 3]

WriteThrough(alloc, unblock, stall) ==
    [writeBack |-> FALSE, writeAllocate |-> alloc, unblockStores |-> unblock,
     stallOnBlocking |-> stall]
WriteBack(stall) ==
    [writeBack |-> TRUE, writeAllocate |-> TRUE, unblockStores |-> FALSE,
     stallOnBlocking |-> stall]

MCPolicies ==
    UNION {{WriteThrough(FALSE, FALSE, stall), WriteThrough(TRUE, FALSE, stall),
            WriteThrough(TRUE, TRUE, stall), WriteBack(stall)} : stall \in BOOLEAN}

(* The cache's own defaults, with unblocked stores.                        *)
MCUnblockedNonAllocating == {WriteThrough(FALSE, TRUE, FALSE)}
=============================================================================
