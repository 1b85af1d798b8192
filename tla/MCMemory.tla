------------------------------- MODULE MCMemory -------------------------------
(* A small memory for TLC, with the program's page and cache sizes. *)
EXTENDS Memory

MCCacheSizes == <<96, 192, 8, 16, 32, 64, 128, 256, 512, 1024, 1536, 2048>>
MCBlockSize == [k \in 0 .. MaxOrder |-> 2 ^ k]
MCRequests == {[n |-> 1, align |-> 1], [n |-> 2, align |-> 1], [n |-> 2, align |-> 2]}
================================================================================
