-------------------------- MODULE MCStorageRegion --------------------------
(***************************************************************************)
(* A store as in tests/storage_test.cpp: two adjacent regions, the second  *)
(* ending with the store, and a byte before them that belongs to nobody.   *)
(***************************************************************************)
EXTENDS StorageRegion

MCRegions == {"A", "B"}
MCAddress == [r \in MCRegions |-> IF r = "A" THEN 1 ELSE 4]
MCSize == [r \in MCRegions |-> IF r = "A" THEN 3 ELSE 2]

=============================================================================
