--------------------------- MODULE AtomicProfiles ---------------------------
(***************************************************************************)
(* What the profile transactions promise: every operation changes the      *)
(* catalog and the profile files in one step, or not at all.  No lock, no  *)
(* snapshot, no rollback, no files written in place.                       *)
(***************************************************************************)
EXTENDS ProfileCatalog

VARIABLE store  \* profiles.yaml and the profile files

Stores == [catalog : Catalogs, file : [Uids -> Contents]]

\* The current profile is a main one with an entry, and every entry has its file.
Sound(s) ==
    /\ s.catalog.current # NoUid => s.catalog.current \in Mains(s.catalog)
    /\ \A u \in Uids : Has(s.catalog, u) => s.file[u] \in Versions

Init == store \in {s \in Stores : Sound(s)}

Update(u, v) ==
    /\ u \in Remote /\ Has(store.catalog, u)
    /\ store' = [catalog |-> PatchUpdated(store.catalog, u, v),
                 file    |-> [store.file EXCEPT ![u] = v]]

Switch(u) ==
    /\ u \in Remote \cup Local /\ Has(store.catalog, u)
    /\ store' = [store EXCEPT !.catalog = SwitchCurrent(store.catalog, u)]

Import(u, v, activate) ==
    LET cat == AppendMetadata(store.catalog, u, v) IN
    /\ u \in Remote /\ ~Has(store.catalog, u) /\ store.file[u] = NoFile
    /\ store' = [catalog |-> IF activate THEN SwitchCurrent(cat, u) ELSE cat,
                 file    |-> [store.file EXCEPT ![u] = v]]

Delete(u) ==
    LET gone == DeletedUids(store.catalog, u) IN
    /\ Has(store.catalog, u)
    /\ \E next \in NextCurrents(store.catalog, u) :
          store' = [catalog |-> DeleteItem(store.catalog, u, next),
                    file    |-> [d \in Uids |-> IF d \in gone THEN NoFile ELSE store.file[d]]]

Next ==
    \/ \E u \in Uids, v \in Versions : Update(u, v) \/ (\E b \in BOOLEAN : Import(u, v, b))
    \/ \E u \in Uids : Switch(u) \/ Delete(u)

Spec == Init /\ [][Next]_store
-----------------------------------------------------------------------------
\* Whatever is imported, switched to, updated or deleted: current never names a
\* profile without entry or file.
AlwaysSound == Sound(store)
=============================================================================
