---------------------------- MODULE AtomicProofs ----------------------------
(***************************************************************************)
(* AtomicProfiles keeps its catalog sound, for any set of profiles.  With  *)
(* the refinement that ProfileTransaction checks, this is what a user of   *)
(* the transactions may rely on.                                           *)
(***************************************************************************)
EXTENDS AtomicProfiles, TLAPS

IInv == store \in Stores /\ Sound(store)

\* An entry that is replaced is an entry; what a catalog looks like afterwards.
LEMMA EntryIsThere ==
    ASSUME NEW e \in Entries
    PROVE  e # NoEntry
  BY CatalogAssumption

LEMMA UpdateSound ==
    ASSUME IInv, NEW u \in Uids, NEW v \in Versions, Update(u, v)
    PROVE  IInv'
<1> DEFINE cat == PatchUpdated(store.catalog, u, v)
           new == [store.catalog.item[u] EXCEPT !.rev = v]
<1>1. store.catalog.item[u] \in Entries
  BY DEF IInv, Stores, Catalogs, Update, Has
<1>2. new \in Entries /\ new # NoEntry
  BY <1>1, EntryIsThere DEF Entries
<1>3. cat \in Catalogs /\ cat.current = store.catalog.current
      /\ cat.item = [store.catalog.item EXCEPT ![u] = new]
  BY <1>2 DEF IInv, Stores, Catalogs, PatchUpdated
<1>4. \A w \in Uids : Has(cat, w) <=> Has(store.catalog, w)
  BY <1>1, <1>2, <1>3, EntryIsThere DEF Has, IInv, Stores, Catalogs
<1>5. store' = [catalog |-> cat, file |-> [store.file EXCEPT ![u] = v]]
  BY DEF Update
<1>6. store' \in Stores
  BY <1>3, <1>5 DEF IInv, Stores, Contents
<1>7. store'.catalog.current # NoUid => store'.catalog.current \in Mains(store'.catalog)
  BY <1>3, <1>4, <1>5, CatalogAssumption DEF IInv, Sound, Mains
<1>8. \A w \in Uids : Has(store'.catalog, w) => store'.file[w] \in Versions
  BY <1>4, <1>5 DEF IInv, Sound, Stores
<1> QED BY <1>6, <1>7, <1>8 DEF IInv, Sound

LEMMA SwitchSound ==
    ASSUME IInv, NEW u \in Uids, Switch(u)
    PROVE  IInv'
<1>1. store'.catalog.current = u /\ store'.catalog.item = store.catalog.item
      /\ store'.file = store.file /\ store' \in Stores
  BY DEF IInv, Switch, SwitchCurrent, Stores, Catalogs
<1>2. u \in Mains(store'.catalog)
  BY <1>1 DEF Switch, Mains, Has
<1> QED BY <1>1, <1>2 DEF IInv, Sound, Has

LEMMA ImportSound ==
    ASSUME IInv, NEW u \in Uids, NEW v \in Versions, NEW b \in BOOLEAN, Import(u, v, b)
    PROVE  IInv'
<1> DEFINE entry == [rev |-> v, sel |-> NoSel]
           old == store.catalog
<1>1. entry \in Entries /\ entry # NoEntry
  BY EntryIsThere DEF Entries
<1>2. /\ store'.catalog.item = [old.item EXCEPT ![u] = entry]
      /\ store'.catalog.current \in {old.current, u}
      /\ store'.catalog.current # NoUid
      /\ store'.file = [store.file EXCEPT ![u] = v]
      /\ store' = [catalog |-> store'.catalog, file |-> store'.file]
      /\ store'.catalog = [current |-> store'.catalog.current, item |-> store'.catalog.item]
  BY CatalogAssumption DEF Import, AppendMetadata, SwitchCurrent
<1>3. store' \in Stores
  BY <1>1, <1>2 DEF IInv, Stores, Catalogs, Contents
<1>4. \A w \in Uids : Has(store'.catalog, w) <=> w = u \/ Has(old, w)
  BY <1>1, <1>2 DEF Has, IInv, Stores, Catalogs
<1>5. store'.catalog.current \in Mains(store'.catalog)
  <2>1. CASE store'.catalog.current = u
    BY <1>4, <2>1 DEF Mains, Import
  <2>2. CASE store'.catalog.current = old.current
    <3>1. old.current \in Mains(old)
      BY <1>2, <2>2 DEF IInv, Sound
    <3> QED BY <1>4, <2>2, <3>1, CatalogAssumption DEF Mains
  <2> QED BY <1>2, <2>1, <2>2
<1>6. \A w \in Uids : Has(store'.catalog, w) => store'.file[w] \in Versions
  BY <1>2, <1>4 DEF IInv, Sound, Stores
<1> QED BY <1>3, <1>5, <1>6 DEF IInv, Sound

LEMMA DeleteSound ==
    ASSUME IInv, NEW u \in Uids, Delete(u)
    PROVE  IInv'
<1> DEFINE old == store.catalog
           gone == DeletedUids(old, u)
<1>1. PICK next \in NextCurrents(old, u) :
          store' = [catalog |-> DeleteItem(old, u, next),
                    file |-> [d \in Uids |-> IF d \in gone THEN NoFile ELSE store.file[d]]]
  BY DEF Delete
<1>2. old \in Catalogs /\ store.file \in [Uids -> Contents]
  BY DEF IInv, Stores
<1>3. u \in gone /\ gone \cap (Remote \cup Local) \subseteq {u}
  BY CatalogAssumption DEF Delete, DeletedUids
<1>4. next # NoUid => next \in Mains(old) \ gone
  BY <1>3, CatalogAssumption DEF NextCurrents, IInv, Sound, Mains
<1>5. next \in Uids \cup {NoUid}
  BY <1>4, CatalogAssumption DEF Mains
<1>6. /\ store'.catalog.current = next
      /\ store'.catalog.item = [d \in Uids |-> IF d \in gone THEN NoEntry ELSE old.item[d]]
      /\ store'.file = [d \in Uids |-> IF d \in gone THEN NoFile ELSE store.file[d]]
  BY <1>1 DEF DeleteItem
<1>7. store' \in Stores
  BY <1>1, <1>2, <1>5 DEF Stores, Catalogs, Contents, DeleteItem
<1>8. \A d \in Uids : Has(store'.catalog, d) <=> Has(old, d) /\ d \notin gone
  BY <1>6 DEF Has
<1>9. next # NoUid => next \in Mains(store'.catalog)
  BY <1>4, <1>8, CatalogAssumption DEF Mains
<1>10. \A d \in Uids : Has(store'.catalog, d) => store'.file[d] \in Versions
  BY <1>6, <1>8 DEF IInv, Sound
<1> QED BY <1>6, <1>7, <1>9, <1>10 DEF IInv, Sound

\* The catalog is sound after any sequence of imports, switches, updates and
\* deletes: current always names a main profile with an entry and a file.
THEOREM AtomicSound == Spec => []AlwaysSound
<1>1. Init => IInv
  BY DEF Init, IInv
<1>2. IInv /\ [Next]_store => IInv'
  <2> SUFFICES ASSUME IInv, [Next]_store PROVE IInv'
    OBVIOUS
  <2>1. CASE Next
    BY <2>1, UpdateSound, ImportSound, SwitchSound, DeleteSound DEF Next
  <2>2. CASE UNCHANGED store
    BY <2>2 DEF IInv
  <2> QED BY <2>1, <2>2
<1>3. IInv => AlwaysSound
  BY DEF IInv, AlwaysSound
<1> QED BY <1>1, <1>2, <1>3, PTL DEF Spec
=============================================================================
