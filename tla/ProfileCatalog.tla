--------------------------- MODULE ProfileCatalog ---------------------------
(***************************************************************************)
(* The profile catalog (profiles.yaml) as data: what the store's calls in  *)
(* clash-core/src/config/{profiles,store}.rs make of it, and what the      *)
(* runtime generator of clash-core/src/config/runtime.rs makes of it and   *)
(* of the profile files.                                                   *)
(*                                                                         *)
(* An entry keeps what the properties tell apart: `rev`, the download its  *)
(* metadata comes from, and `sel`, the saved proxy selection.  A uid has   *)
(* its kind for good: a subscription, a local profile, or an enhancement   *)
(* (merge, script, rules, proxies, groups) that other entries refer to.    *)
(***************************************************************************)
EXTENDS FiniteSets

CONSTANTS
    Uids,        \* profile uids; the file of u is <u>.yaml
    Remote,      \* subscriptions
    Local,       \* local profiles
    Refs,        \* Refs[u]: enhancements the option of u names
    Versions,    \* contents a profile file can have
    Selections,  \* proxy selections
    NoUid,       \* current is None
    NoSel,       \* nothing selected yet
    NoEntry,     \* the catalog has no such item
    NoFile,      \* the file does not exist
    Partial      \* a file that was not written to its end

Entries == [rev : Versions, sel : Selections \cup {NoSel}]
Catalogs == [current : Uids \cup {NoUid}, item : [Uids -> Entries \cup {NoEntry}]]
Contents == Versions \cup {NoFile, Partial}

ASSUME CatalogAssumption ==
    /\ Remote \subseteq Uids /\ Local \subseteq Uids /\ Remote \cap Local = {}
    /\ Refs \in [Uids -> SUBSET (Uids \ (Remote \cup Local))]
    /\ NoUid \notin Uids /\ NoEntry \notin Entries /\ NoSel \notin Selections
    /\ NoFile # Partial /\ {NoFile, Partial} \cap Versions = {}

Has(cat, u) == cat.item[u] # NoEntry
Mains(cat) == {u \in Remote \cup Local : Has(cat, u)}

\* ProfileCatalog::default, without the two global enhancements, which
\* ensure_global_profile_items gives every catalog.
EmptyCatalog == [current |-> NoUid, item |-> [u \in Uids |-> NoEntry]]

SwitchCurrent(cat, u) == [cat EXCEPT !.current = u]

\* append_metadata: the first main profile becomes the current one.
AppendMetadata(cat, u, v) ==
    [current |-> IF cat.current = NoUid THEN u ELSE cat.current,
     item    |-> [cat.item EXCEPT ![u] = [rev |-> v, sel |-> NoSel]]]

\* patch_item with the metadata of a download: the selection stays.
PatchUpdated(cat, u, v) == [cat EXCEPT !.item[u].rev = v]
PatchSelected(cat, u, s) == [cat EXCEPT !.item[u].sel = s]

\* delete_profile removes the entry and the enhancements its option names.
DeletedUids(cat, u) == {d \in {u} \cup Refs[u] : Has(cat, d)}

\* The first remaining main profile takes over from a deleted current one; the
\* order of the list is not modelled, so it may be any of them.
NextCurrents(cat, u) ==
    LET rest == Mains(cat) \ DeletedUids(cat, u) IN
    IF cat.current # u THEN {cat.current}
    ELSE IF rest = {} THEN {NoUid} ELSE rest

DeleteItem(cat, u, next) ==
    [current |-> next,
     item    |-> [d \in Uids |-> IF d \in DeletedUids(cat, u) THEN NoEntry ELSE cat.item[d]]]

\* RuntimeConfigGenerator: the current profile, or the built-in configuration
\* when there is none or its file is missing; an error when the current uid has
\* no entry or the file does not parse.
Fallback == [uid |-> NoUid, content |-> NoFile]
GenerateFails(cat, files) ==
    cat.current # NoUid /\ (~Has(cat, cat.current) \/ files[cat.current] = Partial)
Generated(cat, files) ==
    IF cat.current = NoUid THEN Fallback
    ELSE IF files[cat.current] = NoFile THEN Fallback
    ELSE [uid |-> cat.current, content |-> files[cat.current]]
Runtimes == [uid : Uids \cup {NoUid}, content : Contents]
=============================================================================
