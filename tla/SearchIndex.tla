------------------------------ MODULE SearchIndex ------------------------------
(***************************************************************************)
(* The search engine as CatalogIndexManager (src/src/infra/search) uses    *)
(* it: physical indices with externally versioned documents, and the read  *)
(* and the write alias of the catalog.  The engine itself is external.     *)
(*                                                                         *)
(* A document of product p is a function of p and the revision it was      *)
(* projected from, so an entry is that revision and whether a document or  *)
(* the mark of a deletion is stored under it.                              *)
(***************************************************************************)
EXTENDS ProductCatalog

CONSTANTS
  FirstIndex,      \* the index in service at the start
  Rebuilds         \* runs of search:rebuild, each building an index of its own

ASSUME IndexAssumption == FirstIndex \notin Rebuilds

VARIABLES
  index,           \* index[i][p]: what index i holds for product p
  readAlias,       \* the indices behind the read alias
  writeAlias       \* the indices behind the write alias

indexVars == <<index, readAlias, writeAlias>>

Indices == {FirstIndex} \cup Rebuilds

Entry  == [version : 0 .. MaxRevision, live : BOOLEAN]
Absent == [version |-> 0, live |-> FALSE]

IndexTypeOK ==
  /\ index \in [Indices -> [Products -> Entry]]
  /\ readAlias \in SUBSET Indices
  /\ writeAlias \in SUBSET Indices

(* The revision a search through index i finds p at; 0 if it does not.     *)
Shown(i, p) == IF index[i][p].live THEN index[i][p].version ELSE 0

(* The revision it should find at revision r of p, and what is sent to the *)
(* index for the row as it is.                                             *)
Projection(p, r) == IF Searchable(history[p][r]) THEN r ELSE 0
CurrentEntry(p)  == [version |-> Revision(p), live |-> Searchable(Current(p))]

(* Mutant of Accepts: a document without a version. *)
AcceptsAny(i, p, entry) == TRUE

(* version_type = external *)
Accepts(i, p, entry) == entry.version > index[i][p].version

(* writeExternal, deleteExternal: one item of a bulk request.  A deletion  *)
(* of what is not there leaves its mark too.                               *)
Put(i, p, entry) ==
  /\ Accepts(i, p, entry)
  /\ index' = [index EXCEPT ![i][p] = entry]
  /\ UNCHANGED <<readAlias, writeAlias>>

Conflicts(i, p, entry) == ~Accepts(i, p, entry)

(* index.gc_deletes has passed: the mark of a deletion is dropped. *)
Forget(i, p) ==
  /\ index[i][p].version > 0 /\ ~index[i][p].live
  /\ index' = [index EXCEPT ![i][p] = Absent]
  /\ UNCHANGED <<readAlias, writeAlias>>

(* Mutant of Switchable: removals without must_exist. *)
SwitchableAnyhow(read, write) == TRUE

(* cutOverAliases, all or nothing: every removal must find its alias       *)
(* (must_exist), and an alias has one write index.                         *)
Switchable(read, write) ==
  /\ read \subseteq readAlias
  /\ write \subseteq writeAlias
  /\ writeAlias \ write = {}

CutOver(i, read, write) ==
  /\ Switchable(read, write)
  /\ readAlias' = (readAlias \ read) \cup {i}
  /\ writeAlias' = (writeAlias \ write) \cup {i}
  /\ UNCHANGED index
===============================================================================
