----------------------------- MODULE ProductCatalog -----------------------------
(***************************************************************************)
(* The products of the catalog (src/src/api/catalog): what a command does  *)
(* to a product row and to its audit history.  Every command advances the  *)
(* revision by one and stores a snapshot of the row under that revision in *)
(* the same transaction, so history[p] is the sequence of those snapshots  *)
(* and its last element is the row itself.                                 *)
(*                                                                         *)
(* A row is abstracted to what the search projection asks of it.  Texts,   *)
(* prices, options, categories, tags and media are told apart by the       *)
(* revision that wrote them.  Roles are left out: an administrator may do  *)
(* whatever a seller may.                                                  *)
(***************************************************************************)
EXTENDS Naturals, Sequences

CONSTANTS
  Products,
  NewStatuses,     \* the statuses update is asked for
  MaxRevision      \* bound of the model; the code stops at 2^31 - 1

ProductStatus == {"DRAFT", "ACTIVE", "PAUSED", "SUSPENDED", "CLOSED"}

ASSUME CatalogAssumption ==
  /\ MaxRevision \in Nat
  /\ NewStatuses \subseteq ProductStatus

VARIABLE history

(* saleable: some item that is not deleted has sale status ALLOW.          *)
Row == [status : ProductStatus, saleable : BOOLEAN, deleted : BOOLEAN]

Revision(p) == Len(history[p])
Current(p)  == history[p][Revision(p)]
Live(p)     == Revision(p) > 0 /\ ~Current(p).deleted

(* assertSaleableWhenActive *)
Sound(row) == row.status = "ACTIVE" => row.saleable

(* projectCatalogProduct gives a document, not null. *)
Searchable(row) == row.status = "ACTIVE" /\ ~row.deleted /\ row.saleable

(* advanceRevision, persistSnapshot and the outbox row of recordChange,    *)
(* which CatalogSearch adds.                                               *)
Save(p, row) ==
  /\ Revision(p) < MaxRevision
  /\ Sound(row)
  /\ history' = [history EXCEPT ![p] = Append(@, row)]

Create(p) ==
  /\ Revision(p) = 0
  /\ Save(p, [status |-> "DRAFT", saleable |-> FALSE, deleted |-> FALSE])

(* Any field may change; a change of text keeps the status. *)
Update(p) ==
  /\ Live(p)
  /\ \E s \in NewStatuses : Save(p, [Current(p) EXCEPT !.status = s])

Delete(p) ==
  /\ Live(p)
  /\ Save(p, [Current(p) EXCEPT !.status = "CLOSED", !.deleted = TRUE])

(* replaceCatalog, createItem, updateItem and deleteItem: the graph of the *)
(* product is replaced, and with it what can be bought.                    *)
ChangeCatalog(p) ==
  /\ Live(p)
  /\ \E b \in BOOLEAN : Save(p, [Current(p) EXCEPT !.saleable = b])

(* A restored product is alive again, whatever the snapshot was.           *)
Restore(p) ==
  /\ Revision(p) > 0
  /\ \E r \in 1 .. Revision(p) - 1 :
       Save(p, [history[p][r] EXCEPT !.deleted = FALSE])

Command(p) ==
  Create(p) \/ Update(p) \/ Delete(p) \/ ChangeCatalog(p) \/ Restore(p)
===============================================================================
