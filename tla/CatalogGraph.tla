------------------------------ MODULE CatalogGraph ------------------------------
(***************************************************************************)
(* The graph of one product (src/src/api/catalog): the options, values,    *)
(* items, selections, categories and tags a command replaces, edits or     *)
(* restores, and the writer that brings the rows there in five flushes.    *)
(*                                                                         *)
(* The database checks its unique keys row by row, so a graph that only    *)
(* swaps two names collides on the way.  The writer first parks every row  *)
(* on a name, a place and a signature nothing uses (stage), then deletes   *)
(* what the graph no longer has, then writes the final values.  Items are  *)
(* never deleted: orders and stock refer to them, so an item that leaves   *)
(* the graph stays behind, marked deleted, on its parking place.           *)
(*                                                                         *)
(* The transaction holds the product row, so one command runs at a time.   *)
(* Other products meanwhile take and give up slugs, which are unique in    *)
(* the whole catalog and come back with a snapshot that is restored.       *)
(* ProductCatalog has the product as the search sees it; this module is    *)
(* shown to implement its commands.                                        *)
(*                                                                         *)
(* Texts are model values; the staging key '!k' is the number k, which is  *)
(* also how a name spelled '!k' is written.  The database compares texts   *)
(* under a collation, the code compares them exactly; codes are in lower   *)
(* case, so for them it is the same.  Prices, the limits on lengths, media *)
(* and the category tree are left out.                                     *)
(***************************************************************************)
EXTENDS Naturals, Sequences, FiniteSets, SequencesExt

CONSTANTS
  Drafts,          \* the graphs replaceCatalog is asked for
  ItemDrafts,      \* the items createItem and updateItem are asked for
  Collation,       \* Collation[t]: what the database takes the text t for
  Codes,           \* PRODUCT_OPTION_CODE_PATTERN; ids of categories too
  Limits,          \* PRODUCT_CATALOG_LIMITS
  Slugs,           \* PRODUCT_SLUG_PATTERN
  Changes,         \* the status and slug update is asked for
  Top,             \* MAX_UNSIGNED_INTEGER
  MaxRevision,     \* bound of the model
  NoProduct, NoSku, NoSignature

(* What a caller can ask for: parts of a graph refer to each other by      *)
(* code; id 0 stands for an id that was not given.                         *)
Text      == DOMAIN Collation \cup Nat
Selection == SUBSET (Codes \X Codes)
SignatureOf(sel) == [sel |-> sel]

CatalogOptionValue == [id : Nat, code : Codes, name : Text]

CatalogOption ==
  [id : Nat, code : Codes, name : Text, required : BOOLEAN, values : Seq(CatalogOptionValue)]

CatalogItem ==
  [id : Nat, sku : Text \cup {NoSku}, sale : {"ALLOW", "DENY"},
   sig : {NoSignature} \cup [sel : Selection], sel : Selection]

Graphs ==
  [options : Seq(CatalogOption), items : Seq(CatalogItem),
   categories : Seq(Codes), tags : Seq(Text)]

(* The SKUs a caller can give; a number stands for a random SKU, which     *)
(* nobody gives but by naming its item.                                    *)
Skus == {t \in DOMAIN Collation : Collation[t] \notin Nat}

(* Callers name items by id, never options, values or signatures.          *)
Unnamed(os) ==
  \A k \in DOMAIN os :
    os[k].id = 0 /\ \A v \in DOMAIN os[k].values : os[k].values[v].id = 0

Statuses == {"DRAFT", "ACTIVE", "PAUSED", "SUSPENDED", "CLOSED"}

ASSUME GraphAssumption ==
  /\ Top \in Nat /\ MaxRevision \in Nat
  /\ Changes \subseteq [status : Statuses, slug : Slugs]
  /\ \A g \in Drafts :
       /\ g \in Graphs
       /\ Unnamed(g.options)
       /\ \A k \in DOMAIN g.items :
            g.items[k].sig = NoSignature /\ g.items[k].sku \in Skus \cup {NoSku}
  /\ \A i \in ItemDrafts :
       i \in CatalogItem /\ i.id = 0 /\ i.sig = NoSignature /\ i.sku \in Skus \cup {NoSku}

ASSUME TextAssumption ==
  /\ \A t \in DOMAIN Collation : t \notin Nat
  /\ Codes \subseteq DOMAIN Collation
  /\ \A s, t \in Codes : Collation[s] = Collation[t] => s = t

(* The places above those of a graph are enough to park every row on.      *)
(* Items stay in the table, so that there is a revision after which they   *)
(* are not: with the limits of the code one beyond four million.           *)
ASSUME RoomAssumption ==
  /\ Limits \in [{"options", "optionValues", "items", "categories", "tags"} -> Nat]
  /\ \A f \in {"options", "optionValues", "categories", "tags"} : 2 * Limits[f] <= Top + 1
  /\ Limits.items * (2 * MaxRevision + 1) <= Top + 1

VARIABLES
  product,         \* ProductEntity: status, deletedAt and slug
  rows,            \* the rows of its graph, as the open transaction has them
  history,         \* the snapshots, one per revision
  tx,              \* the command that holds the product row
  outcome,         \* what the last command was told
  slugsTaken       \* the slugs of the other products

vars == <<product, rows, history, tx, outcome, slugsTaken>>

Tables   == {"options", "values", "items", "selections", "labels"}

NoTx == [phase |-> "none"]
NoRows == [t \in Tables |-> {}]

Ids(S)     == {r.id : r \in S}
HighestOf(S)    == IF S = {} THEN 0 ELSE Max(S)
InOrder(S) ==
  [k \in 1 .. Cardinality(S) |->
     CHOOSE r \in S : Cardinality({q \in S : q.seq < r.seq}) = k - 1]
TheRow(S, id) == CHOOSE r \in S : r.id = id

Field(s, f) == [k \in DOMAIN s |-> s[k][f]]
GivenIdsDiffer(s) ==
  \A j, k \in DOMAIN s : j # k /\ s[j].id # 0 => s[j].id # s[k].id

---------------------------------------------------------------------------------
(* The graph as a value.                                                   *)

Selected(r, item) ==
  {<<TheRow(r.options, s.option).code, TheRow(r.values, s.value).code>> :
     s \in {s \in r.selections : s.item = item}}

ValuesOf(r, option) == {v \in r.values : v.option = option}
Labels(r, kind) == Field(InOrder({l \in r.labels : l.kind = kind}), "id")

(* createProductSnapshotPayload; CatalogGraphChange.fromProduct reads the  *)
(* rows the same way.                                                      *)
GraphOf(r) ==
  LET values(o) ==
        LET vs == InOrder(ValuesOf(r, o.id))
        IN  [k \in DOMAIN vs |->
               [id |-> vs[k].id, code |-> vs[k].code, name |-> vs[k].name]]
      os == InOrder(r.options)
      is == InOrder({i \in r.items : ~i.deleted})
  IN  [options |-> [k \in DOMAIN os |->
         [id |-> os[k].id, code |-> os[k].code, name |-> os[k].name,
          required |-> os[k].required, values |-> values(os[k])]],
       items |-> [k \in DOMAIN is |->
         [id |-> is[k].id, sku |-> is[k].sku, sale |-> is[k].sale,
          sig |-> is[k].sig, sel |-> Selected(r, is[k].id)]],
       categories |-> Labels(r, "category"),
       tags |-> Labels(r, "tag")]

Normal(g) ==
  [g EXCEPT !.items = [k \in DOMAIN g.items |->
     IF g.items[k].sig = NoSignature
     THEN [g.items[k] EXCEPT !.sig = SignatureOf(g.items[k].sel)]
     ELSE g.items[k]]]

ValidOptions(os) ==
  /\ Len(os) <= Limits.options
  /\ IsInjective(Field(os, "code"))
  /\ IsInjective(Field(os, "name"))
  /\ GivenIdsDiffer(os)
  /\ \A k \in DOMAIN os :
       LET vs == os[k].values
       IN  /\ vs # <<>> /\ Len(vs) <= Limits.optionValues
           /\ IsInjective(Field(vs, "code"))
           /\ IsInjective(Field(vs, "name"))
           /\ GivenIdsDiffer(vs)

(* One value for each required option, at most one for the others.         *)
ValidSelection(sel, os) ==
  /\ \A p, q \in sel : p[1] = q[1] => p = q
  /\ \A p \in sel : \E k \in DOMAIN os :
       os[k].code = p[1] /\ \E v \in DOMAIN os[k].values : os[k].values[v].code = p[2]
  /\ \A k \in DOMAIN os : os[k].required => \E p \in sel : p[1] = os[k].code

GivenSkusDiffer(is) ==
  \A j, k \in DOMAIN is : j # k /\ is[j].sku # NoSku => is[j].sku # is[k].sku

ValidItems(is, os) ==
  /\ Len(is) <= Limits.items
  /\ \A k \in DOMAIN is : ValidSelection(is[k].sel, os)
  /\ GivenIdsDiffer(is)
  /\ GivenSkusDiffer(is)
  /\ IsInjective(Field(is, "sig"))
  /\ IsInjective(Field(is, "sel"))

(* CatalogGraph.fromInput, for a graph that Normal has completed.          *)
Valid(g) ==
  /\ ValidOptions(g.options)
  /\ ValidItems(g.items, g.options)
  /\ Len(g.categories) <= Limits.categories /\ IsInjective(g.categories)
  /\ Len(g.tags) <= Limits.tags /\ IsInjective(g.tags)

---------------------------------------------------------------------------------
(* Which row each part of a graph is.                                      *)

Revision == Len(history)
EverOptions ==
  UNION {Ids(Range(history[r].graph.options)) : r \in DOMAIN history}
EverValues ==
  UNION {UNION {Ids(Range(o.values)) : o \in Range(history[r].graph.options)} :
           r \in DOMAIN history}

SameCode(S, part) == {r \in S : r.code = part.code}

NewOptions(os) == {k \in DOMAIN os : os[k].id = 0 /\ SameCode(rows.options, os[k]) = {}}

OptionId(os, k) ==
  IF os[k].id # 0 THEN os[k].id
  ELSE IF k \in NewOptions(os)
       THEN HighestOf(EverOptions) + Cardinality(NewOptions(os) \cap 1 .. k)
  ELSE (CHOOSE r \in SameCode(rows.options, os[k]) : TRUE).id

ResolvedOptions(os) == [k \in DOMAIN os |-> [os[k] EXCEPT !.id = OptionId(os, k)]]

(* For options that have their rows already. *)
NewValues(os) ==
  UNION {{<<k, v>> : v \in {v \in DOMAIN os[k].values :
            /\ os[k].values[v].id = 0
            /\ SameCode(ValuesOf(rows, os[k].id), os[k].values[v]) = {}}} : k \in DOMAIN os}

ValueId(os, k, v) ==
  IF os[k].values[v].id # 0 THEN os[k].values[v].id
  ELSE IF <<k, v>> \in NewValues(os)
       THEN HighestOf(EverValues)
            + Cardinality({p \in NewValues(os) : p[1] < k \/ (p[1] = k /\ p[2] <= v)})
  ELSE (CHOOSE r \in SameCode(ValuesOf(rows, os[k].id), os[k].values[v]) : TRUE).id

ResolvedValues(os) ==
  [k \in DOMAIN os |->
     [os[k] EXCEPT !.values = [v \in DOMAIN @ |-> [@[v] EXCEPT !.id = ValueId(os, k, v)]]]]

NewItems(is) == {k \in DOMAIN is : is[k].id = 0}

ItemId(is, k) ==
  IF is[k].id # 0 THEN is[k].id
  ELSE HighestOf(Ids(rows.items)) + Cardinality(NewItems(is) \cap 1 .. k)

ResolvedItems(is) == [k \in DOMAIN is |-> [is[k] EXCEPT !.id = ItemId(is, k)]]

Resolved(g) ==
  [g EXCEPT !.options = ResolvedValues(ResolvedOptions(g.options)),
            !.items   = ResolvedItems(g.items)]

(* No row is used twice; a named item exists and keeps its SKU.            *)
Resolvable(g, requireExisting) ==
  LET os == Resolved(g).options
  IN  /\ GivenIdsDiffer(os)
      /\ \A k \in DOMAIN os : GivenIdsDiffer(os[k].values)
      /\ \A k \in DOMAIN g.items :
           /\ g.items[k].id # 0 => g.items[k].id \in Ids(rows.items)
           /\ requireExisting => g.items[k].id # 0
           /\ g.items[k].id # 0 /\ g.items[k].sku # NoSku =>
                TheRow(rows.items, g.items[k].id).sku = g.items[k].sku

---------------------------------------------------------------------------------
(* The rows after each flush.                                              *)

Compared(t) == IF t \in DOMAIN Collation THEN Collation[t] ELSE t
Texts(S)    == {Compared(r.code) : r \in S} \cup {Compared(r.name) : r \in S}

(* unusedStagingKeys: the first of n keys in a row that neither the rows   *)
(* of the table nor the names to come use.                                 *)
FirstKey(n, taken) ==
  n * Min({j \in 0 .. Cardinality(taken) : \A i \in 0 .. n - 1 : n * j + i \notin taken})

Place(S, r) == Cardinality({q \in S : q.id < r.id})

(* Mutant of Parked: the keys are not compared with any name. *)
ParkedUnchecked(S, taken) ==
  {[r EXCEPT !.code = Place(S, r), !.name = Place(S, r),
             !.seq = Top - Place(S, r)] : r \in S}

Parked(S, taken) ==
  LET first == FirstKey(Cardinality(S), taken)
  IN  {[r EXCEPT !.code = first + Place(S, r), !.name = first + Place(S, r),
                 !.seq = Top - Place(S, r)] : r \in S}

StagedOptions(g) ==
  Parked(rows.options, Texts(rows.options) \cup Texts(Range(g.options)))

StagedValues(g) ==
  UNION {LET vs == ValuesOf(rows, o.id)
             to == {p \in Range(g.options) : p.id = o.id}
         IN  Parked(vs, Texts(vs) \cup UNION {Texts(Range(p.values)) : p \in to}) :
           o \in rows.options}

(* stageItems: the highest places that are free, and a signature of its    *)
(* own for each item and revision.                                         *)
StagedItems ==
  LET free == (0 .. Top) \ {i.seq : i \in rows.items}
      place(i) == CHOOSE n \in free :
        Cardinality({m \in free : m > n}) = Place(rows.items, i)
  IN  {[i EXCEPT !.seq = place(i), !.sig = [item |-> i.id, revision |-> Revision]] :
         i \in rows.items}

StagedLabels ==
  {[l EXCEPT !.seq = Top - Cardinality({m \in rows.labels : m.kind = l.kind /\ m.seq < l.seq})] :
     l \in rows.labels}

Staged(g) ==
  [rows EXCEPT !.options = StagedOptions(g), !.values = StagedValues(g),
               !.items = StagedItems, !.labels = StagedLabels, !.selections = {}]

ValueIds(g) == UNION {Ids(Range(o.values)) : o \in Range(g.options)}

LabelRows(g) ==
  {[kind |-> "category", id |-> g.categories[k], seq |-> k - 1] : k \in DOMAIN g.categories}
  \cup {[kind |-> "tag", id |-> g.tags[k], seq |-> k - 1] : k \in DOMAIN g.tags}

(* Mutant of Trimmed: the values of an option that stays are not looked at. *)
TrimmedToOptions(g) ==
  [rows EXCEPT
     !.options = {o \in @ : o.id \in Ids(Range(g.options))},
     !.values  = {v \in @ : v.option \in Ids(Range(g.options))},
     !.labels  = {l \in @ : \E m \in LabelRows(g) : m.kind = l.kind /\ m.id = l.id}]

(* removeUnusedOptions and removeUnusedCategoriesAndTags *)
Trimmed(g) ==
  [rows EXCEPT
     !.options = {o \in @ : o.id \in Ids(Range(g.options))},
     !.values  = {v \in @ : v.id \in ValueIds(g)},
     !.labels  = {l \in @ : \E m \in LabelRows(g) : m.kind = l.kind /\ m.id = l.id}]

OptionRows(g) ==
  {[id |-> g.options[k].id, code |-> g.options[k].code, name |-> g.options[k].name,
    required |-> g.options[k].required, seq |-> k - 1] : k \in DOMAIN g.options}

ValueRows(o) ==
  {[id |-> o.values[k].id, option |-> o.id, code |-> o.values[k].code,
    name |-> o.values[k].name, seq |-> k - 1] : k \in DOMAIN o.values}

AllValueRows(g) == UNION {ValueRows(o) : o \in Range(g.options)}

(* applyOptions and applyCategoriesAndTags *)
WithOptions(g) ==
  LET vs == AllValueRows(g)
      written(l) == \E m \in LabelRows(g) : m.kind = l.kind /\ m.id = l.id
  IN  [rows EXCEPT
         !.options = {o \in @ : o.id \notin Ids(OptionRows(g))} \cup OptionRows(g),
         !.values  = {v \in @ : v.id \notin Ids(vs)} \cup vs,
         !.labels  = {l \in @ : ~written(l)} \cup LabelRows(g)]

(* Mutant of SkuFor: the SKU comes with every write. *)
SkuAsGiven(i) == IF i.sku # NoSku THEN i.sku ELSE i.id

(* A row keeps its SKU; a new one has the SKU it was given, or else a      *)
(* random one, here its own id.                                            *)
SkuFor(i) ==
  IF i.id \in Ids(rows.items) THEN TheRow(rows.items, i.id).sku
  ELSE IF i.sku # NoSku THEN i.sku
  ELSE i.id

WithSkus(g) ==
  [g EXCEPT !.items = [k \in DOMAIN g.items |-> [g.items[k] EXCEPT !.sku = SkuFor(g.items[k])]]]

ItemRows(g) ==
  {[id |-> g.items[k].id, sku |-> g.items[k].sku, sale |-> g.items[k].sale,
    sig |-> g.items[k].sig, seq |-> k - 1, deleted |-> FALSE] : k \in DOMAIN g.items}

(* Mutant of WithItems: an item that leaves the graph leaves the table. *)
WithItemsDeleted(g) == [rows EXCEPT !.items = ItemRows(WithSkus(g))]

(* applyItems *)
WithItems(g) ==
  LET gone == {i \in rows.items : i.id \notin Ids(Range(g.items))}
  IN  [rows EXCEPT !.items =
         {[i EXCEPT !.sale = "DENY", !.deleted = TRUE] : i \in gone} \cup ItemRows(WithSkus(g))]

(* Codes are looked up in the graph, not in the rows. *)
OptionOf(g, p) == CHOOSE o \in Range(g.options) : o.code = p[1]
ValueOf(g, p)  == CHOOSE v \in Range(OptionOf(g, p).values) : v.code = p[2]

SelectionRows(g) ==
  UNION {{[item |-> i.id, option |-> OptionOf(g, p).id, value |-> ValueOf(g, p).id] :
             p \in i.sel} : i \in Range(g.items)}

(* applyItemSelections *)
WithSelections(g) == [rows EXCEPT !.selections = SelectionRows(g)]

---------------------------------------------------------------------------------
(* The unique keys.  The rows of a flush are written in an order the       *)
(* database chooses, so a row must not meet another row's old value nor    *)
(* its new one.                                                            *)

Others(r, old, new) == {s \in old \cup new : s.id # r.id}

OptionsCollide(old, new) ==
  \E r \in new \ old : \E s \in Others(r, old, new) :
    \/ Compared(r.code) = Compared(s.code)
    \/ Compared(r.name) = Compared(s.name)
    \/ r.seq = s.seq

ValuesCollide(old, new) ==
  \E r \in new \ old : \E s \in Others(r, old, new) :
    /\ r.option = s.option
    /\ \/ Compared(r.code) = Compared(s.code)
       \/ Compared(r.name) = Compared(s.name)
       \/ r.seq = s.seq

ItemsCollide(old, new) ==
  \E r \in new \ old : \E s \in Others(r, old, new) :
    r.seq = s.seq \/ r.sig = s.sig \/ Compared(r.sku) = Compared(s.sku)

LabelsCollide(old, new) ==
  \E r \in new \ old : \E s \in Others(r, old, new) :
    r.kind = s.kind /\ (Compared(r.id) = Compared(s.id) \/ r.seq = s.seq)

(* An item has one value of an option. *)
SelectionsCollide(old, new) ==
  \E r \in new \ old, s \in old \cup new :
    r # s /\ r.item = s.item /\ r.option = s.option

Collides(old, new) ==
  \/ OptionsCollide(old.options, new.options)
  \/ ValuesCollide(old.values, new.values)
  \/ ItemsCollide(old.items, new.items)
  \/ SelectionsCollide(old.selections, new.selections)
  \/ LabelsCollide(old.labels, new.labels)

---------------------------------------------------------------------------------
(* The commands.                                                           *)

Told(kind, result) == outcome' = [kind |-> kind, result |-> result]

(* persistSnapshot and advanceRevision, with the payload of the rows r.    *)
Save(kind, source, p, r) ==
  /\ product' = p
  /\ rows' = r
  /\ history' = Append(history, [kind |-> kind, source |-> source,
                                 product |-> p, graph |-> GraphOf(r)])
  /\ Told(kind, "done")
  /\ UNCHANGED slugsTaken

Saleable(r) == \E i \in r.items : i.sale = "ALLOW" /\ ~i.deleted

(* assertSaleableWhenActive *)
Sound(p, r) == p.status = "ACTIVE" => Saleable(r)

Free == tx = NoTx /\ Revision < MaxRevision
Live == Free /\ Revision > 0 /\ ~product.deleted

(* A command ends without a change: refused, or by a unique key. *)
Fail(kind, result) ==
  /\ Told(kind, result)
  /\ UNCHANGED <<product, rows, history, tx, slugsTaken>>

(* Saves p with the rows as they are, unless another product has its slug. *)
SaveProduct(kind, p) ==
  \/ /\ p.slug \notin slugsTaken
     /\ Save(kind, 0, p, rows)
     /\ UNCHANGED tx
  \/ /\ p.slug \in slugsTaken
     /\ Fail(kind, "conflict")

Create ==
  /\ Free /\ Revision = 0
  /\ \E slug \in Slugs :
       SaveProduct("CREATE", [status |-> "DRAFT", deleted |-> FALSE, slug |-> slug])

(* Other texts of the product are left out: all may stay as it is.         *)
Update ==
  /\ Live
  /\ \E c \in Changes :
       LET p == [product EXCEPT !.status = c.status, !.slug = c.slug]
       IN  \/ Sound(p, rows) /\ SaveProduct("UPDATE", p)
           \/ ~Sound(p, rows) /\ Fail("UPDATE", "refused")

Delete ==
  /\ Live
  /\ Save("DELETE", 0, [product EXCEPT !.status = "CLOSED", !.deleted = TRUE], rows)
  /\ UNCHANGED tx

(* replaceGraph up to its first flush: the graph is validated and every    *)
(* part of it matched with its row before anything is written.             *)
Begin(kind, source, p, graph, requireExisting) ==
  LET g == Normal(graph)
  IN  \/ /\ Valid(g) /\ Resolvable(g, requireExisting)
         /\ tx' = [kind |-> kind, source |-> source, product |-> p,
                   graph |-> Resolved(g), phase |-> "stage", saved |-> rows]
         /\ UNCHANGED <<product, rows, history, outcome, slugsTaken>>
      \/ /\ ~(Valid(g) /\ Resolvable(g, requireExisting))
         /\ Fail(kind, "refused")

Edit(graph) == Begin("UPDATE", 0, product, graph, FALSE)

ReplaceCatalog == Live /\ \E d \in Drafts : Edit(d)

CurrentItems == GraphOf(rows).items
WithItemList(is) == [GraphOf(rows) EXCEPT !.items = is]

CreateItem ==
  /\ Live
  /\ \E d \in ItemDrafts : Edit(WithItemList(Append(CurrentItems, d)))

UpdateItem ==
  /\ Live
  /\ \E k \in DOMAIN CurrentItems, d \in ItemDrafts :
       Edit(WithItemList([CurrentItems EXCEPT ![k] = [d EXCEPT !.id = CurrentItems[k].id]]))

DeleteItem ==
  /\ Live
  /\ \E k \in DOMAIN CurrentItems : Edit(WithItemList(RemoveAt(CurrentItems, k)))

(* Mutant of Restore: the product stays deleted. *)
RestoreDeleted ==
  /\ Free /\ Revision > 0
  /\ \E r \in 1 .. Revision - 1 :
       Begin("RESTORE", r, [history[r].product EXCEPT !.deleted = product.deleted],
             history[r].graph, TRUE)

(* restore: a deleted product too; restoreFrom brings it back to life and  *)
(* to its old slug, which the first flush writes.                          *)
Restore ==
  /\ Free /\ Revision > 0
  /\ \E r \in 1 .. Revision - 1 :
       Begin("RESTORE", r, [history[r].product EXCEPT !.deleted = FALSE],
             history[r].graph, TRUE)

(* The transaction ends and leaves nothing. *)
RollBack(result) ==
  /\ rows' = tx.saved
  /\ tx' = NoTx
  /\ Told(tx.kind, result)
  /\ UNCHANGED <<product, history, slugsTaken>>

(* A flush writes the rows new, or meets a unique key.                     *)
Flush(phase, new, next) ==
  /\ tx # NoTx /\ tx.phase = phase
  /\ \/ /\ ~Collides(rows, new)
        /\ rows' = new
        /\ tx' = [tx EXCEPT !.phase = next]
        /\ UNCHANGED <<product, history, outcome, slugsTaken>>
     \/ /\ Collides(rows, new)
        /\ RollBack("conflict")

(* The first flush writes the product too. *)
Stage ==
  \/ /\ tx # NoTx /\ tx.product.slug \notin slugsTaken
     /\ Flush("stage", Staged(tx.graph), "remove")
  \/ /\ tx # NoTx /\ tx.phase = "stage"
     /\ tx.product.slug \in slugsTaken
     /\ RollBack("conflict")

RemoveUnused   == Flush("remove", Trimmed(tx.graph), "options")
ApplyOptions   == Flush("options", WithOptions(tx.graph), "items")
ApplyItems     == Flush("items", WithItems(tx.graph), "selections")
ApplySelections == Flush("selections", WithSelections(tx.graph), "commit")

Commit ==
  /\ tx # NoTx /\ tx.phase = "commit"
  /\ \/ /\ Sound(tx.product, rows)
        /\ Save(tx.kind, tx.source, tx.product, rows)
        /\ tx' = NoTx
     \/ /\ ~Sound(tx.product, rows)
        /\ RollBack("refused")

(* The process or its connection dies between two flushes.                 *)
Crash == tx # NoTx /\ RollBack("crashed")

(* Another product gives up its slug, or takes one.  It waits for the row  *)
(* of the key where this product has written it and not yet committed.     *)
OtherProducts ==
  /\ \E slug \in Slugs :
       \/ /\ slug \in slugsTaken
          /\ slugsTaken' = slugsTaken \ {slug}
       \/ /\ Revision > 0 => slug # product.slug
          /\ tx # NoTx => tx.phase = "stage" \/ slug # tx.product.slug
          /\ slugsTaken' = slugsTaken \cup {slug}
  /\ UNCHANGED <<product, rows, history, tx, outcome>>

Init ==
  /\ product = NoProduct
  /\ rows = NoRows
  /\ history = <<>>
  /\ tx = NoTx
  /\ outcome = [kind |-> "CREATE", result |-> "done"]
  /\ slugsTaken \in SUBSET Slugs

Next ==
  \/ Create \/ Update \/ Delete
  \/ ReplaceCatalog \/ CreateItem \/ UpdateItem \/ DeleteItem \/ Restore
  \/ Stage \/ RemoveUnused \/ ApplyOptions \/ ApplyItems \/ ApplySelections
  \/ Commit \/ Crash
  \/ OtherProducts

Spec == Init /\ [][Next]_vars

---------------------------------------------------------------------------------
(* Properties.                                                             *)

EqualTexts(s, f) ==
  \E j, k \in DOMAIN s : j # k /\ Compared(s[j][f]) = Compared(s[k][f])

(* Two names, tags or SKUs are one text to the database, or a new item     *)
(* asks for a SKU some item has had.                                       *)
Clash(g, items) ==
  \/ EqualTexts(g.options, "name")
  \/ \E o \in Range(g.options) : EqualTexts(o.values, "name")
  \/ \E j, k \in DOMAIN g.tags : j # k /\ Compared(g.tags[j]) = Compared(g.tags[k])
  \/ \E k \in DOMAIN g.items :
       /\ g.items[k].sku # NoSku
       /\ \/ \E r \in items : r.id # g.items[k].id /\ Compared(r.sku) = Compared(g.items[k].sku)
          \/ \E j \in DOMAIN g.items :
               j # k /\ Compared(g.items[j].sku) = Compared(g.items[k].sku)

(* A command meets a unique key only when the graph it asks for can not be *)
(* stored at all, or its slug is another product's: the way there,         *)
(* whatever names, places and signatures are exchanged and whatever order  *)
(* the rows are written in, never does (product-catalog.writer.ts 72-101,  *)
(* 186-291).                                                               *)
ConflictsAreReal ==
  [][tx # NoTx /\ tx' = NoTx /\ outcome'.result = "conflict" =>
       Clash(tx.graph, tx.saved.items) \/ tx.product.slug \in slugsTaken]_vars

(* A stored revision can be restored from any later one, unless another    *)
(* product has taken its slug or the process dies: it is never refused,    *)
(* neither for its graph, for an item that is gone or for a SKU that is    *)
(* another, nor for any other unique key.  What is restored is that        *)
(* revision: the same rows with the same identities in the same places,    *)
(* under the same status and slug (product-command.service.ts 188-222).    *)
RestoreIsExact ==
  [][/\ outcome' # [kind |-> "RESTORE", result |-> "refused"]
     /\ tx # NoTx /\ tx' = NoTx /\ tx.kind = "RESTORE" /\ outcome'.result # "crashed" =>
          LET source == history[tx.source]
          IN  \/ /\ outcome'.result = "conflict"
                 /\ source.product.slug \in slugsTaken
              \/ /\ Revision' = Revision + 1
                 /\ history'[Revision'].graph = source.graph
                 /\ history'[Revision'].product = [source.product EXCEPT !.deleted = FALSE]]_vars

(* The five flushes end in the graph that was validated, and nothing of    *)
(* the graph before it or of the parking shows through; and a graph that   *)
(* is stored can be edited: read back from the rows it is valid, with one  *)
(* signature for each selection (product-catalog.writer.ts 302-441,        *)
(* catalog-graph-change.ts 13-59).                                         *)
GraphApplied ==
  LET g == GraphOf(rows) IN
  /\ tx # NoTx /\ tx.phase = "commit" =>
       /\ [g EXCEPT !.items = <<>>] = [tx.graph EXCEPT !.items = <<>>]
       /\ Len(g.items) = Len(tx.graph.items)
       /\ \A k \in DOMAIN g.items :
            LET i == tx.graph.items[k]
            IN  g.items[k] = [i EXCEPT !.sku = IF @ = NoSku THEN g.items[k].sku ELSE @]
  /\ tx = NoTx =>
       /\ Valid(g)
       /\ \A i \in Range(g.items) : i.sig = SignatureOf(i.sel)

(* The items as everyone but the open transaction sees them.               *)
Committed == IF tx = NoTx THEN rows.items ELSE tx.saved.items

(* An item that was ever stored is there for good, under the SKU it was    *)
(* stored with: order lines, stock and movements hang on it                *)
(* (product-catalog.writer.ts 160-164, 388-414).                           *)
ItemsKept ==
  [][\A i \in Committed : \E j \in Committed' : j.id = i.id /\ j.sku = i.sku]_vars

(* The product as ProductCatalog has it.                                   *)
SearchRow(h) ==
  [status |-> h.product.status, deleted |-> h.product.deleted,
   saleable |-> \E k \in DOMAIN h.graph.items : h.graph.items[k].sale = "ALLOW"]

Abstract == INSTANCE ProductCatalog WITH
  Products <- {1},
  NewStatuses <- Statuses,
  history  <- <<[r \in DOMAIN history |-> SearchRow(history[r])]>>

(* Each command does to the product what ProductCatalog, and with it the   *)
(* search, takes it to do: one revision more with one of the five effects, *)
(* or nothing at all when it is refused, conflicts or dies.                *)
ImplementsCatalog ==
  [][UNCHANGED history \/ Abstract!Command(1)]_<<[r \in DOMAIN history |->
                                                    SearchRow(history[r])]>>
===============================================================================
