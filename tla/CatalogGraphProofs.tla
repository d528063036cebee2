--------------------------- MODULE CatalogGraphProofs ---------------------------
(***************************************************************************)
(* The graph of a product, for every value of the constants.               *)
(*                                                                         *)
(* GraphInv says how far an open command has come.  From Begin on its      *)
(* graph is Complete: valid, and each part has a row id of its own, which  *)
(* needs that ids given anew are higher than any there ever was.  Each     *)
(* flush then brings one more kind of rows to what the graph says          *)
(* (Reached), and at the commit rows and graph are the same thing          *)
(* (Stored), so that reading the rows back gives the graph                 *)
(* (StoredIsGraph).  Items are treated apart: the table only grows, and    *)
(* an item's SKU is the row's, not the graph's (Labelled).                 *)
(*                                                                         *)
(* WriterInv says why the flushes meet no unique key.  The rows that are   *)
(* parked have names, codes, places and signatures away from all that is   *)
(* to come (Fitting), for which the tables must have room; the names are   *)
(* told apart when the options are written, the SKUs when the items are;   *)
(* and a revision that was stored once has passed all of this, so that its *)
(* restore can meet no key but that of its slug.                           *)
(***************************************************************************)
EXTENDS CatalogGraph, FiniteSetTheorems, WellFoundedInduction, TLAPS

-----------------------------------------------------------------------------
(* Numbering and sorting. *)

(* Rows numbered from 0 come out in the order of their numbers. *)
LEMMA InOrderNumbered ==
  ASSUME NEW n \in Nat, NEW f, DOMAIN f = 1 .. n,
         \A k \in 1 .. n : f[k].seq = k - 1
  PROVE  InOrder({f[k] : k \in 1 .. n}) = [k \in 1 .. n |-> f[k]]
<1> DEFINE S == {f[k] : k \in 1 .. n}
           Rank(r) == Cardinality({q \in S : q.seq < r.seq})
           Before(k) == {q \in S : q.seq < k - 1}
           first(k) == [j \in 1 .. k |-> f[j]]
<1>1. \A j, k \in 1 .. n : f[j] = f[k] => j = k
  OBVIOUS
<1>2. \A k \in 1 .. n : ExistsBijection(1 .. k, {f[j] : j \in 1 .. k})
  <2>1. SUFFICES ASSUME NEW k \in 1 .. n
                 PROVE  first(k) \in Bijection(1 .. k, {f[j] : j \in 1 .. k})
    BY DEF ExistsBijection
  <2>2. first(k) \in [1 .. k -> {f[j] : j \in 1 .. k}]
    OBVIOUS
  <2>3. \A i, j \in 1 .. k : first(k)[i] = first(k)[j] => i = j
    BY <1>1
  <2>4. \A t \in {f[j] : j \in 1 .. k} : \E i \in 1 .. k : first(k)[i] = t
    OBVIOUS
  <2>5. DOMAIN first(k) = 1 .. k
    OBVIOUS
  <2> HIDE DEF first
  <2> QED
    BY <2>2, <2>3, <2>4, <2>5 DEF Bijection, Injection, Surjection, IsInjective
<1>3. \A k \in 1 .. n : Cardinality({f[j] : j \in 1 .. k}) = k
  <2>1. SUFFICES ASSUME NEW k \in 1 .. n
                 PROVE  Cardinality({f[j] : j \in 1 .. k}) = k
    OBVIOUS
  <2>2. k \in Nat /\ ExistsBijection(1 .. k, {f[j] : j \in 1 .. k})
    BY <1>2
  <2> QED
    BY <2>2, FS_CountingElements
<1>4. Cardinality(S) = n
  <2>1. CASE n = 0
    BY <2>1, FS_EmptySet
  <2> QED
    BY <1>3, <2>1
<1>5. \A k \in 1 .. n : Cardinality(Before(k)) = k - 1
  <2>1. SUFFICES ASSUME NEW k \in 1 .. n
                 PROVE  Cardinality(Before(k)) = k - 1
    OBVIOUS
  <2>2. Before(k) = {f[j] : j \in 1 .. (k - 1)}
    <3>1. ASSUME NEW j \in 1 .. n, f[j].seq < k - 1
          PROVE  j \in 1 .. (k - 1)
      BY <3>1
    <3>2. ASSUME NEW j \in 1 .. (k - 1)
          PROVE  j \in 1 .. n /\ f[j].seq < k - 1
      OBVIOUS
    <3> QED
      BY <3>1, <3>2
  <2>3. CASE k = 1
    <3>1. Before(k) = {}
      BY <2>2, <2>3
    <3>2. k - 1 = 0 /\ Cardinality({}) = 0
      BY <2>3, FS_EmptySet
    <3> HIDE DEF Before
    <3> QED
      BY <3>1, <3>2
  <2>4. CASE k # 1
    <3>1. k - 1 \in 1 .. n
      BY <2>4
    <3> QED
      BY <1>3, <2>2, <3>1
  <2> QED
    BY <2>3, <2>4
<1>6. \A k \in 1 .. n : Rank(f[k]) = k - 1
  BY <1>5
<1>7. \A k \in 1 .. n : (CHOOSE r \in S : Rank(r) = k - 1) = f[k]
  <2> HIDE DEF Rank
  <2>1. SUFFICES ASSUME NEW k \in 1 .. n
                 PROVE  (CHOOSE r \in S : Rank(r) = k - 1) = f[k]
    OBVIOUS
  <2>2. \A r \in S : Rank(r) = k - 1 => r = f[k]
    <3>1. SUFFICES ASSUME NEW j \in 1 .. n, Rank(f[j]) = k - 1
                   PROVE  f[j] = f[k]
      OBVIOUS
    <3>2. j = k
      BY <1>6, <3>1
    <3> QED
      BY <3>2
  <2> QED
    BY <1>6, <2>2
<1>8. InOrder(S) = [k \in 1 .. n |-> CHOOSE r \in S : Rank(r) = k - 1]
  BY <1>4 DEF InOrder
<1>9. InOrder(S) = [k \in 1 .. n |-> f[k]]
  <2> HIDE DEF S, Rank
  <2> QED
    BY <1>7, <1>8
<1> QED
  BY <1>9
-----------------------------------------------------------------------------
(* The invariant. *)

Kinds   == {"CREATE", "UPDATE", "DELETE", "RESTORE"}
Phases  == {"stage", "remove", "options", "items", "selections", "commit"}
Product == [status : Statuses, deleted : BOOLEAN, slug : Slugs]
Snapshot == [kind : Kinds, source : Nat, product : Product, graph : Graphs]

(* No two parts of a graph are one row.                                    *)
OptionsIdentified(os) ==
  \A j, k \in DOMAIN os : os[k].id # 0 /\ (os[j].id = os[k].id => j = k)

ValuesIdentified(os) ==
  \A j, k \in DOMAIN os : \A v \in DOMAIN os[j].values, w \in DOMAIN os[k].values :
    /\ os[j].values[v].id # 0
    /\ os[j].values[v].id = os[k].values[w].id => j = k /\ v = w

ItemsIdentified(is) ==
  \A j, k \in DOMAIN is : is[k].id # 0 /\ (is[j].id = is[k].id => j = k)

Signed(is) == \A k \in DOMAIN is : is[k].sig = SignatureOf(is[k].sel)

(* A graph that may be stored: valid, and every part with its row.         *)
Complete(g) ==
  /\ g \in Graphs
  /\ Valid(g)
  /\ OptionsIdentified(g.options)
  /\ ValuesIdentified(g.options)
  /\ ItemsIdentified(g.items)
  /\ Signed(g.items)

LiveItems(r) == {i \in r.items : ~i.deleted}

(* The rows r are the graph g. *)
Stored(r, g) ==
  /\ r.options = OptionRows(g)
  /\ r.values = AllValueRows(g)
  /\ r.labels = LabelRows(g)
  /\ LiveItems(r) = ItemRows(g)
  /\ r.selections = SelectionRows(g)

(* What holds of the table of items in every phase. *)
ItemTable(S) ==
  /\ IsFiniteSet(Ids(S))
  /\ \A i \in S :
       /\ i = [id |-> i.id, sku |-> i.sku, sale |-> i.sale, sig |-> i.sig,
               seq |-> i.seq, deleted |-> i.deleted]
       /\ i.id \in Nat /\ i.sku \in Text
  /\ \A i, j \in S : i.id = j.id => i = j
  /\ \A i, j \in S : i.id # j.id => Compared(i.sku) # Compared(j.sku)

(* Every item of S is in T, under its SKU. *)
Kept(S, T) == \A i \in S : \E j \in T : j.id = i.id /\ j.sku = i.sku

EmptyGraph == [options |-> <<>>, items |-> <<>>, categories |-> <<>>, tags |-> <<>>]

CurrentGraph  == IF Revision = 0 THEN EmptyGraph ELSE history[Revision].graph
CommittedRows == IF tx = NoTx THEN rows ELSE tx.saved

(* Revision r is an earlier one again, and alive. *)
Restored(r) ==
  /\ history[r].source \in 1 .. r - 1
  /\ history[r].graph = history[history[r].source].graph
  /\ history[r].product = [history[history[r].source].product EXCEPT !.deleted = FALSE]

HistoryInv ==
  /\ history \in Seq(Snapshot)
  /\ \A r \in DOMAIN history : Complete(history[r].graph)
  /\ \A r \in DOMAIN history : history[r].kind = "RESTORE" => Restored(r)
  /\ product = IF Revision = 0 THEN NoProduct ELSE history[Revision].product

(* What every command leaves behind, and finds. *)
RowsInv ==
  /\ DOMAIN rows = Tables /\ DOMAIN CommittedRows = Tables
  /\ Revision = 0 => CommittedRows = NoRows
  /\ Stored(CommittedRows, CurrentGraph)
  /\ ItemTable(CommittedRows.items)
  /\ \A r \in DOMAIN history : Kept(Range(history[r].graph.items), CommittedRows.items)

(* A SKU that is asked for is the one the item has. *)
SkusAgree(is, S) ==
  \A k \in DOMAIN is : is[k].sku # NoSku => \A i \in S : i.id = is[k].id => i.sku = is[k].sku

Editing == tx.kind = "UPDATE" /\ tx.source = 0 /\ tx.product = product /\ ~product.deleted

Restoring ==
  /\ tx.kind = "RESTORE"
  /\ tx.source \in 1 .. Revision - 1
  /\ tx.product = [history[tx.source].product EXCEPT !.deleted = FALSE]
  /\ tx.graph = history[tx.source].graph

TxInv ==
  tx # NoTx =>
    /\ tx = [kind |-> tx.kind, source |-> tx.source, product |-> tx.product,
             graph |-> tx.graph, phase |-> tx.phase, saved |-> tx.saved]
    /\ tx.phase \in Phases
    /\ Revision \in 1 .. MaxRevision - 1
    /\ Complete(tx.graph)
    /\ SkusAgree(tx.graph.items, tx.saved.items)
    /\ Editing \/ Restoring

(* The graph with the SKUs its items have in S. *)
Labelled(g, S) ==
  [g EXCEPT !.items =
     [k \in DOMAIN g.items |-> [g.items[k] EXCEPT !.sku = TheRow(S, g.items[k].id).sku]]]

(* How far the flushes to the graph g have got in the given phase, where r *)
(* are the rows and items the table of items they began with.              *)
Reached(r, g, items, phase) ==
  /\ DOMAIN r = Tables
  /\ ItemTable(r.items)
  /\ Kept(items, r.items)
  /\ phase \in {"stage", "remove", "options", "items"} => Kept(r.items, items)
  /\ phase = "options" =>
       /\ \A o \in r.options : o.id \in Ids(Range(g.options))
       /\ \A v \in r.values : v.id \in ValueIds(g)
       /\ \A l \in r.labels : \E m \in LabelRows(g) : m.kind = l.kind /\ m.id = l.id
  /\ phase \in {"items", "selections", "commit"} =>
       /\ r.options = OptionRows(g)
       /\ r.values = AllValueRows(g)
       /\ r.labels = LabelRows(g)
  /\ phase \in {"selections", "commit"} =>
       /\ LiveItems(r) = ItemRows(Labelled(g, r.items))
       /\ SkusAgree(g.items, r.items)
  /\ phase = "commit" => r.selections = SelectionRows(g)

PhaseInv == tx # NoTx => Reached(rows, tx.graph, tx.saved.items, tx.phase)

GraphInv == HistoryInv /\ RowsInv /\ TxInv /\ PhaseInv

-----------------------------------------------------------------------------
(* Rows that store a graph give it back. *)

LEMMA OptionsInOrder ==
  ASSUME NEW g \in Graphs
  PROVE  InOrder(OptionRows(g)) =
           [k \in DOMAIN g.options |->
              [id |-> g.options[k].id, code |-> g.options[k].code, name |-> g.options[k].name,
               required |-> g.options[k].required, seq |-> k - 1]]
<1> DEFINE n == Len(g.options)
           f == [k \in 1 .. n |->
                   [id |-> g.options[k].id, code |-> g.options[k].code,
                    name |-> g.options[k].name, required |-> g.options[k].required,
                    seq |-> k - 1]]
<1>1. n \in Nat /\ DOMAIN g.options = 1 .. n
  BY DEF Graphs
<1>2. DOMAIN f = 1 .. n /\ \A k \in 1 .. n : f[k].seq = k - 1
  OBVIOUS
<1>3. OptionRows(g) = {f[k] : k \in 1 .. n}
  BY <1>1 DEF OptionRows
<1>4. f = [k \in 1 .. n |-> f[k]]
  OBVIOUS
<1>5. InOrder({f[k] : k \in 1 .. n}) = f
  <2> HIDE DEF f, n
  <2> QED
    BY <1>1, <1>2, <1>4, InOrderNumbered
<1> QED
  BY <1>1, <1>3, <1>5

LEMMA ValuesInOrder ==
  ASSUME NEW o \in CatalogOption
  PROVE  InOrder(ValueRows(o)) =
           [k \in DOMAIN o.values |->
              [id |-> o.values[k].id, option |-> o.id, code |-> o.values[k].code,
               name |-> o.values[k].name, seq |-> k - 1]]
<1> DEFINE n == Len(o.values)
           f == [k \in 1 .. n |->
                   [id |-> o.values[k].id, option |-> o.id, code |-> o.values[k].code,
                    name |-> o.values[k].name, seq |-> k - 1]]
<1>1. n \in Nat /\ DOMAIN o.values = 1 .. n
  BY DEF CatalogOption
<1>2. DOMAIN f = 1 .. n /\ \A k \in 1 .. n : f[k].seq = k - 1
  OBVIOUS
<1>3. ValueRows(o) = {f[k] : k \in 1 .. n}
  BY <1>1 DEF ValueRows
<1>4. f = [k \in 1 .. n |-> f[k]]
  OBVIOUS
<1>5. InOrder({f[k] : k \in 1 .. n}) = f
  <2> HIDE DEF f, n
  <2> QED
    BY <1>1, <1>2, <1>4, InOrderNumbered
<1> QED
  BY <1>1, <1>3, <1>5

LEMMA ItemsInOrder ==
  ASSUME NEW g \in Graphs
  PROVE  InOrder(ItemRows(g)) =
           [k \in DOMAIN g.items |->
              [id |-> g.items[k].id, sku |-> g.items[k].sku, sale |-> g.items[k].sale,
               sig |-> g.items[k].sig, seq |-> k - 1, deleted |-> FALSE]]
<1> DEFINE n == Len(g.items)
           f == [k \in 1 .. n |->
                   [id |-> g.items[k].id, sku |-> g.items[k].sku, sale |-> g.items[k].sale,
                    sig |-> g.items[k].sig, seq |-> k - 1, deleted |-> FALSE]]
<1>1. n \in Nat /\ DOMAIN g.items = 1 .. n
  BY DEF Graphs
<1>2. DOMAIN f = 1 .. n /\ \A k \in 1 .. n : f[k].seq = k - 1
  OBVIOUS
<1>3. ItemRows(g) = {f[k] : k \in 1 .. n}
  BY <1>1 DEF ItemRows
<1>4. f = [k \in 1 .. n |-> f[k]]
  OBVIOUS
<1>5. InOrder({f[k] : k \in 1 .. n}) = f
  <2> HIDE DEF f, n
  <2> QED
    BY <1>1, <1>2, <1>4, InOrderNumbered
<1> QED
  BY <1>1, <1>3, <1>5

LEMMA NumberedLabels ==
  ASSUME NEW T, NEW s \in Seq(T), NEW kind
  PROVE  Field(InOrder({[kind |-> kind, id |-> s[k], seq |-> k - 1] : k \in DOMAIN s}), "id") = s
<1> DEFINE n == Len(s)
           f == [k \in 1 .. n |-> [kind |-> kind, id |-> s[k], seq |-> k - 1]]
<1>1. n \in Nat /\ DOMAIN s = 1 .. n /\ s = [k \in 1 .. n |-> s[k]]
  OBVIOUS
<1>2. DOMAIN f = 1 .. n /\ \A k \in 1 .. n : f[k].seq = k - 1
  OBVIOUS
<1>3. {[kind |-> kind, id |-> s[k], seq |-> k - 1] : k \in DOMAIN s} = {f[k] : k \in 1 .. n}
  BY <1>1
<1>4. f = [k \in 1 .. n |-> f[k]]
  OBVIOUS
<1>5. InOrder({f[k] : k \in 1 .. n}) = f
  <2> HIDE DEF f, n
  <2> QED
    BY <1>1, <1>2, <1>4, InOrderNumbered
<1>6. Field(f, "id") = [k \in 1 .. n |-> s[k]]
  BY DEF Field
<1> QED
  BY <1>1, <1>3, <1>5, <1>6

LEMMA LabelsStored ==
  ASSUME NEW g \in Graphs, NEW r, r.labels = LabelRows(g)
  PROVE  Labels(r, "category") = g.categories /\ Labels(r, "tag") = g.tags
<1>1. {l \in r.labels : l.kind = "category"}
        = {[kind |-> "category", id |-> g.categories[k], seq |-> k - 1] : k \in DOMAIN g.categories}
  BY DEF LabelRows
<1>2. {l \in r.labels : l.kind = "tag"}
        = {[kind |-> "tag", id |-> g.tags[k], seq |-> k - 1] : k \in DOMAIN g.tags}
  BY DEF LabelRows
<1>3. g.categories \in Seq(Codes) /\ g.tags \in Seq(Text)
  BY DEF Graphs
<1> DEFINE numbered(s, kind) == {[kind |-> kind, id |-> s[k], seq |-> k - 1] : k \in DOMAIN s}
<1>4. \A T : \A s \in Seq(T), kind \in {"category", "tag"} : Field(InOrder(numbered(s, kind)), "id") = s
  BY NumberedLabels
<1>5. /\ Labels(r, "category") = Field(InOrder(numbered(g.categories, "category")), "id")
      /\ Labels(r, "tag") = Field(InOrder(numbered(g.tags, "tag")), "id")
  BY <1>1, <1>2 DEF Labels
<1> HIDE DEF numbered
<1> QED
  BY <1>3, <1>4, <1>5

LEMMA ValuesStored ==
  ASSUME NEW g \in Graphs, OptionsIdentified(g.options), NEW r, r.values = AllValueRows(g),
         NEW k \in DOMAIN g.options
  PROVE  ValuesOf(r, g.options[k].id) = ValueRows(g.options[k])
<1>1. ASSUME NEW v \in r.values, v.option = g.options[k].id
      PROVE  v \in ValueRows(g.options[k])
  <2>1. PICK j \in DOMAIN g.options : v \in ValueRows(g.options[j])
    BY DEF AllValueRows, Range
  <2>2. v.option = g.options[j].id
    BY <2>1 DEF ValueRows
  <2>3. j = k
    BY <1>1, <2>2 DEF OptionsIdentified
  <2> QED
    BY <2>1, <2>3
<1>2. ASSUME NEW v \in ValueRows(g.options[k])
      PROVE  v \in r.values /\ v.option = g.options[k].id
  BY DEF AllValueRows, Range, ValueRows
<1> QED
  BY <1>1, <1>2 DEF ValuesOf

LEMMA FieldDiffers ==
  ASSUME NEW s, NEW f, IsInjective(Field(s, f)),
         NEW j \in DOMAIN s, NEW k \in DOMAIN s, s[j][f] = s[k][f]
  PROVE  j = k
<1>1. DOMAIN Field(s, f) = DOMAIN s /\ Field(s, f)[j] = s[j][f] /\ Field(s, f)[k] = s[k][f]
  BY DEF Field
<1> QED
  BY <1>1 DEF IsInjective

(* The code a selection was looked up by is the code of the rows found.    *)
LEMMA OptionFound ==
  ASSUME NEW g, Complete(g), NEW r, Stored(r, g), NEW k \in DOMAIN g.options
  PROVE  TheRow(r.options, g.options[k].id).code = g.options[k].code
<1> DEFINE row == [id |-> g.options[k].id, code |-> g.options[k].code, name |-> g.options[k].name,
                   required |-> g.options[k].required, seq |-> k - 1]
<1>1. row \in r.options
  BY DEF Stored, OptionRows
<1>2. ASSUME NEW o \in r.options, o.id = g.options[k].id
      PROVE  o = row
  <2>1. PICK j \in DOMAIN g.options :
          o = [id |-> g.options[j].id, code |-> g.options[j].code, name |-> g.options[j].name,
               required |-> g.options[j].required, seq |-> j - 1]
    BY DEF Stored, OptionRows
  <2>2. j = k
    BY <1>2, <2>1 DEF Complete, OptionsIdentified
  <2> QED
    BY <2>1, <2>2
<1>3. TheRow(r.options, g.options[k].id) = row
  <2>1. row.id = g.options[k].id
    OBVIOUS
  <2> HIDE DEF row
  <2> QED
    BY <1>1, <1>2, <2>1 DEF TheRow
<1> QED
  BY <1>3

LEMMA ValueFound ==
  ASSUME NEW g, Complete(g), NEW r, Stored(r, g),
         NEW k \in DOMAIN g.options, NEW v \in DOMAIN g.options[k].values
  PROVE  TheRow(r.values, g.options[k].values[v].id).code = g.options[k].values[v].code
<1> DEFINE row == [id |-> g.options[k].values[v].id, option |-> g.options[k].id,
                   code |-> g.options[k].values[v].code, name |-> g.options[k].values[v].name,
                   seq |-> v - 1]
<1>1. row \in r.values
  <2>1. row \in ValueRows(g.options[k])
    BY DEF ValueRows
  <2> QED
    BY <2>1 DEF Stored, AllValueRows, Range
<1>2. ASSUME NEW x \in r.values, x.id = g.options[k].values[v].id
      PROVE  x = row
  <2>1. PICK j \in DOMAIN g.options : x \in ValueRows(g.options[j])
    BY DEF Stored, AllValueRows, Range
  <2>2. PICK w \in DOMAIN g.options[j].values :
          x = [id |-> g.options[j].values[w].id, option |-> g.options[j].id,
               code |-> g.options[j].values[w].code, name |-> g.options[j].values[w].name,
               seq |-> w - 1]
    BY <2>1 DEF ValueRows
  <2>3. j = k /\ w = v
    BY <1>2, <2>2 DEF Complete, ValuesIdentified
  <2> QED
    BY <2>2, <2>3
<1>3. TheRow(r.values, g.options[k].values[v].id) = row
  <2>1. row.id = g.options[k].values[v].id
    OBVIOUS
  <2> HIDE DEF row
  <2> QED
    BY <1>1, <1>2, <2>1 DEF TheRow
<1> QED
  BY <1>3

(* Where a selection is found in the graph.                                *)
LEMMA SelectionPlace ==
  ASSUME NEW g, Complete(g), NEW i \in DOMAIN g.items, NEW p \in g.items[i].sel
  PROVE  \E k \in DOMAIN g.options : \E v \in DOMAIN g.options[k].values :
           /\ g.options[k].code = p[1] /\ OptionOf(g, p) = g.options[k]
           /\ g.options[k].values[v].code = p[2] /\ ValueOf(g, p) = g.options[k].values[v]
<1>1. ValidSelection(g.items[i].sel, g.options) /\ ValidOptions(g.options)
  BY DEF Complete, Valid, ValidItems
<1>2. PICK k \in DOMAIN g.options :
        g.options[k].code = p[1] /\ \E v \in DOMAIN g.options[k].values : g.options[k].values[v].code = p[2]
  BY <1>1 DEF ValidSelection
<1>3. PICK v \in DOMAIN g.options[k].values : g.options[k].values[v].code = p[2]
  BY <1>2
<1>4. \A j \in DOMAIN g.options : g.options[j].code = p[1] => j = k
  BY <1>1, <1>2, FieldDiffers DEF ValidOptions
<1>5. OptionOf(g, p) = g.options[k]
  BY <1>2, <1>4 DEF OptionOf, Range
<1>6. \A w \in DOMAIN g.options[k].values : g.options[k].values[w].code = p[2] => w = v
  BY <1>1, <1>3, FieldDiffers DEF ValidOptions
<1>7. ValueOf(g, p) = g.options[k].values[v]
  BY <1>3, <1>5, <1>6 DEF ValueOf, Range
<1> QED
  BY <1>2, <1>3, <1>5, <1>7

LEMMA SelectionsStored ==
  ASSUME NEW g, Complete(g), NEW r, Stored(r, g), NEW i \in DOMAIN g.items
  PROVE  Selected(r, g.items[i].id) = g.items[i].sel
<1> DEFINE Sel(j, p) == [item |-> g.items[j].id, option |-> OptionOf(g, p).id,
                         value |-> ValueOf(g, p).id]
           CodesOf(s) == <<TheRow(r.options, s.option).code, TheRow(r.values, s.value).code>>
<1>1. \A p \in g.items[i].sel : p = <<p[1], p[2]>>
  <2>1. g.items \in Seq(CatalogItem)
    BY DEF Complete, Graphs
  <2>2. g.items[i] \in CatalogItem
    BY <2>1
  <2>3. g.items[i].sel \in SUBSET (Codes \X Codes)
    BY <2>2 DEF CatalogItem, Selection
  <2> QED
    BY <2>3
<1>2. ASSUME NEW p \in g.items[i].sel
      PROVE  CodesOf(Sel(i, p)) = p
  <2>1. PICK k \in DOMAIN g.options : \E v \in DOMAIN g.options[k].values :
           /\ g.options[k].code = p[1] /\ OptionOf(g, p) = g.options[k]
           /\ g.options[k].values[v].code = p[2] /\ ValueOf(g, p) = g.options[k].values[v]
    BY SelectionPlace
  <2>2. PICK v \in DOMAIN g.options[k].values :
           /\ g.options[k].code = p[1] /\ OptionOf(g, p) = g.options[k]
           /\ g.options[k].values[v].code = p[2] /\ ValueOf(g, p) = g.options[k].values[v]
    BY <2>1
  <2>3. TheRow(r.options, g.options[k].id).code = p[1]
    BY <2>2, OptionFound
  <2>4. TheRow(r.values, g.options[k].values[v].id).code = p[2]
    BY <2>2, ValueFound
  <2> QED
    BY <1>1, <2>2, <2>3, <2>4
<1>3. {s \in r.selections : s.item = g.items[i].id} = {Sel(i, p) : p \in g.items[i].sel}
  <2>1. ASSUME NEW s \in r.selections, s.item = g.items[i].id
        PROVE  s \in {Sel(i, p) : p \in g.items[i].sel}
    <3>1. PICK j \in DOMAIN g.items : s \in {Sel(j, p) : p \in g.items[j].sel}
      BY DEF Stored, SelectionRows, Range
    <3>2. s.item = g.items[j].id
      BY <3>1
    <3>3. j = i
      BY <2>1, <3>2 DEF Complete, ItemsIdentified
    <3> QED
      BY <3>1, <3>3
  <2>2. ASSUME NEW p \in g.items[i].sel
        PROVE  Sel(i, p) \in r.selections /\ Sel(i, p).item = g.items[i].id
    BY DEF Stored, SelectionRows, Range
  <2> QED
    BY <2>1, <2>2
<1>4. Selected(r, g.items[i].id) = {CodesOf(s) : s \in {s \in r.selections : s.item = g.items[i].id}}
  BY DEF Selected
<1>5. {CodesOf(s) : s \in {Sel(i, p) : p \in g.items[i].sel}} = g.items[i].sel
  <2> HIDE DEF CodesOf, Sel
  <2> QED
    BY <1>2
<1> QED
  BY <1>3, <1>4, <1>5

LEMMA SeqElements ==
  ASSUME NEW S, NEW s \in Seq(S)
  PROVE  /\ s = [k \in DOMAIN s |-> s[k]]
         /\ \A k \in DOMAIN s : s[k] \in S
OBVIOUS

LEMMA SameLength ==
  ASSUME NEW S, NEW s \in Seq(S), NEW t \in Seq(S), DOMAIN s = DOMAIN t
  PROVE  Len(s) = Len(t)
<1> DEFINE m == Len(s)
           n == Len(t)
<1>1. m \in Nat /\ n \in Nat /\ DOMAIN s = 1 .. m /\ DOMAIN t = 1 .. n
  OBVIOUS
<1>2. 1 .. m = 1 .. n
  BY <1>1
<1> HIDE DEF m, n
<1>3. m = n
  BY <1>1, <1>2
<1> QED
  BY <1>3 DEF m, n

LEMMA OptionFields ==
  ASSUME NEW o \in CatalogOption
  PROVE  /\ o = [id |-> o.id, code |-> o.code, name |-> o.name,
                required |-> o.required, values |-> o.values]
         /\ o.id \in Nat /\ o.values \in Seq(CatalogOptionValue)
BY DEF CatalogOption

LEMMA ValueFields ==
  ASSUME NEW v \in CatalogOptionValue
  PROVE  v = [id |-> v.id, code |-> v.code, name |-> v.name] /\ v.id \in Nat
BY DEF CatalogOptionValue

LEMMA ItemFields ==
  ASSUME NEW i \in CatalogItem
  PROVE  /\ i = [id |-> i.id, sku |-> i.sku, sale |-> i.sale, sig |-> i.sig, sel |-> i.sel]
         /\ i.id \in Nat
BY DEF CatalogItem

LEMMA StoredIsGraph ==
  ASSUME NEW g, Complete(g), NEW r, Stored(r, g)
  PROVE  GraphOf(r) = g
<1> DEFINE
      values(o) == LET vs == InOrder(ValuesOf(r, o.id))
                   IN  [k \in DOMAIN vs |->
                          [id |-> vs[k].id, code |-> vs[k].code, name |-> vs[k].name]]
      os == InOrder(r.options)
      is == InOrder({i \in r.items : ~i.deleted})
      theOptions == [k \in DOMAIN os |->
                       [id |-> os[k].id, code |-> os[k].code, name |-> os[k].name,
                        required |-> os[k].required, values |-> values(os[k])]]
      theItems == [k \in DOMAIN is |->
                     [id |-> is[k].id, sku |-> is[k].sku, sale |-> is[k].sale,
                      sig |-> is[k].sig, sel |-> Selected(r, is[k].id)]]
<1>0. g \in Graphs /\ OptionsIdentified(g.options)
  BY DEF Complete
<1>1. GraphOf(r) = [options |-> theOptions, items |-> theItems,
                    categories |-> Labels(r, "category"), tags |-> Labels(r, "tag")]
  BY DEF GraphOf
<1>2. g = [options |-> g.options, items |-> g.items,
           categories |-> g.categories, tags |-> g.tags]
  BY <1>0 DEF Graphs
<1>3. Labels(r, "category") = g.categories /\ Labels(r, "tag") = g.tags
  BY <1>0, LabelsStored DEF Stored
<1>4. theOptions = g.options
  <2>1. os = [k \in DOMAIN g.options |->
               [id |-> g.options[k].id, code |-> g.options[k].code, name |-> g.options[k].name,
                required |-> g.options[k].required, seq |-> k - 1]]
    BY <1>0, OptionsInOrder DEF Stored
  <2>2. g.options \in Seq(CatalogOption)
    BY <1>0 DEF Graphs
  <2>3. \A k \in DOMAIN g.options : values(os[k]) = g.options[k].values
    <3>1. SUFFICES ASSUME NEW k \in DOMAIN g.options
                   PROVE  values(os[k]) = g.options[k].values
      OBVIOUS
    <3>2. g.options[k] \in CatalogOption
      BY <2>2
    <3>3. os[k].id = g.options[k].id
      BY <2>1
    <3>4. InOrder(ValuesOf(r, os[k].id)) =
            [v \in DOMAIN g.options[k].values |->
              [id |-> g.options[k].values[v].id, option |-> g.options[k].id,
               code |-> g.options[k].values[v].code, name |-> g.options[k].values[v].name,
               seq |-> v - 1]]
      BY <1>0, <3>2, <3>3, ValuesStored, ValuesInOrder DEF Stored
    <3> DEFINE vs == InOrder(ValuesOf(r, os[k].id))
               to == g.options[k].values
    <3>a. vs = [v \in DOMAIN to |->
                 [id |-> to[v].id, option |-> g.options[k].id,
                  code |-> to[v].code, name |-> to[v].name, seq |-> v - 1]]
      BY <3>4
    <3>b. values(os[k]) = [v \in DOMAIN vs |-> [id |-> vs[v].id, code |-> vs[v].code, name |-> vs[v].name]]
      OBVIOUS
    <3>c. to = g.options[k].values
      OBVIOUS
    <3> HIDE DEF vs, to, values
    <3>5. /\ DOMAIN vs = DOMAIN to
          /\ \A v \in DOMAIN to : vs[v].id = to[v].id /\ vs[v].code = to[v].code /\ vs[v].name = to[v].name
      BY <3>a
    <3>6. to \in Seq(CatalogOptionValue)
      BY <3>2, <3>c, OptionFields
    <3>7. to = [v \in DOMAIN to |-> [id |-> to[v].id, code |-> to[v].code, name |-> to[v].name]]
      BY <3>6, SeqElements, ValueFields
    <3>9. values(os[k]) = to
      BY <3>5, <3>7, <3>b
    <3> QED
      BY <3>9, <3>c
  <2>4. \A k \in DOMAIN g.options :
          g.options[k] = [id |-> g.options[k].id, code |-> g.options[k].code,
                          name |-> g.options[k].name, required |-> g.options[k].required,
                          values |-> g.options[k].values]
    BY <2>2, SeqElements, OptionFields
  <2>5. theOptions = [k \in DOMAIN os |->
                       [id |-> os[k].id, code |-> os[k].code, name |-> os[k].name,
                        required |-> os[k].required, values |-> values(os[k])]]
    OBVIOUS
  <2> HIDE DEF values, os, theOptions
  <2>6. DOMAIN os = DOMAIN g.options
    BY <2>1
  <2>7. \A k \in DOMAIN g.options :
          /\ os[k].id = g.options[k].id /\ os[k].code = g.options[k].code
          /\ os[k].name = g.options[k].name /\ os[k].required = g.options[k].required
    BY <2>1
  <2>8. \A k \in DOMAIN g.options :
          [id |-> os[k].id, code |-> os[k].code, name |-> os[k].name,
           required |-> os[k].required, values |-> values(os[k])] = g.options[k]
    BY <2>3, <2>4, <2>7
  <2>9. theOptions = [k \in DOMAIN g.options |-> g.options[k]]
    BY <2>5, <2>6, <2>8
  <2> QED
    BY <2>2, <2>9, SeqElements
<1>5. theItems = g.items
  <2>1. is = [k \in DOMAIN g.items |->
               [id |-> g.items[k].id, sku |-> g.items[k].sku, sale |-> g.items[k].sale,
                sig |-> g.items[k].sig, seq |-> k - 1, deleted |-> FALSE]]
    BY <1>0, ItemsInOrder DEF Stored, LiveItems
  <2>2. g.items \in Seq(CatalogItem)
    BY <1>0 DEF Graphs
  <2>3. \A k \in DOMAIN g.items : Selected(r, g.items[k].id) = g.items[k].sel
    BY SelectionsStored
  <2>4. \A k \in DOMAIN g.items :
          g.items[k] = [id |-> g.items[k].id, sku |-> g.items[k].sku, sale |-> g.items[k].sale,
                        sig |-> g.items[k].sig, sel |-> g.items[k].sel]
    BY <2>2, SeqElements, ItemFields
  <2>5. theItems = [k \in DOMAIN is |->
                     [id |-> is[k].id, sku |-> is[k].sku, sale |-> is[k].sale,
                      sig |-> is[k].sig, sel |-> Selected(r, is[k].id)]]
    OBVIOUS
  <2> HIDE DEF is, theItems
  <2>6. DOMAIN is = DOMAIN g.items
    BY <2>1
  <2>7. \A k \in DOMAIN g.items :
          /\ is[k].id = g.items[k].id /\ is[k].sku = g.items[k].sku
          /\ is[k].sale = g.items[k].sale /\ is[k].sig = g.items[k].sig
    BY <2>1
  <2>8. \A k \in DOMAIN g.items :
          [id |-> is[k].id, sku |-> is[k].sku, sale |-> is[k].sale,
           sig |-> is[k].sig, sel |-> Selected(r, is[k].id)] = g.items[k]
    BY <2>3, <2>4, <2>7
  <2>9. theItems = [k \in DOMAIN g.items |-> g.items[k]]
    BY <2>5, <2>6, <2>8
  <2> QED
    BY <2>2, <2>9, SeqElements
<1> HIDE DEF theOptions, theItems
<1> QED
  BY <1>1, <1>2, <1>3, <1>4, <1>5

-----------------------------------------------------------------------------
(* Fresh ids. *)

(* A non-empty collection of subsets of a finite set has a smallest one. *)
LEMMA SmallestSubset ==
  ASSUME NEW S, IsFiniteSet(S), NEW W, W \subseteq SUBSET S, W # {}
  PROVE  \E V \in W : \A U \in W : U \subseteq V => U = V
<1>1. W \subseteq FiniteSubsetsOf(S)
  BY FS_FiniteSubsetsOfFinite
<1>2. PICK V \in W : \A U \in W : <<U, V>> \notin StrictSubsetOrdering(S)
  BY <1>1, FS_StrictSubsetOrderingWellFounded, WFMin
<1> QED
  BY <1>2 DEF StrictSubsetOrdering

(* A finite set of numbers has a highest one: nothing lies above the       *)
(* member with the fewest above it.                                        *)
LEMMA HighestOfFinite ==
  ASSUME NEW N, \A x \in N : x \in Nat, IsFiniteSet(N)
  PROVE  HighestOf(N) \in Nat /\ \A x \in N : x <= HighestOf(N)
<1> DEFINE Above(x) == {y \in N : y > x}
           Tops == {Above(x) : x \in N}
<1>1. CASE N = {}
  BY <1>1 DEF HighestOf
<1>2. CASE N # {}
  <2>a. IsFiniteSet(N) /\ Tops \subseteq SUBSET N
    OBVIOUS
  <2>b. Tops # {}
    BY <1>2
  <2>c. \E V \in Tops : \A U \in Tops : U \subseteq V => U = V
    <3> HIDE DEF Tops
    <3> QED
      BY <2>a, <2>b, SmallestSubset
  <2>1. PICK V \in Tops : \A U \in Tops : U \subseteq V => U = V
    BY <2>c
  <2>2. PICK x \in N : V = Above(x)
    BY <2>1
  <2>3. ASSUME NEW y \in N, y > x
        PROVE  FALSE
    <3>a. \A z \in N : z > y => z > x
      BY <2>3
    <3>1. Above(y) \subseteq Above(x)
      BY <3>a
    <3>2. Above(y) = Above(x)
      BY <2>1, <2>2, <3>1
    <3>3. y \in Above(x) /\ y \notin Above(y)
      BY <2>3
    <3> QED
      BY <3>2, <3>3
  <2>4. \A y \in N : x >= y
    BY <2>3
  <2>5. \E z \in N : \A y \in N : z >= y
    BY <2>4
  <2>6. Max(N) \in N /\ \A y \in N : Max(N) >= y
    BY <2>5 DEF Max
  <2> QED
    BY <1>2, <2>6 DEF HighestOf
<1> QED
  BY <1>1, <1>2

(* The ids of a finite list of parts. *)
LEMMA ListedIdsFinite ==
  ASSUME NEW s, IsFiniteSet(DOMAIN s)
  PROVE  IsFiniteSet(Range(s)) /\ IsFiniteSet(Ids(Range(s)))
<1> DEFINE f == [k \in DOMAIN s |-> s[k]]
           h == [k \in DOMAIN s |-> s[k].id]
<1>1. f \in Surjection(DOMAIN s, Range(s))
  BY DEF Surjection, Range
<1>2. h \in Surjection(DOMAIN s, Ids(Range(s)))
  BY DEF Surjection, Range, Ids
<1> HIDE DEF f, h
<1> QED
  BY <1>1, <1>2, FS_Surjection

LEMMA ListFinite ==
  ASSUME NEW S, NEW s \in Seq(S)
  PROVE  IsFiniteSet(DOMAIN s)
<1>1. Len(s) \in Nat /\ DOMAIN s = 1 .. Len(s)
  OBVIOUS
<1>2. IsFiniteSet(1 .. Len(s))
  BY <1>1, FS_Interval
<1> QED
  BY <1>1, <1>2

(* A part of a set without one of its members counts less. *)
LEMMA PartCountsLess ==
  ASSUME NEW B, IsFiniteSet(B), NEW A, A \subseteq B, NEW x \in B, x \notin A
  PROVE  Cardinality(A) \in Nat /\ Cardinality(B) \in Nat /\ Cardinality(A) < Cardinality(B)
<1>1. A \in SUBSET B /\ A # B
  OBVIOUS
<1>2. /\ IsFiniteSet(A) /\ Cardinality(A) <= Cardinality(B)
      /\ Cardinality(B) = Cardinality(A) => B = A
  BY <1>1, FS_Subset
<1>3. Cardinality(A) \in Nat /\ Cardinality(B) \in Nat
  BY <1>2, FS_CardinalityType
<1> QED
  BY <1>1, <1>2, <1>3

(* A set counted with one of its members in it is not empty. *)
LEMMA CountPositive ==
  ASSUME NEW F, IsFiniteSet(F), NEW x \in F
  PROVE  Cardinality(F) \in Nat /\ Cardinality(F) # 0
<1>1. F # {}
  OBVIOUS
<1> QED
  BY <1>1, FS_EmptySet, FS_CardinalityType

LEMMA UnionFinite ==
  ASSUME NEW f, IsFiniteSet(DOMAIN f), \A x \in DOMAIN f : IsFiniteSet(f[x])
  PROVE  IsFiniteSet(UNION {f[x] : x \in DOMAIN f})
<1> DEFINE T == {f[x] : x \in DOMAIN f}
           h == [x \in DOMAIN f |-> f[x]]
<1>1. h \in Surjection(DOMAIN f, T)
  BY DEF Surjection
<1>2. \A S \in T : IsFiniteSet(S)
  OBVIOUS
<1> HIDE DEF T, h
<1>3. IsFiniteSet(T)
  BY <1>1, FS_Surjection
<1>4. IsFiniteSet(UNION T)
  BY <1>2, <1>3, FS_UNION
<1> QED
  BY <1>4 DEF T

LEMMA ValueIdsFinite ==
  ASSUME NEW g \in Graphs
  PROVE  IsFiniteSet(ValueIds(g)) /\ \A n \in ValueIds(g) : n \in Nat
<1> DEFINE f == [k \in DOMAIN g.options |-> Ids(Range(g.options[k].values))]
<1>1. g.options \in Seq(CatalogOption)
  BY DEF Graphs
<1>2. IsFiniteSet(DOMAIN g.options)
  BY <1>1, ListFinite
<1>3. \A k \in DOMAIN g.options : g.options[k].values \in Seq(CatalogOptionValue)
  BY <1>1, SeqElements, OptionFields
<1>4. \A k \in DOMAIN g.options : IsFiniteSet(Ids(Range(g.options[k].values)))
  <2>1. SUFFICES ASSUME NEW k \in DOMAIN g.options
                 PROVE  IsFiniteSet(Ids(Range(g.options[k].values)))
    OBVIOUS
  <2>2. IsFiniteSet(DOMAIN g.options[k].values)
    BY <1>3, ListFinite
  <2> QED
    BY <2>2, ListedIdsFinite
<1>5. DOMAIN f = DOMAIN g.options /\ \A k \in DOMAIN f : IsFiniteSet(f[k])
  BY <1>4
<1>6. ValueIds(g) = UNION {f[k] : k \in DOMAIN f}
  <2>1. Range(g.options) = {g.options[k] : k \in DOMAIN g.options}
    BY DEF Range
  <2>2. {Ids(Range(o.values)) : o \in Range(g.options)}
          = {Ids(Range(g.options[k].values)) : k \in DOMAIN g.options}
    BY <2>1
  <2>3. {Ids(Range(g.options[k].values)) : k \in DOMAIN g.options} = {f[k] : k \in DOMAIN f}
    OBVIOUS
  <2> QED
    BY <2>2, <2>3 DEF ValueIds
<1>7. \A n \in ValueIds(g) : n \in Nat
  BY <1>3, SeqElements, ValueFields DEF ValueIds, Range, Ids
<1> HIDE DEF f
<1>8. IsFiniteSet(UNION {f[k] : k \in DOMAIN f})
  BY <1>2, <1>5, UnionFinite
<1> QED
  BY <1>6, <1>7, <1>8

(* The ids that were ever given are finitely many, and the rows have       *)
(* theirs from among them.                                                 *)
LEMMA EverFinite ==
  ASSUME HistoryInv
  PROVE  /\ IsFiniteSet(EverOptions) /\ \A n \in EverOptions : n \in Nat
         /\ IsFiniteSet(EverValues) /\ \A n \in EverValues : n \in Nat
<1> DEFINE G(r) == history[r].graph
           f == [r \in DOMAIN history |-> Ids(Range(G(r).options))]
           h == [r \in DOMAIN history |-> ValueIds(G(r))]
<1>1. IsFiniteSet(DOMAIN history)
  BY ListFinite DEF HistoryInv
<1>2. \A r \in DOMAIN history : G(r) \in Graphs
  BY DEF HistoryInv, Complete
<1>3. EverOptions = UNION {f[r] : r \in DOMAIN f}
  BY DEF EverOptions
<1>4. EverValues = UNION {h[r] : r \in DOMAIN h}
  BY DEF EverValues, ValueIds
<1>5. ASSUME NEW r \in DOMAIN history
      PROVE  IsFiniteSet(f[r]) /\ \A n \in f[r] : n \in Nat
  <2>1. G(r).options \in Seq(CatalogOption)
    BY <1>2 DEF Graphs
  <2>2. IsFiniteSet(DOMAIN G(r).options)
    BY <2>1, ListFinite
  <2>3. IsFiniteSet(Ids(Range(G(r).options)))
    BY <2>2, ListedIdsFinite
  <2>4. \A n \in Ids(Range(G(r).options)) : n \in Nat
    BY <2>1, SeqElements, OptionFields DEF Ids, Range
  <2> QED
    BY <2>3, <2>4
<1>6. ASSUME NEW r \in DOMAIN history
      PROVE  IsFiniteSet(h[r]) /\ \A n \in h[r] : n \in Nat
  BY <1>2, ValueIdsFinite
<1>7. DOMAIN f = DOMAIN history /\ DOMAIN h = DOMAIN history
  OBVIOUS
<1> HIDE DEF f, h, G
<1>8. IsFiniteSet(UNION {f[r] : r \in DOMAIN f})
  BY <1>1, <1>5, <1>7, UnionFinite
<1>9. IsFiniteSet(UNION {h[r] : r \in DOMAIN h})
  BY <1>1, <1>6, <1>7, UnionFinite
<1> QED
  BY <1>3, <1>4, <1>5, <1>6, <1>7, <1>8, <1>9

-----------------------------------------------------------------------------
(* Matching the parts of a graph with their rows. *)

LEMMA EmptyComplete == Complete(EmptyGraph)
<1>1. EmptyGraph \in Graphs
  BY DEF EmptyGraph, Graphs
<1>2. /\ Limits.options \in Nat /\ Limits.items \in Nat
      /\ Limits.categories \in Nat /\ Limits.tags \in Nat
  BY RoomAssumption
<1>3. ValidOptions(EmptyGraph.options)
  BY <1>2 DEF EmptyGraph, ValidOptions, Field, IsInjective, GivenIdsDiffer
<1>4. ValidItems(EmptyGraph.items, EmptyGraph.options)
  BY <1>2 DEF EmptyGraph, ValidItems, Field, IsInjective, GivenIdsDiffer, GivenSkusDiffer
<1>5. /\ Len(EmptyGraph.categories) <= Limits.categories /\ IsInjective(EmptyGraph.categories)
      /\ Len(EmptyGraph.tags) <= Limits.tags /\ IsInjective(EmptyGraph.tags)
  BY <1>2 DEF EmptyGraph, IsInjective
<1> QED
  BY <1>1, <1>3, <1>4, <1>5
     DEF Complete, Valid, EmptyGraph, OptionsIdentified, ValuesIdentified, ItemsIdentified, Signed

LEMMA CurrentComplete ==
  ASSUME HistoryInv
  PROVE  Revision \in Nat /\ Complete(CurrentGraph)
<1>1. Revision \in Nat /\ (Revision # 0 => Revision \in DOMAIN history)
  BY DEF HistoryInv, Revision
<1> QED
  BY <1>1, EmptyComplete DEF HistoryInv, CurrentGraph

(* Between commands the rows are the graph of the last revision.           *)
LEMMA CurrentStored ==
  ASSUME HistoryInv, RowsInv, tx = NoTx
  PROVE  /\ Stored(rows, CurrentGraph)
         /\ GraphOf(rows) = CurrentGraph
         /\ ItemTable(rows.items)
<1>1. Stored(rows, CurrentGraph) /\ ItemTable(rows.items)
  BY DEF RowsInv, CommittedRows
<1> QED
  BY <1>1, CurrentComplete, StoredIsGraph

(* The rows of the options are the options of the last revision, and their *)
(* ids were given once.                                                    *)
LEMMA OptionRowIds ==
  ASSUME HistoryInv, RowsInv, tx = NoTx, NEW r \in rows.options
  PROVE  r.id \in Nat /\ r.id # 0
<1> DEFINE g == CurrentGraph
<1>1. Complete(g) /\ r \in OptionRows(g)
  BY CurrentComplete, CurrentStored DEF Stored
<1> HIDE DEF g
<1>2. PICK k \in DOMAIN g.options : r.id = g.options[k].id
  BY <1>1 DEF OptionRows
<1>3. g.options \in Seq(CatalogOption)
  BY <1>1 DEF Complete, Graphs
<1>4. g.options[k].id \in Nat /\ g.options[k].id # 0
  BY <1>1, <1>3, SeqElements, OptionFields DEF Complete, OptionsIdentified
<1> QED
  BY <1>2, <1>4

LEMMA ValueRowIds ==
  ASSUME HistoryInv, RowsInv, tx = NoTx, NEW r \in rows.values
  PROVE  /\ r.id \in Nat /\ r.id # 0 /\ r.id \in EverValues
         /\ \A s \in rows.values : s.id = r.id => s = r
<1> DEFINE g == CurrentGraph
           row(k, v) == [id |-> g.options[k].values[v].id, option |-> g.options[k].id,
                         code |-> g.options[k].values[v].code,
                         name |-> g.options[k].values[v].name, seq |-> v - 1]
<1>1. Complete(g) /\ rows.values = AllValueRows(g)
  BY CurrentComplete, CurrentStored DEF Stored
<1>2. g.options # <<>> => g = history[Revision].graph /\ Revision \in DOMAIN history
  <2>1. EmptyGraph.options = <<>>
    BY DEF EmptyGraph
  <2>2. Revision \in Nat /\ (Revision # 0 => Revision \in DOMAIN history)
    BY DEF HistoryInv, Revision
  <2> QED
    BY <2>1, <2>2 DEF CurrentGraph
<1> HIDE DEF g
<1>3. \A s \in rows.values : \E k \in DOMAIN g.options : \E v \in DOMAIN g.options[k].values : s = row(k, v)
  BY <1>1 DEF AllValueRows, ValueRows, Range
<1>4a. PICK k \in DOMAIN g.options : \E v \in DOMAIN g.options[k].values : r = row(k, v)
  BY <1>3
<1>4. PICK v \in DOMAIN g.options[k].values : r = row(k, v)
  BY <1>4a
<1>5. g.options[k].values[v].id # 0
  BY <1>1 DEF Complete, ValuesIdentified
<1>6. r.id \in ValueIds(g)
  BY <1>4 DEF ValueIds, Ids, Range
<1>7. r.id \in Nat
  BY <1>1, <1>6, ValueIdsFinite DEF Complete
<1>8. r.id \in EverValues
  <2>1. g.options # <<>>
    BY <1>4
  <2>2. ValueIds(g) \subseteq EverValues
    BY <1>2, <2>1 DEF EverValues, ValueIds
  <2> QED
    BY <1>6, <2>2
<1>9. ASSUME NEW s \in rows.values, s.id = r.id
      PROVE  s = r
  <2>a. PICK j \in DOMAIN g.options : \E w \in DOMAIN g.options[j].values : s = row(j, w)
    BY <1>3
  <2>1. PICK w \in DOMAIN g.options[j].values : s = row(j, w)
    BY <2>a
  <2>2. g.options[j].values[w].id = g.options[k].values[v].id
    BY <1>4, <1>9, <2>1
  <2>3. j = k /\ w = v
    BY <1>1, <2>2 DEF Complete, ValuesIdentified
  <2> QED
    BY <1>4, <2>1, <2>3
<1> QED
  BY <1>4, <1>5, <1>7, <1>8, <1>9

LEMMA OptionIdGiven ==
  ASSUME HistoryInv, RowsInv, tx = NoTx, NEW os \in Seq(CatalogOption), NEW k \in DOMAIN os
  PROVE  OptionId(os, k) \in Nat /\ OptionId(os, k) # 0
<1>1. os[k].id \in Nat
  BY SeqElements, OptionFields
<1>2. CASE os[k].id # 0
  BY <1>1, <1>2 DEF OptionId
<1>3. CASE os[k].id = 0 /\ k \in NewOptions(os)
  <2> DEFINE F == NewOptions(os) \cap 1 .. k
  <2>1. k \in Nat \ {0}
    OBVIOUS
  <2>2. k \in F
    BY <1>3, <2>1
  <2>3. IsFiniteSet(1 .. k)
    BY <2>1, FS_Interval
  <2>4. IsFiniteSet(F)
    BY <2>3, FS_Intersection
  <2>5. OptionId(os, k) = HighestOf(EverOptions) + Cardinality(F)
    BY <1>3 DEF OptionId
  <2> HIDE DEF F
  <2>6. Cardinality(F) \in Nat /\ Cardinality(F) # 0
    BY <2>2, <2>4, CountPositive
  <2>7. HighestOf(EverOptions) \in Nat
    BY EverFinite, HighestOfFinite
  <2> QED
    BY <2>5, <2>6, <2>7
<1>4. CASE os[k].id = 0 /\ k \notin NewOptions(os)
  <2> DEFINE r == CHOOSE r \in SameCode(rows.options, os[k]) : TRUE
  <2>1. SameCode(rows.options, os[k]) # {}
    BY <1>4 DEF NewOptions
  <2>2. r \in SameCode(rows.options, os[k])
    BY <2>1
  <2>3. OptionId(os, k) = r.id
    BY <1>4 DEF OptionId
  <2> HIDE DEF r
  <2>4. r \in rows.options
    BY <2>2 DEF SameCode
  <2> QED
    BY <2>3, <2>4, OptionRowIds
<1> QED
  BY <1>2, <1>3, <1>4

(* The lists differ in the ids of their parts only. *)
Alike(os, rs) ==
  /\ DOMAIN rs = DOMAIN os
  /\ \A k \in DOMAIN os :
       /\ rs[k].code = os[k].code /\ rs[k].name = os[k].name /\ rs[k].required = os[k].required
       /\ DOMAIN rs[k].values = DOMAIN os[k].values
       /\ \A v \in DOMAIN os[k].values :
            rs[k].values[v].code = os[k].values[v].code /\ rs[k].values[v].name = os[k].values[v].name

LEMMA ResolvedOptionsIs ==
  ASSUME HistoryInv, RowsInv, tx = NoTx, NEW os \in Seq(CatalogOption)
  PROVE  /\ ResolvedOptions(os) \in Seq(CatalogOption)
         /\ DOMAIN ResolvedOptions(os) = DOMAIN os
         /\ \A k \in DOMAIN os :
              ResolvedOptions(os)[k] =
                [id |-> OptionId(os, k), code |-> os[k].code, name |-> os[k].name,
                 required |-> os[k].required, values |-> os[k].values]
         /\ \A k \in DOMAIN os : OptionId(os, k) \in Nat /\ OptionId(os, k) # 0
<1>1. \A k \in DOMAIN os : OptionId(os, k) \in Nat /\ OptionId(os, k) # 0
  BY OptionIdGiven
<1>2. \A k \in DOMAIN os : os[k] \in CatalogOption
  OBVIOUS
<1>3. \A k \in DOMAIN os :
        [os[k] EXCEPT !.id = OptionId(os, k)] =
          [id |-> OptionId(os, k), code |-> os[k].code, name |-> os[k].name,
           required |-> os[k].required, values |-> os[k].values]
  <2>1. \A o \in CatalogOption : \A n :
          [o EXCEPT !.id = n] = [id |-> n, code |-> o.code, name |-> o.name,
                                 required |-> o.required, values |-> o.values]
    BY DEF CatalogOption
  <2> QED
    BY <1>2, <2>1
<1>4. \A k \in DOMAIN os :
          [id |-> OptionId(os, k), code |-> os[k].code, name |-> os[k].name,
           required |-> os[k].required, values |-> os[k].values] \in CatalogOption
  BY <1>1, <1>2 DEF CatalogOption
<1>5. /\ DOMAIN ResolvedOptions(os) = DOMAIN os
      /\ \A k \in DOMAIN os : ResolvedOptions(os)[k] = [os[k] EXCEPT !.id = OptionId(os, k)]
  BY DEF ResolvedOptions
<1>6. Len(os) \in Nat /\ DOMAIN os = 1 .. Len(os)
  OBVIOUS
<1>7. ResolvedOptions(os) \in Seq(CatalogOption)
  <2>1. ResolvedOptions(os) \in [1 .. Len(os) -> CatalogOption]
    BY <1>3, <1>4, <1>6 DEF ResolvedOptions
  <2> QED
    BY <1>6, <2>1
<1> QED
  BY <1>1, <1>3, <1>5, <1>7

(* What ValueId gives does not depend on anything but the values of os. *)
LEMMA ResolvedValuesIs ==
  ASSUME NEW os \in Seq(CatalogOption),
         \A k \in DOMAIN os : \A v \in DOMAIN os[k].values : ValueId(os, k, v) \in Nat
  PROVE  /\ ResolvedValues(os) \in Seq(CatalogOption)
         /\ Alike(os, ResolvedValues(os))
         /\ \A k \in DOMAIN os :
              /\ ResolvedValues(os)[k].id = os[k].id
              /\ \A v \in DOMAIN os[k].values : ResolvedValues(os)[k].values[v].id = ValueId(os, k, v)
<1> DEFINE vs(k) == [v \in DOMAIN os[k].values |->
                      [id |-> ValueId(os, k, v), code |-> os[k].values[v].code,
                       name |-> os[k].values[v].name]]
           row(k) == [id |-> os[k].id, code |-> os[k].code, name |-> os[k].name,
                      required |-> os[k].required, values |-> vs(k)]
<1>1. \A k \in DOMAIN os : os[k] \in CatalogOption
  OBVIOUS
<1>2. \A k \in DOMAIN os : os[k].values \in Seq(CatalogOptionValue)
  BY <1>1, OptionFields
<1>3. \A k \in DOMAIN os : \A v \in DOMAIN os[k].values : os[k].values[v] \in CatalogOptionValue
  BY <1>2
<1>4. \A k \in DOMAIN os : \A v \in DOMAIN os[k].values :
        /\ [os[k].values[v] EXCEPT !.id = ValueId(os, k, v)] =
             [id |-> ValueId(os, k, v), code |-> os[k].values[v].code,
              name |-> os[k].values[v].name]
        /\ [id |-> ValueId(os, k, v), code |-> os[k].values[v].code,
            name |-> os[k].values[v].name] \in CatalogOptionValue
  BY <1>3 DEF CatalogOptionValue
<1>5. \A k \in DOMAIN os : vs(k) \in Seq(CatalogOptionValue)
  <2>1. SUFFICES ASSUME NEW k \in DOMAIN os
                 PROVE  vs(k) \in Seq(CatalogOptionValue)
    OBVIOUS
  <2>2. Len(os[k].values) \in Nat /\ DOMAIN os[k].values = 1 .. Len(os[k].values)
    BY <1>2
  <2>3. vs(k) \in [1 .. Len(os[k].values) -> CatalogOptionValue]
    BY <1>4, <2>2
  <2> HIDE DEF vs
  <2> QED
    BY <2>2, <2>3
<1>6. \A k \in DOMAIN os :
        [v \in DOMAIN os[k].values |-> [os[k].values[v] EXCEPT !.id = ValueId(os, k, v)]] = vs(k)
  BY <1>4
<1>7. \A k \in DOMAIN os : [os[k] EXCEPT !.values = vs(k)] = row(k)
  <2> HIDE DEF vs
  <2> QED
    BY <1>1 DEF CatalogOption
<1>8. ResolvedValues(os) = [k \in DOMAIN os |-> row(k)]
  <2>1. ResolvedValues(os) =
          [k \in DOMAIN os |-> [os[k] EXCEPT !.values =
             [v \in DOMAIN os[k].values |-> [os[k].values[v] EXCEPT !.id = ValueId(os, k, v)]]]]
    BY DEF ResolvedValues
  <2> HIDE DEF vs, row
  <2> QED
    BY <1>6, <1>7, <2>1
<1>9. \A k \in DOMAIN os : row(k) \in CatalogOption
  <2> HIDE DEF vs
  <2> QED
    BY <1>1, <1>5 DEF CatalogOption
<1>10. ResolvedValues(os) \in Seq(CatalogOption)
  <2>1. Len(os) \in Nat /\ DOMAIN os = 1 .. Len(os)
    OBVIOUS
  <2> HIDE DEF row
  <2>2. ResolvedValues(os) \in [1 .. Len(os) -> CatalogOption]
    BY <1>8, <1>9, <2>1
  <2> QED
    BY <2>1, <2>2
<1>11. /\ DOMAIN ResolvedValues(os) = DOMAIN os
       /\ \A k \in DOMAIN os : ResolvedValues(os)[k] = row(k)
  BY <1>8
<1>12. Alike(os, ResolvedValues(os))
  BY <1>11 DEF Alike
<1> QED
  BY <1>10, <1>11, <1>12

LEMMA NewValuesFinite ==
  ASSUME NEW os \in Seq(CatalogOption)
  PROVE  /\ IsFiniteSet(NewValues(os))
         /\ \A p \in NewValues(os) : p = <<p[1], p[2]>> /\ p[1] \in Nat /\ p[2] \in Nat
<1> DEFINE f == [k \in DOMAIN os |-> {<<k, v>> : v \in DOMAIN os[k].values}]
<1>1. \A k \in DOMAIN os : os[k].values \in Seq(CatalogOptionValue)
  BY SeqElements, OptionFields
<1>2. \A k \in DOMAIN os : IsFiniteSet(f[k])
  <2>1. SUFFICES ASSUME NEW k \in DOMAIN os
                 PROVE  IsFiniteSet({<<k, v>> : v \in DOMAIN os[k].values})
    OBVIOUS
  <2> DEFINE V == DOMAIN os[k].values
             T == {<<k, v>> : v \in V}
             h == [v \in V |-> <<k, v>>]
  <2>2. IsFiniteSet(V)
    BY <1>1, ListFinite
  <2>3. h \in Surjection(V, T)
    BY DEF Surjection
  <2> HIDE DEF h, T, V
  <2>4. IsFiniteSet(T)
    BY <2>2, <2>3, FS_Surjection
  <2> QED
    BY <2>4 DEF T, V
<1>3. IsFiniteSet(DOMAIN os)
  BY ListFinite
<1>4. DOMAIN f = DOMAIN os
  OBVIOUS
<1>5. IsFiniteSet(UNION {f[k] : k \in DOMAIN f})
  <2> HIDE DEF f
  <2> QED
    BY <1>2, <1>3, <1>4, UnionFinite
<1>6. NewValues(os) \in SUBSET UNION {f[k] : k \in DOMAIN f}
  BY DEF NewValues
<1>7. IsFiniteSet(NewValues(os))
  <2> HIDE DEF f
  <2> QED
    BY <1>5, <1>6, FS_Subset
<1>8. DOMAIN os \subseteq Nat /\ \A k \in DOMAIN os : DOMAIN os[k].values \subseteq Nat
  <2>1. DOMAIN os \subseteq Nat
    OBVIOUS
  <2>2. \A s \in Seq(CatalogOptionValue) : DOMAIN s \subseteq Nat
    OBVIOUS
  <2> QED
    BY <1>1, <2>1, <2>2
<1>9. ASSUME NEW p \in NewValues(os)
      PROVE  p = <<p[1], p[2]>> /\ p[1] \in Nat /\ p[2] \in Nat
  <2>1. PICK k \in DOMAIN os : \E v \in DOMAIN os[k].values : p = <<k, v>>
    BY DEF NewValues
  <2> QED
    BY <1>8, <2>1
<1> QED
  BY <1>7, <1>9

(* The values up to place v of option k for which a row is made. *)
NewUpTo(os, k, v) == {p \in NewValues(os) : p[1] < k \/ (p[1] = k /\ p[2] <= v)}

LEMMA ValueIdGiven ==
  ASSUME HistoryInv, RowsInv, tx = NoTx, NEW os \in Seq(CatalogOption),
         NEW k \in DOMAIN os, NEW v \in DOMAIN os[k].values
  PROVE  /\ ValueId(os, k, v) \in Nat /\ ValueId(os, k, v) # 0
         /\ os[k].values[v].id = 0 /\ <<k, v>> \in NewValues(os) =>
              /\ ValueId(os, k, v) = HighestOf(EverValues) + Cardinality(NewUpTo(os, k, v))
              /\ \A n \in EverValues : n # ValueId(os, k, v)
         /\ os[k].values[v].id = 0 /\ <<k, v>> \notin NewValues(os) =>
              \E r \in rows.values : r.option = os[k].id /\ r.id = ValueId(os, k, v)
<1>1. os[k].values \in Seq(CatalogOptionValue)
  BY SeqElements, OptionFields
<1>2. os[k].values[v].id \in Nat
  BY <1>1, SeqElements, ValueFields
<1>3. CASE os[k].values[v].id # 0
  BY <1>2, <1>3 DEF ValueId
<1>4. CASE os[k].values[v].id = 0 /\ <<k, v>> \in NewValues(os)
  <2> DEFINE F == NewUpTo(os, k, v)
  <2>1. F \in SUBSET NewValues(os)
    BY DEF NewUpTo
  <2>2. k \in Nat /\ v \in Nat
    BY <1>4, NewValuesFinite
  <2>3. <<k, v>> \in F
    BY <1>4, <2>2 DEF NewUpTo
  <2>4. ValueId(os, k, v) = HighestOf(EverValues) + Cardinality(F)
    BY <1>4 DEF ValueId, NewUpTo
  <2> HIDE DEF F
  <2>5. IsFiniteSet(NewValues(os))
    BY NewValuesFinite
  <2>6. IsFiniteSet(F)
    BY <2>1, <2>5, FS_Subset
  <2>7. Cardinality(F) \in Nat /\ Cardinality(F) # 0
    BY <2>3, <2>6, CountPositive
  <2>8. HighestOf(EverValues) \in Nat /\ \A n \in EverValues : n \in Nat /\ n <= HighestOf(EverValues)
    BY EverFinite, HighestOfFinite
  <2>9. \A n \in EverValues : n # ValueId(os, k, v)
    BY <2>4, <2>7, <2>8
  <2>10. ValueId(os, k, v) \in Nat /\ ValueId(os, k, v) # 0
    BY <2>4, <2>7, <2>8
  <2> QED
    BY <1>4, <2>4, <2>9, <2>10 DEF F
<1>5. CASE os[k].values[v].id = 0 /\ <<k, v>> \notin NewValues(os)
  <2> DEFINE S == SameCode(ValuesOf(rows, os[k].id), os[k].values[v])
             r == CHOOSE r \in S : TRUE
  <2>1. S # {}
    BY <1>5 DEF NewValues
  <2>2. r \in S
    BY <2>1
  <2>3. ValueId(os, k, v) = r.id
    BY <1>5 DEF ValueId
  <2>4. r \in rows.values /\ r.option = os[k].id
    BY <2>2 DEF SameCode, ValuesOf
  <2> HIDE DEF r, S
  <2>5. r.id \in Nat /\ r.id # 0
    BY <2>4, ValueRowIds
  <2> QED
    BY <1>5, <2>3, <2>4, <2>5
<1> QED
  BY <1>3, <1>4, <1>5

(* Values a caller did not name get ids of their own.                      *)
LEMMA UnnamedValuesDiffer ==
  ASSUME HistoryInv, RowsInv, tx = NoTx, NEW os \in Seq(CatalogOption), OptionsIdentified(os),
         \A k \in DOMAIN os : \A v \in DOMAIN os[k].values : os[k].values[v].id = 0,
         \A k \in DOMAIN os : GivenIdsDiffer(ResolvedValues(os)[k].values)
  PROVE  ValuesIdentified(ResolvedValues(os))
<1> DEFINE rs == ResolvedValues(os)
<1>1. \A k \in DOMAIN os : \A v \in DOMAIN os[k].values :
        ValueId(os, k, v) \in Nat /\ ValueId(os, k, v) # 0
  BY ValueIdGiven
<1>2. /\ DOMAIN rs = DOMAIN os
      /\ \A k \in DOMAIN os : DOMAIN rs[k].values = DOMAIN os[k].values
      /\ \A k \in DOMAIN os : \A v \in DOMAIN os[k].values : rs[k].values[v].id = ValueId(os, k, v)
  BY <1>1, ResolvedValuesIs DEF Alike
<1>3. ASSUME NEW j \in DOMAIN os, NEW k \in DOMAIN os,
             NEW v \in DOMAIN os[j].values, NEW w \in DOMAIN os[k].values,
             j < k, ValueId(os, j, v) = ValueId(os, k, w)
      PROVE  FALSE
  <2>1. CASE <<j, v>> \in NewValues(os) /\ <<k, w>> \in NewValues(os)
    <3> DEFINE A == NewUpTo(os, j, v)
               B == NewUpTo(os, k, w)
               h == HighestOf(EverValues)
    <3>1. A \subseteq B
      <4>1. \A p \in NewValues(os) : p[1] \in Nat /\ p[2] \in Nat
        BY NewValuesFinite
      <4>2. \A p \in NewValues(os) : p[1] < j \/ (p[1] = j /\ p[2] <= v) => p[1] < k
        BY <1>3, <4>1
      <4> QED
        BY <4>2 DEF NewUpTo
    <3>2. <<k, w>> \in B /\ <<k, w>> \notin A
      <4>1. k \in Nat /\ w \in Nat
        BY <2>1, NewValuesFinite
      <4> QED
        BY <1>3, <2>1, <4>1 DEF NewUpTo
    <3>3. IsFiniteSet(B)
      <4>1. B \in SUBSET NewValues(os)
        BY DEF NewUpTo
      <4> HIDE DEF B
      <4> QED
        BY <4>1, NewValuesFinite, FS_Subset
    <3>4. ValueId(os, j, v) = h + Cardinality(A) /\ ValueId(os, k, w) = h + Cardinality(B)
      BY <1>1, <2>1, ValueIdGiven
    <3>5. h \in Nat
      BY EverFinite, HighestOfFinite
    <3> HIDE DEF A, B, h
    <3>6. Cardinality(A) \in Nat /\ Cardinality(B) \in Nat /\ Cardinality(A) < Cardinality(B)
      BY <3>1, <3>2, <3>3, PartCountsLess
    <3>7. h + Cardinality(A) = h + Cardinality(B)
      BY <1>3, <3>4
    <3> QED
      BY <3>5, <3>6, <3>7
  <2>2. CASE <<j, v>> \notin NewValues(os)
    <3>1. PICK r \in rows.values : r.option = os[j].id /\ r.id = ValueId(os, j, v)
      BY <2>2, ValueIdGiven
    <3>2. r.id \in EverValues
      BY ValueRowIds
    <3>3. <<k, w>> \notin NewValues(os)
      BY <1>3, <3>1, <3>2, ValueIdGiven
    <3>4. PICK s \in rows.values : s.option = os[k].id /\ s.id = ValueId(os, k, w)
      BY <3>3, ValueIdGiven
    <3>5. s = r
      BY <1>3, <3>1, <3>4, ValueRowIds
    <3> QED
      BY <1>3, <3>1, <3>4, <3>5 DEF OptionsIdentified
  <2>3. CASE <<k, w>> \notin NewValues(os) /\ <<j, v>> \in NewValues(os)
    <3>1. PICK s \in rows.values : s.option = os[k].id /\ s.id = ValueId(os, k, w)
      BY <2>3, ValueIdGiven
    <3>2. s.id \in EverValues
      BY ValueRowIds
    <3> QED
      BY <1>3, <2>3, <3>1, <3>2, ValueIdGiven
  <2> QED
    BY <2>1, <2>2, <2>3
<1>4. ASSUME NEW k \in DOMAIN os, NEW v \in DOMAIN os[k].values, NEW w \in DOMAIN os[k].values,
             ValueId(os, k, v) = ValueId(os, k, w)
      PROVE  v = w
  <2>1. rs[k].values[v].id = rs[k].values[w].id /\ rs[k].values[v].id # 0
    BY <1>1, <1>2, <1>4
  <2>2. v \in DOMAIN rs[k].values /\ w \in DOMAIN rs[k].values
    BY <1>2
  <2> HIDE DEF rs
  <2>3. GivenIdsDiffer(rs[k].values)
    BY DEF rs
  <2> QED
    BY <2>1, <2>2, <2>3 DEF GivenIdsDiffer
<1>5. ASSUME NEW j \in DOMAIN os, NEW k \in DOMAIN os,
             NEW v \in DOMAIN os[j].values, NEW w \in DOMAIN os[k].values,
             ValueId(os, j, v) = ValueId(os, k, w)
      PROVE  j = k /\ v = w
  <2>1. j \in Nat /\ k \in Nat
    OBVIOUS
  <2>2. j = k
    BY <1>3, <1>5, <2>1
  <2> QED
    BY <1>4, <1>5, <2>2
<1> HIDE DEF rs
<1>6. ValuesIdentified(rs)
  BY <1>1, <1>2, <1>5 DEF ValuesIdentified
<1> QED
  BY <1>6 DEF rs

(* Parts that have their rows keep them. *)
LEMMA IdentifiedStay ==
  ASSUME NEW os \in Seq(CatalogOption), OptionsIdentified(os), ValuesIdentified(os)
  PROVE  ResolvedOptions(os) = os /\ ResolvedValues(os) = os
<1>1. os = [k \in DOMAIN os |-> os[k]] /\ \A k \in DOMAIN os : os[k] \in CatalogOption
  BY SeqElements
<1>2. \A k \in DOMAIN os : OptionId(os, k) = os[k].id
  BY DEF OptionsIdentified, OptionId
<1>3. \A k \in DOMAIN os : [os[k] EXCEPT !.id = OptionId(os, k)] = os[k]
  <2>1. \A o \in CatalogOption : [o EXCEPT !.id = o.id] = o
    BY DEF CatalogOption
  <2> QED
    BY <1>1, <1>2, <2>1
<1>4. ResolvedOptions(os) = os
  BY <1>1, <1>3 DEF ResolvedOptions
<1>5. ASSUME NEW k \in DOMAIN os
      PROVE  [os[k] EXCEPT !.values =
               [v \in DOMAIN os[k].values |->
                  [os[k].values[v] EXCEPT !.id = ValueId(os, k, v)]]] = os[k]
  <2>1. os[k].values \in Seq(CatalogOptionValue)
    BY <1>1, OptionFields
  <2>2. \A v \in DOMAIN os[k].values : ValueId(os, k, v) = os[k].values[v].id
    BY DEF ValuesIdentified, ValueId
  <2>3. \A v \in DOMAIN os[k].values :
          [os[k].values[v] EXCEPT !.id = ValueId(os, k, v)] = os[k].values[v]
    <3>1. \A x \in CatalogOptionValue : [x EXCEPT !.id = x.id] = x
      BY DEF CatalogOptionValue
    <3> QED
      BY <2>1, <2>2, <3>1, SeqElements
  <2>4. [v \in DOMAIN os[k].values |-> [os[k].values[v] EXCEPT !.id = ValueId(os, k, v)]]
          = os[k].values
    <3>1. os[k].values = [v \in DOMAIN os[k].values |-> os[k].values[v]]
      BY <2>1, SeqElements
    <3> QED
      BY <2>3, <3>1
  <2>5. \A o \in CatalogOption : [o EXCEPT !.values = o.values] = o
    BY DEF CatalogOption
  <2> QED
    BY <1>1, <2>4, <2>5
<1>6. ResolvedValues(os) =
        [k \in DOMAIN os |-> [os[k] EXCEPT !.values =
           [v \in DOMAIN os[k].values |-> [os[k].values[v] EXCEPT !.id = ValueId(os, k, v)]]]]
  BY DEF ResolvedValues
<1>7. ResolvedValues(os) = os
  BY <1>1, <1>5, <1>6
<1> QED
  BY <1>4, <1>7

LEMMA AlikeFields ==
  ASSUME NEW os, NEW rs, Alike(os, rs)
  PROVE  /\ Field(rs, "code") = Field(os, "code") /\ Field(rs, "name") = Field(os, "name")
         /\ \A k \in DOMAIN os :
              /\ Field(rs[k].values, "code") = Field(os[k].values, "code")
              /\ Field(rs[k].values, "name") = Field(os[k].values, "name")
BY DEF Alike, Field

(* The rest of what makes a list of options valid does not look at ids.    *)
LEMMA AlikeValid ==
  ASSUME NEW os \in Seq(CatalogOption), ValidOptions(os), NEW rs \in Seq(CatalogOption), Alike(os, rs),
         GivenIdsDiffer(rs), \A k \in DOMAIN rs : GivenIdsDiffer(rs[k].values)
  PROVE  /\ ValidOptions(rs)
         /\ \A sel : ValidSelection(sel, os) => ValidSelection(sel, rs)
<1>1. DOMAIN rs = DOMAIN os
  BY DEF Alike
<1>2. \A k \in DOMAIN rs : rs[k].values # <<>>
  <2>1. SUFFICES ASSUME NEW k \in DOMAIN os, rs[k].values = <<>>
                 PROVE  FALSE
    BY <1>1
  <2>2. os[k].values \in Seq(CatalogOptionValue) /\ os[k].values # <<>>
    BY SeqElements, OptionFields DEF ValidOptions
  <2>3. 1 \in DOMAIN os[k].values
    BY <2>2
  <2>4. 1 \in DOMAIN rs[k].values
    BY <2>3 DEF Alike
  <2> QED
    BY <2>1, <2>4
<1>3. Len(rs) = Len(os) /\ \A k \in DOMAIN rs : Len(rs[k].values) = Len(os[k].values)
  <2>1. \A k \in DOMAIN rs : /\ rs[k].values \in Seq(CatalogOptionValue)
                            /\ os[k].values \in Seq(CatalogOptionValue)
                            /\ DOMAIN rs[k].values = DOMAIN os[k].values
    BY <1>1, SeqElements, OptionFields DEF Alike
  <2> QED
    BY <1>1, <2>1, SameLength
<1>4. ValidOptions(rs)
  BY <1>1, <1>2, <1>3, AlikeFields DEF ValidOptions
<1>5. ASSUME NEW sel, ValidSelection(sel, os)
      PROVE  ValidSelection(sel, rs)
  BY <1>1, <1>5 DEF ValidSelection, Alike
<1> QED
  BY <1>4, <1>5

(* The options of a draft, and those of a graph that is stored, get one    *)
(* row each.                                                               *)
LEMMA OptionsResolved ==
  ASSUME HistoryInv, RowsInv, tx = NoTx, NEW os \in Seq(CatalogOption), ValidOptions(os),
         Unnamed(os) \/ (OptionsIdentified(os) /\ ValuesIdentified(os)),
         NEW rs, rs = ResolvedValues(ResolvedOptions(os)),
         GivenIdsDiffer(rs), \A k \in DOMAIN rs : GivenIdsDiffer(rs[k].values)
  PROVE  /\ rs \in Seq(CatalogOption)
         /\ ValidOptions(rs)
         /\ \A sel : ValidSelection(sel, os) => ValidSelection(sel, rs)
         /\ OptionsIdentified(rs) /\ ValuesIdentified(rs)
<1>1. CASE OptionsIdentified(os) /\ ValuesIdentified(os)
  <2>1. rs = os
    BY <1>1, IdentifiedStay
  <2> QED
    BY <1>1, <2>1
<1>2. CASE Unnamed(os)
  <2> DEFINE ms == ResolvedOptions(os)
  <2>1. /\ ms \in Seq(CatalogOption)
        /\ DOMAIN ms = DOMAIN os
        /\ \A k \in DOMAIN os :
             ms[k] = [id |-> OptionId(os, k), code |-> os[k].code, name |-> os[k].name,
                      required |-> os[k].required, values |-> os[k].values]
        /\ \A k \in DOMAIN os : OptionId(os, k) \in Nat /\ OptionId(os, k) # 0
    BY ResolvedOptionsIs
  <2>2. rs = ResolvedValues(ms)
    OBVIOUS
  <2> HIDE DEF ms
  <2>3. Alike(os, ms)
    BY <2>1 DEF Alike
  <2>4. \A k \in DOMAIN ms : \A v \in DOMAIN ms[k].values : ValueId(ms, k, v) \in Nat
    BY <2>1, ValueIdGiven
  <2>5. /\ rs \in Seq(CatalogOption) /\ Alike(ms, rs)
        /\ \A k \in DOMAIN ms : rs[k].id = ms[k].id
    BY <2>1, <2>2, <2>4, ResolvedValuesIs
  <2>6. Alike(os, rs)
    BY <2>3, <2>5 DEF Alike
  <2>7. OptionsIdentified(rs) /\ OptionsIdentified(ms)
    <3>1. DOMAIN rs = DOMAIN ms /\ \A k \in DOMAIN ms : ms[k].id # 0 /\ rs[k].id = ms[k].id
      BY <2>1, <2>5 DEF Alike
    <3> QED
      BY <3>1 DEF OptionsIdentified, GivenIdsDiffer
  <2>8. \A k \in DOMAIN ms : \A v \in DOMAIN ms[k].values : ms[k].values[v].id = 0
    BY <1>2, <2>1 DEF Unnamed
  <2>9. \A k \in DOMAIN ms : GivenIdsDiffer(ResolvedValues(ms)[k].values)
    <3>1. DOMAIN rs = DOMAIN ms
      BY <2>5 DEF Alike
    <3> QED
      BY <2>2, <3>1
  <2>10. ValuesIdentified(rs)
    BY <2>1, <2>2, <2>7, <2>8, <2>9, UnnamedValuesDiffer
  <2> QED
    BY <2>5, <2>6, <2>7, <2>10, AlikeValid
<1> QED
  BY <1>1, <1>2

LEMMA TheItem ==
  ASSUME NEW S, ItemTable(S), NEW i \in S
  PROVE  TheRow(S, i.id) = i
BY DEF ItemTable, TheRow

LEMMA ItemIdGiven ==
  ASSUME ItemTable(rows.items), NEW is \in Seq(CatalogItem), NEW k \in DOMAIN is
  PROVE  /\ ItemId(is, k) \in Nat /\ ItemId(is, k) # 0
         /\ is[k].id = 0 => ItemId(is, k) \notin Ids(rows.items)
<1> DEFINE N == NewItems(is)
           h == HighestOf(Ids(rows.items))
<1>1. is[k].id \in Nat
  BY SeqElements, ItemFields
<1>2. CASE is[k].id # 0
  BY <1>1, <1>2 DEF ItemId
<1>3. CASE is[k].id = 0
  <2>1. h \in Nat /\ \A n \in Ids(rows.items) : n \in Nat /\ n <= h
    <3>1. IsFiniteSet(Ids(rows.items)) /\ \A n \in Ids(rows.items) : n \in Nat
      BY DEF ItemTable, Ids
    <3> QED
      BY <3>1, HighestOfFinite
  <2> DEFINE F == N \cap 1 .. k
  <2>2. k \in Nat \ {0}
    OBVIOUS
  <2>3. k \in F
    BY <1>3, <2>2 DEF NewItems
  <2>4. IsFiniteSet(1 .. k)
    BY <2>2, FS_Interval
  <2>5. IsFiniteSet(F)
    BY <2>4, FS_Intersection
  <2>6. ItemId(is, k) = h + Cardinality(F)
    BY <1>3 DEF ItemId
  <2> HIDE DEF F, h
  <2>7. Cardinality(F) \in Nat /\ Cardinality(F) # 0
    BY <2>3, <2>5, CountPositive
  <2>8. ItemId(is, k) \in Nat /\ ItemId(is, k) # 0
    BY <2>1, <2>6, <2>7
  <2>9. \A n \in Ids(rows.items) : n # ItemId(is, k)
    BY <2>1, <2>6, <2>7
  <2> QED
    BY <2>8, <2>9
<1> QED
  BY <1>2, <1>3

LEMMA ItemIdsDiffer ==
  ASSUME ItemTable(rows.items), NEW is \in Seq(CatalogItem), GivenIdsDiffer(is),
         \A k \in DOMAIN is : is[k].id # 0 => is[k].id \in Ids(rows.items),
         NEW j \in DOMAIN is, NEW k \in DOMAIN is, ItemId(is, j) = ItemId(is, k)
  PROVE  j = k
<1>1. ASSUME NEW a \in DOMAIN is, NEW b \in DOMAIN is, is[a].id = 0, is[b].id = 0, a < b,
             ItemId(is, a) = ItemId(is, b)
      PROVE  FALSE
  <2> DEFINE A == NewItems(is) \cap 1 .. a
             B == NewItems(is) \cap 1 .. b
             h == HighestOf(Ids(rows.items))
  <2>1. a \in Nat \ {0} /\ b \in Nat \ {0} /\ a < b
    BY <1>1
  <2>2. A \subseteq B /\ b \in B /\ b \notin A
    BY <1>1, <2>1 DEF NewItems
  <2>3. IsFiniteSet(B)
    <3>1. IsFiniteSet(1 .. b)
      BY <2>1, FS_Interval
    <3> QED
      BY <3>1, FS_Intersection
  <2>4. ItemId(is, a) = h + Cardinality(A) /\ ItemId(is, b) = h + Cardinality(B)
    BY <1>1 DEF ItemId
  <2>5. h \in Nat
    <3>1. IsFiniteSet(Ids(rows.items)) /\ \A n \in Ids(rows.items) : n \in Nat
      BY DEF ItemTable, Ids
    <3> QED
      BY <3>1, HighestOfFinite
  <2> HIDE DEF A, B, h
  <2>6. Cardinality(A) \in Nat /\ Cardinality(B) \in Nat /\ Cardinality(A) < Cardinality(B)
    BY <2>2, <2>3, PartCountsLess
  <2>7. h + Cardinality(A) = h + Cardinality(B)
    BY <1>1, <2>4
  <2> QED
    BY <2>5, <2>6, <2>7
<1>2. CASE is[j].id # 0 /\ is[k].id # 0
  <2>1. is[j].id = is[k].id
    BY <1>2 DEF ItemId
  <2> QED
    BY <1>2, <2>1 DEF GivenIdsDiffer
<1>3. CASE is[j].id = 0 /\ is[k].id = 0
  <2>1. j \in Nat /\ k \in Nat
    OBVIOUS
  <2> QED
    BY <1>1, <1>3, <2>1
<1>4. CASE is[j].id = 0 /\ is[k].id # 0
  <2>1. ItemId(is, k) = is[k].id
    BY <1>4 DEF ItemId
  <2> QED
    BY <1>4, <2>1, ItemIdGiven
<1>5. CASE is[j].id # 0 /\ is[k].id = 0
  <2>1. ItemId(is, j) = is[j].id
    BY <1>5 DEF ItemId
  <2> QED
    BY <1>5, <2>1, ItemIdGiven
<1> QED
  BY <1>2, <1>3, <1>4, <1>5

LEMMA ItemsResolved ==
  ASSUME ItemTable(rows.items), NEW is \in Seq(CatalogItem), GivenIdsDiffer(is),
         \A k \in DOMAIN is : is[k].id # 0 => is[k].id \in Ids(rows.items),
         NEW rs, rs = ResolvedItems(is)
  PROVE  /\ rs \in Seq(CatalogItem)
         /\ DOMAIN rs = DOMAIN is
         /\ \A k \in DOMAIN is :
              /\ rs[k].sku = is[k].sku /\ rs[k].sig = is[k].sig /\ rs[k].sel = is[k].sel
              /\ rs[k].id = ItemId(is, k) /\ rs[k].id # 0
         /\ ItemsIdentified(rs)
<1>1. \A k \in DOMAIN is : ItemId(is, k) \in Nat /\ ItemId(is, k) # 0
  BY ItemIdGiven
<1>2. \A k \in DOMAIN is : is[k] \in CatalogItem
  BY SeqElements
<1>3. \A i \in CatalogItem : \A n :
        [i EXCEPT !.id = n] = [id |-> n, sku |-> i.sku, sale |-> i.sale, sig |-> i.sig, sel |-> i.sel]
  BY DEF CatalogItem
<1>4. \A i \in CatalogItem : \A n \in Nat :
        [id |-> n, sku |-> i.sku, sale |-> i.sale, sig |-> i.sig, sel |-> i.sel] \in CatalogItem
  BY DEF CatalogItem
<1>5. \A k \in DOMAIN is : [is[k] EXCEPT !.id = ItemId(is, k)] =
             [id |-> ItemId(is, k), sku |-> is[k].sku, sale |-> is[k].sale,
              sig |-> is[k].sig, sel |-> is[k].sel]
  BY <1>1, <1>2, <1>3
<1>6. rs = [k \in DOMAIN is |->
              [id |-> ItemId(is, k), sku |-> is[k].sku, sale |-> is[k].sale,
               sig |-> is[k].sig, sel |-> is[k].sel]]
  BY <1>5 DEF ResolvedItems
<1>7. DOMAIN rs = DOMAIN is /\ \A k \in DOMAIN is :
        rs[k] = [id |-> ItemId(is, k), sku |-> is[k].sku, sale |-> is[k].sale,
                 sig |-> is[k].sig, sel |-> is[k].sel]
  BY <1>6
<1>9. rs \in Seq(CatalogItem)
  <2>1. Len(is) \in Nat /\ DOMAIN is = 1 .. Len(is)
    OBVIOUS
  <2>2. \A k \in DOMAIN is : rs[k] \in CatalogItem
    BY <1>1, <1>2, <1>4, <1>7
  <2>3. rs = [k \in 1 .. Len(is) |-> rs[k]]
    BY <1>6, <1>7, <2>1
  <2>4. rs \in [1 .. Len(is) -> CatalogItem]
    BY <2>1, <2>2, <2>3
  <2> QED
    BY <2>1, <2>4
<1>8. ItemsIdentified(rs)
  <2>1. \A j, k \in DOMAIN is : ItemId(is, j) = ItemId(is, k) => j = k
    BY ItemIdsDiffer
  <2> QED
    BY <1>1, <1>7, <2>1 DEF ItemsIdentified
<1> QED
  BY <1>1, <1>7, <1>8, <1>9

LEMMA GraphFields ==
  ASSUME NEW g \in Graphs
  PROVE  /\ g = [options |-> g.options, items |-> g.items,
                categories |-> g.categories, tags |-> g.tags]
         /\ g.options \in Seq(CatalogOption) /\ g.items \in Seq(CatalogItem)
         /\ g.categories \in Seq(Codes) /\ g.tags \in Seq(Text)
         /\ \A os, is : [g EXCEPT !.options = os, !.items = is] =
              [options |-> os, items |-> is, categories |-> g.categories, tags |-> g.tags]
         /\ \A is : [g EXCEPT !.items = is] =
              [options |-> g.options, items |-> is, categories |-> g.categories, tags |-> g.tags]
<1>1. g = [options |-> g.options, items |-> g.items,
           categories |-> g.categories, tags |-> g.tags]
  BY DEF Graphs
<1>2. /\ g.options \in Seq(CatalogOption) /\ g.items \in Seq(CatalogItem)
      /\ g.categories \in Seq(Codes) /\ g.tags \in Seq(Text)
  BY DEF Graphs
<1>3. ASSUME NEW os, NEW is
      PROVE  [g EXCEPT !.options = os, !.items = is] =
              [options |-> os, items |-> is, categories |-> g.categories, tags |-> g.tags]
  <2>1. DOMAIN g = {"options", "items", "categories", "tags"}
    BY DEF Graphs
  <2>2. [g EXCEPT !.options = os, !.items = is] =
          [f \in {"options", "items", "categories", "tags"} |->
             IF f = "items" THEN is ELSE IF f = "options" THEN os ELSE g[f]]
    BY <2>1
  <2> QED
    BY <2>2
<1>4. ASSUME NEW is
      PROVE  [g EXCEPT !.items = is] =
              [options |-> g.options, items |-> is, categories |-> g.categories, tags |-> g.tags]
  BY <1>1
<1> QED
  BY <1>1, <1>2, <1>3, <1>4

(* Every item has the signature of its selection, or none yet. *)
Signable(is) == \A k \in DOMAIN is : is[k].sig \in {NoSignature, SignatureOf(is[k].sel)}

LEMMA NormalIs ==
  ASSUME NEW g \in Graphs, Signable(g.items)
  PROVE  /\ Normal(g) \in Graphs
         /\ Normal(g).options = g.options
         /\ Normal(g).categories = g.categories /\ Normal(g).tags = g.tags
         /\ DOMAIN Normal(g).items = DOMAIN g.items
         /\ \A k \in DOMAIN g.items :
              /\ Normal(g).items[k].id = g.items[k].id /\ Normal(g).items[k].sku = g.items[k].sku
              /\ Normal(g).items[k].sel = g.items[k].sel
         /\ Signed(Normal(g).items)
         /\ Signed(g.items) => Normal(g) = g
<1> DEFINE signed(i) == [id |-> i.id, sku |-> i.sku, sale |-> i.sale,
                         sig |-> SignatureOf(i.sel), sel |-> i.sel]
           is == [k \in DOMAIN g.items |-> signed(g.items[k])]
<1>1. g.items \in Seq(CatalogItem)
  BY GraphFields
<1>2. \A k \in DOMAIN g.items : g.items[k] \in CatalogItem
  BY <1>1, SeqElements
<1>3. \A i \in CatalogItem : [i EXCEPT !.sig = SignatureOf(i.sel)] = signed(i)
  BY DEF CatalogItem
<1>4. \A i \in CatalogItem : i.sig = SignatureOf(i.sel) => i = signed(i)
  BY ItemFields
<1>5. \A i \in CatalogItem : signed(i) \in CatalogItem
  <2>1. \A i \in CatalogItem : SignatureOf(i.sel) \in [sel : Selection]
    BY DEF CatalogItem, SignatureOf
  <2>2. \A i \in CatalogItem : i.id \in Nat /\ i.sku \in Text \cup {NoSku} /\ i.sale \in {"ALLOW", "DENY"}
                               /\ i.sel \in Selection
    BY DEF CatalogItem
  <2> QED
    BY <2>1, <2>2 DEF CatalogItem
<1>6. \A k \in DOMAIN g.items :
        (IF g.items[k].sig = NoSignature
         THEN [g.items[k] EXCEPT !.sig = SignatureOf(g.items[k].sel)]
         ELSE g.items[k]) = signed(g.items[k])
  BY <1>2, <1>3, <1>4 DEF Signable
<1>7. Normal(g) = [g EXCEPT !.items = is]
  <2> HIDE DEF signed
  <2> QED
    BY <1>6 DEF Normal
<1>8. Normal(g) = [options |-> g.options, items |-> is, categories |-> g.categories, tags |-> g.tags]
  <2> HIDE DEF is
  <2> QED
    BY <1>7, GraphFields
<1>9. is \in Seq(CatalogItem)
  <2>1. Len(g.items) \in Nat /\ DOMAIN g.items = 1 .. Len(g.items)
    BY <1>1
  <2> HIDE DEF signed
  <2>2. is \in [1 .. Len(g.items) -> CatalogItem]
    BY <1>2, <1>5, <2>1
  <2> QED
    BY <2>1, <2>2
<1>10. Normal(g) \in Graphs
  <2> HIDE DEF is
  <2> QED
    BY <1>8, <1>9 DEF Graphs
<1>11. DOMAIN is = DOMAIN g.items /\ \A k \in DOMAIN g.items : is[k] = signed(g.items[k])
  OBVIOUS
<1>12. Normal(g).items = is
  <2> HIDE DEF is
  <2> QED
    BY <1>8
<1>13. Signed(is)
  BY <1>11 DEF Signed
<1>14. ASSUME Signed(g.items)
       PROVE  Normal(g) = g
  <2>1. \A k \in DOMAIN g.items : is[k] = g.items[k]
    BY <1>2, <1>4, <1>11, <1>14 DEF Signed
  <2>2. is = [k \in DOMAIN g.items |-> g.items[k]]
    <3> HIDE DEF signed
    <3> QED
      BY <2>1
  <2>3. is = g.items
    <3>1. g.items = [k \in DOMAIN g.items |-> g.items[k]]
      BY <1>1, SeqElements
    <3> HIDE DEF is
    <3> QED
      BY <2>2, <3>1
  <2> HIDE DEF is
  <2> QED
    BY <1>8, <2>3, GraphFields
<1> QED
  BY <1>8, <1>10, <1>11, <1>12, <1>13, <1>14

LEMMA ItemsAlikeValid ==
  ASSUME NEW is \in Seq(CatalogItem), NEW os, ValidItems(is, os),
         NEW rs \in Seq(CatalogItem), NEW qs,
         \A sel : ValidSelection(sel, os) => ValidSelection(sel, qs),
         DOMAIN rs = DOMAIN is,
         \A k \in DOMAIN is : rs[k].sku = is[k].sku /\ rs[k].sig = is[k].sig /\ rs[k].sel = is[k].sel,
         ItemsIdentified(rs)
  PROVE  ValidItems(rs, qs)
<1>1. Field(rs, "sig") = Field(is, "sig") /\ Field(rs, "sel") = Field(is, "sel")
  BY DEF Field
<1>2. GivenSkusDiffer(rs)
  BY DEF GivenSkusDiffer, ValidItems
<1>3. GivenIdsDiffer(rs)
  BY DEF GivenIdsDiffer, ItemsIdentified
<1>4. \A k \in DOMAIN rs : ValidSelection(rs[k].sel, qs)
  BY DEF ValidItems
<1>5. Len(rs) = Len(is)
  BY SameLength
<1> QED
  BY <1>1, <1>2, <1>3, <1>4, <1>5 DEF ValidItems

(* What replaceGraph goes on with: a graph that can be stored, and no item *)
(* under another SKU than its own.                                         *)
LEMMA GraphMatched ==
  ASSUME HistoryInv, RowsInv, tx = NoTx,
         NEW graph \in Graphs, Signable(graph.items),
         Unnamed(graph.options)
           \/ (OptionsIdentified(graph.options) /\ ValuesIdentified(graph.options)),
         NEW named, Valid(Normal(graph)), Resolvable(Normal(graph), named)
  PROVE  /\ Complete(Resolved(Normal(graph)))
         /\ SkusAgree(Resolved(Normal(graph)).items, rows.items)
<1> DEFINE g == Normal(graph)
           rs == ResolvedValues(ResolvedOptions(g.options))
           is == ResolvedItems(g.items)
<1>1. /\ g \in Graphs /\ g.options = graph.options /\ Signed(g.items)
  BY NormalIs
<1>2. Valid(g) /\ Resolvable(g, named)
  OBVIOUS
<1> HIDE DEF g
<1>3. Resolved(g) = [options |-> rs, items |-> is, categories |-> g.categories, tags |-> g.tags]
  <2>1. Resolved(g) = [g EXCEPT !.options = rs, !.items = is]
    BY DEF Resolved
  <2> HIDE DEF rs, is
  <2> QED
    BY <1>1, <2>1, GraphFields
<1>4. rs = ResolvedValues(ResolvedOptions(g.options)) /\ is = ResolvedItems(g.items)
  OBVIOUS
<1> HIDE DEF rs, is
<1>5. ItemTable(rows.items)
  BY CurrentStored
<1>6. /\ rs \in Seq(CatalogOption)
      /\ ValidOptions(rs)
      /\ \A sel : ValidSelection(sel, g.options) => ValidSelection(sel, rs)
      /\ OptionsIdentified(rs) /\ ValuesIdentified(rs)
  <2>1. GivenIdsDiffer(rs) /\ \A k \in DOMAIN rs : GivenIdsDiffer(rs[k].values)
    BY <1>2, <1>3 DEF Resolvable
  <2>2. g.options \in Seq(CatalogOption) /\ ValidOptions(g.options)
    BY <1>1, <1>2, GraphFields DEF Valid
  <2> QED
    BY <1>1, <1>4, <2>1, <2>2, OptionsResolved
<1>7. /\ g.items \in Seq(CatalogItem) /\ GivenIdsDiffer(g.items)
      /\ \A k \in DOMAIN g.items : g.items[k].id # 0 => g.items[k].id \in Ids(rows.items)
  BY <1>1, <1>2, GraphFields DEF Valid, ValidItems, Resolvable
<1>8. /\ is \in Seq(CatalogItem)
      /\ DOMAIN is = DOMAIN g.items
      /\ \A k \in DOMAIN g.items :
           /\ is[k].sku = g.items[k].sku /\ is[k].sig = g.items[k].sig /\ is[k].sel = g.items[k].sel
           /\ is[k].id = ItemId(g.items, k) /\ is[k].id # 0
      /\ ItemsIdentified(is)
  BY <1>4, <1>5, <1>7, ItemsResolved
<1>9. ValidItems(is, rs)
  <2>1. ValidItems(g.items, g.options)
    BY <1>2 DEF Valid
  <2> QED
    BY <1>6, <1>7, <1>8, <2>1, ItemsAlikeValid
<1>10. Resolved(g) \in Graphs
  <2>1. g.categories \in Seq(Codes) /\ g.tags \in Seq(Text)
    BY <1>1, GraphFields
  <2> QED
    BY <1>3, <1>6, <1>8, <2>1 DEF Graphs
<1>11. Valid(Resolved(g))
  BY <1>2, <1>3, <1>6, <1>9 DEF Valid
<1>12. Signed(is)
  BY <1>1, <1>8 DEF Signed
<1>13. Complete(Resolved(g))
  BY <1>3, <1>6, <1>8, <1>10, <1>11, <1>12 DEF Complete
<1>14. ASSUME NEW k \in DOMAIN is, is[k].sku # NoSku, NEW i \in rows.items, i.id = is[k].id
       PROVE  i.sku = is[k].sku
  <2>1. CASE g.items[k].id = 0
    <3>1. is[k].id \notin Ids(rows.items)
      BY <1>5, <1>7, <1>8, <2>1, ItemIdGiven
    <3> QED
      BY <1>14, <3>1 DEF Ids
  <2>2. CASE g.items[k].id # 0
    <3>1. is[k].id = g.items[k].id
      BY <1>8, <2>2 DEF ItemId
    <3>2. TheRow(rows.items, g.items[k].id) = i
      BY <1>5, <1>14, <3>1, TheItem
    <3>3. TheRow(rows.items, g.items[k].id).sku = g.items[k].sku
      BY <1>2, <1>8, <1>14, <2>2 DEF Resolvable
    <3> QED
      BY <1>8, <3>2, <3>3
  <2> QED
    BY <2>1, <2>2
<1>15. SkusAgree(Resolved(g).items, rows.items)
  BY <1>3, <1>14 DEF SkusAgree
<1> QED
  BY <1>13, <1>15 DEF g

(* A graph with all its rows is resolved to itself. *)
LEMMA CompleteStays ==
  ASSUME NEW g, Complete(g)
  PROVE  Normal(g) = g /\ Resolved(g) = g /\ Signable(g.items)
<1>1. g \in Graphs /\ Signed(g.items)
  BY DEF Complete
<1>2. Signable(g.items)
  BY <1>1 DEF Signed, Signable
<1>3. Normal(g) = g
  BY <1>1, <1>2, NormalIs
<1>4. ResolvedValues(ResolvedOptions(g.options)) = g.options
  BY <1>1, GraphFields, IdentifiedStay DEF Complete
<1>5. ResolvedItems(g.items) = g.items
  <2>1. g.items \in Seq(CatalogItem)
    BY <1>1, GraphFields
  <2>2. \A k \in DOMAIN g.items : ItemId(g.items, k) = g.items[k].id
    BY DEF ItemId, Complete, ItemsIdentified
  <2>3. \A i \in CatalogItem : [i EXCEPT !.id = i.id] = i
    BY DEF CatalogItem
  <2>4. \A k \in DOMAIN g.items : [g.items[k] EXCEPT !.id = ItemId(g.items, k)] = g.items[k]
    BY <2>1, <2>2, <2>3, SeqElements
  <2>5. g.items = [k \in DOMAIN g.items |-> g.items[k]]
    BY <2>1, SeqElements
  <2> QED
    BY <2>4, <2>5 DEF ResolvedItems
<1>6. Resolved(g) = [g EXCEPT !.options = g.options, !.items = g.items]
  BY <1>4, <1>5 DEF Resolved
<1> QED
  BY <1>1, <1>2, <1>3, <1>6, GraphFields

(* The items a caller may ask for beside those that are there.             *)
AskedItems == {i \in CatalogItem : i.sig \in {NoSignature, SignatureOf(i.sel)}}

LEMMA AskedSignable ==
  ASSUME NEW is \in Seq(AskedItems)
  PROVE  is \in Seq(CatalogItem) /\ Signable(is)
<1>1. is \in Seq(CatalogItem)
  BY DEF AskedItems
<1>2. \A k \in DOMAIN is : is[k] \in AskedItems
  BY SeqElements
<1> QED
  BY <1>1, <1>2 DEF AskedItems, Signable

LEMMA CurrentItemsAsked ==
  ASSUME HistoryInv, RowsInv, tx = NoTx
  PROVE  CurrentItems \in Seq(AskedItems)
<1>1. GraphOf(rows) = CurrentGraph /\ Complete(CurrentGraph)
  BY CurrentStored, CurrentComplete
<1>2. CurrentItems \in Seq(CatalogItem) /\ Signed(CurrentItems)
  BY <1>1, GraphFields DEF CurrentItems, Complete
<1>3. \A k \in DOMAIN CurrentItems : CurrentItems[k] \in AskedItems
  BY <1>2, SeqElements DEF Signed, AskedItems
<1>4. Len(CurrentItems) \in Nat /\ DOMAIN CurrentItems = 1 .. Len(CurrentItems)
  BY <1>2
<1>5. CurrentItems = [k \in DOMAIN CurrentItems |-> CurrentItems[k]]
  BY <1>2, SeqElements
<1>6. CurrentItems \in [1 .. Len(CurrentItems) -> AskedItems]
  BY <1>3, <1>4, <1>5
<1> QED
  BY <1>4, <1>6

(* An edit of the items leaves the options with their rows.                *)
LEMMA ItemEdit ==
  ASSUME HistoryInv, RowsInv, tx = NoTx, NEW is \in Seq(AskedItems)
  PROVE  /\ WithItemList(is) \in Graphs /\ Signable(WithItemList(is).items)
         /\ OptionsIdentified(WithItemList(is).options)
         /\ ValuesIdentified(WithItemList(is).options)
<1> DEFINE g == CurrentGraph
<1>1. GraphOf(rows) = g /\ Complete(g)
  BY CurrentStored, CurrentComplete
<1> HIDE DEF g
<1>2. g \in Graphs
  BY <1>1 DEF Complete
<1>3. WithItemList(is) = [options |-> g.options, items |-> is,
                          categories |-> g.categories, tags |-> g.tags]
  BY <1>1, <1>2, GraphFields DEF WithItemList
<1>4. is \in Seq(CatalogItem) /\ Signable(is)
  BY AskedSignable
<1>5. WithItemList(is) \in Graphs
  BY <1>2, <1>3, <1>4, GraphFields DEF Graphs
<1> QED
  BY <1>1, <1>3, <1>4, <1>5 DEF Complete

(* Removing an item leaves items that were there. *)
LEMMA RemovedAsked ==
  ASSUME NEW is \in Seq(AskedItems), NEW k \in DOMAIN is
  PROVE  RemoveAt(is, k) \in Seq(AskedItems)
BY DEF RemoveAt

-----------------------------------------------------------------------------
(* The flushes. *)

(* A table with the same items under the same SKUs. *)
LEMMA SameItemTable ==
  ASSUME NEW S, ItemTable(S), NEW T,
         \A t \in T : t = [id |-> t.id, sku |-> t.sku, sale |-> t.sale, sig |-> t.sig,
                           seq |-> t.seq, deleted |-> t.deleted],
         \A t \in T : \E s \in S : t.id = s.id /\ t.sku = s.sku,
         \A t, u \in T : t.id = u.id => t = u
  PROVE  ItemTable(T)
<1>1. Ids(T) \in SUBSET Ids(S)
  BY DEF Ids
<1>2. IsFiniteSet(Ids(T))
  BY <1>1, FS_Subset DEF ItemTable
<1>3. \A t \in T : t.id \in Nat /\ t.sku \in Text
  BY DEF ItemTable
<1>4. ASSUME NEW t \in T, NEW u \in T, t.id # u.id
      PROVE  Compared(t.sku) # Compared(u.sku)
  <2>1. PICK a \in S : t.id = a.id /\ t.sku = a.sku
    OBVIOUS
  <2>2. PICK b \in S : u.id = b.id /\ u.sku = b.sku
    OBVIOUS
  <2>3. Compared(a.sku) # Compared(b.sku)
    BY <1>4, <2>1, <2>2 DEF ItemTable
  <2> QED
    BY <2>1, <2>2, <2>3
<1> QED
  BY <1>2, <1>3, <1>4 DEF ItemTable

(* What the writer changes of a row of the table of items. *)
LEMMA ItemRowChanges ==
  ASSUME NEW i, i = [id |-> i.id, sku |-> i.sku, sale |-> i.sale, sig |-> i.sig,
                     seq |-> i.seq, deleted |-> i.deleted],
         NEW x, NEW y
  PROVE  /\ [i EXCEPT !.seq = x, !.sig = y] =
              [id |-> i.id, sku |-> i.sku, sale |-> i.sale, sig |-> y,
               seq |-> x, deleted |-> i.deleted]
         /\ [i EXCEPT !.sale = x, !.deleted = y] =
              [id |-> i.id, sku |-> i.sku, sale |-> x, sig |-> i.sig,
               seq |-> i.seq, deleted |-> y]
<1> DEFINE D == {"id", "sku", "sale", "sig", "seq", "deleted"}
<1>1. DOMAIN i = D
  <2>1. DOMAIN [id |-> i.id, sku |-> i.sku, sale |-> i.sale, sig |-> i.sig,
                seq |-> i.seq, deleted |-> i.deleted] = D
    OBVIOUS
  <2> HIDE DEF D
  <2> QED
    BY <2>1
<1>2. [i EXCEPT !.seq = x, !.sig = y] =
        [f \in D |-> IF f = "sig" THEN y ELSE IF f = "seq" THEN x ELSE i[f]]
  BY <1>1
<1>3. [i EXCEPT !.sale = x, !.deleted = y] =
        [f \in D |-> IF f = "deleted" THEN y ELSE IF f = "sale" THEN x ELSE i[f]]
  BY <1>1
<1>4. [f \in D |-> IF f = "sig" THEN y ELSE IF f = "seq" THEN x ELSE i[f]] =
        [id |-> i.id, sku |-> i.sku, sale |-> i.sale, sig |-> y, seq |-> x, deleted |-> i.deleted]
  OBVIOUS
<1>5. [f \in D |-> IF f = "deleted" THEN y ELSE IF f = "sale" THEN x ELSE i[f]] =
        [id |-> i.id, sku |-> i.sku, sale |-> x, sig |-> i.sig, seq |-> i.seq, deleted |-> y]
  OBVIOUS
<1> QED
  BY <1>2, <1>3, <1>4, <1>5

LEMMA StagedItemsKept ==
  ASSUME ItemTable(rows.items)
  PROVE  ItemTable(StagedItems) /\ Kept(rows.items, StagedItems) /\ Kept(StagedItems, rows.items)
<1> DEFINE free == (0 .. Top) \ {i.seq : i \in rows.items}
           place(i) == CHOOSE n \in free :
             Cardinality({m \in free : m > n}) = Place(rows.items, i)
           sign(i) == [item |-> i.id, revision |-> Revision]
           row(i) == [id |-> i.id, sku |-> i.sku, sale |-> i.sale, sig |-> sign(i),
                      seq |-> place(i), deleted |-> i.deleted]
<1>1. StagedItems = {[i EXCEPT !.seq = place(i), !.sig = sign(i)] : i \in rows.items}
  BY DEF StagedItems
<1>2. ASSUME NEW i \in rows.items
      PROVE  [i EXCEPT !.seq = place(i), !.sig = sign(i)] = row(i)
  <2>1. i = [id |-> i.id, sku |-> i.sku, sale |-> i.sale, sig |-> i.sig,
             seq |-> i.seq, deleted |-> i.deleted]
    BY DEF ItemTable
  <2> HIDE DEF place, sign
  <2> QED
    BY <2>1, ItemRowChanges
<1> HIDE DEF place, sign
<1>3. StagedItems = {row(i) : i \in rows.items}
  <2> HIDE DEF row
  <2> QED
    BY <1>1, <1>2
<1>4. \A t \in StagedItems : \E i \in rows.items : t = row(i)
  BY <1>3
<1>5. \A t, u \in StagedItems : t.id = u.id => t = u
  BY <1>4 DEF ItemTable
<1>6. ItemTable(StagedItems)
  <2>1. \A t \in StagedItems :
          t = [id |-> t.id, sku |-> t.sku, sale |-> t.sale, sig |-> t.sig,
               seq |-> t.seq, deleted |-> t.deleted]
    BY <1>4
  <2>2. \A t \in StagedItems : \E i \in rows.items : t.id = i.id /\ t.sku = i.sku
    BY <1>4
  <2> QED
    BY <1>5, <2>1, <2>2, SameItemTable
<1>7. Kept(rows.items, StagedItems)
  <2>1. \A i \in rows.items : row(i) \in StagedItems /\ row(i).id = i.id /\ row(i).sku = i.sku
    BY <1>3
  <2> HIDE DEF row
  <2> QED
    BY <2>1 DEF Kept
<1>8. Kept(StagedItems, rows.items)
  BY <1>4 DEF Kept
<1> QED
  BY <1>6, <1>7, <1>8

(* What each flush makes of the tables. *)
LEMMA FlushedTables ==
  ASSUME DOMAIN rows = Tables, NEW g
  PROVE  /\ DOMAIN Staged(g) = Tables /\ Staged(g).items = StagedItems
         /\ DOMAIN Trimmed(g) = Tables /\ Trimmed(g).items = rows.items
         /\ Trimmed(g).options = {o \in rows.options : o.id \in Ids(Range(g.options))}
         /\ Trimmed(g).values = {v \in rows.values : v.id \in ValueIds(g)}
         /\ Trimmed(g).labels =
              {l \in rows.labels : \E m \in LabelRows(g) : m.kind = l.kind /\ m.id = l.id}
         /\ DOMAIN WithOptions(g) = Tables /\ WithOptions(g).items = rows.items
         /\ WithOptions(g).options =
              {o \in rows.options : o.id \notin Ids(OptionRows(g))} \cup OptionRows(g)
         /\ WithOptions(g).values =
              {v \in rows.values : v.id \notin Ids(AllValueRows(g))} \cup AllValueRows(g)
         /\ WithOptions(g).labels =
              {l \in rows.labels : ~\E m \in LabelRows(g) : m.kind = l.kind /\ m.id = l.id}
                \cup LabelRows(g)
         /\ DOMAIN WithItems(g) = Tables
         /\ WithItems(g).options = rows.options /\ WithItems(g).values = rows.values
         /\ WithItems(g).labels = rows.labels
         /\ WithItems(g).items =
              {[i EXCEPT !.sale = "DENY", !.deleted = TRUE] :
                 i \in {i \in rows.items : i.id \notin Ids(Range(g.items))}}
                \cup ItemRows(WithSkus(g))
         /\ DOMAIN WithSelections(g) = Tables
         /\ WithSelections(g).options = rows.options /\ WithSelections(g).values = rows.values
         /\ WithSelections(g).labels = rows.labels /\ WithSelections(g).items = rows.items
         /\ WithSelections(g).selections = SelectionRows(g)
<1>1. DOMAIN Staged(g) = Tables /\ Staged(g).items = StagedItems
  BY DEF Staged, Tables
<1>2. /\ DOMAIN Trimmed(g) = Tables /\ Trimmed(g).items = rows.items
      /\ Trimmed(g).options = {o \in rows.options : o.id \in Ids(Range(g.options))}
      /\ Trimmed(g).values = {v \in rows.values : v.id \in ValueIds(g)}
      /\ Trimmed(g).labels =
           {l \in rows.labels : \E m \in LabelRows(g) : m.kind = l.kind /\ m.id = l.id}
  BY DEF Trimmed, Tables
<1>3. /\ DOMAIN WithOptions(g) = Tables /\ WithOptions(g).items = rows.items
      /\ WithOptions(g).options =
           {o \in rows.options : o.id \notin Ids(OptionRows(g))} \cup OptionRows(g)
      /\ WithOptions(g).values =
           {v \in rows.values : v.id \notin Ids(AllValueRows(g))} \cup AllValueRows(g)
      /\ WithOptions(g).labels =
           {l \in rows.labels : ~\E m \in LabelRows(g) : m.kind = l.kind /\ m.id = l.id}
             \cup LabelRows(g)
  BY DEF WithOptions, Tables
<1>4. /\ DOMAIN WithItems(g) = Tables
      /\ WithItems(g).options = rows.options /\ WithItems(g).values = rows.values
      /\ WithItems(g).labels = rows.labels
      /\ WithItems(g).items =
           {[i EXCEPT !.sale = "DENY", !.deleted = TRUE] :
              i \in {i \in rows.items : i.id \notin Ids(Range(g.items))}}
             \cup ItemRows(WithSkus(g))
  BY DEF WithItems, Tables
<1>5. /\ DOMAIN WithSelections(g) = Tables
      /\ WithSelections(g).options = rows.options /\ WithSelections(g).values = rows.values
      /\ WithSelections(g).labels = rows.labels /\ WithSelections(g).items = rows.items
      /\ WithSelections(g).selections = SelectionRows(g)
  BY DEF WithSelections, Tables
<1> QED
  BY <1>1, <1>2, <1>3, <1>4, <1>5

(* With the unused rows gone, what is written is all there is.             *)
LEMMA OptionsWritten ==
  ASSUME DOMAIN rows = Tables, NEW g,
         \A o \in rows.options : o.id \in Ids(Range(g.options)),
         \A v \in rows.values : v.id \in ValueIds(g),
         \A l \in rows.labels : \E m \in LabelRows(g) : m.kind = l.kind /\ m.id = l.id
  PROVE  /\ WithOptions(g).options = OptionRows(g)
         /\ WithOptions(g).values = AllValueRows(g)
         /\ WithOptions(g).labels = LabelRows(g)
<1>1. \A n \in Ids(Range(g.options)) : n \in Ids(OptionRows(g))
  <2>1. SUFFICES ASSUME NEW k \in DOMAIN g.options
                 PROVE  g.options[k].id \in Ids(OptionRows(g))
    BY DEF Ids, Range
  <2> DEFINE row == [id |-> g.options[k].id, code |-> g.options[k].code, name |-> g.options[k].name,
                     required |-> g.options[k].required, seq |-> k - 1]
  <2>2. row \in OptionRows(g) /\ row.id = g.options[k].id
    BY DEF OptionRows
  <2> HIDE DEF row
  <2> QED
    BY <2>2 DEF Ids
<1>2. \A n \in ValueIds(g) : n \in Ids(AllValueRows(g))
  <2>1. SUFFICES ASSUME NEW k \in DOMAIN g.options, NEW v \in DOMAIN g.options[k].values
                 PROVE  g.options[k].values[v].id \in Ids(AllValueRows(g))
    BY DEF ValueIds, Ids, Range
  <2> DEFINE row == [id |-> g.options[k].values[v].id, option |-> g.options[k].id,
                     code |-> g.options[k].values[v].code,
                     name |-> g.options[k].values[v].name, seq |-> v - 1]
  <2>2. row \in ValueRows(g.options[k]) /\ row.id = g.options[k].values[v].id
    BY DEF ValueRows
  <2> HIDE DEF row
  <2>3. row \in AllValueRows(g)
    BY <2>2 DEF AllValueRows, Range
  <2> QED
    BY <2>2, <2>3 DEF Ids
<1>3. {o \in rows.options : o.id \notin Ids(OptionRows(g))} = {}
  BY <1>1
<1>4. {v \in rows.values : v.id \notin Ids(AllValueRows(g))} = {}
  BY <1>2
<1>5. {l \in rows.labels : ~\E m \in LabelRows(g) : m.kind = l.kind /\ m.id = l.id} = {}
  OBVIOUS
<1>6. /\ WithOptions(g).options =
           {o \in rows.options : o.id \notin Ids(OptionRows(g))} \cup OptionRows(g)
      /\ WithOptions(g).values =
           {v \in rows.values : v.id \notin Ids(AllValueRows(g))} \cup AllValueRows(g)
      /\ WithOptions(g).labels =
           {l \in rows.labels : ~\E m \in LabelRows(g) : m.kind = l.kind /\ m.id = l.id}
             \cup LabelRows(g)
  BY FlushedTables
<1>7. WithOptions(g).options = OptionRows(g)
  BY <1>3, <1>6
<1>8. WithOptions(g).values = AllValueRows(g)
  BY <1>4, <1>6
<1>9. WithOptions(g).labels = LabelRows(g)
  BY <1>5, <1>6
<1> QED
  BY <1>7, <1>8, <1>9

LEMMA LabelledItems ==
  ASSUME NEW g \in Graphs, NEW S
  PROVE  /\ Labelled(g, S) =
              [options |-> g.options,
               items |-> [k \in DOMAIN g.items |->
                 [id |-> g.items[k].id, sku |-> TheRow(S, g.items[k].id).sku,
                  sale |-> g.items[k].sale, sig |-> g.items[k].sig, sel |-> g.items[k].sel]],
               categories |-> g.categories, tags |-> g.tags]
<1>1. \A k \in DOMAIN g.items :
        [g.items[k] EXCEPT !.sku = TheRow(S, g.items[k].id).sku] =
          [id |-> g.items[k].id, sku |-> TheRow(S, g.items[k].id).sku,
           sale |-> g.items[k].sale, sig |-> g.items[k].sig, sel |-> g.items[k].sel]
  <2>1. \A i \in CatalogItem : \A s :
          [i EXCEPT !.sku = s] = [id |-> i.id, sku |-> s, sale |-> i.sale, sig |-> i.sig, sel |-> i.sel]
    BY DEF CatalogItem
  <2>2. \A k \in DOMAIN g.items : g.items[k] \in CatalogItem
    BY GraphFields, SeqElements
  <2> QED
    BY <2>1, <2>2
<1> DEFINE is == [k \in DOMAIN g.items |->
                   [id |-> g.items[k].id, sku |-> TheRow(S, g.items[k].id).sku,
                    sale |-> g.items[k].sale, sig |-> g.items[k].sig, sel |-> g.items[k].sel]]
<1>2. Labelled(g, S) = [g EXCEPT !.items = is]
  BY <1>1 DEF Labelled
<1> HIDE DEF is
<1>3. Labelled(g, S) =
        [options |-> g.options, items |-> is, categories |-> g.categories, tags |-> g.tags]
  BY <1>2, GraphFields
<1> QED
  BY <1>3 DEF is

(* The rows applyItems leaves: those that are no more, and the graph's.    *)
DeadRow(i) ==
  [id |-> i.id, sku |-> i.sku, sale |-> "DENY", sig |-> i.sig, seq |-> i.seq, deleted |-> TRUE]
WrittenRow(g, k) ==
  [id |-> g.items[k].id, sku |-> SkuFor(g.items[k]), sale |-> g.items[k].sale,
   sig |-> g.items[k].sig, seq |-> k - 1, deleted |-> FALSE]
Gone(g) == {i \in rows.items : i.id \notin Ids(Range(g.items))}

LEMMA WrittenItems ==
  ASSUME DOMAIN rows = Tables, ItemTable(rows.items), NEW g \in Graphs
  PROVE  WithItems(g).items =
           {DeadRow(i) : i \in Gone(g)} \cup {WrittenRow(g, k) : k \in DOMAIN g.items}
<1> DEFINE T == WithItems(g).items
           gone == Gone(g)
           dead(i) == DeadRow(i)
           row(k) == WrittenRow(g, k)
<1>0. g.items \in Seq(CatalogItem)
  BY GraphFields
<1>1. \A k \in DOMAIN g.items : g.items[k] \in CatalogItem
  BY <1>0, SeqElements
<1>2. \A i \in rows.items : [i EXCEPT !.sale = "DENY", !.deleted = TRUE] = dead(i)
  <2>1. SUFFICES ASSUME NEW i \in rows.items
                 PROVE  [i EXCEPT !.sale = "DENY", !.deleted = TRUE] = dead(i)
    OBVIOUS
  <2>2. i = [id |-> i.id, sku |-> i.sku, sale |-> i.sale, sig |-> i.sig,
             seq |-> i.seq, deleted |-> i.deleted]
    BY DEF ItemTable
  <2> QED
    BY <2>2, ItemRowChanges DEF DeadRow
<1>3. /\ DOMAIN WithSkus(g).items = DOMAIN g.items
      /\ \A k \in DOMAIN g.items :
           /\ WithSkus(g).items[k].id = g.items[k].id
           /\ WithSkus(g).items[k].sku = SkuFor(g.items[k])
           /\ WithSkus(g).items[k].sale = g.items[k].sale
           /\ WithSkus(g).items[k].sig = g.items[k].sig
  <2> DEFINE is == [k \in DOMAIN g.items |-> [g.items[k] EXCEPT !.sku = SkuFor(g.items[k])]]
  <2>1. WithSkus(g).items = is
    BY <1>0, GraphFields DEF WithSkus
  <2>2. \A i \in CatalogItem : \A s :
          [i EXCEPT !.sku = s] = [id |-> i.id, sku |-> s, sale |-> i.sale, sig |-> i.sig, sel |-> i.sel]
    BY DEF CatalogItem
  <2>3. DOMAIN is = DOMAIN g.items /\ \A k \in DOMAIN g.items :
          is[k] = [id |-> g.items[k].id, sku |-> SkuFor(g.items[k]), sale |-> g.items[k].sale,
                   sig |-> g.items[k].sig, sel |-> g.items[k].sel]
    BY <1>1, <2>2
  <2> HIDE DEF is
  <2>4. \A k \in DOMAIN g.items :
          /\ is[k].id = g.items[k].id /\ is[k].sku = SkuFor(g.items[k])
          /\ is[k].sale = g.items[k].sale /\ is[k].sig = g.items[k].sig
    <3>1. SUFFICES ASSUME NEW k \in DOMAIN g.items
                   PROVE  /\ is[k].id = g.items[k].id /\ is[k].sku = SkuFor(g.items[k])
                          /\ is[k].sale = g.items[k].sale /\ is[k].sig = g.items[k].sig
      OBVIOUS
    <3>2. is[k] = [id |-> g.items[k].id, sku |-> SkuFor(g.items[k]), sale |-> g.items[k].sale,
                   sig |-> g.items[k].sig, sel |-> g.items[k].sel]
      BY <2>3
    <3> QED
      BY <3>2
  <2> QED
    BY <2>1, <2>3, <2>4
<1>4. ItemRows(WithSkus(g)) = {row(k) : k \in DOMAIN g.items}
  BY <1>3 DEF ItemRows, WrittenRow
<1>5. T = {dead(i) : i \in gone} \cup {row(k) : k \in DOMAIN g.items}
  <2>1. T = {[i EXCEPT !.sale = "DENY", !.deleted = TRUE] : i \in gone} \cup ItemRows(WithSkus(g))
    BY FlushedTables DEF Gone
  <2>2. {[i EXCEPT !.sale = "DENY", !.deleted = TRUE] : i \in gone} = {dead(i) : i \in gone}
    <3>1. \A i \in gone : [i EXCEPT !.sale = "DENY", !.deleted = TRUE] = dead(i)
      BY <1>2 DEF Gone
    <3> HIDE DEF gone, dead
    <3> QED
      BY <3>1
  <2> HIDE DEF T, gone, dead, row
  <2> QED
    BY <1>4, <2>1, <2>2
<1> QED
  BY <1>5

(* The items written are those of the graph under the SKUs they keep or    *)
(* are given; all others stay, deleted.                                    *)
LEMMA ItemsWritten ==
  ASSUME DOMAIN rows = Tables, ItemTable(rows.items), NEW g, Complete(g),
         SkusAgree(g.items, rows.items), ~ItemsCollide(rows.items, WithItems(g).items)
  PROVE  /\ ItemTable(WithItems(g).items)
         /\ Kept(rows.items, WithItems(g).items)
         /\ LiveItems(WithItems(g)) = ItemRows(Labelled(g, WithItems(g).items))
         /\ SkusAgree(g.items, WithItems(g).items)
<1> DEFINE T == WithItems(g).items
           gone == {i \in rows.items : i.id \notin Ids(Range(g.items))}
           dead(i) == [id |-> i.id, sku |-> i.sku, sale |-> "DENY", sig |-> i.sig,
                       seq |-> i.seq, deleted |-> TRUE]
           row(k) == [id |-> g.items[k].id, sku |-> SkuFor(g.items[k]),
                      sale |-> g.items[k].sale, sig |-> g.items[k].sig,
                      seq |-> k - 1, deleted |-> FALSE]
<1>0. g \in Graphs /\ g.items \in Seq(CatalogItem) /\ ItemsIdentified(g.items)
  BY GraphFields DEF Complete
<1>1. \A k \in DOMAIN g.items : g.items[k] \in CatalogItem
  BY <1>0, SeqElements
<1>5. T = {dead(i) : i \in gone} \cup {row(k) : k \in DOMAIN g.items}
  BY <1>0, WrittenItems DEF DeadRow, WrittenRow, Gone
<1>6. ~ItemsCollide(rows.items, T)
  OBVIOUS
<1> HIDE DEF T
<1>7. \A t \in T : (\E i \in gone : t = dead(i)) \/ (\E k \in DOMAIN g.items : t = row(k))
  BY <1>5
<1>8. /\ \A i \in gone : dead(i) \in T
      /\ \A k \in DOMAIN g.items : row(k) \in T
  BY <1>5
<1>9. \A k \in DOMAIN g.items : g.items[k].id \in Ids(Range(g.items))
  BY DEF Ids, Range
<1>10. \A t, u \in T : t.id = u.id => t = u
  <2>1. SUFFICES ASSUME NEW t \in T, NEW u \in T, t.id = u.id
                 PROVE  t = u
    OBVIOUS
  <2>2. CASE \E i \in gone : t = dead(i)
    <3>1. PICK i \in gone : t = dead(i)
      BY <2>2
    <3>2. u.id \notin Ids(Range(g.items))
      BY <2>1, <3>1
    <3>3. PICK j \in gone : u = dead(j)
      BY <1>7, <1>9, <3>2
    <3>4. i = j
      BY <2>1, <3>1, <3>3 DEF ItemTable
    <3> QED
      BY <3>1, <3>3, <3>4
  <2>3. CASE \E k \in DOMAIN g.items : t = row(k)
    <3>1. PICK k \in DOMAIN g.items : t = row(k)
      BY <2>3
    <3>2. u.id \in Ids(Range(g.items))
      BY <1>9, <2>1, <3>1
    <3>3. PICK j \in DOMAIN g.items : u = row(j)
      BY <1>7, <3>2
    <3>4. g.items[j].id = g.items[k].id
      BY <2>1, <3>1, <3>3
    <3>5. j = k
      BY <1>0, <3>4 DEF ItemsIdentified
    <3> QED
      BY <3>1, <3>3, <3>5
  <2> QED
    BY <1>7, <2>2, <2>3
<1>11. \A k \in DOMAIN g.items : \A i \in rows.items :
         i.id = g.items[k].id => SkuFor(g.items[k]) = i.sku
  BY TheItem DEF SkuFor, Ids
<1>12. \A k \in DOMAIN g.items :
         g.items[k].id \notin Ids(rows.items) /\ g.items[k].sku # NoSku =>
           SkuFor(g.items[k]) = g.items[k].sku
  BY DEF SkuFor
<1>13. \A k \in DOMAIN g.items : SkuFor(g.items[k]) \in Text
  <2>1. SUFFICES ASSUME NEW k \in DOMAIN g.items
                 PROVE  SkuFor(g.items[k]) \in Text
    OBVIOUS
  <2>2. CASE g.items[k].id \in Ids(rows.items)
    <3>1. PICK i \in rows.items : i.id = g.items[k].id
      BY <2>2 DEF Ids
    <3>2. i.sku \in Text
      BY DEF ItemTable
    <3> QED
      BY <1>11, <3>1, <3>2
  <2>3. CASE g.items[k].id \notin Ids(rows.items)
    <3>1. g.items[k].id \in Nat /\ g.items[k].sku \in Text \cup {NoSku}
      BY <1>1 DEF CatalogItem
    <3> QED
      BY <2>3, <3>1 DEF SkuFor, Text
  <2> QED
    BY <2>2, <2>3
<1>14. ItemTable(T)
  <2>1. IsFiniteSet(Ids(T))
    <3>1. Ids(T) \in SUBSET (Ids(rows.items) \cup Ids(Range(g.items)))
      <4>1. \A t \in T : t.id \in Ids(rows.items) \cup Ids(Range(g.items))
        BY <1>7, <1>9 DEF Ids
      <4> QED
        BY <4>1 DEF Ids
    <3>2. IsFiniteSet(Ids(rows.items))
      BY DEF ItemTable
    <3>3. IsFiniteSet(Ids(Range(g.items)))
      BY <1>0, ListFinite, ListedIdsFinite
    <3>4. IsFiniteSet(Ids(rows.items) \cup Ids(Range(g.items)))
      BY <3>2, <3>3, FS_Union
    <3> QED
      BY <3>1, <3>4, FS_Subset
  <2>2. \A t \in T :
          /\ t = [id |-> t.id, sku |-> t.sku, sale |-> t.sale, sig |-> t.sig,
                  seq |-> t.seq, deleted |-> t.deleted]
          /\ t.id \in Nat /\ t.sku \in Text
    <3>1. \A i \in gone : i.id \in Nat /\ i.sku \in Text
      BY DEF ItemTable
    <3>2. \A k \in DOMAIN g.items : g.items[k].id \in Nat
      BY <1>1, ItemFields
    <3> QED
      BY <1>7, <1>13, <3>1, <3>2
  <2>3. ASSUME NEW t \in T, NEW u \in T, t.id # u.id
        PROVE  Compared(t.sku) # Compared(u.sku)
    <3>1. CASE t \in rows.items /\ u \in rows.items
      BY <2>3, <3>1 DEF ItemTable
    <3>2. CASE t \notin rows.items
      BY <1>6, <2>3, <3>2 DEF ItemsCollide, Others
    <3>3. CASE u \notin rows.items
      BY <1>6, <2>3, <3>3 DEF ItemsCollide, Others
    <3> QED
      BY <3>1, <3>2, <3>3
  <2> QED
    BY <1>10, <2>1, <2>2, <2>3 DEF ItemTable
<1>15. Kept(rows.items, T)
  <2>1. SUFFICES ASSUME NEW i \in rows.items
                 PROVE  \E t \in T : t.id = i.id /\ t.sku = i.sku
    BY DEF Kept
  <2>2. CASE i \in gone
    <3>1. dead(i) \in T /\ dead(i).id = i.id /\ dead(i).sku = i.sku
      BY <1>8, <2>2
    <3> HIDE DEF dead
    <3> QED
      BY <3>1
  <2>3. CASE i \notin gone
    <3>1. PICK k \in DOMAIN g.items : g.items[k].id = i.id
      BY <2>3 DEF Ids, Range
    <3>2. row(k) \in T /\ row(k).id = i.id /\ row(k).sku = i.sku
      BY <1>8, <1>11, <3>1
    <3> HIDE DEF row
    <3> QED
      BY <3>2
  <2> QED
    BY <2>2, <2>3
<1>16. SkusAgree(g.items, T)
  <2>1. SUFFICES ASSUME NEW k \in DOMAIN g.items, g.items[k].sku # NoSku,
                        NEW t \in T, t.id = g.items[k].id
                 PROVE  t.sku = g.items[k].sku
    BY DEF SkusAgree
  <2>2. t = row(k)
    <3>1. row(k) \in T /\ row(k).id = t.id
      BY <1>8, <2>1
    <3> HIDE DEF row
    <3> QED
      BY <1>10, <3>1
  <2>3. CASE g.items[k].id \in Ids(rows.items)
    <3>1. PICK i \in rows.items : i.id = g.items[k].id
      BY <2>3 DEF Ids
    <3>2. i.sku = g.items[k].sku
      BY <2>1, <3>1 DEF SkusAgree
    <3> QED
      BY <1>11, <2>2, <3>1, <3>2
  <2>4. CASE g.items[k].id \notin Ids(rows.items)
    BY <1>12, <2>1, <2>2, <2>4
  <2> QED
    BY <2>3, <2>4
<1>17. LiveItems(WithItems(g)) = {row(k) : k \in DOMAIN g.items}
  <2>1. \A t \in T : ~t.deleted => \E k \in DOMAIN g.items : t = row(k)
    BY <1>7
  <2>2. \A k \in DOMAIN g.items : row(k) \in T /\ ~row(k).deleted
    BY <1>8
  <2>3. LiveItems(WithItems(g)) = {t \in T : ~t.deleted}
    BY DEF LiveItems, T
  <2> HIDE DEF row
  <2> QED
    BY <2>1, <2>2, <2>3
<1>18. \A k \in DOMAIN g.items : TheRow(T, g.items[k].id).sku = SkuFor(g.items[k])
  <2>1. SUFFICES ASSUME NEW k \in DOMAIN g.items
                 PROVE  TheRow(T, g.items[k].id).sku = SkuFor(g.items[k])
    OBVIOUS
  <2>2. row(k) \in T /\ row(k).id = g.items[k].id /\ row(k).sku = SkuFor(g.items[k])
    BY <1>8
  <2> HIDE DEF row
  <2>3. TheRow(T, g.items[k].id) = row(k)
    BY <1>14, <2>2, TheItem
  <2> QED
    BY <2>2, <2>3
<1>19. ItemRows(Labelled(g, T)) = {row(k) : k \in DOMAIN g.items}
  <2> DEFINE h == Labelled(g, T)
  <2>1. DOMAIN h.items = DOMAIN g.items /\ \A k \in DOMAIN g.items :
          h.items[k] = [id |-> g.items[k].id, sku |-> TheRow(T, g.items[k].id).sku,
                        sale |-> g.items[k].sale, sig |-> g.items[k].sig, sel |-> g.items[k].sel]
    BY <1>0, LabelledItems
  <2> HIDE DEF h
  <2>2. \A k \in DOMAIN g.items :
          [id |-> h.items[k].id, sku |-> h.items[k].sku, sale |-> h.items[k].sale,
           sig |-> h.items[k].sig, seq |-> k - 1, deleted |-> FALSE] = row(k)
    <3>1. SUFFICES ASSUME NEW k \in DOMAIN g.items
                   PROVE  [id |-> h.items[k].id, sku |-> h.items[k].sku, sale |-> h.items[k].sale,
                           sig |-> h.items[k].sig, seq |-> k - 1, deleted |-> FALSE] = row(k)
      OBVIOUS
    <3>2. h.items[k] = [id |-> g.items[k].id, sku |-> TheRow(T, g.items[k].id).sku,
                        sale |-> g.items[k].sale, sig |-> g.items[k].sig, sel |-> g.items[k].sel]
      BY <2>1
    <3>3. TheRow(T, g.items[k].id).sku = SkuFor(g.items[k])
      BY <1>18
    <3>4. /\ h.items[k].id = g.items[k].id /\ h.items[k].sku = SkuFor(g.items[k])
          /\ h.items[k].sale = g.items[k].sale /\ h.items[k].sig = g.items[k].sig
      BY <3>2, <3>3
    <3> QED
      BY <3>4
  <2>3. ItemRows(h) = {row(k) : k \in DOMAIN g.items}
    <3> HIDE DEF row
    <3> QED
      BY <2>1, <2>2 DEF ItemRows
  <2> QED
    BY <2>3 DEF h
<1> QED
  BY <1>14, <1>15, <1>16, <1>17, <1>19 DEF T

-----------------------------------------------------------------------------
(* The commit. *)

(* The graph under the SKUs of the table is the same graph for the rest.   *)
LEMMA LabelledComplete ==
  ASSUME NEW g, Complete(g), NEW S, ItemTable(S),
         \A k \in DOMAIN g.items : g.items[k].id \in Ids(S)
  PROVE  /\ Complete(Labelled(g, S))
         /\ OptionRows(Labelled(g, S)) = OptionRows(g)
         /\ AllValueRows(Labelled(g, S)) = AllValueRows(g)
         /\ LabelRows(Labelled(g, S)) = LabelRows(g)
         /\ SelectionRows(Labelled(g, S)) = SelectionRows(g)
<1> DEFINE sku(k) == TheRow(S, g.items[k].id).sku
           is == [k \in DOMAIN g.items |->
                   [id |-> g.items[k].id, sku |-> sku(k),
                    sale |-> g.items[k].sale, sig |-> g.items[k].sig, sel |-> g.items[k].sel]]
           h == Labelled(g, S)
<1>1. g \in Graphs /\ g.items \in Seq(CatalogItem) /\ Valid(g)
  BY GraphFields DEF Complete
<1>2. h = [options |-> g.options, items |-> is, categories |-> g.categories, tags |-> g.tags]
  BY <1>1, LabelledItems
<1>3. \A j, k \in DOMAIN g.items :
        /\ sku(k) \in Text
        /\ j # k => sku(j) # sku(k)
  <2>1. ASSUME NEW k \in DOMAIN g.items
        PROVE  TheRow(S, g.items[k].id) \in S /\ TheRow(S, g.items[k].id).id = g.items[k].id
    <3>1. PICK i \in S : i.id = g.items[k].id
      BY DEF Ids
    <3>2. TheRow(S, i.id) = i
      BY TheItem
    <3> QED
      BY <3>1, <3>2
  <2>2. ASSUME NEW j \in DOMAIN g.items, NEW k \in DOMAIN g.items, j # k
        PROVE  sku(j) # sku(k)
    <3>1. g.items[j].id # g.items[k].id
      BY <2>2 DEF Complete, ItemsIdentified
    <3>2. Compared(sku(j)) # Compared(sku(k))
      BY <2>1, <3>1 DEF ItemTable
    <3> QED
      BY <3>2
  <2>3. \A k \in DOMAIN g.items : sku(k) \in Text
    BY <2>1 DEF ItemTable
  <2> HIDE DEF sku
  <2> QED
    BY <2>2, <2>3
<1> HIDE DEF sku
<1>4. DOMAIN is = DOMAIN g.items /\ \A k \in DOMAIN g.items :
        is[k] = [id |-> g.items[k].id, sku |-> sku(k),
                 sale |-> g.items[k].sale, sig |-> g.items[k].sig, sel |-> g.items[k].sel]
  OBVIOUS
<1>5. is \in Seq(CatalogItem)
  <2>1. \A i \in CatalogItem : \A s \in Text :
          [id |-> i.id, sku |-> s, sale |-> i.sale, sig |-> i.sig, sel |-> i.sel] \in CatalogItem
    BY DEF CatalogItem
  <2>2. \A k \in DOMAIN g.items : is[k] \in CatalogItem
    BY <1>1, <1>3, <1>4, <2>1, SeqElements
  <2>3. Len(g.items) \in Nat /\ DOMAIN g.items = 1 .. Len(g.items)
    BY <1>1
  <2>4. is = [k \in DOMAIN g.items |-> is[k]]
    OBVIOUS
  <2> HIDE DEF is
  <2>5. is \in [1 .. Len(g.items) -> CatalogItem]
    BY <2>2, <2>3, <2>4
  <2> QED
    BY <2>3, <2>5
<1> HIDE DEF is, h
<1>6. \A k \in DOMAIN g.items :
        /\ is[k].id = g.items[k].id /\ is[k].sku = sku(k)
        /\ is[k].sig = g.items[k].sig /\ is[k].sel = g.items[k].sel
  <2>1. SUFFICES ASSUME NEW k \in DOMAIN g.items
                 PROVE  /\ is[k].id = g.items[k].id /\ is[k].sku = sku(k)
                        /\ is[k].sig = g.items[k].sig /\ is[k].sel = g.items[k].sel
    OBVIOUS
  <2>2. is[k] = [id |-> g.items[k].id, sku |-> sku(k),
                 sale |-> g.items[k].sale, sig |-> g.items[k].sig, sel |-> g.items[k].sel]
    BY <1>4
  <2> QED
    BY <2>2
<1>7. ItemsIdentified(is) /\ Signed(is)
  BY <1>4, <1>6 DEF Complete, ItemsIdentified, Signed
<1>8. ValidItems(is, g.options)
  <2>1. Field(is, "sig") = Field(g.items, "sig") /\ Field(is, "sel") = Field(g.items, "sel")
    BY <1>4, <1>6 DEF Field
  <2>2. GivenSkusDiffer(is)
    BY <1>3, <1>4, <1>6 DEF GivenSkusDiffer
  <2>3. GivenIdsDiffer(is)
    BY <1>7 DEF GivenIdsDiffer, ItemsIdentified
  <2>4. ValidItems(g.items, g.options)
    BY <1>1 DEF Valid
  <2>5. \A k \in DOMAIN is : ValidSelection(is[k].sel, g.options)
    BY <1>4, <1>6, <2>4 DEF ValidItems
  <2>6. Len(is) = Len(g.items)
    <3>1. DOMAIN is = DOMAIN g.items
      BY <1>4
    <3> HIDE DEF is
    <3> QED
      BY <1>1, <1>5, <3>1, SameLength
  <2> QED
    BY <2>1, <2>2, <2>3, <2>4, <2>5, <2>6 DEF ValidItems
<1>9. /\ h.options = g.options /\ h.items = is
      /\ h.categories = g.categories /\ h.tags = g.tags
  BY <1>2
<1>10. h \in Graphs
  <2>1. /\ g.options \in Seq(CatalogOption)
        /\ g.categories \in Seq(Codes) /\ g.tags \in Seq(Text)
    BY <1>1, GraphFields
  <2> QED
    BY <1>2, <1>5, <2>1 DEF Graphs
<1>11. Complete(h)
  BY <1>1, <1>7, <1>8, <1>9, <1>10 DEF Complete, Valid
<1>12. /\ OptionRows(h) = OptionRows(g) /\ AllValueRows(h) = AllValueRows(g)
       /\ LabelRows(h) = LabelRows(g)
  BY <1>9 DEF OptionRows, AllValueRows, LabelRows
<1>13. SelectionRows(h) = SelectionRows(g)
  <2> DEFINE Sel(k, p) == [item |-> g.items[k].id, option |-> OptionOf(g, p).id,
                           value |-> ValueOf(g, p).id]
  <2>1. \A p : OptionOf(h, p) = OptionOf(g, p) /\ ValueOf(h, p) = ValueOf(g, p)
    BY <1>9 DEF OptionOf, ValueOf
  <2>2. \A x : x \in SelectionRows(g) <=> \E k \in DOMAIN g.items : \E p \in g.items[k].sel : x = Sel(k, p)
    BY DEF SelectionRows, Range
  <2>3. \A x : x \in SelectionRows(h) <=> \E k \in DOMAIN is : \E p \in is[k].sel :
           x = [item |-> is[k].id, option |-> OptionOf(h, p).id, value |-> ValueOf(h, p).id]
    BY <1>9 DEF SelectionRows, Range
  <2>4. \A x : x \in SelectionRows(h) <=>
          \E k \in DOMAIN g.items : \E p \in g.items[k].sel : x = Sel(k, p)
    BY <1>4, <1>6, <2>1, <2>3
  <2> QED
    BY <2>2, <2>4
<1> QED
  BY <1>11, <1>12, <1>13 DEF h

LEMMA GraphTyped ==
  ASSUME NEW g, Complete(g)
  PROVE  g \in Graphs
BY DEF Complete

(* What a saved revision leaves behind.                                    *)
LEMMA SaveStep ==
  ASSUME HistoryInv, RowsInv, NEW h, Complete(h), NEW r, Stored(r, h), DOMAIN r = Tables,
         ItemTable(r.items), Kept(CommittedRows.items, r.items),
         NEW kind \in Kinds, NEW source \in Nat, NEW p \in Product,
         kind = "RESTORE" =>
           /\ source \in 1 .. Revision /\ h = history[source].graph
           /\ p = [history[source].product EXCEPT !.deleted = FALSE],
         Save(kind, source, p, r), tx' = NoTx
  PROVE  GraphInv'
<1> DEFINE e == [kind |-> kind, source |-> source, product |-> p, graph |-> h]
           n == Revision
<1>1. history' = Append(history, e) /\ product' = p /\ rows' = r
  BY StoredIsGraph DEF Save
<1>2. history \in Seq(Snapshot) /\ e \in Snapshot /\ e.graph = h /\ e.product = p /\ e.kind = kind
      /\ e.source = source
  BY GraphTyped DEF HistoryInv, Snapshot
<1> HIDE DEF e
<1>3. /\ history' \in Seq(Snapshot) /\ n \in Nat /\ Revision' = n + 1
      /\ DOMAIN history = 1 .. n /\ DOMAIN history' = 1 .. (n + 1)
      /\ history'[n + 1] = e /\ \A q \in 1 .. n : history'[q] = history[q]
  BY <1>1, <1>2 DEF Revision
<1> HIDE DEF n
<1>4. CurrentGraph' = h
  BY <1>2, <1>3 DEF CurrentGraph
<1>5. CommittedRows' = r
  BY <1>1 DEF CommittedRows
<1>6. HistoryInv'
  <2>1. \A q \in DOMAIN history' : Complete(history'[q].graph)
    BY <1>2, <1>3 DEF HistoryInv
  <2>2. \A q \in DOMAIN history' : history'[q].kind = "RESTORE" => Restored(q)'
    <3>1. SUFFICES ASSUME NEW q \in 1 .. (n + 1), history'[q].kind = "RESTORE"
                   PROVE  Restored(q)'
      BY <1>3
    <3>2. CASE q \in 1 .. n
      <4>1. history'[q] = history[q] /\ Restored(q)
        BY <1>3, <3>1, <3>2 DEF HistoryInv
      <4>2. history[q].source \in 1 .. n
        BY <1>3, <3>2, <4>1 DEF Restored
      <4> QED
        BY <1>3, <4>1, <4>2 DEF Restored
    <3>3. CASE q = n + 1
      <4>1. source \in 1 .. n /\ h = history[source].graph
            /\ p = [history[source].product EXCEPT !.deleted = FALSE]
        BY <1>2, <1>3, <3>1, <3>3 DEF n
      <4>2. history'[q] = e /\ history'[source] = history[source]
        BY <1>3, <3>3, <4>1
      <4>3. source \in 1 .. q - 1
        BY <1>3, <3>3, <4>1
      <4>4. /\ history'[q].source = source /\ history'[q].graph = h /\ history'[q].product = p
        BY <1>2, <4>2
      <4> QED
        BY <4>1, <4>2, <4>3, <4>4 DEF Restored
    <3> QED
      BY <1>3, <3>1, <3>2, <3>3
  <2>3. product' = IF Revision' = 0 THEN NoProduct ELSE history'[Revision'].product
    BY <1>1, <1>2, <1>3
  <2> QED
    BY <1>3, <2>1, <2>2, <2>3 DEF HistoryInv
<1>7. RowsInv'
  <2>1. \A q \in DOMAIN history' : Kept(Range(history'[q].graph.items), r.items)
    <3>1. SUFFICES ASSUME NEW q \in 1 .. (n + 1)
                   PROVE  Kept(Range(history'[q].graph.items), r.items)
      BY <1>3
    <3>2. CASE q \in 1 .. n
      <4>1. Kept(Range(history[q].graph.items), CommittedRows.items)
        BY <1>3, <3>2 DEF RowsInv
      <4> QED
        BY <1>3, <3>2, <4>1 DEF Kept
    <3>3. CASE q = n + 1
      <4>1. history'[q].graph = h
        BY <1>2, <1>3, <3>3
      <4>2. ASSUME NEW k \in DOMAIN h.items
            PROVE  \E j \in r.items : j.id = h.items[k].id /\ j.sku = h.items[k].sku
        <5> DEFINE row == [id |-> h.items[k].id, sku |-> h.items[k].sku, sale |-> h.items[k].sale,
                           sig |-> h.items[k].sig, seq |-> k - 1, deleted |-> FALSE]
        <5>1. row \in ItemRows(h) /\ row.id = h.items[k].id /\ row.sku = h.items[k].sku
          BY DEF ItemRows
        <5> HIDE DEF row
        <5>2. row \in r.items
          BY <5>1 DEF Stored, LiveItems
        <5> QED
          BY <5>1, <5>2
      <4> QED
        BY <4>1, <4>2 DEF Kept, Range
    <3> QED
      BY <1>3, <3>2, <3>3
  <2> QED
    <3>1. Revision' # 0
      BY <1>3
    <3> QED
      BY <1>1, <1>4, <1>5, <2>1, <3>1 DEF RowsInv
<1>8. TxInv' /\ PhaseInv'
  BY DEF TxInv, PhaseInv
<1> QED
  BY <1>6, <1>7, <1>8 DEF GraphInv

(* A step that saves nothing leaves the history and its rows alone.        *)
LEMMA NothingSaved ==
  ASSUME HistoryInv, RowsInv, UNCHANGED <<product, history>>,
         CommittedRows' = CommittedRows, DOMAIN rows' = Tables
  PROVE  HistoryInv' /\ RowsInv'
<1>1. HistoryInv'
  BY DEF HistoryInv, Restored, Revision
<1>2. CurrentGraph' = CurrentGraph
  BY DEF CurrentGraph, Revision
<1>3. RowsInv'
  <2>1. Revision' = Revision
    BY DEF Revision
  <2> QED
    BY <1>2, <2>1 DEF RowsInv
<1> QED
  BY <1>1, <1>3

-----------------------------------------------------------------------------
(* The steps. *)

LEMMA TxOpen ==
  NoTx.phase = "none" /\ "none" \notin Phases
BY DEF NoTx, Phases

LEMMA ProductTyped ==
  ASSUME HistoryInv, Revision # 0
  PROVE  product \in Product /\ Revision \in DOMAIN history
<1>1. Revision \in DOMAIN history
  BY DEF HistoryInv, Revision
<1>2. history[Revision] \in Snapshot
  BY <1>1 DEF HistoryInv
<1>3. history[Revision].product \in Product
  BY <1>2 DEF Snapshot
<1> QED
  BY <1>1, <1>3 DEF HistoryInv

(* What update and delete make of a product. *)
LEMMA ProductChanged ==
  ASSUME NEW q \in Product, NEW s \in Statuses, NEW slug \in Slugs, NEW d \in BOOLEAN
  PROVE  /\ [q EXCEPT !.status = s, !.slug = slug] =
              [status |-> s, deleted |-> q.deleted, slug |-> slug]
         /\ [q EXCEPT !.status = s, !.deleted = d] =
              [status |-> s, deleted |-> d, slug |-> q.slug]
         /\ q.deleted \in BOOLEAN /\ q.slug \in Slugs
<1>1. /\ q = [status |-> q.status, deleted |-> q.deleted, slug |-> q.slug]
      /\ q.deleted \in BOOLEAN /\ q.slug \in Slugs
  BY DEF Product
<1> DEFINE a == q.status
           b == q.deleted
           c == q.slug
           D == {"status", "deleted", "slug"}
<1>2. q = [status |-> a, deleted |-> b, slug |-> c]
  BY <1>1
<1> HIDE DEF a, b, c
<1>3. DOMAIN q = D /\ q.status = a /\ q.deleted = b /\ q.slug = c
  <2>1. DOMAIN [status |-> a, deleted |-> b, slug |-> c] = D
    OBVIOUS
  <2> HIDE DEF D
  <2> QED
    BY <1>2, <2>1
<1>4. [q EXCEPT !.status = s, !.slug = slug] = [status |-> s, deleted |-> b, slug |-> slug]
  <2>1. [q EXCEPT !.status = s, !.slug = slug] =
          [f \in D |-> IF f = "slug" THEN slug ELSE IF f = "status" THEN s ELSE q[f]]
    BY <1>3
  <2>2. [f \in D |-> IF f = "slug" THEN slug ELSE IF f = "status" THEN s ELSE q[f]] =
          [status |-> s, deleted |-> b, slug |-> slug]
    BY <1>3
  <2> QED
    BY <2>1, <2>2
<1>5. [q EXCEPT !.status = s, !.deleted = d] = [status |-> s, deleted |-> d, slug |-> c]
  <2>1. [q EXCEPT !.status = s, !.deleted = d] =
          [f \in D |-> IF f = "deleted" THEN d ELSE IF f = "status" THEN s ELSE q[f]]
    BY <1>3
  <2>2. [f \in D |-> IF f = "deleted" THEN d ELSE IF f = "status" THEN s ELSE q[f]] =
          [status |-> s, deleted |-> d, slug |-> c]
    BY <1>3
  <2> QED
    BY <2>1, <2>2
<1> QED
  BY <1>1, <1>4, <1>5 DEF b, c

LEMMA EmptyStored ==
  Stored(NoRows, EmptyGraph) /\ DOMAIN NoRows = Tables /\ ItemTable(NoRows.items)
<1>1. /\ NoRows.options = {} /\ NoRows.values = {} /\ NoRows.items = {}
      /\ NoRows.selections = {} /\ NoRows.labels = {} /\ DOMAIN NoRows = Tables
  BY DEF NoRows, Tables
<1>2. /\ EmptyGraph.options = <<>> /\ EmptyGraph.items = <<>>
      /\ EmptyGraph.categories = <<>> /\ EmptyGraph.tags = <<>>
  BY DEF EmptyGraph
<1>3. OptionRows(EmptyGraph) = {} /\ ItemRows(EmptyGraph) = {}
  BY <1>2 DEF OptionRows, ItemRows
<1>4. AllValueRows(EmptyGraph) = {} /\ SelectionRows(EmptyGraph) = {}
  BY <1>2 DEF AllValueRows, SelectionRows, Range
<1>5. LabelRows(EmptyGraph) = {}
  BY <1>2 DEF LabelRows
<1>6. Stored(NoRows, EmptyGraph)
  BY <1>1, <1>3, <1>4, <1>5 DEF Stored, LiveItems
<1>7. Ids({}) = {}
  BY DEF Ids
<1>8. ItemTable({})
  BY <1>7, FS_EmptySet DEF ItemTable
<1> QED
  BY <1>1, <1>6, <1>8

LEMMA InitStep ==
  ASSUME Init
  PROVE  GraphInv
<1>1. Revision = 0 /\ history = <<>> /\ tx = NoTx /\ rows = NoRows
  BY DEF Init, Revision
<1>2. HistoryInv
  BY <1>1 DEF Init, HistoryInv
<1>3. CommittedRows = NoRows /\ CurrentGraph = EmptyGraph
  BY <1>1 DEF CommittedRows, CurrentGraph
<1>4. RowsInv
  BY <1>1, <1>3, EmptyStored DEF RowsInv
<1>5. TxInv /\ PhaseInv
  BY <1>1 DEF TxInv, PhaseInv
<1> QED
  BY <1>2, <1>4, <1>5 DEF GraphInv

LEMMA NoStep ==
  ASSUME GraphInv, UNCHANGED <<product, rows, history, tx>>
  PROVE  GraphInv'
<1>1. CommittedRows' = CommittedRows
  BY DEF CommittedRows
<1>2. HistoryInv' /\ RowsInv'
  BY <1>1, NothingSaved DEF GraphInv, RowsInv
<1>3. TxInv'
  BY DEF GraphInv, TxInv, Editing, Restoring, Revision
<1>4. PhaseInv'
  BY DEF GraphInv, PhaseInv
<1> QED
  BY <1>2, <1>3, <1>4 DEF GraphInv

(* A new product has no rows yet. *)
LEMMA CreateCases ==
  ASSUME GraphInv, Create
  PROVE  /\ tx = NoTx /\ tx' = NoTx /\ Revision = 0 /\ Revision < MaxRevision
         /\ rows = NoRows /\ CommittedRows = NoRows
         /\ \/ \E slug \in Slugs :
                 Save("CREATE", 0, [status |-> "DRAFT", deleted |-> FALSE, slug |-> slug], NoRows)
            \/ Fail("CREATE", "conflict")
<1>1. /\ tx = NoTx /\ Revision = 0 /\ Revision < MaxRevision
      /\ \E slug \in Slugs :
           SaveProduct("CREATE", [status |-> "DRAFT", deleted |-> FALSE, slug |-> slug])
  BY DEF Create, Free
<1>2. rows = NoRows /\ CommittedRows = NoRows
  BY <1>1 DEF GraphInv, RowsInv, CommittedRows
<1> QED
  BY <1>1, <1>2 DEF SaveProduct, Fail

LEMMA CreateStep ==
  ASSUME GraphInv, Create
  PROVE  GraphInv'
<1>1. CASE Fail("CREATE", "conflict")
  BY <1>1, NoStep DEF Fail
<1>2. ASSUME NEW slug \in Slugs,
             Save("CREATE", 0, [status |-> "DRAFT", deleted |-> FALSE, slug |-> slug], NoRows)
      PROVE  GraphInv'
  <2> DEFINE p == [status |-> "DRAFT", deleted |-> FALSE, slug |-> slug]
  <2>1. /\ tx' = NoTx /\ Revision = 0 /\ CommittedRows = NoRows
        /\ Save("CREATE", 0, p, NoRows)
    BY <1>2, CreateCases
  <2>2. p \in Product
    BY DEF Product, Statuses
  <2> HIDE DEF p
  <2>3. Kept(CommittedRows.items, NoRows.items)
    BY <2>1 DEF Kept
  <2>4. HistoryInv /\ RowsInv
    BY DEF GraphInv
  <2>5. "CREATE" \in Kinds /\ 0 \in Nat
    BY DEF Kinds
  <2> QED
    BY <2>1, <2>2, <2>3, <2>4, <2>5, EmptyComplete, EmptyStored, SaveStep
<1> QED
  BY <1>1, <1>2, CreateCases

(* A save of the rows as they are. *)
LEMMA SameRowsStep ==
  ASSUME GraphInv, tx = NoTx, tx' = NoTx, NEW kind \in {"UPDATE", "DELETE"},
         NEW p \in Product, Save(kind, 0, p, rows)
  PROVE  GraphInv'
<1>1. HistoryInv /\ RowsInv
  BY DEF GraphInv
<1>2. Complete(CurrentGraph) /\ Stored(rows, CurrentGraph) /\ ItemTable(rows.items)
  BY <1>1, CurrentComplete, CurrentStored
<1>3. DOMAIN rows = Tables /\ Kept(CommittedRows.items, rows.items)
  BY <1>1 DEF RowsInv, CommittedRows, Kept
<1>4. kind \in Kinds /\ 0 \in Nat /\ kind # "RESTORE"
  BY DEF Kinds
<1> DEFINE g == CurrentGraph
<1> HIDE DEF g
<1>5. Complete(g) /\ Stored(rows, g)
  BY <1>2 DEF g
<1> QED
  BY <1>1, <1>2, <1>3, <1>4, <1>5, SaveStep

(* What update and delete save. *)
LEMMA UpdateCases ==
  ASSUME GraphInv, Update
  PROVE  /\ tx = NoTx /\ tx' = NoTx /\ Revision # 0 /\ product \in Product
         /\ \/ \E c \in Changes :
                 LET p == [product EXCEPT !.status = c.status, !.slug = c.slug]
                 IN  /\ Sound(p, rows) /\ Save("UPDATE", 0, p, rows)
                     /\ p = [status |-> c.status, deleted |-> product.deleted, slug |-> c.slug]
                     /\ c.status \in Statuses /\ c.slug \in Slugs
            \/ Fail("UPDATE", "conflict") \/ Fail("UPDATE", "refused")
<1>1. tx = NoTx /\ Revision # 0
  BY DEF Update, Live, Free, GraphInv, HistoryInv, Revision
<1>2. product \in Product
  BY <1>1, ProductTyped DEF GraphInv
<1>3. PICK c \in Changes :
        LET p == [product EXCEPT !.status = c.status, !.slug = c.slug]
        IN  \/ Sound(p, rows) /\ SaveProduct("UPDATE", p)
            \/ Fail("UPDATE", "refused")
  BY DEF Update
<1>4. c.status \in Statuses /\ c.slug \in Slugs
  BY GraphAssumption
<1> DEFINE p == [product EXCEPT !.status = c.status, !.slug = c.slug]
<1>5. p = [status |-> c.status, deleted |-> product.deleted, slug |-> c.slug]
  <2>1. \A s \in Statuses, slug \in Slugs, d \in BOOLEAN :
          [product EXCEPT !.status = s, !.slug = slug] =
            [status |-> s, deleted |-> product.deleted, slug |-> slug]
    BY <1>2, ProductChanged
  <2>2. TRUE \in BOOLEAN
    OBVIOUS
  <2> QED
    BY <1>4, <2>1, <2>2
<1>6. \/ Sound(p, rows) /\ SaveProduct("UPDATE", p)
      \/ Fail("UPDATE", "refused")
  BY <1>3
<1> HIDE DEF p
<1>7. \/ Sound(p, rows) /\ Save("UPDATE", 0, p, rows) /\ UNCHANGED tx
      \/ Fail("UPDATE", "conflict") \/ Fail("UPDATE", "refused")
  BY <1>6 DEF SaveProduct
<1>8. UNCHANGED tx
  BY <1>7 DEF Fail
<1> QED
  BY <1>1, <1>2, <1>4, <1>5, <1>7, <1>8 DEF p

LEMMA DeleteCases ==
  ASSUME GraphInv, Delete
  PROVE  /\ tx = NoTx /\ tx' = NoTx /\ Revision # 0
         /\ LET p == [status |-> "CLOSED", deleted |-> TRUE, slug |-> product.slug]
            IN  p \in Product /\ Save("DELETE", 0, p, rows)
<1>1. tx = NoTx /\ Revision # 0 /\ UNCHANGED tx
  BY DEF Delete, Live, Free, GraphInv, HistoryInv, Revision
<1>2. product \in Product
  BY <1>1, ProductTyped DEF GraphInv
<1>3. "CLOSED" \in Statuses
  BY DEF Statuses
<1>4. /\ [product EXCEPT !.status = "CLOSED", !.deleted = TRUE] =
           [status |-> "CLOSED", deleted |-> TRUE, slug |-> product.slug]
      /\ product.slug \in Slugs
  <2>1. \A s \in Statuses, d \in BOOLEAN, slug \in Slugs :
          [product EXCEPT !.status = s, !.deleted = d] =
            [status |-> s, deleted |-> d, slug |-> product.slug]
    BY <1>2, ProductChanged
  <2>2. product.slug \in Slugs
    BY <1>2 DEF Product
  <2> QED
    BY <1>3, <2>1, <2>2
<1>5. Save("DELETE", 0, [product EXCEPT !.status = "CLOSED", !.deleted = TRUE], rows)
  BY DEF Delete
<1> QED
  BY <1>1, <1>3, <1>4, <1>5 DEF Product

LEMMA UpdateStep ==
  ASSUME GraphInv, Update
  PROVE  GraphInv'
<1>1. CASE Fail("UPDATE", "conflict") \/ Fail("UPDATE", "refused")
  BY <1>1, NoStep DEF Fail
<1>2. ASSUME NEW c \in Changes, c.status \in Statuses, c.slug \in Slugs, NEW p,
             p = [status |-> c.status, deleted |-> product.deleted, slug |-> c.slug],
             Save("UPDATE", 0, p, rows)
      PROVE  GraphInv'
  <2>1. p \in Product
    BY <1>2, UpdateCases DEF Product
  <2> QED
    BY <1>2, <2>1, UpdateCases, SameRowsStep
<1> QED
  BY <1>1, <1>2, UpdateCases

LEMMA DeleteStep ==
  ASSUME GraphInv, Delete
  PROVE  GraphInv'
BY DeleteCases, SameRowsStep

(* A command begins with a graph that can be stored, or is refused.        *)
LEMMA BeginStep ==
  ASSUME GraphInv, tx = NoTx, Revision \in 1 .. MaxRevision - 1,
         NEW kind, NEW source, NEW p, NEW graph, NEW named,
         graph \in Graphs, Signable(graph.items),
         Unnamed(graph.options)
           \/ (OptionsIdentified(graph.options) /\ ValuesIdentified(graph.options)),
         \/ kind = "UPDATE" /\ source = 0 /\ p = product /\ ~product.deleted
         \/ /\ kind = "RESTORE" /\ source \in 1 .. Revision - 1
            /\ p = [history[source].product EXCEPT !.deleted = FALSE]
            /\ Resolved(Normal(graph)) = history[source].graph,
         Begin(kind, source, p, graph, named)
  PROVE  GraphInv'
<1> DEFINE g == Normal(graph)
           t == [kind |-> kind, source |-> source, product |-> p,
                 graph |-> Resolved(g), phase |-> "stage", saved |-> rows]
<1>1. HistoryInv /\ RowsInv
  BY DEF GraphInv
<1>2. CASE UNCHANGED <<product, rows, history, tx>>
  BY <1>2, NoStep
<1>3. CASE Valid(g) /\ Resolvable(g, named) /\ tx' = t /\ UNCHANGED <<product, rows, history>>
  <2>1. Complete(Resolved(g)) /\ SkusAgree(Resolved(g).items, rows.items)
    BY <1>1, <1>3, GraphMatched
  <2> DEFINE h == Resolved(g)
  <2>2. /\ t = [kind |-> kind, source |-> source, product |-> p,
                graph |-> h, phase |-> "stage", saved |-> rows]
        /\ t.kind = kind /\ t.source = source /\ t.product = p /\ t.graph = h
        /\ t.phase = "stage" /\ t.saved = rows
    OBVIOUS
  <2>3. Complete(h) /\ SkusAgree(h.items, rows.items)
    BY <2>1
  <2>4. \/ kind = "UPDATE" /\ source = 0 /\ p = product /\ ~product.deleted
        \/ /\ kind = "RESTORE" /\ source \in 1 .. Revision - 1
           /\ p = [history[source].product EXCEPT !.deleted = FALSE]
           /\ h = history[source].graph
    OBVIOUS
  <2>5. tx' = t /\ UNCHANGED <<product, rows, history>>
    BY <1>3
  <2> HIDE DEF h, t, g
  <2>6. tx' # NoTx
    BY <2>2, <2>5, TxOpen DEF Phases
  <2>7. CommittedRows' = CommittedRows
    BY <2>2, <2>5, <2>6 DEF CommittedRows
  <2>8. HistoryInv' /\ RowsInv'
    BY <1>1, <2>5, <2>7, NothingSaved DEF RowsInv
  <2>9. TxInv'
    <3>1. tx' = [kind |-> tx'.kind, source |-> tx'.source, product |-> tx'.product,
                 graph |-> tx'.graph, phase |-> tx'.phase, saved |-> tx'.saved]
      BY <2>2, <2>5
    <3>2. tx'.phase \in Phases /\ Revision' \in 1 .. MaxRevision - 1
      BY <2>2, <2>5 DEF Phases, Revision
    <3>3. Complete(tx'.graph) /\ SkusAgree(tx'.graph.items, tx'.saved.items)
      BY <2>2, <2>3, <2>5
    <3>4. Editing' \/ Restoring'
      BY <2>2, <2>4, <2>5 DEF Editing, Restoring, Revision
    <3> QED
      BY <3>1, <3>2, <3>3, <3>4 DEF TxInv
  <2>10. PhaseInv'
    <3>1. ItemTable(rows.items) /\ DOMAIN rows = Tables
      BY <1>1, CurrentStored DEF RowsInv
    <3>2. Reached(rows, h, rows.items, "stage")
      BY <3>1 DEF Reached, Kept
    <3> QED
      BY <2>2, <2>5, <3>2 DEF PhaseInv
  <2> QED
    BY <2>8, <2>9, <2>10 DEF GraphInv
<1> HIDE DEF g, t
<1> QED
  BY <1>2, <1>3 DEF Begin, Fail, g, t

LEMMA LiveFacts ==
  ASSUME GraphInv, Live
  PROVE  tx = NoTx /\ Revision \in 1 .. MaxRevision - 1 /\ ~product.deleted
BY GraphAssumption DEF Live, Free, GraphInv, HistoryInv, Revision

LEMMA ReplaceCatalogStep ==
  ASSUME GraphInv, ReplaceCatalog
  PROVE  GraphInv'
<1>1. tx = NoTx /\ Revision \in 1 .. MaxRevision - 1 /\ ~product.deleted
  BY LiveFacts DEF ReplaceCatalog
<1>2. PICK d \in Drafts : Begin("UPDATE", 0, product, d, FALSE)
  BY DEF ReplaceCatalog, Edit
<1>3. /\ d \in Graphs /\ Unnamed(d.options)
      /\ \A k \in DOMAIN d.items : d.items[k].sig = NoSignature
  BY GraphAssumption
<1>4. Signable(d.items)
  BY <1>3 DEF Signable
<1> QED
  BY <1>1, <1>2, <1>3, <1>4, BeginStep

(* An edit of the items of the current graph. *)
LEMMA ItemEditStep ==
  ASSUME GraphInv, Live, NEW is \in Seq(AskedItems), Edit(WithItemList(is))
  PROVE  GraphInv'
<1>1. tx = NoTx /\ Revision \in 1 .. MaxRevision - 1 /\ ~product.deleted
  BY LiveFacts
<1>2. /\ WithItemList(is) \in Graphs /\ Signable(WithItemList(is).items)
      /\ OptionsIdentified(WithItemList(is).options)
      /\ ValuesIdentified(WithItemList(is).options)
  BY <1>1, ItemEdit DEF GraphInv
<1> DEFINE g == WithItemList(is)
<1>3. Begin("UPDATE", 0, product, g, FALSE)
  BY DEF Edit
<1> HIDE DEF g
<1>4. /\ g \in Graphs /\ Signable(g.items)
      /\ OptionsIdentified(g.options) /\ ValuesIdentified(g.options)
  BY <1>2 DEF g
<1> QED
  BY <1>1, <1>3, <1>4, BeginStep

LEMMA DraftsAsked ==
  ASSUME NEW d \in ItemDrafts
  PROVE  d \in AskedItems /\ \A n \in Nat : [d EXCEPT !.id = n] \in AskedItems
<1>1. d \in CatalogItem /\ d.sig = NoSignature
  BY GraphAssumption
<1>2. ASSUME NEW n \in Nat
      PROVE  [d EXCEPT !.id = n] \in AskedItems
  <2>1. [d EXCEPT !.id = n] \in CatalogItem
    BY <1>1 DEF CatalogItem
  <2>2. [d EXCEPT !.id = n].sig = NoSignature
    BY <1>1 DEF CatalogItem
  <2> QED
    BY <2>1, <2>2 DEF AskedItems
<1> QED
  BY <1>1, <1>2 DEF AskedItems

LEMMA CreateItemStep ==
  ASSUME GraphInv, CreateItem
  PROVE  GraphInv'
<1>1. PICK d \in ItemDrafts : Edit(WithItemList(Append(CurrentItems, d)))
  BY DEF CreateItem
<1>2. Live /\ tx = NoTx
  BY LiveFacts DEF CreateItem
<1>3. CurrentItems \in Seq(AskedItems) /\ d \in AskedItems
  BY <1>2, CurrentItemsAsked, DraftsAsked DEF GraphInv
<1>4. Append(CurrentItems, d) \in Seq(AskedItems)
  BY <1>3
<1> QED
  BY <1>1, <1>2, <1>4, ItemEditStep

LEMMA UpdateItemStep ==
  ASSUME GraphInv, UpdateItem
  PROVE  GraphInv'
<1>1. PICK k \in DOMAIN CurrentItems, d \in ItemDrafts :
        Edit(WithItemList([CurrentItems EXCEPT ![k] = [d EXCEPT !.id = CurrentItems[k].id]]))
  BY DEF UpdateItem
<1>2. Live /\ tx = NoTx
  BY LiveFacts DEF UpdateItem
<1>3. CurrentItems \in Seq(AskedItems)
  BY <1>2, CurrentItemsAsked DEF GraphInv
<1>4. CurrentItems[k].id \in Nat
  <2>1. CurrentItems[k] \in CatalogItem
    BY <1>3, SeqElements DEF AskedItems
  <2> QED
    BY <2>1, ItemFields
<1>5. [d EXCEPT !.id = CurrentItems[k].id] \in AskedItems
  BY <1>4, DraftsAsked
<1>6. [CurrentItems EXCEPT ![k] = [d EXCEPT !.id = CurrentItems[k].id]] \in Seq(AskedItems)
  BY <1>3, <1>5
<1> QED
  BY <1>1, <1>2, <1>6, ItemEditStep

LEMMA DeleteItemStep ==
  ASSUME GraphInv, DeleteItem
  PROVE  GraphInv'
<1>1. PICK k \in DOMAIN CurrentItems : Edit(WithItemList(RemoveAt(CurrentItems, k)))
  BY DEF DeleteItem
<1>2. Live /\ tx = NoTx
  BY LiveFacts DEF DeleteItem
<1>3. CurrentItems \in Seq(AskedItems)
  BY <1>2, CurrentItemsAsked DEF GraphInv
<1>4. RemoveAt(CurrentItems, k) \in Seq(AskedItems)
  BY <1>3, RemovedAsked
<1> QED
  BY <1>1, <1>2, <1>4, ItemEditStep

LEMMA RestoreStep ==
  ASSUME GraphInv, Restore
  PROVE  GraphInv'
<1>1. PICK r \in 1 .. Revision - 1 :
        Begin("RESTORE", r, [history[r].product EXCEPT !.deleted = FALSE], history[r].graph, TRUE)
  BY DEF Restore
<1>2. tx = NoTx /\ Revision \in 1 .. MaxRevision - 1
  BY GraphAssumption DEF Restore, Free, GraphInv, HistoryInv, Revision
<1>3. r \in DOMAIN history
  BY <1>2 DEF GraphInv, HistoryInv, Revision
<1> DEFINE g == history[r].graph
           p == [history[r].product EXCEPT !.deleted = FALSE]
<1>4. Complete(g) /\ g = history[r].graph /\ p = [history[r].product EXCEPT !.deleted = FALSE]
  BY <1>3 DEF GraphInv, HistoryInv
<1>5. Begin("RESTORE", r, p, g, TRUE)
  BY <1>1
<1> HIDE DEF g, p
<1>6. g \in Graphs /\ OptionsIdentified(g.options) /\ ValuesIdentified(g.options)
  BY <1>4 DEF Complete
<1>7. Signable(g.items) /\ Resolved(Normal(g)) = g
  BY <1>4, CompleteStays
<1> QED
  BY <1>1, <1>2, <1>4, <1>5, <1>6, <1>7, BeginStep

(* The transaction ends with the rows it began with.                       *)
LEMMA RollBackStep ==
  ASSUME GraphInv, tx # NoTx, NEW result, RollBack(result)
  PROVE  GraphInv'
<1>1. rows' = tx.saved /\ tx' = NoTx /\ UNCHANGED <<product, history>>
  BY DEF RollBack
<1>2. CommittedRows' = CommittedRows
  BY <1>1 DEF CommittedRows
<1>3. DOMAIN rows' = Tables
  BY <1>1 DEF GraphInv, RowsInv, CommittedRows
<1>4. HistoryInv' /\ RowsInv'
  BY <1>1, <1>2, <1>3, NothingSaved DEF GraphInv
<1>5. TxInv' /\ PhaseInv'
  BY <1>1 DEF TxInv, PhaseInv
<1> QED
  BY <1>4, <1>5 DEF GraphInv

(* A flush keeps the invariant when what it writes is the next phase.      *)
LEMMA FlushStep ==
  ASSUME GraphInv, NEW phase, NEW new, NEW next \in Phases, Flush(phase, new, next),
         tx # NoTx /\ tx.phase = phase /\ ~Collides(rows, new) =>
           Reached(new, tx.graph, tx.saved.items, next)
  PROVE  GraphInv'
<1>1. tx # NoTx /\ tx.phase = phase
  BY DEF Flush
<1>2. CASE RollBack("conflict")
  BY <1>1, <1>2, RollBackStep
<1>3. CASE /\ ~Collides(rows, new) /\ rows' = new
           /\ tx' = [tx EXCEPT !.phase = next]
           /\ UNCHANGED <<product, history>>
  <2>1. tx = [kind |-> tx.kind, source |-> tx.source, product |-> tx.product,
              graph |-> tx.graph, phase |-> tx.phase, saved |-> tx.saved]
    BY <1>1 DEF GraphInv, TxInv
  <2>2. tx' = [kind |-> tx.kind, source |-> tx.source, product |-> tx.product,
               graph |-> tx.graph, phase |-> next, saved |-> tx.saved]
    BY <1>3, <2>1
  <2>3. /\ tx'.kind = tx.kind /\ tx'.source = tx.source /\ tx'.product = tx.product
        /\ tx'.graph = tx.graph /\ tx'.phase = next /\ tx'.saved = tx.saved
    BY <2>2
  <2>4. tx' # NoTx
    BY <2>3, TxOpen
  <2>5. CommittedRows' = CommittedRows
    BY <1>1, <2>3, <2>4 DEF CommittedRows
  <2>6. Reached(rows', tx'.graph, tx'.saved.items, tx'.phase)
    BY <1>1, <1>3, <2>3
  <2>7. HistoryInv' /\ RowsInv'
    BY <1>3, <2>5, <2>6, NothingSaved DEF GraphInv, Reached
  <2>8. TxInv'
    <3>1. tx' = [kind |-> tx'.kind, source |-> tx'.source, product |-> tx'.product,
                 graph |-> tx'.graph, phase |-> tx'.phase, saved |-> tx'.saved]
      BY <2>2, <2>3
    <3>2. Revision' \in 1 .. MaxRevision - 1
      BY <1>1, <1>3 DEF GraphInv, TxInv, Revision
    <3>3. Complete(tx'.graph) /\ SkusAgree(tx'.graph.items, tx'.saved.items)
      BY <1>1, <2>3 DEF GraphInv, TxInv
    <3>4. Editing' \/ Restoring'
      BY <1>1, <1>3, <2>3 DEF GraphInv, TxInv, Editing, Restoring, Revision
    <3> QED
      BY <2>3, <3>1, <3>2, <3>3, <3>4 DEF TxInv
  <2>9. PhaseInv'
    BY <2>6 DEF PhaseInv
  <2> QED
    BY <2>7, <2>8, <2>9 DEF GraphInv
<1> QED
  BY <1>2, <1>3 DEF Flush

LEMMA KeptOn ==
  ASSUME NEW R, NEW S, NEW T, Kept(R, S), Kept(S, T)
  PROVE  Kept(R, T)
BY DEF Kept

LEMMA StageStep ==
  ASSUME GraphInv, Stage
  PROVE  GraphInv'
<1>1. ASSUME tx # NoTx, tx.phase = "stage"
      PROVE  Reached(Staged(tx.graph), tx.graph, tx.saved.items, "remove")
  <2>1. /\ DOMAIN rows = Tables /\ ItemTable(rows.items)
        /\ Kept(tx.saved.items, rows.items) /\ Kept(rows.items, tx.saved.items)
    BY <1>1 DEF GraphInv, PhaseInv, Reached
  <2>2. DOMAIN Staged(tx.graph) = Tables /\ Staged(tx.graph).items = StagedItems
    BY <2>1, FlushedTables
  <2>3. ItemTable(StagedItems) /\ Kept(rows.items, StagedItems) /\ Kept(StagedItems, rows.items)
    BY <2>1, StagedItemsKept
  <2>4. Kept(tx.saved.items, StagedItems) /\ Kept(StagedItems, tx.saved.items)
    BY <2>1, <2>3, KeptOn
  <2> QED
    BY <2>2, <2>3, <2>4 DEF Reached
<1>2. CASE tx # NoTx /\ RollBack("conflict")
  BY <1>2, RollBackStep
<1>3. CASE Flush("stage", Staged(tx.graph), "remove")
  BY <1>1, <1>3, FlushStep DEF Phases
<1> QED
  BY <1>2, <1>3 DEF Stage

LEMMA RemoveUnusedStep ==
  ASSUME GraphInv, RemoveUnused
  PROVE  GraphInv'
<1>1. ASSUME tx # NoTx, tx.phase = "remove"
      PROVE  Reached(Trimmed(tx.graph), tx.graph, tx.saved.items, "options")
  <2>1. /\ DOMAIN rows = Tables /\ ItemTable(rows.items)
        /\ Kept(tx.saved.items, rows.items) /\ Kept(rows.items, tx.saved.items)
    BY <1>1 DEF GraphInv, PhaseInv, Reached
  <2> DEFINE g == tx.graph
  <2>2. /\ DOMAIN Trimmed(g) = Tables /\ Trimmed(g).items = rows.items
        /\ Trimmed(g).options = {o \in rows.options : o.id \in Ids(Range(g.options))}
        /\ Trimmed(g).values = {v \in rows.values : v.id \in ValueIds(g)}
        /\ Trimmed(g).labels =
             {l \in rows.labels : \E m \in LabelRows(g) : m.kind = l.kind /\ m.id = l.id}
    BY <2>1, FlushedTables
  <2> HIDE DEF g
  <2>3. /\ \A o \in Trimmed(g).options : o.id \in Ids(Range(g.options))
        /\ \A v \in Trimmed(g).values : v.id \in ValueIds(g)
        /\ \A l \in Trimmed(g).labels : \E m \in LabelRows(g) : m.kind = l.kind /\ m.id = l.id
    BY <2>2
  <2>4. Reached(Trimmed(g), g, tx.saved.items, "options")
    BY <2>1, <2>2, <2>3 DEF Reached
  <2> QED
    BY <2>4 DEF g
<1> QED
  BY <1>1, FlushStep DEF RemoveUnused, Phases

LEMMA ApplyOptionsStep ==
  ASSUME GraphInv, ApplyOptions
  PROVE  GraphInv'
<1>1. ASSUME tx # NoTx, tx.phase = "options"
      PROVE  Reached(WithOptions(tx.graph), tx.graph, tx.saved.items, "items")
  <2> DEFINE g == tx.graph
  <2>1. /\ DOMAIN rows = Tables /\ ItemTable(rows.items)
        /\ Kept(tx.saved.items, rows.items) /\ Kept(rows.items, tx.saved.items)
        /\ \A o \in rows.options : o.id \in Ids(Range(g.options))
        /\ \A v \in rows.values : v.id \in ValueIds(g)
        /\ \A l \in rows.labels : \E m \in LabelRows(g) : m.kind = l.kind /\ m.id = l.id
    BY <1>1 DEF GraphInv, PhaseInv, Reached
  <2> HIDE DEF g
  <2>2. DOMAIN WithOptions(g) = Tables /\ WithOptions(g).items = rows.items
    BY <2>1, FlushedTables
  <2>3. /\ WithOptions(g).options = OptionRows(g)
        /\ WithOptions(g).values = AllValueRows(g)
        /\ WithOptions(g).labels = LabelRows(g)
    BY <2>1, OptionsWritten
  <2>4. Reached(WithOptions(g), g, tx.saved.items, "items")
    BY <2>1, <2>2, <2>3 DEF Reached
  <2> QED
    BY <2>4 DEF g
<1> QED
  BY <1>1, FlushStep DEF ApplyOptions, Phases

LEMMA ApplyItemsStep ==
  ASSUME GraphInv, ApplyItems
  PROVE  GraphInv'
<1>1. ASSUME tx # NoTx, tx.phase = "items", ~Collides(rows, WithItems(tx.graph))
      PROVE  Reached(WithItems(tx.graph), tx.graph, tx.saved.items, "selections")
  <2> DEFINE g == tx.graph
  <2>1. /\ DOMAIN rows = Tables /\ ItemTable(rows.items)
        /\ Kept(tx.saved.items, rows.items) /\ Kept(rows.items, tx.saved.items)
        /\ rows.options = OptionRows(g)
        /\ rows.values = AllValueRows(g)
        /\ rows.labels = LabelRows(g)
    BY <1>1 DEF GraphInv, PhaseInv, Reached
  <2>2. Complete(g) /\ SkusAgree(g.items, tx.saved.items)
    BY <1>1 DEF GraphInv, TxInv
  <2>3. ~ItemsCollide(rows.items, WithItems(g).items)
    BY <1>1 DEF Collides
  <2> HIDE DEF g
  <2>4. SkusAgree(g.items, rows.items)
    <3>1. SUFFICES ASSUME NEW k \in DOMAIN g.items, g.items[k].sku # NoSku,
                          NEW i \in rows.items, i.id = g.items[k].id
                   PROVE  i.sku = g.items[k].sku
      BY DEF SkusAgree
    <3>2. PICK j \in tx.saved.items : j.id = i.id /\ j.sku = i.sku
      BY <2>1 DEF Kept
    <3> QED
      BY <2>2, <3>1, <3>2 DEF SkusAgree
  <2>5. /\ ItemTable(WithItems(g).items)
        /\ Kept(rows.items, WithItems(g).items)
        /\ LiveItems(WithItems(g)) = ItemRows(Labelled(g, WithItems(g).items))
        /\ SkusAgree(g.items, WithItems(g).items)
    BY <2>1, <2>2, <2>3, <2>4, ItemsWritten
  <2>6. Kept(tx.saved.items, WithItems(g).items)
    BY <2>1, <2>5, KeptOn
  <2>7. /\ DOMAIN WithItems(g) = Tables
        /\ WithItems(g).options = OptionRows(g) /\ WithItems(g).values = AllValueRows(g)
        /\ WithItems(g).labels = LabelRows(g)
    BY <2>1, FlushedTables
  <2>8. Reached(WithItems(g), g, tx.saved.items, "selections")
    BY <2>5, <2>6, <2>7 DEF Reached
  <2> QED
    BY <2>8 DEF g
<1> QED
  BY <1>1, FlushStep DEF ApplyItems, Phases

LEMMA ApplySelectionsStep ==
  ASSUME GraphInv, ApplySelections
  PROVE  GraphInv'
<1>1. ASSUME tx # NoTx, tx.phase = "selections"
      PROVE  Reached(WithSelections(tx.graph), tx.graph, tx.saved.items, "commit")
  <2> DEFINE g == tx.graph
             new == WithSelections(g)
  <2>1. /\ DOMAIN rows = Tables /\ ItemTable(rows.items)
        /\ Kept(tx.saved.items, rows.items)
        /\ rows.options = OptionRows(g)
        /\ rows.values = AllValueRows(g)
        /\ rows.labels = LabelRows(g)
        /\ LiveItems(rows) = ItemRows(Labelled(g, rows.items))
        /\ SkusAgree(g.items, rows.items)
    BY <1>1 DEF GraphInv, PhaseInv, Reached
  <2>2. /\ DOMAIN new = Tables
        /\ new.options = rows.options /\ new.values = rows.values
        /\ new.labels = rows.labels /\ new.items = rows.items
        /\ new.selections = SelectionRows(g)
    BY <2>1, FlushedTables
  <2> HIDE DEF g, new
  <2>3. LiveItems(new) = LiveItems(rows)
    BY <2>2 DEF LiveItems
  <2>4. Reached(new, g, tx.saved.items, "commit")
    BY <2>1, <2>2, <2>3 DEF Reached
  <2> QED
    BY <2>4 DEF g, new
<1> QED
  BY <1>1, FlushStep DEF ApplySelections, Phases

LEMMA CrashStep ==
  ASSUME GraphInv, Crash
  PROVE  GraphInv'
BY RollBackStep DEF Crash

(* What a transaction has come to when it commits: the rows are its graph, *)
(* under the SKUs the items have; and that is the very graph to restore.   *)
LEMMA AtCommit ==
  ASSUME GraphInv, tx # NoTx, tx.phase = "commit", NEW h, h = Labelled(tx.graph, rows.items)
  PROVE  /\ Complete(h) /\ Stored(rows, h)
         /\ GraphOf(rows) = h
         /\ Restoring => h = tx.graph
<1> DEFINE g == tx.graph
<1>1. /\ DOMAIN rows = Tables /\ ItemTable(rows.items)
      /\ Kept(tx.saved.items, rows.items)
      /\ rows.options = OptionRows(g)
      /\ rows.values = AllValueRows(g)
      /\ rows.labels = LabelRows(g)
      /\ LiveItems(rows) = ItemRows(Labelled(g, rows.items))
      /\ rows.selections = SelectionRows(g)
  BY DEF GraphInv, PhaseInv, Reached
<1>2. Complete(g) /\ h = Labelled(g, rows.items)
  BY DEF GraphInv, TxInv
<1>3. Restoring => \E r \in DOMAIN history : g = history[r].graph
  BY DEF GraphInv, TxInv, HistoryInv, Restoring, Revision
<1> HIDE DEF g
<1>4. g \in Graphs /\ g.items \in Seq(CatalogItem)
  BY <1>2, GraphTyped, GraphFields
<1>5. /\ h = [options |-> g.options,
              items |-> [k \in DOMAIN g.items |->
                 [id |-> g.items[k].id, sku |-> TheRow(rows.items, g.items[k].id).sku,
                  sale |-> g.items[k].sale, sig |-> g.items[k].sig, sel |-> g.items[k].sel]],
              categories |-> g.categories, tags |-> g.tags]
  BY <1>2, <1>4, LabelledItems
<1>6. \A k \in DOMAIN g.items : g.items[k].id \in Ids(rows.items)
  <2>1. SUFFICES ASSUME NEW k \in DOMAIN g.items
                 PROVE  g.items[k].id \in Ids(rows.items)
    OBVIOUS
  <2>2. DOMAIN h.items = DOMAIN g.items /\ h.items[k].id = g.items[k].id
    BY <1>5
  <2> DEFINE row == [id |-> h.items[k].id, sku |-> h.items[k].sku, sale |-> h.items[k].sale,
                     sig |-> h.items[k].sig, seq |-> k - 1, deleted |-> FALSE]
  <2>3. row \in ItemRows(h) /\ row.id = g.items[k].id
    BY <2>2 DEF ItemRows
  <2> HIDE DEF row
  <2>4. row \in rows.items
    BY <1>1, <1>2, <2>3 DEF LiveItems
  <2> QED
    BY <2>3, <2>4 DEF Ids
<1>7. /\ Complete(h)
      /\ OptionRows(h) = OptionRows(g) /\ AllValueRows(h) = AllValueRows(g)
      /\ LabelRows(h) = LabelRows(g) /\ SelectionRows(h) = SelectionRows(g)
  BY <1>1, <1>2, <1>6, LabelledComplete
<1>8. Stored(rows, h)
  BY <1>1, <1>2, <1>7 DEF Stored
<1>9. ASSUME Restoring
      PROVE  h = g
  <2>1. PICK r \in DOMAIN history : g = history[r].graph
    BY <1>3, <1>9
  <2>2. Kept(Range(g.items), tx.saved.items)
    BY <2>1 DEF GraphInv, RowsInv, CommittedRows
  <2>3. Kept(Range(g.items), rows.items)
    BY <1>1, <2>2, KeptOn
  <2>4. ASSUME NEW k \in DOMAIN g.items
        PROVE  [id |-> g.items[k].id, sku |-> TheRow(rows.items, g.items[k].id).sku,
                sale |-> g.items[k].sale, sig |-> g.items[k].sig, sel |-> g.items[k].sel]
                 = g.items[k]
    <3>1. PICK j \in rows.items : j.id = g.items[k].id /\ j.sku = g.items[k].sku
      BY <2>3 DEF Kept, Range
    <3>2. TheRow(rows.items, g.items[k].id).sku = g.items[k].sku
      BY <1>1, <3>1, TheItem
    <3>3. g.items[k] = [id |-> g.items[k].id, sku |-> g.items[k].sku,
                        sale |-> g.items[k].sale, sig |-> g.items[k].sig, sel |-> g.items[k].sel]
      BY <1>4, SeqElements, ItemFields
    <3> QED
      BY <3>2, <3>3
  <2>5. g.items = [k \in DOMAIN g.items |-> g.items[k]]
    BY <1>4, SeqElements
  <2>6. h = [options |-> g.options, items |-> g.items, categories |-> g.categories, tags |-> g.tags]
    BY <1>5, <2>4, <2>5
  <2> QED
    BY <1>4, <2>6, GraphFields
<1> QED
  BY <1>7, <1>8, <1>9, StoredIsGraph DEF g

LEMMA CommitStep ==
  ASSUME GraphInv, Commit
  PROVE  GraphInv'
<1>1. tx # NoTx /\ tx.phase = "commit"
  BY DEF Commit
<1>2. CASE RollBack("refused")
  BY <1>1, <1>2, RollBackStep
<1>3. CASE Save(tx.kind, tx.source, tx.product, rows) /\ tx' = NoTx
  <2> DEFINE h == Labelled(tx.graph, rows.items)
             kind == tx.kind
             source == tx.source
             p == tx.product
  <2>1. Complete(h) /\ Stored(rows, h) /\ (Restoring => h = tx.graph)
    BY <1>1, AtCommit
  <2>2. HistoryInv /\ RowsInv /\ (Editing \/ Restoring) /\ Revision \in 1 .. MaxRevision - 1
    BY <1>1 DEF GraphInv, TxInv
  <2>3. DOMAIN rows = Tables /\ ItemTable(rows.items) /\ Kept(CommittedRows.items, rows.items)
    BY <1>1 DEF GraphInv, PhaseInv, Reached, CommittedRows
  <2>4. /\ kind \in Kinds /\ source \in Nat /\ p \in Product
        /\ kind = "RESTORE" =>
             /\ source \in 1 .. Revision /\ h = history[source].graph
             /\ p = [history[source].product EXCEPT !.deleted = FALSE]
    <3>1. CASE Editing
      <4>1. product \in Product
        BY <2>2, ProductTyped
      <4> QED
        BY <3>1, <4>1 DEF Editing, Kinds
    <3>2. CASE Restoring
      <4>1. source \in DOMAIN history /\ source \in Nat /\ source \in 1 .. Revision
        BY <2>2, <3>2 DEF Restoring, HistoryInv, Revision
      <4>2. history[source] \in Snapshot
        BY <2>2, <4>1 DEF HistoryInv
      <4>3. [history[source].product EXCEPT !.deleted = FALSE] \in Product
        BY <4>2 DEF Snapshot, Product
      <4> QED
        BY <2>1, <3>2, <4>1, <4>3 DEF Restoring, Kinds
    <3> QED
      BY <2>2, <3>1, <3>2
  <2>5. Save(kind, source, p, rows) /\ tx' = NoTx
    BY <1>3
  <2> HIDE DEF h, kind, source, p
  <2> QED
    BY <2>1, <2>2, <2>3, <2>4, <2>5, SaveStep
<1> QED
  BY <1>2, <1>3 DEF Commit

-----------------------------------------------------------------------------
(* The invariant holds. *)

LEMMA GraphStep ==
  ASSUME GraphInv, [Next]_vars
  PROVE  GraphInv'
<1>1. CASE UNCHANGED vars
  BY <1>1, NoStep DEF vars
<1>2. CASE Create
  BY <1>2, CreateStep
<1>3. CASE Update
  BY <1>3, UpdateStep
<1>4. CASE Delete
  BY <1>4, DeleteStep
<1>5. CASE ReplaceCatalog
  BY <1>5, ReplaceCatalogStep
<1>6. CASE CreateItem
  BY <1>6, CreateItemStep
<1>7. CASE UpdateItem
  BY <1>7, UpdateItemStep
<1>8. CASE DeleteItem
  BY <1>8, DeleteItemStep
<1>9. CASE Restore
  BY <1>9, RestoreStep
<1>10. CASE Stage
  BY <1>10, StageStep
<1>11. CASE RemoveUnused
  BY <1>11, RemoveUnusedStep
<1>12. CASE ApplyOptions
  BY <1>12, ApplyOptionsStep
<1>13. CASE ApplyItems
  BY <1>13, ApplyItemsStep
<1>14. CASE ApplySelections
  BY <1>14, ApplySelectionsStep
<1>15. CASE Commit
  BY <1>15, CommitStep
<1>16. CASE Crash
  BY <1>16, CrashStep
<1>17. CASE OtherProducts
  BY <1>17, NoStep DEF OtherProducts
<1> QED
  BY <1>1, <1>2, <1>3, <1>4, <1>5, <1>6, <1>7, <1>8, <1>9, <1>10, <1>11, <1>12,
     <1>13, <1>14, <1>15, <1>16, <1>17 DEF Next

(* Every stored revision is a graph that may be stored and the rows are    *)
(* the last one of them; an open transaction holds a graph that may be     *)
(* stored too, and has come as far towards it as its phase says            *)
(* (product-command.service.ts 224-318, product-catalog.writer.ts 36-184). *)
THEOREM GraphInvariant == Spec => []GraphInv
<1>1. Init => GraphInv
  BY InitStep
<1>2. GraphInv /\ [Next]_vars => GraphInv'
  BY GraphStep
<1> QED
  BY <1>1, <1>2, PTL DEF Spec

LEMMA AppliedByInvariant ==
  ASSUME GraphInv
  PROVE  GraphApplied
<1>1. ASSUME tx # NoTx, tx.phase = "commit"
      PROVE  /\ [GraphOf(rows) EXCEPT !.items = <<>>] = [tx.graph EXCEPT !.items = <<>>]
             /\ Len(GraphOf(rows).items) = Len(tx.graph.items)
             /\ \A k \in DOMAIN GraphOf(rows).items :
                  GraphOf(rows).items[k] =
                    [tx.graph.items[k] EXCEPT
                       !.sku = IF @ = NoSku THEN GraphOf(rows).items[k].sku ELSE @]
  <2> DEFINE g == tx.graph
             S == rows.items
             h == Labelled(g, S)
  <2>1. GraphOf(rows) = h /\ Complete(h)
    BY <1>1, AtCommit
  <2>2. Complete(g)
    BY <1>1 DEF GraphInv, TxInv
  <2>3. LiveItems(rows) = ItemRows(h) /\ SkusAgree(g.items, S)
    BY <1>1 DEF GraphInv, PhaseInv, Reached
  <2>4. g \in Graphs /\ g.items \in Seq(CatalogItem)
    BY <2>2, GraphTyped, GraphFields
  <2> HIDE DEF g
  <2>5. h = [options |-> g.options,
             items |-> [k \in DOMAIN g.items |->
               [id |-> g.items[k].id, sku |-> TheRow(S, g.items[k].id).sku,
                sale |-> g.items[k].sale, sig |-> g.items[k].sig, sel |-> g.items[k].sel]],
             categories |-> g.categories, tags |-> g.tags]
    BY <2>4, LabelledItems
  <2> HIDE DEF h, S
  <2>6. h \in Graphs /\ h.items \in Seq(CatalogItem)
    BY <2>1, GraphTyped, GraphFields
  <2>7. /\ h.options = g.options /\ h.categories = g.categories /\ h.tags = g.tags
        /\ DOMAIN h.items = DOMAIN g.items
    BY <2>5
  <2>8. [h EXCEPT !.items = <<>>] = [g EXCEPT !.items = <<>>]
    <3>1. \A is : [h EXCEPT !.items = is] =
            [options |-> h.options, items |-> is, categories |-> h.categories, tags |-> h.tags]
      BY <2>6, GraphFields
    <3>2. \A is : [g EXCEPT !.items = is] =
            [options |-> g.options, items |-> is, categories |-> g.categories, tags |-> g.tags]
      BY <2>4, GraphFields
    <3> QED
      BY <2>7, <3>1, <3>2
  <2>9. Len(h.items) = Len(g.items)
    BY <2>4, <2>6, <2>7
  <2>10. ASSUME NEW k \in DOMAIN g.items
         PROVE  h.items[k] = [g.items[k] EXCEPT !.sku = IF @ = NoSku THEN h.items[k].sku ELSE @]
    <3> DEFINE i == g.items[k]
               j == h.items[k]
    <3>1. j = [id |-> i.id, sku |-> TheRow(S, i.id).sku, sale |-> i.sale, sig |-> i.sig, sel |-> i.sel]
      BY <2>5
    <3>2. i = [id |-> i.id, sku |-> i.sku, sale |-> i.sale, sig |-> i.sig, sel |-> i.sel]
      BY <2>4, SeqElements, ItemFields
    <3>3. i.sku # NoSku => j.sku = i.sku
      <4> DEFINE row == [id |-> j.id, sku |-> j.sku, sale |-> j.sale,
                         sig |-> j.sig, seq |-> k - 1, deleted |-> FALSE]
      <4>0. row \in ItemRows(h)
        BY <2>7 DEF ItemRows
      <4>a. row.id = j.id /\ row.sku = j.sku
        OBVIOUS
      <4>b. j.id = i.id
        BY <3>1
      <4>1. row \in ItemRows(h) /\ row.id = i.id /\ row.sku = j.sku
        BY <4>0, <4>a, <4>b
      <4> HIDE DEF row, i, j
      <4>2. row \in S
        BY <2>3, <4>1 DEF LiveItems, S
      <4>3. i.sku # NoSku => row.sku = i.sku
        BY <2>3, <4>1, <4>2 DEF SkusAgree, i
      <4> QED
        BY <4>1, <4>3
    <3> HIDE DEF i, j
    <3>4. j.id = i.id /\ j.sale = i.sale /\ j.sig = i.sig /\ j.sel = i.sel
      BY <3>1
    <3>5. j = [id |-> i.id, sku |-> j.sku, sale |-> i.sale, sig |-> i.sig, sel |-> i.sel]
      BY <3>1
    <3>6. [i EXCEPT !.sku = IF @ = NoSku THEN j.sku ELSE @]
            = [id |-> i.id, sku |-> IF i.sku = NoSku THEN j.sku ELSE i.sku,
               sale |-> i.sale, sig |-> i.sig, sel |-> i.sel]
      BY <3>2
    <3> QED
      BY <3>3, <3>5, <3>6 DEF i, j
  <2> QED
    BY <2>1, <2>7, <2>8, <2>9, <2>10 DEF g
<1>2. ASSUME tx = NoTx
      PROVE  /\ Valid(GraphOf(rows))
             /\ \A i \in Range(GraphOf(rows).items) : i.sig = SignatureOf(i.sel)
  <2>1. GraphOf(rows) = CurrentGraph /\ Complete(CurrentGraph)
    BY <1>2, CurrentComplete, CurrentStored DEF GraphInv
  <2> QED
    BY <2>1 DEF Complete, Signed, Range
<1> QED
  BY <1>1, <1>2 DEF GraphApplied

(* The five flushes end in the graph that was validated, and a graph that  *)
(* is stored is valid again when it is read back                           *)
(* (product-catalog.writer.ts 302-441, catalog-graph-change.ts 13-59).     *)
THEOREM GraphAppliedCorrect == Spec => []GraphApplied
BY GraphInvariant, AppliedByInvariant, PTL

-----------------------------------------------------------------------------
(* What becomes of an item. *)

LEMMA BeginKeeps ==
  ASSUME tx = NoTx, NEW kind, NEW source, NEW p, NEW graph, NEW named,
         Begin(kind, source, p, graph, named)
  PROVE  Committed' = Committed /\ history' = history
<1>1. CASE UNCHANGED <<rows, history, tx>>
  BY <1>1 DEF Committed
<1>2. CASE /\ tx' = [kind |-> kind, source |-> source, product |-> p,
                     graph |-> Resolved(Normal(graph)), phase |-> "stage", saved |-> rows]
           /\ UNCHANGED <<rows, history>>
  <2>1. tx'.phase = "stage" /\ tx'.saved = rows
    BY <1>2
  <2>2. tx' # NoTx
    BY <2>1, TxOpen DEF Phases
  <2> QED
    BY <1>2, <2>1, <2>2 DEF Committed
<1> QED
  BY <1>1, <1>2 DEF Begin, Fail

LEMMA FlushKeeps ==
  ASSUME GraphInv, NEW phase, NEW new, NEW next \in Phases, Flush(phase, new, next)
  PROVE  Committed' = Committed /\ history' = history
<1>1. tx # NoTx
  BY DEF Flush
<1>2. CASE RollBack("conflict")
  BY <1>1, <1>2 DEF RollBack, Committed
<1>3. CASE tx' = [tx EXCEPT !.phase = next] /\ UNCHANGED history
  <2>1. tx = [kind |-> tx.kind, source |-> tx.source, product |-> tx.product,
              graph |-> tx.graph, phase |-> tx.phase, saved |-> tx.saved]
    BY <1>1 DEF GraphInv, TxInv
  <2>2. tx'.saved = tx.saved /\ tx'.phase = next
    BY <1>3, <2>1
  <2>3. tx' # NoTx
    BY <2>2, TxOpen
  <2> QED
    BY <1>1, <1>3, <2>2, <2>3 DEF Committed
<1> QED
  BY <1>2, <1>3 DEF Flush

(* Of the steps between commands' first and last only those two matter.    *)
LEMMA OpenKeeps ==
  ASSUME GraphInv,
         ReplaceCatalog \/ CreateItem \/ UpdateItem \/ DeleteItem \/ Restore
           \/ Stage \/ RemoveUnused \/ ApplyOptions \/ ApplyItems \/ ApplySelections \/ Crash
           \/ OtherProducts
  PROVE  Committed' = Committed /\ history' = history
<1>1. CASE ReplaceCatalog \/ CreateItem \/ UpdateItem \/ DeleteItem \/ Restore
  <2>1. tx = NoTx
    BY <1>1 DEF ReplaceCatalog, CreateItem, UpdateItem, DeleteItem, Restore, Live, Free
  <2>2. \E kind, source, p, graph, named : Begin(kind, source, p, graph, named)
    BY <1>1 DEF ReplaceCatalog, CreateItem, UpdateItem, DeleteItem, Restore, Edit
  <2> QED
    BY <2>1, <2>2, BeginKeeps
<1>2. CASE Stage \/ RemoveUnused \/ ApplyOptions \/ ApplyItems \/ ApplySelections
  <2>1. \/ \E phase, new : \E next \in Phases : Flush(phase, new, next)
        \/ tx # NoTx /\ RollBack("conflict")
    BY <1>2 DEF Stage, RemoveUnused, ApplyOptions, ApplyItems, ApplySelections, Phases
  <2>2. CASE tx # NoTx /\ RollBack("conflict")
    BY <2>2 DEF RollBack, Committed
  <2> QED
    BY <2>1, <2>2, FlushKeeps
<1>3. CASE Crash
  BY <1>3 DEF Crash, RollBack, Committed
<1>4. CASE OtherProducts
  BY <1>4 DEF OtherProducts, Committed
<1> QED
  BY <1>1, <1>2, <1>3, <1>4

LEMMA KeptStep ==
  ASSUME GraphInv, [Next]_vars
  PROVE  Kept(Committed, Committed')
<1>1. CASE Committed' = Committed
  BY <1>1 DEF Kept
<1>2. CASE Create
  <2>1. CommittedRows = NoRows /\ tx = NoTx
    BY <1>2, CreateCases
  <2>2. Committed = {}
    BY <2>1, EmptyStored DEF Committed, CommittedRows, NoRows, Tables
  <2> QED
    BY <2>2 DEF Kept
<1>3. CASE Update \/ Delete
  BY <1>1, <1>3, UpdateCases, DeleteCases DEF Save, Fail, Committed
<1>4. CASE Commit
  <2>1. tx # NoTx /\ tx' = NoTx
    BY <1>4 DEF Commit, RollBack
  <2>2. CASE rows' = tx.saved
    BY <1>1, <2>1, <2>2 DEF Committed
  <2>3. CASE rows' = rows
    <3>1. Kept(tx.saved.items, rows.items)
      BY <2>1 DEF GraphInv, PhaseInv, Reached
    <3> QED
      BY <2>1, <2>3, <3>1 DEF Committed
  <2> QED
    BY <1>4, <2>2, <2>3 DEF Commit, RollBack, Save
<1>5. CASE UNCHANGED vars
  BY <1>1, <1>5 DEF vars, Committed
<1> QED
  BY <1>1, <1>2, <1>3, <1>4, <1>5, OpenKeeps DEF Next

(* An item that was ever stored is there for good, under its SKU           *)
(* (product-catalog.writer.ts 160-164, 388-414).                           *)
THEOREM ItemsKeptCorrect == Spec => ItemsKept
<1>1. GraphInv /\ [Next]_vars =>
        [\A i \in Committed : \E j \in Committed' : j.id = i.id /\ j.sku = i.sku]_vars
  BY KeptStep DEF Kept
<1> QED
  BY <1>1, GraphInvariant, PTL DEF Spec, ItemsKept

(* A revision that restores an earlier one is that revision: the same      *)
(* rows under the same ids in the same places, the same status and slug,   *)
(* and alive                                                               *)
(* (product-command.service.ts 188-222).                                   *)
THEOREM RestoredIsSource ==
  Spec => [](\A r \in DOMAIN history : history[r].kind = "RESTORE" => Restored(r))
<1>1. GraphInv => (\A r \in DOMAIN history : history[r].kind = "RESTORE" => Restored(r))
  BY DEF GraphInv, HistoryInv
<1> QED
  BY <1>1, GraphInvariant, PTL

-----------------------------------------------------------------------------
(* Every command is one of ProductCatalog. *)

SearchRows == [r \in DOMAIN history |-> SearchRow(history[r])]

LEMMA RowsMapped ==
  ASSUME HistoryInv
  PROVE  /\ SearchRows = [r \in 1 .. Revision |-> SearchRow(history[r])]
         /\ Revision \in Nat /\ DOMAIN history = 1 .. Revision
         /\ Len(SearchRows) = Revision
         /\ Abstract!Revision(1) = Revision
         /\ Abstract!Current(1) = SearchRows[Revision]
         /\ Abstract!Live(1) <=> Revision > 0 /\ ~SearchRows[Revision].deleted
<1>1. Revision \in Nat /\ DOMAIN history = 1 .. Revision
  BY DEF HistoryInv, Revision
<1>2. SearchRows = [r \in 1 .. Revision |-> SearchRow(history[r])]
  BY <1>1 DEF SearchRows
<1>3. Len(SearchRows) = Revision
  BY <1>1, <1>2
<1>4. Abstract!Revision(1) = Revision
  BY <1>3 DEF Abstract!Revision, SearchRows
<1>5. Abstract!Current(1) = SearchRows[Revision]
  BY <1>4 DEF Abstract!Current, SearchRows
<1> QED
  BY <1>1, <1>2, <1>3, <1>4, <1>5 DEF Abstract!Live

(* A snapshot that is appended is a row that is saved. *)
LEMMA SnapshotSaved ==
  ASSUME HistoryInv, Revision < MaxRevision, NEW e, history' = Append(history, e),
         Abstract!Sound(SearchRow(e))
  PROVE  Abstract!Save(1, SearchRow(e))
<1>1. history \in Seq(Snapshot) /\ Revision \in Nat /\ DOMAIN history = 1 .. Revision
  BY RowsMapped DEF HistoryInv
<1>2. /\ DOMAIN history' = 1 .. (Revision + 1) /\ history'[Revision + 1] = e
      /\ \A r \in 1 .. Revision : history'[r] = history[r]
  BY <1>1 DEF Revision
<1> DEFINE R(h) == SearchRow(h)
           row == R(e)
<1> HIDE DEF R
<1>3. SearchRows' = [r \in 1 .. (Revision + 1) |-> R(history'[r])]
  BY <1>2 DEF SearchRows, R, SearchRow
<1>4. SearchRows = [r \in 1 .. Revision |-> R(history[r])]
  BY <1>1 DEF SearchRows, R
<1>5. Append(SearchRows, row) =
        [r \in 1 .. (Revision + 1) |-> IF r <= Revision THEN R(history[r]) ELSE row]
  <2>1. Len(SearchRows) = Revision
    BY <1>1, <1>4
  <2>2. Append(SearchRows, row) =
          [r \in 1 .. (Len(SearchRows) + 1) |->
             IF r \in 1 .. Len(SearchRows) THEN SearchRows[r] ELSE row]
    BY <1>1, <1>4
  <2> QED
    BY <1>1, <1>4, <2>1, <2>2
<1>6. SearchRows' = Append(SearchRows, row)
  BY <1>1, <1>2, <1>3, <1>5
<1>7. <<SearchRows>>' = [<<SearchRows>> EXCEPT ![1] = Append(@, row)]
  BY <1>6
<1>8. Abstract!Revision(1) < MaxRevision
  BY RowsMapped
<1> QED
  BY <1>7, <1>8 DEF Abstract!Save, SearchRows, R

(* What can be bought is told alike from the rows and from the graph they  *)
(* store.                                                                  *)
LEMMA SaleableStored ==
  ASSUME NEW r, NEW g, Stored(r, g)
  PROVE  Saleable(r) <=> \E k \in DOMAIN g.items : g.items[k].sale = "ALLOW"
<1>1. Saleable(r) <=> \E i \in LiveItems(r) : i.sale = "ALLOW"
  BY DEF Saleable, LiveItems
<1>2. LiveItems(r) = ItemRows(g)
  BY DEF Stored
<1> DEFINE row(k) == [id |-> g.items[k].id, sku |-> g.items[k].sku, sale |-> g.items[k].sale,
                      sig |-> g.items[k].sig, seq |-> k - 1, deleted |-> FALSE]
<1>a. ItemRows(g) = {row(k) : k \in DOMAIN g.items}
  BY DEF ItemRows
<1>b. \A k : row(k).sale = g.items[k].sale
  OBVIOUS
<1> HIDE DEF row
<1>3. (\E i \in ItemRows(g) : i.sale = "ALLOW") <=> \E k \in DOMAIN g.items : g.items[k].sale = "ALLOW"
  BY <1>a, <1>b
<1> QED
  BY <1>1, <1>2, <1>3

(* A command that keeps the graph or changes it, on sound rows.            *)
LEMMA SavedIsSaved ==
  ASSUME HistoryInv, Revision < MaxRevision, NEW h, Complete(h), NEW r, Stored(r, h),
         NEW kind, NEW source, NEW p, Sound(p, r), Save(kind, source, p, r)
  PROVE  Abstract!Save(1, [status |-> p.status, deleted |-> p.deleted,
                           saleable |-> \E k \in DOMAIN h.items : h.items[k].sale = "ALLOW"])
<1> DEFINE e == [kind |-> kind, source |-> source, product |-> p, graph |-> h]
           b == \E k \in DOMAIN h.items : h.items[k].sale = "ALLOW"
           row == [status |-> p.status, deleted |-> p.deleted, saleable |-> b]
<1>1. history' = Append(history, e)
  BY StoredIsGraph DEF Save
<1>2. e.product = p /\ e.graph = h
  OBVIOUS
<1> HIDE DEF e
<1>3. SearchRow(e) = row
  BY <1>2 DEF SearchRow
<1>4. p.status = "ACTIVE" => b
  BY SaleableStored DEF Sound
<1>5. row.status = p.status /\ row.saleable = b
  OBVIOUS
<1> HIDE DEF b, row
<1>6. Abstract!Sound(SearchRow(e))
  BY <1>3, <1>4, <1>5 DEF Abstract!Sound
<1>7. Abstract!Save(1, SearchRow(e))
  BY <1>1, <1>6, SnapshotSaved
<1> QED
  BY <1>3, <1>7 DEF row, b

(* The last revision, as the search has it. *)
LEMMA CurrentRow ==
  ASSUME HistoryInv, Revision # 0
  PROVE  /\ SearchRows[Revision] =
              [status |-> product.status, deleted |-> product.deleted,
               saleable |-> \E k \in DOMAIN CurrentGraph.items : CurrentGraph.items[k].sale = "ALLOW"]
         /\ Abstract!Current(1) = SearchRows[Revision]
         /\ Abstract!Live(1) <=> ~product.deleted
<1>1. Revision \in 1 .. Revision /\ SearchRows[Revision] = SearchRow(history[Revision])
  BY RowsMapped
<1>2. history[Revision].product = product /\ history[Revision].graph = CurrentGraph
  BY DEF HistoryInv, CurrentGraph
<1>3. SearchRows[Revision] =
        [status |-> product.status, deleted |-> product.deleted,
         saleable |-> \E k \in DOMAIN CurrentGraph.items : CurrentGraph.items[k].sale = "ALLOW"]
  BY <1>1, <1>2 DEF SearchRow
<1> QED
  BY <1>1, <1>3, RowsMapped

LEMMA MapCreate ==
  ASSUME GraphInv, Create
  PROVE  Abstract!Create(1) \/ history' = history
<1>1. HistoryInv /\ Revision < MaxRevision /\ Revision = 0
  BY CreateCases DEF GraphInv
<1>2. CASE Fail("CREATE", "conflict")
  BY <1>2 DEF Fail
<1>3. ASSUME NEW slug \in Slugs,
             Save("CREATE", 0, [status |-> "DRAFT", deleted |-> FALSE, slug |-> slug], NoRows)
      PROVE  Abstract!Create(1)
  <2> DEFINE p == [status |-> "DRAFT", deleted |-> FALSE, slug |-> slug]
  <2>1. Sound(p, NoRows) /\ p.status = "DRAFT" /\ p.deleted = FALSE /\ Save("CREATE", 0, p, NoRows)
    BY <1>3 DEF Sound
  <2> HIDE DEF p
  <2>2. Abstract!Save(1, [status |-> p.status, deleted |-> p.deleted,
                          saleable |-> \E k \in DOMAIN EmptyGraph.items : EmptyGraph.items[k].sale = "ALLOW"])
    BY <1>1, <2>1, EmptyComplete, EmptyStored, SavedIsSaved
  <2>3. (\E k \in DOMAIN EmptyGraph.items : EmptyGraph.items[k].sale = "ALLOW") = FALSE
    BY DEF EmptyGraph
  <2>4. Abstract!Save(1, [status |-> "DRAFT", saleable |-> FALSE, deleted |-> FALSE])
    BY <2>1, <2>2, <2>3
  <2>5. Abstract!Revision(1) = 0
    BY <1>1, RowsMapped
  <2> QED
    BY <2>4, <2>5 DEF Abstract!Create
<1> QED
  BY <1>2, <1>3, CreateCases

(* A save of the rows as they are changes only the product. *)
LEMMA SameRowsMapped ==
  ASSUME GraphInv, tx = NoTx, Revision < MaxRevision, Revision > 0, ~product.deleted,
         NEW kind, NEW p, Sound(p, rows), Save(kind, 0, p, rows)
  PROVE  /\ Abstract!Live(1)
         /\ Abstract!Save(1, [status |-> p.status, deleted |-> p.deleted,
                              saleable |-> Abstract!Current(1).saleable])
<1> DEFINE g == CurrentGraph
           b == \E k \in DOMAIN g.items : g.items[k].sale = "ALLOW"
<1>1. HistoryInv /\ RowsInv
  BY DEF GraphInv
<1>2. Complete(g) /\ Stored(rows, g)
  BY <1>1, CurrentComplete, CurrentStored
<1>3. /\ Abstract!Current(1) = [status |-> product.status, deleted |-> product.deleted, saleable |-> b]
      /\ Abstract!Live(1)
  BY <1>1, CurrentRow
<1> HIDE DEF g
<1>4. Abstract!Save(1, [status |-> p.status, deleted |-> p.deleted, saleable |-> b])
  BY <1>1, <1>2, SavedIsSaved
<1> HIDE DEF b
<1>5. Abstract!Current(1).saleable = b
  BY <1>3
<1> QED
  BY <1>3, <1>4, <1>5

LEMMA CurrentChanged ==
  ASSUME HistoryInv, Revision # 0
  PROVE  LET row == Abstract!Current(1)
         IN  /\ \A s : [row EXCEPT !.status = s] =
                         [status |-> s, deleted |-> product.deleted, saleable |-> row.saleable]
             /\ \A s, d : [row EXCEPT !.status = s, !.deleted = d] =
                         [status |-> s, deleted |-> d, saleable |-> row.saleable]
             /\ \A b : [row EXCEPT !.saleable = b] =
                         [status |-> product.status, deleted |-> product.deleted, saleable |-> b]
<1> DEFINE row == Abstract!Current(1)
           b0 == \E k \in DOMAIN CurrentGraph.items : CurrentGraph.items[k].sale = "ALLOW"
<1>1. row = [status |-> product.status, deleted |-> product.deleted, saleable |-> b0]
  BY CurrentRow
<1> HIDE DEF row, b0
<1>2. \A s : [row EXCEPT !.status = s] =
               [status |-> s, deleted |-> product.deleted, saleable |-> row.saleable]
  BY <1>1
<1>3. \A s, d : [row EXCEPT !.status = s, !.deleted = d] =
               [status |-> s, deleted |-> d, saleable |-> row.saleable]
  <2>1. SUFFICES ASSUME NEW s, NEW d
                 PROVE  [row EXCEPT !.status = s, !.deleted = d] =
                          [status |-> s, deleted |-> d, saleable |-> row.saleable]
    OBVIOUS
  <2> DEFINE D == {"status", "deleted", "saleable"}
  <2>2. DOMAIN row = D
    <3>1. DOMAIN [status |-> product.status, deleted |-> product.deleted, saleable |-> b0] = D
      OBVIOUS
    <3> HIDE DEF D
    <3> QED
      BY <1>1, <3>1
  <2>3. [row EXCEPT !.status = s, !.deleted = d] =
          [f \in D |-> IF f = "deleted" THEN d ELSE IF f = "status" THEN s ELSE row[f]]
    BY <2>2
  <2>4. [f \in D |-> IF f = "deleted" THEN d ELSE IF f = "status" THEN s ELSE row[f]] =
          [status |-> s, deleted |-> d, saleable |-> row.saleable]
    OBVIOUS
  <2> QED
    BY <2>3, <2>4
<1>4. \A b : [row EXCEPT !.saleable = b] =
               [status |-> product.status, deleted |-> product.deleted, saleable |-> b]
  BY <1>1
<1> QED
  BY <1>2, <1>3, <1>4 DEF row

LEMMA MapUpdate ==
  ASSUME GraphInv, Update
  PROVE  Abstract!Update(1) \/ history' = history
<1>1. /\ HistoryInv /\ tx = NoTx /\ Revision < MaxRevision /\ Revision > 0 /\ Revision # 0
      /\ ~product.deleted
  BY DEF GraphInv, Update, Live, Free
<1>2. CASE Fail("UPDATE", "conflict") \/ Fail("UPDATE", "refused")
  BY <1>2 DEF Fail
<1>3. ASSUME NEW s \in Statuses, NEW slug, NEW p,
             p = [status |-> s, deleted |-> product.deleted, slug |-> slug],
             Sound(p, rows), Save("UPDATE", 0, p, rows)
      PROVE  Abstract!Update(1)
  <2>1. p.status = s /\ p.deleted = product.deleted
    BY <1>3
  <2>2. /\ Abstract!Live(1)
        /\ Abstract!Save(1, [status |-> p.status, deleted |-> p.deleted,
                             saleable |-> Abstract!Current(1).saleable])
    BY <1>1, <1>3, SameRowsMapped
  <2>3. [Abstract!Current(1) EXCEPT !.status = s] =
          [status |-> s, deleted |-> product.deleted, saleable |-> Abstract!Current(1).saleable]
    BY <1>1, CurrentChanged
  <2>4. Abstract!Save(1, [Abstract!Current(1) EXCEPT !.status = s])
    BY <2>1, <2>2, <2>3
  <2> QED
    BY <2>2, <2>4 DEF Abstract!Update
<1> QED
  BY <1>2, <1>3, UpdateCases

LEMMA MapDelete ==
  ASSUME GraphInv, Delete
  PROVE  Abstract!Delete(1)
<1> DEFINE p == [status |-> "CLOSED", deleted |-> TRUE, slug |-> product.slug]
<1>1. /\ HistoryInv /\ tx = NoTx /\ Revision < MaxRevision /\ Revision > 0 /\ Revision # 0
      /\ ~product.deleted
  BY DEF GraphInv, Delete, Live, Free
<1>2. p.status = "CLOSED" /\ p.deleted = TRUE /\ Sound(p, rows) /\ Save("DELETE", 0, p, rows)
  BY DeleteCases DEF Sound
<1> HIDE DEF p
<1>3. /\ Abstract!Live(1)
      /\ Abstract!Save(1, [status |-> p.status, deleted |-> p.deleted,
                           saleable |-> Abstract!Current(1).saleable])
  BY <1>1, <1>2, SameRowsMapped
<1>4. [Abstract!Current(1) EXCEPT !.status = "CLOSED", !.deleted = TRUE] =
        [status |-> "CLOSED", deleted |-> TRUE, saleable |-> Abstract!Current(1).saleable]
  BY <1>1, CurrentChanged
<1>5. Abstract!Save(1, [Abstract!Current(1) EXCEPT !.status = "CLOSED", !.deleted = TRUE])
  BY <1>2, <1>3, <1>4
<1> QED
  BY <1>3, <1>5 DEF Abstract!Delete

LEMMA MapCommit ==
  ASSUME GraphInv, Commit
  PROVE  Abstract!ChangeCatalog(1) \/ Abstract!Restore(1) \/ history' = history
<1>1. tx # NoTx /\ tx.phase = "commit"
  BY DEF Commit
<1>2. CASE RollBack("refused")
  BY <1>2 DEF RollBack
<1>3. CASE Sound(tx.product, rows) /\ Save(tx.kind, tx.source, tx.product, rows)
  <2> DEFINE h == Labelled(tx.graph, rows.items)
             b == \E k \in DOMAIN h.items : h.items[k].sale = "ALLOW"
             p == tx.product
  <2>1. Complete(h) /\ Stored(rows, h) /\ (Restoring => h = tx.graph)
    BY <1>1, AtCommit
  <2>2. HistoryInv /\ (Editing \/ Restoring) /\ Revision \in 1 .. MaxRevision - 1
    BY <1>1 DEF GraphInv, TxInv
  <2>a. Revision \in Nat /\ Revision < MaxRevision /\ Revision > 0 /\ Revision # 0
    BY <2>2, GraphAssumption, RowsMapped
  <2> HIDE DEF h
  <2>3. Abstract!Save(1, [status |-> p.status, deleted |-> p.deleted, saleable |-> b])
    BY <1>3, <2>1, <2>2, <2>a, SavedIsSaved
  <2>4. b \in BOOLEAN
    OBVIOUS
  <2>5. CASE Editing
    <3>1. p = product /\ ~product.deleted
      BY <2>5 DEF Editing
    <3> HIDE DEF b, p
    <3>2. [Abstract!Current(1) EXCEPT !.saleable = b] =
            [status |-> p.status, deleted |-> p.deleted, saleable |-> b]
      BY <2>2, <2>a, <3>1, CurrentChanged
    <3>3. Abstract!Live(1)
      BY <2>2, <2>a, <3>1, CurrentRow
    <3>4. Abstract!Save(1, [Abstract!Current(1) EXCEPT !.saleable = b])
      BY <2>3, <3>2
    <3> QED
      BY <2>4, <3>3, <3>4 DEF Abstract!ChangeCatalog
  <2>6. CASE Restoring
    <3> DEFINE r == tx.source
               q == history[r].product
    <3>1. /\ r \in 1 .. Revision - 1 /\ r \in 1 .. Revision
          /\ p = [q EXCEPT !.deleted = FALSE] /\ h = history[r].graph
      BY <2>1, <2>2, <2>6, <2>a DEF Restoring
    <3>2. history[r] \in Snapshot
      BY <2>2, <3>1, RowsMapped DEF HistoryInv
    <3>3. q \in Product
      BY <3>2 DEF Snapshot
    <3>4. p.status = q.status /\ p.deleted = FALSE
      BY <3>1, <3>3 DEF Product
    <3>5. SearchRow(history[r]) = [status |-> q.status, deleted |-> q.deleted, saleable |-> b]
      BY <3>1 DEF SearchRow
    <3> HIDE DEF b, p, q, r
    <3>6. SearchRows[r] = [status |-> q.status, deleted |-> q.deleted, saleable |-> b]
      BY <2>2, <3>1, <3>5, RowsMapped
    <3>7. [SearchRows[r] EXCEPT !.deleted = FALSE] =
            [status |-> p.status, deleted |-> p.deleted, saleable |-> b]
      <4> DEFINE row == SearchRows[r]
                 c == q.deleted
      <4>1. row = [status |-> p.status, deleted |-> c, saleable |-> b]
        BY <3>4, <3>6
      <4> HIDE DEF row, c
      <4>2. \A d : [row EXCEPT !.deleted = d] = [status |-> p.status, deleted |-> d, saleable |-> b]
        BY <4>1
      <4> QED
        BY <3>4, <4>2 DEF row
    <3>8. Abstract!Save(1, [SearchRows[r] EXCEPT !.deleted = FALSE])
      BY <2>3, <3>7
    <3>9. Abstract!Revision(1) = Revision
      BY <2>2, RowsMapped
    <3> QED
      BY <2>a, <3>1, <3>8, <3>9 DEF Abstract!Restore, SearchRows
  <2> QED
    BY <2>2, <2>5, <2>6
<1> QED
  BY <1>2, <1>3 DEF Commit

(* Each command does to the product what ProductCatalog, and with it the   *)
(* search, takes it to do, in the one step that stores it; every other     *)
(* step of it is none (product-command.service.ts 79-318).                 *)
THEOREM ImplementsCatalogCorrect == Spec => ImplementsCatalog
<1>1. GraphInv /\ [Next]_vars => UNCHANGED history \/ Abstract!Command(1)
  <2> SUFFICES ASSUME GraphInv, [Next]_vars
               PROVE  UNCHANGED history \/ Abstract!Command(1)
    OBVIOUS
  <2>1. CASE UNCHANGED vars
    BY <2>1 DEF vars
  <2>2. CASE Create
    BY <2>2, MapCreate DEF Abstract!Command
  <2>3. CASE Update
    BY <2>3, MapUpdate DEF Abstract!Command
  <2>4. CASE Delete
    BY <2>4, MapDelete DEF Abstract!Command
  <2>5. CASE Commit
    BY <2>5, MapCommit DEF Abstract!Command
  <2> QED
    BY <2>1, <2>2, <2>3, <2>4, <2>5, OpenKeeps DEF Next
<1>2. GraphInv /\ [Next]_vars =>
        [UNCHANGED history \/ Abstract!Command(1)]_<<[r \in DOMAIN history |->
                                                       SearchRow(history[r])]>>
  BY <1>1
<1> QED
  BY <1>2, GraphInvariant, PTL DEF Spec, ImplementsCatalog

-----------------------------------------------------------------------------
(* The way of the writer.                                                  *)
(*                                                                         *)
(* A flush collides only when the graph itself can not be stored, because  *)
(* the rows it overwrites have been parked: on names and codes no row and  *)
(* no part of the graph uses, on places above those of any graph, and      *)
(* under signatures of their own.                                          *)

(* No two names or tags of the graph are one text to the database.         *)
EqualTags(g) ==
  \E j, k \in DOMAIN g.tags : j # k /\ Compared(g.tags[j]) = Compared(g.tags[k])

NamesDiffer(g) ==
  /\ ~EqualTexts(g.options, "name")
  /\ \A o \in Range(g.options) : ~EqualTexts(o.values, "name")
  /\ ~EqualTags(g)

(* A SKU was given, or it is the random one of the item.                   *)
OwnSkus(is) ==
  \A k \in DOMAIN is :
    is[k].sku \in Skus \cup {NoSku} \/ (is[k].id # 0 /\ is[k].sku = is[k].id)

(* The signature is the one an item has when it is parked.                 *)
Marked(i) == \E n \in 0 .. MaxRevision : i.sig = [item |-> i.id, revision |-> n]

(* What holds of the items a product has, the deleted ones too.            *)
Settled(S) ==
  \A i \in S : /\ i.sku \in Skus \/ i.sku = i.id
               /\ i.deleted => Marked(i)

OptionsAway(S, os) ==
  \A s \in S : /\ Compared(s.code) \notin Texts(Range(os))
               /\ Compared(s.name) \notin Texts(Range(os))
               /\ s.seq \in Nat /\ s.seq >= Limits.options

ValuesAway(S, os) ==
  \A s \in S :
    /\ \A o \in Range(os) : o.id = s.option =>
         /\ Compared(s.code) \notin Texts(Range(o.values))
         /\ Compared(s.name) \notin Texts(Range(o.values))
    /\ s.seq \in Nat /\ s.seq >= Limits.optionValues

LabelsAway(S) ==
  \A l \in S : /\ l.seq \in Nat
               /\ l.kind = "category" => l.seq >= Limits.categories
               /\ l.kind = "tag" => l.seq >= Limits.tags

ItemsAway(S) ==
  /\ \A i, j \in S : i.seq = j.seq => i.id = j.id
  /\ \A i \in S : i.seq \in Nat /\ i.seq >= Limits.items /\ Marked(i)

HistorySound ==
  \A r \in DOMAIN history :
    /\ NamesDiffer(history[r].graph)
    /\ OwnSkus(history[r].graph.items)
    /\ history[r].product.status = "ACTIVE" =>
         \E k \in DOMAIN history[r].graph.items : history[r].graph.items[k].sale = "ALLOW"

(* Between the flushes: what is parked is away from all that is to come,   *)
(* and the names were found to differ when the options were written.       *)
Fitting(r, g, items, phase) ==
  /\ Settled(r.items)
  /\ Ids(r.items) \subseteq Ids(items) \cup Ids(Range(g.items))
  /\ phase \in {"remove", "options"} =>
       /\ OptionsAway(r.options, g.options)
       /\ ValuesAway(r.values, g.options)
       /\ LabelsAway(r.labels)
  /\ phase \in {"remove", "options", "items"} => ItemsAway(r.items)
  /\ phase \in {"remove", "options", "items", "selections"} => r.selections = {}
  /\ phase \in {"items", "selections", "commit"} => NamesDiffer(g)

(* Each command adds as many items as a graph can have, at the most.       *)
TableInv ==
  /\ Settled(CommittedRows.items)
  /\ Cardinality(CommittedRows.items) <= Limits.items * Revision

AwayInv ==
  tx # NoTx =>
    /\ OwnSkus(tx.graph.items)
    /\ tx.phase = "stage" => rows = tx.saved
    /\ Fitting(rows, tx.graph, tx.saved.items, tx.phase)

(* A restore is never told that it was refused.                            *)
ToldInv == outcome.kind = "RESTORE" => outcome.result # "refused"

WriterInv == HistorySound /\ TableInv /\ AwayInv /\ ToldInv

-----------------------------------------------------------------------------
(* Counting. *)

(* How many elements of S have a smaller key. *)
Rank(S, f, x) == Cardinality({y \in S : f[y] < f[x]})

LEMMA RankTells ==
  ASSUME NEW S, IsFiniteSet(S), NEW f, \A x \in S : f[x] \in Nat
  PROVE  /\ \A x \in S : Rank(S, f, x) \in Nat /\ Rank(S, f, x) < Cardinality(S)
         /\ \A x, z \in S : f[x] < f[z] => Rank(S, f, x) < Rank(S, f, z)
<1>1. ASSUME NEW x \in S
      PROVE  Rank(S, f, x) \in Nat /\ Rank(S, f, x) < Cardinality(S)
  <2> DEFINE A == {y \in S : f[y] < f[x]}
  <2>1. A \subseteq S /\ x \notin A
    OBVIOUS
  <2> HIDE DEF A
  <2>2. Cardinality(A) \in Nat /\ Cardinality(A) < Cardinality(S)
    BY <2>1, PartCountsLess
  <2> QED
    BY <2>2 DEF A, Rank
<1>2. ASSUME NEW x \in S, NEW z \in S, f[x] < f[z]
      PROVE  Rank(S, f, x) < Rank(S, f, z)
  <2> DEFINE A == {y \in S : f[y] < f[x]}
             B == {y \in S : f[y] < f[z]}
  <2>1. A \subseteq B /\ x \in B /\ x \notin A
    BY <1>2
  <2>2. B \in SUBSET S
    OBVIOUS
  <2> HIDE DEF A, B
  <2>3. IsFiniteSet(B)
    BY <2>2, FS_Subset
  <2>4. Cardinality(A) < Cardinality(B)
    BY <2>1, <2>3, PartCountsLess
  <2> QED
    BY <2>4 DEF A, B, Rank
<1> QED
  BY <1>1, <1>2

(* The places rows are parked on, counted from one end. *)
LEMMA Places ==
  ASSUME NEW S, IsFiniteSet(S), \A r \in S : r.id \in Nat, \A r, s \in S : r.id = s.id => r = s
  PROVE  /\ \A r \in S : Place(S, r) \in Nat /\ Place(S, r) < Cardinality(S)
         /\ \A r, s \in S : Place(S, r) = Place(S, s) => r = s
<1> DEFINE f == [r \in S |-> r.id]
<1>1. \A r \in S : f[r] \in Nat
  OBVIOUS
<1>2. \A r \in S : Place(S, r) = Rank(S, f, r)
  <2>1. SUFFICES ASSUME NEW r \in S
                 PROVE  Place(S, r) = Rank(S, f, r)
    OBVIOUS
  <2>2. {q \in S : f[q] < f[r]} = {q \in S : q.id < r.id}
    OBVIOUS
  <2> QED
    BY <2>2 DEF Place, Rank
<1>3. \A r, s \in S : f[r] = f[s] => r = s
  OBVIOUS
<1> HIDE DEF f
<1>4. /\ \A x \in S : Rank(S, f, x) \in Nat /\ Rank(S, f, x) < Cardinality(S)
      /\ \A x, z \in S : f[x] < f[z] => Rank(S, f, x) < Rank(S, f, z)
  BY <1>1, RankTells
<1>5. \A r \in S : Place(S, r) \in Nat /\ Place(S, r) < Cardinality(S)
  BY <1>2, <1>4
<1>6. ASSUME NEW r \in S, NEW s \in S, Place(S, r) = Place(S, s)
      PROVE  r = s
  <2>1. Rank(S, f, r) = Rank(S, f, s) /\ Rank(S, f, r) \in Nat
    BY <1>2, <1>4, <1>6
  <2>2. ~(f[r] < f[s]) /\ ~(f[s] < f[r])
    BY <1>4, <2>1
  <2> QED
    BY <1>1, <1>3, <2>2
<1> QED
  BY <1>5, <1>6

LEMMA SmallestOf ==
  ASSUME NEW N, \A x \in N : x \in Nat, IsFiniteSet(N), N # {}
  PROVE  Min(N) \in N /\ \A x \in N : Min(N) <= x
<1> DEFINE Below(x) == {y \in N : y < x}
           Bottoms == {Below(x) : x \in N}
<1>1. IsFiniteSet(N) /\ Bottoms \subseteq SUBSET N
  OBVIOUS
<1>2. Bottoms # {}
  OBVIOUS
<1>3. \E V \in Bottoms : \A U \in Bottoms : U \subseteq V => U = V
  <2> HIDE DEF Bottoms
  <2> QED
    BY <1>1, <1>2, SmallestSubset
<1>4. PICK V \in Bottoms : \A U \in Bottoms : U \subseteq V => U = V
  BY <1>3
<1>5. PICK x \in N : V = Below(x)
  BY <1>4
<1>6. \A y \in N : Below(y) \subseteq Below(x) => Below(y) = Below(x)
  BY <1>4, <1>5
<1>7. ASSUME NEW y \in N, y < x
      PROVE  FALSE
  <2>1. \A z \in N : z < y => z < x
    BY <1>7
  <2>2. Below(y) = Below(x)
    BY <1>6, <2>1
  <2>3. y \in Below(x) /\ y \notin Below(y)
    BY <1>7
  <2> QED
    BY <2>2, <2>3
<1>8. \A y \in N : x <= y
  BY <1>7
<1> QED
  BY <1>8 DEF Min

(* Blocks of n numbers do not overlap. *)
LEMMA BlocksApart ==
  ASSUME NEW n \in Nat, NEW i \in 0 .. (n - 1), NEW k \in 0 .. (n - 1),
         NEW a \in Nat, NEW b \in Nat, n * a + i = n * b + k
  PROVE  a = b
<1>1. ASSUME NEW x \in Nat, NEW y \in Nat, x < y, NEW p \in 0 .. (n - 1), NEW q \in 0 .. (n - 1)
      PROVE  n * x + p # n * y + q
  <2> DEFINE d == y - x - 1
  <2>1. d \in Nat /\ y = x + 1 + d
    BY <1>1
  <2>2. n * y = n * x + n + n * d
    BY <2>1
  <2>3. n * x \in Nat /\ n * y \in Nat /\ n * d \in Nat
    BY <2>1
  <2> HIDE DEF d
  <2> QED
    BY <2>2, <2>3
<1> QED
  BY <1>1

(* unusedStagingKeys finds n keys in a row that are not taken, for among   *)
(* so many blocks of keys one is free of all that is taken.                *)
LEMMA KeysFree ==
  ASSUME NEW n \in Nat, n # 0, NEW taken, IsFiniteSet(taken)
  PROVE  /\ FirstKey(n, taken) \in Nat
         /\ \A i \in 0 .. (n - 1) : FirstKey(n, taken) + i \notin taken
<1> DEFINE c == Cardinality(taken)
           Open == {j \in 0 .. c : \A i \in 0 .. (n - 1) : n * j + i \notin taken}
<1>1. c \in Nat
  BY FS_CardinalityType
<1>2. Open # {}
  <2>1. SUFFICES ASSUME \A j \in 0 .. c : \E i \in 0 .. (n - 1) : n * j + i \in taken
                 PROVE  FALSE
    OBVIOUS
  <2> DEFINE off == [j \in 0 .. c |-> CHOOSE i \in 0 .. (n - 1) : n * j + i \in taken]
             h == [j \in 0 .. c |-> n * j + off[j]]
  <2>2. \A j \in 0 .. c : off[j] \in 0 .. (n - 1) /\ n * j + off[j] \in taken
    BY <2>1
  <2> HIDE DEF off
  <2>3. h \in [0 .. c -> taken]
    BY <2>2
  <2>4. IsFiniteSet(0 .. c) /\ Cardinality(0 .. c) = c + 1
    BY <1>1, FS_Interval
  <2>5. Cardinality(taken) < Cardinality(0 .. c)
    BY <1>1, <2>4
  <2>6. \A x, y \in 0 .. c : h[x] = n * x + off[x] /\ h[y] = n * y + off[y]
    OBVIOUS
  <2> HIDE DEF h
  <2>7. PICK x \in 0 .. c : \E y \in 0 .. c : x # y /\ h[x] = h[y]
    BY <2>3, <2>4, <2>5, FS_PigeonHole
  <2>8. PICK y \in 0 .. c : x # y /\ h[x] = h[y]
    BY <2>7
  <2>9. x \in Nat /\ y \in Nat /\ off[x] \in 0 .. (n - 1) /\ off[y] \in 0 .. (n - 1)
    BY <1>1, <2>2
  <2>10. n * x + off[x] = n * y + off[y]
    BY <2>6, <2>8
  <2>11. x = y
    BY <2>9, <2>10, BlocksApart
  <2> QED
    BY <2>8, <2>11
<1>3. \A j \in Open : j \in Nat
  BY <1>1
<1>4. IsFiniteSet(Open)
  <2>1. Open \in SUBSET (0 .. c) /\ IsFiniteSet(0 .. c)
    BY <1>1, FS_Interval
  <2> HIDE DEF Open
  <2> QED
    BY <2>1, FS_Subset
<1>5. Min(Open) \in Open
  <2> HIDE DEF Open
  <2> QED
    BY <1>2, <1>3, <1>4, SmallestOf
<1>6. FirstKey(n, taken) = n * Min(Open)
  BY DEF FirstKey
<1>7. Min(Open) \in Nat /\ \A i \in 0 .. (n - 1) : n * Min(Open) + i \notin taken
  BY <1>3, <1>5
<1> HIDE DEF Open
<1> QED
  BY <1>6, <1>7

CountAbove(F, n) == Cardinality({m \in F : m > n})

(* A finite set of numbers has, for each count below its size, a member    *)
(* with so many members above it.                                          *)
LEMMA CountedFromTop ==
  ASSUME NEW F, NEW top \in Nat, F \in SUBSET (0 .. top), NEW c \in Nat, c < Cardinality(F)
  PROVE  \E n \in F : CountAbove(F, n) = c
<1> DEFINE f == [n \in F |-> top - n]
           size == Cardinality(F)
           R == [n \in F |-> Rank(F, f, n)]
<1>1. IsFiniteSet(F) /\ size \in Nat /\ \A n \in F : n \in 0 .. top
  <2>1. IsFiniteSet(0 .. top)
    BY FS_Interval
  <2>2. IsFiniteSet(F)
    BY <2>1, FS_Subset
  <2> QED
    BY <2>2, FS_CardinalityType
<1>2. \A n \in F : f[n] \in Nat /\ f[n] = top - n
  BY <1>1
<1>3. \A n \in F : Rank(F, f, n) = CountAbove(F, n)
  <2>1. SUFFICES ASSUME NEW n \in F
                 PROVE  Rank(F, f, n) = CountAbove(F, n)
    OBVIOUS
  <2> HIDE DEF f
  <2>2. \A m \in F : f[m] < f[n] <=> m > n
    BY <1>1, <1>2
  <2>3. {m \in F : f[m] < f[n]} = {m \in F : m > n}
    BY <2>2
  <2> QED
    BY <2>3 DEF Rank, CountAbove
<1> HIDE DEF f, size
<1>4. /\ \A n \in F : Rank(F, f, n) \in Nat /\ Rank(F, f, n) < size
      /\ \A m, n \in F : f[m] < f[n] => Rank(F, f, m) < Rank(F, f, n)
  BY <1>1, <1>2, RankTells DEF size
<1>5. R \in [F -> 0 .. (size - 1)]
  BY <1>1, <1>4
<1>6. \A m, n \in F : R[m] = R[n] => m = n
  <2>1. SUFFICES ASSUME NEW m \in F, NEW n \in F, R[m] = R[n]
                 PROVE  m = n
    OBVIOUS
  <2>2. Rank(F, f, m) = Rank(F, f, n) /\ Rank(F, f, m) \in Nat
    BY <1>4, <2>1
  <2>3. ~(f[m] < f[n]) /\ ~(f[n] < f[m])
    BY <1>4, <2>2
  <2> QED
    BY <1>1, <1>2, <2>3
<1>7. \A n \in F : R[n] = Rank(F, f, n)
  OBVIOUS
<1> HIDE DEF R
<1>8. R \in Injection(F, 0 .. (size - 1))
  BY <1>5, <1>6 DEF Injection, IsInjective
<1>9. IsFiniteSet(0 .. (size - 1)) /\ Cardinality(0 .. (size - 1)) = size
  BY <1>1, FS_Interval
<1>10. R \in Surjection(F, 0 .. (size - 1))
  BY <1>8, <1>9, FS_Injection DEF size
<1>11. c \in 0 .. (size - 1)
  BY <1>1 DEF size
<1>12. \E n \in F : R[n] = c
  BY <1>10, <1>11 DEF Surjection
<1> QED
  BY <1>3, <1>7, <1>12

(* What is left of a range when n numbers are taken out of it. *)
LEMMA RangeLess ==
  ASSUME NEW low \in Nat, NEW top \in Nat, low <= top + 1, NEW U, IsFiniteSet(U)
  PROVE  /\ Cardinality((low .. top) \ U) \in Nat /\ Cardinality(U) \in Nat
         /\ Cardinality((low .. top) \ U) >= top + 1 - low - Cardinality(U)
<1> DEFINE I == low .. top
<1>1. IsFiniteSet(I) /\ Cardinality(I) = top + 1 - low
  <2>1. low \in Int /\ top \in Int
    OBVIOUS
  <2> QED
    BY <2>1, FS_Interval
<1> HIDE DEF I
<1>2. IsFiniteSet(I \ U) /\ Cardinality(I \ U) = Cardinality(I) - Cardinality(I \cap U)
  BY <1>1, FS_Difference
<1>3. IsFiniteSet(I \cap U) /\ Cardinality(I \cap U) <= Cardinality(U)
  BY <1>1, FS_Intersection
<1>4. /\ Cardinality(I \ U) \in Nat /\ Cardinality(U) \in Nat
      /\ Cardinality(I \cap U) \in Nat /\ Cardinality(I) \in Nat
  BY <1>1, <1>2, <1>3, FS_CardinalityType
<1> QED
  BY <1>1, <1>2, <1>3, <1>4 DEF I

(* stageItems finds each item a place that is free, of its own, and above  *)
(* those of a graph.                                                       *)
(* The free place of an item, as stageItems takes it.                      *)
FreeOf(S) == (0 .. Top) \ {i.seq : i \in S}
FreePlace(S, i) == CHOOSE n \in FreeOf(S) : CountAbove(FreeOf(S), n) = Place(S, i)

LEMMA FreePlaces ==
  ASSUME NEW S, IsFiniteSet(S), \A r \in S : r.id \in Nat, \A r, s \in S : r.id = s.id => r = s,
         NEW low \in Nat, 2 * Cardinality(S) + low <= Top + 1
  PROVE  /\ \A i \in S : FreePlace(S, i) \in FreeOf(S) /\ FreePlace(S, i) \in Nat
                          /\ FreePlace(S, i) >= low
         /\ \A i, j \in S : FreePlace(S, i) = FreePlace(S, j) => i = j
<1> DEFINE used == {i.seq : i \in S}
           size == Cardinality(S)
           free == FreeOf(S)
           place == [i \in S |-> FreePlace(S, i)]
<1>1. Top \in Nat /\ size \in Nat
  BY GraphAssumption, FS_CardinalityType
<1>2. IsFiniteSet(used) /\ Cardinality(used) <= size /\ Cardinality(used) \in Nat
  <2> DEFINE f == [i \in S |-> i.seq]
  <2>1. f \in Surjection(S, used)
    BY DEF Surjection
  <2> HIDE DEF f, used
  <2>2. IsFiniteSet(used) /\ Cardinality(used) <= size
    BY <2>1, FS_Surjection
  <2> QED
    BY <2>2, FS_CardinalityType
<1> HIDE DEF used
<1>3. \A i \in S : Place(S, i) \in Nat /\ Place(S, i) < size
  BY Places
<1>4. \A i, j \in S : Place(S, i) = Place(S, j) => i = j
  BY Places
<1> HIDE DEF size
<1>5. 2 * size + low <= Top + 1
  BY DEF size
<1>6. free = (0 .. Top) \ used
  BY DEF used, FreeOf
<1>7. Cardinality(free) \in Nat /\ Cardinality(free) >= size
  <2>1. /\ Cardinality((0 .. Top) \ used) \in Nat
        /\ Cardinality((0 .. Top) \ used) >= Top + 1 - 0 - Cardinality(used)
    BY <1>1, <1>2, RangeLess
  <2> DEFINE c == Cardinality((0 .. Top) \ used)
             u == Cardinality(used)
  <2>2. c \in Nat /\ c >= Top + 1 - 0 - u /\ u <= size /\ u \in Nat /\ Cardinality(free) = c
    BY <1>2, <1>6, <2>1
  <2> HIDE DEF c, u
  <2> QED
    BY <1>1, <1>5, <2>2
<1>8. free \in SUBSET (0 .. Top)
  BY <1>6
<1>9. ASSUME NEW i \in S
      PROVE  place[i] \in free /\ CountAbove(free, place[i]) = Place(S, i)
  <2>1. Place(S, i) \in Nat /\ Place(S, i) < Cardinality(free)
    BY <1>1, <1>3, <1>7
  <2>2. \E n \in free : CountAbove(free, n) = Place(S, i)
    BY <1>1, <1>8, <2>1, CountedFromTop
  <2>3. place[i] = CHOOSE n \in free : CountAbove(free, n) = Place(S, i)
    BY DEF FreePlace
  <2> QED
    BY <2>2, <2>3
<1>10. ASSUME NEW i \in S
       PROVE  place[i] \in Nat /\ place[i] >= low
  <2>1. place[i] \in 0 .. Top
    BY <1>8, <1>9
  <2>2. SUFFICES ASSUME place[i] < low
                 PROVE  FALSE
    BY <1>1, <2>1
  <2> DEFINE high == (low .. Top) \ used
  <2>3. Cardinality(high) \in Nat /\ Cardinality(high) >= Top + 1 - low - Cardinality(used)
    BY <1>1, <1>2, <1>5, RangeLess
  <2>4. \A m \in high : m \in free /\ m > place[i]
    BY <1>1, <1>6, <2>1, <2>2
  <2> DEFINE above == {m \in free : m > place[i]}
  <2>5. IsFiniteSet(above)
    <3>1. above \in SUBSET (0 .. Top)
      BY <1>8
    <3>2. IsFiniteSet(0 .. Top)
      BY <1>1, FS_Interval
    <3> HIDE DEF above
    <3> QED
      BY <3>1, <3>2, FS_Subset
  <2>6. high \in SUBSET above
    BY <2>4
  <2>7. Cardinality(above) < size
    BY <1>3, <1>9 DEF CountAbove
  <2> HIDE DEF high, above
  <2>8. Cardinality(high) <= Cardinality(above) /\ Cardinality(above) \in Nat
    BY <2>5, <2>6, FS_Subset, FS_CardinalityType
  <2> QED
    BY <1>1, <1>2, <1>5, <2>3, <2>7, <2>8
<1>11. ASSUME NEW i \in S, NEW j \in S, place[i] = place[j]
       PROVE  i = j
  BY <1>4, <1>9, <1>11
<1> QED
  BY <1>9, <1>10, <1>11

-----------------------------------------------------------------------------
(* Parked rows. *)

LEMMA MappedFinite ==
  ASSUME NEW S, IsFiniteSet(S), NEW f, DOMAIN f = S
  PROVE  IsFiniteSet({f[x] : x \in S}) /\ Cardinality({f[x] : x \in S}) <= Cardinality(S)
<1> DEFINE T == {f[x] : x \in S}
           h == [x \in S |-> f[x]]
<1>1. h \in Surjection(S, T)
  BY DEF Surjection
<1> HIDE DEF T, h
<1>2. IsFiniteSet(T) /\ Cardinality(T) <= Cardinality(S)
  BY <1>1, FS_Surjection
<1> QED
  BY <1>2 DEF T

LEMMA TextsFinite ==
  ASSUME NEW S, IsFiniteSet(S)
  PROVE  IsFiniteSet(Texts(S))
<1> DEFINE c == [r \in S |-> Compared(r.code)]
           n == [r \in S |-> Compared(r.name)]
           C == {c[r] : r \in S}
           N == {n[r] : r \in S}
<1>1. DOMAIN c = S /\ DOMAIN n = S
  OBVIOUS
<1>2. Texts(S) = C \cup N
  BY DEF Texts
<1> HIDE DEF c, n
<1>3. IsFiniteSet(C) /\ IsFiniteSet(N)
  BY <1>1, MappedFinite
<1> HIDE DEF C, N
<1>4. IsFiniteSet(C \cup N)
  BY <1>3, FS_Union
<1> QED
  BY <1>2, <1>4

LEMMA ListTextsFinite ==
  ASSUME NEW S, NEW s \in Seq(S)
  PROVE  IsFiniteSet(Range(s)) /\ IsFiniteSet(Texts(Range(s)))
<1>1. IsFiniteSet(DOMAIN s)
  BY ListFinite
<1>2. IsFiniteSet(Range(s))
  BY <1>1, ListedIdsFinite
<1> QED
  BY <1>2, TextsFinite

(* A number is a staging key, which the database compares as it is. *)
LEMMA NumbersCompared ==
  ASSUME NEW n \in Nat
  PROVE  Compared(n) = n
BY TextAssumption DEF Compared

LEMMA RowParked ==
  ASSUME NEW r, {"id", "code", "name", "seq"} \subseteq DOMAIN r, NEW a, NEW b, NEW c,
         NEW q, q = [r EXCEPT !.code = a, !.name = b, !.seq = c]
  PROVE  /\ q.id = r.id /\ q.code = a /\ q.name = b /\ q.seq = c
         /\ "option" \in DOMAIN r => q.option = r.option
<1>1. q = [f \in DOMAIN r |-> IF f = "seq" THEN c ELSE IF f = "name" THEN b
                              ELSE IF f = "code" THEN a ELSE r[f]]
  OBVIOUS
<1> QED
  BY <1>1

(* Parked rows keep their ids; their codes and names are numbers that are  *)
(* not taken, and no two of them meet.                                     *)
LEMMA ParkedRows ==
  ASSUME NEW S, IsFiniteSet(S), \A r \in S : r.id \in Nat, \A r, s \in S : r.id = s.id => r = s,
         \A r \in S : {"id", "code", "name", "seq"} \subseteq DOMAIN r,
         NEW taken, IsFiniteSet(taken), NEW low \in Nat, low + Cardinality(S) <= Top + 1
  PROVE  /\ \A p \in Parked(S, taken) :
              /\ \E r \in S : p.id = r.id /\ ("option" \in DOMAIN r => p.option = r.option)
              /\ Compared(p.code) \notin taken /\ Compared(p.name) \notin taken
              /\ p.seq \in Nat /\ p.seq >= low
         /\ \A p, q \in Parked(S, taken) : p.id # q.id =>
              /\ Compared(p.code) # Compared(q.code) /\ Compared(p.name) # Compared(q.name)
              /\ p.seq # q.seq
<1> DEFINE n == Cardinality(S)
           first == FirstKey(n, taken)
           parked(r) == [r EXCEPT !.code = first + Place(S, r), !.name = first + Place(S, r),
                                  !.seq = Top - Place(S, r)]
<1>1. n \in Nat /\ Top \in Nat
  BY GraphAssumption, FS_CardinalityType
<1>2. Parked(S, taken) = {parked(r) : r \in S}
  BY DEF Parked
<1>3. \A r \in S : Place(S, r) \in Nat /\ Place(S, r) < n
  BY Places
<1>4. \A r, s \in S : Place(S, r) = Place(S, s) => r = s
  BY Places
<1>5. ASSUME NEW r \in S
      PROVE  first \in Nat /\ first + Place(S, r) \notin taken
  <2>1. n # 0
    BY <1>1, <1>3
  <2>2. first \in Nat /\ \A i \in 0 .. (n - 1) : first + i \notin taken
    BY <1>1, <2>1, KeysFree
  <2>3. Place(S, r) \in 0 .. (n - 1)
    BY <1>1, <1>3
  <2> QED
    BY <2>2, <2>3
<1>6. ASSUME NEW r \in S
      PROVE  /\ parked(r).id = r.id
             /\ parked(r).code = first + Place(S, r) /\ parked(r).name = first + Place(S, r)
             /\ parked(r).seq = Top - Place(S, r)
             /\ "option" \in DOMAIN r => parked(r).option = r.option
  <2> DEFINE q == parked(r)
  <2>1. q = [r EXCEPT !.code = first + Place(S, r), !.name = first + Place(S, r),
                      !.seq = Top - Place(S, r)]
    OBVIOUS
  <2>2. {"id", "code", "name", "seq"} \subseteq DOMAIN r
    OBVIOUS
  <2> HIDE DEF q, first
  <2>3. /\ q.id = r.id
        /\ q.code = first + Place(S, r) /\ q.name = first + Place(S, r)
        /\ q.seq = Top - Place(S, r)
        /\ "option" \in DOMAIN r => q.option = r.option
    BY <2>1, <2>2, RowParked
  <2> QED
    BY <2>3 DEF q
<1> HIDE DEF n, first, parked
<1>7. ASSUME NEW r \in S
      PROVE  /\ Compared(parked(r).code) = first + Place(S, r)
             /\ Compared(parked(r).name) = first + Place(S, r)
             /\ parked(r).seq \in Nat /\ parked(r).seq >= low
  <2>1. first + Place(S, r) \in Nat
    BY <1>3, <1>5
  <2>2. Place(S, r) \in Nat /\ Place(S, r) < n /\ low + n <= Top + 1
    BY <1>3 DEF n
  <2>3. Top - Place(S, r) \in Nat /\ Top - Place(S, r) >= low
    BY <1>1, <2>2
  <2> QED
    BY <1>6, <2>1, <2>3, NumbersCompared
<1>8. ASSUME NEW p \in Parked(S, taken)
      PROVE  /\ \E r \in S : p.id = r.id /\ ("option" \in DOMAIN r => p.option = r.option)
             /\ Compared(p.code) \notin taken /\ Compared(p.name) \notin taken
             /\ p.seq \in Nat /\ p.seq >= low
  <2>1. PICK r \in S : p = parked(r)
    BY <1>2
  <2> QED
    BY <1>5, <1>6, <1>7, <2>1
<1>9. ASSUME NEW p \in Parked(S, taken), NEW q \in Parked(S, taken), p.id # q.id
      PROVE  /\ Compared(p.code) # Compared(q.code) /\ Compared(p.name) # Compared(q.name)
             /\ p.seq # q.seq
  <2>1. PICK r \in S : p = parked(r)
    BY <1>2
  <2>2. PICK s \in S : q = parked(s)
    BY <1>2
  <2>3. Place(S, r) # Place(S, s)
    BY <1>4, <1>6, <1>9, <2>1, <2>2
  <2>4. first \in Nat /\ Place(S, r) \in Nat /\ Place(S, s) \in Nat
    BY <1>3, <1>5
  <2>5. first + Place(S, r) # first + Place(S, s) /\ Top - Place(S, r) # Top - Place(S, s)
    BY <1>1, <2>3, <2>4
  <2> QED
    BY <1>6, <1>7, <2>1, <2>2, <2>5
<1> QED
  BY <1>8, <1>9

-----------------------------------------------------------------------------
(* The rows of a graph keep apart. *)

LEMMA LimitsTyped ==
  /\ Limits.options \in Nat /\ Limits.optionValues \in Nat /\ Limits.items \in Nat
  /\ Limits.categories \in Nat /\ Limits.tags \in Nat
  /\ 2 * Limits.options <= Top + 1 /\ 2 * Limits.optionValues <= Top + 1
  /\ 2 * Limits.categories <= Top + 1 /\ 2 * Limits.tags <= Top + 1
  /\ Top \in Nat /\ MaxRevision \in Nat
BY RoomAssumption, GraphAssumption

LEMMA ListRowsFinite ==
  ASSUME NEW T, NEW s \in Seq(T), NEW f, DOMAIN f = DOMAIN s
  PROVE  /\ IsFiniteSet({f[k] : k \in DOMAIN s}) /\ Cardinality({f[k] : k \in DOMAIN s}) \in Nat
         /\ Cardinality({f[k] : k \in DOMAIN s}) <= Len(s) /\ Len(s) \in Nat
<1>1. Len(s) \in Nat /\ DOMAIN s = 1 .. Len(s)
  OBVIOUS
<1>2. IsFiniteSet(DOMAIN s) /\ Cardinality(DOMAIN s) = Len(s)
  <2> DEFINE n == Len(s)
  <2>1. n \in Nat /\ 1 \in Int /\ n \in Int
    BY <1>1
  <2> HIDE DEF n
  <2>2. IsFiniteSet(1 .. n) /\ Cardinality(1 .. n) = n
    BY <2>1, FS_Interval
  <2> QED
    BY <1>1, <2>2 DEF n
<1> DEFINE D == DOMAIN s
           F == {f[k] : k \in D}
<1>3. IsFiniteSet(D) /\ DOMAIN f = D
  BY <1>2
<1> HIDE DEF D
<1>4. IsFiniteSet(F) /\ Cardinality(F) <= Cardinality(D)
  BY <1>3, MappedFinite
<1> HIDE DEF F
<1>5. Cardinality(F) \in Nat
  BY <1>4, FS_CardinalityType
<1> QED
  BY <1>1, <1>2, <1>4, <1>5 DEF D, F

LEMMA CodesDiffer ==
  ASSUME NEW c \in Codes, NEW d \in Codes, Compared(c) = Compared(d)
  PROVE  c = d
BY TextAssumption DEF Compared

LEMMA OptionRowsApart ==
  ASSUME NEW g, Complete(g)
  PROVE  /\ IsFiniteSet(OptionRows(g)) /\ Cardinality(OptionRows(g)) \in Nat
         /\ Cardinality(OptionRows(g)) <= Limits.options
         /\ \A r \in OptionRows(g) :
              /\ {"id", "code", "name", "seq"} \subseteq DOMAIN r
              /\ r.id \in Nat /\ r.seq \in Nat /\ r.seq < Limits.options
              /\ Compared(r.code) \in Texts(Range(g.options))
              /\ Compared(r.name) \in Texts(Range(g.options))
         /\ \A r, s \in OptionRows(g) : r.id = s.id => r = s
         /\ \A r, s \in OptionRows(g) : r.id # s.id =>
              /\ Compared(r.code) # Compared(s.code) /\ r.seq # s.seq
              /\ NamesDiffer(g) => Compared(r.name) # Compared(s.name)
<1> DEFINE os == g.options
           row == [k \in DOMAIN os |->
                    [id |-> os[k].id, code |-> os[k].code, name |-> os[k].name,
                     required |-> os[k].required, seq |-> k - 1]]
<1>1. os \in Seq(CatalogOption) /\ OptionsIdentified(os) /\ ValidOptions(os)
  BY GraphFields DEF Complete, Valid
<1>2. Len(os) \in Nat /\ DOMAIN os = 1 .. Len(os) /\ Len(os) <= Limits.options
  BY <1>1 DEF ValidOptions
<1>3. \A k \in DOMAIN os : os[k].id \in Nat /\ os[k].code \in Codes
  <2>1. \A k \in DOMAIN os : os[k] \in CatalogOption
    BY <1>1, SeqElements
  <2> QED
    BY <2>1 DEF CatalogOption
<1>4. OptionRows(g) = {row[k] : k \in DOMAIN os}
  BY DEF OptionRows
<1>5. \A k \in DOMAIN os :
        /\ DOMAIN row[k] = {"id", "code", "name", "required", "seq"}
        /\ row[k].id = os[k].id /\ row[k].code = os[k].code /\ row[k].name = os[k].name
        /\ row[k].seq = k - 1
  OBVIOUS
<1>6. DOMAIN row = DOMAIN os
  OBVIOUS
<1> HIDE DEF row
<1>7. /\ IsFiniteSet(OptionRows(g)) /\ Cardinality(OptionRows(g)) \in Nat
      /\ Cardinality(OptionRows(g)) <= Limits.options
  <2> DEFINE R == {row[k] : k \in DOMAIN os}
  <2>1. /\ IsFiniteSet(R) /\ Cardinality(R) \in Nat
        /\ Cardinality(R) <= Len(os) /\ Len(os) \in Nat
    BY <1>1, <1>6, ListRowsFinite
  <2> HIDE DEF R
  <2> QED
    BY <1>2, <1>4, <2>1, LimitsTyped DEF R
<1>8. \A k \in DOMAIN os : os[k] \in Range(os)
  BY DEF Range
<1>9. ASSUME NEW k \in DOMAIN os
      PROVE  /\ {"id", "code", "name", "seq"} \subseteq DOMAIN row[k]
             /\ row[k].id \in Nat /\ row[k].seq \in Nat /\ row[k].seq < Limits.options
             /\ Compared(row[k].code) \in Texts(Range(os))
             /\ Compared(row[k].name) \in Texts(Range(os))
  <2>1. k \in Nat /\ k >= 1 /\ k <= Limits.options
    BY <1>2, LimitsTyped
  <2>2. row[k].seq \in Nat /\ row[k].seq < Limits.options
    BY <1>5, <2>1, LimitsTyped
  <2> QED
    BY <1>3, <1>5, <1>8, <2>2 DEF Texts
<1>10. ASSUME NEW j \in DOMAIN os, NEW k \in DOMAIN os, row[j].id = row[k].id
       PROVE  row[j] = row[k]
  BY <1>1, <1>5, <1>10 DEF OptionsIdentified
<1>11. ASSUME NEW j \in DOMAIN os, NEW k \in DOMAIN os, j # k
       PROVE  /\ Compared(row[j].code) # Compared(row[k].code) /\ row[j].seq # row[k].seq
              /\ NamesDiffer(g) => Compared(row[j].name) # Compared(row[k].name)
  <2>1. os[j].code # os[k].code
    BY <1>1, <1>11, FieldDiffers DEF ValidOptions
  <2>2. Compared(row[j].code) # Compared(row[k].code)
    BY <1>3, <1>5, <2>1, CodesDiffer
  <2>3. row[j].seq # row[k].seq
    BY <1>2, <1>5, <1>11
  <2>4. NamesDiffer(g) => Compared(row[j].name) # Compared(row[k].name)
    BY <1>5, <1>11 DEF NamesDiffer, EqualTexts
  <2> QED
    BY <2>2, <2>3, <2>4
<1> QED
  BY <1>4, <1>7, <1>9, <1>10, <1>11

LEMMA ValueRowsApart ==
  ASSUME NEW g, Complete(g), NEW o \in Range(g.options)
  PROVE  /\ IsFiniteSet(ValueRows(o)) /\ Cardinality(ValueRows(o)) \in Nat
         /\ Cardinality(ValueRows(o)) <= Limits.optionValues
         /\ \A r \in ValueRows(o) :
              /\ {"id", "option", "code", "name", "seq"} \subseteq DOMAIN r
              /\ r.option = o.id
              /\ r.id \in Nat /\ r.seq \in Nat /\ r.seq < Limits.optionValues
              /\ Compared(r.code) \in Texts(Range(o.values))
              /\ Compared(r.name) \in Texts(Range(o.values))
         /\ \A r, s \in ValueRows(o) : r.id = s.id => r = s
         /\ \A r, s \in ValueRows(o) : r.id # s.id =>
              /\ Compared(r.code) # Compared(s.code) /\ r.seq # s.seq
              /\ NamesDiffer(g) => Compared(r.name) # Compared(s.name)
<1> DEFINE vs == o.values
           row == [k \in DOMAIN vs |->
                    [id |-> vs[k].id, option |-> o.id, code |-> vs[k].code,
                     name |-> vs[k].name, seq |-> k - 1]]
<1>1. PICK i \in DOMAIN g.options : o = g.options[i]
  BY DEF Range
<1>2. /\ g.options \in Seq(CatalogOption) /\ ValuesIdentified(g.options)
      /\ ValidOptions(g.options)
  BY GraphFields DEF Complete, Valid
<1>3. o \in CatalogOption
  BY <1>1, <1>2
<1>4. /\ vs \in Seq(CatalogOptionValue) /\ Len(vs) <= Limits.optionValues
      /\ IsInjective(Field(vs, "code"))
  BY <1>1, <1>2, <1>3, OptionFields DEF ValidOptions
<1>5. Len(vs) \in Nat /\ DOMAIN vs = 1 .. Len(vs)
  BY <1>4
<1>6. \A k \in DOMAIN vs : vs[k].id \in Nat /\ vs[k].code \in Codes
  <2>1. \A k \in DOMAIN vs : vs[k] \in CatalogOptionValue
    BY <1>4, SeqElements
  <2> QED
    BY <2>1 DEF CatalogOptionValue
<1>7. ValueRows(o) = {row[k] : k \in DOMAIN vs}
  BY DEF ValueRows
<1>8. \A k \in DOMAIN vs :
        /\ DOMAIN row[k] = {"id", "option", "code", "name", "seq"}
        /\ row[k].id = vs[k].id /\ row[k].code = vs[k].code /\ row[k].name = vs[k].name
        /\ row[k].seq = k - 1 /\ row[k].option = o.id
  OBVIOUS
<1>9. DOMAIN row = DOMAIN vs
  OBVIOUS
<1> HIDE DEF row
<1>10. /\ IsFiniteSet(ValueRows(o)) /\ Cardinality(ValueRows(o)) \in Nat
       /\ Cardinality(ValueRows(o)) <= Limits.optionValues
  <2> DEFINE R == {row[k] : k \in DOMAIN vs}
  <2>1. /\ IsFiniteSet(R) /\ Cardinality(R) \in Nat
        /\ Cardinality(R) <= Len(vs) /\ Len(vs) \in Nat
    BY <1>4, <1>9, ListRowsFinite
  <2> HIDE DEF R
  <2> QED
    BY <1>4, <1>7, <2>1, LimitsTyped DEF R
<1>11. \A k \in DOMAIN vs : vs[k] \in Range(vs)
  BY DEF Range
<1>12. ASSUME NEW k \in DOMAIN vs
       PROVE  /\ {"id", "option", "code", "name", "seq"} \subseteq DOMAIN row[k]
              /\ row[k].option = o.id
              /\ row[k].id \in Nat /\ row[k].seq \in Nat /\ row[k].seq < Limits.optionValues
              /\ Compared(row[k].code) \in Texts(Range(vs))
              /\ Compared(row[k].name) \in Texts(Range(vs))
  <2>1. k \in Nat /\ k >= 1 /\ k <= Limits.optionValues
    BY <1>4, <1>5, LimitsTyped
  <2>2. row[k].seq \in Nat /\ row[k].seq < Limits.optionValues
    BY <1>8, <2>1, LimitsTyped
  <2> QED
    BY <1>6, <1>8, <1>11, <2>2 DEF Texts
<1>13. ASSUME NEW j \in DOMAIN vs, NEW k \in DOMAIN vs, row[j].id = row[k].id
       PROVE  row[j] = row[k]
  BY <1>1, <1>2, <1>8, <1>13 DEF ValuesIdentified
<1>14. ASSUME NEW j \in DOMAIN vs, NEW k \in DOMAIN vs, j # k
       PROVE  /\ Compared(row[j].code) # Compared(row[k].code) /\ row[j].seq # row[k].seq
              /\ NamesDiffer(g) => Compared(row[j].name) # Compared(row[k].name)
  <2>1. vs[j].code # vs[k].code
    BY <1>4, <1>14, FieldDiffers
  <2>2. Compared(row[j].code) # Compared(row[k].code)
    BY <1>6, <1>8, <2>1, CodesDiffer
  <2>3. row[j].seq # row[k].seq
    BY <1>5, <1>8, <1>14
  <2>4. NamesDiffer(g) => Compared(row[j].name) # Compared(row[k].name)
    BY <1>8, <1>14 DEF NamesDiffer, EqualTexts
  <2> QED
    BY <2>2, <2>3, <2>4
<1> QED
  BY <1>7, <1>10, <1>12, <1>13, <1>14

-----------------------------------------------------------------------------
(* stageOptions, stageItems and stageCategories meet no key.               *)

LEMMA StagedOptionsAway ==
  ASSUME NEW h, Complete(h), rows.options = OptionRows(h), NEW g, Complete(g)
  PROVE  /\ OptionsAway(StagedOptions(g), g.options)
         /\ ~OptionsCollide(rows.options, StagedOptions(g))
<1> DEFINE S == rows.options
           old == Texts(S)
           new == Texts(Range(g.options))
           taken == old \cup new
           P == StagedOptions(g)
<1>1. /\ IsFiniteSet(S) /\ Cardinality(S) \in Nat /\ Cardinality(S) <= Limits.options
      /\ \A r \in S : /\ {"id", "code", "name", "seq"} \subseteq DOMAIN r
                      /\ r.id \in Nat /\ r.seq \in Nat /\ r.seq < Limits.options
      /\ \A r, s \in S : r.id = s.id => r = s
  BY OptionRowsApart
<1>2. IsFiniteSet(old) /\ IsFiniteSet(new)
  BY <1>1, GraphFields, ListTextsFinite, TextsFinite DEF Complete
<1>3. \A s \in S : Compared(s.code) \in old /\ Compared(s.name) \in old
  BY DEF Texts
<1>4. P = Parked(S, taken)
  BY DEF StagedOptions
<1> HIDE DEF S, old, new, P
<1>5. IsFiniteSet(taken)
  BY <1>2, FS_Union
<1> HIDE DEF taken
<1>6. Limits.options \in Nat /\ Limits.options + Cardinality(S) <= Top + 1
  BY <1>1, LimitsTyped
<1>7. /\ \A p \in P : /\ Compared(p.code) \notin taken /\ Compared(p.name) \notin taken
                      /\ p.seq \in Nat /\ p.seq >= Limits.options
      /\ \A p, q \in P : p.id # q.id =>
           /\ Compared(p.code) # Compared(q.code) /\ Compared(p.name) # Compared(q.name)
           /\ p.seq # q.seq
  <2>1. /\ \A p \in Parked(S, taken) :
             /\ \E r \in S : p.id = r.id /\ ("option" \in DOMAIN r => p.option = r.option)
             /\ Compared(p.code) \notin taken /\ Compared(p.name) \notin taken
             /\ p.seq \in Nat /\ p.seq >= Limits.options
        /\ \A p, q \in Parked(S, taken) : p.id # q.id =>
             /\ Compared(p.code) # Compared(q.code) /\ Compared(p.name) # Compared(q.name)
             /\ p.seq # q.seq
    BY <1>1, <1>5, <1>6, ParkedRows
  <2> QED
    BY <1>4, <2>1
<1>8. OptionsAway(P, g.options)
  BY <1>7 DEF OptionsAway, new, taken
<1>9. ASSUME NEW r \in P, NEW s \in S \cup P, s.id # r.id
      PROVE  /\ Compared(r.code) # Compared(s.code) /\ Compared(r.name) # Compared(s.name)
             /\ r.seq # s.seq
  <2>1. CASE s \in P
    BY <1>7, <1>9, <2>1
  <2>2. CASE s \in S
    <3>1. Compared(r.code) # Compared(s.code) /\ Compared(r.name) # Compared(s.name)
      BY <1>3, <1>7, <2>2 DEF taken
    <3>2. s.seq \in Nat /\ s.seq < Limits.options /\ r.seq \in Nat /\ r.seq >= Limits.options
      BY <1>1, <1>7, <2>2
    <3> QED
      BY <3>1, <3>2, LimitsTyped
  <2> QED
    BY <2>1, <2>2
<1>10. ~OptionsCollide(S, P)
  BY <1>9 DEF OptionsCollide, Others
<1> QED
  BY <1>8, <1>10 DEF S, P

LEMMA StagedValuesAway ==
  ASSUME NEW h, Complete(h), rows.options = OptionRows(h), rows.values = AllValueRows(h),
         NEW g, Complete(g)
  PROVE  /\ ValuesAway(StagedValues(g), g.options)
         /\ ~ValuesCollide(rows.values, StagedValues(g))
<1> DEFINE vs(id) == ValuesOf(rows, id)
           to(id) == {p \in Range(g.options) : p.id = id}
           old(id) == Texts(vs(id))
           new(id) == UNION {Texts(Range(p.values)) : p \in to(id)}
           parked(id) == Parked(vs(id), old(id) \cup new(id))
           ids == {o.id : o \in rows.options}
           P == StagedValues(g)
<1>1. /\ h \in Graphs /\ OptionsIdentified(h.options) /\ g \in Graphs
      /\ g.options \in Seq(CatalogOption)
  BY GraphFields DEF Complete
<1>2. \A id \in ids : \E k \in DOMAIN h.options : id = h.options[k].id
  BY DEF OptionRows
<1>3. ASSUME NEW id \in ids
      PROVE  \E o \in Range(h.options) : o.id = id /\ vs(id) = ValueRows(o)
  <2>1. PICK k \in DOMAIN h.options : id = h.options[k].id
    BY <1>2
  <2>2. ValuesOf(rows, h.options[k].id) = ValueRows(h.options[k])
    BY <1>1, ValuesStored
  <2>3. h.options[k] \in Range(h.options)
    BY DEF Range
  <2> QED
    BY <2>1, <2>2, <2>3
<1>4. ASSUME NEW id \in ids
      PROVE  IsFiniteSet(new(id))
  <2> DEFINE f == [p \in to(id) |-> Texts(Range(p.values))]
             T == to(id)
  <2>1. IsFiniteSet(Range(g.options))
    BY <1>1, ListTextsFinite
  <2>2. T \in SUBSET Range(g.options)
    OBVIOUS
  <2> HIDE DEF T
  <2>3. IsFiniteSet(T)
    BY <2>1, <2>2, FS_Subset
  <2>4. DOMAIN f = T /\ \A p \in DOMAIN f : f[p] = Texts(Range(p.values))
    BY DEF T
  <2>5. \A p \in DOMAIN f : IsFiniteSet(f[p])
    <3>1. SUFFICES ASSUME NEW p \in T
                   PROVE  IsFiniteSet(Texts(Range(p.values)))
      BY <2>4
    <3>2. PICK k \in DOMAIN g.options : p = g.options[k]
      BY <2>2 DEF Range
    <3>3. p.values \in Seq(CatalogOptionValue)
      BY <1>1, <3>2, SeqElements, OptionFields
    <3> QED
      BY <3>3, ListTextsFinite
  <2> HIDE DEF f
  <2>6. IsFiniteSet(UNION {f[p] : p \in DOMAIN f})
    BY <2>3, <2>4, <2>5, UnionFinite
  <2>7. UNION {f[p] : p \in DOMAIN f} = new(id)
    BY <2>4 DEF T
  <2> QED
    BY <2>6, <2>7
<1>5. ASSUME NEW id \in ids
      PROVE  /\ \A r \in vs(id) : r.option = id /\ r.seq \in Nat /\ r.seq < Limits.optionValues
             /\ \A p \in parked(id) :
                  /\ p.option = id
                  /\ Compared(p.code) \notin old(id) \cup new(id)
                  /\ Compared(p.name) \notin old(id) \cup new(id)
                  /\ p.seq \in Nat /\ p.seq >= Limits.optionValues
             /\ \A p, q \in parked(id) : p.id # q.id =>
                  /\ Compared(p.code) # Compared(q.code) /\ Compared(p.name) # Compared(q.name)
                  /\ p.seq # q.seq
  <2> DEFINE S == vs(id)
             taken == old(id) \cup new(id)
  <2>1. PICK o \in Range(h.options) : o.id = id /\ vs(id) = ValueRows(o)
    BY <1>3
  <2>2. /\ IsFiniteSet(S) /\ Cardinality(S) \in Nat /\ Cardinality(S) <= Limits.optionValues
        /\ \A r \in S : /\ {"id", "option", "code", "name", "seq"} \subseteq DOMAIN r
                        /\ r.option = id
                        /\ r.id \in Nat /\ r.seq \in Nat /\ r.seq < Limits.optionValues
        /\ \A r, s \in S : r.id = s.id => r = s
    BY <2>1, ValueRowsApart
  <2>3. IsFiniteSet(taken)
    <3>1. IsFiniteSet(old(id))
      BY <2>2, TextsFinite
    <3>2. IsFiniteSet(new(id))
      BY <1>4
    <3> HIDE DEF old, new
    <3> QED
      BY <3>1, <3>2, FS_Union
  <2>4. parked(id) = Parked(S, taken)
    OBVIOUS
  <2> HIDE DEF S, taken, parked
  <2>5. Limits.optionValues \in Nat /\ Limits.optionValues + Cardinality(S) <= Top + 1
    BY <2>2, LimitsTyped
  <2>6. \A r \in S : {"id", "code", "name", "seq"} \subseteq DOMAIN r /\ "option" \in DOMAIN r
    BY <2>2
  <2>7. /\ \A p \in Parked(S, taken) :
             /\ \E r \in S : p.id = r.id /\ ("option" \in DOMAIN r => p.option = r.option)
             /\ Compared(p.code) \notin taken /\ Compared(p.name) \notin taken
             /\ p.seq \in Nat /\ p.seq >= Limits.optionValues
        /\ \A p, q \in Parked(S, taken) : p.id # q.id =>
             /\ Compared(p.code) # Compared(q.code) /\ Compared(p.name) # Compared(q.name)
             /\ p.seq # q.seq
    BY <2>2, <2>3, <2>5, <2>6, ParkedRows
  <2>8. \A p \in parked(id) : p.option = id
    BY <2>2, <2>4, <2>6, <2>7
  <2> QED
    BY <2>2, <2>4, <2>7, <2>8 DEF S, taken
<1>6. P = UNION {parked(id) : id \in ids}
  <2>1. P = UNION {parked(o.id) : o \in rows.options}
    BY DEF StagedValues
  <2>2. {parked(o.id) : o \in rows.options} = {parked(id) : id \in ids}
    OBVIOUS
  <2> HIDE DEF parked, ids, P
  <2> QED
    BY <2>1, <2>2
<1>7. \A p \in P : \E id \in ids : p \in parked(id)
  BY <1>6
<1>8. \A id : \A s \in rows.values : s.option = id => s \in vs(id)
  BY DEF ValuesOf
<1>9. \A id : \A s \in vs(id) : Compared(s.code) \in old(id) /\ Compared(s.name) \in old(id)
  BY DEF Texts
<1>10. \A id : \A o \in Range(g.options) : o.id = id =>
         \A t \in Texts(Range(o.values)) : t \in new(id)
  OBVIOUS
<1> HIDE DEF vs, to, old, new, parked, ids, P
<1>11. ValuesAway(P, g.options)
  <2>1. SUFFICES ASSUME NEW s \in P
                 PROVE  /\ \A o \in Range(g.options) : o.id = s.option =>
                             /\ Compared(s.code) \notin Texts(Range(o.values))
                             /\ Compared(s.name) \notin Texts(Range(o.values))
                        /\ s.seq \in Nat /\ s.seq >= Limits.optionValues
    BY DEF ValuesAway
  <2>2. PICK id \in ids : s \in parked(id)
    BY <1>7
  <2> QED
    BY <1>5, <1>10, <2>2
<1>12. ASSUME NEW r \in P, NEW s \in rows.values \cup P, s.id # r.id, r.option = s.option
       PROVE  /\ Compared(r.code) # Compared(s.code) /\ Compared(r.name) # Compared(s.name)
              /\ r.seq # s.seq
  <2>1. PICK id \in ids : r \in parked(id)
    BY <1>7
  <2>2. r.option = id
    BY <1>5, <2>1
  <2>3. CASE s \in P
    <3>1. PICK x \in ids : s \in parked(x)
      BY <1>7, <2>3
    <3>2. s.option = x
      BY <1>5, <3>1
    <3>3. s \in parked(id)
      BY <1>12, <2>2, <3>1, <3>2
    <3> QED
      BY <1>5, <1>12, <2>1, <3>3
  <2>4. CASE s \in rows.values
    <3>1. s \in vs(id)
      BY <1>8, <1>12, <2>2, <2>4
    <3>2. Compared(r.code) # Compared(s.code) /\ Compared(r.name) # Compared(s.name)
      BY <1>5, <1>9, <2>1, <3>1
    <3>3. /\ s.seq \in Nat /\ s.seq < Limits.optionValues
          /\ r.seq \in Nat /\ r.seq >= Limits.optionValues
      BY <1>5, <2>1, <3>1
    <3> QED
      BY <3>2, <3>3, LimitsTyped
  <2> QED
    BY <2>3, <2>4
<1>13. ~ValuesCollide(rows.values, P)
  BY <1>12 DEF ValuesCollide, Others
<1> QED
  BY <1>11, <1>13 DEF P

LEMMA MarksDiffer ==
  ASSUME NEW a, NEW b, NEW m, NEW n
  PROVE  /\ a # b => [item |-> a, revision |-> m] # [item |-> b, revision |-> n]
         /\ \A sel : [item |-> a, revision |-> m] # SignatureOf(sel)
<1>1. ASSUME [item |-> a, revision |-> m] = [item |-> b, revision |-> n]
      PROVE  a = b
  <2>1. [item |-> a, revision |-> m].item = [item |-> b, revision |-> n].item
    BY <1>1
  <2> QED
    BY <2>1
<1>2. ASSUME NEW sel, [item |-> a, revision |-> m] = SignatureOf(sel)
      PROVE  FALSE
  <2>1. DOMAIN [item |-> a, revision |-> m] = DOMAIN SignatureOf(sel)
    BY <1>2
  <2>2. DOMAIN [item |-> a, revision |-> m] = {"item", "revision"}
    OBVIOUS
  <2>3. DOMAIN SignatureOf(sel) = {"sel"}
    BY DEF SignatureOf
  <2> QED
    BY <2>1, <2>2, <2>3
<1> QED
  BY <1>1, <1>2

(* There is room for the items of every revision. *)
LEMMA ItemsFit ==
  ASSUME NEW n \in Nat, NEW r \in 0 .. MaxRevision, n <= Limits.items * r
  PROVE  2 * n + Limits.items <= Top + 1
<1> DEFINE l == Limits.items
           d == MaxRevision - r
<1>1. /\ l \in Nat /\ MaxRevision \in Nat /\ Top \in Nat /\ r \in Nat
      /\ d \in Nat /\ MaxRevision = r + d
  BY LimitsTyped
<1>2. l * (2 * MaxRevision + 1) <= Top + 1
  BY RoomAssumption
<1> HIDE DEF l, d
<1>3. l * (2 * MaxRevision + 1) = 2 * (l * r) + 2 * (l * d) + l
  BY <1>1
<1>4. l * r \in Nat /\ l * d \in Nat
  BY <1>1
<1>5. n <= l * r
  BY DEF l
<1>6. 2 * n + l <= Top + 1
  BY <1>1, <1>2, <1>3, <1>4, <1>5
<1> QED
  BY <1>6 DEF l

LEMMA ItemTableFinite ==
  ASSUME NEW S, ItemTable(S)
  PROVE  IsFiniteSet(S) /\ Cardinality(S) = Cardinality(Ids(S)) /\ Cardinality(S) \in Nat
<1> DEFINE f == [i \in S |-> i.id]
           I == Ids(S)
<1>1. f \in Bijection(S, I)
  BY DEF Bijection, Injection, Surjection, IsInjective, ItemTable, Ids
<1>2. IsFiniteSet(I)
  BY DEF ItemTable
<1> HIDE DEF f, I
<1>3. f \in Injection(S, I) /\ f \in Surjection(S, I)
  BY <1>1 DEF Bijection
<1>4. IsFiniteSet(S) /\ Cardinality(S) = Cardinality(I)
  BY <1>2, <1>3, FS_Injection
<1> QED
  BY <1>4, FS_CardinalityType DEF I

LEMMA StagedItemsAway ==
  ASSUME ItemTable(rows.items), Settled(rows.items), Revision \in 0 .. MaxRevision,
         Cardinality(rows.items) <= Limits.items * Revision,
         NEW h, LiveItems(rows) = ItemRows(h), Signed(h.items)
  PROVE  /\ ItemsAway(StagedItems)
         /\ Settled(StagedItems)
         /\ ~ItemsCollide(rows.items, StagedItems)
<1> DEFINE S == rows.items
           free == (0 .. Top) \ {i.seq : i \in S}
           place == [i \in S |-> CHOOSE n \in free : CountAbove(free, n) = Place(S, i)]
           mark(id) == [item |-> id, revision |-> Revision]
           P == StagedItems
<1>1. IsFiniteSet(S) /\ Cardinality(S) \in Nat
  BY ItemTableFinite
<1>2. \A i \in S : i.id \in Nat
  BY DEF ItemTable
<1>3. \A i, j \in S : i.id = j.id => i = j
  BY DEF ItemTable
<1>4. Limits.items \in Nat /\ 2 * Cardinality(S) + Limits.items <= Top + 1
  <2> DEFINE n == Cardinality(S)
  <2>1. n \in Nat /\ n <= Limits.items * Revision
    BY <1>1
  <2> HIDE DEF n
  <2>2. 2 * n + Limits.items <= Top + 1
    BY <2>1, ItemsFit
  <2> QED
    BY <2>2, LimitsTyped DEF n
<1>5. /\ \A i \in S : place[i] \in free /\ place[i] \in Nat /\ place[i] >= Limits.items
      /\ \A i, j \in S : place[i] = place[j] => i = j
  <2>1. /\ \A i \in S : FreePlace(S, i) \in FreeOf(S) /\ FreePlace(S, i) \in Nat
                          /\ FreePlace(S, i) >= Limits.items
        /\ \A i, j \in S : FreePlace(S, i) = FreePlace(S, j) => i = j
    <3> HIDE DEF S
    <3> QED
      BY <1>1, <1>2, <1>3, <1>4, FreePlaces
  <2>2. free = FreeOf(S)
    BY DEF FreeOf
  <2>3. \A i \in S : place[i] = FreePlace(S, i)
    BY DEF FreeOf, FreePlace
  <2> HIDE DEF S, free, place
  <2> QED
    BY <2>1, <2>2, <2>3
<1>6. P = {[i EXCEPT !.seq = place[i], !.sig = mark(i.id)] : i \in S}
  BY DEF StagedItems, CountAbove
<1>7. \A i \in S : place[i] # i.seq /\ \A j \in S : place[i] # j.seq
  BY <1>5
<1>8. \A i \in S : i = [id |-> i.id, sku |-> i.sku, sale |-> i.sale, sig |-> i.sig,
                        seq |-> i.seq, deleted |-> i.deleted]
  BY DEF ItemTable
<1>9. \A i, j \in S : i.id # j.id => Compared(i.sku) # Compared(j.sku)
  BY DEF ItemTable
<1>10. ASSUME NEW i \in S, NEW n \in Nat, NEW j \in S, i.id # j.id
       PROVE  mark(i.id) # j.sig
  <2>1. CASE j.deleted
    <3>1. PICK m \in 0 .. MaxRevision : j.sig = [item |-> j.id, revision |-> m]
      BY <2>1 DEF Settled, Marked
    <3> QED
      BY <1>10, <3>1, MarksDiffer
  <2>2. CASE ~j.deleted
    <3>1. j \in ItemRows(h)
      BY <2>2 DEF LiveItems
    <3>2. PICK k \in DOMAIN h.items : j = [id |-> h.items[k].id, sku |-> h.items[k].sku,
             sale |-> h.items[k].sale, sig |-> h.items[k].sig, seq |-> k - 1, deleted |-> FALSE]
      BY <3>1 DEF ItemRows
    <3>3. j.sig = SignatureOf(h.items[k].sel)
      BY <3>2 DEF Signed
    <3> QED
      BY <3>3, MarksDiffer
  <2> QED
    BY <2>1, <2>2
<1> HIDE DEF free, place, S, P
<1>11. ASSUME NEW p \in P
       PROVE  \E i \in S : /\ p.id = i.id /\ p.sku = i.sku /\ p.seq = place[i]
                           /\ p.sig = mark(i.id) /\ p.deleted = i.deleted
  <2>1. PICK i \in S : p = [i EXCEPT !.seq = place[i], !.sig = mark(i.id)]
    BY <1>6
  <2>2. p = [id |-> i.id, sku |-> i.sku, sale |-> i.sale, sig |-> mark(i.id),
             seq |-> place[i], deleted |-> i.deleted]
    BY <1>8, <2>1, ItemRowChanges
  <2> QED
    BY <2>2
<1>12. \A p \in P : Marked(p)
  <2>1. SUFFICES ASSUME NEW p \in P
                 PROVE  Marked(p)
    OBVIOUS
  <2>2. p.sig = [item |-> p.id, revision |-> Revision]
    BY <1>11
  <2> QED
    BY <2>2 DEF Marked
<1>13. ItemsAway(P)
  <2>1. ASSUME NEW p \in P, NEW q \in P, p.seq = q.seq
        PROVE  p.id = q.id
    <3>1. PICK i \in S : p.id = i.id /\ p.seq = place[i]
      BY <1>11
    <3>2. PICK j \in S : q.id = j.id /\ q.seq = place[j]
      BY <1>11
    <3> QED
      BY <1>5, <2>1, <3>1, <3>2
  <2>2. ASSUME NEW p \in P
        PROVE  p.seq \in Nat /\ p.seq >= Limits.items
    BY <1>5, <1>11
  <2> QED
    BY <1>12, <2>1, <2>2 DEF ItemsAway
<1>14. Settled(P)
  BY <1>11, <1>12 DEF Settled, S
<1>15. ASSUME NEW p \in P, NEW q \in S \cup P, q.id # p.id
       PROVE  p.seq # q.seq /\ p.sig # q.sig /\ Compared(p.sku) # Compared(q.sku)
  <2>1. PICK i \in S : /\ p.id = i.id /\ p.sku = i.sku /\ p.seq = place[i]
                       /\ p.sig = mark(i.id) /\ p.deleted = i.deleted
    BY <1>11
  <2>2. CASE q \in S
    <3>1. p.seq # q.seq
      BY <1>7, <2>1, <2>2
    <3>2. p.sig # q.sig
      BY <1>10, <1>15, <2>1, <2>2
    <3> QED
      BY <1>9, <1>15, <2>1, <2>2, <3>1, <3>2
  <2>3. CASE q \in P
    <3>1. PICK j \in S : /\ q.id = j.id /\ q.sku = j.sku /\ q.seq = place[j]
                         /\ q.sig = mark(j.id) /\ q.deleted = j.deleted
      BY <1>11, <2>3
    <3>2. p.seq # q.seq
      BY <1>5, <1>15, <2>1, <3>1
    <3>3. p.sig # q.sig
      BY <1>15, <2>1, <3>1, MarksDiffer
    <3> QED
      BY <1>9, <1>15, <2>1, <3>1, <3>2, <3>3
  <2> QED
    BY <2>2, <2>3
<1>16. ~ItemsCollide(S, P)
  BY <1>15 DEF ItemsCollide, Others
<1> QED
  BY <1>13, <1>14, <1>16 DEF S, P

(* The labels of a graph are numbered kind by kind.                        *)
Before(S, l) == {m \in S : m.kind = l.kind /\ m.seq < l.seq}

LEMMA LabelRowsApart ==
  ASSUME NEW g, Complete(g)
  PROVE  /\ IsFiniteSet(LabelRows(g))
         /\ \A l \in LabelRows(g) :
              /\ l = [kind |-> l.kind, id |-> l.id, seq |-> l.seq]
              /\ l.seq \in Nat
              /\ \/ l.kind = "category" /\ l.seq < Limits.categories
                 \/ l.kind = "tag" /\ l.seq < Limits.tags
              /\ Cardinality(Before(LabelRows(g), l)) <= l.seq
         /\ \A l, m \in LabelRows(g) : l.kind = m.kind =>
              /\ l.seq = m.seq => l = m
              /\ l.id = m.id => l = m
              /\ ~EqualTags(g) => (Compared(l.id) = Compared(m.id) => l = m)
<1> DEFINE cs == g.categories
           ts == g.tags
           c(k) == [kind |-> "category", id |-> cs[k], seq |-> k - 1]
           t(k) == [kind |-> "tag", id |-> ts[k], seq |-> k - 1]
           L == LabelRows(g)
           cf == [k \in DOMAIN cs |-> c(k)]
           tf == [k \in DOMAIN ts |-> t(k)]
<1>1. cs \in Seq(Codes) /\ ts \in Seq(Text)
  BY GraphFields DEF Complete
<1>2. /\ Len(cs) \in Nat /\ DOMAIN cs = 1 .. Len(cs) /\ Len(cs) <= Limits.categories
      /\ Len(ts) \in Nat /\ DOMAIN ts = 1 .. Len(ts) /\ Len(ts) <= Limits.tags
  BY <1>1 DEF Complete, Valid
<1>3. IsInjective(cs) /\ IsInjective(ts)
  BY DEF Complete, Valid
<1>4. \A k \in DOMAIN cs : cs[k] \in Codes
  BY <1>1, SeqElements
<1>5. L = {cf[k] : k \in DOMAIN cs} \cup {tf[k] : k \in DOMAIN ts}
  BY DEF LabelRows
<1>6. IsFiniteSet({cf[k] : k \in DOMAIN cs})
  <2>1. DOMAIN cf = DOMAIN cs
    OBVIOUS
  <2> HIDE DEF cf, cs
  <2> QED
    BY <1>1, <2>1, ListRowsFinite
<1>7. IsFiniteSet({tf[k] : k \in DOMAIN ts})
  <2>1. DOMAIN tf = DOMAIN ts
    OBVIOUS
  <2> HIDE DEF tf, ts
  <2> QED
    BY <1>1, <2>1, ListRowsFinite
<1>8. IsFiniteSet(L)
  <2> HIDE DEF L, cf, tf, cs, ts
  <2> DEFINE A == {cf[k] : k \in DOMAIN cs}
             B == {tf[k] : k \in DOMAIN ts}
  <2>1. IsFiniteSet(A) /\ IsFiniteSet(B) /\ L = A \cup B
    BY <1>5, <1>6, <1>7
  <2> HIDE DEF A, B
  <2> QED
    BY <2>1, FS_Union
<1>9. ASSUME NEW l \in L
      PROVE  \/ \E k \in DOMAIN cs : l = c(k)
             \/ \E k \in DOMAIN ts : l = t(k)
  BY <1>5
<1>10. \A k \in DOMAIN cs : k - 1 \in Nat /\ k - 1 < Limits.categories
  <2> DEFINE n == Len(cs)
             m == Limits.categories
  <2>1. n \in Nat /\ m \in Nat /\ n <= m /\ DOMAIN cs = 1 .. n
    BY <1>2, LimitsTyped
  <2> HIDE DEF n, m
  <2>2. \A k \in 1 .. n : k - 1 \in Nat /\ k - 1 < m
    BY <2>1
  <2> QED
    BY <2>1, <2>2 DEF m
<1>11. \A k \in DOMAIN ts : k - 1 \in Nat /\ k - 1 < Limits.tags
  <2> DEFINE n == Len(ts)
             m == Limits.tags
  <2>1. n \in Nat /\ m \in Nat /\ n <= m /\ DOMAIN ts = 1 .. n
    BY <1>2, LimitsTyped
  <2> HIDE DEF n, m
  <2>2. \A k \in 1 .. n : k - 1 \in Nat /\ k - 1 < m
    BY <2>1
  <2> QED
    BY <2>1, <2>2 DEF m
<1>12. ASSUME NEW l \in L
       PROVE  /\ l = [kind |-> l.kind, id |-> l.id, seq |-> l.seq]
              /\ l.seq \in Nat
              /\ \/ l.kind = "category" /\ l.seq < Limits.categories
                 \/ l.kind = "tag" /\ l.seq < Limits.tags
  BY <1>9, <1>10, <1>11
<1>13. ASSUME NEW l \in L
       PROVE  Cardinality(Before(L, l)) <= l.seq
  <2> DEFINE n == l.seq
             B == Before(L, l)
             f == [k \in 1 .. n |-> IF l.kind = "category" THEN c(k) ELSE t(k)]
             F == {f[k] : k \in 1 .. n}
  <2>1. n \in Nat
    BY <1>12
  <2>2. B \subseteq F
    <3>1. SUFFICES ASSUME NEW m \in B
                   PROVE  m \in F
      OBVIOUS
    <3>2. m \in L /\ m.kind = l.kind /\ m.seq < n
      BY <3>1 DEF Before
    <3>3. CASE l.kind = "category"
      <4>1. PICK k \in DOMAIN cs : m = c(k)
        BY <1>9, <3>2, <3>3
      <4>2. k \in 1 .. n
        BY <1>2, <2>1, <3>2, <4>1
      <4>3. f[k] = m
        BY <3>3, <4>1, <4>2
      <4> QED
        BY <4>2, <4>3
    <3>4. CASE l.kind # "category"
      <4>1. PICK k \in DOMAIN ts : m = t(k)
        BY <1>9, <3>2, <3>4
      <4>2. k \in 1 .. n
        BY <1>2, <2>1, <3>2, <4>1
      <4>3. f[k] = m
        BY <3>4, <4>1, <4>2
      <4> QED
        BY <4>2, <4>3
    <3> QED
      BY <3>3, <3>4
  <2>3. DOMAIN f = 1 .. n /\ IsFiniteSet(1 .. n) /\ Cardinality(1 .. n) = n
    <3>1. DOMAIN f = 1 .. n
      OBVIOUS
    <3> HIDE DEF n, f
    <3>2. 1 \in Int /\ n \in Int
      BY <2>1
    <3>3. /\ IsFiniteSet(1 .. n)
          /\ Cardinality(1 .. n) = IF 1 > n THEN 0 ELSE n - 1 + 1
      BY <3>2, FS_Interval
    <3>4. Cardinality(1 .. n) = n
      BY <2>1, <3>3
    <3> QED
      BY <3>1, <3>3, <3>4
  <2> HIDE DEF n, f
  <2>4. IsFiniteSet(F) /\ Cardinality(F) <= n
    BY <2>3, MappedFinite
  <2> HIDE DEF F, B
  <2>5. Cardinality(B) <= Cardinality(F) /\ Cardinality(B) \in Nat /\ Cardinality(F) \in Nat
    BY <2>2, <2>4, FS_Subset, FS_CardinalityType
  <2>6. Cardinality(B) <= n
    BY <2>1, <2>4, <2>5
  <2> QED
    BY <2>6 DEF B, n
<1>14. ASSUME NEW l \in L, NEW m \in L, l.kind = m.kind
       PROVE  /\ l.seq = m.seq => l = m
              /\ l.id = m.id => l = m
              /\ ~EqualTags(g) => (Compared(l.id) = Compared(m.id) => l = m)
  <2>1. CASE l.kind = "category"
    <3>1. PICK j \in DOMAIN cs : l = c(j)
      BY <1>9, <2>1
    <3>2. PICK k \in DOMAIN cs : m = c(k)
      <4>1. m.kind = "category"
        BY <1>14, <2>1
      <4> QED
        BY <1>9, <4>1
    <3>3. cs[j] = cs[k] => j = k
      BY <1>3 DEF IsInjective
    <3>4. Compared(cs[j]) = Compared(cs[k]) => cs[j] = cs[k]
      BY <1>4, CodesDiffer
    <3>5. j - 1 = k - 1 => j = k
      BY <1>2
    <3> QED
      BY <3>1, <3>2, <3>3, <3>4, <3>5
  <2>2. CASE l.kind # "category"
    <3>1. PICK j \in DOMAIN ts : l = t(j)
      BY <1>9, <2>2
    <3>2. PICK k \in DOMAIN ts : m = t(k)
      BY <1>9, <1>14, <2>2
    <3>3. ts[j] = ts[k] => j = k
      BY <1>3 DEF IsInjective
    <3>4. ~EqualTags(g) => (Compared(ts[j]) = Compared(ts[k]) => j = k)
      BY DEF EqualTags
    <3>5. j - 1 = k - 1 => j = k
      BY <1>2
    <3> QED
      BY <3>1, <3>2, <3>3, <3>4, <3>5
  <2> QED
    BY <2>1, <2>2
<1> QED
  BY <1>8, <1>12, <1>13, <1>14

LEMMA StagedLabelsAway ==
  ASSUME NEW h, Complete(h), NamesDiffer(h), rows.labels = LabelRows(h)
  PROVE  LabelsAway(StagedLabels) /\ ~LabelsCollide(rows.labels, StagedLabels)
<1> DEFINE L == rows.labels
           n(l) == Cardinality(Before(L, l))
           P == StagedLabels
<1>1. /\ IsFiniteSet(L)
      /\ \A l \in L :
           /\ l = [kind |-> l.kind, id |-> l.id, seq |-> l.seq]
           /\ l.seq \in Nat
           /\ \/ l.kind = "category" /\ l.seq < Limits.categories
              \/ l.kind = "tag" /\ l.seq < Limits.tags
           /\ n(l) <= l.seq
      /\ \A l, m \in L : l.kind = m.kind =>
           /\ l.seq = m.seq => l = m
           /\ Compared(l.id) = Compared(m.id) => l = m
  BY LabelRowsApart DEF NamesDiffer
<1>2. P = {[l EXCEPT !.seq = Top - n(l)] : l \in L}
  BY DEF StagedLabels, Before
<1> HIDE DEF L
<1>3. ASSUME NEW l \in L
      PROVE  n(l) \in Nat
  <2>1. Before(L, l) \subseteq L
    BY DEF Before
  <2> DEFINE B == Before(L, l)
  <2> HIDE DEF B
  <2> QED
    BY <1>1, <2>1, FS_Subset, FS_CardinalityType DEF B
<1>4. ASSUME NEW l \in L, NEW m \in L, l.kind = m.kind, l.seq < m.seq
      PROVE  n(l) < n(m)
  <2> DEFINE A == Before(L, l)
             B == Before(L, m)
  <2>1. A \subseteq B /\ l \in B /\ l \notin A /\ B \subseteq L
    <3>1. ASSUME NEW x \in A
          PROVE  x \in B
      <4>1. x \in L /\ x.kind = l.kind /\ x.seq < l.seq
        BY <3>1 DEF Before
      <4>2. x.seq \in Nat /\ l.seq \in Nat /\ m.seq \in Nat
        BY <1>1, <4>1
      <4>3. x.seq < m.seq
        BY <1>4, <4>1, <4>2
      <4> QED
        BY <1>4, <4>1, <4>3 DEF Before
    <3>2. l \in B
      BY <1>4 DEF Before
    <3>3. l \notin A
      <4>1. ~(l.seq < l.seq)
        BY <1>1
      <4> QED
        BY <4>1 DEF Before
    <3>4. B \subseteq L
      BY DEF Before
    <3> QED
      BY <3>1, <3>2, <3>3, <3>4
  <2> HIDE DEF A, B
  <2>2. IsFiniteSet(B)
    BY <1>1, <2>1, FS_Subset
  <2>3. Cardinality(A) < Cardinality(B)
    BY <2>1, <2>2, PartCountsLess
  <2> QED
    BY <2>3 DEF A, B
<1>5. ASSUME NEW p \in P
      PROVE  \E l \in L : p.kind = l.kind /\ p.id = l.id /\ p.seq = Top - n(l)
  <2>1. PICK l \in L : p = [l EXCEPT !.seq = Top - n(l)]
    BY <1>2
  <2>2. l = [kind |-> l.kind, id |-> l.id, seq |-> l.seq]
    BY <1>1
  <2>3. p = [kind |-> l.kind, id |-> l.id, seq |-> Top - n(l)]
    BY <2>1, <2>2
  <2> QED
    BY <2>3
<1>6. ASSUME NEW l \in L
      PROVE  /\ Top - n(l) \in Nat
             /\ l.kind = "category" => Top - n(l) >= Limits.categories
             /\ l.kind = "tag" => Top - n(l) >= Limits.tags
  BY <1>1, <1>3, LimitsTyped
<1>7. ASSUME NEW l \in L, NEW m \in L, l.kind = m.kind, Top - n(l) = Top - n(m)
      PROVE  l = m
  <2>1. n(l) = n(m) /\ n(l) \in Nat /\ n(m) \in Nat
    BY <1>3, <1>7, LimitsTyped
  <2>2. l.seq = m.seq
    BY <1>1, <1>4, <1>7, <2>1
  <2> QED
    BY <1>1, <1>7, <2>2
<1> HIDE DEF P, n
<1>8. LabelsAway(P)
  <2>1. SUFFICES ASSUME NEW p \in P
                 PROVE  /\ p.seq \in Nat
                        /\ p.kind = "category" => p.seq >= Limits.categories
                        /\ p.kind = "tag" => p.seq >= Limits.tags
    BY DEF LabelsAway
  <2>2. PICK l \in L : p.kind = l.kind /\ p.id = l.id /\ p.seq = Top - n(l)
    BY <1>5
  <2> QED
    BY <1>6, <2>2
<1>9. ASSUME NEW p \in P, NEW q \in L \cup P, q.id # p.id, p.kind = q.kind
      PROVE  Compared(p.id) # Compared(q.id) /\ p.seq # q.seq
  <2>1. PICK l \in L : p.kind = l.kind /\ p.id = l.id /\ p.seq = Top - n(l)
    BY <1>5
  <2>2. CASE q \in L
    <3>1. Compared(p.id) # Compared(q.id)
      BY <1>1, <1>9, <2>1, <2>2
    <3>2. q.seq \in Nat /\ p.seq \in Nat
      BY <1>1, <1>6, <2>1, <2>2
    <3>3. CASE q.kind = "category"
      <4>1. q.seq < Limits.categories
        BY <1>1, <2>2, <3>3
      <4>2. p.seq >= Limits.categories
        BY <1>6, <1>9, <2>1, <3>3
      <4> QED
        BY <3>1, <3>2, <4>1, <4>2, LimitsTyped
    <3>4. CASE q.kind # "category"
      <4>1. q.seq < Limits.tags /\ q.kind = "tag"
        BY <1>1, <2>2, <3>4
      <4>2. p.seq >= Limits.tags
        BY <1>6, <1>9, <2>1, <4>1
      <4> QED
        BY <3>1, <3>2, <4>1, <4>2, LimitsTyped
    <3> QED
      BY <3>3, <3>4
  <2>3. CASE q \in P
    <3>1. PICK m \in L : q.kind = m.kind /\ q.id = m.id /\ q.seq = Top - n(m)
      BY <1>5, <2>3
    <3>2. l # m /\ l.kind = m.kind
      BY <1>9, <2>1, <3>1
    <3>3. Compared(p.id) # Compared(q.id)
      BY <1>1, <2>1, <3>1, <3>2
    <3>4. p.seq # q.seq
      BY <1>7, <2>1, <3>1, <3>2
    <3> QED
      BY <3>3, <3>4
  <2> QED
    BY <2>2, <2>3
<1>10. ~LabelsCollide(L, P)
  BY <1>9 DEF LabelsCollide, Others
<1> QED
  BY <1>8, <1>10 DEF L, P

(* The table an open transaction works on, for its first flush.            *)
LEMMA StagedTables ==
  ASSUME DOMAIN rows = Tables, NEW g
  PROVE  /\ Staged(g).options = StagedOptions(g) /\ Staged(g).values = StagedValues(g)
         /\ Staged(g).items = StagedItems /\ Staged(g).labels = StagedLabels
         /\ Staged(g).selections = {}
BY DEF Staged, Tables

LEMMA OpenFacts ==
  ASSUME GraphInv, WriterInv, tx # NoTx
  PROVE  /\ Complete(tx.graph) /\ OwnSkus(tx.graph.items)
         /\ Revision \in 1 .. MaxRevision - 1 /\ Revision \in DOMAIN history
         /\ SkusAgree(tx.graph.items, tx.saved.items)
         /\ Fitting(rows, tx.graph, tx.saved.items, tx.phase)
         /\ Reached(rows, tx.graph, tx.saved.items, tx.phase)
         /\ CommittedRows = tx.saved /\ ItemTable(tx.saved.items) /\ Settled(tx.saved.items)
         /\ DOMAIN rows = Tables /\ ItemTable(rows.items)
<1>1. history \in Seq(Snapshot)
  BY DEF GraphInv, HistoryInv
<1>2. Revision \in 1 .. MaxRevision - 1 /\ Revision \in DOMAIN history
  BY <1>1 DEF GraphInv, TxInv, Revision
<1>3. CommittedRows = tx.saved
  BY DEF CommittedRows
<1> QED
  BY <1>2, <1>3 DEF GraphInv, TxInv, RowsInv, PhaseInv, Reached, WriterInv, TableInv, AwayInv

(* The first flush meets no key, whatever the graph is.                    *)
LEMMA StageFits ==
  ASSUME GraphInv, WriterInv, tx # NoTx, tx.phase = "stage"
  PROVE  /\ ~Collides(rows, Staged(tx.graph))
         /\ Fitting(Staged(tx.graph), tx.graph, tx.saved.items, "remove")
<1> DEFINE g == tx.graph
           h == CurrentGraph
<1>1. Complete(g) /\ DOMAIN rows = Tables /\ ItemTable(rows.items)
  BY OpenFacts
<1>2. /\ Revision \in 1 .. MaxRevision - 1 /\ Revision \in DOMAIN history
      /\ CommittedRows = tx.saved /\ rows = tx.saved
  BY OpenFacts DEF WriterInv, AwayInv
<1>3. Complete(h) /\ Stored(rows, h)
  BY <1>2, CurrentComplete DEF GraphInv, RowsInv
<1>4. NamesDiffer(h)
  <2>1. Revision # 0
    BY <1>2
  <2> QED
    BY <1>2, <2>1 DEF WriterInv, HistorySound, CurrentGraph
<1>5. /\ Settled(rows.items) /\ Cardinality(rows.items) <= Limits.items * Revision
      /\ Revision \in 0 .. MaxRevision
  BY <1>2, LimitsTyped DEF WriterInv, TableInv
<1>6. Signed(h.items)
  BY <1>3 DEF Complete
<1> HIDE DEF g, h
<1>7. /\ rows.options = OptionRows(h) /\ rows.values = AllValueRows(h)
      /\ rows.labels = LabelRows(h) /\ LiveItems(rows) = ItemRows(h)
  BY <1>3 DEF Stored
<1>8. /\ OptionsAway(StagedOptions(g), g.options)
      /\ ~OptionsCollide(rows.options, StagedOptions(g))
  BY <1>1, <1>3, <1>7, StagedOptionsAway
<1>9. /\ ValuesAway(StagedValues(g), g.options)
      /\ ~ValuesCollide(rows.values, StagedValues(g))
  BY <1>1, <1>3, <1>7, StagedValuesAway
<1>10. LabelsAway(StagedLabels) /\ ~LabelsCollide(rows.labels, StagedLabels)
  BY <1>3, <1>4, <1>7, StagedLabelsAway
<1>11. ItemsAway(StagedItems) /\ Settled(StagedItems) /\ ~ItemsCollide(rows.items, StagedItems)
  BY <1>1, <1>5, <1>6, <1>7, StagedItemsAway
<1>12. Ids(StagedItems) \subseteq Ids(tx.saved.items)
  BY <1>1, <1>2, StagedItemsKept DEF Kept, Ids
<1>13. ~SelectionsCollide(rows.selections, {})
  BY DEF SelectionsCollide
<1>14. /\ Staged(g).options = StagedOptions(g) /\ Staged(g).values = StagedValues(g)
       /\ Staged(g).items = StagedItems /\ Staged(g).labels = StagedLabels
       /\ Staged(g).selections = {}
  BY <1>1, StagedTables
<1>15. ~Collides(rows, Staged(g))
  BY <1>8, <1>9, <1>10, <1>11, <1>13, <1>14 DEF Collides
<1>16. Fitting(Staged(g), g, tx.saved.items, "remove")
  BY <1>8, <1>9, <1>10, <1>11, <1>12, <1>14 DEF Fitting
<1> QED
  BY <1>15, <1>16 DEF g

(* A flush that only deletes meets no key.                                 *)
LEMMA DeletingFits ==
  ASSUME NEW old, NEW new, new.options \subseteq old.options, new.values \subseteq old.values,
         new.items \subseteq old.items, new.selections \subseteq old.selections,
         new.labels \subseteq old.labels
  PROVE  ~Collides(old, new)
<1>1. ~OptionsCollide(old.options, new.options) /\ ~ValuesCollide(old.values, new.values)
  BY DEF OptionsCollide, ValuesCollide
<1>2. ~ItemsCollide(old.items, new.items) /\ ~SelectionsCollide(old.selections, new.selections)
  BY DEF ItemsCollide, SelectionsCollide
<1>3. ~LabelsCollide(old.labels, new.labels)
  BY DEF LabelsCollide
<1> QED
  BY <1>1, <1>2, <1>3 DEF Collides

LEMMA RemoveUnusedFits ==
  ASSUME GraphInv, WriterInv, tx # NoTx, tx.phase = "remove"
  PROVE  /\ ~Collides(rows, Trimmed(tx.graph))
         /\ Fitting(Trimmed(tx.graph), tx.graph, tx.saved.items, "options")
<1> DEFINE g == tx.graph
           new == Trimmed(g)
<1>1. DOMAIN rows = Tables /\ Fitting(rows, g, tx.saved.items, "remove")
  BY OpenFacts
<1> HIDE DEF g
<1>2. /\ new.items = rows.items
      /\ new.options = {o \in rows.options : o.id \in Ids(Range(g.options))}
      /\ new.values = {v \in rows.values : v.id \in ValueIds(g)}
      /\ new.labels =
           {l \in rows.labels : \E m \in LabelRows(g) : m.kind = l.kind /\ m.id = l.id}
  BY <1>1, FlushedTables
<1>3. new.selections = rows.selections
  BY <1>1 DEF Trimmed, Tables
<1> HIDE DEF new
<1>4. /\ new.options \subseteq rows.options /\ new.values \subseteq rows.values
      /\ new.items \subseteq rows.items /\ new.selections \subseteq rows.selections
      /\ new.labels \subseteq rows.labels
  BY <1>2, <1>3
<1>5. ~Collides(rows, new)
  BY <1>4, DeletingFits
<1>6. /\ OptionsAway(new.options, g.options) /\ ValuesAway(new.values, g.options)
      /\ LabelsAway(new.labels)
  BY <1>1, <1>4 DEF Fitting, OptionsAway, ValuesAway, LabelsAway
<1>7. Fitting(new, g, tx.saved.items, "options")
  BY <1>1, <1>2, <1>3, <1>6 DEF Fitting
<1> QED
  BY <1>5, <1>7 DEF g, new

(* The final options meet a parked row never, each other only by a name.   *)
LEMMA WrittenOptionsMeet ==
  ASSUME NEW g, Complete(g), NEW S, OptionsAway(S, g.options)
  PROVE  OptionsCollide(S, OptionRows(g)) <=> EqualTexts(g.options, "name")
<1> DEFINE N == OptionRows(g)
           os == g.options
           row(k) == [id |-> os[k].id, code |-> os[k].code, name |-> os[k].name,
                      required |-> os[k].required, seq |-> k - 1]
<1>1. /\ \A r \in N : /\ r.seq \in Nat /\ r.seq < Limits.options
                      /\ Compared(r.code) \in Texts(Range(os))
                      /\ Compared(r.name) \in Texts(Range(os))
      /\ \A r, s \in N : r.id # s.id => Compared(r.code) # Compared(s.code) /\ r.seq # s.seq
  BY OptionRowsApart
<1>2. \A r \in N, s \in S : /\ Compared(r.code) # Compared(s.code)
                            /\ Compared(r.name) # Compared(s.name)
                            /\ r.seq # s.seq
  BY <1>1, LimitsTyped DEF OptionsAway
<1>3. N = {row(k) : k \in DOMAIN os}
  BY DEF OptionRows
<1>4. \A j, k \in DOMAIN os : os[j].id = os[k].id => j = k
  BY DEF Complete, OptionsIdentified
<1>5. ASSUME OptionsCollide(S, N)
      PROVE  EqualTexts(os, "name")
  <2>1. PICK r \in N, s \in S \cup N :
          /\ s.id # r.id
          /\ \/ Compared(r.code) = Compared(s.code)
             \/ Compared(r.name) = Compared(s.name)
             \/ r.seq = s.seq
    BY <1>5 DEF OptionsCollide, Others
  <2>2. s \in N /\ Compared(r.name) = Compared(s.name)
    BY <1>1, <1>2, <2>1
  <2>3. PICK j \in DOMAIN os : r = row(j)
    BY <1>3
  <2>4. PICK k \in DOMAIN os : s = row(k)
    BY <1>3, <2>2
  <2>5. j # k /\ Compared(os[j].name) = Compared(os[k].name)
    BY <2>1, <2>2, <2>3, <2>4
  <2> QED
    BY <2>5 DEF EqualTexts
<1>6. ASSUME EqualTexts(os, "name")
      PROVE  OptionsCollide(S, N)
  <2>1. PICK j \in DOMAIN os, k \in DOMAIN os :
          j # k /\ Compared(os[j].name) = Compared(os[k].name)
    BY <1>6 DEF EqualTexts
  <2>2. row(j) \in N /\ row(k) \in N
    BY <1>3
  <2>3. row(j) \notin S
    BY <1>2, <2>2
  <2>4. row(k).id # row(j).id /\ Compared(row(j).name) = Compared(row(k).name)
    BY <1>4, <2>1
  <2> HIDE DEF row, N
  <2> QED
    BY <2>2, <2>3, <2>4 DEF OptionsCollide, Others
<1> QED
  BY <1>5, <1>6

LEMMA WrittenValuesMeet ==
  ASSUME NEW g, Complete(g), NEW S, ValuesAway(S, g.options)
  PROVE  ValuesCollide(S, AllValueRows(g)) <=>
           \E o \in Range(g.options) : EqualTexts(o.values, "name")
<1> DEFINE N == AllValueRows(g)
           os == g.options
           row(o, k) == [id |-> o.values[k].id, option |-> o.id, code |-> o.values[k].code,
                         name |-> o.values[k].name, seq |-> k - 1]
<1>1. \A o \in Range(os) :
        /\ \A r \in ValueRows(o) : /\ r.option = o.id
                                   /\ r.seq \in Nat /\ r.seq < Limits.optionValues
                                   /\ Compared(r.code) \in Texts(Range(o.values))
                                   /\ Compared(r.name) \in Texts(Range(o.values))
        /\ \A r, s \in ValueRows(o) : r.id # s.id =>
             Compared(r.code) # Compared(s.code) /\ r.seq # s.seq
  BY ValueRowsApart
<1>2. N = UNION {ValueRows(o) : o \in Range(os)}
  BY DEF AllValueRows
<1>3. ASSUME NEW r \in N
      PROVE  \E o \in Range(os) : r \in ValueRows(o)
  BY <1>2
<1>4. ASSUME NEW r \in N, NEW s \in S, r.option = s.option
      PROVE  /\ Compared(r.code) # Compared(s.code)
             /\ Compared(r.name) # Compared(s.name)
             /\ r.seq # s.seq
  <2>1. PICK o \in Range(os) : r \in ValueRows(o)
    BY <1>3
  <2> QED
    BY <1>1, <1>4, <2>1, LimitsTyped DEF ValuesAway
<1>5. \A o, p \in Range(os) : o.id = p.id => o = p
  BY DEF Complete, OptionsIdentified, Range
<1>6. ASSUME ValuesCollide(S, N)
      PROVE  \E o \in Range(os) : EqualTexts(o.values, "name")
  <2>1. PICK r \in N, s \in S \cup N :
          /\ s.id # r.id /\ r.option = s.option
          /\ \/ Compared(r.code) = Compared(s.code)
             \/ Compared(r.name) = Compared(s.name)
             \/ r.seq = s.seq
    BY <1>6 DEF ValuesCollide, Others
  <2>2. s \in N
    BY <1>4, <2>1
  <2>3. PICK o \in Range(os) : r \in ValueRows(o)
    BY <1>3
  <2>4. PICK p \in Range(os) : s \in ValueRows(p)
    BY <1>3, <2>2
  <2>5. o = p
    BY <1>1, <1>5, <2>1, <2>3, <2>4
  <2>6. Compared(r.name) = Compared(s.name)
    BY <1>1, <2>1, <2>3, <2>4, <2>5
  <2>7. PICK j \in DOMAIN o.values : r = row(o, j)
    BY <2>3 DEF ValueRows
  <2>8. PICK k \in DOMAIN o.values : s = row(o, k)
    BY <2>4, <2>5 DEF ValueRows
  <2>9. j # k /\ Compared(o.values[j].name) = Compared(o.values[k].name)
    BY <2>1, <2>6, <2>7, <2>8
  <2> QED
    BY <2>9 DEF EqualTexts
<1>7. ASSUME NEW o \in Range(os), EqualTexts(o.values, "name")
      PROVE  ValuesCollide(S, N)
  <2>1. PICK j \in DOMAIN o.values, k \in DOMAIN o.values :
          j # k /\ Compared(o.values[j].name) = Compared(o.values[k].name)
    BY <1>7 DEF EqualTexts
  <2>2. row(o, j) \in ValueRows(o) /\ row(o, k) \in ValueRows(o)
    BY DEF ValueRows
  <2>3. row(o, j) \in N /\ row(o, k) \in N
    BY <1>2, <2>2
  <2>4. row(o, j) \notin S
    BY <1>4, <2>3
  <2>5. o.values[j].id # o.values[k].id
    <3>1. PICK i \in DOMAIN os : o = os[i]
      BY DEF Range
    <3> QED
      BY <2>1, <3>1 DEF Complete, ValuesIdentified
  <2>6. /\ row(o, k).id # row(o, j).id /\ row(o, j).option = row(o, k).option
        /\ Compared(row(o, j).name) = Compared(row(o, k).name)
    BY <2>1, <2>5
  <2> HIDE DEF row, N
  <2> QED
    BY <2>3, <2>4, <2>6 DEF ValuesCollide, Others
<1> QED
  BY <1>6, <1>7

(* Labels that stay are those of the graph, on other places.               *)
LEMMA WrittenLabelsMeet ==
  ASSUME NEW g, Complete(g), NEW S, LabelsAway(S),
         \A l \in S : \E m \in LabelRows(g) : m.kind = l.kind /\ m.id = l.id
  PROVE  LabelsCollide(S, LabelRows(g)) <=> EqualTags(g)
<1> DEFINE N == LabelRows(g)
           row(k) == [kind |-> "tag", id |-> g.tags[k], seq |-> k - 1]
<1>1. /\ \A l \in N : /\ l.seq \in Nat
                      /\ \/ l.kind = "category" /\ l.seq < Limits.categories
                         \/ l.kind = "tag" /\ l.seq < Limits.tags
      /\ \A l, m \in N : l.kind = m.kind =>
           /\ l.seq = m.seq => l = m
           /\ ~EqualTags(g) => (Compared(l.id) = Compared(m.id) => l = m)
  BY LabelRowsApart
<1>2. ASSUME NEW r \in N, NEW s \in S, r.kind = s.kind
      PROVE  r.seq # s.seq
  <2>1. CASE r.kind = "category"
    <3>1. r.seq < Limits.categories /\ r.seq \in Nat
      BY <1>1, <2>1
    <3>2. s.seq >= Limits.categories /\ s.seq \in Nat
      BY <1>2, <2>1 DEF LabelsAway
    <3> QED
      BY <3>1, <3>2, LimitsTyped
  <2>2. CASE r.kind # "category"
    <3>1. r.kind = "tag" /\ r.seq < Limits.tags /\ r.seq \in Nat
      BY <1>1, <2>2
    <3>2. s.seq >= Limits.tags /\ s.seq \in Nat
      BY <1>2, <3>1 DEF LabelsAway
    <3> QED
      BY <3>1, <3>2, LimitsTyped
  <2> QED
    BY <2>1, <2>2
<1> HIDE DEF N
<1>3. ASSUME LabelsCollide(S, N), ~EqualTags(g)
      PROVE  FALSE
  <2>1. PICK r \in N, s \in S \cup N :
          /\ s.id # r.id /\ r.kind = s.kind
          /\ Compared(r.id) = Compared(s.id) \/ r.seq = s.seq
    BY <1>3 DEF LabelsCollide, Others
  <2>2. CASE s \in N
    BY <1>1, <1>3, <2>1, <2>2
  <2>3. CASE s \in S
    <3>1. PICK m \in N : m.kind = s.kind /\ m.id = s.id
      BY <2>3 DEF N
    <3>2. Compared(r.id) = Compared(m.id) /\ r.kind = m.kind /\ r # m
      BY <1>2, <2>1, <2>3, <3>1
    <3> QED
      BY <1>1, <1>3, <3>2
  <2> QED
    BY <2>1, <2>2, <2>3
<1>4. ASSUME EqualTags(g)
      PROVE  LabelsCollide(S, N)
  <2>1. PICK j \in DOMAIN g.tags, k \in DOMAIN g.tags :
          j # k /\ Compared(g.tags[j]) = Compared(g.tags[k])
    BY <1>4 DEF EqualTags
  <2>2. g.tags[j] # g.tags[k]
    BY <2>1 DEF Complete, Valid, IsInjective
  <2>3. row(j) \in N /\ row(k) \in N
    BY DEF LabelRows, N
  <2>4. row(j) \notin S
    BY <1>2, <2>3
  <2>5. /\ row(k).id # row(j).id /\ row(j).kind = row(k).kind
        /\ Compared(row(j).id) = Compared(row(k).id)
    BY <2>1, <2>2
  <2> HIDE DEF row
  <2> QED
    BY <2>3, <2>4, <2>5 DEF LabelsCollide, Others
<1> QED
  BY <1>3, <1>4 DEF N

(* The third flush meets a key if, and only if, two names are one text to  *)
(* the database.                                                           *)
LEMMA ApplyOptionsFits ==
  ASSUME GraphInv, WriterInv, tx # NoTx, tx.phase = "options"
  PROVE  /\ Collides(rows, WithOptions(tx.graph)) => ~NamesDiffer(tx.graph)
         /\ ~Collides(rows, WithOptions(tx.graph)) =>
              Fitting(WithOptions(tx.graph), tx.graph, tx.saved.items, "items")
<1> DEFINE g == tx.graph
           new == WithOptions(g)
<1>1. /\ Complete(g) /\ DOMAIN rows = Tables /\ Fitting(rows, g, tx.saved.items, "options")
      /\ Reached(rows, g, tx.saved.items, "options")
  BY OpenFacts
<1> HIDE DEF g
<1>2. /\ \A o \in rows.options : o.id \in Ids(Range(g.options))
      /\ \A v \in rows.values : v.id \in ValueIds(g)
      /\ \A l \in rows.labels : \E m \in LabelRows(g) : m.kind = l.kind /\ m.id = l.id
  BY <1>1 DEF Reached
<1>3. /\ new.options = OptionRows(g) /\ new.values = AllValueRows(g)
      /\ new.labels = LabelRows(g)
  BY <1>1, <1>2, OptionsWritten
<1>4. new.items = rows.items
  BY <1>1, FlushedTables
<1>5. new.selections = rows.selections
  BY <1>1 DEF WithOptions, Tables
<1> HIDE DEF new
<1>6. OptionsCollide(rows.options, new.options) <=> EqualTexts(g.options, "name")
  BY <1>1, <1>3, WrittenOptionsMeet DEF Fitting
<1>7. ValuesCollide(rows.values, new.values) <=>
        \E o \in Range(g.options) : EqualTexts(o.values, "name")
  BY <1>1, <1>3, WrittenValuesMeet DEF Fitting
<1>8. LabelsCollide(rows.labels, new.labels) <=> EqualTags(g)
  BY <1>1, <1>2, <1>3, WrittenLabelsMeet DEF Fitting
<1>9. ~ItemsCollide(rows.items, new.items) /\ ~SelectionsCollide(rows.selections, new.selections)
  BY <1>4, <1>5 DEF ItemsCollide, SelectionsCollide
<1>10. Collides(rows, new) <=> ~NamesDiffer(g)
  BY <1>6, <1>7, <1>8, <1>9 DEF Collides, NamesDiffer
<1>11. NamesDiffer(g) => Fitting(new, g, tx.saved.items, "items")
  BY <1>1, <1>4, <1>5 DEF Fitting
<1> QED
  BY <1>10, <1>11 DEF g, new

(* A written item meets another row on no place and no signature, and on a *)
(* SKU only where it asks for one that some item has or asks for.          *)
LEMMA SkuForIs ==
  ASSUME ItemTable(rows.items), Settled(rows.items), NEW g, Complete(g), OwnSkus(g.items),
         NEW k \in DOMAIN g.items
  PROVE  /\ \A i \in rows.items : i.id = g.items[k].id => SkuFor(g.items[k]) = i.sku
         /\ g.items[k].id \notin Ids(rows.items) =>
              \/ g.items[k].sku # NoSku /\ SkuFor(g.items[k]) = g.items[k].sku
              \/ SkuFor(g.items[k]) = g.items[k].id
         /\ SkuFor(g.items[k]) \in Skus \/ SkuFor(g.items[k]) = g.items[k].id
         /\ g.items[k].id \in Nat
<1>1. \A i \in rows.items : i.id = g.items[k].id => SkuFor(g.items[k]) = i.sku
  BY TheItem DEF SkuFor, Ids
<1>2. g.items[k].id \notin Ids(rows.items) =>
        \/ g.items[k].sku # NoSku /\ SkuFor(g.items[k]) = g.items[k].sku
        \/ SkuFor(g.items[k]) = g.items[k].id
  BY DEF SkuFor
<1>3. SkuFor(g.items[k]) \in Skus \/ SkuFor(g.items[k]) = g.items[k].id
  <2>1. CASE g.items[k].id \in Ids(rows.items)
    <3>1. PICK i \in rows.items : i.id = g.items[k].id
      BY <2>1 DEF Ids
    <3> QED
      BY <1>1, <3>1 DEF Settled
  <2>2. CASE g.items[k].id \notin Ids(rows.items)
    BY <1>2, <2>2 DEF OwnSkus
  <2> QED
    BY <2>1, <2>2
<1>4. g.items \in Seq(CatalogItem)
  BY GraphFields DEF Complete
<1>5. g.items[k] \in CatalogItem
  BY <1>4, SeqElements
<1> QED
  BY <1>1, <1>2, <1>3, <1>5, ItemFields

(* A text a caller can give is no number to the database, so that the      *)
(* random SKUs meet no other.                                              *)
LEMMA OwnSkusDiffer ==
  ASSUME NEW a, NEW b, NEW m \in Nat, NEW n \in Nat, m # n,
         a \in Skus \/ a = m, b \in Skus \/ b = n, Compared(a) = Compared(b)
  PROVE  a \in Skus /\ b \in Skus /\ a # m /\ b # n
<1>1. \A t \in Skus : t \in DOMAIN Collation /\ Compared(t) = Collation[t] /\ Compared(t) \notin Nat
  BY DEF Skus, Compared
<1>2. Compared(m) = m /\ Compared(n) = n
  BY NumbersCompared
<1> QED
  BY <1>1, <1>2

LEMMA SkusMeet ==
  ASSUME ItemTable(rows.items), Settled(rows.items), NEW g, Complete(g), OwnSkus(g.items),
         NEW items, Kept(rows.items, items),
         NEW k \in DOMAIN g.items
  PROVE  /\ \A i \in rows.items :
              i.id # g.items[k].id /\ Compared(i.sku) = Compared(SkuFor(g.items[k])) =>
                Clash(g, items)
         /\ \A j \in DOMAIN g.items :
              j # k /\ Compared(SkuFor(g.items[j])) = Compared(SkuFor(g.items[k])) =>
                Clash(g, items)
<1> DEFINE id(n) == g.items[n].id
           sku(n) == SkuFor(g.items[n])
<1>1. \A n \in DOMAIN g.items :
        /\ \A i \in rows.items : i.id = id(n) => sku(n) = i.sku
        /\ id(n) \notin Ids(rows.items) =>
             (g.items[n].sku # NoSku /\ sku(n) = g.items[n].sku) \/ sku(n) = id(n)
        /\ sku(n) \in Skus \/ sku(n) = id(n)
        /\ id(n) \in Nat
  BY SkuForIs
<1>2. ASSUME NEW n \in DOMAIN g.items, NEW i \in rows.items, i.id # id(n),
             Compared(i.sku) = Compared(sku(n))
      PROVE  Clash(g, items)
  <2>1. i.id \in Nat /\ (i.sku \in Skus \/ i.sku = i.id)
    BY DEF ItemTable, Settled
  <2>2. sku(n) # id(n)
    BY <1>1, <1>2, <2>1, OwnSkusDiffer
  <2>3. id(n) \notin Ids(rows.items)
    <3>1. SUFFICES ASSUME NEW j \in rows.items, j.id = id(n)
                   PROVE  FALSE
      BY DEF Ids
    <3>2. sku(n) = j.sku
      BY <1>1, <3>1
    <3> QED
      BY <1>2, <3>1, <3>2 DEF ItemTable
  <2>4. g.items[n].sku # NoSku /\ sku(n) = g.items[n].sku
    BY <1>1, <2>2, <2>3
  <2>5. PICK r \in items : r.id = i.id /\ r.sku = i.sku
    BY DEF Kept
  <2>6. r.id # g.items[n].id /\ Compared(r.sku) = Compared(g.items[n].sku)
    BY <1>2, <2>4, <2>5
  <2> QED
    BY <2>4, <2>6 DEF Clash
<1>3. ASSUME NEW j \in DOMAIN g.items, j # k, Compared(sku(j)) = Compared(sku(k))
      PROVE  Clash(g, items)
  <2>1. id(j) # id(k)
    BY <1>3 DEF Complete, ItemsIdentified
  <2>2. sku(j) # id(j) /\ sku(k) # id(k)
    BY <1>1, <1>3, <2>1, OwnSkusDiffer
  <2>3. CASE id(j) \in Ids(rows.items)
    <3>1. PICK i \in rows.items : i.id = id(j)
      BY <2>3 DEF Ids
    <3>2. Compared(i.sku) = Compared(sku(k)) /\ i.id # id(k)
      BY <1>1, <1>3, <2>1, <3>1
    <3> QED
      BY <1>2, <3>2
  <2>4. CASE id(k) \in Ids(rows.items)
    <3>1. PICK i \in rows.items : i.id = id(k)
      BY <2>4 DEF Ids
    <3>2. Compared(i.sku) = Compared(sku(j)) /\ i.id # id(j)
      BY <1>1, <1>3, <2>1, <3>1
    <3> QED
      BY <1>2, <3>2
  <2>5. CASE id(j) \notin Ids(rows.items) /\ id(k) \notin Ids(rows.items)
    <3>1. /\ g.items[j].sku # NoSku /\ sku(j) = g.items[j].sku
          /\ g.items[k].sku # NoSku /\ sku(k) = g.items[k].sku
      BY <1>1, <2>2, <2>5
    <3>2. Compared(g.items[j].sku) = Compared(g.items[k].sku)
      BY <1>3, <3>1
    <3> QED
      BY <1>3, <3>1, <3>2 DEF Clash
  <2> QED
    BY <2>3, <2>4, <2>5
<1> QED
  BY <1>2, <1>3

(* The fourth flush meets a key only where the SKUs clash.                 *)
LEMMA WrittenItemsMeet ==
  ASSUME DOMAIN rows = Tables, ItemTable(rows.items), Settled(rows.items), ItemsAway(rows.items),
         NEW g, Complete(g), OwnSkus(g.items), NEW items, Kept(rows.items, items)
  PROVE  /\ ItemsCollide(rows.items, WithItems(g).items) => Clash(g, items)
         /\ Settled(WithItems(g).items)
         /\ Ids(WithItems(g).items) \subseteq Ids(rows.items) \cup Ids(Range(g.items))
<1> DEFINE S == rows.items
           T == WithItems(g).items
           Like(t, i) == t.id = i.id /\ t.sku = i.sku /\ t.seq = i.seq /\ t.sig = i.sig
           Written(t, k) == /\ t.id = g.items[k].id /\ t.sku = SkuFor(g.items[k])
                            /\ t.seq = k - 1 /\ t.sig = SignatureOf(g.items[k].sel)
<1>1. g \in Graphs /\ g.items \in Seq(CatalogItem) /\ ValidItems(g.items, g.options)
      /\ Signed(g.items)
  BY GraphFields DEF Complete, Valid
<1>2. T = {DeadRow(i) : i \in Gone(g)} \cup {WrittenRow(g, k) : k \in DOMAIN g.items}
  BY <1>1, WrittenItems
<1>3. ASSUME NEW t \in T
      PROVE  \/ \E i \in S : Like(t, i)
             \/ \E k \in DOMAIN g.items : Written(t, k) /\ ~t.deleted
  <2>1. CASE \E i \in Gone(g) : t = DeadRow(i)
    <3>1. PICK i \in Gone(g) : t = DeadRow(i)
      BY <2>1
    <3> QED
      BY <3>1 DEF Gone, DeadRow
  <2>2. CASE \E k \in DOMAIN g.items : t = WrittenRow(g, k)
    <3>1. PICK k \in DOMAIN g.items : t = WrittenRow(g, k)
      BY <2>2
    <3>2. g.items[k].sig = SignatureOf(g.items[k].sel)
      BY <1>1 DEF Signed
    <3>3. Written(t, k) /\ ~t.deleted
      BY <3>1, <3>2 DEF WrittenRow
    <3> QED
      BY <3>3
  <2> HIDE DEF T
  <2> QED
    BY <1>2, <2>1, <2>2
<1> HIDE DEF T
<1>4. \A k \in DOMAIN g.items : k - 1 \in Nat /\ k - 1 < Limits.items
  BY <1>1, LimitsTyped DEF ValidItems
<1>5. \A j, k \in DOMAIN g.items : j - 1 = k - 1 => j = k
  BY <1>1
<1>6. \A j, k \in DOMAIN g.items :
        SignatureOf(g.items[j].sel) = SignatureOf(g.items[k].sel) => j = k
  <2>1. SUFFICES ASSUME NEW j \in DOMAIN g.items, NEW k \in DOMAIN g.items,
                        SignatureOf(g.items[j].sel) = SignatureOf(g.items[k].sel)
                 PROVE  j = k
    OBVIOUS
  <2>2. g.items[j].sig = g.items[k].sig
    BY <1>1, <2>1 DEF Signed
  <2> QED
    BY <1>1, <2>2, FieldDiffers DEF ValidItems
<1>7. ASSUME NEW i \in S, NEW j \in S, i.id # j.id
      PROVE  i.seq # j.seq /\ i.sig # j.sig /\ Compared(i.sku) # Compared(j.sku)
  <2>1. PICK m \in 0 .. MaxRevision : i.sig = [item |-> i.id, revision |-> m]
    BY DEF ItemsAway, Marked
  <2>2. PICK n \in 0 .. MaxRevision : j.sig = [item |-> j.id, revision |-> n]
    BY DEF ItemsAway, Marked
  <2>3. i.sig # j.sig
    BY <1>7, <2>1, <2>2, MarksDiffer
  <2> QED
    BY <1>7, <2>3 DEF ItemsAway, ItemTable
<1>8. ASSUME NEW i \in S, NEW k \in DOMAIN g.items
      PROVE  i.seq # k - 1 /\ i.sig # SignatureOf(g.items[k].sel)
  <2>1. PICK m \in 0 .. MaxRevision : i.sig = [item |-> i.id, revision |-> m]
    BY DEF ItemsAway, Marked
  <2>2. i.seq \in Nat /\ i.seq >= Limits.items
    BY DEF ItemsAway
  <2>3. i.seq # k - 1
    BY <1>4, <2>2, LimitsTyped
  <2> QED
    BY <2>1, <2>3, MarksDiffer
<1>9. \A k \in DOMAIN g.items :
        /\ \A i \in S :
             i.id # g.items[k].id /\ Compared(i.sku) = Compared(SkuFor(g.items[k])) =>
               Clash(g, items)
        /\ \A j \in DOMAIN g.items :
             j # k /\ Compared(SkuFor(g.items[j])) = Compared(SkuFor(g.items[k])) =>
               Clash(g, items)
  BY SkusMeet
<1>10. ASSUME ItemsCollide(S, T)
       PROVE  Clash(g, items)
  <2>1. PICK r \in T, s \in S \cup T :
          s.id # r.id /\ (r.seq = s.seq \/ r.sig = s.sig \/ Compared(r.sku) = Compared(s.sku))
    BY <1>10 DEF ItemsCollide, Others
  <2>2. \/ \E i \in S : Like(s, i)
        \/ \E k \in DOMAIN g.items : Written(s, k)
    BY <1>3, <2>1
  <2>3. \/ \E i \in S : Like(r, i)
        \/ \E k \in DOMAIN g.items : Written(r, k)
    BY <1>3, <2>1
  <2>4. CASE \E i \in S, j \in S : Like(r, i) /\ Like(s, j)
    <3>1. PICK i \in S, j \in S : Like(r, i) /\ Like(s, j)
      BY <2>4
    <3> QED
      BY <1>7, <2>1, <3>1
  <2>5. CASE \E i \in S, k \in DOMAIN g.items : Like(r, i) /\ Written(s, k)
    <3>1. PICK i \in S, k \in DOMAIN g.items : Like(r, i) /\ Written(s, k)
      BY <2>5
    <3>2. i.id # g.items[k].id /\ Compared(i.sku) = Compared(SkuFor(g.items[k]))
      BY <1>8, <2>1, <3>1
    <3> QED
      BY <1>9, <3>2
  <2>6. CASE \E i \in S, k \in DOMAIN g.items : Like(s, i) /\ Written(r, k)
    <3>1. PICK i \in S, k \in DOMAIN g.items : Like(s, i) /\ Written(r, k)
      BY <2>6
    <3>2. i.id # g.items[k].id /\ Compared(i.sku) = Compared(SkuFor(g.items[k]))
      BY <1>8, <2>1, <3>1
    <3> QED
      BY <1>9, <3>2
  <2>7. CASE \E j \in DOMAIN g.items, k \in DOMAIN g.items : Written(r, j) /\ Written(s, k)
    <3>1. PICK j \in DOMAIN g.items, k \in DOMAIN g.items : Written(r, j) /\ Written(s, k)
      BY <2>7
    <3>2. j # k
      BY <2>1, <3>1
    <3>3. Compared(SkuFor(g.items[j])) = Compared(SkuFor(g.items[k]))
      BY <1>5, <1>6, <2>1, <3>1, <3>2
    <3> QED
      BY <1>9, <3>2, <3>3
  <2> QED
    BY <2>2, <2>3, <2>4, <2>5, <2>6, <2>7
<1>11. Settled(T)
  <2>1. SUFFICES ASSUME NEW t \in T
                 PROVE  (t.sku \in Skus \/ t.sku = t.id) /\ (t.deleted => Marked(t))
    BY DEF Settled
  <2>2. CASE \E i \in S : Like(t, i)
    BY <2>2 DEF Settled, ItemsAway, Marked
  <2>3. CASE \E k \in DOMAIN g.items : Written(t, k) /\ ~t.deleted
    BY <2>3, SkuForIs
  <2> QED
    BY <1>3, <2>2, <2>3
<1>12. Ids(T) \subseteq Ids(S) \cup Ids(Range(g.items))
  <2>1. SUFFICES ASSUME NEW t \in T
                 PROVE  t.id \in Ids(S) \cup Ids(Range(g.items))
    BY DEF Ids
  <2> QED
    BY <1>3 DEF Ids, Range
<1> QED
  BY <1>10, <1>11, <1>12 DEF T

(* The fourth flush meets a key only where the SKUs clash.                 *)
LEMMA ApplyItemsFits ==
  ASSUME GraphInv, WriterInv, tx # NoTx, tx.phase = "items"
  PROVE  /\ Collides(rows, WithItems(tx.graph)) => Clash(tx.graph, tx.saved.items)
         /\ Fitting(WithItems(tx.graph), tx.graph, tx.saved.items, "selections")
<1> DEFINE g == tx.graph
           items == tx.saved.items
           new == WithItems(g)
<1>1. /\ Complete(g) /\ DOMAIN rows = Tables /\ Fitting(rows, g, items, "items")
      /\ Reached(rows, g, items, "items") /\ OwnSkus(g.items)
  BY OpenFacts
<1> HIDE DEF g, items
<1>2. /\ ItemTable(rows.items) /\ Settled(rows.items) /\ ItemsAway(rows.items)
      /\ Kept(rows.items, items) /\ NamesDiffer(g) /\ rows.selections = {}
      /\ Ids(rows.items) \subseteq Ids(items) \cup Ids(Range(g.items))
  BY <1>1 DEF Reached, Fitting
<1>3. /\ ItemsCollide(rows.items, new.items) => Clash(g, items)
      /\ Settled(new.items)
      /\ Ids(new.items) \subseteq Ids(rows.items) \cup Ids(Range(g.items))
  BY <1>1, <1>2, WrittenItemsMeet
<1>4. new.options = rows.options /\ new.values = rows.values /\ new.labels = rows.labels
  BY <1>1, FlushedTables
<1>5. new.selections = rows.selections
  BY <1>1 DEF WithItems, Tables
<1> HIDE DEF new
<1>6. /\ ~OptionsCollide(rows.options, new.options) /\ ~ValuesCollide(rows.values, new.values)
      /\ ~LabelsCollide(rows.labels, new.labels)
      /\ ~SelectionsCollide(rows.selections, new.selections)
  BY <1>4, <1>5 DEF OptionsCollide, ValuesCollide, LabelsCollide, SelectionsCollide
<1>7. Collides(rows, new) => Clash(g, items)
  BY <1>3, <1>6 DEF Collides
<1>8. Fitting(new, g, items, "selections")
  BY <1>2, <1>3, <1>5 DEF Fitting
<1> QED
  BY <1>7, <1>8 DEF g, items, new

(* An item has one value of an option.                                     *)
LEMMA SelectionsApart ==
  ASSUME NEW g, Complete(g)
  PROVE  \A r, s \in SelectionRows(g) : r.item = s.item /\ r.option = s.option => r = s
<1> DEFINE row(i, p) == [item |-> i.id, option |-> OptionOf(g, p).id, value |-> ValueOf(g, p).id]
<1>1. ASSUME NEW r \in SelectionRows(g)
      PROVE  \E n \in DOMAIN g.items : \E p \in g.items[n].sel : r = row(g.items[n], p)
  BY <1>1 DEF SelectionRows, Range
<1>2. ASSUME NEW r \in SelectionRows(g), NEW s \in SelectionRows(g),
             r.item = s.item, r.option = s.option
      PROVE  r = s
  <2>1. PICK m \in DOMAIN g.items : \E p \in g.items[m].sel : r = row(g.items[m], p)
    BY <1>1
  <2>2. PICK p \in g.items[m].sel : r = row(g.items[m], p)
    BY <2>1
  <2>3. PICK n \in DOMAIN g.items : \E q \in g.items[n].sel : s = row(g.items[n], q)
    BY <1>1
  <2>4. PICK q \in g.items[n].sel : s = row(g.items[n], q)
    BY <2>3
  <2>5. m = n
    BY <1>2, <2>2, <2>4 DEF Complete, ItemsIdentified
  <2>6. PICK k \in DOMAIN g.options : g.options[k].code = p[1] /\ OptionOf(g, p) = g.options[k]
    BY SelectionPlace
  <2>7. PICK l \in DOMAIN g.options : g.options[l].code = q[1] /\ OptionOf(g, q) = g.options[l]
    BY SelectionPlace
  <2>8. k = l
    BY <1>2, <2>2, <2>4, <2>6, <2>7 DEF Complete, OptionsIdentified
  <2>9. p[1] = q[1]
    BY <2>6, <2>7, <2>8
  <2>10. p = q
    BY <2>5, <2>9 DEF Complete, Valid, ValidItems, ValidSelection
  <2> QED
    BY <2>2, <2>4, <2>5, <2>10
<1> QED
  BY <1>2

LEMMA ApplySelectionsFits ==
  ASSUME GraphInv, WriterInv, tx # NoTx, tx.phase = "selections"
  PROVE  /\ ~Collides(rows, WithSelections(tx.graph))
         /\ Fitting(WithSelections(tx.graph), tx.graph, tx.saved.items, "commit")
<1> DEFINE g == tx.graph
           new == WithSelections(g)
<1>1. Complete(g) /\ DOMAIN rows = Tables /\ Fitting(rows, g, tx.saved.items, "selections")
  BY OpenFacts
<1> HIDE DEF g
<1>2. /\ new.options = rows.options /\ new.values = rows.values
      /\ new.labels = rows.labels /\ new.items = rows.items
      /\ new.selections = SelectionRows(g)
  BY <1>1, FlushedTables
<1>3. rows.selections = {}
  BY <1>1 DEF Fitting
<1> HIDE DEF new
<1>4. ~SelectionsCollide(rows.selections, new.selections)
  BY <1>1, <1>2, <1>3, SelectionsApart DEF SelectionsCollide
<1>5. /\ ~OptionsCollide(rows.options, new.options) /\ ~ValuesCollide(rows.values, new.values)
      /\ ~LabelsCollide(rows.labels, new.labels) /\ ~ItemsCollide(rows.items, new.items)
  BY <1>2 DEF OptionsCollide, ValuesCollide, LabelsCollide, ItemsCollide
<1>6. ~Collides(rows, new)
  BY <1>4, <1>5 DEF Collides
<1>7. Fitting(new, g, tx.saved.items, "commit")
  BY <1>1, <1>2 DEF Fitting
<1> QED
  BY <1>6, <1>7 DEF g, new

(* A stored revision clashes with nothing, so that its restore meets no    *)
(* key: its items are all there, under its SKUs.                           *)
LEMMA RestoringNeverClashes ==
  ASSUME GraphInv, WriterInv, tx # NoTx, Restoring
  PROVE  NamesDiffer(tx.graph) /\ ~Clash(tx.graph, tx.saved.items)
<1> DEFINE g == tx.graph
           S == tx.saved.items
           is == g.items
<1>1. tx.source \in DOMAIN history /\ g = history[tx.source].graph
  BY DEF Restoring, Revision, GraphInv, HistoryInv
<1>2. Complete(g) /\ ItemTable(S) /\ CommittedRows = tx.saved
  BY OpenFacts
<1>3. NamesDiffer(g)
  BY <1>1 DEF WriterInv, HistorySound
<1>4. Kept(Range(is), S)
  BY <1>1, <1>2 DEF GraphInv, RowsInv
<1> HIDE DEF g, S
<1>5. ASSUME NEW k \in DOMAIN is
      PROVE  \E i \in S : i.id = is[k].id /\ i.sku = is[k].sku
  BY <1>4 DEF Kept, Range
<1>6. ASSUME NEW k \in DOMAIN is, NEW r \in S, r.id # is[k].id
      PROVE  Compared(r.sku) # Compared(is[k].sku)
  <2>1. PICK i \in S : i.id = is[k].id /\ i.sku = is[k].sku
    BY <1>5
  <2> QED
    BY <1>2, <1>6, <2>1 DEF ItemTable
<1>7. ASSUME NEW k \in DOMAIN is, NEW j \in DOMAIN is, j # k
      PROVE  Compared(is[j].sku) # Compared(is[k].sku)
  <2>1. PICK i \in S : i.id = is[j].id /\ i.sku = is[j].sku
    BY <1>5
  <2>2. i.id # is[k].id
    BY <1>2, <1>7, <2>1 DEF Complete, ItemsIdentified
  <2> QED
    BY <1>6, <2>1, <2>2
<1>8. ~Clash(g, S)
  BY <1>3, <1>6, <1>7 DEF Clash, NamesDiffer, EqualTags
<1> QED
  BY <1>3, <1>8 DEF g, S

LEMMA NamesClash ==
  ASSUME NEW g, ~NamesDiffer(g), NEW items
  PROVE  Clash(g, items)
BY DEF NamesDiffer, EqualTags, Clash

(* What a flush that meets a key says about the graph.                     *)
LEMMA FlushMeets ==
  ASSUME GraphInv, WriterInv, tx # NoTx,
         \/ tx.phase = "stage" /\ Collides(rows, Staged(tx.graph))
         \/ tx.phase = "remove" /\ Collides(rows, Trimmed(tx.graph))
         \/ tx.phase = "options" /\ Collides(rows, WithOptions(tx.graph))
         \/ tx.phase = "items" /\ Collides(rows, WithItems(tx.graph))
         \/ tx.phase = "selections" /\ Collides(rows, WithSelections(tx.graph))
  PROVE  Clash(tx.graph, tx.saved.items) /\ ~Restoring
<1>1. Clash(tx.graph, tx.saved.items)
  BY StageFits, RemoveUnusedFits, ApplyOptionsFits, ApplyItemsFits, ApplySelectionsFits, NamesClash
<1> QED
  BY <1>1, RestoringNeverClashes

-----------------------------------------------------------------------------
(* Each action keeps what the flushes rely on.                             *)

LEMMA SameHistory ==
  ASSUME HistorySound, TableInv, history' = history, CommittedRows' = CommittedRows
  PROVE  HistorySound' /\ TableInv'
BY DEF HistorySound, TableInv, Revision

LEMMA NoWriterStep ==
  ASSUME WriterInv, UNCHANGED <<product, rows, history, tx>>,
         outcome' = outcome \/ outcome'.kind # "RESTORE"
  PROVE  WriterInv'
<1>1. CommittedRows' = CommittedRows
  BY DEF CommittedRows
<1>2. HistorySound' /\ TableInv'
  BY <1>1, SameHistory DEF WriterInv
<1>3. AwayInv'
  BY DEF WriterInv, AwayInv
<1>4. ToldInv'
  BY DEF WriterInv, ToldInv
<1> QED
  BY <1>2, <1>3, <1>4 DEF WriterInv

(* A command that is no restore may be refused when it ends; a restore may *)
(* only meet a key or die.                                                 *)
LEMMA RollBackWriter ==
  ASSUME GraphInv, WriterInv, tx # NoTx, NEW result, RollBack(result),
         result # "refused" \/ ~Restoring
  PROVE  WriterInv'
<1>1. /\ rows' = tx.saved /\ tx' = NoTx /\ history' = history
      /\ outcome' = [kind |-> tx.kind, result |-> result]
  BY DEF RollBack, Told
<1>2. CommittedRows' = CommittedRows
  BY <1>1 DEF CommittedRows
<1>3. HistorySound' /\ TableInv'
  BY <1>1, <1>2, SameHistory DEF WriterInv
<1>4. AwayInv'
  BY <1>1 DEF AwayInv
<1>5. tx.kind = "RESTORE" => Restoring
  BY DEF GraphInv, TxInv, Editing
<1>6. ToldInv'
  BY <1>1, <1>5 DEF ToldInv
<1> QED
  BY <1>3, <1>4, <1>6 DEF WriterInv

LEMMA FlushWriter ==
  ASSUME GraphInv, WriterInv, NEW phase, NEW new, NEW next \in Phases \ {"stage"},
         Flush(phase, new, next),
         tx # NoTx /\ tx.phase = phase /\ ~Collides(rows, new) =>
           Fitting(new, tx.graph, tx.saved.items, next)
  PROVE  WriterInv'
<1>1. tx # NoTx /\ tx.phase = phase
  BY DEF Flush
<1>2. CASE Collides(rows, new) /\ RollBack("conflict")
  BY <1>1, <1>2, RollBackWriter
<1>3. CASE /\ ~Collides(rows, new) /\ rows' = new
           /\ tx' = [tx EXCEPT !.phase = next]
           /\ UNCHANGED <<product, history, outcome>>
  <2>1. tx = [kind |-> tx.kind, source |-> tx.source, product |-> tx.product,
              graph |-> tx.graph, phase |-> tx.phase, saved |-> tx.saved]
    BY <1>1 DEF GraphInv, TxInv
  <2>2. tx' = [kind |-> tx.kind, source |-> tx.source, product |-> tx.product,
               graph |-> tx.graph, phase |-> next, saved |-> tx.saved]
    BY <1>3, <2>1
  <2>3. tx'.graph = tx.graph /\ tx'.phase = next /\ tx'.saved = tx.saved
    BY <2>2
  <2>4. tx' # NoTx
    BY <2>3, TxOpen
  <2>5. CommittedRows' = CommittedRows
    BY <1>1, <2>3, <2>4 DEF CommittedRows
  <2>6. HistorySound' /\ TableInv'
    BY <1>3, <2>5, SameHistory DEF WriterInv
  <2>7. Fitting(rows', tx'.graph, tx'.saved.items, tx'.phase)
    BY <1>1, <1>3, <2>3
  <2>8. OwnSkus(tx'.graph.items)
    BY <1>1, <2>3 DEF WriterInv, AwayInv
  <2>9. AwayInv'
    BY <2>3, <2>7, <2>8 DEF AwayInv
  <2>10. ToldInv'
    BY <1>3 DEF WriterInv, ToldInv
  <2> QED
    BY <2>6, <2>9, <2>10 DEF WriterInv
<1> QED
  BY <1>2, <1>3 DEF Flush

LEMMA FlushesWriter ==
  ASSUME GraphInv, WriterInv,
         Stage \/ RemoveUnused \/ ApplyOptions \/ ApplyItems \/ ApplySelections
  PROVE  WriterInv'
<1>1. CASE Stage
  <2>1. tx # NoTx /\ tx.phase = "stage" => Fitting(Staged(tx.graph), tx.graph, tx.saved.items, "remove")
    BY StageFits
  <2>2. CASE tx # NoTx /\ RollBack("conflict")
    BY <2>2, RollBackWriter
  <2>3. CASE Flush("stage", Staged(tx.graph), "remove")
    BY <2>1, <2>3, FlushWriter DEF Phases
  <2> QED
    BY <1>1, <2>2, <2>3 DEF Stage
<1>2. CASE RemoveUnused
  <2>1. tx # NoTx /\ tx.phase = "remove" =>
          Fitting(Trimmed(tx.graph), tx.graph, tx.saved.items, "options")
    BY RemoveUnusedFits
  <2> QED
    BY <1>2, <2>1, FlushWriter DEF RemoveUnused, Phases
<1>3. CASE ApplyOptions
  <2>1. tx # NoTx /\ tx.phase = "options" /\ ~Collides(rows, WithOptions(tx.graph)) =>
          Fitting(WithOptions(tx.graph), tx.graph, tx.saved.items, "items")
    BY ApplyOptionsFits
  <2> QED
    BY <1>3, <2>1, FlushWriter DEF ApplyOptions, Phases
<1>4. CASE ApplyItems
  <2>1. tx # NoTx /\ tx.phase = "items" =>
          Fitting(WithItems(tx.graph), tx.graph, tx.saved.items, "selections")
    BY ApplyItemsFits
  <2> QED
    BY <1>4, <2>1, FlushWriter DEF ApplyItems, Phases
<1>5. CASE ApplySelections
  <2>1. tx # NoTx /\ tx.phase = "selections" =>
          Fitting(WithSelections(tx.graph), tx.graph, tx.saved.items, "commit")
    BY ApplySelectionsFits
  <2> QED
    BY <1>5, <2>1, FlushWriter DEF ApplySelections, Phases
<1> QED
  BY <1>1, <1>2, <1>3, <1>4, <1>5

(* A revision more, with at most a graph's items more.                     *)
LEMMA SaveWriter ==
  ASSUME HistoryInv, WriterInv, NEW r, NEW h, GraphOf(r) = h, Stored(r, h),
         NamesDiffer(h), OwnSkus(h.items), Settled(r.items),
         Cardinality(r.items) <= Limits.items * (Revision + 1),
         NEW kind, NEW source, NEW p, Sound(p, r), Save(kind, source, p, r), tx' = NoTx
  PROVE  WriterInv'
<1> DEFINE e == [kind |-> kind, source |-> source, product |-> p, graph |-> GraphOf(r)]
<1>1. /\ rows' = r /\ history' = Append(history, e)
      /\ outcome' = [kind |-> kind, result |-> "done"]
  BY DEF Save, Told
<1>2. e.graph = h /\ e.product = p
  OBVIOUS
<1> HIDE DEF e
<1>3. history \in Seq(Snapshot)
  BY DEF HistoryInv
<1>4. /\ Revision' = Revision + 1
      /\ DOMAIN history' = DOMAIN history \cup {Revision + 1}
      /\ \A q \in DOMAIN history : history'[q] = history[q]
      /\ history'[Revision + 1] = e
  <2>1. Len(history) \in Nat /\ DOMAIN history = 1 .. Len(history)
    BY <1>3
  <2>2. /\ Len(history') = Len(history) + 1 /\ DOMAIN history' = 1 .. (Len(history) + 1)
        /\ \A q \in 1 .. Len(history) : history'[q] = history[q]
        /\ history'[Len(history) + 1] = e
    BY <1>1, <1>3
  <2> QED
    BY <2>1, <2>2 DEF Revision
<1>5. p.status = "ACTIVE" => \E k \in DOMAIN h.items : h.items[k].sale = "ALLOW"
  BY SaleableStored DEF Sound
<1>6. HistorySound'
  <2>1. SUFFICES ASSUME NEW q \in DOMAIN history'
                 PROVE  /\ NamesDiffer(history'[q].graph)
                        /\ OwnSkus(history'[q].graph.items)
                        /\ history'[q].product.status = "ACTIVE" =>
                             \E k \in DOMAIN history'[q].graph.items :
                               history'[q].graph.items[k].sale = "ALLOW"
    BY DEF HistorySound
  <2>2. CASE q \in DOMAIN history
    BY <1>4, <2>2 DEF WriterInv, HistorySound
  <2>3. CASE q = Revision + 1
    BY <1>2, <1>4, <1>5, <2>3
  <2> QED
    BY <1>4, <2>2, <2>3
<1>7. CommittedRows' = r
  BY <1>1 DEF CommittedRows
<1>8. TableInv'
  BY <1>4, <1>7 DEF TableInv
<1>9. AwayInv' /\ ToldInv'
  BY <1>1 DEF AwayInv, ToldInv
<1> QED
  BY <1>6, <1>8, <1>9 DEF WriterInv

LEMMA OwnResolved ==
  ASSUME HistoryInv, RowsInv, tx = NoTx, NEW graph \in Graphs, Signable(graph.items),
         OwnSkus(graph.items), NEW named, Valid(Normal(graph)), Resolvable(Normal(graph), named)
  PROVE  OwnSkus(Resolved(Normal(graph)).items)
<1> DEFINE g == Normal(graph)
           is == ResolvedItems(g.items)
<1>1. /\ g \in Graphs /\ DOMAIN g.items = DOMAIN graph.items
      /\ \A k \in DOMAIN graph.items :
           g.items[k].id = graph.items[k].id /\ g.items[k].sku = graph.items[k].sku
  BY NormalIs
<1>2. Valid(g) /\ Resolvable(g, named)
  OBVIOUS
<1> HIDE DEF g
<1>3. /\ g.items \in Seq(CatalogItem) /\ GivenIdsDiffer(g.items)
      /\ \A k \in DOMAIN g.items : g.items[k].id # 0 => g.items[k].id \in Ids(rows.items)
  BY <1>1, <1>2, GraphFields DEF Valid, ValidItems, Resolvable
<1>4. Resolved(g).items = is
  BY <1>1, GraphFields DEF Resolved
<1>5. /\ DOMAIN is = DOMAIN g.items
      /\ \A k \in DOMAIN g.items : is[k].sku = g.items[k].sku /\ is[k].id = ItemId(g.items, k)
  <2>1. ItemTable(rows.items)
    BY CurrentStored
  <2>2. is = ResolvedItems(g.items)
    OBVIOUS
  <2> HIDE DEF is
  <2> QED
    BY <1>3, <2>1, <2>2, ItemsResolved
<1> HIDE DEF is
<1>6. \A k \in DOMAIN g.items : g.items[k].id # 0 => ItemId(g.items, k) = g.items[k].id
  BY DEF ItemId
<1>7. OwnSkus(is)
  BY <1>1, <1>5, <1>6 DEF OwnSkus
<1> QED
  BY <1>4, <1>7 DEF g

LEMMA BeginWriter ==
  ASSUME GraphInv, WriterInv, tx = NoTx,
         NEW kind, NEW source, NEW p, NEW graph \in Graphs, NEW named,
         Signable(graph.items), OwnSkus(graph.items),
         kind = "RESTORE" => Valid(Normal(graph)) /\ Resolvable(Normal(graph), named),
         Begin(kind, source, p, graph, named)
  PROVE  WriterInv'
<1> DEFINE g == Normal(graph)
           h == Resolved(g)
           t == [kind |-> kind, source |-> source, product |-> p,
                 graph |-> h, phase |-> "stage", saved |-> rows]
<1>1. CASE kind # "RESTORE" /\ Fail(kind, "refused")
  BY <1>1, NoWriterStep DEF Fail, Told
<1>2. CASE Valid(g) /\ Resolvable(g, named) /\ tx' = t /\ UNCHANGED <<product, rows, history, outcome>>
  <2>1. OwnSkus(h.items)
    BY <1>2, OwnResolved DEF GraphInv
  <2>2. t.graph = h /\ t.phase = "stage" /\ t.saved = rows
    OBVIOUS
  <2>3. tx' = t /\ UNCHANGED <<product, rows, history, outcome>>
    BY <1>2
  <2> HIDE DEF g, h, t
  <2>4. tx' # NoTx
    BY <2>2, <2>3, TxOpen DEF Phases
  <2>5. CommittedRows' = CommittedRows /\ CommittedRows = rows
    BY <2>2, <2>3, <2>4 DEF CommittedRows
  <2>6. HistorySound' /\ TableInv'
    BY <2>3, <2>5, SameHistory DEF WriterInv
  <2>7. Settled(rows.items)
    BY <2>5 DEF WriterInv, TableInv
  <2>8. Fitting(rows, h, rows.items, "stage")
    BY <2>7 DEF Fitting
  <2>9. AwayInv'
    BY <2>1, <2>2, <2>3, <2>8 DEF AwayInv
  <2>10. ToldInv'
    BY <2>3 DEF WriterInv, ToldInv
  <2> QED
    BY <2>6, <2>9, <2>10 DEF WriterInv
<1>3. (kind # "RESTORE" /\ Fail(kind, "refused"))
        \/ (Valid(g) /\ Resolvable(g, named) /\ tx' = t
              /\ UNCHANGED <<product, rows, history, outcome>>)
  BY DEF Begin
<1> HIDE DEF g, h, t
<1> QED
  BY <1>1, <1>2, <1>3

(* What is there when no command is open. *)
LEMMA CurrentSound ==
  ASSUME GraphInv, WriterInv, tx = NoTx, Revision # 0
  PROVE  /\ Complete(CurrentGraph) /\ Stored(rows, CurrentGraph) /\ GraphOf(rows) = CurrentGraph
         /\ NamesDiffer(CurrentGraph) /\ OwnSkus(CurrentGraph.items)
         /\ CurrentItems = CurrentGraph.items
         /\ Settled(rows.items)
         /\ Cardinality(rows.items) <= Limits.items * Revision
         /\ Revision \in DOMAIN history
<1>1. Complete(CurrentGraph) /\ Stored(rows, CurrentGraph) /\ GraphOf(rows) = CurrentGraph
  BY CurrentComplete, CurrentStored DEF GraphInv
<1>2. Revision \in DOMAIN history
  BY ProductTyped DEF GraphInv
<1>3. CurrentGraph = history[Revision].graph
  BY DEF CurrentGraph
<1>4. NamesDiffer(CurrentGraph) /\ OwnSkus(CurrentGraph.items)
  BY <1>2, <1>3 DEF WriterInv, HistorySound
<1>5. CommittedRows = rows
  BY DEF CommittedRows
<1> QED
  BY <1>1, <1>2, <1>4, <1>5 DEF WriterInv, TableInv, CurrentItems

LEMMA ItemEditWriter ==
  ASSUME GraphInv, WriterInv, Live, NEW is \in Seq(AskedItems), OwnSkus(is),
         Edit(WithItemList(is))
  PROVE  WriterInv'
<1>1. tx = NoTx
  BY LiveFacts
<1>2. WithItemList(is) \in Graphs /\ Signable(WithItemList(is).items)
  BY <1>1, ItemEdit DEF GraphInv
<1>3. WithItemList(is).items = is
  <2>1. GraphOf(rows) \in Graphs
    BY <1>1, CurrentComplete, CurrentStored, GraphTyped DEF GraphInv
  <2> DEFINE h == GraphOf(rows)
  <2>2. h \in Graphs
    BY <2>1
  <2> HIDE DEF h
  <2>3. "items" \in DOMAIN h
    BY <2>2 DEF Graphs
  <2>4. [h EXCEPT !.items = is].items = is
    BY <2>3
  <2> QED
    BY <2>4 DEF WithItemList, h
<1> DEFINE g == WithItemList(is)
<1>4. Begin("UPDATE", 0, product, g, FALSE)
  BY DEF Edit
<1> HIDE DEF g
<1>5. g \in Graphs /\ Signable(g.items) /\ OwnSkus(g.items)
  BY <1>2, <1>3 DEF g
<1> QED
  BY <1>1, <1>4, <1>5, BeginWriter

LEMMA ReplaceCatalogWriter ==
  ASSUME GraphInv, WriterInv, ReplaceCatalog
  PROVE  WriterInv'
<1>1. tx = NoTx
  BY LiveFacts DEF ReplaceCatalog
<1>2. PICK d \in Drafts : Begin("UPDATE", 0, product, d, FALSE)
  BY DEF ReplaceCatalog, Edit
<1>3. /\ d \in Graphs
      /\ \A k \in DOMAIN d.items : d.items[k].sig = NoSignature /\ d.items[k].sku \in Skus \cup {NoSku}
  BY GraphAssumption
<1>4. Signable(d.items) /\ OwnSkus(d.items)
  BY <1>3 DEF Signable, OwnSkus
<1> QED
  BY <1>1, <1>2, <1>3, <1>4, BeginWriter

LEMMA ItemsEditedWriter ==
  ASSUME GraphInv, WriterInv, CreateItem \/ UpdateItem \/ DeleteItem
  PROVE  WriterInv'
<1>1. Live /\ tx = NoTx /\ Revision # 0
  BY LiveFacts DEF CreateItem, UpdateItem, DeleteItem
<1>2. CurrentItems \in Seq(AskedItems) /\ OwnSkus(CurrentItems)
  BY <1>1, CurrentItemsAsked, CurrentSound DEF GraphInv
<1> DEFINE cs == CurrentItems
<1>3. Len(cs) \in Nat /\ DOMAIN cs = 1 .. Len(cs) /\ cs \in Seq(AskedItems) /\ OwnSkus(cs)
  BY <1>2
<1>4. \A d \in ItemDrafts : d.sku \in Skus \cup {NoSku} /\ d \in CatalogItem
  BY GraphAssumption
<1>5. CASE CreateItem
  <2>1. PICK d \in ItemDrafts : Edit(WithItemList(Append(cs, d)))
    BY <1>5 DEF CreateItem
  <2> DEFINE is == Append(cs, d)
  <2> HIDE DEF cs
  <2>2. is \in Seq(AskedItems)
    BY <1>3, DraftsAsked
  <2>3. /\ DOMAIN is = DOMAIN cs \cup {Len(cs) + 1} /\ is[Len(cs) + 1] = d
        /\ \A k \in DOMAIN cs : is[k] = cs[k]
    BY <1>3, DraftsAsked
  <2> HIDE DEF is
  <2>4. OwnSkus(is)
    BY <1>3, <1>4, <2>3 DEF OwnSkus
  <2> QED
    BY <1>1, <2>1, <2>2, <2>4, ItemEditWriter DEF is
<1>6. CASE UpdateItem
  <2>1. PICK k \in DOMAIN cs, d \in ItemDrafts :
          Edit(WithItemList([cs EXCEPT ![k] = [d EXCEPT !.id = cs[k].id]]))
    BY <1>6 DEF UpdateItem
  <2> DEFINE e == [d EXCEPT !.id = cs[k].id]
             is == [cs EXCEPT ![k] = e]
  <2> HIDE DEF cs
  <2>2. e \in AskedItems
    <3>1. cs[k] \in CatalogItem
      BY <1>3, SeqElements DEF AskedItems
    <3>2. cs[k].id \in Nat
      BY <3>1, ItemFields
    <3> QED
      BY <3>2, DraftsAsked
  <2>3. e.sku = d.sku
    BY <1>4 DEF CatalogItem
  <2> HIDE DEF e
  <2>4. is \in Seq(AskedItems)
    BY <1>3, <2>2
  <2>5. DOMAIN is = DOMAIN cs /\ is[k] = e /\ \A j \in DOMAIN cs : j # k => is[j] = cs[j]
    BY <1>3
  <2> HIDE DEF is
  <2>6. OwnSkus(is)
    <3>1. SUFFICES ASSUME NEW j \in DOMAIN is
                   PROVE  is[j].sku \in Skus \cup {NoSku} \/ (is[j].id # 0 /\ is[j].sku = is[j].id)
      BY DEF OwnSkus
    <3>2. CASE j = k
      BY <1>4, <2>3, <2>5, <3>2
    <3>3. CASE j # k
      BY <1>3, <2>5, <3>3 DEF OwnSkus
    <3> QED
      BY <3>2, <3>3
  <2> QED
    BY <1>1, <2>1, <2>4, <2>6, ItemEditWriter DEF is, e
<1>7. CASE DeleteItem
  <2>1. PICK k \in DOMAIN cs : Edit(WithItemList(RemoveAt(cs, k)))
    BY <1>7 DEF DeleteItem
  <2> DEFINE is == RemoveAt(cs, k)
  <2> HIDE DEF cs
  <2>2. is \in Seq(AskedItems)
    BY <1>3, RemovedAsked
  <2>3. \A j \in DOMAIN is : \E i \in DOMAIN cs : is[j] = cs[i]
    <3> DEFINE T == {cs[i] : i \in DOMAIN cs}
    <3>1. cs = [i \in DOMAIN cs |-> cs[i]] /\ \A i \in DOMAIN cs : cs[i] \in T
      BY <1>3, SeqElements
    <3>2. \A x \in T : \E i \in DOMAIN cs : x = cs[i]
      OBVIOUS
    <3> HIDE DEF T
    <3>3. cs \in [1 .. Len(cs) -> T]
      BY <1>3, <3>1
    <3>4. cs \in Seq(T)
      BY <1>3, <3>3
    <3>5. is \in Seq(T)
      BY <3>4 DEF RemoveAt
    <3> HIDE DEF is
    <3>6. \A j \in DOMAIN is : is[j] \in T
      BY <3>5, SeqElements
    <3> QED
      BY <3>2, <3>6
  <2> HIDE DEF is
  <2>4. OwnSkus(is)
    BY <1>3, <2>3 DEF OwnSkus
  <2> QED
    BY <1>1, <2>1, <2>2, <2>4, ItemEditWriter DEF is
<1> QED
  BY <1>5, <1>6, <1>7

(* A stored graph is valid and finds all its rows and items.               *)
LEMMA StoredResolvable ==
  ASSUME GraphInv, tx = NoTx, NEW r \in DOMAIN history, NEW g, g = history[r].graph
  PROVE  Valid(Normal(g)) /\ Resolvable(Normal(g), TRUE)
<1>1. Complete(g) /\ CommittedRows = rows /\ Kept(Range(g.items), rows.items)
      /\ ItemTable(rows.items)
  BY DEF GraphInv, HistoryInv, RowsInv, CommittedRows
<1>2. Normal(g) = g /\ Resolved(g) = g
  BY <1>1, CompleteStays
<1>3. Valid(g)
  BY <1>1 DEF Complete
<1>4. GivenIdsDiffer(g.options) /\ \A k \in DOMAIN g.options : GivenIdsDiffer(g.options[k].values)
  BY <1>3 DEF Valid, ValidOptions
<1>5. ASSUME NEW k \in DOMAIN g.items
      PROVE  /\ g.items[k].id \in Ids(rows.items) /\ g.items[k].id # 0
             /\ TheRow(rows.items, g.items[k].id).sku = g.items[k].sku
  <2>1. PICK j \in rows.items : j.id = g.items[k].id /\ j.sku = g.items[k].sku
    BY <1>1 DEF Kept, Range
  <2>2. TheRow(rows.items, g.items[k].id) = j
    BY <1>1, <2>1, TheItem
  <2> QED
    BY <1>1, <2>1, <2>2 DEF Ids, Complete, ItemsIdentified
<1>6. Resolvable(g, TRUE)
  BY <1>2, <1>4, <1>5 DEF Resolvable
<1> QED
  BY <1>2, <1>3, <1>6

LEMMA RestoreWriter ==
  ASSUME GraphInv, WriterInv, Restore
  PROVE  WriterInv'
<1>1. PICK r \in 1 .. Revision - 1 :
        Begin("RESTORE", r, [history[r].product EXCEPT !.deleted = FALSE], history[r].graph, TRUE)
  BY DEF Restore
<1>2. tx = NoTx
  BY DEF Restore, Free
<1>3. r \in DOMAIN history
  BY <1>1 DEF GraphInv, HistoryInv, Revision
<1> DEFINE g == history[r].graph
           p == [history[r].product EXCEPT !.deleted = FALSE]
<1>4. Complete(g) /\ OwnSkus(g.items) /\ g = history[r].graph
  BY <1>3 DEF GraphInv, HistoryInv, WriterInv, HistorySound
<1>5. Begin("RESTORE", r, p, g, TRUE)
  BY <1>1
<1> HIDE DEF g, p
<1>6. Valid(Normal(g)) /\ Resolvable(Normal(g), TRUE)
  BY <1>2, <1>3, <1>4, StoredResolvable
<1>7. g \in Graphs /\ Signable(g.items)
  BY <1>4, CompleteStays DEF Complete
<1> QED
  BY <1>2, <1>4, <1>5, <1>6, <1>7, BeginWriter

LEMMA CountsGrow ==
  ASSUME NEW n \in Nat, n <= Limits.items * Revision, Revision \in Nat,
         NEW c \in Nat, NEW m \in Nat, m <= Limits.items, c <= n + m
  PROVE  c <= Limits.items * (Revision + 1)
<1> DEFINE l == Limits.items
           r == Revision
<1>1. l \in Nat /\ r \in Nat /\ n <= l * r /\ m <= l
  BY LimitsTyped
<1> HIDE DEF l, r
<1>2. l * (r + 1) = l * r + l /\ l * r \in Nat
  BY <1>1
<1>3. c <= l * (r + 1)
  BY <1>1, <1>2
<1> QED
  BY <1>3 DEF l, r

LEMMA InitWriter ==
  ASSUME Init
  PROVE  WriterInv
<1>1. Revision = 0 /\ history = <<>> /\ tx = NoTx /\ rows = NoRows /\ outcome.kind = "CREATE"
  BY DEF Init, Revision
<1>2. HistorySound /\ ToldInv /\ AwayInv
  BY <1>1 DEF HistorySound, ToldInv, AwayInv
<1>3. CommittedRows.items = {}
  BY <1>1 DEF CommittedRows, NoRows, Tables
<1>4. Cardinality({}) = 0
  BY FS_EmptySet
<1>5. 0 <= Limits.items * 0
  BY LimitsTyped
<1>6. TableInv
  BY <1>1, <1>3, <1>4, <1>5 DEF TableInv, Settled
<1> QED
  BY <1>2, <1>6 DEF WriterInv

LEMMA CreateWriter ==
  ASSUME GraphInv, WriterInv, Create
  PROVE  WriterInv'
<1>1. CASE Fail("CREATE", "conflict")
  BY <1>1, NoWriterStep DEF Fail, Told
<1>2. ASSUME NEW slug \in Slugs,
             Save("CREATE", 0, [status |-> "DRAFT", deleted |-> FALSE, slug |-> slug], NoRows)
      PROVE  WriterInv'
  <2> DEFINE p == [status |-> "DRAFT", deleted |-> FALSE, slug |-> slug]
             h == EmptyGraph
  <2>1. Revision = 0 /\ Save("CREATE", 0, p, NoRows) /\ tx' = NoTx
    BY <1>2, CreateCases
  <2>2. NamesDiffer(h) /\ OwnSkus(h.items)
    BY DEF NamesDiffer, OwnSkus, EqualTexts, EqualTags, EmptyGraph, Range
  <2>3. Settled(NoRows.items)
    BY DEF NoRows, Tables, Settled
  <2>4. Sound(p, NoRows)
    BY DEF Sound
  <2>5. Stored(NoRows, h) /\ GraphOf(NoRows) = h
    BY EmptyStored, EmptyComplete, StoredIsGraph
  <2>6. Cardinality(NoRows.items) <= Limits.items * (Revision + 1)
    <3>1. Cardinality(NoRows.items) = 0
      BY FS_EmptySet DEF NoRows, Tables
    <3>2. 0 <= Limits.items * (0 + 1)
      BY LimitsTyped
    <3> QED
      BY <2>1, <3>1, <3>2
  <2> HIDE DEF p, h
  <2> QED
    BY <2>1, <2>2, <2>3, <2>4, <2>5, <2>6, SaveWriter DEF GraphInv
<1> QED
  BY <1>1, <1>2, CreateCases

LEMMA SameRowsWriter ==
  ASSUME GraphInv, WriterInv, tx = NoTx, tx' = NoTx, Revision # 0, NEW kind, NEW p,
         Sound(p, rows), Save(kind, 0, p, rows)
  PROVE  WriterInv'
<1> DEFINE g == CurrentGraph
           n == Cardinality(rows.items)
<1>1. /\ Complete(g) /\ Stored(rows, g) /\ GraphOf(rows) = g
      /\ NamesDiffer(g) /\ OwnSkus(g.items) /\ Settled(rows.items)
      /\ n <= Limits.items * Revision
  BY CurrentSound
<1>2. ItemTable(rows.items)
  BY CurrentStored DEF GraphInv
<1>3. n \in Nat /\ Revision \in Nat
  BY <1>2, ItemTableFinite, CurrentComplete DEF GraphInv
<1>4. n <= n + 0 /\ 0 <= Limits.items
  BY <1>3, LimitsTyped
<1> HIDE DEF g, n
<1>5. n <= Limits.items * (Revision + 1)
  BY <1>1, <1>3, <1>4, CountsGrow
<1> QED
  BY <1>1, <1>5, SaveWriter DEF GraphInv, n

LEMMA ProductWriter ==
  ASSUME GraphInv, WriterInv, Update \/ Delete
  PROVE  WriterInv'
<1>1. ASSUME Fail("UPDATE", "conflict") \/ Fail("UPDATE", "refused")
      PROVE  WriterInv'
  BY <1>1, NoWriterStep DEF Fail, Told
<1>2. CASE Update
  BY <1>1, <1>2, UpdateCases, SameRowsWriter
<1>3. CASE Delete
  <2> DEFINE p == [status |-> "CLOSED", deleted |-> TRUE, slug |-> product.slug]
  <2>1. Sound(p, rows)
    BY DEF Sound
  <2>2. tx = NoTx /\ tx' = NoTx /\ Revision # 0 /\ Save("DELETE", 0, p, rows)
    BY <1>3, DeleteCases
  <2> HIDE DEF p
  <2> QED
    BY <2>1, <2>2, SameRowsWriter
<1> QED
  BY <1>2, <1>3

(* A graph is restored under the status it was stored with, and so it is   *)
(* saleable where it must be.                                              *)
LEMMA CommitNotRefused ==
  ASSUME GraphInv, WriterInv, tx # NoTx, tx.phase = "commit", Restoring
  PROVE  Sound(tx.product, rows)
<1> DEFINE h == Labelled(tx.graph, rows.items)
           r == tx.source
<1>1. Stored(rows, h) /\ h = tx.graph
  BY AtCommit
<1>2. r \in DOMAIN history /\ h = history[r].graph
  BY <1>1 DEF Restoring, GraphInv, HistoryInv, Revision
<1>3. tx.product.status = history[r].product.status
  <2>1. history[r] \in Snapshot
    BY <1>2 DEF GraphInv, HistoryInv
  <2>2. history[r].product \in Product
    BY <2>1 DEF Snapshot
  <2> QED
    BY <2>2 DEF Restoring, Product
<1>4. history[r].product.status = "ACTIVE" =>
        \E k \in DOMAIN h.items : h.items[k].sale = "ALLOW"
  BY <1>2 DEF WriterInv, HistorySound
<1> HIDE DEF h, r
<1>5. Saleable(rows) <=> \E k \in DOMAIN h.items : h.items[k].sale = "ALLOW"
  BY <1>1, SaleableStored
<1> QED
  BY <1>3, <1>4, <1>5 DEF Sound

LEMMA CommitWriter ==
  ASSUME GraphInv, WriterInv, Commit
  PROVE  WriterInv'
<1>1. tx # NoTx /\ tx.phase = "commit"
  BY DEF Commit
<1>2. CASE ~Sound(tx.product, rows) /\ RollBack("refused")
  BY <1>1, <1>2, CommitNotRefused, RollBackWriter
<1>3. CASE Sound(tx.product, rows) /\ Save(tx.kind, tx.source, tx.product, rows) /\ tx' = NoTx
  <2> DEFINE g == tx.graph
             h == Labelled(g, rows.items)
             S == rows.items
             N == Ids(Range(g.items))
             T == Ids(tx.saved.items)
             C == tx.saved.items
  <2>1. Complete(h) /\ Stored(rows, h) /\ GraphOf(rows) = h
    BY <1>1, AtCommit
  <2>2. /\ Complete(g) /\ ItemTable(S) /\ ItemTable(C) /\ CommittedRows.items = C
        /\ Fitting(rows, g, C, "commit")
    BY <1>1, OpenFacts
  <2>3. Settled(S) /\ NamesDiffer(g) /\ Ids(S) \subseteq T \cup N
    BY <2>2 DEF Fitting
  <2>4. g \in Graphs /\ g.items \in Seq(CatalogItem)
    BY <2>2, GraphFields DEF Complete
  <2>5. h = [options |-> g.options,
             items |-> [k \in DOMAIN g.items |->
                [id |-> g.items[k].id, sku |-> TheRow(S, g.items[k].id).sku,
                 sale |-> g.items[k].sale, sig |-> g.items[k].sig, sel |-> g.items[k].sel]],
             categories |-> g.categories, tags |-> g.tags]
    BY <2>4, LabelledItems
  <2>6. NamesDiffer(h)
    BY <2>3, <2>5 DEF NamesDiffer, EqualTags
  <2>7. OwnSkus(h.items)
    <3>1. SUFFICES ASSUME NEW k \in DOMAIN h.items
                   PROVE  h.items[k].sku \in Skus \cup {NoSku}
                            \/ (h.items[k].id # 0 /\ h.items[k].sku = h.items[k].id)
      BY DEF OwnSkus
    <3> DEFINE row == [id |-> h.items[k].id, sku |-> h.items[k].sku, sale |-> h.items[k].sale,
                       sig |-> h.items[k].sig, seq |-> k - 1, deleted |-> FALSE]
    <3>2. row \in ItemRows(h) /\ row.id = h.items[k].id /\ row.sku = h.items[k].sku
      BY DEF ItemRows
    <3> HIDE DEF row, h
    <3>3. row \in S
      BY <2>1, <3>2 DEF Stored, LiveItems
    <3>4. h.items[k].id # 0
      BY <2>1 DEF Complete, ItemsIdentified
    <3> QED
      BY <2>3, <3>2, <3>3, <3>4 DEF Settled
  <2>8. Cardinality(S) <= Limits.items * (Revision + 1)
    <3> DEFINE c == Cardinality(S)
               n == Cardinality(C)
               m == Cardinality(N)
               f == [k \in DOMAIN g.items |-> g.items[k].id]
    <3>1. /\ c \in Nat /\ n \in Nat /\ c = Cardinality(Ids(S)) /\ n = Cardinality(T)
          /\ IsFiniteSet(T)
      BY <2>2, ItemTableFinite DEF ItemTable
    <3>2. N = {f[k] : k \in DOMAIN g.items}
      BY DEF Ids, Range
    <3>3. /\ IsFiniteSet(N) /\ m \in Nat /\ m <= Len(g.items) /\ Len(g.items) \in Nat
      <4>1. DOMAIN f = DOMAIN g.items
        OBVIOUS
      <4> DEFINE s == g.items
      <4>2. s \in Seq(CatalogItem) /\ DOMAIN f = DOMAIN s /\ N = {f[k] : k \in DOMAIN s}
        BY <2>4, <3>2, <4>1
      <4> HIDE DEF s, f, N
      <4>3. /\ IsFiniteSet({f[k] : k \in DOMAIN s}) /\ Cardinality({f[k] : k \in DOMAIN s}) \in Nat
            /\ Cardinality({f[k] : k \in DOMAIN s}) <= Len(s) /\ Len(s) \in Nat
        BY <4>2, ListRowsFinite
      <4>4. /\ IsFiniteSet(N) /\ Cardinality(N) \in Nat
            /\ Cardinality(N) <= Len(s) /\ Len(s) \in Nat
        BY <4>2, <4>3
      <4> QED
        BY <4>4 DEF s
    <3>4. Len(g.items) <= Limits.items
      BY <2>2 DEF Complete, Valid, ValidItems
    <3>5. m <= Limits.items
      BY <3>3, <3>4, LimitsTyped
    <3>6. c <= n + m
      <4> DEFINE I == Ids(S)
                 U == T \cup N
      <4>1. I \subseteq U /\ IsFiniteSet(T) /\ IsFiniteSet(N)
        BY <2>3, <3>1, <3>3
      <4>2. U = T \cup N /\ c = Cardinality(I) /\ n = Cardinality(T)
        BY <3>1
      <4> HIDE DEF I, U, T, N, c, n, m
      <4>3. /\ IsFiniteSet(T \cup N)
            /\ Cardinality(T \cup N) = Cardinality(T) + Cardinality(N) - Cardinality(T \cap N)
        BY <4>1, FS_Union
      <4>4. IsFiniteSet(U) /\ Cardinality(I) <= Cardinality(U)
        BY <4>1, <4>2, <4>3, FS_Subset
      <4>5. IsFiniteSet(T \cap N)
        BY <4>1, FS_Intersection
      <4>6. /\ Cardinality(T \cap N) \in Nat /\ Cardinality(T) \in Nat /\ Cardinality(N) \in Nat
            /\ Cardinality(I) \in Nat
        BY <3>1, <4>1, <4>2, <4>5, FS_CardinalityType
      <4>7. Cardinality(I) <= Cardinality(T) + Cardinality(N)
        BY <4>2, <4>3, <4>4, <4>6
      <4> QED
        BY <4>2, <4>7 DEF m
    <3>7. n <= Limits.items * Revision /\ Revision \in Nat
      BY <1>1, <2>2, OpenFacts DEF WriterInv, TableInv
    <3> HIDE DEF c, n, m
    <3>8. c <= Limits.items * (Revision + 1)
      BY <3>1, <3>3, <3>5, <3>6, <3>7, CountsGrow
    <3> QED
      BY <3>8 DEF c
  <2> HIDE DEF h
  <2> QED
    BY <1>3, <2>1, <2>3, <2>6, <2>7, <2>8, SaveWriter DEF GraphInv
<1> QED
  BY <1>2, <1>3 DEF Commit

LEMMA WriterStep ==
  ASSUME GraphInv, WriterInv, [Next]_vars
  PROVE  WriterInv'
<1>1. CASE UNCHANGED vars
  BY <1>1, NoWriterStep DEF vars
<1>2. CASE Create
  BY <1>2, CreateWriter
<1>3. CASE Update \/ Delete
  BY <1>3, ProductWriter
<1>4. CASE ReplaceCatalog
  BY <1>4, ReplaceCatalogWriter
<1>5. CASE CreateItem \/ UpdateItem \/ DeleteItem
  BY <1>5, ItemsEditedWriter
<1>6. CASE Restore
  BY <1>6, RestoreWriter
<1>7. CASE Stage \/ RemoveUnused \/ ApplyOptions \/ ApplyItems \/ ApplySelections
  BY <1>7, FlushesWriter
<1>8. CASE Commit
  BY <1>8, CommitWriter
<1>9. CASE Crash
  BY <1>9, RollBackWriter DEF Crash
<1>10. CASE OtherProducts
  BY <1>10, NoWriterStep DEF OtherProducts
<1> QED
  BY <1>1, <1>2, <1>3, <1>4, <1>5, <1>6, <1>7, <1>8, <1>9, <1>10 DEF Next

(* Between the flushes what is parked is away from all that is to come,    *)
(* and every stored revision has names, tags and SKUs the database tells   *)
(* apart and is saleable where its status asks for it                      *)
(* (product-catalog.writer.ts 72-101, 186-441).                            *)
THEOREM WriterInvariant == Spec => []WriterInv
<1>1. Init => GraphInv /\ WriterInv
  BY InitStep, InitWriter
<1>2. GraphInv /\ WriterInv /\ [Next]_vars => (GraphInv /\ WriterInv)'
  BY GraphStep, WriterStep
<1> QED
  BY <1>1, <1>2, PTL DEF Spec

(* How a flush ends a transaction. *)
LEMMA FlushEnds ==
  ASSUME GraphInv, tx # NoTx, tx' = NoTx, NEW phase, NEW new, NEW next, Flush(phase, new, next)
  PROVE  tx.phase = phase /\ Collides(rows, new) /\ RollBack("conflict")
<1>1. CASE tx' = [tx EXCEPT !.phase = next]
  <2>1. tx = [kind |-> tx.kind, source |-> tx.source, product |-> tx.product,
              graph |-> tx.graph, phase |-> tx.phase, saved |-> tx.saved]
    BY DEF GraphInv, TxInv
  <2>2. tx' = [kind |-> tx.kind, source |-> tx.source, product |-> tx.product,
               graph |-> tx.graph, phase |-> next, saved |-> tx.saved]
    BY <1>1, <2>1
  <2>3. DOMAIN tx' # DOMAIN NoTx
    BY <2>2 DEF NoTx
  <2> QED
    BY <2>3
<1> QED
  BY <1>1 DEF Flush

(* A transaction ends at a key, which is the slug's if it restores, or at  *)
(* its commit, or it dies.                                                 *)
LEMMA TxEnds ==
  ASSUME GraphInv, WriterInv, [Next]_vars, tx # NoTx, tx' = NoTx
  PROVE  \/ /\ outcome'.result = "conflict"
            /\ \/ tx.product.slug \in slugsTaken
               \/ Clash(tx.graph, tx.saved.items) /\ ~Restoring
         \/ Commit
         \/ Crash
<1>1. ASSUME RollBack("conflict")
      PROVE  outcome'.result = "conflict"
  BY <1>1 DEF RollBack, Told
<1>2. CASE Stage
  BY <1>1, <1>2, FlushEnds, FlushMeets DEF Stage
<1>3. CASE RemoveUnused
  BY <1>1, <1>3, FlushEnds, FlushMeets DEF RemoveUnused
<1>4. CASE ApplyOptions
  BY <1>1, <1>4, FlushEnds, FlushMeets DEF ApplyOptions
<1>5. CASE ApplyItems
  BY <1>1, <1>5, FlushEnds, FlushMeets DEF ApplyItems
<1>6. CASE ApplySelections
  BY <1>1, <1>6, FlushEnds, FlushMeets DEF ApplySelections
<1>7. CASE UNCHANGED vars \/ OtherProducts
  BY <1>7 DEF vars, OtherProducts
<1>8. CASE Create \/ Update \/ Delete \/ ReplaceCatalog \/ CreateItem \/ UpdateItem
             \/ DeleteItem \/ Restore
  BY <1>8 DEF Create, Update, Delete, ReplaceCatalog, CreateItem, UpdateItem, DeleteItem,
              Restore, Live, Free
<1> QED
  BY <1>2, <1>3, <1>4, <1>5, <1>6, <1>7, <1>8 DEF Next

LEMMA ConflictStep ==
  ASSUME GraphInv, WriterInv, [Next]_vars, tx # NoTx, tx' = NoTx, outcome'.result = "conflict"
  PROVE  Clash(tx.graph, tx.saved.items) \/ tx.product.slug \in slugsTaken
<1>1. ~Commit /\ ~Crash
  BY DEF Commit, Crash, Save, RollBack, Told
<1> QED
  BY <1>1, TxEnds

(* A command meets a unique key only when the graph it asks for can not be *)
(* stored at all, or its slug is another product's: whatever names, places *)
(* and signatures are exchanged on the way, for any drafts, texts and      *)
(* collation, for as many revisions as the table has room for              *)
(* (product-catalog.writer.ts 72-101, 186-291).                            *)
THEOREM ConflictsAreRealCorrect == Spec => ConflictsAreReal
<1>1. Spec => [](GraphInv /\ WriterInv)
  BY GraphInvariant, WriterInvariant, PTL
<1>2. GraphInv /\ WriterInv /\ [Next]_vars =>
        [tx # NoTx /\ tx' = NoTx /\ outcome'.result = "conflict" =>
           Clash(tx.graph, tx.saved.items) \/ tx.product.slug \in slugsTaken]_vars
  BY ConflictStep
<1> QED
  BY <1>1, <1>2, PTL DEF Spec, ConflictsAreReal

(* What a restore that commits stores. *)
LEMMA RestoreSaved ==
  ASSUME GraphInv, WriterInv, tx # NoTx, Restoring, Commit
  PROVE  /\ Revision' = Revision + 1
         /\ history'[Revision'].graph = history[tx.source].graph
         /\ history'[Revision'].product = [history[tx.source].product EXCEPT !.deleted = FALSE]
<1> DEFINE e == [kind |-> tx.kind, source |-> tx.source, product |-> tx.product,
                 graph |-> GraphOf(rows)]
<1>1. Sound(tx.product, rows)
  BY CommitNotRefused DEF Commit
<1>2. history' = Append(history, e)
  BY <1>1 DEF Commit, Save
<1>3. GraphOf(rows) = tx.graph
  BY AtCommit DEF Commit
<1>4. e.graph = tx.graph /\ e.product = tx.product
  BY <1>3
<1> HIDE DEF e
<1>5. Revision' = Revision + 1 /\ history'[Revision'] = e
  BY <1>2 DEF GraphInv, HistoryInv, Revision
<1> QED
  BY <1>4, <1>5 DEF Restoring

LEMMA RestoreEnds ==
  ASSUME GraphInv, WriterInv, [Next]_vars, tx # NoTx, tx' = NoTx, tx.kind = "RESTORE",
         outcome'.result # "crashed"
  PROVE  \/ /\ outcome'.result = "conflict"
            /\ history[tx.source].product.slug \in slugsTaken
         \/ /\ Revision' = Revision + 1
            /\ history'[Revision'].graph = history[tx.source].graph
            /\ history'[Revision'].product = [history[tx.source].product EXCEPT !.deleted = FALSE]
<1>1. Restoring
  BY DEF GraphInv, TxInv, Editing
<1>2. tx.product.slug = history[tx.source].product.slug
  <2> DEFINE q == history[tx.source].product
  <2>1. tx.source \in DOMAIN history
    BY <1>1 DEF Restoring, GraphInv, HistoryInv, Revision
  <2>2. history[tx.source] \in Snapshot
    BY <2>1 DEF GraphInv, HistoryInv
  <2>3. q \in Product /\ tx.product = [q EXCEPT !.deleted = FALSE]
    BY <1>1, <2>2 DEF Snapshot, Restoring
  <2> QED
    BY <2>3 DEF Product
<1>3. ~Crash
  BY DEF Crash, RollBack, Told
<1>4. CASE Commit
  BY <1>1, <1>4, RestoreSaved
<1> QED
  BY <1>1, <1>2, <1>3, <1>4, TxEnds

(* No restore is refused, and none meets a unique key but that of its slug *)
(* when another product has taken it; what it leaves is the revision it    *)
(* restored, under its status and slug                                     *)
(* (product-command.service.ts 188-222, 236-245).                          *)
THEOREM RestoreIsExactCorrect == Spec => RestoreIsExact
<1>1. Spec => [](GraphInv /\ WriterInv)
  BY GraphInvariant, WriterInvariant, PTL
<1>2. ASSUME GraphInv, WriterInv, [Next]_vars
      PROVE  outcome' # [kind |-> "RESTORE", result |-> "refused"]
  BY <1>2, WriterStep DEF WriterInv, ToldInv
<1>3. GraphInv /\ WriterInv /\ [Next]_vars =>
        [/\ outcome' # [kind |-> "RESTORE", result |-> "refused"]
         /\ tx # NoTx /\ tx' = NoTx /\ tx.kind = "RESTORE" /\ outcome'.result # "crashed" =>
              LET source == history[tx.source]
              IN  \/ /\ outcome'.result = "conflict"
                     /\ source.product.slug \in slugsTaken
                  \/ /\ Revision' = Revision + 1
                     /\ history'[Revision'].graph = source.graph
                     /\ history'[Revision'].product = [source.product EXCEPT !.deleted = FALSE]]_vars
  BY <1>2, RestoreEnds
<1> QED
  BY <1>1, <1>3, PTL DEF Spec, RestoreIsExact
===============================================================================
