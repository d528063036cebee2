------------------------------ MODULE MCCatalogGraph ----------------------------
(* CatalogGraph with two option codes, values that swap, and names chosen  *)
(* to meet the parking keys.                                               *)
EXTENDS CatalogGraph

CONSTANTS
  color, size,               \* option codes
  red, blue,                 \* value codes
  tint, fit, wide0,          \* names; wide0 is '!0' in other letters
  dark, Dark,                \* names that differ in case only
  skuA, home, sale, Sale,    \* a SKU, a category, two tags
  here, there                \* slugs

CollationDef ==
  [t \in {color, size, red, blue, tint, fit, wide0, dark, Dark, skuA, home, sale, Sale} |->
     CASE t = wide0 -> 0
       [] t = Dark  -> dark
       [] t = Sale  -> sale
       [] OTHER     -> t]

CodesDef == {color, size, red, blue, home}

LimitsDef ==
  [options |-> 2, optionValues |-> 2, items |-> 3, categories |-> 1, tags |-> 1]

(* Off sale every status is like every other.                              *)
ChangesDef ==
  {[status |-> "PAUSED", slug |-> here], [status |-> "ACTIVE", slug |-> there]}

Value(c, n) == [id |-> 0, code |-> c, name |-> n]
Option(c, n, req, vs) == [id |-> 0, code |-> c, name |-> n, required |-> req, values |-> vs]
Item(id, sku, onSale, sel) ==
  [id |-> id, sku |-> sku, sale |-> onSale, sig |-> NoSignature, sel |-> sel]
Graph(os, is, cs, ts) == [options |-> os, items |-> is, categories |-> cs, tags |-> ts]

OneColor(n)  == Option(color, n, TRUE, <<Value(red, tint), Value(blue, dark)>>)
Swapped(n)   == Option(color, n, TRUE, <<Value(blue, tint), Value(red, dark)>>)
OneSize(n)   == Option(size, n, FALSE, <<Value(red, wide0)>>)
Red  == {<<color, red>>}
Blue == {<<color, blue>>}
RedSmall == {<<color, red>>, <<size, red>>}

DraftsDef == {
  Graph(<<>>, <<>>, <<>>, <<>>),
  Graph(<<OneColor(tint), OneSize(fit)>>,
        <<Item(0, skuA, "ALLOW", Red), Item(0, NoSku, "DENY", Blue)>>, <<home>>, <<sale>>),
  \* names of the options and of the values change places, items are new
  Graph(<<OneSize(tint), Swapped(fit)>>,
        <<Item(0, NoSku, "ALLOW", RedSmall)>>, <<>>, <<Sale>>),
  \* names are parking keys; the items change places and selections
  Graph(<<OneColor(wide0), OneSize(1)>>,
        <<Item(2, NoSku, "ALLOW", Red), Item(1, NoSku, "ALLOW", Blue)>>, <<home>>, <<sale>>),
  \* an option and a value are gone, an item is named that may be gone
  Graph(<<Option(color, fit, TRUE, <<Value(blue, tint)>>)>>,
        <<Item(1, NoSku, "DENY", Blue)>>, <<home>>, <<>>),
  \* stored under names the database takes for one
  Graph(<<OneColor(dark), OneSize(Dark)>>, <<>>, <<>>, <<>>)}

ItemDraftsDef == {
  Item(0, NoSku, "ALLOW", Blue),
  Item(0, skuA, "DENY", Red)}
===============================================================================
