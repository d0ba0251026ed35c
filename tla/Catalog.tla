------------------------------ MODULE Catalog ------------------------------
(***************************************************************************)
(* The categories of assets, the fields administrators give them, and what *)
(* the assets of the register keep of both (app/modules/assets/service.py):*)
(* an asset stores the name of its category as a label, and a value for    *)
(* each field it was given one for.  Categories and codes are deactivated, *)
(* fields are deleted with their values.                                   *)
(*                                                                         *)
(* Every handler is one step.  Two that run at once may both find a name   *)
(* free, or a laptop category without its OS field, and both add it.       *)
(* That a field is required only asks for a value of whoever names it, and *)
(* is left out.                                                            *)
(***************************************************************************)
EXTENDS Tables

CONSTANTS
    Code,           \* ids of the codes assets are named by (asset_id_definitions)
    CodeName,
    Category, CategoryName,
    LaptopName,     \* the names of categories that are for laptops
    CategoryField, FieldName,
    Item            \* assets

\* "null" is the category of an asset that has none.
ASSUME CatalogConstants ==
    LaptopName \subseteq CategoryName /\ "OS" \in FieldName /\ "null" \notin Category

VARIABLES
    codes, categories, fields,
    items           \* of each asset: its category, its label, and its values

catalogVars == <<codes, categories, fields, items>>

CodeRow == [name : CodeName, active : BOOLEAN]
CatalogCategoryRow == [name : CategoryName, active : BOOLEAN]
FieldRow == [category : Category, name : FieldName, select : BOOLEAN]
\* `given` says that the label was given with the asset, not taken from the category.
ItemRow ==
    [category : Category \cup {"null"}, label : CategoryName \cup {"OTHER"},
     given : BOOLEAN, values : SUBSET CategoryField, deleted : BOOLEAN]

CatalogInit ==
    codes = NoRecords /\ categories = NoRecords /\ fields = NoRecords /\ items = NoRecords

-----------------------------------------------------------------------------
(* Codes. *)

NameFree(table, k, name, among) ==
    \A x \in DOMAIN table \ {k} : x \in among => table[x].name # name

ActiveOf(table) == {k \in DOMAIN table : table[k].active}

CreateCode(k, name) ==
    /\ k \notin DOMAIN codes /\ NameFree(codes, k, name, ActiveOf(codes))
    /\ codes' = Upsert(codes, k, [name |-> name, active |-> TRUE])
    /\ UNCHANGED <<categories, fields, items>>

UpdateCode(k, name) ==
    /\ k \in ActiveOf(codes) /\ NameFree(codes, k, name, ActiveOf(codes))
    /\ codes' = [codes EXCEPT ![k].name = name]
    /\ UNCHANGED <<categories, fields, items>>

DeleteCode(k) ==
    /\ k \in ActiveOf(codes)
    /\ codes' = [codes EXCEPT ![k].active = FALSE]
    /\ UNCHANGED <<categories, fields, items>>

-----------------------------------------------------------------------------
(* Categories and their fields. *)

\* The active categories for laptops; the first by name is looked after.
LaptopCategories(cs) == {c \in ActiveOf(cs) : cs[c].name \in LaptopName}

OsFields(fs, c) == {f \in DOMAIN fs : fs[f].category = c /\ fs[f].name = "OS"}

\* _ensure_laptop_os_field: the field is added, with key f, or made a choice again.
EnsuredOs(cs, fs, f) ==
    IF LaptopCategories(cs) = {} THEN fs
    ELSE LET c == CHOOSE c \in LaptopCategories(cs) : TRUE
         IN  IF OsFields(fs, c) = {}
             THEN Upsert(fs, f, [category |-> c, name |-> "OS", select |-> TRUE])
             ELSE LET o == CHOOSE o \in OsFields(fs, c) : TRUE
                  IN  [fs EXCEPT ![o].select = TRUE]

\* Names of deactivated categories stay taken.
CreateCategory(c, name, f) ==
    /\ c \notin DOMAIN categories /\ f \notin DOMAIN fields
    /\ NameFree(categories, c, name, DOMAIN categories)
    /\ categories' = Upsert(categories, c, [name |-> name, active |-> TRUE])
    /\ fields' = IF name \in LaptopName THEN EnsuredOs(categories', fields, f) ELSE fields
    /\ UNCHANGED <<codes, items>>

\* Listing the categories, the choices of forms or the operating systems repairs
\* the field too.
ListCategories(f) ==
    /\ f \notin DOMAIN fields
    /\ fields' = EnsuredOs(categories, fields, f)
    /\ UNCHANGED <<codes, categories, items>>

Relabelled(c, name) ==
    [i \in DOMAIN items |->
        IF items[i].category = c /\ ~items[i].deleted
        THEN [items[i] EXCEPT !.label = name, !.given = FALSE] ELSE items[i]]

\* Mutant: assets keep the label of the old name.
UpdateCategoryAlone(c, name, f) ==
    /\ c \in ActiveOf(categories) /\ f \notin DOMAIN fields
    /\ NameFree(categories, c, name, DOMAIN categories)
    /\ categories' = [categories EXCEPT ![c].name = name]
    /\ fields' = IF name \in LaptopName THEN EnsuredOs(categories', fields, f) ELSE fields
    /\ UNCHANGED <<codes, items>>

UpdateCategory(c, name, f) ==
    /\ c \in ActiveOf(categories) /\ f \notin DOMAIN fields
    /\ NameFree(categories, c, name, DOMAIN categories)
    /\ categories' = [categories EXCEPT ![c].name = name]
    /\ items' = Relabelled(c, name)
    /\ fields' = IF name \in LaptopName THEN EnsuredOs(categories', fields, f) ELSE fields
    /\ UNCHANGED codes

DeleteCategory(c) ==
    /\ c \in ActiveOf(categories)
    /\ \A i \in DOMAIN items : items[i].category = c => items[i].deleted
    /\ categories' = [categories EXCEPT ![c].active = FALSE]
    /\ UNCHANGED <<codes, fields, items>>

\* "OS" is reserved for laptops.
Permitted(c, name) == name = "OS" => categories[c].name \in LaptopName

CreateCategoryField(f, c, name) ==
    /\ f \notin DOMAIN fields /\ c \in ActiveOf(categories) /\ Permitted(c, name)
    /\ fields' = Upsert(fields, f, [category |-> c, name |-> name, select |-> FALSE])
    /\ UNCHANGED <<codes, categories, items>>

\* The category of the field may have been deactivated.
UpdateCategoryField(f, name, select) ==
    /\ f \in DOMAIN fields /\ Permitted(fields[f].category, name)
    /\ fields' = [fields EXCEPT ![f] =
          [category |-> @.category, name |-> name, select |-> select]]
    /\ UNCHANGED <<codes, categories, items>>

\* The database deletes the values with the field.
DeleteCategoryField(f) ==
    /\ f \in DOMAIN fields
    /\ fields' = Without(fields, {f})
    /\ items' = [i \in DOMAIN items |-> [items[i] EXCEPT !.values = @ \ {f}]]
    /\ UNCHANGED <<codes, categories>>

-----------------------------------------------------------------------------
(* Assets. *)

\* The label of an asset whose category is looked up, active or not.
LabelOf(c) == IF c \in DOMAIN categories THEN categories[c].name ELSE "OTHER"

\* upsert_asset: the values given replace those there were, and may be of any
\* field of any category.
SaveItem(i, c, given, values) ==
    /\ i \in DOMAIN items => ~items[i].deleted
    /\ c \in DOMAIN categories \cup {"null"}
    /\ values \subseteq DOMAIN fields
    /\ items' = Upsert(items, i,
          [category |-> c, label |-> IF given = "null" THEN LabelOf(c) ELSE given,
           given |-> given # "null", values |-> values, deleted |-> FALSE])
    /\ UNCHANGED <<codes, categories, fields>>

\* bulk_create_assets: the category is active.
CreateItem(i, c, values) ==
    /\ i \notin DOMAIN items
    /\ c \in ActiveOf(categories) \cup {"null"}
    /\ values \subseteq DOMAIN fields
    /\ items' = Upsert(items, i,
          [category |-> c, label |-> LabelOf(c), given |-> FALSE, values |-> values,
           deleted |-> FALSE])
    /\ UNCHANGED <<codes, categories, fields>>

DeleteItem(i) ==
    /\ i \in DOMAIN items /\ ~items[i].deleted
    /\ items' = [items EXCEPT ![i].deleted = TRUE]
    /\ UNCHANGED <<codes, categories, fields>>

CatalogNext ==
    \/ \E k \in Code :
          \/ \E name \in CodeName : CreateCode(k, name) \/ UpdateCode(k, name)
          \/ DeleteCode(k)
    \/ \E c \in Category :
          \/ \E name \in CategoryName, f \in CategoryField :
                CreateCategory(c, name, f) \/ UpdateCategory(c, name, f)
          \/ DeleteCategory(c)
          \/ \E f \in CategoryField, name \in FieldName : CreateCategoryField(f, c, name)
    \/ \E f \in CategoryField :
          \/ ListCategories(f)
          \/ \E name \in FieldName, select \in BOOLEAN : UpdateCategoryField(f, name, select)
          \/ DeleteCategoryField(f)
    \/ \E i \in Item :
          \/ \E c \in Category \cup {"null"}, values \in SUBSET CategoryField :
                \/ \E given \in CategoryName \cup {"null"} : SaveItem(i, c, given, values)
                \/ CreateItem(i, c, values)
          \/ DeleteItem(i)

CatalogSpec == CatalogInit /\ [][CatalogNext]_catalogVars

-----------------------------------------------------------------------------
CatalogTypeOK ==
    /\ Table(codes, Code, CodeRow)
    /\ Table(categories, Category, CatalogCategoryRow)
    /\ Table(fields, CategoryField, FieldRow)
    /\ Table(items, Item, ItemRow)

\* The register reads what the catalog says: a live asset that was not given a
\* label of its own carries the present name of its category, through every
\* renaming of the category and change of the asset; no value outlives its
\* field; and no two codes on offer, nor any two categories, share a name.
CatalogIsConsistent ==
    /\ \A i \in DOMAIN items :
          /\ ~items[i].deleted /\ ~items[i].given => items[i].label = LabelOf(items[i].category)
          /\ items[i].values \subseteq DOMAIN fields
    /\ \A c \in DOMAIN categories : NameFree(categories, c, categories[c].name, DOMAIN categories)
    /\ \A k \in ActiveOf(codes) : NameFree(codes, k, codes[k].name, ActiveOf(codes))
=============================================================================
