------------------------------- MODULE NaipCatalog -----------------------------
(***************************************************************************)
(* A search of the NAIP catalog for one year over the county               *)
(* (imagery/naip.py): the pages are followed from link to link, at most    *)
(* MAX_PAGES of them, and every entry of them is kept that is usable: an   *)
(* item that is listed twice is kept twice.                                *)
(*                                                                         *)
(* A catalog is what the service answers: a sequence of pages, the first   *)
(* one first.  A page has the items it lists, in a sequence, and the       *)
(* number of the page its next link names, 0 without one.  Of an item,     *)
(* `complete` is whether it has every field, `meets` whether it meets the  *)
(* footprint, and `year` the year the catalog gives it, TRUE for the one   *)
(* searched.                                                               *)
(***************************************************************************)
EXTENDS Naturals, Sequences, FiniteSets

CONSTANTS
    Items,      \* the identifiers of catalog items
    MAX_PAGES,
    MaxItems    \* NAIP_MAX_INGEST_GB, in entries

ListedItem == [id : Items, complete : BOOLEAN, meets : BOOLEAN, year : BOOLEAN]

Catalog(c) ==
    /\ 1 \in DOMAIN c
    /\ \A n \in DOMAIN c : /\ c[n].lists \in Seq(ListedItem)
                           /\ c[n].next \in DOMAIN c \cup {0}

\* What is incomplete, beside the county or of another year is left out.
Usable(item) == item.complete /\ item.meets /\ item.year

\* The page to request after n requests, 0 when there is none.
Follow(c) ==
    LET url[n \in 0..MAX_PAGES] ==
            IF n = 0 THEN 1
            ELSE IF url[n - 1] = 0 THEN 0 ELSE c[url[n - 1]].next
    IN  url

\* The pages that are read.
Read(c) == {Follow(c)[n] : n \in 0..MAX_PAGES - 1} \ {0}

\* Faulty variant: what the first MAX_PAGES pages list is taken for the whole.
SearchEndsEarly(c) == TRUE

\* "more than MAX_PAGES result pages"
SearchEnds(c) == Follow(c)[MAX_PAGES] = 0

\* An entry is a page and a place on it.
ItemAt(c, e) == c[e[1]].lists[e[2]]

Usables(c, pages) ==
    {e \in UNION {{p} \X DOMAIN c[p].lists : p \in pages} : Usable(ItemAt(c, e))}

\* What the search returns, entry by entry.
ItemsFor(c) == Usables(c, Read(c))

\* How often the search returns item i.
Times(c, i) == Cardinality({e \in ItemsFor(c) : ItemAt(c, e).id = i})

\* S has the first page, and every page that a link of one of its pages names.
HoldsLinks(c, S) ==
    /\ 1 \in S
    /\ \A p \in S : c[p].next # 0 => c[p].next \in S

\* The pages that links lead to, and what they list.
Reached(c) ==
    {p \in DOMAIN c : \A S \in SUBSET DOMAIN c : HoldsLinks(c, S) => p \in S}

Listed(c) == {ItemAt(c, e).id : e \in Usables(c, Reached(c))}
================================================================================
