-------------------------------- MODULE EvalCache ------------------------------
(***************************************************************************)
(* `ptax-eval fetch` (eval/cli.py, eval/cache.py): the imagery of both     *)
(* years is cached beside the set, one file per catalog item, and a        *)
(* manifest that names the items is written anew after each of them.  A    *)
(* fetch that is run again reuses the items the manifest names, when their *)
(* file is there.                                                          *)
(*                                                                         *)
(* Files are written in place, so a fetch that is cut short leaves a file  *)
(* or the manifest half written.                                           *)
(***************************************************************************)
EXTENDS Naturals

CONSTANTS
    BaseItems, TargetItems   \* the catalog items of each year over the area

ASSUME EvalCacheAssumption == BaseItems \cap TargetItems = {}

VARIABLES
    fetch,      \* how far the command is
    item,       \* the item it is at
    entries,    \* the manifest as the command holds it
    toVisit,    \* the items it has still to visit
    file,       \* file[i]: "absent", "partial" or "whole"
    manifest,   \* [whole: the file is, names: the items it names]
    cutRewriting  \* items whose file was last cut while the manifest named them (history)

evalCache == <<fetch, item, entries, toVisit, file, manifest, cutRewriting>>

Items == BaseItems \cup TargetItems

AnyItem == CHOOSE i \in Items : TRUE

FetchInit ==
    /\ fetch = "idle"
    /\ item = AnyItem
    /\ entries = {}
    /\ toVisit = {}
    /\ file = [i \in Items |-> "absent"]
    /\ manifest = [whole |-> TRUE, names |-> {}]
    /\ cutRewriting = {}

\* A manifest that cannot be parsed stops the command; a missing one is an empty one.
FetchStart ==
    /\ fetch = "idle"
    /\ manifest.whole
    /\ fetch' = "visiting"
    /\ entries' = manifest.names
    /\ toVisit' = Items
    /\ UNCHANGED <<item, file, manifest, cutRewriting>>

\* Faulty variant: any file that is there is reused.
ReusableByFile(i) == file[i] # "absent"

Reusable(i) == i \in entries /\ file[i] # "absent"

\* The base year's items come first.
Visit(i) ==
    /\ fetch = "visiting"
    /\ i \in toVisit
    /\ i \in TargetItems => toVisit \subseteq TargetItems
    /\ toVisit' = toVisit \ {i}
    /\ item' = i
    /\ fetch' = IF Reusable(i) THEN fetch ELSE "clipping"
    /\ UNCHANGED <<entries, file, manifest, cutRewriting>>

\* to_cog() has the clip in a file beside; the COG is written in its own place.
ClipWritten ==
    /\ fetch = "clipping"
    /\ fetch' = "writing"
    /\ file' = [file EXCEPT ![item] = "partial"]
    /\ UNCHANGED <<item, entries, toVisit, manifest, cutRewriting>>

\* fetch_item() is done; write_manifest() begins.
FileWritten ==
    /\ fetch = "writing"
    /\ fetch' = "recording"
    /\ file' = [file EXCEPT ![item] = "whole"]
    /\ entries' = entries \cup {item}
    /\ manifest' = [manifest EXCEPT !.whole = FALSE]
    /\ cutRewriting' = cutRewriting \ {item}
    /\ UNCHANGED <<item, toVisit>>

ManifestWritten ==
    /\ fetch = "recording"
    /\ fetch' = "visiting"
    /\ manifest' = [whole |-> TRUE, names |-> entries]
    /\ UNCHANGED <<item, entries, toVisit, file, cutRewriting>>

FetchEnd ==
    /\ fetch = "visiting"
    /\ toVisit = {}
    /\ fetch' = "idle"
    /\ entries' = {}
    /\ item' = AnyItem
    /\ UNCHANGED <<toVisit, file, manifest, cutRewriting>>

\* The command dies, or an item cannot be read: what was written stays.
FetchCut ==
    /\ fetch # "idle"
    /\ fetch' = "idle"
    /\ cutRewriting' = IF fetch = "writing" /\ item \in manifest.names
                       THEN cutRewriting \cup {item} ELSE cutRewriting
    /\ entries' = {}
    /\ toVisit' = {}
    /\ item' = AnyItem
    /\ UNCHANGED <<file, manifest>>

\* A developer deletes a file of the cache, or the manifest.
Prune ==
    /\ fetch = "idle"
    /\ \/ /\ \E i \in Items : file' = [file EXCEPT ![i] = "absent"]
          /\ UNCHANGED manifest
       \/ /\ manifest' = [whole |-> TRUE, names |-> {}]
          /\ UNCHANGED file
    /\ UNCHANGED <<fetch, item, entries, toVisit, cutRewriting>>

FetchNext ==
    \/ FetchStart \/ ClipWritten \/ FileWritten \/ ManifestWritten \/ FetchEnd \/ FetchCut \/ Prune
    \/ \E i \in Items : Visit(i)

\* `score` and `chips` ask only that the manifest can be parsed and names something.
Readable == manifest.whole /\ manifest.names # {}

\* A file that the manifest names is missing or half written: reading it raises.
Unreadable == \E i \in manifest.names : file[i] # "whole"

--------------------------------------------------------------------------------
(* Properties.                                                             *)

\* A fetch that has visited every item leaves a manifest that names them all and a whole
\* file for each, whatever was cut before it (cli.py:163-171), except where the file of an
\* item that the manifest named had been deleted and its rewriting was cut.
FetchedIsWhole ==
    fetch = "visiting" /\ toVisit = {} =>
        /\ manifest = [whole |-> TRUE, names |-> Items]
        /\ \A i \in Items \ cutRewriting : file[i] = "whole"
================================================================================
