-------------------------- MODULE DirectoryListings --------------------------
(***************************************************************************)
(* The listings of the board's folders that CanmvExplorer of               *)
(* explorer/treeProvider.ts keeps, and what must be true of them whatever  *)
(* the tree (Explorer) does.                                               *)
(***************************************************************************)
EXTENDS Naturals, Sequences

CONSTANTS
  Dirs, Root,
  Pages,         \* pages of each folder
  MaxListings    \* bound: DirectoryListing objects at a time

NoListing == 0
Ids == 1 .. MaxListings

ASSUME ExplorerAssumption ==
  Root \in Dirs /\ Pages \in [Dirs -> Nat \ {0}] /\ MaxListings \in Nat

VARIABLES
  generation, listings,
  active,        \* the listing that may use the board's directory cursor
  listing        \* the DirectoryListing objects, by identity

IsCurrentListing(i) ==
  listing[i].generation = generation /\ listings[listing[i].dir] = i

-----------------------------------------------------------------------------
(* What a folder's listing holds are its pages in order, none twice, and   *)
(* it goes on behind the last one, whichever folders were visited, left    *)
(* and refreshed in between; a listing that is complete, neither failed    *)
(* nor cut short by a blocked request, is whole.                           *)
PagesInOrder ==
  \A d \in Dirs : listings[d] # NoListing =>
    LET l == listing[listings[d]] IN
    /\ l.dir = d
    /\ l.entries = [k \in 1 .. Len(l.entries) |-> k]
    /\ l.next = Len(l.entries)
    /\ l.complete /\ ~l.error /\ ~l.cut => Len(l.entries) = Pages[d]

(* The firmware has one directory cursor: no two folders page through it.  *)
(* Only the selected folder may have a page on the way that it would use,  *)
(* and a folder that lost the selection asks for no further page.          *)
OneCursor ==
  \A i \in Ids : listing[i].load # "no" /\ IsCurrentListing(i) => i = active
==============================================================================
