------------------------------ MODULE Explorer ------------------------------
(***************************************************************************)
(* The tree of the board's files: explorer/treeProvider.ts.  A folder is   *)
(* listed page by page; VS Code asks for the children of a folder when it  *)
(* is expanded and whenever the provider fires for it.  The firmware has   *)
(* one directory cursor, so one listing at a time owns the requests.       *)
(*                                                                         *)
(* A page is its number.  A listing and the operation that loads it share  *)
(* an identity: a listing is selected at most once while it is incomplete. *)
(***************************************************************************)
EXTENDS Naturals, Sequences, FiniteSets, DirectoryListings

CONSTANT MaxEvents     \* bound: what the user and the rest of the extension do
ASSUME EventsAssumption == MaxEvents \in Nat

VARIABLES
  up,            \* connected and fileExplorerSupported
  blocked,       \* explorerCanBrowse is false although the tree is displayed
  cancelled,     \* CanmvExplorer, with what DirectoryListings declares
  background,    \* operations with a backgroundLoad
  requests,      \* page requests in FileService's queue, by listing
  expanded, wanted, calls, shown,            \* VS Code's view
  events         \* bound

provider == <<generation, listings, cancelled, active, listing, background, requests>>
view == <<expanded, wanted, calls, shown>>
vars == <<up, blocked, provider, view, events>>

ListingOf(d) == [dir |-> d, entries |-> <<>>, next |-> 0, complete |-> FALSE,
                  generation |-> generation, load |-> "no", error |-> FALSE, cut |-> FALSE]

(* The children of a folder end with a message when its listing failed.    *)
Message == "message"
Children(l) == [pages |-> l.entries, message |-> IF l.error THEN Message ELSE ""]
OnlyMessage == [pages |-> <<>>, message |-> Message]
NoChildren  == [pages |-> <<>>, message |-> ""]

Init ==
  /\ up = FALSE /\ blocked = FALSE
  /\ generation = 0 /\ cancelled = {} /\ active = NoListing
  /\ listings = [d \in Dirs |-> NoListing]
  /\ listing = [i \in Ids |-> ListingOf(Root)]
  /\ background = {} /\ requests = <<>>
  /\ expanded = {Root} /\ wanted = {Root}
  /\ calls = [d \in Dirs |-> NoListing]
  /\ shown = [d \in Dirs |-> NoChildren]
  /\ events = 0

Event == events < MaxEvents /\ events' = events + 1

(* Objects that a call or a page on its way refers to, and those that      *)
(* nothing refers to any more.                                             *)
Live   == {i \in Ids : i \in background \/ listing[i].load # "no" \/ \E d \in Dirs : calls[d] = i}
Unused == {i \in Ids \ Live : active # i /\ \A d \in Dirs : listings[d] # i}

-----------------------------------------------------------------------------
IsActiveListing(i) == active = i /\ IsCurrentListing(i)

InProgress(d) ==
  active # NoListing /\ listing[active].dir = d /\ ~listing[active].complete /\ IsActiveListing(active)

(* Mutant: a page that is on its way is requested again. *)
RequestAgain(ls, i) ==
  /\ listing' = [ls EXCEPT ![i].load = IF blocked THEN "blocked" ELSE "queued"]
  /\ requests' = IF blocked THEN requests ELSE Append(requests, [id |-> i, offset |-> ls[i].next])

(* loadNextPage up to its await, for listing i of ls: a page on its way is *)
(* shared; a request made while file requests are blocked is answered with *)
(* no entries at once.                                                     *)
LoadNextPage(ls, i) ==
  LET asks == ls[i].load = "no"
  IN  /\ listing' = [ls EXCEPT ![i].load = IF ~asks THEN @ ELSE IF blocked THEN "blocked" ELSE "queued"]
      /\ requests' = IF asks /\ ~blocked THEN Append(requests, [id |-> i, offset |-> ls[i].next]) ELSE requests

-----------------------------------------------------------------------------
(* Refreshing.                                                             *)

Refresh ==
  /\ generation' = generation + 1
  /\ listings' = [d \in Dirs |-> NoListing]
  /\ cancelled' = {} /\ active' = NoListing
  /\ listing' = [i \in Ids |-> IF i \in Live THEN listing[i] ELSE ListingOf(Root)]
  /\ wanted' = expanded
  /\ UNCHANGED <<background, requests, expanded, calls, shown>>

SetConnectionState ==
  /\ IF up THEN Event ELSE UNCHANGED events
  /\ up' = ~up
  /\ Refresh
  /\ UNCHANGED blocked

RefreshExplorer ==
  /\ Event
  /\ up /\ ~blocked
  /\ Refresh
  /\ UNCHANGED <<up, blocked>>

(* A script, a connection step or a pause of the file requests begins or   *)
(* ends; the last tree stays visible.                                      *)
SetBlocked ==
  /\ Event
  /\ blocked' = ~blocked
  /\ UNCHANGED <<up, provider, view>>

-----------------------------------------------------------------------------
(* The user expands a folder, for the first time or again.                 *)
ResumeListing(d) ==
  /\ Event
  /\ d # Root
  /\ expanded' = expanded \cup {d} /\ wanted' = wanted \cup {d}
  /\ cancelled' = cancelled \ {d}
  /\ UNCHANGED <<up, blocked, generation, listings, active, listing, background, requests,
                 calls, shown>>

-----------------------------------------------------------------------------
(* getChildren.                                                            *)

(* Mutant: a folder keeps the cursor when another is selected. *)
CancelsNothing(d) == FALSE

(* cancelListing of the operation that owned the cursor: what a partial    *)
(* listing holds is forgotten, the folder is empty until it is resumed.    *)
Resets(d) ==
  /\ active # NoListing /\ active # listings[d]
  /\ ~listing[active].complete
  /\ listings[listing[active].dir] = active

Cancelled(d) ==
  IF Resets(d) THEN [listing EXCEPT ![active].entries = <<>>, ![active].error = FALSE] ELSE listing

Forgotten(d) ==
  IF Resets(d) THEN [listings EXCEPT ![listing[active].dir] = NoListing] ELSE listings

Others(d) == IF Resets(d) THEN {listing[active].dir} ELSE {}

Answered(d, children) ==
  /\ shown' = [shown EXCEPT ![d] = children]
  /\ calls' = [calls EXCEPT ![d] = NoListing]

(* getDirectoryChildren up to its first await.                             *)
GetDirectoryChildren(d) ==
  LET fresh == listings[d] = NoListing
      i     == IF fresh THEN CHOOSE j \in Unused : TRUE ELSE listings[d]
      ls    == [Cancelled(d) EXCEPT ![i] = IF fresh THEN ListingOf(d) ELSE @]
      l     == ls[i]
      fired == Others(d) \ {Root}
  IN
  /\ fresh => Unused # {}
  /\ listings' = [Forgotten(d) EXCEPT ![d] = i]
  /\ cancelled' = cancelled \cup Others(d)
  /\ active' = IF ~l.complete THEN i ELSE IF active = i THEN active ELSE NoListing
  /\ UNCHANGED generation
  /\ \/ /\ l.complete
        /\ Answered(d, Children(l))
        /\ wanted' = (wanted \ {d}) \cup fired
        /\ listing' = ls
        /\ UNCHANGED <<background, requests>>
     \/ /\ ~l.complete /\ l.entries = <<>>            \* awaits the first page
        /\ LoadNextPage(ls, i)
        /\ calls' = [calls EXCEPT ![d] = i]
        /\ wanted' = (wanted \ {d}) \cup fired
        /\ UNCHANGED <<background, shown>>
     \/ /\ ~l.complete /\ l.entries # <<>>
        /\ Answered(d, Children(l))
        /\ IF i \in background
           THEN /\ listing' = ls
                /\ wanted' = (wanted \ {d}) \cup fired
                /\ UNCHANGED <<background, requests>>
           ELSE /\ LoadNextPage(ls, i)                \* loadRemainingPages fires
                /\ background' = background \cup {i}
                /\ wanted' = wanted \cup fired

(* VS Code asks for the children of d.                                     *)
GetChildren(d) ==
  /\ d \in wanted
  /\ UNCHANGED <<up, blocked, expanded, events>>
  /\ \/ /\ ~up
        /\ Answered(d, OnlyMessage)
        /\ wanted' = wanted \ {d}
        /\ UNCHANGED provider
     \/ /\ up /\ d # Root /\ d \in cancelled
        /\ Answered(d, NoChildren)
        /\ wanted' = wanted \ {d}
        /\ UNCHANGED provider
     \/ /\ up /\ (d = Root \/ d \notin cancelled)
        /\ GetDirectoryChildren(d)

-----------------------------------------------------------------------------
(* A page arrives: the rest of loadNextPage, then of its caller, which is  *)
(* either getDirectoryChildren or the loop of loadRemainingPages.          *)

Loaded(i, offset, result) ==
  LET l    == [listing[i] EXCEPT !.load = "no"]
      page == offset + 1
  IN  IF ~IsCurrentListing(i) THEN l
      ELSE IF result = "page"
      THEN [l EXCEPT !.entries = Append(@, page), !.next = page, !.complete = page = Pages[l.dir]]
      ELSE [l EXCEPT !.complete = TRUE, !.error = result = "failure", !.cut = result = "blocked"]

(* Mutant: the tree is not told of the last page. *)
FiresForMore(i, more) == more

Fires(i, more) == more \/ (IsActiveListing(i) /\ i \in background)

Settle(i, offset, result) ==
  LET d     == listing[i].dir
      new   == Loaded(i, offset, result)
      first == i \notin background /\ calls[d] = i
      more  == IsActiveListing(i) /\ ~new.complete
  IN
  /\ UNCHANGED <<up, blocked, expanded, events, generation, listings, cancelled, active>>
  /\ IF more
     THEN LET queue == IF result = "blocked" THEN requests ELSE Tail(requests) IN
          /\ listing' = [listing EXCEPT ![i] = [new EXCEPT !.load = IF blocked THEN "blocked" ELSE "queued"]]
          /\ requests' = IF blocked THEN queue ELSE Append(queue, [id |-> i, offset |-> new.next])
          /\ background' = background \cup {i}
     ELSE /\ listing' = [listing EXCEPT ![i] = new]
          /\ requests' = IF result = "blocked" THEN requests ELSE Tail(requests)
          /\ background' = background \ {i}
  /\ wanted' = IF Fires(i, more) THEN wanted \cup {d} ELSE wanted
  /\ IF ~first THEN UNCHANGED <<shown, calls>>
     ELSE Answered(d, IF result = "failure" /\ IsActiveListing(i) THEN OnlyMessage ELSE Children(new))

PageArrives ==
  /\ requests # <<>>
  /\ \E result \in {"page", "failure"} : Settle(Head(requests).id, Head(requests).offset, result)

BlockedPage(i) ==
  /\ listing[i].load = "blocked"
  /\ Settle(i, listing[i].next, "blocked")

-----------------------------------------------------------------------------
Next ==
  \/ SetConnectionState \/ RefreshExplorer \/ SetBlocked
  \/ \E d \in Dirs : ResumeListing(d) \/ GetChildren(d)
  \/ PageArrives
  \/ \E i \in Ids : BlockedPage(i)

Spec == Init /\ [][Next]_vars

(* VS Code answers what is fired and the queue of file requests moves on.  *)
FairSpec ==
  /\ Spec
  /\ \A d \in Dirs : WF_vars(GetChildren(d))
  /\ WF_vars(PageArrives)
  /\ \A i \in Ids : WF_vars(BlockedPage(i))
-----------------------------------------------------------------------------
(* Not so when a request was blocked while the tree was displayed: the     *)
(* folder then looks as if it were listed to its end.                      *)
NothingIsCut ==
  \A d \in Dirs : listings[d] # NoListing =>
    LET l == listing[listings[d]] IN l.complete /\ ~l.error => Len(l.entries) = Pages[d]

(* Once the user and the board leave it alone the tree shows every folder  *)
(* that is expanded and was not cancelled as far as its listing came, and  *)
(* that listing has ended.                                                 *)
TreeIsShown ==
  \A d \in Dirs :
    <>[](up /\ d \in expanded \ cancelled =>
           /\ listings[d] # NoListing
           /\ listing[listings[d]].complete
           /\ shown[d].pages = listing[listings[d]].entries)
=============================================================================
