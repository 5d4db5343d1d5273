--------------------------- MODULE MCAmigaBlocks ---------------------------
(***************************************************************************)
(* AmigaBlocks for TLC.  States that differ in nothing that can be noticed  *)
(* are one to it: what free blocks hold is written over before it is read,  *)
(* so is what a block holds on the disk that an open file has newer in      *)
(* memory, and it makes no difference which of the free blocks is the       *)
(* first.  A block goes by its place in the files instead of its number:    *)
(* header, lists and data of the one, then of the other.                    *)
(***************************************************************************)
EXTENDS AmigaBlocks

CONSTANTS Large, Small

Sizes == [f \in Files |-> IF f = Large THEN 9 ELSE 1]

PlacesIn(d, lists) == lists \o Listed(d, lists)
OpenPlaces(s) == PlacesIn(OwnDisk(s), OwnLists(s))
PlacesOf(f) ==
  IF head[f] = 0 THEN <<>>
  ELSE IF IsOpen(f) THEN OpenPlaces(Start(open[f])) ELSE PlacesIn(disk, Lists(disk, head[f]))
Numbers(places) ==
  [b \in 0 .. N |-> IF b \in Range(places) THEN CHOOSE i \in DOMAIN places : places[i] = b
                    ELSE IF b = 0 THEN 0 ELSE N + 1]
Renumbered(at, block) ==
  [block EXCEPT !.next = at[@], !.first = at[@], !.ext = at[@], !.list = [j \in 1 .. M |-> at[@[j]]]]
RenumberedHandle(at, h) ==
  IF h = Closed THEN h
  ELSE [h EXCEPT !.hdr = Renumbered(at, @), !.data = Renumbered(at, @), !.ext = Renumbered(at, @),
                 !.key = at[@], !.cur = at[@], !.extKey = at[@]]

\* A block as it is on the disk; of those a handle writes, whether it has to.
Shown(h, b, at) ==
  IF h = Closed \/ ~MayWrite(h) THEN Renumbered(at, disk[b])
  ELSE IF b = h.key THEN TRUE
  ELSE IF b = h.cur THEN disk[b] = h.data
  ELSE IF b = h.extKey THEN disk[b] = h.ext ELSE Renumbered(at, disk[b])
ShownAll(h, places, at) == [i \in DOMAIN places |-> Shown(h, places[i], at)]
FileView(f, places, at) ==
  <<at[head[f]], file[f], ShownAll(open[f], places, at), RenumberedHandle(at, open[f])>>
ViewOf(p, q, at) ==
  <<ofs, Len(p) + Len(q) = Cardinality(used), FileView(Large, p, at), FileView(Small, q, at)>>
ViewFor(p, q) == ViewOf(p, q, Numbers(p \o q))
View == ViewFor(PlacesOf(Large), PlacesOf(Small))
=============================================================================
