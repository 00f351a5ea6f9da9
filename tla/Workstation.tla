------------------------------ MODULE Workstation ------------------------------
(***************************************************************************)
(* Four parts that run on a developer's machine and share no state: the     *)
(* source index, the renderer's pool of pages, the shelf of browsers, and   *)
(* the observatory of a suite.  They are taken side by side: a behaviour is *)
(* one of one of them, `side`, and the others stand at their start.  The    *)
(* pool's own definitions are this module's; the others' go by their names. *)
(***************************************************************************)
EXTENDS PagePool

CONSTANTS
  Writers, Paths, Primary, Files, Parses, Versions, Absent, Trees, Starts,
  NoIndex, Anything, Nobody, MaxTasks, MaxFaults,    \* the index's
  Users, Renderers, Launches, MaxLeases, MaxDeaths,  \* the shelf's
  Tests, Room, MaxStops                              \* the observatory's

VARIABLES
  side,
  chain, stored, lock, task, tasks, faults, lost, strewn,
  values, shelf, user, leases, deaths,
  run, said, listed, entry, up, meant

indexVars == <<chain, stored, lock, task, tasks, faults, lost, strewn>>
shelfVars == <<values, shelf, user, leases, deaths>>
watchVars == <<run, said, listed, entry, up, meant>>
allVars == <<side, indexVars, vars, shelfVars, watchVars>>

Index == INSTANCE SourceIndex WITH Nothing <- NoIndex, begun <- tasks
Shelf == INSTANCE BrowserShelf WITH begun <- leases
Watch == INSTANCE Observatory WITH Kept <- Room

(* What the constants must be, of every part.                               *)
PartParameters ==
  Index!Parameters /\ Parameters /\ Shelf!Parameters /\ Watch!Parameters

StartOfAll ==
  /\ side \in {"index", "pool", "shelf", "watch"}
  /\ Index!Init /\ Init /\ Shelf!Init /\ Watch!Init
  /\ side # "index" => chain[Primary] = NoIndex

StepOfOne ==
  \/ /\ side = "index" /\ Index!Next
     /\ UNCHANGED <<side, vars, shelfVars, watchVars>>
  \/ /\ side = "pool" /\ Next
     /\ UNCHANGED <<side, indexVars, shelfVars, watchVars>>
  \/ /\ side = "shelf" /\ Shelf!Next
     /\ UNCHANGED <<side, indexVars, vars, watchVars>>
  \/ /\ side = "watch" /\ Watch!Next
     /\ UNCHANGED <<side, indexVars, vars, shelfVars>>

SideBySide == StartOfAll /\ [][StepOfOne]_allVars
-----------------------------------------------------------------------------
(* The properties of the other parts, each stated and explained in its      *)
(* part's module; the pool's are checked as they stand there.               *)

On(part, property) == side = part => property

(* Every part is well typed.                                                *)
TypesOK == Index!TypeOK /\ TypeOK /\ Shelf!TypeOK /\ Watch!TypeOK

NamedSegmentsAreStored == On("index", Index!NamedSegmentsAreStored)
NothingIsLeftBehind == On("index", Index!NothingIsLeftBehind)
IndexesAreRegisters == Index!IndexesAreRegisters

LeasedIsNotClosed == On("shelf", Shelf!LeasedIsNotClosed)
NothingIsLeftOpen == On("shelf", Shelf!NothingIsLeftOpen)
OneOfAKey == On("shelf", Shelf!OneOfAKey)

ListsWhatStands == On("watch", Watch!ListsWhatStands)
SpentWhereGiven == Watch!SpentWhereGiven
=============================================================================
