-------------------------------- MODULE PagePool --------------------------------
(***************************************************************************)
(* The renderer's pages (packages/playwright, page-pool.ts): at most Limit  *)
(* renders paint at once, whatever they paint; a page belongs to one        *)
(* viewport and is kept, when its render is over, for the next one of it.   *)
(*                                                                         *)
(* Code between two awaits is one step.  The idle pages of a viewport are a *)
(* list object the map refers to; an acquire that finds none makes a list   *)
(* of its own, and puts it in the map once its page is open.                *)
(***************************************************************************)
EXTENDS Integers, Sequences, FiniteSets

CONSTANTS
  Renders,    \* callers, each at one render at a time
  Viewports,  \* what a page is opened for
  Limit,      \* the pool's limit
  NoList,     \* a viewport with no list of idle pages
  MaxRenders  \* bound of the renders begun

(* What the constants must be.                                              *)
Parameters ==
  /\ IsFiniteSet(Renders)
  /\ Limit \in Nat \ {0} /\ MaxRenders \in Nat
  /\ NoList \notin Nat

VARIABLES
  leased,   \* slots taken
  waiting,  \* acquires in line for one, oldest first
  render,   \* what each caller is doing
  idle,     \* the list each viewport's idle pages are in
  lists,    \* the lists made so far, each a stack of pages
  pages,    \* the viewport of each page opened and handed out so far
  halfOpen, \* of each viewport, the contexts a failed open left open
  failures, \* of each viewport, the opens that failed, for the bound on pages
  begun     \* renders begun, for the bound

opens == <<halfOpen, failures>>
vars == <<leased, waiting, render, idle, lists, pages, opens, begun>>

Nothing == [pc |-> "none"]
At(pc, v) == [pc |-> pc, viewport |-> v]
Opening(v, free) == [pc |-> "opening", viewport |-> v, free |-> free]
Painting(v, page) == [pc |-> "painting", viewport |-> v, page |-> page]

In(pc) == {r \in Renders : render[r].pc = pc}

Init ==
  /\ leased = 0 /\ waiting = <<>> /\ begun = 0
  /\ render = [r \in Renders |-> Nothing]
  /\ idle = [v \in Viewports |-> NoList]
  /\ lists = <<>> /\ pages = <<>>
  /\ halfOpen = [v \in Viewports |-> 0] /\ failures = [v \in Viewports |-> 0]

-----------------------------------------------------------------------------
(* Mutant: the page is looked at in its list and left there.                *)
TakeWithoutPop(r, v) ==
  LET own == idle[v] = NoList
      free == IF own THEN Len(lists) + 1 ELSE idle[v]
      found == IF own THEN <<>> ELSE lists[free]
  IN /\ leased' = leased + 1
     /\ IF found = <<>>
        THEN /\ render' = [render EXCEPT ![r] = Opening(v, free)]
             /\ lists' = IF own THEN Append(lists, <<>>) ELSE lists
        ELSE /\ render' = [render EXCEPT ![r] = Painting(v, found[Len(found)])]
             /\ UNCHANGED lists
     /\ UNCHANGED <<idle, pages>>
(* The part of acquire after the loop: a slot, and a page of the viewport   *)
(* if one is idle, or a new one to wait for.                                *)
Take(r, v) ==
  LET own == idle[v] = NoList
      free == IF own THEN Len(lists) + 1 ELSE idle[v]
      found == IF own THEN <<>> ELSE lists[free]
  IN /\ leased' = leased + 1
     /\ IF found = <<>>
        THEN /\ render' = [render EXCEPT ![r] = Opening(v, free)]
             /\ lists' = IF own THEN Append(lists, <<>>) ELSE lists
        ELSE /\ render' = [render EXCEPT ![r] = Painting(v, found[Len(found)])]
             /\ lists' = [lists EXCEPT ![free] = SubSeq(found, 1, Len(found) - 1)]
     /\ UNCHANGED <<idle, pages>>

(* The loop of acquire, entered or gone round again.                        *)
TakeOrWait(r, v) ==
  \/ leased < Limit /\ Take(r, v)
  \/ /\ leased >= Limit
     /\ render' = [render EXCEPT ![r] = At("waiting", v)]
     /\ UNCHANGED <<leased, idle, lists, pages>>

Acquire(r) ==
  /\ render[r] = Nothing
  /\ begun < MaxRenders
  /\ begun' = begun + 1
  /\ \E v \in Viewports : TakeOrWait(r, v)
  /\ waiting' = IF leased >= Limit THEN Append(waiting, r) ELSE waiting
  /\ UNCHANGED opens

(* A waiter that was woken finds the slot, or finds it taken and waits on,  *)
(* behind those who came since.                                             *)
Resume(r) ==
  /\ render[r].pc = "woken"
  /\ TakeOrWait(r, render[r].viewport)
  /\ waiting' = IF leased >= Limit THEN Append(waiting, r) ELSE waiting
  /\ UNCHANGED <<opens, begun>>

(* Mutant: nobody is woken when a slot is given back.                       *)
WakeNone(now) == render' = now /\ UNCHANGED waiting
(* The oldest waiter is woken, if any: it runs later.  `now` is what the    *)
(* callers are doing otherwise.                                             *)
WakeOne(now) ==
  IF waiting = <<>>
  THEN render' = now /\ UNCHANGED waiting
  ELSE /\ render' = [now EXCEPT ![Head(waiting)].pc = "woken"]
       /\ waiting' = Tail(waiting)

(* Mutant: every acquire has a list of its own.                             *)
OpenedForgetting(r) ==
  /\ render[r].pc = "opening"
  /\ LET port == render[r].viewport IN
     /\ pages' = Append(pages, port)
     /\ idle' = [idle EXCEPT ![port] = Len(lists) + 1]
     /\ lists' = Append(lists, <<>>)
     /\ render' = [render EXCEPT ![r] = Painting(port, Len(pages) + 1)]
  /\ UNCHANGED <<leased, waiting, opens, begun>>
(* The new page is open: its list is the viewport's from now on.            *)
Opened(r) ==
  /\ render[r].pc = "opening"
  /\ LET port == render[r].viewport IN
     /\ pages' = Append(pages, port)
     /\ idle' = [idle EXCEPT ![port] = render[r].free]
     /\ render' = [render EXCEPT ![r] = Painting(port, Len(pages) + 1)]
  /\ UNCHANGED <<leased, waiting, lists, opens, begun>>

(* What a failed open leaves: nothing when the context itself failed; when  *)
(* its page, the session, the socket policy or the first navigation did,    *)
(* the context, which is the pool's by then and stays open until it closes. *)
LeftOpen(v) ==
  /\ failures' = [failures EXCEPT ![v] = @ + 1]
  /\ halfOpen' \in {halfOpen, [halfOpen EXCEPT ![v] = @ + 1]}

(* Mutant: a page that will not open keeps its slot.                        *)
OpenFailsHoldingItsSlot(r) ==
  /\ render[r].pc = "opening"
  /\ LeftOpen(render[r].viewport)
  /\ WakeOne([render EXCEPT ![r] = Nothing])
  /\ UNCHANGED <<leased, idle, lists, pages, begun>>
(* It cannot be opened: the slot is given back.                             *)
OpenFails(r) ==
  /\ render[r].pc = "opening"
  /\ LeftOpen(render[r].viewport)
  /\ leased' = leased - 1
  /\ WakeOne([render EXCEPT ![r] = Nothing])
  /\ UNCHANGED <<idle, lists, pages, begun>>

(* The render is over, painted or failed.  Called again, it does nothing.   *)
Release(r) ==
  /\ render[r].pc = "painting"
  /\ LET at == idle[render[r].viewport] IN
     lists' = IF at = NoList THEN lists
              ELSE [lists EXCEPT ![at] = Append(@, render[r].page)]
  /\ leased' = leased - 1
  /\ WakeOne([render EXCEPT ![r] = Nothing])
  /\ UNCHANGED <<idle, pages, opens, begun>>

Next ==
  \E r \in Renders : Acquire(r) \/ Resume(r) \/ Opened(r) \/ OpenFails(r) \/ Release(r)

Spec == Init /\ [][Next]_vars
-----------------------------------------------------------------------------
(* Properties.                                                              *)

Listed(l, page) == \E i \in DOMAIN lists[l] : lists[l][i] = page
Held == {render[r].page : r \in In("painting")}

Awaiting == [pc: {"waiting", "woken"}, viewport: Viewports]
Openings == [pc: {"opening"}, viewport: Viewports, free: 1..Len(lists)]
Paintings == [pc: {"painting"}, viewport: Viewports, page: 1..Len(pages)]
TypeOK ==
  /\ leased \in Nat /\ begun \in 0..MaxRenders
  /\ waiting \in Seq(Renders)
  /\ pages \in Seq(Viewports)
  /\ halfOpen \in [Viewports -> Nat] /\ failures \in [Viewports -> Nat]
  /\ lists \in Seq(Seq(1..Len(pages)))
  /\ idle \in [Viewports -> {NoList} \cup 1..Len(lists)]
  /\ render \in [Renders -> {Nothing} \cup Awaiting \cup Openings \cup Paintings]

(* Two renders never paint into one page, and none paints into a page the   *)
(* next acquire would be handed (page-pool.ts:41, :66).                     *)
OnePainterPerPage ==
  /\ \A r, s \in In("painting") : r # s => render[r].page # render[s].page
  /\ \A l \in 1..Len(lists), page \in Held : ~Listed(l, page)
  /\ \A l, m \in 1..Len(lists) : \A i \in DOMAIN lists[l], j \in DOMAIN lists[m] :
       <<l, i>> # <<m, j>> => lists[l][i] # lists[m][j]

(* A slot is somebody's: what is counted is the renders that open a page or *)
(* paint into one, and never more than the limit.                           *)
SlotsAreRenders ==
  /\ leased = Cardinality(In("opening") \cup In("painting"))
  /\ leased <= Limit

(* Nobody waits for a slot that is free and that no woken waiter is about   *)
(* to look at: a wake-up is never lost (renderer.ts:345-347).               *)
NoLostWakeup ==
  waiting # <<>> => leased + Cardinality(In("woken")) >= Limit

(* However many renders there are, a viewport has no more contexts open than *)
(* the Limit^3 + 5 * Limit over 6 that lists lost to overlapping opens      *)
(* (page-pool.ts:58-60) come to, 3 of two slots and 7 of three, and one for *)
(* each open that failed: a run whose opens keep failing has no bound       *)
(* before the pool is closed (page-pool.ts:90, :115-117).                   *)
PagesAreBounded ==
  \A v \in Viewports :
    LET open == Cardinality({i \in DOMAIN pages : pages[i] = v}) + halfOpen[v]
    IN  6 * open <= Limit * (Limit * Limit + 5) + 6 * failures[v]
=============================================================================
