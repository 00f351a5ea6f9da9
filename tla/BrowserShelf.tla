------------------------------ MODULE BrowserShelf ------------------------------
(***************************************************************************)
(* The browsers a process shares (packages/playwright, browsers.ts), and    *)
(* the harnesses and renderers that lease them (harness.ts, renderer.ts).   *)
(* One browser per launch recipe, one context per set of options in it: the *)
(* first lease opens the value, later ones share it, the last release       *)
(* closes it.  A harness leases a browser and then a context of it, opens a *)
(* page there, and gives them back in reverse; a renderer leases a browser. *)
(*                                                                         *)
(* Code between two awaits is one step.  The shelf of browsers and each     *)
(* browser's shelf of contexts are one class, and here one shelf: a key is  *)
(* a launch recipe, or the browser a context belongs to (one set of context *)
(* options; others are other keys).  A value is its place in `values`.      *)
(***************************************************************************)
EXTENDS Integers, Sequences, FiniteSets

CONSTANTS
  Users,      \* harnesses and renderers
  Renderers,  \* those of them that need no context
  Launches,   \* launch recipes
  MaxLeases,  \* bound of the harnesses and renderers begun
  MaxDeaths   \* bound of the browsers that die

(* What the constants must be.                                              *)
Parameters ==
  /\ Renderers \subseteq Users
  /\ Launches \cap Nat = {}
  /\ MaxLeases \in Nat /\ MaxDeaths \in Nat

VARIABLES
  values,  \* every browser and context opened so far: key, state, holders
  shelf,   \* those the next lease of their key would share
  user,    \* what each harness or renderer is doing
  begun,   \* harnesses and renderers begun, for the bound
  deaths   \* browsers that died, for the bound

vars == <<values, shelf, user, begun, deaths>>

None == 0
Gone == [pc |-> "none", browser |-> None, context |-> None, awaits |-> None]

Found(key) == {i \in shelf : values[i].key = key}
IsContext(i) == values[i].key \notin Launches

Init ==
  /\ values = <<>> /\ shelf = {}
  /\ user = [u \in Users |-> Gone]
  /\ begun = 0 /\ deaths = 0
-----------------------------------------------------------------------------
(* The shelf.                                                               *)

(* A user waits for a browser, or for a context of the one it has.          *)
WaitFor(u, key, i) ==
  user' = [user EXCEPT ![u] = IF key \in Launches
                              THEN [Gone EXCEPT !.pc = "browser", !.browser = i]
                              ELSE [@ EXCEPT !.pc = "context", !.context = i]]

(* The part of a lease before its value is there: the value to wait for,    *)
(* counted at once.                                                         *)
Lease(u, key) ==
  IF Found(key) # {}
  THEN \E i \in Found(key) :
         /\ values' = [values EXCEPT ![i].holders = @ + 1]
         /\ WaitFor(u, key, i)
         /\ UNCHANGED shelf
  ELSE /\ values' = Append(values, [key |-> key, state |-> "opening", holders |-> 1])
       /\ shelf' = shelf \cup {Len(values) + 1}
       /\ WaitFor(u, key, Len(values) + 1)

(* A value that did not open is dropped from the shelf before any lease     *)
(* that waits for it is told.                                               *)
Settled(i) == /\ values[i].state # "opening"
              /\ values[i].state = "failed" => i \notin shelf

(* A lease that waited throws, or has its value.                            *)
Threw(i) == values[i].state = "failed"
Uncount(i) == values' = [values EXCEPT ![i].holders = @ - 1]

(* Mutant: the value is closed first, and leaves the shelf once it is.      *)
ReleaseLate(i) ==
  /\ values' = [values EXCEPT ![i].holders = @ - 1,
                              ![i].state = IF values[i].holders = 1 /\ i \in shelf /\ @ = "open"
                                           THEN "closing" ELSE @]
  /\ UNCHANGED shelf

(* A release.  The last one takes the value off the shelf, and closes it if *)
(* it was there; nothing is left to close of a browser that died.           *)
Release(i) ==
  LET last == values[i].holders = 1
      closes == last /\ i \in shelf /\ values[i].state = "open"
  IN /\ values' = [values EXCEPT ![i].holders = @ - 1,
                                 ![i].state = IF closes THEN "closing" ELSE @]
     /\ shelf' = IF last THEN shelf \ {i} ELSE shelf

(* The release awaits what it closes.                                       *)
Awaited(i) == IF values'[i].state = "closing" THEN i ELSE None

Opened(i) ==
  /\ values[i].state = "opening"
  /\ IsContext(i) => values[values[i].key].state = "open"
  /\ values' = [values EXCEPT ![i].state = "open"]
  /\ UNCHANGED <<shelf, user, begun, deaths>>

OpenFails(i) ==
  /\ values[i].state = "opening"
  /\ values' = [values EXCEPT ![i].state = "failed"]
  /\ UNCHANGED <<shelf, user, begun, deaths>>

(* The handler a failed open runs first.                                    *)
ForgetFailed(i) ==
  /\ values[i].state = "failed"
  /\ i \in shelf
  /\ shelf' = shelf \ {i}
  /\ UNCHANGED <<values, user, begun, deaths>>

(* What was being closed is; a browser takes its contexts with it.          *)
Closed(i) ==
  /\ values[i].state = "closing"
  /\ values' = [j \in DOMAIN values |->
                  IF j = i \/ (values[j].key = i /\ values[j].state \in {"open", "closing"})
                  THEN [values[j] EXCEPT !.state = "closed"]
                  ELSE values[j]]
  /\ UNCHANGED <<shelf, user, begun, deaths>>

(* A browser dies, and its contexts with it.                                *)
Die(b) ==
  /\ ~IsContext(b)
  /\ values[b].state = "open"
  /\ deaths < MaxDeaths
  /\ deaths' = deaths + 1
  /\ values' = [j \in DOMAIN values |->
                  IF j = b THEN [values[j] EXCEPT !.state = "dead"]
                  ELSE IF values[j].key = b /\ values[j].state \in {"open", "closing"}
                  THEN [values[j] EXCEPT !.state = "closed"]
                  ELSE values[j]]
  /\ UNCHANGED <<shelf, user, begun>>

(* Mutant: what stands under the dead browser's key is forgotten, whichever *)
(* it is.                                                                   *)
ForgetKey(b) ==
  /\ values[b].state = "dead"
  /\ values' = [values EXCEPT ![b].state = "forgotten"]
  /\ shelf' = shelf \ Found(values[b].key)
  /\ UNCHANGED <<user, begun, deaths>>

(* The process hears of it: the browser is taken off the shelf if the shelf *)
(* still holds that one.                                                    *)
ForgetDead(b) ==
  /\ values[b].state = "dead"
  /\ values' = [values EXCEPT ![b].state = "forgotten"]
  /\ shelf' = shelf \ {b}
  /\ UNCHANGED <<user, begun, deaths>>
-----------------------------------------------------------------------------
(* Harnesses and renderers.                                                 *)

Becomes(u, pc) == user' = [user EXCEPT ![u].pc = pc]

LeaseBrowser(u) ==
  /\ user[u] = Gone
  /\ begun < MaxLeases
  /\ begun' = begun + 1
  /\ \E launch \in Launches : Lease(u, launch)
  /\ UNCHANGED deaths

HaveBrowser(u) ==
  /\ user[u].pc = "browser"
  /\ LET b == user[u].browser IN
     /\ Settled(b)
     /\ IF Threw(b)
        THEN /\ Uncount(b)
             /\ user' = [user EXCEPT ![u] = Gone]
        ELSE /\ Becomes(u, IF u \in Renderers THEN "up" ELSE "leased")
             /\ UNCHANGED values
  /\ UNCHANGED <<shelf, begun, deaths>>

LeaseContext(u) ==
  /\ user[u].pc = "leased"
  /\ Lease(u, user[u].browser)
  /\ UNCHANGED <<begun, deaths>>

(* Without a context only the browser is left to give back.                 *)
HaveContext(u) ==
  /\ user[u].pc = "context"
  /\ LET c == user[u].context IN
     /\ Settled(c)
     /\ IF Threw(c)
        THEN /\ Uncount(c)
             /\ user' = [user EXCEPT ![u].pc = "context freed", ![u].context = None]
        ELSE Becomes(u, "page") /\ UNCHANGED values
  /\ UNCHANGED <<shelf, begun, deaths>>

PageOpens(u) ==
  /\ user[u].pc = "page"
  /\ values[user[u].context].state = "open"
  /\ Becomes(u, "up")
  /\ UNCHANGED <<values, shelf, begun, deaths>>

(* Mutant: a page that will not load leaves what it was opened in leased.   *)
PageFailsOpen(u) ==
  /\ user[u].pc = "page"
  /\ user' = [user EXCEPT ![u] = Gone]
  /\ UNCHANGED <<values, shelf, begun, deaths>>

(* Opening it, preparing it or its first load fails: the harness closes.    *)
PageFails(u) ==
  /\ user[u].pc = "page"
  /\ Becomes(u, "closing")
  /\ UNCHANGED <<values, shelf, begun, deaths>>

Close(u) ==
  /\ user[u].pc = "up"
  /\ Becomes(u, IF user[u].context = None THEN "context freed" ELSE "closing")
  /\ UNCHANGED <<values, shelf, begun, deaths>>

(* The page is closed, or could not be.                                     *)
ReleaseContext(u) ==
  /\ user[u].pc = "closing"
  /\ Release(user[u].context)
  /\ user' = [user EXCEPT ![u].pc = "context freed", ![u].context = None,
                          ![u].awaits = Awaited(user[u].context)]
  /\ UNCHANGED <<begun, deaths>>

(* What the last release awaits is closed, or its browser died.             *)
Freed(u) == user[u].awaits \notin {i \in DOMAIN values : values[i].state = "closing"}

ReleaseBrowser(u) ==
  /\ user[u].pc = "context freed"
  /\ Freed(u)
  /\ Release(user[u].browser)
  /\ user' = [user EXCEPT ![u].pc = "browser freed", ![u].browser = None,
                          ![u].awaits = Awaited(user[u].browser)]
  /\ UNCHANGED <<begun, deaths>>

Done(u) ==
  /\ user[u].pc = "browser freed"
  /\ Freed(u)
  /\ user' = [user EXCEPT ![u] = Gone]
  /\ UNCHANGED <<values, shelf, begun, deaths>>

Proceed(u) ==
  \/ HaveBrowser(u) \/ LeaseContext(u) \/ HaveContext(u) \/ PageOpens(u) \/ PageFails(u)
  \/ Close(u) \/ ReleaseContext(u) \/ ReleaseBrowser(u) \/ Done(u)

Settle(i) == Opened(i) \/ OpenFails(i) \/ ForgetFailed(i) \/ Closed(i) \/ ForgetDead(i)

Next ==
  \/ \E u \in Users : LeaseBrowser(u) \/ Proceed(u)
  \/ \E i \in DOMAIN values : Settle(i) \/ Die(i)

Spec == Init /\ [][Next]_vars
-----------------------------------------------------------------------------
(* Properties.                                                              *)

(* A user leases a value from when it asks until it gives it back.          *)
Leases(u, i) == i # None /\ i \in {user[u].browser, user[u].context}
Alive(i) == values[i].state \in {"opening", "open"}

States == {"opening", "open", "failed", "closing", "closed", "dead", "forgotten"}
TypeOK ==
  /\ values \in Seq([key: Launches \cup Nat, state: States, holders: Nat])
  /\ shelf \subseteq DOMAIN values
  /\ user \in [Users -> [pc: {"none", "browser", "leased", "context", "page", "up", "closing",
                              "context freed", "browser freed"},
                         browser: {None} \cup DOMAIN values,
                         context: {None} \cup DOMAIN values,
                         awaits: {None} \cup DOMAIN values]]
  /\ begun \in 0..MaxLeases /\ deaths \in 0..MaxDeaths

(* Nobody is handed, or goes on using, a browser or a context that another  *)
(* one's release is closing (browsers.ts:77-82).                            *)
LeasedIsNotClosed ==
  \A u \in Users : \A i \in DOMAIN values :
    Leases(u, i) => values[i].state # "closing"
                    /\ (values[i].state = "closed" => values[user[u].browser].state \in {"dead", "forgotten"})

(* What is open is somebody's: no browser process and no context outlives   *)
(* its last holder, whichever step of opening a harness failed              *)
(* (browsers.ts:18-19, harness.ts:231-236).                                 *)
NothingIsLeftOpen ==
  \A i \in DOMAIN values : Alive(i) => \E u \in Users : Leases(u, i)

(* A process pays for one browser per launch recipe and one context per     *)
(* browser at a time, whoever dies and whoever lets go of a dead one late   *)
(* (browsers.ts:7, :23).                                                    *)
OneOfAKey ==
  \A i, j \in DOMAIN values : Alive(i) /\ Alive(j) /\ values[i].key = values[j].key => i = j
=============================================================================
