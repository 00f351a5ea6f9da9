------------------------------ MODULE Observatory ------------------------------
(***************************************************************************)
(* A suite somebody watches (packages/vantage: watch.ts, observatory.ts,    *)
(* attach.ts).  A test says what it does in reports that arrive in the      *)
(* order it made them; a test that stops says so and then asks, by requests *)
(* that may overtake the report, whether it may go on.  A reader of the     *)
(* observatory's listing releases what it lists as stopped, and the next    *)
(* request spends the release.                                              *)
(*                                                                         *)
(* The reports kept are those that change what may be released: opened,     *)
(* waiting and closed.  A stop is the number of the call that made it.      *)
(***************************************************************************)
EXTENDS Integers, Sequences, FiniteSets

CONSTANTS
  Tests,
  Kept,      \* tests the observatory holds at most
  MaxStops   \* bound of the stops of a test

(* What the constants must be.                                              *)
Parameters == Kept \in Nat \ {0} /\ MaxStops \in Nat

VARIABLES
  run,      \* what each test is doing, and its latest stop
  said,     \* its reports that have not arrived
  listed,   \* the tests the observatory holds, the oldest first
  entry,    \* what it holds of them
  up,       \* it listens
  meant     \* history: the stop each standing release was given for, and
            \* whether a stop of the test has expired

vars == <<run, said, listed, entry, up, meant>>

Nowhere == 0
Opened == [kind |-> "opened"]
Waiting(n) == [kind |-> "waiting", at |-> n]
Closed == [kind |-> "closed"]
New == [waitingAt |-> Nowhere, releasing |-> FALSE]

In(s, t) == \E i \in DOMAIN s : s[i] = t

Init ==
  /\ run = [t \in Tests |-> [pc |-> "new", stop |-> Nowhere]]
  /\ said = [t \in Tests |-> <<>>]
  /\ listed = <<>>
  /\ entry = [t \in Tests |-> New]
  /\ up = TRUE
  /\ meant = [t \in Tests |-> [stop |-> Nowhere, expired |-> FALSE]]
-----------------------------------------------------------------------------
(* The test.                                                                *)

Goes(t, pc) == run' = [run EXCEPT ![t].pc = pc]
Says(t, report) == said' = [said EXCEPT ![t] = IF up THEN Append(@, report) ELSE @]
Observed == UNCHANGED <<listed, entry, up, meant>>

Open(t) ==
  /\ run[t].pc = "new"
  /\ Goes(t, "running") /\ Says(t, Opened) /\ Observed

(* It stops, and says so before it first asks.                              *)
Stop(t) ==
  /\ run[t].pc = "running" /\ run[t].stop < MaxStops
  /\ run' = [run EXCEPT ![t] = [pc |-> "stopped", stop |-> @.stop + 1]]
  /\ Says(t, Waiting(run[t].stop + 1)) /\ Observed

End(t) ==
  /\ run[t].pc = "running"
  /\ Goes(t, "ended") /\ Says(t, Closed) /\ Observed

(* Mutant: the release stands until the test ends.                          *)
AskUnspent(t) ==
  /\ run[t].pc = "stopped" /\ up
  /\ Goes(t, IF entry[t].releasing THEN "go" ELSE "wait")
  /\ entry' = [entry EXCEPT ![t].waitingAt = IF entry[t].releasing THEN Nowhere ELSE @]
  /\ UNCHANGED <<said, listed, up, meant>>

(* The request arrives, and its answer spends the release that stands.      *)
Ask(t) ==
  /\ run[t].pc = "stopped" /\ up
  /\ IF entry[t].releasing
     THEN Goes(t, "go") /\ entry' = [entry EXCEPT ![t] = New]
     ELSE Goes(t, "wait") /\ UNCHANGED entry
  /\ UNCHANGED <<said, listed, up, meant>>

(* The answer: on it goes, or it asks again, or the time it had is over.    *)
Told(t) ==
  /\ \/ run[t].pc = "go" /\ Goes(t, "running") /\ UNCHANGED meant
     \/ run[t].pc = "wait" /\ Goes(t, "stopped") /\ UNCHANGED meant
     \/ /\ run[t].pc = "wait" /\ Goes(t, "running")
        /\ meant' = [meant EXCEPT ![t].expired = TRUE]
  /\ UNCHANGED <<said, listed, entry, up>>

(* Nobody answers any more, and it goes on.                                 *)
Unwatched(t) ==
  /\ run[t].pc \in {"stopped", "go", "wait"} /\ ~up
  /\ Goes(t, "running") /\ UNCHANGED said /\ Observed
-----------------------------------------------------------------------------
(* The observatory.                                                         *)

(* Mutant: what was released is not waiting any more, so a report of it is   *)
(* an old one.                                                              *)
ReportedOnce(held, report) ==
  CASE report.kind = "waiting" ->
         [held EXCEPT !.waitingAt = IF held.waitingAt = Nowhere THEN report.at ELSE @]
    [] report.kind = "closed" -> New
    [] OTHER -> held
(* What a report makes of what is held of its test.                         *)
Reported(held, report) ==
  CASE report.kind = "waiting" -> [held EXCEPT !.waitingAt = report.at]
    [] report.kind = "closed" -> New
    [] OTHER -> held

(* A report arrives.  A test not held is held from now on, and the oldest   *)
(* is forgotten when they are too many.                                     *)
Took(t) ==
  /\ said[t] # <<>> /\ up
  /\ said' = [said EXCEPT ![t] = Tail(@)]
  /\ LET more == IF In(listed, t) THEN listed ELSE Append(listed, t)
         kept == IF Len(more) > Kept THEN Tail(more) ELSE more
         now == [entry EXCEPT ![t] = Reported(@, Head(said[t]))]
     IN /\ listed' = kept
        /\ entry' = [u \in Tests |-> IF In(kept, u) THEN now[u] ELSE New]
  /\ UNCHANGED <<run, up, meant>>

Releasable(t) == In(listed, t) /\ entry[t].waitingAt # Nowhere /\ ~entry[t].releasing

Release(S) ==
  /\ up /\ S # {}
  /\ entry' = [t \in Tests |-> IF t \in S THEN [entry[t] EXCEPT !.releasing = TRUE] ELSE entry[t]]
  /\ meant' = [t \in Tests |-> IF t \in S THEN [meant[t] EXCEPT !.stop = entry[t].waitingAt]
                               ELSE meant[t]]
  /\ UNCHANGED <<run, said, listed, up>>

ReleaseOne(t) == Release({u \in {t} : Releasable(u)})
ReleaseAll == Release({t \in Tests : Releasable(t)})

(* The watcher goes away, with what it held and what was on its way.        *)
GoesAway ==
  /\ up /\ up' = FALSE
  /\ listed' = <<>>
  /\ entry' = [t \in Tests |-> New]
  /\ said' = [t \in Tests |-> <<>>]
  /\ UNCHANGED <<run, meant>>

Next ==
  \/ \E t \in Tests : Open(t) \/ Stop(t) \/ End(t) \/ Ask(t) \/ Told(t) \/ Unwatched(t)
                      \/ Took(t) \/ ReleaseOne(t)
  \/ ReleaseAll \/ GoesAway

Spec == Init /\ [][Next]_vars
-----------------------------------------------------------------------------
(* Properties.                                                              *)

Stops == 0..MaxStops
TypeOK ==
  /\ run \in [Tests -> [pc: {"new", "running", "stopped", "go", "wait", "ended"}, stop: Stops]]
  /\ said \in [Tests -> Seq([kind: {"opened", "closed"}] \cup [kind: {"waiting"}, at: Stops])]
  /\ listed \in Seq(Tests) /\ Len(listed) <= Kept
  /\ entry \in [Tests -> [waitingAt: Stops, releasing: BOOLEAN]]
  /\ up \in BOOLEAN
  /\ meant \in [Tests -> [stop: Stops, expired: BOOLEAN]]

(* A test goes on from the stop a reader released it from, and stays at the *)
(* next one until somebody releases it again; but for a test whose earlier  *)
(* stop expired (observatory.ts:64-71).                                     *)
SpentWhereGiven ==
  [][\A t \in Tests : Ask(t) /\ entry[t].releasing =>
       meant[t].expired \/ meant[t].stop = run[t].stop]_vars

(* A test that stands still, its report in, is one a reader can release or  *)
(* has released: a report late or early of the requests takes nothing back. *)
(* But for one the observatory has forgotten (watch.ts:137-139).            *)
StoppedIsListed ==
  \A t \in Tests :
    run[t].pc \in {"stopped", "wait"} /\ said[t] = <<>> /\ In(listed, t)
      => entry[t].waitingAt = run[t].stop

(* A test that ended leaves no release behind: none stands once its last    *)
(* report is in, however it ended and whoever released it (:199-203).       *)
EndedLeavesNothing ==
  \A t \in Tests : run[t].pc = "ended" /\ said[t] = <<>> => entry[t] = New

(* What the observatory lists is what the tests stand at, whatever came     *)
(* late: both of the above.                                                 *)
ListsWhatStands == StoppedIsListed /\ EndedLeavesNothing
=============================================================================
