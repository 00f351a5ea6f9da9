---------------------------- MODULE FollowUpsProofs ----------------------------
(***************************************************************************)
(* Proofs about FollowUps, for every set of commands and of children, every *)
(* mix of roles and every bound.  What is said of the lock needs Prompt: a  *)
(* look at the lock and its removal at once.  What is said of answers needs *)
(* besides that no command is an `index --wait`.                            *)
(***************************************************************************)
EXTENDS FollowUps, TLAPS

(* Working, by element.                                                     *)
Orphan(c) == \E q \in Commands : proc[q].pc = "exited" /\ proc[q].seen = c
Works(x) ==
  \/ /\ x \in Commands /\ proc[x].role = "index"
     /\ proc[x].pc \in {"update", "detach", "hand", "ready", "make"}
  \/ /\ x \in Children /\ ~Orphan(x)
     /\ proc[x].pc \in {"update", "ready", "mark", "marking", "make", "failing"}

LEMMA WorkingWorks == ASSUME NEW x PROVE x \in Working <=> Works(x)
BY DEF Working, Works, Orphans, Orphan

-----------------------------------------------------------------------------
(* The inductive invariant, in named parts.                                 *)

ChildPlaces == {"unborn", "update", "ready", "mark", "marking", "make", "failing",
                "compare", "remove", "exited"}

(* A child does what children do, and a command what its role does.         *)
Parts ==
  /\ \A c \in Children : /\ proc[c].role = "child" /\ proc[c].pc \in ChildPlaces
                         /\ proc[c].then = "exited"
  /\ \A p \in Commands : /\ proc[p].pc \notin {"mark", "marking", "failing", "unborn"}
                         /\ proc[p].pc # "exited" => proc[p].role # "child"
                         /\ proc[p].pc \in {"detach", "hand"} => proc[p].role = "index"
                         /\ proc[p].role = "index" => proc[p].then # "update"

(* A child that waits to be named in the lock has one parent, and one whose *)
(* parent was killed is never named.                                        *)
HandsTo(q, c) ==
  /\ proc[q].seen = c /\ proc[c].pc # "unborn" /\ ~Names(c) /\ ~Orphan(c)
  /\ \A r \in Commands \ {q} : proc[r].pc = "hand" => proc[r].seen # c
Handing == \A q \in Commands : proc[q].pc = "hand" => \E c \in Children : HandsTo(q, c)
Orphaned == \A c \in Children : Orphan(c) => proc[c].pc # "unborn" /\ ~Names(c)

(* What the lock says of the process it names.                              *)
Marks ==
  lock # Free =>
    /\ proc[lock.pid].pc # "unborn"
    /\ lock.failed => proc[lock.pid].pc = "exited"
    /\ lock.readied => /\ lock.pid \in Children
                       /\ proc[lock.pid].pc \in {"make", "failing", "compare", "remove", "exited"}

(* Who is about to write the lock is named in it; who is about to compare   *)
(* it does so with itself or with one that is gone; while somebody is about *)
(* to remove it, nobody is at work.                                         *)
Marking == \A p \in Processes : proc[p].pc \in {"marking", "failing"} => p \in Children /\ Names(p)
Comparing ==
  \A p \in Processes : proc[p].pc = "compare" =>
    proc[p].seen = p \/ (proc[p].seen \in Processes /\ proc[proc[p].seen].pc = "exited")
Removing ==
  \A p \in Processes : proc[p].pc = "remove" => \A x \in Processes : ~Works(x)

(* Who is at work is named in the lock, or is about to be by whoever is.    *)
AtWork ==
  \A x \in Processes : Works(x) =>
    \/ Names(x)
    \/ \E q \in Commands : Names(q) /\ proc[q].pc = "hand" /\ proc[q].seen = x

(* A lock file with nothing in it is whose who is about to write it, or     *)
(* nobody's; it says nothing, and nobody is about to remove it.             *)
Making ==
  /\ \A p \in Processes : proc[p].pc = "writing" => blank = p
  /\ blank # Nobody => lock = Free /\ \A p \in Processes : proc[p].pc # "remove"

Sound == Parts /\ Handing /\ Orphaned /\ Marks /\ Marking /\ Comparing /\ Removing /\ AtWork
IInv == TypeOK /\ Sound /\ Making
-----------------------------------------------------------------------------
(* Types.                                                                   *)

Process == [pc: Places, role: Roles \cup {"child", "wait"}, seen: Processes \cup {Nobody},
            then: Ends, from: Nat]

Locks == {Free} \cup [pid: Processes, readied: BOOLEAN, failed: BOOLEAN]
WellPlaced ==
  /\ proc \in [Processes -> Process]
  /\ \A p \in Processes : proc[p].pc = "hand" => proc[p].seen \in Children
Counts ==
  /\ index \in 0..MaxChanges /\ made \in Nat /\ unmade \subseteq Nat
  /\ faults \in 0..MaxFaults /\ blank \in Processes \cup {Nobody}

LEMMA TypesSplit == TypeOK <=> WellPlaced /\ lock \in Locks /\ Counts
BY DEF TypeOK, WellPlaced, Locks, Counts, Process

LEMMA InitTypes == Init => TypeOK
<1> SUFFICES ASSUME Init PROVE TypeOK OBVIOUS
<1> USE DEF Places, Ends
<1>1. Unborn \in Process BY DEF Init, Unborn, Process
<1>2. \A role \in Roles : Started(role) \in Process BY DEF Init, Started, Unborn, Process
<1>3. proc \in [Processes -> Process] BY <1>1, <1>2 DEF Init
<1>4. Unborn.pc # "hand" /\ \A role \in Roles : Started(role).pc # "hand" BY DEF Started, Unborn
<1>5. \A p \in Processes : proc[p].pc # "hand" BY <1>4 DEF Init
<1> QED BY <1>3, <1>5, BoundAssumption DEF Init, TypeOK, Process

LEMMA PutTypes ==
  ASSUME WellPlaced, NEW p \in Processes, NEW new \in Process, new.pc # "hand",
         proc' = [proc EXCEPT ![p] = new]
  PROVE WellPlaced'
BY DEF WellPlaced

LEMMA AtTypes ==
  ASSUME WellPlaced, NEW p \in Processes, NEW pc \in Places
  PROVE At(p, pc) \in Process /\ At(p, pc).pc = pc
<1>1. proc[p] \in Process BY DEF WellPlaced
<1>2. [Unborn EXCEPT !.pc = pc] \in Process BY DEF Unborn, Process, Places, Ends
<1>3. [proc[p] EXCEPT !.pc = pc, !.seen = Nobody, !.then = "exited"] \in Process
  BY <1>1 DEF Process, Ends
<1>4. CASE pc = "exited" BY <1>2, <1>4 DEF At, Unborn
<1>5. CASE pc # "exited" BY <1>1, <1>3, <1>5 DEF At, Process
<1> QED BY <1>4, <1>5

LEMMA GoesTypes ==
  ASSUME WellPlaced, NEW p \in Processes, NEW pc \in Places, pc # "hand", Goes(p, pc)
  PROVE WellPlaced'
BY AtTypes, PutTypes DEF Goes

LEMMA ReleasesTypes ==
  ASSUME WellPlaced, NEW p \in Processes, NEW pid \in Processes, NEW then \in Ends,
         Releases(p, pid, then)
  PROVE WellPlaced'
<1> DEFINE new == [proc[p] EXCEPT !.pc = "compare", !.seen = pid, !.then = then, !.from = 0]
<1>1. proc[p] \in Process /\ proc \in [Processes -> Process] BY DEF WellPlaced
<1>2. new \in Process /\ new.pc # "hand" BY <1>1 DEF Process, Places
<1>3. proc' = [proc EXCEPT ![p] = new] BY <1>1 DEF Releases
<1> QED BY <1>2, <1>3, PutTypes

LEMMA StepTypes == ASSUME TypeOK, [Next]_vars PROVE TypeOK'
<1>1. CASE UNCHANGED vars BY <1>1 DEF vars, work, TypeOK
<1>2. CASE Next
  <2> SUFFICES ASSUME NEW p \in Processes, Proceed(p) \/ ReserveFails(p) \/ Kill(p)
               PROVE  WellPlaced' /\ (lock \in Locks)' /\ Counts'
    BY <1>2, TypesSplit DEF Next, TypeOK, WellPlaced, Locks, Counts, work, Process
  <2>1. WellPlaced /\ lock \in Locks /\ Counts BY TypesSplit
  <2>2. \A pc \in Places \ {"hand"} : Goes(p, pc) => WellPlaced' BY <2>1, GoesTypes
  <2>3. \A pid \in Processes, then \in Ends : Releases(p, pid, then) => WellPlaced'
    BY <2>1, ReleasesTypes
  <2>4. Held(p) \in Locks BY DEF Held, Locks
  <2>5. /\ proc[p] \in Process /\ proc \in [Processes -> Process]
        /\ proc[p].then \in Places \ {"hand"}
    BY <2>1 DEF WellPlaced, Process, Ends, Places
  <2>6. lock # Free => lock.pid \in Processes BY <2>1 DEF Locks
  <2>7. CASE SettleIndexAlone(p)
    BY <2>1, <2>2, <2>7 DEF SettleIndexAlone, Counts, work, Places
  <2>8. CASE Settle(p)
    <3>1. /\ Onward(proc[p].role) \in Ends /\ Instead(proc[p].role) \in Ends
          /\ Onward(proc[p].role) \in Places \ {"hand"}
      BY DEF Onward, Instead, Ends, Places
    <3>2. UNCHANGED <<lock, Counts>> BY <2>8 DEF Settle, Counts, work
    <3>3. CASE Goes(p, Onward(proc[p].role)) BY <2>1, <2>2, <3>1, <3>2, <3>3
    <3>4. CASE lock # Free /\ Releases(p, lock.pid, Onward(proc[p].role))
      BY <2>1, <2>3, <2>6, <3>1, <3>2, <3>4
    <3>5. CASE proc' = [proc EXCEPT ![p].pc = "remove", ![p].then = Instead(proc[p].role)]
      <4> DEFINE new == [proc[p] EXCEPT !.pc = "remove", !.then = Instead(proc[p].role)]
      <4>1. new \in Process /\ new.pc # "hand" BY <2>5, <3>1 DEF Process, Places
      <4>2. proc' = [proc EXCEPT ![p] = new] BY <2>5, <3>5
      <4> QED BY <2>1, <3>2, <4>1, <4>2, PutTypes
    <3> QED BY <2>8, <3>3, <3>4, <3>5 DEF Settle
  <2>9. CASE Compare(p)
    <3>1. CASE Names(proc[p].seen)
      <4> DEFINE new == [proc[p] EXCEPT !.pc = "remove", !.seen = Nobody]
      <4>1. new \in Process /\ new.pc # "hand" BY <2>5 DEF Process, Places
      <4>2. proc' = [proc EXCEPT ![p] = new] BY <2>5, <2>9, <3>1 DEF Compare
      <4>3. WellPlaced' BY <2>1, <4>1, <4>2, PutTypes
      <4> QED BY <2>1, <2>9, <4>3 DEF Compare, Counts, work
    <3>2. CASE ~Names(proc[p].seen)
      BY <2>1, <2>2, <2>5, <2>9, <3>2 DEF Compare, Counts, work
    <3> QED BY <3>1, <3>2
  <2>10. CASE Remove(p)
    BY <2>1, <2>2, <2>5, <2>10 DEF Remove, Counts, work, Locks
  <2>11. CASE Answer(p) BY <2>1, <2>2, <2>11 DEF Answer, Counts, work, Places
  <2>12. CASE Reserve(p) BY <2>1, <2>2, <2>4, <2>12 DEF Reserve, Counts, work, Places
  <2>13. CASE WriteLock(p)
    <3>1. WellPlaced' BY <2>2, <2>13 DEF WriteLock, Places
    <3>2. lock' \in Locks /\ blank' \in Processes \cup {Nobody}
      BY <2>1, <2>4, <2>13 DEF WriteLock, Counts
    <3> QED BY <2>1, <2>13, <3>1, <3>2 DEF WriteLock, Counts, work
  <2>14. CASE ReserveFails(p)
    <3> DEFINE new == [At(p, "update") EXCEPT !.role = "wait"]
    <3>1. At(p, "update") \in Process /\ At(p, "update").pc = "update"
      BY <2>1, AtTypes DEF Places
    <3>2. new \in Process /\ new.pc # "hand" BY <3>1 DEF Process
    <3>3. proc' = [proc EXCEPT ![p] = new] BY <2>14 DEF ReserveFails
    <3>4. WellPlaced' BY <2>1, <3>2, <3>3, PutTypes
    <3>5. Counts' BY <2>1, <2>14, BoundAssumption DEF ReserveFails, Counts, work
    <3> QED BY <2>1, <2>14, <3>4, <3>5 DEF ReserveFails
  <2>15. CASE Await(p)
    BY <2>1, <2>2, <2>3, <2>6, <2>15 DEF Await, Counts, work, Places, Ends
  <2>16. CASE Update(p)
    <3>1. Counts' BY <2>1, <2>16, BoundAssumption DEF Update, Counts, work
    <3>2. Goes(p, "detach") \/ Goes(p, "ready") BY <2>16 DEF Update
    <3>3. WellPlaced' BY <2>2, <3>2 DEF Places
    <3> QED BY <2>1, <2>16, <3>1, <3>3 DEF Update
  <2>17. CASE UpdateFails(p)
    BY <2>1, <2>3, <2>17 DEF UpdateFails, Counts, work, Ends
  <2>18. CASE Detach(p)
    <3>1. CASE Goes(p, "ready")
      BY <2>1, <2>2, <2>18, <3>1 DEF Detach, Counts, work, Places
    <3>2. CASE ~Goes(p, "ready")
      <4>1. PICK c \in Children :
              proc' = [proc EXCEPT ![c].pc = "update", ![p].pc = "hand", ![p].seen = c]
        BY <2>18, <3>2 DEF Detach
      <4>2. "update" \in Places /\ "hand" \in Places BY DEF Places
      <4>3. WellPlaced' BY <2>1, <2>5, <4>1, <4>2 DEF WellPlaced, Process, Processes
      <4> QED BY <2>1, <2>18, <4>3 DEF Detach, Counts, work
    <3> QED BY <3>1, <3>2
  <2>19. CASE Hand(p)
    <3>1. proc[p].seen \in Children BY <2>1, <2>19 DEF Hand, WellPlaced
    <3>2. Held(proc[p].seen) \in Locks BY <3>1 DEF Held, Locks, Processes
    <3> QED BY <2>1, <2>3, <2>19, <3>2 DEF Hand, Counts, work, Ends
  <2>20. CASE Ready(p)
    <3> DEFINE pc == IF proc[p].role = "child" THEN "mark" ELSE "make"
               new == [proc[p] EXCEPT !.pc = pc, !.from = index]
    <3>4. pc \in Places \ {"hand"} /\ index \in Nat BY <2>1 DEF Places, Counts, work
    <3> HIDE DEF pc
    <3>1. new \in Process /\ new.pc # "hand" BY <2>5, <3>4 DEF Process
    <3>2. proc' = [proc EXCEPT ![p] = new] BY <2>5, <2>20 DEF Ready, pc
    <3>3. WellPlaced' BY <2>1, <3>1, <3>2, PutTypes
    <3> QED BY <2>1, <2>20, <3>3 DEF Ready, Counts, work
  <2>21. CASE Mark(p) BY <2>1, <2>2, <2>21 DEF Mark, Counts, work, Places
  <2>22. CASE WriteMark(p)
    <3>1. [Held(p) EXCEPT !.readied = TRUE] \in Locks BY DEF Held, Locks
    <3> QED BY <2>1, <2>2, <2>22, <3>1 DEF WriteMark, Counts, work, Places
  <2>23. CASE Make(p)
    <3>1. proc[p].from \in Nat BY <2>5 DEF Process
    <3>2. Counts' /\ lock' = lock BY <2>1, <2>23, <3>1 DEF Make, Makes, Counts, work
    <3> QED BY <2>1, <2>2, <2>3, <2>23, <3>2 DEF Make, Places, Ends
  <2>24. CASE WriteFailed(p)
    <3>1. lock # Free => lock.readied \in BOOLEAN BY <2>1 DEF Locks
    <3>2. lock' \in Locks BY <2>24, <3>1 DEF WriteFailed, Locks
    <3> QED BY <2>1, <2>2, <2>24, <3>2 DEF WriteFailed, Counts, work, Places
  <2>25. CASE Kill(p)
    <3> DEFINE new == [At(p, "exited") EXCEPT
                        !.seen = IF proc[p].pc = "hand" THEN proc[p].seen ELSE Nobody]
    <3>1. At(p, "exited") \in Process /\ At(p, "exited").pc = "exited"
      BY <2>1, AtTypes DEF Places
    <3>2. new \in Process /\ new.pc # "hand" BY <2>5, <3>1 DEF Process
    <3>3. proc' = [proc EXCEPT ![p] = new] BY <2>25 DEF Kill
    <3>4. WellPlaced' BY <2>1, <3>2, <3>3, PutTypes
    <3>5. Counts' BY <2>1, <2>25, BoundAssumption DEF Kill, Counts, work
    <3> QED BY <2>1, <2>25, <3>4, <3>5 DEF Kill
  <2> QED BY <2>7, <2>8, <2>9, <2>10, <2>11, <2>12, <2>13, <2>14, <2>15, <2>16, <2>17,
             <2>18, <2>19, <2>20, <2>21, <2>22, <2>23, <2>24, <2>25 DEF Proceed
<1> QED BY <1>1, <1>2

(* Every reachable state is well typed, with or without Prompt.             *)
THEOREM TypeCorrect == Spec => []TypeOK
<1>1. Init => TypeOK BY InitTypes
<1>2. TypeOK /\ [Next]_vars => TypeOK' BY StepTypes
<1> QED BY <1>1, <1>2, PTL DEF Spec
-----------------------------------------------------------------------------
(* A step of one process that brings nobody to work who was not, and makes  *)
(* nobody about to hand anything over.                                      *)
Mild(p, new) ==
  /\ proc[p].pc \notin {"unborn", "exited", "hand"} /\ new.pc \notin {"unborn", "hand"}
  /\ p \in Children => new.role = "child" /\ new.pc \in ChildPlaces /\ new.then = "exited"
  /\ p \in Commands => /\ new.pc \notin {"mark", "marking", "failing"}
                       /\ new.pc # "exited" => new.role # "child"
                       /\ new.pc = "detach" => new.role = "index"
                       /\ new.role = "index" => new.then # "update"
  /\ new.pc = "exited" => new.seen = Nobody
  /\ p \in Commands /\ new.role = "index" /\ new.pc \in {"update", "detach", "ready", "make"}
       => Works(p)
  /\ p \in Children /\ ~Orphan(p)
     /\ new.pc \in {"update", "ready", "mark", "marking", "make", "failing"} => Works(p)
  /\ new.pc \in {"marking", "failing"} => p \in Children /\ Names(p)
  /\ new.pc = "compare" =>
       new.seen = p \/ (new.seen \in Processes /\ proc[new.seen].pc = "exited")
  /\ new.pc = "remove" => \A x \in Processes : ~Works(x)

(* Where a process stands, and what it may be there.                        *)
LEMMA Facts ==
  ASSUME TypeOK, Sound, NEW p \in Processes
  PROVE /\ proc \in [Processes -> Process] /\ proc[p] \in Process
        /\ Processes = Commands \cup Children /\ Commands \cap Children = {}
        /\ Nobody \notin Processes
        /\ lock # Free => lock.pid \in Processes /\ Names(lock.pid)
        /\ p \in Children => /\ proc[p].role = "child" /\ proc[p].pc \in ChildPlaces
                             /\ proc[p].then = "exited"
        /\ p \in Commands => /\ proc[p].pc \notin {"mark", "marking", "failing", "unborn"}
                             /\ proc[p].pc # "exited" => proc[p].role # "child"
                             /\ proc[p].pc \in {"detach", "hand"} => proc[p].role = "index"
                             /\ proc[p].role = "index" => proc[p].then # "update"
        /\ proc[p].pc # "exited" => (Names(p) => ~lock.failed)
        /\ Names(p) /\ lock.readied =>
             /\ p \in Children
             /\ proc[p].pc \in {"make", "failing", "compare", "remove", "exited"}
<1>1. proc \in [Processes -> Process] /\ (lock # Free => lock.pid \in Processes)
  BY DEF TypeOK, Process
<1>2. Processes = Commands \cup Children /\ Commands \cap Children = {} /\ Nobody \notin Processes
  BY NameAssumption DEF Processes
<1>3. Parts /\ Marks BY DEF Sound
<1> QED BY <1>1, <1>2, <1>3 DEF Parts, Marks, Names

LEMMA AtFacts ==
  ASSUME TypeOK, NEW p \in Processes, NEW pc
  PROVE /\ At(p, pc).pc = pc /\ At(p, pc).seen = Nobody /\ At(p, pc).then = "exited"
        /\ pc # "exited" => At(p, pc).role = proc[p].role
        /\ pc = "exited" => At(p, pc).role = "child"
<1>1. proc[p] \in Process BY DEF TypeOK, Process
<1>2. CASE pc = "exited" BY <1>2 DEF At, Unborn
<1>3. CASE pc # "exited" BY <1>1, <1>3 DEF At, Process
<1> QED BY <1>2, <1>3

LEMMA NobodyWorks ==
  ASSUME Sound, lock = Free \/ ~Works(lock.pid)
  PROVE \A x \in Processes : ~Works(x)
BY DEF Sound, AtWork, Parts, Works, Names

(* A command at work holds the lock, and alone: nobody is about to remove   *)
(* or rewrite it.                                                           *)
LEMMA HolderFacts ==
  ASSUME TypeOK, Sound, NEW p \in Commands, Works(p)
  PROVE /\ lock # Free /\ lock.pid = p /\ ~lock.failed /\ ~lock.readied
        /\ \A q \in Processes : /\ proc[q].pc \notin {"remove", "marking", "failing"}
                                /\ q \in Commands /\ proc[q].pc = "hand" => q = p
<1>1. p \in Processes BY DEF Processes
<1>2. Commands \cap Children = {} BY <1>1, Facts
<1>3. Names(p)
  BY <1>1, <1>2 DEF Sound, AtWork, Handing, HandsTo
<1>4. proc[p].pc # "exited" BY <1>1, <1>2 DEF Works
<1>5. ~lock.failed /\ ~lock.readied BY <1>1, <1>2, <1>3, <1>4, Facts
<1>6. \A q \in Processes : proc[q].pc \notin {"remove", "marking", "failing"}
  BY <1>1, <1>2, <1>3 DEF Sound, Removing, Marking, Names
<1>7. \A q \in Commands : proc[q].pc = "hand" => q = p
  <2> SUFFICES ASSUME NEW q \in Commands, proc[q].pc = "hand" PROVE q = p OBVIOUS
  <2>1. q \in Processes BY DEF Processes
  <2>2. Works(q) BY <2>1, Facts DEF Works
  <2>3. Names(q) BY <1>2, <2>1, <2>2 DEF Sound, AtWork, Handing, HandsTo
  <2> QED BY <1>3, <2>3 DEF Names
<1> QED BY <1>3, <1>5, <1>6, <1>7 DEF Names

LEMMA MildFacts ==
  ASSUME TypeOK, Sound, NEW p \in Processes, NEW new, Mild(p, new),
         proc' = [proc EXCEPT ![p] = new]
  PROVE /\ DOMAIN proc = Processes /\ Processes = Commands \cup Children
        /\ Commands \cap Children = {} /\ Nobody \notin Processes
        /\ proc'[p] = new /\ \A q \in Processes \ {p} : proc'[q] = proc[q]
        /\ \A c \in Processes : Orphan(c)' <=> Orphan(c)
        /\ \A x \in Processes : Works(x)' => Works(x)
        /\ Parts' /\ Comparing' /\ Removing'
<1>1. /\ DOMAIN proc = Processes /\ Processes = Commands \cup Children
      /\ Commands \cap Children = {} /\ Nobody \notin Processes
  BY NameAssumption DEF TypeOK, Processes
<1>2. proc'[p] = new /\ \A q \in Processes \ {p} : proc'[q] = proc[q] BY <1>1
<1>3. \A c \in Processes : Orphan(c)' <=> Orphan(c)
  BY <1>1, <1>2 DEF Mild, Orphan
<1>4. \A x \in Processes : Works(x)' => Works(x)
  <2> SUFFICES ASSUME NEW x \in Processes, Works(x)' PROVE Works(x) OBVIOUS
  <2>1. CASE x = p BY <1>2, <1>3, <2>1 DEF Mild, Works
  <2>2. CASE x # p BY <1>2, <1>3, <2>2 DEF Works
  <2> QED BY <2>1, <2>2
<1>5. Parts' BY <1>1, <1>2 DEF Sound, Parts, Mild
<1>6. Comparing' BY <1>2 DEF Sound, Comparing, Mild
<1>7. Removing' BY <1>2, <1>4 DEF Sound, Removing, Mild
<1> QED BY <1>1, <1>2, <1>3, <1>4, <1>5, <1>6, <1>7

LEMMA MildHanding ==
  ASSUME TypeOK, Sound, NEW p \in Processes, NEW new, Mild(p, new),
         proc' = [proc EXCEPT ![p] = new], \A x \in Processes : Names(x)' => Names(x)
  PROVE Handing'
<1> SUFFICES ASSUME NEW q \in Commands, proc'[q].pc = "hand"
             PROVE  \E c \in Children : HandsTo(q, c)'
  BY DEF Handing
<1>1. \A r \in Commands : proc'[r].pc = "hand" =>
        r \in Processes /\ r # p /\ proc'[r] = proc[r]
  <2> SUFFICES ASSUME NEW r \in Commands, proc'[r].pc = "hand"
               PROVE  r \in Processes /\ r # p /\ proc'[r] = proc[r]
    OBVIOUS
  <2>1. r \in Processes BY DEF Processes
  <2>2. r # p BY MildFacts DEF Mild
  <2> QED BY <2>1, <2>2, MildFacts
<1>2. PICK c \in Children : HandsTo(q, c) BY <1>1 DEF Sound, Handing
<1>3. c \in Processes BY DEF Processes
<1>4. proc'[c].pc # "unborn" BY <1>2, <1>3, MildFacts DEF Mild, HandsTo
<1>5. ~Names(c)' /\ ~Orphan(c)' BY <1>2, <1>3, MildFacts DEF HandsTo
<1> QED BY <1>1, <1>2, <1>4, <1>5 DEF HandsTo

(* A mild step that names in the lock whom it named.                        *)
LEMMA MildStep ==
  ASSUME TypeOK, Sound, NEW p \in Processes, NEW new, Mild(p, new),
         proc' = [proc EXCEPT ![p] = new],
         \A x \in Processes : Names(x)' <=> Names(x), Marks'
  PROVE Sound'
<1>1. Parts' /\ Comparing' /\ Removing' BY MildFacts
<1>2. Handing' BY MildHanding
<1>3. Orphaned' BY MildFacts DEF Sound, Orphaned, Mild
<1>4. Marking' BY MildFacts DEF Sound, Marking, Mild
<1>5. AtWork'
  <2> SUFFICES ASSUME NEW x \in Processes, Works(x)
               PROVE  (Names(x) \/ \E q \in Commands : Names(q) /\ proc[q].pc = "hand"
                                                       /\ proc[q].seen = x)'
    BY MildFacts DEF AtWork
  <2>1. CASE Names(x) BY <2>1
  <2>2. CASE ~Names(x)
    <3>1. PICK q \in Commands : Names(q) /\ proc[q].pc = "hand" /\ proc[q].seen = x
      BY <2>2 DEF Sound, AtWork
    <3>2. q \in Processes /\ q # p BY <3>1 DEF Mild, Processes
    <3>3. proc'[q] = proc[q] BY <3>2, MildFacts
    <3> QED BY <3>1, <3>2, <3>3
  <2> QED BY <2>1, <2>2
<1> QED BY <1>1, <1>2, <1>3, <1>4, <1>5 DEF Sound

(* One that leaves the lock alone.                                          *)
LEMMA QuietStep ==
  ASSUME TypeOK, Sound, NEW p \in Processes, NEW new, Mild(p, new),
         proc' = [proc EXCEPT ![p] = new], lock' = lock,
         Names(p) /\ lock.readied => new.pc \in {"make", "failing", "compare", "remove", "exited"}
  PROVE Sound'
<1>1. \A x \in Processes : Names(x)' <=> Names(x) BY DEF Names
<1>2. lock # Free => lock.pid \in Processes BY Facts
<1>3. Marks' BY <1>2, MildFacts DEF Sound, Marks, Mild, Names
<1> QED BY <1>1, <1>3, MildStep

LEMMA GoesStep ==
  ASSUME TypeOK, Sound, NEW p \in Processes, NEW pc, Goes(p, pc), lock' = lock,
         Mild(p, At(p, pc)),
         Names(p) /\ lock.readied => pc \in {"make", "failing", "exited"}
  PROVE Sound'
<1>1. proc' = [proc EXCEPT ![p] = At(p, pc)] BY DEF Goes
<1>2. At(p, pc).pc = pc BY AtFacts
<1> QED BY <1>1, <1>2, QuietStep

(* One that removes the lock while nobody is at work.                       *)
LEMMA FreeStep ==
  ASSUME TypeOK, Sound, NEW p \in Processes, NEW new, Mild(p, new),
         proc' = [proc EXCEPT ![p] = new], lock' = Free,
         \A x \in Processes : ~Works(x), new.pc \notin {"marking", "failing"}
  PROVE Sound'
<1>1. Parts' /\ Comparing' /\ Removing' BY MildFacts
<1>2. \A x : ~Names(x)' BY DEF Names
<1>3. Handing' BY <1>2, MildHanding
<1>4. Orphaned' BY <1>2, MildFacts DEF Sound, Orphaned, Mild
<1>5. Marks' BY DEF Marks
<1>6. Marking'
  <2>1. \A q \in Processes : proc[q].pc \notin {"marking", "failing"}
    BY DEF Sound, Marking, Orphaned, Works
  <2> QED BY <2>1, MildFacts DEF Marking
<1>7. AtWork' BY MildFacts DEF AtWork
<1> QED BY <1>1, <1>3, <1>4, <1>5, <1>6, <1>7 DEF Sound

(* Leaving is mild from anywhere but where a child waits to be named.       *)
LEMMA ExitMild ==
  ASSUME TypeOK, Sound, NEW p \in Processes, proc[p].pc \notin {"unborn", "exited", "hand"}
  PROVE Mild(p, At(p, "exited"))
BY Facts, AtFacts DEF Mild, ChildPlaces

(* Letting go of one's own lock, or of a failed or dead one's.              *)
LEMMA ReleasesStep ==
  ASSUME TypeOK, Sound, NEW p \in Processes, NEW pid \in Processes, NEW then \in Ends,
         proc[p].pc \notin {"unborn", "exited", "hand"},
         pid = p \/ proc[pid].pc = "exited",
         p \in Children => then = "exited", proc[p].role = "index" => then # "update",
         Releases(p, pid, then), lock' = lock
  PROVE Sound'
<1> DEFINE new == [proc[p] EXCEPT !.pc = "compare", !.seen = pid, !.then = then, !.from = 0]
<1>1. proc' = [proc EXCEPT ![p] = new] BY Facts DEF Releases
<1>2. /\ new.pc = "compare" /\ new.seen = pid /\ new.then = then /\ new.role = proc[p].role
  BY Facts DEF Process
<1> HIDE DEF new
<1>3. Mild(p, new) BY <1>2, Facts DEF Mild, ChildPlaces
<1> QED BY <1>1, <1>2, <1>3, QuietStep
-----------------------------------------------------------------------------
(* The actions, one by one.                                                 *)

LEMMA HeldIsNotFree ==
  ASSUME NEW p \in Processes, NEW readied \in BOOLEAN, NEW failed \in BOOLEAN
  PROVE [pid |-> p, readied |-> readied, failed |-> failed] # Free
BY NameAssumption DEF Processes

LEMMA SettleIndexAloneStep ==
  ASSUME TypeOK, Sound, NEW p \in Processes, SettleIndexAlone(p) PROVE Sound'
<1>1. p \in Commands BY Facts DEF SettleIndexAlone, ChildPlaces
<1>2. ~(Names(p) /\ lock.readied) BY <1>1, Facts
<1>3. Mild(p, At(p, "read")) BY <1>1, Facts, AtFacts DEF SettleIndexAlone, Mild
<1> QED BY <1>2, <1>3, GoesStep DEF SettleIndexAlone

LEMMA SettleStep ==
  ASSUME TypeOK, Sound, NEW p \in Processes, Settle(p) PROVE Sound'
<1>1. p \in Commands /\ proc[p].pc = "settle" /\ lock' = lock
  BY Facts DEF Settle, ChildPlaces
<1>2. ~(Names(p) /\ lock.readied) BY <1>1, Facts
<1>3. /\ proc[p].role = "index" => /\ Onward(proc[p].role) = "reserve"
                                   /\ Instead(proc[p].role) = "reserve"
      /\ Onward(proc[p].role) \in {"reserve", "update", "read"}
      /\ Instead(proc[p].role) \in {"reserve", "update", "read"}
  BY DEF Onward, Instead
<1>4. CASE Goes(p, Onward(proc[p].role))
  <2>1. Mild(p, At(p, Onward(proc[p].role))) BY <1>1, <1>3, Facts, AtFacts DEF Mild
  <2> QED BY <1>1, <1>2, <1>4, <2>1, GoesStep
<1>5. CASE lock # Free /\ lock.failed /\ Releases(p, lock.pid, Onward(proc[p].role))
  <2>1. lock.pid \in Processes /\ proc[lock.pid].pc = "exited" BY <1>5, Facts
  <2> QED BY <1>1, <1>3, <1>5, <2>1, Facts, ReleasesStep DEF Ends
<1>6. CASE /\ lock # Free /\ Dead
           /\ proc' = [proc EXCEPT ![p].pc = "remove", ![p].then = Instead(proc[p].role)]
  <2> DEFINE new == [proc[p] EXCEPT !.pc = "remove", !.then = Instead(proc[p].role)]
  <2>1. proc' = [proc EXCEPT ![p] = new] BY <1>6, Facts
  <2>2. new.pc = "remove" /\ new.role = proc[p].role /\ new.then = Instead(proc[p].role)
    BY Facts DEF Process
  <2>3. \A x \in Processes : ~Works(x)
    <3>1. ~Works(lock.pid) BY <1>6 DEF Dead, Alive, Works
    <3> QED BY <3>1, NobodyWorks
  <2> HIDE DEF new
  <2>4. Mild(p, new) BY <1>1, <1>3, <2>2, <2>3, Facts DEF Mild
  <2> QED BY <1>1, <1>2, <2>1, <2>4, QuietStep
<1> QED BY <1>4, <1>5, <1>6 DEF Settle

LEMMA CompareStep ==
  ASSUME TypeOK, Sound, NEW p \in Processes, Compare(p) PROVE Sound'
<1>1. proc[p].pc = "compare" /\ lock' = lock BY DEF Compare
<1>2. CASE Names(proc[p].seen)
  <2> DEFINE new == [proc[p] EXCEPT !.pc = "remove", !.seen = Nobody]
  <2>1. proc' = [proc EXCEPT ![p] = new] BY <1>2, Facts DEF Compare
  <2>2. new.pc = "remove" /\ new.role = proc[p].role /\ new.then = proc[p].then
    BY Facts DEF Process
  <2>3. \A x \in Processes : ~Works(x)
    <3>1. proc[lock.pid].pc \in {"compare", "exited"} BY <1>1, <1>2 DEF Sound, Comparing, Names
    <3>2. ~Works(lock.pid) BY <3>1 DEF Works
    <3> QED BY <3>2, NobodyWorks
  <2> HIDE DEF new
  <2>4. Mild(p, new) BY <1>1, <2>2, <2>3, Facts DEF Mild, ChildPlaces
  <2> QED BY <1>1, <2>1, <2>2, <2>4, QuietStep
<1>3. CASE ~Names(proc[p].seen)
  <2>1. Goes(p, proc[p].then) BY <1>3 DEF Compare
  <2>2. proc[p].then \in Ends BY Facts DEF Process
  <2>3. Mild(p, At(p, proc[p].then)) BY <1>1, <2>2, Facts, AtFacts DEF Mild, Ends, ChildPlaces
  <2>4. Names(p) /\ lock.readied => proc[p].then = "exited" BY Facts
  <2> QED BY <1>1, <2>1, <2>3, <2>4, GoesStep
<1> QED BY <1>2, <1>3

LEMMA RemoveStep ==
  ASSUME TypeOK, Sound, NEW p \in Processes, Remove(p) PROVE Sound'
<1>1. proc[p].pc = "remove" /\ lock' = Free /\ Goes(p, proc[p].then) BY DEF Remove
<1>2. \A x \in Processes : ~Works(x) BY <1>1 DEF Sound, Removing
<1>3. proc[p].then \in Ends BY Facts DEF Process
<1>4. Mild(p, At(p, proc[p].then)) BY <1>1, <1>3, Facts, AtFacts DEF Mild, Ends, ChildPlaces
<1>5. At(p, proc[p].then).pc \notin {"marking", "failing"} BY <1>3, AtFacts DEF Ends
<1>6. proc' = [proc EXCEPT ![p] = At(p, proc[p].then)] BY <1>1 DEF Goes
<1> QED BY <1>1, <1>2, <1>4, <1>5, <1>6, FreeStep

LEMMA AnswerStep ==
  ASSUME TypeOK, Sound, NEW p \in Processes, Answer(p) PROVE Sound'
BY ExitMild, GoesStep DEF Answer

LEMMA AwaitStep ==
  ASSUME TypeOK, Sound, NEW p \in Processes, Await(p) PROVE Sound'
<1>1. p \in Commands /\ proc[p].pc = "await" /\ lock' = lock
  BY Facts DEF Await, ChildPlaces
<1>2. ~(Names(p) /\ lock.readied) BY <1>1, Facts
<1>3. CASE Goes(p, "reserve")
  <2>1. Mild(p, At(p, "reserve")) BY <1>1, Facts, AtFacts DEF Mild
  <2> QED BY <1>1, <1>2, <1>3, <2>1, GoesStep
<1>4. CASE lock # Free /\ (lock.failed \/ Dead) /\ Releases(p, lock.pid, "reserve")
  <2>1. lock.pid \in Processes /\ proc[lock.pid].pc # "unborn" BY <1>4, Facts DEF Sound, Marks
  <2>2. proc[lock.pid].pc = "exited"
    BY <1>4, <2>1 DEF Sound, Marks, Dead, Alive
  <2>3. p \notin Children BY <1>1, Facts
  <2> QED BY <1>1, <1>4, <2>1, <2>2, <2>3, ReleasesStep DEF Ends
<1> QED BY <1>3, <1>4 DEF Await

LEMMA UpdateFailsStep ==
  ASSUME TypeOK, Sound, NEW p \in Processes, UpdateFails(p) PROVE Sound'
BY ReleasesStep DEF UpdateFails, Ends

LEMMA ReadyStep ==
  ASSUME TypeOK, Sound, NEW p \in Processes, Ready(p) PROVE Sound'
<1> DEFINE pc == IF proc[p].role = "child" THEN "mark" ELSE "make"
           new == [proc[p] EXCEPT !.pc = pc, !.from = index]
<1>1. proc' = [proc EXCEPT ![p] = new] BY Facts DEF Ready
<1>2. new.pc = pc /\ new.role = proc[p].role /\ new.then = proc[p].then BY Facts DEF Process
<1>3. proc[p].pc = "ready" /\ lock' = lock BY DEF Ready
<1>4. pc = IF p \in Children THEN "mark" ELSE "make" BY <1>3, Facts
<1> HIDE DEF new, pc
<1>5. Mild(p, new) BY <1>2, <1>3, <1>4, Facts DEF Mild, ChildPlaces, Works
<1>6. ~(Names(p) /\ lock.readied) BY <1>3, Facts
<1> QED BY <1>1, <1>3, <1>5, <1>6, QuietStep

LEMMA MarkStep ==
  ASSUME TypeOK, Sound, NEW p \in Processes, Mark(p) PROVE Sound'
<1>1. p \in Children /\ proc[p].pc = "mark" /\ lock' = lock BY Facts DEF Mark
<1>2. CASE Names(p) /\ Goes(p, "marking")
  <2>1. Mild(p, At(p, "marking")) BY <1>1, <1>2, Facts, AtFacts DEF Mild, ChildPlaces, Works
  <2>2. ~lock.readied BY <1>1, <1>2, Facts
  <2> QED BY <1>1, <1>2, <2>1, <2>2, GoesStep
<1>3. CASE Goes(p, "make")
  <2>1. Mild(p, At(p, "make")) BY <1>1, <1>3, Facts, AtFacts DEF Mild, ChildPlaces, Works
  <2> QED BY <1>1, <1>3, <2>1, GoesStep
<1> QED BY <1>2, <1>3 DEF Mark

LEMMA MakeStep ==
  ASSUME TypeOK, Sound, NEW p \in Processes, Make(p) PROVE Sound'
<1>1. proc[p].pc = "make" /\ lock' = lock BY DEF Make
<1>2. CASE Releases(p, p, "exited") BY <1>1, <1>2, ReleasesStep DEF Ends
<1>3. CASE proc[p].role = "child" /\ Names(p) /\ Goes(p, "failing")
  <2>1. p \in Children BY <1>1, <1>3, Facts
  <2>2. Mild(p, At(p, "failing")) BY <1>1, <1>3, <2>1, Facts, AtFacts DEF Mild, ChildPlaces, Works
  <2> QED BY <1>1, <1>3, <2>2, GoesStep
<1>4. CASE Goes(p, "exited") BY <1>1, <1>4, ExitMild, GoesStep
<1>5. CASE proc[p].role = "ask" /\ Goes(p, "read")
  <2>1. p \in Commands BY <1>5, Facts
  <2>2. ~(Names(p) /\ lock.readied) BY <2>1, Facts
  <2>3. Mild(p, At(p, "read")) BY <1>1, <1>5, <2>1, Facts, AtFacts DEF Mild
  <2> QED BY <1>1, <1>5, <2>2, <2>3, GoesStep
<1> QED BY <1>2, <1>3, <1>4, <1>5 DEF Make

(* The index moved, or not; a command that indexes is at work already.      *)
LEMMA UpdateStep ==
  ASSUME TypeOK, Sound, NEW p \in Processes, Update(p) PROVE Sound'
<1>1. proc[p].pc = "update" /\ lock' = lock BY DEF Update
<1>2. ~(Names(p) /\ lock.readied) BY <1>1, Facts
<1>3. CASE proc[p].role = "index" /\ Goes(p, "detach")
  <2>1. p \in Commands BY <1>1, <1>3, Facts
  <2>2. Mild(p, At(p, "detach")) BY <1>1, <1>3, <2>1, Facts, AtFacts DEF Mild, Works
  <2> QED BY <1>1, <1>2, <1>3, <2>2, GoesStep
<1>4. CASE Goes(p, "ready")
  <2>1. Mild(p, At(p, "ready")) BY <1>1, <1>4, Facts, AtFacts DEF Mild, ChildPlaces, Works
  <2> QED BY <1>1, <1>2, <1>4, <2>1, GoesStep
<1> QED BY <1>3, <1>4 DEF Update

(* The lock file is made, with nothing in it: nothing changes yet.          *)
LEMMA ReserveStep ==
  ASSUME TypeOK, Sound, NEW p \in Processes, Reserve(p) PROVE Sound'
<1>1. p \in Commands /\ proc[p].pc = "reserve" /\ lock' = lock
  BY Facts DEF Reserve, ChildPlaces
<1>2. PICK pc \in {"writing", "await"} : Goes(p, pc) BY DEF Reserve
<1>3. Mild(p, At(p, pc)) BY <1>1, <1>2, Facts, AtFacts DEF Mild
<1>4. ~(Names(p) /\ lock.readied) BY <1>1, Facts
<1> QED BY <1>1, <1>2, <1>3, <1>4, GoesStep

(* A command that could not make it goes on without one.                    *)
LEMMA ReserveFailsStep ==
  ASSUME TypeOK, Sound, NEW p \in Processes, ReserveFails(p) PROVE Sound'
<1> DEFINE new == [At(p, "update") EXCEPT !.role = "wait"]
<1>1. /\ p \in Commands /\ proc[p].pc \in {"reserve", "writing"} /\ lock' = lock
      /\ proc' = [proc EXCEPT ![p] = new]
  BY Facts DEF ReserveFails, ChildPlaces
<1>2. /\ new.pc = "update" /\ new.role = "wait" /\ new.then = "exited" /\ new.seen = Nobody
  BY Facts DEF At, Process
<1> HIDE DEF new
<1>3. Mild(p, new) BY <1>1, <1>2, Facts DEF Mild
<1>4. ~(Names(p) /\ lock.readied) BY <1>1, Facts
<1> QED BY <1>1, <1>3, <1>4, QuietStep

(* It is written while there is nothing in it: nobody is at work, and       *)
(* nobody is about to remove it.                                            *)
LEMMA WriteLockStep ==
  ASSUME TypeOK, Sound, Making, NEW p \in Processes, WriteLock(p) PROVE Sound'
<1>1. p \in Commands /\ proc[p].pc = "writing" BY Facts DEF WriteLock, ChildPlaces
<1>2. blank = p /\ p # Nobody BY <1>1, Facts DEF Making
<1>3. lock = Free /\ \A q \in Processes : proc[q].pc # "remove" BY <1>2 DEF Making
<1>4. lock' = Held(p) /\ Goes(p, "update") BY <1>2 DEF WriteLock
<1>5. \A x \in Processes : ~Works(x) BY <1>3, NobodyWorks
<1>6. \A q \in Commands : proc[q].pc # "hand" BY <1>5, Facts DEF Processes, Works
<1>7. \A q \in Processes : proc[q].pc \notin {"remove", "marking", "failing"}
  BY <1>3 DEF Sound, Marking, Names
<1>8. /\ proc'[p].pc = "update" /\ proc'[p].role = proc[p].role
      /\ proc'[p].then = "exited"
      /\ \A q \in Processes \ {p} : proc'[q] = proc[q]
      /\ Processes = Commands \cup Children /\ Commands \cap Children = {}
  BY <1>4, Facts, AtFacts DEF Goes
<1>9. \A x \in Processes : Orphan(x)' <=> Orphan(x) BY <1>1, <1>8 DEF Orphan
<1>10. lock'.pid = p /\ ~lock'.failed /\ ~lock'.readied /\ lock' # Free
  BY <1>4, HeldIsNotFree DEF Held
<1>11. Parts' BY <1>1, <1>8 DEF Sound, Parts
<1>12. Handing' BY <1>6, <1>8 DEF Handing
<1>13. Orphaned' BY <1>1, <1>8, <1>9, <1>10 DEF Sound, Orphaned, Names
<1>14. Marks' BY <1>8, <1>10 DEF Marks
<1>15. Marking' BY <1>7, <1>8 DEF Marking
<1>16. Comparing' BY <1>1, <1>8 DEF Sound, Comparing
<1>17. Removing' BY <1>7, <1>8 DEF Removing
<1>18. AtWork'
  <2>1. \A x \in Processes : Works(x)' => x = p BY <1>5, <1>8, <1>9 DEF Works
  <2> QED BY <1>10, <2>1 DEF AtWork, Names
<1> QED BY <1>11, <1>12, <1>13, <1>14, <1>15, <1>16, <1>17, <1>18 DEF Sound

(* A child starts while its parent holds the lock.                          *)
LEMMA DetachStep ==
  ASSUME TypeOK, Sound, NEW p \in Processes, Detach(p) PROVE Sound'
<1>1. p \in Commands /\ proc[p].pc = "detach" /\ proc[p].role = "index" /\ lock' = lock
  BY Facts DEF Detach, ChildPlaces
<1>2. Works(p) BY <1>1 DEF Works
<1>3. CASE Goes(p, "ready")
  <2>1. Mild(p, At(p, "ready")) BY <1>1, <1>2, Facts, AtFacts DEF Mild
  <2>2. ~(Names(p) /\ lock.readied) BY <1>1, Facts
  <2> QED BY <1>1, <1>3, <2>1, <2>2, GoesStep
<1>4. ASSUME NEW c \in Children, proc[c].pc = "unborn",
             proc' = [proc EXCEPT ![c].pc = "update", ![p].pc = "hand", ![p].seen = c]
      PROVE  Sound'
  <2>1. /\ lock # Free /\ lock.pid = p /\ ~lock.failed /\ ~lock.readied
        /\ \A q \in Processes : /\ proc[q].pc \notin {"remove", "marking", "failing"}
                                /\ q \in Commands => proc[q].pc # "hand"
    BY <1>1, <1>2, HolderFacts
  <2>2. /\ Processes = Commands \cup Children /\ Commands \cap Children = {} /\ c # p
        /\ c \in Processes /\ DOMAIN proc = Processes
    BY <1>1, Facts DEF Processes
  <2>3. /\ proc'[c].pc = "update" /\ proc'[c].role = proc[c].role
        /\ proc'[c].then = proc[c].then
    BY <1>4, <2>2, Facts DEF Process
  <2>4. /\ proc'[p].pc = "hand" /\ proc'[p].role = "index" /\ proc'[p].seen = c
        /\ proc'[p].then = proc[p].then
    BY <1>1, <1>4, <2>2, Facts DEF Process
  <2>5. \A q \in Processes \ {p, c} : proc'[q] = proc[q] BY <1>4, <2>2
  <2>6. \A x \in Processes : Orphan(x)' <=> Orphan(x)
    BY <1>1, <2>2, <2>4, <2>5 DEF Orphan
  <2>7. ~Orphan(c) /\ ~Names(c) BY <1>4, <2>1, <2>2 DEF Sound, Orphaned, Names
  <2>8. Parts'
    BY <1>1, <2>2, <2>3, <2>4, <2>5 DEF Sound, Parts, ChildPlaces
  <2>9. Handing'
    <3>1. \A q \in Commands : proc'[q].pc = "hand" => q = p BY <2>1, <2>2, <2>5
    <3>2. HandsTo(p, c)'
      BY <1>1, <2>2, <2>3, <2>4, <2>6, <2>7, <3>1 DEF HandsTo, Names
    <3> QED BY <3>1, <3>2 DEF Handing
  <2>10. Orphaned'
    BY <1>1, <2>2, <2>3, <2>5, <2>6 DEF Sound, Orphaned, Names
  <2>11. Marks' BY <1>1, <2>1, <2>4 DEF Marks
  <2>12. Marking' BY <2>1, <2>2, <2>3, <2>4, <2>5 DEF Marking
  <2>13. Comparing'
    BY <1>1, <1>4, <2>2, <2>3, <2>4, <2>5 DEF Sound, Comparing
  <2>14. Removing' BY <2>1, <2>2, <2>3, <2>4, <2>5 DEF Removing
  <2>15. AtWork'
    <3>1. \A x \in Processes \ {p, c} : ~Works(x)
      BY <2>1 DEF Sound, AtWork, Names
    <3>2. \A x \in Processes : Works(x)' => x \in {p, c} BY <2>5, <2>6, <3>1 DEF Works
    <3>3. Names(p)' BY <1>1, <2>1 DEF Names
    <3> QED BY <1>1, <2>4, <3>2, <3>3 DEF AtWork
  <2> QED BY <2>8, <2>9, <2>10, <2>11, <2>12, <2>13, <2>14, <2>15 DEF Sound
<1> QED BY <1>3, <1>4 DEF Detach

(* A parent about to hand the lock over, and the child that waits for it.   *)
LEMMA HandFacts ==
  ASSUME TypeOK, Sound, NEW p \in Processes, p \in Commands, proc[p].pc = "hand"
  PROVE /\ lock # Free /\ lock.pid = p /\ ~lock.failed /\ ~lock.readied
        /\ \A q \in Processes \ {p} : /\ proc[q].pc \notin {"remove", "marking", "failing"}
                                      /\ q \in Commands => proc[q].pc # "hand"
        /\ proc[p].seen \in Children /\ HandsTo(p, proc[p].seen)
        /\ \A x \in Processes \ {p, proc[p].seen} : ~Works(x)
<1>1. Works(p) BY Facts DEF Works
<1>2. /\ lock # Free /\ lock.pid = p /\ ~lock.failed /\ ~lock.readied
      /\ \A q \in Processes \ {p} : /\ proc[q].pc \notin {"remove", "marking", "failing"}
                                    /\ q \in Commands => proc[q].pc # "hand"
  BY <1>1, HolderFacts
<1>3. proc[p].seen \in Children /\ HandsTo(p, proc[p].seen)
  BY DEF Sound, Handing, HandsTo
<1>4. \A x \in Processes \ {p, proc[p].seen} : ~Works(x)
  BY <1>2 DEF Sound, AtWork, Names
<1> QED BY <1>2, <1>3, <1>4

(* The lock names the child from now on.                                    *)
LEMMA HandStep ==
  ASSUME TypeOK, Sound, NEW p \in Processes, Hand(p) PROVE Sound'
<1>1. p \in Commands /\ proc[p].pc = "hand" /\ Releases(p, p, "exited")
      /\ lock' = Held(proc[p].seen)
  BY Facts DEF Hand, ChildPlaces
<1>2. PICK c \in Children :
        /\ c = proc[p].seen /\ HandsTo(p, c) /\ \A x \in Processes \ {p, c} : ~Works(x)
  BY <1>1, HandFacts
<1>3. \A q \in Processes \ {p} : /\ proc[q].pc \notin {"remove", "marking", "failing"}
                                 /\ q \in Commands => proc[q].pc # "hand"
  BY <1>1, HandFacts
<1>4. /\ proc'[p].pc = "compare" /\ proc'[p].role = proc[p].role
      /\ proc'[p].seen = p /\ proc'[p].then = "exited"
  BY <1>1, Facts DEF Releases, Process
<1>5. /\ \A q \in Processes \ {p} : proc'[q] = proc[q]
      /\ Processes = Commands \cup Children /\ Commands \cap Children = {}
      /\ c \in Processes /\ c # p
  BY <1>1, Facts DEF Releases, Processes
<1>6. \A x \in Processes : Orphan(x)' <=> Orphan(x) BY <1>1, <1>4, <1>5 DEF Orphan
<1>7. lock'.pid = c /\ ~lock'.failed /\ ~lock'.readied /\ lock' # Free
  BY <1>1, <1>2, <1>5, HeldIsNotFree DEF Held
<1>8. Parts' BY <1>1, <1>4, <1>5 DEF Sound, Parts
<1>9. Handing' BY <1>3, <1>4, <1>5 DEF Handing
<1>10. Orphaned' BY <1>2, <1>4, <1>5, <1>6, <1>7 DEF Sound, Orphaned, Names, HandsTo
<1>11. Marks' BY <1>2, <1>5, <1>7 DEF Marks, HandsTo
<1>12. Marking' BY <1>3, <1>4, <1>5 DEF Marking
<1>13. Comparing' BY <1>1, <1>4, <1>5 DEF Sound, Comparing
<1>14. Removing' BY <1>3, <1>4, <1>5 DEF Removing
<1>15. AtWork'
  <2>1. \A x \in Processes : Works(x)' => x = c
    BY <1>1, <1>2, <1>4, <1>5, <1>6 DEF Works
  <2> QED BY <1>7, <2>1 DEF AtWork, Names
<1> QED BY <1>8, <1>9, <1>10, <1>11, <1>12, <1>13, <1>14, <1>15 DEF Sound

LEMMA WriteMarkStep ==
  ASSUME TypeOK, Sound, NEW p \in Processes, WriteMark(p) PROVE Sound'
<1>1. /\ proc[p].pc = "marking" /\ p \in Children /\ Names(p)
      /\ proc' = [proc EXCEPT ![p] = At(p, "make")]
      /\ lock' = [Held(p) EXCEPT !.readied = TRUE]
  BY DEF WriteMark, Sound, Marking, Goes
<1>2. Mild(p, At(p, "make")) BY <1>1, Facts, AtFacts DEF Mild, ChildPlaces, Works
<1>3. lock'.pid = p /\ lock'.readied /\ ~lock'.failed /\ lock' # Free
  BY <1>1, HeldIsNotFree DEF Held
<1>4. \A x \in Processes : Names(x)' <=> Names(x) BY <1>1, <1>3 DEF Names
<1>5. proc'[p].pc = "make" BY <1>1, Facts, AtFacts
<1>6. Marks' BY <1>1, <1>3, <1>5 DEF Marks
<1> QED BY <1>1, <1>2, <1>4, <1>6, MildStep

LEMMA WriteFailedStep ==
  ASSUME TypeOK, Sound, NEW p \in Processes, WriteFailed(p) PROVE Sound'
<1>1. /\ proc[p].pc = "failing" /\ p \in Children /\ Names(p)
      /\ proc' = [proc EXCEPT ![p] = At(p, "exited")]
      /\ lock' = [pid |-> p, readied |-> lock # Free /\ lock.readied, failed |-> TRUE]
  BY DEF WriteFailed, Sound, Marking, Goes
<1>2. Mild(p, At(p, "exited")) BY <1>1, ExitMild
<1>3. lock'.pid = p /\ lock'.failed /\ lock' # Free
  BY <1>1, HeldIsNotFree DEF TypeOK
<1>4. \A x \in Processes : Names(x)' <=> Names(x) BY <1>1, <1>3 DEF Names
<1>5. proc'[p].pc = "exited" BY <1>1, Facts, AtFacts
<1>6. Marks' BY <1>1, <1>3, <1>5 DEF Marks
<1> QED BY <1>1, <1>2, <1>4, <1>6, MildStep

(* A killed process leaves its lock; killed before it handed it over, a     *)
(* child that is never named.                                               *)
LEMMA KillStep ==
  ASSUME TypeOK, Sound, NEW p \in Processes, Kill(p) PROVE Sound'
<1> DEFINE new == [At(p, "exited") EXCEPT
                    !.seen = IF proc[p].pc = "hand" THEN proc[p].seen ELSE Nobody]
<1>1. proc[p].pc \notin {"unborn", "exited"} /\ lock' = lock
      /\ proc' = [proc EXCEPT ![p] = new]
  BY DEF Kill, Alive
<1>2. /\ new.pc = "exited" /\ new.role = "child" /\ new.then = "exited"
      /\ new.seen = IF proc[p].pc = "hand" THEN proc[p].seen ELSE Nobody
  BY DEF At, Unborn
<1> HIDE DEF new
<1>3. CASE proc[p].pc # "hand"
  <2>1. Mild(p, new) BY <1>1, <1>2, <1>3, Facts DEF Mild, ChildPlaces
  <2> QED BY <1>1, <1>2, <2>1, QuietStep
<1>4. CASE proc[p].pc = "hand"
  <2>1. p \in Commands BY <1>4, Facts DEF ChildPlaces
  <2>2. PICK c \in Children :
          /\ c = proc[p].seen /\ HandsTo(p, c) /\ \A x \in Processes \ {p, c} : ~Works(x)
    BY <1>4, <2>1, HandFacts
  <2>3. /\ lock # Free /\ lock.pid = p /\ ~lock.failed /\ ~lock.readied
        /\ \A q \in Processes \ {p} : /\ proc[q].pc \notin {"remove", "marking", "failing"}
                                      /\ q \in Commands => proc[q].pc # "hand"
    BY <1>4, <2>1, HandFacts
  <2>4. /\ proc'[p] = new /\ \A q \in Processes \ {p} : proc'[q] = proc[q]
        /\ Processes = Commands \cup Children /\ Commands \cap Children = {}
        /\ c \in Processes /\ c # p
    BY <1>1, <2>1, Facts DEF Processes
  <2>5. \A x \in Processes : Orphan(x)' <=> Orphan(x) \/ x = c
    BY <1>2, <1>4, <2>1, <2>2, <2>4 DEF Orphan
  <2>6. Parts' BY <1>2, <2>1, <2>4 DEF Sound, Parts
  <2>7. Handing' BY <1>2, <2>3, <2>4 DEF Handing
  <2>8. Orphaned'
    BY <1>1, <2>1, <2>2, <2>4, <2>5 DEF Sound, Orphaned, Names, HandsTo
  <2>9. Marks' BY <1>1, <1>2, <2>3, <2>4 DEF Marks
  <2>10. Marking' BY <1>2, <2>3, <2>4 DEF Marking
  <2>11. Comparing' BY <1>2, <2>4 DEF Sound, Comparing
  <2>12. Removing' BY <1>2, <2>3, <2>4 DEF Removing
  <2>13. AtWork'
    <3>1. \A x \in Processes : ~Works(x)' BY <1>2, <2>1, <2>2, <2>4, <2>5 DEF Works
    <3> QED BY <3>1 DEF AtWork
  <2> QED BY <2>6, <2>7, <2>8, <2>9, <2>10, <2>11, <2>12, <2>13 DEF Sound
<1> QED BY <1>3, <1>4
-----------------------------------------------------------------------------
(* What the lock promises.                                                  *)

LEMMA InitSound == Init => Sound
<1> SUFFICES ASSUME Init PROVE Sound OBVIOUS
<1>1. Processes = Commands \cup Children /\ Commands \cap Children = {}
  BY NameAssumption DEF Processes
<1>2. \A c \in Children : proc[c] = Unborn BY <1>1 DEF Init
<1>3. \A p \in Commands : \E role \in Roles : proc[p] = Started(role) BY <1>1 DEF Init
<1>4. \A c \in Children : /\ proc[c].pc = "unborn" /\ proc[c].role = "child"
                          /\ proc[c].then = "exited"
  BY <1>2 DEF Unborn
<1>5. \A p \in Commands : /\ proc[p].pc = "settle" /\ proc[p].role # "child"
                          /\ proc[p].then = "exited"
  BY <1>3, RoleAssumption DEF Started, Unborn
<1>6. \A x \in Processes : ~Works(x) BY <1>1, <1>4, <1>5 DEF Works
<1>7. \A x \in Processes : ~Orphan(x) BY <1>5 DEF Orphan
<1>8. Parts BY <1>4, <1>5 DEF Parts, ChildPlaces
<1>9. Handing /\ Orphaned BY <1>1, <1>5, <1>7 DEF Handing, Orphaned
<1>10. Marks BY DEF Init, Marks
<1>11. Marking /\ Comparing /\ Removing /\ AtWork
  BY <1>1, <1>4, <1>5, <1>6 DEF Marking, Comparing, Removing, AtWork
<1> QED BY <1>8, <1>9, <1>10, <1>11 DEF Sound

LEMMA InitMaking == Init => Making
<1> SUFFICES ASSUME Init PROVE Making OBVIOUS
<1>1. \A p \in Processes : \/ proc[p] = Unborn
                           \/ \E role \in Roles : proc[p] = Started(role)
  BY DEF Init
<1>2. Unborn.pc = "unborn" /\ \A role \in Roles : Started(role).pc = "settle"
  BY DEF Started, Unborn
<1>3. \A p \in Processes : proc[p].pc \in {"unborn", "settle"} BY <1>1, <1>2
<1> QED BY <1>3 DEF Init, Making

(* The lock file that has nothing in it.                                    *)
LEMMA MakingKept ==
  ASSUME Making, UNCHANGED <<lock, blank>>,
         \A q \in Processes : /\ proc'[q].pc = "writing" => proc[q].pc = "writing"
                              /\ proc'[q].pc = "remove" => proc[q].pc = "remove" \/ lock # Free
  PROVE  Making'
BY DEF Making

(* A step of one process, which goes on to something else.                  *)
LEMMA MakingMove ==
  ASSUME TypeOK, Sound, Making, NEW p \in Processes, NEW new,
         proc' = [proc EXCEPT ![p] = new], UNCHANGED <<lock, blank>>,
         new.pc # "writing", new.pc = "remove" => lock # Free
  PROVE  Making'
<1>1. proc'[p] = new /\ \A q \in Processes \ {p} : proc'[q] = proc[q] BY Facts
<1>2. \A q \in Processes : /\ proc'[q].pc = "writing" => proc[q].pc = "writing"
                           /\ proc'[q].pc = "remove" => proc[q].pc = "remove" \/ lock # Free
  BY <1>1
<1> QED BY <1>2, MakingKept

LEMMA MakingGoes ==
  ASSUME TypeOK, Sound, Making, NEW p \in Processes, NEW pc, Goes(p, pc),
         pc \notin {"writing", "remove"}, UNCHANGED <<lock, blank>>
  PROVE  Making'
<1>1. proc' = [proc EXCEPT ![p] = At(p, pc)] BY DEF Goes
<1>2. At(p, pc).pc = pc BY AtFacts
<1> QED BY <1>1, <1>2, MakingMove

LEMMA MakingReleases ==
  ASSUME TypeOK, Sound, Making, NEW p \in Processes, NEW pid, NEW then,
         Releases(p, pid, then), UNCHANGED <<lock, blank>>
  PROVE  Making'
<1> DEFINE new == [proc[p] EXCEPT !.pc = "compare", !.seen = pid, !.then = then, !.from = 0]
<1>1. proc' = [proc EXCEPT ![p] = new] BY Facts DEF Releases
<1>2. new.pc = "compare" BY Facts DEF Process
<1> HIDE DEF new
<1> QED BY <1>1, <1>2, MakingMove

(* One that writes the lock, or removes it: there was no empty one.         *)
LEMMA MakingEnds ==
  ASSUME TypeOK, Sound, Making, NEW p \in Processes, NEW new,
         proc' = [proc EXCEPT ![p] = new], new.pc # "writing", blank' = Nobody,
         lock # Free \/ proc[p].pc = "remove"
  PROVE  Making'
<1>1. proc'[p] = new /\ \A q \in Processes \ {p} : proc'[q] = proc[q] BY Facts
<1>2. blank = Nobody BY DEF Making
<1>3. \A q \in Processes : proc[q].pc # "writing" BY <1>2, Facts DEF Making
<1> QED BY <1>1, <1>3 DEF Making

LEMMA MakingStep == ASSUME Prompt, TypeOK, Sound, Making, [Next]_vars PROVE Making'
<1>1. CASE UNCHANGED vars BY <1>1, MakingKept DEF vars
<1>2. CASE Next
  <2> SUFFICES ASSUME NEW p \in Processes, Proceed(p) \/ ReserveFails(p) \/ Kill(p)
               PROVE  Making'
    BY <1>2 DEF Next
  <2>1. proc \in [Processes -> Process] /\ proc[p].then \in Ends BY Facts DEF Process
  <2>2. proc[p].then \notin {"writing", "remove"} BY <2>1 DEF Ends
  <2>3. \A pc \in Places \ {"writing", "remove"} :
          Goes(p, pc) /\ UNCHANGED <<lock, blank>> => Making'
    BY MakingGoes
  <2>4. CASE SettleIndexAlone(p) BY <2>3, <2>4 DEF SettleIndexAlone, Places
  <2>5. CASE Settle(p)
    <3>1. Onward(proc[p].role) \in {"reserve", "update", "read"} BY DEF Onward
    <3>2. CASE Goes(p, Onward(proc[p].role)) BY <2>3, <2>5, <3>1, <3>2 DEF Settle, Places
    <3>3. CASE Releases(p, lock.pid, Onward(proc[p].role))
      BY <2>5, <3>3, MakingReleases DEF Settle
    <3>4. CASE /\ lock # Free
               /\ proc' = [proc EXCEPT ![p].pc = "remove", ![p].then = Instead(proc[p].role)]
      <4> DEFINE new == [proc[p] EXCEPT !.pc = "remove", !.then = Instead(proc[p].role)]
      <4>1. proc' = [proc EXCEPT ![p] = new] BY <2>1, <3>4
      <4>2. new.pc = "remove" BY <2>1 DEF Process
      <4> HIDE DEF new
      <4> QED BY <2>5, <3>4, <4>1, <4>2, MakingMove DEF Settle
    <3> QED BY <2>5, <3>2, <3>3, <3>4 DEF Settle
  <2>6. CASE Compare(p)
    <3>1. CASE Names(proc[p].seen)
      <4> DEFINE new == [proc[p] EXCEPT !.pc = "remove", !.seen = Nobody]
      <4>1. proc' = [proc EXCEPT ![p] = new] BY <2>1, <2>6, <3>1 DEF Compare
      <4>2. new.pc = "remove" /\ lock # Free BY <2>1, <3>1 DEF Process, Names
      <4> HIDE DEF new
      <4> QED BY <2>6, <4>1, <4>2, MakingMove DEF Compare
    <3>2. CASE ~Names(proc[p].seen)
      BY <2>1, <2>2, <2>3, <2>6, <3>2 DEF Compare, Ends, Places
    <3> QED BY <3>1, <3>2
  <2>7. CASE Remove(p)
    <3>1. At(p, proc[p].then).pc # "writing" BY <2>2, AtFacts
    <3> QED BY <2>7, <3>1, MakingEnds DEF Remove, Goes
  <2>8. CASE Answer(p) BY <2>3, <2>8 DEF Answer, Places
  <2>9. CASE Reserve(p)
    <3>1. CASE Goes(p, "await") /\ UNCHANGED blank BY <2>3, <2>9, <3>1 DEF Reserve, Places
    <3>2. CASE lock = Free /\ blank = Nobody /\ blank' = p /\ Goes(p, "writing")
      <4>1. proc'[p].pc = "writing" /\ \A q \in Processes \ {p} : proc'[q] = proc[q]
        BY <2>1, <3>2, AtFacts DEF Goes
      <4>2. \A q \in Processes \ {p} : proc[q].pc \notin {"writing", "remove"}
        BY <2>9, <3>2, Facts DEF Reserve, Undisturbed, Making
      <4> QED BY <2>9, <3>2, <4>1, <4>2 DEF Reserve, Making
    <3> QED BY <2>9, <3>1, <3>2 DEF Reserve
  <2>10. CASE WriteLock(p)
    <3>1. blank = p /\ p # Nobody BY <2>10, Facts DEF WriteLock, Making
    <3>2. blank' = Nobody /\ proc' = [proc EXCEPT ![p] = At(p, "update")]
      BY <2>10, <3>1 DEF WriteLock, Goes
    <3>3. proc'[p].pc = "update" /\ \A q \in Processes \ {p} : proc'[q] = proc[q]
      BY <2>1, <3>2, AtFacts
    <3> QED BY <3>1, <3>2, <3>3 DEF Making
  <2>11. CASE Await(p)
    BY <2>3, <2>11, MakingReleases DEF Await, Places
  <2>12. CASE Update(p)
    <3>1. Goes(p, "detach") \/ Goes(p, "ready") BY <2>12 DEF Update
    <3> QED BY <2>3, <2>12, <3>1 DEF Update, Places
  <2>13. CASE UpdateFails(p) BY <2>13, MakingReleases DEF UpdateFails
  <2>14. CASE Detach(p)
    <3>1. CASE Goes(p, "ready") BY <2>3, <2>14, <3>1 DEF Detach, Places
    <3>2. ASSUME NEW c \in Children,
                 proc' = [proc EXCEPT ![c].pc = "update", ![p].pc = "hand", ![p].seen = c]
          PROVE  Making'
      <4>1. \A q \in Processes \ {p, c} : proc'[q] = proc[q] BY <2>1, <3>2
      <4>2. c \in Processes /\ p \in Commands /\ c # p
        BY <2>14, Facts DEF Detach, ChildPlaces, Processes
      <4>3. proc'[p].pc = "hand" /\ proc'[c].pc = "update"
        BY <2>1, <3>2, <4>2 DEF Process
      <4> QED BY <2>14, <4>1, <4>3, MakingKept DEF Detach
    <3> QED BY <2>14, <3>1, <3>2 DEF Detach
  <2>15. CASE Hand(p)
    <3> DEFINE new == [proc[p] EXCEPT !.pc = "compare", !.seen = p, !.then = "exited",
                                      !.from = 0]
    <3>1. proc' = [proc EXCEPT ![p] = new] BY <2>1, <2>15 DEF Hand, Releases
    <3>2. new.pc = "compare" BY <2>1 DEF Process
    <3>3. lock # Free BY <2>15, Facts, HandFacts DEF Hand, ChildPlaces
    <3> HIDE DEF new
    <3> QED BY <2>15, <3>1, <3>2, <3>3, MakingEnds DEF Hand
  <2>16. CASE Ready(p)
    <3> DEFINE pc == IF proc[p].role = "child" THEN "mark" ELSE "make"
               new == [proc[p] EXCEPT !.pc = pc, !.from = index]
    <3>1. proc' = [proc EXCEPT ![p] = new] BY <2>1, <2>16 DEF Ready
    <3>2. new.pc \in {"mark", "make"} BY <2>1 DEF Process
    <3> HIDE DEF new
    <3> QED BY <2>16, <3>1, <3>2, MakingMove DEF Ready
  <2>17. CASE Mark(p)
    <3>1. Goes(p, "marking") \/ Goes(p, "make") BY <2>17 DEF Mark
    <3> QED BY <2>3, <2>17, <3>1 DEF Mark, Places
  <2>18. CASE WriteMark(p)
    <3>1. At(p, "make").pc # "writing" /\ lock # Free
      BY <2>18, AtFacts DEF WriteMark, Sound, Marking, Names
    <3> QED BY <2>18, <3>1, MakingEnds DEF WriteMark, Goes
  <2>19. CASE Make(p)
    BY <2>3, <2>19, MakingReleases DEF Make, Places
  <2>20. CASE WriteFailed(p)
    <3>1. At(p, "exited").pc # "writing" /\ lock # Free
      BY <2>20, AtFacts DEF WriteFailed, Sound, Marking, Names
    <3> QED BY <2>20, <3>1, MakingEnds DEF WriteFailed, Goes
  <2>21. CASE ReserveFails(p)
    <3> DEFINE new == [At(p, "update") EXCEPT !.role = "wait"]
    <3>1. new.pc = "update" BY <2>1 DEF At, Process
    <3> HIDE DEF new
    <3>2. proc' = [proc EXCEPT ![p] = new] BY <2>21 DEF ReserveFails, new
    <3> QED BY <2>21, <3>1, <3>2, MakingMove DEF ReserveFails
  <2>22. CASE Kill(p)
    <3> DEFINE new == [At(p, "exited") EXCEPT
                        !.seen = IF proc[p].pc = "hand" THEN proc[p].seen ELSE Nobody]
    <3>1. new.pc = "exited" BY DEF At, Unborn
    <3> HIDE DEF new
    <3>2. proc' = [proc EXCEPT ![p] = new] BY <2>22 DEF Kill, new
    <3> QED BY <2>22, <3>1, <3>2, MakingMove DEF Kill
  <2> QED BY <2>4, <2>5, <2>6, <2>7, <2>8, <2>9, <2>10, <2>11, <2>12, <2>13, <2>14,
             <2>15, <2>16, <2>17, <2>18, <2>19, <2>20, <2>21, <2>22 DEF Proceed
<1> QED BY <1>1, <1>2

LEMMA SoundStep == ASSUME TypeOK, Sound, Making, [Next]_vars PROVE Sound'
<1>1. CASE UNCHANGED vars
  BY <1>1 DEF vars, Sound, Parts, Handing, HandsTo, Orphaned, Orphan, Marks, Marking,
              Comparing, Removing, AtWork, Works, Names
<1>2. CASE Next
  <2> SUFFICES ASSUME NEW p \in Processes, Proceed(p) \/ ReserveFails(p) \/ Kill(p)
               PROVE  Sound'
    BY <1>2 DEF Next
  <2> QED
    BY SettleIndexAloneStep, SettleStep, CompareStep, RemoveStep, AnswerStep, ReserveStep,
       ReserveFailsStep, WriteLockStep,
       AwaitStep, UpdateStep, UpdateFailsStep, DetachStep, HandStep, ReadyStep, MarkStep,
       WriteMarkStep, MakeStep, WriteFailedStep, KillStep DEF Proceed
<1> QED BY <1>1, <1>2

(* The inductive invariant holds, if the calls are prompt.                  *)
THEOREM LockIsSound == Prompt /\ Spec => []IInv
<1> SUFFICES ASSUME Prompt PROVE Spec => []IInv OBVIOUS
<1>1. Init => IInv BY InitTypes, InitSound, InitMaking DEF IInv
<1>2. IInv /\ [Next]_vars => IInv' BY StepTypes, SoundStep, MakingStep DEF IInv
<1> QED BY <1>1, <1>2, PTL DEF Spec

(* Two runs in one checkout never both make the follow-ups: the lock names  *)
(* whoever is at work.                                                      *)
THEOREM OneRunAtWork == Prompt /\ Spec => []OneAtWork
<1>1. IInv => OneAtWork
  <2> SUFFICES ASSUME IInv, NEW x \in Working
               PROVE  Names(x) \/ (x \in Awaited /\ \E q \in Commands : Names(q) /\ proc[q].seen = x)
    BY DEF OneAtWork
  <2>1. Works(x) /\ x \in Processes BY WorkingWorks DEF Working, Processes
  <2> QED BY <2>1 DEF IInv, Sound, AtWork, Awaited
<1> QED BY <1>1, LockIsSound, PTL

(* A reader of the index alone is let past only when nobody at work has yet *)
(* to write or fold it.                                                     *)
THEOREM ReadersSeeItFolded == Prompt /\ Spec => FoldedBeforeRead
<1>1. IInv /\ [Next]_vars =>
        [\A p \in Commands : SettleIndexAlone(p) =>
           \A q \in Working : proc[q].pc \in {"mark", "marking", "make", "failing"}]_vars
  <2> SUFFICES ASSUME IInv, NEW p \in Commands, SettleIndexAlone(p), NEW q \in Working
               PROVE  proc[q].pc \in {"mark", "marking", "make", "failing"}
    OBVIOUS
  <2>1. Works(q) /\ q \in Processes BY WorkingWorks DEF Working, Processes
  <2>2. TypeOK /\ Sound BY DEF IInv
  <2>3. CASE lock = Free \/ ~Works(lock.pid) BY <2>1, <2>2, <2>3, NobodyWorks
  <2>4. CASE lock # Free /\ Works(lock.pid)
    <3>1. lock.pid \in Processes /\ Names(lock.pid) BY <2>1, <2>2, <2>4, Facts
    <3>2. ~lock.failed /\ ~Dead
      BY <2>2, <2>4, <3>1, Facts DEF Works, Dead, Alive
    <3>3. lock.readied BY <2>4, <3>2 DEF SettleIndexAlone
    <3>4. lock.pid \in Children /\ proc[lock.pid].pc \in {"make", "failing"}
      BY <2>2, <2>4, <3>1, <3>3, Facts DEF Works
    <3>5. q = lock.pid
      BY <2>1, <2>2, <3>4, Facts DEF Sound, AtWork, Names
    <3> QED BY <3>4, <3>5
  <2> QED BY <2>3, <2>4
<1> QED BY <1>1, LockIsSound, PTL DEF Spec, FoldedBeforeRead
-----------------------------------------------------------------------------
(* Answers.                                                                *)

(* While nobody was killed and every lock could be written: a command that  *)
(* does not index makes nothing; a                                          *)
(* child whose parent is about to name it waits with the marking; a lock    *)
(* not marked failed names one at work, or one about to let it go; and the  *)
(* follow-ups are of the index there is, but for what whoever is at work is *)
(* still to make.                                                           *)
NoOrphans == \A c \in Processes : ~Orphan(c)
Readers ==
  \A p \in Commands : proc[p].pc # "exited" /\ proc[p].role # "index" =>
    /\ proc[p].pc \in {"settle", "compare", "remove", "read"}
    /\ proc[p].then \in {"read", "exited"}
Lent ==
  \A q \in Commands : proc[q].pc = "hand" =>
    proc[proc[q].seen].pc \in {"update", "ready", "mark", "make"}
LetsGo(p) == proc[p].pc = "remove" \/ (proc[p].pc = "compare" /\ proc[p].seen = p)
Posted == lock # Free /\ ~lock.failed => Works(lock.pid) \/ LetsGo(lock.pid)
Fresh ==
  /\ (\A x \in Processes : ~Works(x)) => Current
  /\ \A x \in Processes : /\ proc[x].pc \in {"mark", "marking", "make"} => proc[x].from = index
                          /\ proc[x].pc = "failing" => Current
  /\ \A p \in Commands : proc[p].pc = "update" => Current
Peace == NoOrphans /\ Readers /\ Lent /\ Posted /\ Fresh
AsStarted == \A p \in Processes : proc[p].role \in Roles \cup {"child"}
Calm == faults = 0 => AsStarted /\ Peace

(* Two at work are a parent about to hand over and the child it waits for.  *)
LEMMA TwoAtWork ==
  ASSUME TypeOK, Sound, NEW x \in Processes, NEW y \in Processes, Works(x), Works(y), x # y
  PROVE  \/ proc[x].pc = "hand" /\ proc[x].seen = y
         \/ proc[y].pc = "hand" /\ proc[y].seen = x
BY DEF Sound, AtWork, Names

(* Being at work, of what a process is doing.                               *)
AtWorkAs(p, new) ==
  \/ /\ p \in Commands /\ new.role = "index"
     /\ new.pc \in {"update", "detach", "hand", "ready", "make"}
  \/ /\ p \in Children
     /\ new.pc \in {"update", "ready", "mark", "marking", "make", "failing"}

LEMMA WorksAs ==
  ASSUME NoOrphans, NEW p \in Processes PROVE Works(p) <=> AtWorkAs(p, proc[p])
BY DEF NoOrphans, Works, AtWorkAs

(* What one process does beside the others: nobody is left to nobody.       *)
LEMMA OthersStay ==
  ASSUME TypeOK, Sound, NoOrphans, NEW p \in Processes, NEW new,
         proc' = [proc EXCEPT ![p] = new], new.pc = "exited" => new.seen = Nobody
  PROVE  /\ NoOrphans' /\ proc'[p] = new /\ \A x \in Processes \ {p} : proc'[x] = proc[x]
         /\ Works(p) <=> AtWorkAs(p, proc[p])
         /\ Works(p)' <=> AtWorkAs(p, new)
         /\ \A x \in Processes \ {p} : Works(x)' <=> Works(x)
<1>1. proc'[p] = new /\ \A x \in Processes \ {p} : proc'[x] = proc[x] BY Facts
<1>2. NoOrphans'
  <2> SUFFICES ASSUME NEW c \in Processes, NEW q \in Commands,
                      proc'[q].pc = "exited", proc'[q].seen = c
               PROVE  FALSE
    BY DEF NoOrphans, Orphan
  <2>1. q \in Processes /\ Nobody \notin Processes BY Facts DEF Processes
  <2>2. CASE q = p BY <1>1, <2>1, <2>2
  <2>3. CASE q # p BY <1>1, <2>1, <2>3 DEF NoOrphans, Orphan
  <2> QED BY <2>2, <2>3
<1>3. \A x \in Processes : /\ Works(x) <=> AtWorkAs(x, proc[x])
                           /\ Works(x)' <=> AtWorkAs(x, proc'[x])
  BY <1>2 DEF NoOrphans, Works, AtWorkAs
<1>4. \A x \in Processes \ {p} : AtWorkAs(x, proc'[x]) <=> AtWorkAs(x, proc[x]) BY <1>1
<1> QED BY <1>1, <1>2, <1>3, <1>4

LEMMA WorkStays ==
  ASSUME UNCHANGED work PROVE UNCHANGED index /\ (Current' <=> Current)
BY DEF work, Current

(* A step of one process, the index as it was: who stops working has made   *)
(* the follow-ups, or had nothing to make.                                  *)
PeaceMove(p, new) ==
  /\ new.pc # "hand" /\ (new.pc = "exited" => new.seen = Nobody)
  /\ p \in Commands /\ new.pc # "exited" /\ new.role # "index" =>
       new.pc \in {"settle", "compare", "remove", "read"} /\ new.then \in {"read", "exited"}
  /\ new.pc \notin {"update", "ready", "mark", "make"} =>
       \A q \in Commands : proc[q].pc = "hand" => proc[q].seen # p
  /\ AtWorkAs(p, proc[p]) /\ ~AtWorkAs(p, new) => Current'
  /\ new.pc \in {"mark", "marking", "make"} => new.from = index
  /\ new.pc = "failing" => Current'
  /\ p \in Commands /\ new.pc = "update" => Current'

LEMMA PeaceStep ==
  ASSUME TypeOK, Sound, Peace, NEW p \in Processes, NEW new,
         proc' = [proc EXCEPT ![p] = new], PeaceMove(p, new), Posted',
         index' = index, Current => Current'
  PROVE  Peace'
<1>1. new.pc = "exited" => new.seen = Nobody BY DEF PeaceMove
<1>2. /\ NoOrphans' /\ proc'[p] = new /\ \A x \in Processes \ {p} : proc'[x] = proc[x]
      /\ Works(p) <=> AtWorkAs(p, proc[p])
      /\ Works(p)' <=> AtWorkAs(p, new)
      /\ \A x \in Processes \ {p} : Works(x)' <=> Works(x)
  BY <1>1, OthersStay DEF Peace
<1>3. Readers' BY <1>2 DEF Peace, Readers, PeaceMove, Processes
<1>4. Lent'
  <2> SUFFICES ASSUME NEW q \in Commands, proc'[q].pc = "hand"
               PROVE  proc'[proc'[q].seen].pc \in {"update", "ready", "mark", "make"}
    BY DEF Lent
  <2>1. q \in Processes /\ q # p BY <1>2 DEF PeaceMove, Processes
  <2>2. proc'[q] = proc[q] BY <1>2, <2>1
  <2>3. proc[q].seen \in Processes BY <2>1, <2>2 DEF TypeOK, Processes
  <2>4. CASE proc[q].seen = p BY <1>2, <2>2, <2>4 DEF PeaceMove
  <2>5. CASE proc[q].seen # p BY <1>2, <2>2, <2>3, <2>5 DEF Peace, Lent
  <2> QED BY <2>4, <2>5
<1>5. Fresh'
  <2>1. (\A x \in Processes : ~Works(x)') => Current'
    BY <1>2 DEF Peace, Fresh, PeaceMove
  <2>2. \A x \in Processes :
          /\ proc'[x].pc \in {"mark", "marking", "make"} => proc'[x].from = index'
          /\ proc'[x].pc = "failing" => Current'
    BY <1>2 DEF Peace, Fresh, PeaceMove
  <2>3. \A q \in Commands : proc'[q].pc = "update" => Current'
    BY <1>2 DEF Peace, Fresh, PeaceMove, Processes
  <2> QED BY <2>1, <2>2, <2>3 DEF Fresh
<1> QED BY <1>2, <1>3, <1>4, <1>5 DEF Peace

(* The lock as it was.                                                      *)
LEMMA PeaceQuiet ==
  ASSUME TypeOK, Sound, Peace, NEW p \in Processes, NEW new,
         proc' = [proc EXCEPT ![p] = new], PeaceMove(p, new), lock' = lock,
         Names(p) /\ ~lock.failed =>
           AtWorkAs(p, new) \/ new.pc = "remove" \/ (new.pc = "compare" /\ new.seen = p),
         index' = index, Current => Current'
  PROVE  Peace'
<1>1. new.pc = "exited" => new.seen = Nobody BY DEF PeaceMove
<1>2. /\ proc'[p] = new /\ \A x \in Processes \ {p} : proc'[x] = proc[x]
      /\ Works(p)' <=> AtWorkAs(p, new)
      /\ \A x \in Processes \ {p} : Works(x)' <=> Works(x)
  BY <1>1, OthersStay DEF Peace
<1>3. Posted'
  <2> SUFFICES ASSUME lock # Free, ~lock.failed
               PROVE  Works(lock.pid)' \/ LetsGo(lock.pid)'
    BY DEF Posted
  <2>1. lock.pid \in Processes BY Facts
  <2>2. CASE lock.pid = p BY <1>2, <2>2 DEF Names, LetsGo
  <2>3. CASE lock.pid # p BY <1>2, <2>1, <2>3 DEF Peace, Posted, LetsGo
  <2> QED BY <2>2, <2>3
<1> QED BY <1>3, PeaceStep

LEMMA PeaceGoes ==
  ASSUME TypeOK, Sound, Peace, NEW p \in Processes, NEW pc, Goes(p, pc),
         PeaceMove(p, At(p, pc)), lock' = lock,
         Names(p) => AtWorkAs(p, At(p, pc)),
         index' = index, Current => Current'
  PROVE  Peace'
BY PeaceQuiet DEF Goes

(* Letting go of one's own lock, or of a failed one's.                      *)
LEMMA PeaceReleases ==
  ASSUME TypeOK, Sound, Peace, NEW p \in Processes, NEW pid \in Processes, NEW then \in Ends,
         Releases(p, pid, then), lock' = lock,
         pid = p \/ ~Names(p),
         p \in Commands /\ proc[p].role # "index" => then \in {"read", "exited"},
         \A q \in Commands : proc[q].pc = "hand" => proc[q].seen # p,
         AtWorkAs(p, proc[p]) => Current',
         index' = index, Current => Current'
  PROVE  Peace'
<1> DEFINE new == [proc[p] EXCEPT !.pc = "compare", !.seen = pid, !.then = then, !.from = 0]
<1>1. proc' = [proc EXCEPT ![p] = new] BY Facts DEF Releases
<1>2. /\ new.pc = "compare" /\ new.seen = pid /\ new.then = then /\ new.role = proc[p].role
  BY Facts DEF Process
<1> HIDE DEF new
<1>3. PeaceMove(p, new) BY <1>2 DEF PeaceMove
<1> QED BY <1>1, <1>2, <1>3, PeaceQuiet

(* Where a command stands, with no fault.                                   *)
LEMMA PeaceFacts ==
  ASSUME TypeOK, Sound, Peace, NEW p \in Processes
  PROVE  /\ Works(p) <=> AtWorkAs(p, proc[p])
         /\ p \in Commands => p \notin Children
         /\ p \in Commands /\ proc[p].pc \in {"reserve", "writing", "await", "update", "ready",
                                         "make"} =>
              proc[p].role = "index"
         /\ Names(p) /\ ~lock.failed => Works(p) \/ LetsGo(p)
         /\ proc[p].pc \notin {"update", "ready", "mark", "make"} =>
              \A q \in Commands : proc[q].pc = "hand" => proc[q].seen # p
         /\ lock # Free => lock.failed \/ ~Dead
         /\ Names(p) => (lock.failed <=> proc[p].pc = "exited")
<1>1. Works(p) <=> AtWorkAs(p, proc[p]) BY WorksAs DEF Peace
<1>2. p \in Commands => p \notin Children BY Facts
<1>3. p \in Commands /\ proc[p].pc \in {"reserve", "writing", "await", "update", "ready",
                                         "make"} =>
        proc[p].role = "index"
  BY DEF Peace, Readers
<1>4. Names(p) /\ ~lock.failed => Works(p) \/ LetsGo(p) BY DEF Peace, Posted, Names
<1>5. proc[p].pc \notin {"update", "ready", "mark", "make"} =>
        \A q \in Commands : proc[q].pc = "hand" => proc[q].seen # p
  BY DEF Peace, Lent
<1>6. lock # Free => lock.failed \/ ~Dead
  BY DEF Peace, Posted, Works, LetsGo, Dead, Alive
<1>7. Names(p) /\ lock.failed => proc[p].pc = "exited" BY DEF Sound, Marks, Names
<1>8. Names(p) /\ ~lock.failed => proc[p].pc # "exited" BY <1>4 DEF Works, LetsGo
<1> QED BY <1>1, <1>2, <1>3, <1>4, <1>5, <1>6, <1>7, <1>8

(* The steps of one that is not at work and does not come to it.            *)
LEMMA PeaceSettles ==
  ASSUME "wait" \notin Roles, AsStarted, TypeOK, Sound, Peace, NEW p \in Processes,
         SettleIndexAlone(p) \/ Settle(p) \/ Answer(p) \/ Await(p)
  PROVE  Peace'
<1>1. /\ p \in Commands /\ proc[p].pc \in {"settle", "read", "await"}
      /\ UNCHANGED <<lock, index>> /\ (Current' <=> Current)
  BY WorkStays, Facts DEF SettleIndexAlone, Settle, Answer, Await, ChildPlaces
<1>2. ~AtWorkAs(p, proc[p]) /\ ~LetsGo(p) BY <1>1, PeaceFacts DEF AtWorkAs, LetsGo
<1>3. ~Names(p) BY <1>1, <1>2, PeaceFacts
<1>4. \A q \in Commands : proc[q].pc = "hand" => proc[q].seen # p BY <1>1, PeaceFacts
<1>5. proc[p].role \in Roles \cup {"child"} /\ proc[p].role # "child"
  BY <1>1, Facts DEF AsStarted
<1>6. ASSUME NEW pc \in {"reserve", "read", "exited"}, Goes(p, pc),
             pc = "reserve" => proc[p].role = "index"
      PROVE  Peace'
  <2>1. PeaceMove(p, At(p, pc)) BY <1>1, <1>2, <1>4, <1>6, AtFacts DEF PeaceMove
  <2> QED BY <1>1, <1>3, <1>6, <2>1, PeaceGoes
<1>7. ASSUME NEW then \in {"reserve", "read"}, lock # Free, Releases(p, lock.pid, then),
             then = "reserve" => proc[p].role = "index"
      PROVE  Peace'
  <2>1. lock.pid \in Processes BY <1>7, Facts
  <2> QED BY <1>1, <1>2, <1>3, <1>4, <1>7, <2>1, PeaceReleases DEF Ends
<1>8. CASE SettleIndexAlone(p) BY <1>6, <1>8 DEF SettleIndexAlone
<1>9. CASE Settle(p)
  <2>1. proc[p].role # "select" BY <1>9 DEF Settle
  <2>2. ~(lock # Free /\ ~lock.failed /\ Dead) BY PeaceFacts
  <2>3. /\ Onward(proc[p].role) \in {"reserve", "read"}
        /\ Onward(proc[p].role) = "reserve" => proc[p].role = "index"
    BY <1>1, <1>5 DEF Onward
  <2> QED BY <1>6, <1>7, <1>9, <2>2, <2>3 DEF Settle
<1>10. CASE Answer(p) BY <1>6, <1>10 DEF Answer
<1>11. CASE Await(p)
  <2>1. proc[p].role = "index" BY <1>1, <1>11, PeaceFacts DEF Await
  <2> QED BY <1>6, <1>7, <1>11, <2>1 DEF Await
<1> QED BY <1>8, <1>9, <1>10, <1>11

LEMMA PeaceCompares ==
  ASSUME TypeOK, Sound, Peace, NEW p \in Processes, Compare(p) PROVE Peace'
<1>1. /\ proc[p].pc = "compare" /\ UNCHANGED <<lock, index>> /\ (Current' <=> Current)
  BY WorkStays DEF Compare
<1>2. ~AtWorkAs(p, proc[p]) BY <1>1 DEF AtWorkAs
<1>3. \A q \in Commands : proc[q].pc = "hand" => proc[q].seen # p BY <1>1, PeaceFacts
<1>4. proc[p].then \in Ends BY Facts DEF Process
<1>5. p \in Commands /\ proc[p].role # "index" => proc[p].then \in {"read", "exited"}
  BY <1>1 DEF Peace, Readers
<1>6. CASE Names(proc[p].seen)
  <2> DEFINE new == [proc[p] EXCEPT !.pc = "remove", !.seen = Nobody]
  <2>1. proc' = [proc EXCEPT ![p] = new] BY <1>6, Facts DEF Compare
  <2>2. new.pc = "remove" /\ new.role = proc[p].role /\ new.then = proc[p].then
    BY Facts DEF Process
  <2> HIDE DEF new
  <2>3. PeaceMove(p, new) BY <1>2, <1>3, <1>5, <2>2 DEF PeaceMove
  <2> QED BY <1>1, <2>1, <2>2, <2>3, PeaceQuiet
<1>7. CASE ~Names(proc[p].seen)
  <2>1. Goes(p, proc[p].then) BY <1>7 DEF Compare
  <2>2. ~Names(p) BY <1>1, <1>2, <1>7, PeaceFacts DEF LetsGo
  <2>3. proc[p].then # "update"
    BY <1>1, <1>5, Facts DEF Processes
  <2>4. PeaceMove(p, At(p, proc[p].then))
    BY <1>2, <1>3, <1>4, <1>5, <2>3, AtFacts DEF PeaceMove, Ends
  <2> QED BY <1>1, <2>1, <2>2, <2>4, PeaceGoes
<1> QED BY <1>6, <1>7

LEMMA PeaceRemoves ==
  ASSUME TypeOK, Sound, Peace, NEW p \in Processes, Remove(p) PROVE Peace'
<1>1. /\ proc[p].pc = "remove" /\ lock' = Free /\ UNCHANGED index /\ (Current' <=> Current)
      /\ proc' = [proc EXCEPT ![p] = At(p, proc[p].then)]
  BY WorkStays DEF Remove, Goes
<1>2. ~AtWorkAs(p, proc[p]) BY <1>1 DEF AtWorkAs
<1>3. \A q \in Commands : proc[q].pc = "hand" => proc[q].seen # p BY <1>1, PeaceFacts
<1>4. proc[p].then \in Ends BY Facts DEF Process
<1>5. p \in Commands /\ proc[p].role # "index" => proc[p].then \in {"read", "exited"}
  BY <1>1 DEF Peace, Readers
<1>6. proc[p].then # "update" BY <1>1, <1>5, Facts DEF Processes
<1>7. PeaceMove(p, At(p, proc[p].then))
  BY <1>2, <1>3, <1>4, <1>5, <1>6, AtFacts DEF PeaceMove, Ends
<1>8. Posted' BY <1>1 DEF Posted
<1> QED BY <1>1, <1>7, <1>8, PeaceStep

LEMMA PeaceReserves ==
  ASSUME TypeOK, Sound, Peace, NEW p \in Processes, Reserve(p) PROVE Peace'
<1>1. p \in Commands /\ proc[p].pc = "reserve" /\ UNCHANGED index /\ (Current' <=> Current)
  BY WorkStays, Facts DEF Reserve, ChildPlaces
<1>2. proc[p].role = "index" /\ ~AtWorkAs(p, proc[p]) /\ ~LetsGo(p)
  BY <1>1, PeaceFacts DEF AtWorkAs, LetsGo
<1>3. \A q \in Commands : proc[q].pc = "hand" => proc[q].seen # p BY <1>1, PeaceFacts
<1>4. PICK pc \in {"writing", "await"} : UNCHANGED lock /\ Goes(p, pc) BY DEF Reserve
<1>5. PeaceMove(p, At(p, pc)) BY <1>2, <1>3, AtFacts DEF PeaceMove
<1>6. ~Names(p) BY <1>1, <1>2, PeaceFacts
<1> QED BY <1>1, <1>4, <1>5, <1>6, PeaceGoes

(* It is written while nobody is at work, and the follow-ups are made.      *)
LEMMA PeaceWritesLock ==
  ASSUME TypeOK, Sound, Making, Peace, NEW p \in Processes, WriteLock(p) PROVE Peace'
<1>1. /\ p \in Commands /\ proc[p].pc = "writing"
      /\ UNCHANGED index /\ (Current' <=> Current)
  BY WorkStays, Facts DEF WriteLock, ChildPlaces
<1>2. proc[p].role = "index" /\ ~AtWorkAs(p, proc[p])
  BY <1>1, PeaceFacts DEF AtWorkAs
<1>3. \A q \in Commands : proc[q].pc = "hand" => proc[q].seen # p BY <1>1, PeaceFacts
<1>4. blank = p /\ lock = Free BY <1>1, Facts DEF Making
<1>5. lock' = Held(p) /\ proc' = [proc EXCEPT ![p] = At(p, "update")]
  BY <1>4 DEF WriteLock, Goes
<1>6. \A x \in Processes : ~Works(x) BY <1>4, NobodyWorks
<1>7. Current BY <1>6 DEF Peace, Fresh
<1>8. PeaceMove(p, At(p, "update")) BY <1>1, <1>2, <1>3, <1>7, AtFacts DEF PeaceMove
<1>9. At(p, "update").pc = "update" /\ At(p, "update").role = "index" BY <1>2, AtFacts
<1>10. Works(p)' BY <1>1, <1>5, <1>9, OthersStay DEF Peace, AtWorkAs
<1>11. Posted' BY <1>5, <1>10 DEF Posted, Held
<1> QED BY <1>1, <1>5, <1>8, <1>11, PeaceStep

(* The index moves on under whoever is at work alone, or beside a parent.   *)
LEMMA PeaceUpdates ==
  ASSUME TypeOK, Sound, Peace, NEW p \in Processes, Update(p) PROVE Peace'
<1> DEFINE pc == IF proc[p].role = "index" THEN "detach" ELSE "ready"
           new == At(p, pc)
<1>1. proc[p].pc = "update" /\ UNCHANGED <<lock, made, unmade>> /\ proc' = [proc EXCEPT ![p] = new]
  BY DEF Update, Goes
<1>2. new.pc = pc /\ new.role = proc[p].role /\ new.then = "exited" BY AtFacts
<1>3. AtWorkAs(p, proc[p]) /\ Works(p)
  BY <1>1, PeaceFacts, Facts DEF AtWorkAs
<1>4. AtWorkAs(p, new) BY <1>1, <1>2, <1>3, Facts DEF AtWorkAs
<1> HIDE DEF new
<1>5. /\ NoOrphans' /\ proc'[p] = new /\ \A x \in Processes \ {p} : proc'[x] = proc[x]
      /\ Works(p)' /\ \A x \in Processes \ {p} : Works(x)' <=> Works(x)
  BY <1>1, <1>2, <1>4, OthersStay DEF Peace
<1>6. \A x \in Processes \ {p} : /\ proc[x].pc \notin {"mark", "marking", "make", "failing"}
                                 /\ x \in Commands => proc[x].pc # "update"
  <2> SUFFICES ASSUME NEW x \in Processes \ {p},
                      \/ proc[x].pc \in {"mark", "marking", "make", "failing"}
                      \/ x \in Commands /\ proc[x].pc = "update"
               PROVE  FALSE
    OBVIOUS
  <2>1. AtWorkAs(x, proc[x]) BY PeaceFacts, Facts DEF AtWorkAs
  <2>2. Works(x) BY <2>1, PeaceFacts
  <2> QED BY <1>1, <1>3, <2>2, TwoAtWork
<1>7. Readers' BY <1>2, <1>4, <1>5, Facts DEF Peace, Readers, AtWorkAs, Processes
<1>8. Lent'
  <2> SUFFICES ASSUME NEW q \in Commands, proc'[q].pc = "hand"
               PROVE  proc'[proc'[q].seen].pc \in {"update", "ready", "mark", "make"}
    BY DEF Lent
  <2>1. q \in Processes /\ q # p BY <1>2, <1>5 DEF Processes
  <2>2. proc'[q] = proc[q] BY <1>5, <2>1
  <2>3. proc[q].seen \in Children /\ proc[q].seen \in Processes
    BY <2>1, <2>2 DEF TypeOK, Processes
  <2>4. CASE proc[q].seen = p BY <1>2, <1>5, <2>2, <2>3, <2>4, Facts
  <2>5. CASE proc[q].seen # p BY <1>5, <2>2, <2>3, <2>5 DEF Peace, Lent
  <2> QED BY <2>4, <2>5
<1>9. Posted'
  <2> SUFFICES ASSUME lock # Free, ~lock.failed
               PROVE  Works(lock.pid)' \/ LetsGo(lock.pid)'
    BY <1>1 DEF Posted
  <2>1. lock.pid \in Processes BY Facts
  <2>2. CASE lock.pid = p BY <1>1, <1>5, <2>2
  <2>3. CASE lock.pid # p BY <1>1, <1>5, <2>1, <2>3 DEF Peace, Posted, LetsGo
  <2> QED BY <2>2, <2>3
<1>10. Fresh' BY <1>2, <1>5, <1>6 DEF Fresh, Processes
<1> QED BY <1>5, <1>7, <1>8, <1>9, <1>10 DEF Peace

LEMMA PeaceUpdateFails ==
  ASSUME TypeOK, Sound, Peace, NEW p \in Processes, UpdateFails(p) PROVE Peace'
<1>1. /\ proc[p].pc = "update" /\ proc[p].role = "index" /\ UNCHANGED <<lock, index>> /\ (Current' <=> Current)
      /\ Releases(p, p, "exited") /\ p \in Commands
  BY WorkStays, Facts DEF UpdateFails
<1>2. \A q \in Commands : proc[q].pc = "hand" => proc[q].seen # p
  BY <1>1, Facts DEF TypeOK, Processes
<1>3. Current BY <1>1 DEF Peace, Fresh
<1> QED BY <1>1, <1>2, <1>3, PeaceReleases DEF Ends

(* A child starts, and works beside its parent.                             *)
LEMMA PeaceDetaches ==
  ASSUME TypeOK, Sound, Peace, NEW p \in Processes, Detach(p) PROVE Peace'
<1>1. /\ p \in Commands /\ proc[p].pc = "detach" /\ proc[p].role = "index"
      /\ UNCHANGED <<lock, index>> /\ (Current' <=> Current)
  BY WorkStays, Facts DEF Detach, ChildPlaces
<1>2. Works(p) /\ \A q \in Commands : proc[q].pc = "hand" => proc[q].seen # p
  BY <1>1, PeaceFacts DEF Works
<1>3. CASE Goes(p, "ready")
  <2>1. AtWorkAs(p, At(p, "ready")) BY <1>1, AtFacts DEF AtWorkAs
  <2>2. PeaceMove(p, At(p, "ready")) BY <1>1, <1>2, <2>1, AtFacts DEF PeaceMove
  <2> QED BY <1>1, <1>3, <2>1, <2>2, PeaceGoes
<1>4. ASSUME NEW c \in Children, proc[c].pc = "unborn",
             proc' = [proc EXCEPT ![c].pc = "update", ![p].pc = "hand", ![p].seen = c]
      PROVE  Peace'
  <2>1. /\ lock # Free /\ lock.pid = p
        /\ \A q \in Commands : proc[q].pc = "hand" => q = p
    BY <1>1, <1>2, HolderFacts DEF Processes
  <2>2. /\ Processes = Commands \cup Children /\ Commands \cap Children = {} /\ c # p
        /\ c \in Processes
    BY <1>1, Facts DEF Processes
  <2>3. proc'[c].pc = "update" /\ proc'[c].role = proc[c].role BY <1>4, <2>2, Facts DEF Process
  <2>4. proc'[p].pc = "hand" /\ proc'[p].role = "index" /\ proc'[p].seen = c
    BY <1>1, <1>4, <2>2, Facts DEF Process
  <2>5. \A x \in Processes \ {p, c} : proc'[x] = proc[x] BY <1>4, <2>2, Facts
  <2>6. NoOrphans' BY <2>2, <2>4, <2>5 DEF Peace, NoOrphans, Orphan
  <2>7. Works(p)' BY <1>1, <2>4 DEF Works
  <2>8. \A x \in Processes \ {p, c} : Works(x)' <=> Works(x)
    BY <2>5, <2>6 DEF Peace, NoOrphans, Works
  <2>9. Readers' BY <2>2, <2>4, <2>5 DEF Peace, Readers
  <2>10. Lent'
    <3>1. \A q \in Commands : proc'[q].pc = "hand" => q = p BY <1>1, <2>1, <2>2, <2>5
    <3> QED BY <2>3, <2>4, <3>1 DEF Lent
  <2>11. Posted' BY <1>1, <2>1, <2>7 DEF Posted
  <2>12. Fresh'
    <3>1. \A x \in Processes :
            /\ proc'[x].pc \in {"mark", "marking", "make"} => proc'[x].from = index'
            /\ proc'[x].pc = "failing" => Current'
      BY <1>1, <2>3, <2>4, <2>5 DEF Peace, Fresh
    <3>2. \A q \in Commands : proc'[q].pc = "update" => Current'
      BY <1>1, <2>2, <2>4, <2>5 DEF Peace, Fresh
    <3> QED BY <1>1, <2>2, <2>7, <3>1, <3>2 DEF Fresh
  <2> QED BY <2>6, <2>9, <2>10, <2>11, <2>12 DEF Peace
<1> QED BY <1>3, <1>4 DEF Detach

(* The lock names the child, which is at work, and its parent lets go.      *)
LEMMA PeaceHands ==
  ASSUME TypeOK, Sound, Peace, NEW p \in Processes, Hand(p) PROVE Peace'
<1> DEFINE new == [proc[p] EXCEPT !.pc = "compare", !.seen = p, !.then = "exited", !.from = 0]
<1>0. PICK c \in Children : c = proc[p].seen BY DEF Hand, TypeOK
<1>1. /\ proc[p].pc = "hand" /\ p \in Commands /\ UNCHANGED index /\ (Current' <=> Current)
      /\ lock' = Held(c) /\ c \in Processes /\ c # p
  BY WorkStays, <1>0, Facts DEF Hand, ChildPlaces, Processes
<1>2. proc' = [proc EXCEPT ![p] = new] BY Facts DEF Hand, Releases
<1>3. new.pc = "compare" /\ new.then = "exited" /\ new.role = proc[p].role
  BY Facts DEF Process
<1>4. AtWorkAs(c, proc[c]) BY <1>0, <1>1 DEF Peace, Lent, AtWorkAs
<1> HIDE DEF new
<1>5. Works(c)' BY <1>1, <1>2, <1>3, <1>4, OthersStay, PeaceFacts DEF Peace
<1>6. Posted' BY <1>1, <1>5 DEF Posted, Held
<1>7. /\ NoOrphans' /\ proc'[p] = new /\ \A x \in Processes \ {p} : proc'[x] = proc[x]
  BY <1>2, <1>3, OthersStay DEF Peace
<1>8. Readers' BY <1>3, <1>7 DEF Peace, Readers, Processes
<1>9. Lent'
  <2>1. \A q \in Commands : proc'[q].pc = "hand" =>
          q # p /\ q \in Processes /\ proc'[q] = proc[q]
    BY <1>3, <1>7 DEF Processes
  <2>2. \A q \in Commands : proc[q].pc = "hand" =>
          proc[q].seen # p /\ proc[q].seen \in Processes
    BY <1>1, PeaceFacts DEF TypeOK, Processes
  <2> QED BY <1>7, <2>1, <2>2 DEF Peace, Lent
<1>10. Fresh'
  <2>1. \A x \in Processes :
          /\ proc'[x].pc \in {"mark", "marking", "make"} => proc'[x].from = index'
          /\ proc'[x].pc = "failing" => Current'
    BY <1>1, <1>3, <1>7 DEF Peace, Fresh
  <2>2. \A q \in Commands : proc'[q].pc = "update" => Current'
    BY <1>1, <1>3, <1>7 DEF Peace, Fresh, Processes
  <2> QED BY <1>1, <1>5, <2>1, <2>2 DEF Fresh
<1> QED BY <1>6, <1>7, <1>8, <1>9, <1>10 DEF Peace

(* What is made from here on is made from the index there is.               *)
LEMMA PeaceReadies ==
  ASSUME TypeOK, Sound, Peace, NEW p \in Processes, Ready(p) PROVE Peace'
<1> DEFINE pc == IF proc[p].role = "child" THEN "mark" ELSE "make"
           new == [proc[p] EXCEPT !.pc = pc, !.from = index]
<1>1. proc[p].pc = "ready" /\ UNCHANGED <<lock, index>> /\ (Current' <=> Current)
      /\ proc' = [proc EXCEPT ![p] = new]
  BY WorkStays, Facts DEF Ready
<1>2. /\ new.pc = pc /\ new.role = proc[p].role /\ new.then = proc[p].then
      /\ new.from = index
  BY Facts DEF Process
<1>3. p \in Children => pc = "mark" BY <1>1, Facts
<1>4. p \in Commands => p \notin Children /\ proc[p].role = "index" /\ pc = "make"
  BY <1>1, PeaceFacts
<1> HIDE DEF new, pc
<1>5. AtWorkAs(p, new) BY <1>2, <1>3, <1>4, Facts DEF AtWorkAs
<1>6. PeaceMove(p, new) BY <1>2, <1>3, <1>4, <1>5, Facts DEF PeaceMove
<1> QED BY <1>1, <1>5, <1>6, PeaceQuiet

LEMMA PeaceMarks ==
  ASSUME TypeOK, Sound, Peace, NEW p \in Processes, Mark(p) PROVE Peace'
<1>1. p \in Children /\ p \notin Commands /\ proc[p].pc = "mark"
      /\ UNCHANGED <<lock, index>> /\ (Current' <=> Current)
  BY WorkStays, Facts DEF Mark
<1>2. proc[p].from = index BY <1>1 DEF Peace, Fresh
<1>3. CASE Names(p) /\ Goes(p, "marking")
  <2>1. \A q \in Commands : proc[q].pc = "hand" => proc[q].seen # p
    BY <1>3 DEF Sound, Handing, HandsTo
  <2>2. /\ At(p, "marking").pc = "marking" /\ At(p, "marking").from = index
    BY <1>2, Facts DEF At, Process
  <2>3. AtWorkAs(p, At(p, "marking")) BY <1>1, <2>2 DEF AtWorkAs
  <2>4. PeaceMove(p, At(p, "marking")) BY <1>1, <2>1, <2>2, <2>3 DEF PeaceMove
  <2> QED BY <1>1, <1>3, <2>3, <2>4, PeaceGoes
<1>4. CASE Goes(p, "make")
  <2>1. At(p, "make").pc = "make" /\ At(p, "make").from = index
    BY <1>2, Facts DEF At, Process
  <2>2. AtWorkAs(p, At(p, "make")) BY <1>1, <2>1 DEF AtWorkAs
  <2>3. PeaceMove(p, At(p, "make")) BY <1>1, <2>1, <2>2 DEF PeaceMove
  <2> QED BY <1>1, <1>4, <2>2, <2>3, PeaceGoes
<1> QED BY <1>3, <1>4 DEF Mark

LEMMA PeaceWritesMark ==
  ASSUME TypeOK, Sound, Peace, NEW p \in Processes, WriteMark(p) PROVE Peace'
<1>1. /\ proc[p].pc = "marking" /\ UNCHANGED index /\ (Current' <=> Current)
      /\ lock' = [Held(p) EXCEPT !.readied = TRUE]
      /\ proc' = [proc EXCEPT ![p] = At(p, "make")]
  BY WorkStays DEF WriteMark, Goes
<1>2. p \in Children /\ p \notin Commands BY <1>1, Facts DEF Sound, Marking
<1>3. proc[p].from = index BY <1>1 DEF Peace, Fresh
<1>4. At(p, "make").pc = "make" /\ At(p, "make").from = index
  BY <1>3, Facts DEF At, Process
<1>5. AtWorkAs(p, At(p, "make")) BY <1>2, <1>4 DEF AtWorkAs
<1>6. PeaceMove(p, At(p, "make")) BY <1>2, <1>4, <1>5 DEF PeaceMove
<1>7. Works(p)' BY <1>1, <1>4, <1>5, OthersStay DEF Peace
<1>8. Posted' BY <1>1, <1>7 DEF Posted, Held
<1> QED BY <1>1, <1>6, <1>8, PeaceStep

(* The follow-ups are made from the index there is.                         *)
LEMMA PeaceMakes ==
  ASSUME Prompt, TypeOK, Sound, Peace, NEW p \in Processes, Make(p) PROVE Peace'
<1>1. proc[p].pc = "make" /\ UNCHANGED <<lock, index>> /\ Makes(p) BY DEF Make
<1>2. Current' BY <1>1 DEF Peace, Fresh, Makes, Current
<1>3. \A q \in Commands : proc[q].pc = "hand" => proc[q].seen # p
  BY DEF Make, Awaited
<1>4. p \in Commands => proc[p].role = "index" BY <1>1, PeaceFacts
<1>5. p \in Children => proc[p].role = "child" BY Facts
<1>6. Processes = Commands \cup Children BY DEF Processes
<1>7. CASE Releases(p, p, "exited")
  BY <1>1, <1>2, <1>3, <1>4, <1>7, PeaceReleases DEF Ends
<1>8. CASE proc[p].role = "child" /\ Names(p) /\ Goes(p, "failing")
  <2>1. p \in Children /\ p \notin Commands BY <1>4, <1>6, <1>8
  <2>2. AtWorkAs(p, At(p, "failing")) BY <2>1, AtFacts DEF AtWorkAs
  <2>3. PeaceMove(p, At(p, "failing")) BY <1>2, <1>3, <2>1, <2>2, AtFacts DEF PeaceMove
  <2> QED BY <1>1, <1>2, <1>8, <2>2, <2>3, PeaceGoes
<1>9. proc[p].role \notin {"wait", "ask"} BY <1>4, <1>5, <1>6
<1> QED BY <1>7, <1>8, <1>9 DEF Make

LEMMA PeaceWritesFailed ==
  ASSUME TypeOK, Sound, Peace, NEW p \in Processes, WriteFailed(p) PROVE Peace'
<1>1. /\ proc[p].pc = "failing" /\ UNCHANGED index /\ (Current' <=> Current) /\ lock'.failed
      /\ proc' = [proc EXCEPT ![p] = At(p, "exited")]
  BY WorkStays DEF WriteFailed, Goes
<1>2. Current BY <1>1 DEF Peace, Fresh
<1>3. \A q \in Commands : proc[q].pc = "hand" => proc[q].seen # p BY <1>1, PeaceFacts
<1>4. PeaceMove(p, At(p, "exited")) BY <1>1, <1>2, <1>3, AtFacts DEF PeaceMove
<1>5. Posted' BY <1>1 DEF Posted
<1> QED BY <1>1, <1>4, <1>5, PeaceStep

(* Only a lock that cannot be written makes a command do it all itself.     *)
LEMMA RolesStay ==
  ASSUME TypeOK, AsStarted, NEW p \in Processes, Proceed(p) PROVE AsStarted'
<1> SUFFICES ASSUME NEW x \in Processes PROVE proc'[x].role \in {proc[x].role, "child"}
  BY DEF AsStarted
<1>1. proc \in [Processes -> Process] BY DEF TypeOK, Process
<1>2. ASSUME NEW pc, Goes(p, pc) PROVE proc'[x].role \in {proc[x].role, "child"}
  BY <1>1, <1>2, AtFacts DEF Goes
<1>3. ASSUME NEW pid, NEW then, Releases(p, pid, then) PROVE proc'[x].role = proc[x].role
  BY <1>1, <1>3 DEF Releases, Process
<1>4. CASE Settle(p)
  <2> DEFINE role == proc[p].role
  <2>1. CASE Goes(p, Onward(role)) BY <1>2, <2>1
  <2>2. CASE Releases(p, lock.pid, Onward(role)) BY <1>3, <2>2
  <2>3. CASE proc' = [proc EXCEPT ![p].pc = "remove", ![p].then = Instead(role)]
    <3> DEFINE new == [proc[p] EXCEPT !.pc = "remove", !.then = Instead(role)]
    <3>1. proc' = [proc EXCEPT ![p] = new] BY <1>1, <2>3
    <3>2. new.role = role BY <1>1 DEF Process
    <3> HIDE DEF new
    <3> QED BY <1>1, <3>1, <3>2
  <2> QED BY <1>4, <2>1, <2>2, <2>3 DEF Settle
<1>5. CASE Compare(p) BY <1>1, <1>2, <1>5 DEF Compare, Process
<1>6. CASE Detach(p)
  <2>1. ASSUME NEW c \in Children,
               proc' = [proc EXCEPT ![c].pc = "update", ![p].pc = "hand", ![p].seen = c]
        PROVE  proc'[x].role = proc[x].role
    <3>1. CASE x \notin {c, p} BY <1>1, <2>1, <3>1
    <3>2. CASE x = c /\ x # p BY <1>1, <2>1, <3>2 DEF Process
    <3>3. CASE x = p BY <1>1, <2>1, <3>3 DEF Process
    <3> QED BY <3>1, <3>2, <3>3
  <2> QED BY <1>2, <1>6, <2>1 DEF Detach
<1>7. CASE Ready(p) BY <1>1, <1>7 DEF Ready, Process
<1> QED
  BY <1>2, <1>3, <1>4, <1>5, <1>6, <1>7
  DEF Proceed, SettleIndexAlone, Remove, Answer, Reserve, WriteLock, Await, Update,
      UpdateFails, Hand, Mark, WriteMark, Make, WriteFailed

LEMMA CalmStep ==
  ASSUME Prompt, "wait" \notin Roles, TypeOK, Sound, Making, Calm, [Next]_vars
  PROVE  Calm'
<1> SUFFICES ASSUME faults' = 0 PROVE AsStarted' /\ Peace' BY DEF Calm
<1>1. CASE UNCHANGED vars
  <2>1. faults = 0 BY <1>1 DEF vars
  <2>2. AsStarted /\ Peace BY <2>1 DEF Calm
  <2>3. \A x : /\ Works(x)' <=> Works(x)
               /\ LetsGo(x)' <=> LetsGo(x)
               /\ Orphan(x)' <=> Orphan(x)
    BY <1>1 DEF vars, Works, LetsGo, Orphan
  <2>4. Fresh'
    <3>1. Current' <=> Current BY <1>1, WorkStays DEF vars
    <3> QED BY <1>1, <2>2, <2>3, <3>1 DEF vars, work, Peace, Fresh
  <2>5. Posted' BY <1>1, <2>2, <2>3 DEF vars, Peace, Posted
  <2> QED BY <1>1, <2>2, <2>3, <2>4, <2>5 DEF vars, AsStarted, Peace, NoOrphans, Readers, Lent
<1>2. ASSUME NEW p \in Processes, Proceed(p) PROVE AsStarted' /\ Peace'
  <2>1. faults = 0
    BY <1>2 DEF Proceed, SettleIndexAlone, Settle, Compare, Remove, Answer, Reserve, WriteLock,
                Await, Update, UpdateFails, Detach, Hand, Ready, Mark, WriteMark, Make, WriteFailed
  <2>2. AsStarted /\ Peace BY <2>1 DEF Calm
  <2>3. AsStarted' BY <1>2, <2>2, RolesStay
  <2> QED BY <1>2, <2>2, <2>3, PeaceSettles, PeaceCompares, PeaceRemoves, PeaceReserves,
             PeaceWritesLock, PeaceUpdates, PeaceUpdateFails, PeaceDetaches, PeaceHands, PeaceReadies,
             PeaceMarks, PeaceWritesMark, PeaceMakes, PeaceWritesFailed DEF Proceed
<1>3. ASSUME NEW p \in Processes, ReserveFails(p) \/ Kill(p) PROVE FALSE
  BY <1>3 DEF ReserveFails, Kill, TypeOK
<1> QED BY <1>1, <1>2, <1>3 DEF Next

LEMMA InitCalm == Init => Calm
<1> SUFFICES ASSUME Init PROVE AsStarted /\ Peace BY DEF Calm
<1>0. \A p \in Processes : \/ p \in Children /\ proc[p] = Unborn
                           \/ p \notin Children /\ \E role \in Roles : proc[p] = Started(role)
  <2>1. \A p \in Processes : proc[p] = Unborn <=> p \in Children BY DEF Init
  <2>2. \A p \in Processes : proc[p] \in {Unborn} \cup {Started(role) : role \in Roles}
    BY DEF Init
  <2> QED BY <2>1, <2>2
<1>1. \A p \in Processes : /\ proc[p].seen = Nobody /\ proc[p].pc \in {"unborn", "settle"}
                           /\ p \notin Children => proc[p].pc = "settle"
                           /\ proc[p].then = "exited"
  <2>1. /\ Unborn.seen = Nobody /\ Unborn.pc = "unborn" /\ Unborn.then = "exited"
        /\ \A role \in Roles : /\ Started(role).seen = Nobody /\ Started(role).pc = "settle"
                              /\ Started(role).then = "exited"
    BY DEF Started, Unborn
  <2> QED BY <1>0, <2>1
<1>2. \A p \in Processes : ~Works(p) BY <1>1 DEF Works
<1>3. \A p \in Commands : p \in Processes /\ proc[p].pc = "settle"
  BY <1>1, NameAssumption DEF Processes
<1>4. NoOrphans BY <1>1, <1>3, NameAssumption DEF NoOrphans, Orphan, Processes
<1>5. Readers /\ Lent BY <1>1, <1>3 DEF Readers, Lent
<1>6. Posted BY DEF Init, Posted
<1>7. Fresh BY <1>1, <1>3 DEF Init, Fresh, Current
<1>8. AsStarted
  <2>1. Unborn.role = "child" /\ \A role \in Roles : Started(role).role = role
    BY DEF Started, Unborn
  <2> QED BY <1>0, <2>1 DEF AsStarted
<1> QED BY <1>4, <1>5, <1>6, <1>7, <1>8 DEF Peace

(* Unless a process was killed or a lock could not be written, an answer    *)
(* that waited for nobody reads the follow-ups of the index there is, or    *)
(* one of them could not be made and their log says so: the index moves     *)
(* only under the lock, which nobody lets go before they were attempted     *)
(* (no command is `index --wait`, which takes no lock).                     *)
THEOREM AnswersStayCurrent == Prompt /\ "wait" \notin Roles /\ Spec => AnswersAreCurrent
<1> SUFFICES ASSUME Prompt, "wait" \notin Roles PROVE Spec => AnswersAreCurrent OBVIOUS
<1>1. Init => IInv /\ Calm BY InitTypes, InitSound, InitMaking, InitCalm DEF IInv
<1>2. IInv /\ Calm /\ [Next]_vars => IInv' /\ Calm'
  BY StepTypes, SoundStep, MakingStep, CalmStep DEF IInv
<1>3. IInv /\ Calm /\ [Next]_vars =>
        [\A p \in Commands :
           proc[p].role = "ask" /\ lock = Free /\ Settle(p) /\ faults = 0 => Current]_vars
  <2> SUFFICES ASSUME IInv, Calm, lock = Free, faults = 0 PROVE Current OBVIOUS
  <2>1. \A x \in Processes : ~Works(x) BY NobodyWorks DEF IInv
  <2> QED BY <2>1 DEF Calm, Peace, Fresh
<1> QED BY <1>1, <1>2, <1>3, PTL DEF Spec, AnswersAreCurrent
=============================================================================
