-------------------------------- MODULE FollowUps --------------------------------
(***************************************************************************)
(* What `variance index` leaves running (packages/cli,                      *)
(* index-follow-ups.ts, index-command.ts).  An index command writes the     *)
(* source index, hands the follow-ups (the code map, the journeys, the      *)
(* lexicon and the questions) to a detached child and returns.  A lock file *)
(* beside the index names the process they wait for; every later command    *)
(* settles that lock before it reads.                                       *)
(*                                                                         *)
(* A step is one call of the file system, one look at another process, or   *)
(* one of the long pieces of work.  Indexes and follow-ups are versions:    *)
(* the follow-ups are current when they were made from the index that is    *)
(* there.  The index turn, which paces checkouts and orders nothing here,   *)
(* is left out, and a process id is used once.                              *)
(***************************************************************************)
EXTENDS Integers, FiniteSets

CONSTANTS
  Commands,   \* processes a shell starts
  Children,   \* processes an index detaches
  Roles,      \* what the commands are
  Nobody,     \* no process
  Free,       \* no lock file
  MaxChanges, \* bound of the times the files moved
  MaxFaults,  \* bound of the processes killed and the locks that cannot be written
  Prompt      \* a look at the lock and its removal are at once, and a child lives
              \* until the lock is handed to it

ASSUME RoleAssumption == Roles \subseteq {"index", "wait", "ask", "select"}
ASSUME NameAssumption ==
  /\ Commands \cap Children = {}
  /\ Nobody \notin Commands \cup Children
  /\ Free \notin [pid: Commands \cup Children, readied: BOOLEAN, failed: BOOLEAN]

ASSUME BoundAssumption == MaxChanges \in Nat /\ MaxFaults \in Nat

VARIABLES
  lock,     \* what the lock file says, Free if there is none or nothing in it
  blank,    \* who made the lock file that has nothing in it, if there is one
  index,    \* the version of the source index
  made,     \* the version of it the follow-ups were made from
  unmade,   \* the versions some follow-up of which could not be made
  proc,     \* what each process is doing
  faults    \* processes killed, locks that could not be written

work == <<index, made, unmade>>
vars == <<lock, blank, work, proc, faults>>

Processes == Commands \cup Children
Unborn == [pc |-> "unborn", role |-> "child", seen |-> Nobody, then |-> "exited", from |-> 0]
(* A command that has not looked yet may as well not have begun.            *)
Started(role) == [Unborn EXCEPT !.pc = "settle", !.role = role]
Held(p) == [pid |-> p, readied |-> FALSE, failed |-> FALSE]
Alive(p) == proc[p].pc \notin {"unborn", "exited"}
Names(p) == lock # Free /\ lock.pid = p

At(p, pc) ==
  IF pc = "exited" THEN [Unborn EXCEPT !.pc = pc]
  ELSE [proc[p] EXCEPT !.pc = pc, !.seen = Nobody, !.then = "exited"]
Goes(p, pc) == proc' = [proc EXCEPT ![p] = At(p, pc)]
(* Mutant: the lock is given where its process's id is meant.               *)
ReleasesLock(p, pid, then) ==
  proc' = [proc EXCEPT ![p].pc = "compare", ![p].seen = lock, ![p].then = then]
(* releaseFollowUps(pid): a look at whose the lock is, and its removal.     *)
Releases(p, pid, then) ==
  proc' = [proc EXCEPT ![p].pc = "compare", ![p].seen = pid, ![p].then = then,
                          ![p].from = 0]

(* With the calls prompt, nothing happens to the lock while another process *)
(* is about to remove what it looked at.                                    *)
Undisturbed(p) == Prompt => \A q \in Processes \ {p} : proc[q].pc # "remove"

Init ==
  /\ lock = Free /\ blank = Nobody /\ faults = 0
  /\ index = 0 /\ made = 0 /\ unmade = {}
  /\ proc \in [Processes -> {Unborn} \cup {Started(role) : role \in Roles}]
  /\ \A p \in Processes : proc[p] = Unborn <=> p \in Children
-----------------------------------------------------------------------------
(* Settling (settleFollowUps), which every command but a child does first.  *)

(* What a command goes on to when the lock is no longer in its way.         *)
Onward(role) == CASE role = "index" -> "reserve"
                  [] role = "wait" -> "update"
                  [] OTHER -> "read"
(* An ask that found a dead holder makes what it left, and then reads.      *)
Instead(role) == IF role = "ask" THEN "update" ELSE Onward(role)

(* Mutant: a holder is taken at its word, alive or not.                     *)
DeadTrusted == FALSE
(* The holder is gone, or ended and let nothing go.                         *)
Dead == ~Alive(lock.pid)

(* A reader of the index alone waits for the mark and no longer.            *)
SettleIndexAlone(p) ==
  /\ proc[p].pc = "settle" /\ proc[p].role = "select"
  /\ lock # Free => lock.failed \/ Dead \/ lock.readied
  /\ Goes(p, "read")
  /\ UNCHANGED <<lock, blank, work, faults>>

(* The others wait until nobody who lives is at work: a failure is told and *)
(* the lock let go; a dead one's lock is removed, whoever's it is by then,  *)
(* and an ask makes what it left.                                           *)
Settle(p) ==
  /\ proc[p].pc = "settle" /\ proc[p].role # "select"
  /\ \/ lock = Free /\ Goes(p, Onward(proc[p].role))
     \/ lock # Free /\ lock.failed /\ Releases(p, lock.pid, Onward(proc[p].role))
     \/ /\ lock # Free /\ ~lock.failed /\ Dead /\ Undisturbed(p)
        /\ proc' = [proc EXCEPT ![p].pc = "remove", ![p].then = Instead(proc[p].role)]
  /\ UNCHANGED <<lock, blank, work, faults>>

Compare(p) ==
  /\ proc[p].pc = "compare" /\ Undisturbed(p)
  /\ IF Names(proc[p].seen) THEN proc' = [proc EXCEPT ![p].pc = "remove", ![p].seen = Nobody]
     ELSE Goes(p, proc[p].then)
  /\ UNCHANGED <<lock, blank, work, faults>>

Remove(p) ==
  /\ proc[p].pc = "remove"
  /\ lock' = Free /\ blank' = Nobody
  /\ Goes(p, proc[p].then)
  /\ UNCHANGED <<work, faults>>

(* A reader reads, and is done.                                             *)
Answer(p) ==
  /\ proc[p].pc = "read"
  /\ Goes(p, "exited")
  /\ UNCHANGED <<lock, blank, work, faults>>
-----------------------------------------------------------------------------
(* Indexing.                                                                *)

(* Mutant: the lock is written over whatever is there.                      *)
ReserveOver(p) ==
  /\ proc[p].pc = "reserve" /\ Undisturbed(p)
  /\ blank' = p /\ lock' = Free
  /\ Goes(p, "writing")
  /\ UNCHANGED <<work, faults>>
(* The lock file is made, with nothing in it yet, if there is none; or its  *)
(* holder is awaited.  One that has nothing in it names no holder.          *)
Reserve(p) ==
  /\ proc[p].pc = "reserve" /\ Undisturbed(p)
  /\ IF lock = Free /\ blank = Nobody
     THEN blank' = p /\ Goes(p, "writing")
     ELSE Goes(p, "await") /\ UNCHANGED blank
  /\ UNCHANGED <<lock, work, faults>>

(* It is written, if it is still the file that was made.                    *)
WriteLock(p) ==
  /\ proc[p].pc = "writing"
  /\ IF blank = p THEN lock' = Held(p) /\ blank' = Nobody ELSE UNCHANGED <<lock, blank>>
  /\ Goes(p, "update")
  /\ UNCHANGED <<work, faults>>

(* It cannot be made, or not be written: the command makes all of it itself, *)
(* as with --wait, and an empty lock file stays.                            *)
ReserveFails(p) ==
  /\ proc[p].pc \in {"reserve", "writing"}
  /\ faults < MaxFaults
  /\ faults' = faults + 1
  /\ proc' = [proc EXCEPT ![p] = [At(p, "update") EXCEPT !.role = "wait"]]
  /\ UNCHANGED <<lock, blank, work>>

Await(p) ==
  /\ proc[p].pc = "await"
  /\ \/ lock = Free /\ Goes(p, "reserve")
     \/ lock # Free /\ (lock.failed \/ Dead) /\ Releases(p, lock.pid, "reserve")
  /\ UNCHANGED <<lock, blank, work, faults>>

(* Mutant: the child marks the lock once the index is up to date, unfolded. *)
UpdateMarks(p) ==
  /\ proc[p].pc = "update"
  /\ \/ UNCHANGED index
     \/ index < MaxChanges /\ index' = index + 1
  /\ lock' = IF Names(p) /\ proc[p].role = "child" THEN [lock EXCEPT !.readied = TRUE] ELSE lock
  /\ Goes(p, IF proc[p].role = "index" THEN "detach" ELSE "ready")
  /\ UNCHANGED <<blank, made, unmade, faults>>

(* The index is brought up to date; a child finds it so unless files moved. *)
Update(p) ==
  /\ proc[p].pc = "update"
  /\ \/ UNCHANGED index
     \/ index < MaxChanges /\ index' = index + 1
  /\ Goes(p, IF proc[p].role = "index" THEN "detach" ELSE "ready")
  /\ UNCHANGED <<lock, blank, made, unmade, faults>>

(* It could not be written: an index command lets its lock go.              *)
UpdateFails(p) ==
  /\ proc[p].pc = "update" /\ proc[p].role = "index"
  /\ Releases(p, p, "exited")
  /\ UNCHANGED <<lock, blank, work, faults>>

(* The child starts at once; if none does, the command does its work.       *)
Detach(p) ==
  /\ proc[p].pc = "detach"
  /\ \/ \E c \in Children :
          /\ proc[c].pc = "unborn"
          /\ proc' = [proc EXCEPT ![c].pc = "update",
                                  ![p].pc = "hand", ![p].seen = c]
     \/ Goes(p, "ready")
  /\ UNCHANGED <<lock, blank, work, faults>>

(* Children whose parent is about to hand them the lock.                    *)
Awaited == {proc[p].seen : p \in {q \in Commands : proc[q].pc = "hand"}}

(* Mutant: the lock is let go, for the child to make its own.               *)
HandNothing(p) ==
  /\ proc[p].pc = "hand" /\ Undisturbed(p)
  /\ lock' = Free /\ blank' = Nobody
  /\ Releases(p, p, "exited")
  /\ UNCHANGED <<work, faults>>

(* The lock names the child from now on; the release after it is a no-op.   *)
Hand(p) ==
  /\ proc[p].pc = "hand" /\ Undisturbed(p)
  /\ lock' = Held(proc[p].seen) /\ blank' = Nobody
  /\ Releases(p, p, "exited")
  /\ UNCHANGED <<work, faults>>

(* The index is folded: the segments it replaced are gone.                  *)
Ready(p) ==
  /\ proc[p].pc = "ready"
  /\ proc' = [proc EXCEPT ![p].pc = IF proc[p].role = "child" THEN "mark" ELSE "make",
                          ![p].from = index]
  /\ UNCHANGED <<lock, blank, work, faults>>

(* A child says so if the lock is its own by now.                           *)
Mark(p) ==
  /\ proc[p].pc = "mark"
  /\ Goes(p, IF Names(p) THEN "marking" ELSE "make")
  /\ UNCHANGED <<lock, blank, work, faults>>

WriteMark(p) ==
  /\ proc[p].pc = "marking" /\ Undisturbed(p)
  /\ lock' = [Held(p) EXCEPT !.readied = TRUE] /\ blank' = Nobody
  /\ Goes(p, "make")
  /\ UNCHANGED <<work, faults>>

(* The follow-ups are made from the index as it was read, or one of them    *)
(* could not be, and a line of the output says so.                          *)
Makes(p) ==
  \/ made' = proc[p].from /\ UNCHANGED unmade
  \/ unmade' = unmade \cup {proc[p].from} /\ UNCHANGED made

(* Made or not, a child lets its lock go, unless it is a walk that failed    *)
(* and the lock is its own, which it marks with why; an index that found no *)
(* child lets its own go; an inline one holds none.                         *)
Make(p) ==
  /\ proc[p].pc = "make"
  /\ Prompt => p \notin Awaited
  /\ Makes(p)
  /\ \/ proc[p].role \in {"index", "child"} /\ Releases(p, p, "exited")
     \/ proc[p].role = "child" /\ Names(p) /\ UNCHANGED made /\ Goes(p, "failing")
     \/ proc[p].role = "wait" /\ Goes(p, "exited")
     \/ proc[p].role = "ask" /\ Goes(p, "read")
  /\ UNCHANGED <<lock, blank, index, faults>>

WriteFailed(p) ==
  /\ proc[p].pc = "failing" /\ Undisturbed(p)
  /\ lock' = [pid |-> p, readied |-> lock # Free /\ lock.readied, failed |-> TRUE]
  /\ blank' = Nobody
  /\ Goes(p, "exited")
  /\ UNCHANGED <<work, faults>>

(* A process is killed, or throws: its lock stays.                          *)
Kill(p) ==
  /\ Alive(p) /\ proc[p].pc # "settle"
  /\ faults < MaxFaults
  /\ faults' = faults + 1
  /\ proc' = [proc EXCEPT ![p] = [At(p, "exited") EXCEPT
                                   !.seen = IF proc[p].pc = "hand" THEN proc[p].seen ELSE Nobody]]
  /\ UNCHANGED <<lock, blank, work>>

Proceed(p) ==
  \/ SettleIndexAlone(p) \/ Settle(p) \/ Compare(p) \/ Remove(p) \/ Answer(p)
  \/ Reserve(p) \/ WriteLock(p) \/ Await(p) \/ Update(p) \/ UpdateFails(p) \/ Detach(p) \/ Hand(p)
  \/ Ready(p) \/ Mark(p) \/ WriteMark(p) \/ Make(p) \/ WriteFailed(p)

Next == \E p \in Processes : Proceed(p) \/ ReserveFails(p) \/ Kill(p)

Spec == Init /\ [][Next]_vars
FairSpec == Spec /\ \A p \in Processes : WF_vars(Proceed(p))
-----------------------------------------------------------------------------
(* Properties.                                                              *)

Places == {"unborn", "settle", "compare", "remove", "read", "reserve", "writing", "await",
           "update", "detach", "hand", "ready", "mark", "marking", "make", "failing", "exited"}
Ends == {"reserve", "update", "read", "exited"}
TypeOK ==
  /\ lock \in {Free} \cup [pid: Processes, readied: BOOLEAN, failed: BOOLEAN]
  /\ blank \in Processes \cup {Nobody}
  /\ index \in 0..MaxChanges /\ made \in Nat /\ unmade \subseteq Nat
  /\ proc \in [Processes -> [pc: Places, role: Roles \cup {"child", "wait"},
                             seen: Processes \cup {Nobody}, then: Ends, from: Nat]]
  /\ \A p \in Processes : proc[p].pc = "hand" => proc[p].seen \in Children
  /\ faults \in 0..MaxFaults

(* At work under the lock: from its making to the last of the follow-ups,   *)
(* but for a child whose parent was killed before it named it.              *)
Orphans == {proc[p].seen : p \in {q \in Commands : proc[q].pc = "exited"}}
Working ==
  {p \in Commands : /\ proc[p].role = "index"
                    /\ proc[p].pc \in {"update", "detach", "hand", "ready", "make"}}
  \cup {c \in Children \ Orphans :
          proc[c].pc \in {"update", "ready", "mark", "marking", "make", "failing"}}

(* Two runs in one checkout never both make the follow-ups: the lock names  *)
(* whoever is at work, through takeovers from the dead (:65-69).            *)
OneAtWork ==
  \A p \in Working :
    Names(p) \/ (p \in Awaited /\ \E q \in Commands : Names(q) /\ proc[q].seen = p)

(* A reader of the index alone is let past only when nobody at work under   *)
(* the lock has yet to write or fold it (:15-20, :25).                      *)
FoldedBeforeRead ==
  [][\A p \in Commands : SettleIndexAlone(p) =>
       \A q \in Working : proc[q].pc \in {"mark", "marking", "make", "failing"}]_vars

(* An answer made now is of the index there is, or one of its follow-ups    *)
(* could not be made, which the log of the making says and the lock does    *)
(* not (index-command.ts:187-240, :278-284, :157).                          *)
Current == made = index \/ index \in unmade

(* Unless a process was killed or a lock could not be written, an answer    *)
(* that waited for nobody is not made from follow-ups older than the index  *)
(* whose making never ended (:11-13).                                       *)
AnswersAreCurrent ==
  [][\A p \in Commands :
       proc[p].role = "ask" /\ lock = Free /\ Settle(p) /\ faults = 0 => Current]_vars

(* The lock file is empty and whoever made it will not write it: it stays   *)
(* for good, and an index command that comes to reserve finds it there,     *)
(* finds nobody in it to wait for, and tries again for ever (:72-84).       *)
Abandoned == blank # Nobody /\ proc[blank].pc # "writing"
Spins(p) == Abandoned /\ proc[p].role = "index" /\ proc[p].pc \in {"reserve", "await"}

(* Every command gets its answer, whoever is gone, but an index command     *)
(* that spins on an abandoned lock (:22-24).                                *)
EveryCommandEnds ==
  \A p \in Commands : proc[p].pc = "settle" ~> proc[p].pc = "exited" \/ Spins(p)

(* Whoever was killed, but while nobody indexes without the lock: what it   *)
(* left is made before it is read (:22-24).                                 *)
LeftoversAreMade ==
  [][\A p \in Commands :
       /\ proc[p].role = "ask" /\ lock = Free /\ Settle(p)
       /\ \A q \in Commands : proc[q].role # "wait"
       => Current]_vars
=============================================================================
