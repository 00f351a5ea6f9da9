------------------------------ MODULE DirectoryLine ------------------------------
(***************************************************************************)
(* A line of a share kept as files (packages/store, share.ts): the         *)
(* manifest, replaced by a rename, and the lock directory that keeps       *)
(* writers of any process apart.  A writer that dies leaves its lock, and  *)
(* the next takes it over once it is old; a writer that lives stamps it.   *)
(* Every call of the file system is a step of its own, writers die between *)
(* any two of them, and any writer may stand still while time passes.      *)
(*                                                                         *)
(* One line is modelled; a volume that folds case is not.  Times are of    *)
(* one clock: a lock's time and its holder's are compared as they are.     *)
(***************************************************************************)
EXTENDS Integers

CONSTANTS
  Writers,    \* publishes of the line; one that dies is gone
  Manifests,  \* what the line may hold
  Absent,     \* no manifest.json
  Blobs,      \* entries and images
  Names,      \* the blobs each manifest names
  Stale,      \* the age past which a lock was left by the dead (LOCK_STALE_MS)
  Refresh,    \* how often a holder stamps its lock (LOCK_REFRESH_MS)
  MaxTime,    \* bound of the clock
  Prompt      \* the calls that come soon after what they rest on was checked:
              \* within a refresh; for the removal of a lock, before the claim
              \* on it looks dead; for the removal of a claim, at once

Calls == {"rename", "rmdir", "stamp", "break", "expire"}

ASSUME NameAssumption ==
  /\ Names \in [Manifests -> SUBSET Blobs] /\ Absent \notin Manifests
ASSUME TimeAssumption ==
  /\ Refresh \in Nat \ {0} /\ Stale \in Nat /\ Refresh < Stale /\ MaxTime \in Nat
ASSUME PromptAssumption == Prompt \subseteq Calls

VARIABLES
  clock,
  manifest,   \* manifest.json
  stored,     \* the blobs in place
  lock,       \* the lock directory: its time, and who made it; or NoLock
  claims,     \* the claims on removing a lock: the time each is named for,
              \* and its own
  writer      \* each writer: where it stands and what it knows

vars == <<clock, manifest, stored, lock, claims, writer>>

Times == 0..MaxTime
Never == -1
NoLock == [at |-> Never, by |-> "nobody"]

(* Between mkdir of the lock and its release.                              *)
Holding == {"read", "blobs", "rename", "release"}
Places == Holding \cup {"rmdir", "idle", "mkdir", "judge", "claim", "expire", "confirm",
                        "break", "unclaim", "dead"}

Idle(answer) ==
  [pc |-> "idle", expected |-> Absent, next |-> Absent, todo |-> {},
   stamped |-> 0, asked |-> Never, seen |-> 0, since |-> 0, answer |-> answer]

Init ==
  /\ clock = 0
  /\ manifest = Absent /\ stored = {} /\ lock = NoLock /\ claims = {}
  /\ writer = [w \in Writers |-> Idle("none")]

Goto(w, pc) == writer' = [writer EXCEPT ![w].pc = pc]
(* Before a call that acts on what was just checked.                       *)
GotoCall(w, pc) == writer' = [writer EXCEPT ![w].pc = pc, ![w].since = clock]
(* Another pass of `acquire`.                                              *)
Retry(w) == writer' = [writer EXCEPT ![w].pc = "mkdir", ![w].seen = 0, ![w].since = 0]
(* `release`, then the answer.                                             *)
Answer(w, answer) ==
  writer' = [writer EXCEPT ![w] = [Idle(answer) EXCEPT
    !.pc = "release", !.stamped = writer[w].stamped, !.asked = writer[w].asked]]
End(w) == writer' = [writer EXCEPT ![w] = Idle("none")]

(* `owned`: the holder's own clock says nobody can have judged its lock dead. *)
Owned(w) == clock - writer[w].stamped < Stale - Refresh

(* Time passes, but not past a call that is assumed prompt.                *)
Overdue(w) ==
  LET me == writer[w] IN
  \/ me.pc \in {"rename", "rmdir"} \cap Prompt /\ clock - me.since >= Refresh
  \/ me.asked # Never /\ "stamp" \in Prompt /\ clock - me.asked >= Refresh
  \/ me.pc \in {"confirm", "break", "unclaim"} /\ "break" \in Prompt
     /\ clock - me.since >= Stale
(* Nobody else is between reading a claim's age and removing the claim.    *)
Free(w) == "expire" \in Prompt => \A v \in Writers \ {w} : writer[v].pc # "expire"

Tick ==
  /\ clock < MaxTime /\ \A w \in Writers : ~Overdue(w) /\ Free(w)
  /\ clock' = clock + 1
  /\ UNCHANGED <<manifest, stored, lock, claims, writer>>

-----------------------------------------------------------------------------
(* load, and the write the publisher makes of it.                          *)
Load(w, next) ==
  /\ writer[w].pc = "idle"
  /\ writer' = [writer EXCEPT ![w] = [Idle("none") EXCEPT
       !.pc = "mkdir", !.expected = manifest, !.next = next,
       !.todo = IF manifest = Absent THEN Names[next]
                                     ELSE Names[next] \ Names[manifest]]]
  /\ UNCHANGED <<clock, manifest, stored, lock, claims>>

(* acquire: mkdir of the lock, or its time where mkdir found one.          *)
MakeLock(w) ==
  /\ writer[w].pc = "mkdir" /\ lock = NoLock
  /\ lock' = [at |-> clock, by |-> w]
  /\ writer' = [writer EXCEPT ![w].pc = "read", ![w].stamped = clock]
  /\ UNCHANGED <<clock, manifest, stored, claims>>

StatLock(w) ==
  /\ writer[w].pc = "mkdir" /\ lock # NoLock
  /\ writer' = [writer EXCEPT ![w].pc = "judge", ![w].seen = lock.at]
  /\ UNCHANGED <<clock, manifest, stored, lock, claims>>

(* A lock that looks alive is waited on; the wait is shorter than any tick *)
(* and may run out at every pass.                                          *)
Judge(w) ==
  /\ writer[w].pc = "judge"
  /\ IF clock - writer[w].seen > Stale
       THEN Goto(w, "claim")
       ELSE Retry(w) \/ End(w)
  /\ UNCHANGED <<clock, manifest, stored, lock, claims>>

-----------------------------------------------------------------------------
(* breakStale.                                                             *)
Named(seen) == {c \in claims : c.of = seen}

MakeClaim(w) ==
  /\ writer[w].pc = "claim" /\ Named(writer[w].seen) = {}
  /\ claims' = claims \cup {[of |-> writer[w].seen, at |-> clock]}
  /\ GotoCall(w, "confirm")
  /\ UNCHANGED <<clock, manifest, stored, lock>>

(* The claim is somebody's: its age is read, and it is waited on or, where *)
(* it looks dead, removed.                                                 *)
StatClaim(w) ==
  /\ writer[w].pc = "claim"
  /\ \E c \in Named(writer[w].seen) :
       IF clock - c.at > Stale THEN Goto(w, "expire")
                               ELSE Retry(w) \/ End(w)
  /\ UNCHANGED <<clock, manifest, stored, lock, claims>>

ExpireClaim(w) ==
  /\ writer[w].pc = "expire"
  /\ claims' = claims \ Named(writer[w].seen)
  /\ Retry(w) \/ End(w)
  /\ UNCHANGED <<clock, manifest, stored, lock>>

(* Mutant: the judged lock is not looked at again.                         *)
ConfirmBlind(w) ==
  /\ writer[w].pc = "confirm"
  /\ Goto(w, "break")
  /\ UNCHANGED <<clock, manifest, stored, lock, claims>>

(* Under the claim, the lock must still be the one that was judged.        *)
Confirm(w) ==
  /\ writer[w].pc = "confirm"
  /\ Goto(w, IF lock # NoLock /\ lock.at = writer[w].seen THEN "break" ELSE "unclaim")
  /\ UNCHANGED <<clock, manifest, stored, lock, claims>>

Break(w) ==
  /\ writer[w].pc = "break"
  /\ lock' = NoLock
  /\ Goto(w, "unclaim")
  /\ UNCHANGED <<clock, manifest, stored, claims>>

Unclaim(w) ==
  /\ writer[w].pc = "unclaim"
  /\ claims' = claims \ Named(writer[w].seen)
  /\ Retry(w) \/ End(w)
  /\ UNCHANGED <<clock, manifest, stored, lock>>

-----------------------------------------------------------------------------
(* store, under the lock.                                                  *)
ReadManifest(w) ==
  /\ writer[w].pc = "read"
  /\ IF manifest = writer[w].expected THEN Goto(w, "blobs") ELSE Answer(w, "refused")
  /\ UNCHANGED <<clock, manifest, stored, lock, claims>>

PlaceBlob(w, b) ==
  /\ writer[w].pc = "blobs" /\ b \in writer[w].todo
  /\ stored' = stored \cup {b}
  /\ writer' = [writer EXCEPT ![w].todo = writer[w].todo \ {b}]
  /\ UNCHANGED <<clock, manifest, lock, claims>>

(* Mutants: the manifest before its blobs; without asking whose the lock is. *)
AskOwnsEarly(w) ==
  /\ writer[w].pc = "blobs" /\ writer[w].asked = Never
  /\ IF Owned(w) THEN GotoCall(w, "rename") ELSE Answer(w, "refused")
  /\ UNCHANGED <<clock, manifest, stored, lock, claims>>
AskOwnsNot(w) ==
  /\ writer[w].pc = "blobs" /\ writer[w].todo = {} /\ writer[w].asked = Never
  /\ GotoCall(w, "rename")
  /\ UNCHANGED <<clock, manifest, stored, lock, claims>>
(* The manifest is staged; `owns` waits for a stamp in flight.             *)
AskOwns(w) ==
  /\ writer[w].pc = "blobs" /\ writer[w].todo = {} /\ writer[w].asked = Never
  /\ IF Owned(w) THEN GotoCall(w, "rename") ELSE Answer(w, "refused")
  /\ UNCHANGED <<clock, manifest, stored, lock, claims>>

Rename(w) ==
  /\ writer[w].pc = "rename"
  /\ manifest' = writer[w].next
  /\ Answer(w, "written")
  /\ UNCHANGED <<clock, stored, lock, claims>>

(* release: no stamp is in flight any more, and a lock the holder can still *)
(* vouch for is removed.                                                   *)
Release(w) ==
  /\ writer[w].pc = "release" /\ writer[w].asked = Never
  /\ IF Owned(w)
       THEN writer' = [writer EXCEPT ![w] = [Idle(writer[w].answer) EXCEPT
                         !.pc = "rmdir", !.since = clock]]
       ELSE End(w)
  /\ UNCHANGED <<clock, manifest, stored, lock, claims>>

RemoveLock(w) ==
  /\ writer[w].pc = "rmdir"
  /\ lock' = NoLock
  /\ End(w)
  /\ UNCHANGED <<clock, manifest, stored, claims>>

(* The timer: a stamp asked for while the lock is the holder's.  It sets   *)
(* the time of whatever lock it finds, and counts if it came back in time. *)
AskStamp(w) ==
  /\ writer[w].pc \in {"read", "blobs", "rename"} /\ writer[w].asked = Never
  /\ Owned(w) /\ clock > writer[w].stamped
  /\ writer' = [writer EXCEPT ![w].asked = clock]
  /\ UNCHANGED <<clock, manifest, stored, lock, claims>>

(* Mutant: milliseconds given where the file system takes seconds.         *)
StampMillis(w) ==
  LET asked == writer[w].asked IN
  /\ asked # Never
  /\ lock' = IF lock = NoLock THEN NoLock ELSE [lock EXCEPT !.at = asked * 1000]
  /\ writer' = [writer EXCEPT ![w].asked = Never, ![w].stamped = asked]
  /\ UNCHANGED <<clock, manifest, stored, claims>>
Stamp(w) ==
  LET asked == writer[w].asked
      stamped == IF lock = NoLock THEN -Stale
                 ELSE IF Owned(w) THEN asked ELSE writer[w].stamped IN
  /\ asked # Never
  /\ lock' = IF lock = NoLock THEN NoLock ELSE [lock EXCEPT !.at = asked]
  /\ writer' = [writer EXCEPT ![w].asked = Never, ![w].stamped = stamped]
  /\ UNCHANGED <<clock, manifest, stored, claims>>

(* The file system refuses a call: the write is answered with the refusal  *)
(* once its lock or its claim is given back.  A refused stamp is one that  *)
(* was not asked for, and what a refused removal leaves is what the dead   *)
(* leave.                                                                  *)
Fail(w) ==
  /\ \/ writer[w].pc \in {"mkdir", "claim", "expire"} /\ End(w)
     \/ writer[w].pc \in {"confirm", "break"} /\ Goto(w, "unclaim")
     \/ writer[w].pc \in {"read", "blobs", "rename"} /\ Answer(w, "refused")
  /\ UNCHANGED <<clock, manifest, stored, lock, claims>>

(* The process dies; what it asked of the file system and did not get is   *)
(* not done.  One that dies with no lock and no claim leaves nothing: it is *)
(* a writer that does not come back.                                       *)
Die(w) ==
  /\ writer[w].pc \in Holding \cup {"rmdir", "confirm", "break", "unclaim"}
  /\ writer' = [writer EXCEPT ![w] = [Idle("none") EXCEPT !.pc = "dead"]]
  /\ UNCHANGED <<clock, manifest, stored, lock, claims>>

Next ==
  \/ Tick
  \/ \E w \in Writers : Free(w) /\
       \/ \E next \in Manifests : Load(w, next)
       \/ MakeLock(w) \/ StatLock(w) \/ Judge(w)
       \/ MakeClaim(w) \/ StatClaim(w) \/ ExpireClaim(w)
       \/ Confirm(w) \/ Break(w) \/ Unclaim(w)
       \/ ReadManifest(w) \/ (\E b \in Blobs : PlaceBlob(w, b)) \/ AskOwns(w) \/ Rename(w)
       \/ Release(w) \/ RemoveLock(w)
       \/ AskStamp(w) \/ Stamp(w)
       \/ Fail(w) \/ Die(w)

Spec == Init /\ [][Next]_vars

-----------------------------------------------------------------------------
(* Properties.                                                             *)

(* Every value has its type (share.ts).                                    *)
TypeOK ==
  /\ clock \in Times
  /\ manifest \in Manifests \cup {Absent} /\ stored \subseteq Blobs
  /\ lock = NoLock \/ lock \in [at: Times, by: Writers]
  /\ claims \subseteq [of: Times, at: Times]
  /\ writer \in [Writers -> [pc: Places, expected: Manifests \cup {Absent},
       next: Manifests \cup {Absent}, todo: SUBSET Blobs,
       stamped: Times \cup {-Stale}, asked: Times \cup {Never}, seen: Times,
       since: Times, answer: {"none", "written", "refused"}]]

(* While a holder's own clock vouches for its lock, the lock is there and  *)
(* is that holder's (hold: "no other writer can have taken the lock for    *)
(* dead").                                                                 *)
VouchedLockIsHeld ==
  \A w \in Writers : writer[w].pc \in Holding /\ Owned(w) => lock.by = w

(* A reader finds every blob of the manifest it reads (LineCell.store,     *)
(* "every other path the manifest names is already there").                *)
NamedBlobsAreStored == manifest # Absent => Names[manifest] \subseteq stored

(* The directory is a cell: a write replaces the manifest the publisher    *)
(* read, in one step, or nothing (line.ts, LineCell.store).                *)
Cell == INSTANCE LineCell WITH
  call <- [w \in Writers |->
    LET me == writer[w] IN
    IF me.pc \in {"idle", "dead", "release", "rmdir"}
      THEN [storing |-> FALSE, expected |-> Absent, next |-> Absent, answer |-> me.answer]
      ELSE [storing |-> TRUE, expected |-> me.expected, next |-> me.next, answer |-> "none"]]
ImplementsLineCell == Cell!Spec
=============================================================================
