-------------------------- MODULE DirectoryLineProofs --------------------------
(***************************************************************************)
(* Proofs about DirectoryLine, for every set of writers, manifests and      *)
(* blobs and every bound of the clock: the types and the blobs whatever     *)
(* the calls' delays, and, where every call is prompt, the lock a writer    *)
(* vouches for and the cell the directory is.                              *)
(***************************************************************************)
EXTENDS DirectoryLine, TLAPS

Writer == [pc: Places, expected: Manifests \cup {Absent},
           next: Manifests \cup {Absent}, todo: SUBSET Blobs,
           stamped: Times \cup {-Stale}, asked: Times \cup {Never}, seen: Times,
           since: Times, answer: {"none", "written", "refused"}]
Writing == writer \in [Writers -> Writer]

(* A step of one writer, which leaves its todo and its write alone.        *)
Others(w) == \A v \in Writers \ {w} : writer'[v] = writer[v]
SameWrite(w) ==
  /\ writer'[w].next = writer[w].next /\ writer'[w].expected = writer[w].expected
  /\ writer'[w].todo = writer[w].todo
SameStamps(w) ==
  writer'[w].stamped = writer[w].stamped /\ writer'[w].asked = writer[w].asked
SameClaim(w) ==
  writer'[w].seen = writer[w].seen /\ writer'[w].since = writer[w].since

LEMMA Bounds ==
  /\ Refresh \in Int /\ Stale \in Int /\ MaxTime \in Int /\ 0 < Refresh /\ Refresh < Stale
  /\ 0 \in Times /\ Times \subseteq Int /\ Never \notin Times /\ Never = -1
  /\ \A t \in Times : 0 <= t /\ t <= MaxTime
BY TimeAssumption DEF Times, Never

LEMMA IdleType ==
  ASSUME NEW answer \in {"none", "written", "refused"} PROVE Idle(answer) \in Writer
BY Bounds DEF Idle, Writer, Places

(* What each way of going on does to the writer.                           *)
LEMMA GotoFacts ==
  ASSUME TypeOK, NEW w \in Writers, NEW pc \in Places, Goto(w, pc)
  PROVE /\ Writing' /\ Others(w) /\ writer'[w].pc = pc
        /\ SameWrite(w) /\ SameStamps(w) /\ SameClaim(w)
        /\ writer'[w].answer = writer[w].answer
<1>1. writer \in [Writers -> Writer] BY DEF TypeOK, Writer
<1>2. writer' = [writer EXCEPT ![w] = [writer[w] EXCEPT !.pc = pc]] BY <1>1 DEF Goto
<1>3. [writer[w] EXCEPT !.pc = pc] \in Writer BY <1>1 DEF Writer
<1> QED BY <1>1, <1>2, <1>3 DEF Writing, Others, SameWrite, SameStamps, SameClaim, Writer

LEMMA GotoCallFacts ==
  ASSUME TypeOK, NEW w \in Writers, NEW pc \in Places, GotoCall(w, pc)
  PROVE /\ Writing' /\ Others(w) /\ writer'[w].pc = pc
        /\ SameWrite(w) /\ SameStamps(w)
        /\ writer'[w].seen = writer[w].seen /\ writer'[w].since = clock
        /\ writer'[w].answer = writer[w].answer
<1>1. writer \in [Writers -> Writer] /\ clock \in Times BY DEF TypeOK, Writer
<1>2. writer' = [writer EXCEPT ![w] = [writer[w] EXCEPT !.pc = pc, !.since = clock]]
  BY <1>1 DEF GotoCall
<1>3. [writer[w] EXCEPT !.pc = pc, !.since = clock] \in Writer BY <1>1 DEF Writer
<1> QED BY <1>1, <1>2, <1>3 DEF Writing, Others, SameWrite, SameStamps, Writer

LEMMA RetryFacts ==
  ASSUME TypeOK, NEW w \in Writers, Retry(w)
  PROVE /\ Writing' /\ Others(w) /\ writer'[w].pc = "mkdir"
        /\ SameWrite(w) /\ SameStamps(w)
        /\ writer'[w].answer = writer[w].answer
<1>1. writer \in [Writers -> Writer] BY DEF TypeOK, Writer
<1>2. writer' = [writer EXCEPT ![w] = [writer[w] EXCEPT !.pc = "mkdir", !.seen = 0, !.since = 0]]
  BY <1>1 DEF Retry
<1>3. "mkdir" \in Places /\ 0 \in Times BY Bounds DEF Places
<1>4. [writer[w] EXCEPT !.pc = "mkdir", !.seen = 0, !.since = 0] \in Writer
  BY <1>1, <1>3 DEF Writer
<1> QED BY <1>1, <1>2, <1>4 DEF Writing, Others, SameWrite, SameStamps, Writer

LEMMA AnswerFacts ==
  ASSUME TypeOK, NEW w \in Writers, NEW answer \in {"none", "written", "refused"},
         Answer(w, answer)
  PROVE /\ Writing' /\ Others(w) /\ writer'[w].pc = "release" /\ SameStamps(w)
        /\ writer'[w].answer = answer
<1>1. writer \in [Writers -> Writer] BY DEF TypeOK, Writer
<1> DEFINE new == [Idle(answer) EXCEPT
                    !.pc = "release", !.stamped = writer[w].stamped, !.asked = writer[w].asked]
<1>2. Idle(answer) \in Writer /\ "release" \in Places BY IdleType DEF Places, Holding
<1>3. writer[w] \in Writer BY <1>1
<1>4. new \in Writer BY <1>2, <1>3 DEF Writer
<1>5. new.pc = "release" /\ new.stamped = writer[w].stamped /\ new.asked = writer[w].asked
      /\ new.answer = answer
  BY DEF Idle
<1> HIDE DEF new
<1>6. writer' = [writer EXCEPT ![w] = new] BY DEF Answer, new
<1> QED BY <1>1, <1>4, <1>5, <1>6 DEF Writing, Others, SameStamps

LEMMA EndFacts ==
  ASSUME TypeOK, NEW w \in Writers, End(w)
  PROVE /\ Writing' /\ Others(w) /\ writer'[w] = Idle("none")
        /\ writer'[w].pc = "idle" /\ writer'[w].asked = Never
<1>1. writer \in [Writers -> Writer] BY DEF TypeOK, Writer
<1>2. Idle("none") \in Writer BY IdleType
<1> QED BY <1>1, <1>2 DEF End, Writing, Others, Idle
-----------------------------------------------------------------------------
(* Types.                                                                  *)

Rest ==
  /\ clock \in Times
  /\ manifest \in Manifests \cup {Absent} /\ stored \subseteq Blobs
  /\ lock = NoLock \/ lock \in [at: Times, by: Writers]
  /\ claims \subseteq [of: Times, at: Times]

LEMMA TypesSplit == (TypeOK <=> Rest /\ Writing) /\ (TypeOK' <=> Rest' /\ Writing')
BY DEF TypeOK, Rest, Writing, Writer

LEMMA InitTypes == Init => TypeOK
<1> SUFFICES ASSUME Init PROVE TypeOK OBVIOUS
<1>1. Writing BY IdleType DEF Init, Writing
<1> QED BY <1>1, TypesSplit, Bounds DEF Init, Rest

LEMMA StepTypes == ASSUME TypeOK, [Next]_vars PROVE TypeOK'
<1>1. CASE UNCHANGED vars BY <1>1 DEF vars, TypeOK
<1>2. CASE Tick
  <2>1. clock' \in Times /\ UNCHANGED <<manifest, stored, lock, claims, writer>>
    BY <1>2, Bounds DEF Tick, TypeOK, Times
  <2> QED BY <2>1 DEF TypeOK
<1>3. ASSUME NEW w \in Writers, NEW next \in Manifests, Load(w, next) PROVE TypeOK'
  <2> DEFINE new == [Idle("none") EXCEPT
                      !.pc = "mkdir", !.expected = manifest, !.next = next,
                      !.todo = IF manifest = Absent THEN Names[next]
                                                    ELSE Names[next] \ Names[manifest]]
  <2>1. Names[next] \subseteq Blobs BY NameAssumption
  <2>2. Idle("none") \in Writer BY IdleType
  <2>3. new \in Writer BY <2>1, <2>2 DEF TypeOK, Writer, Places
  <2> HIDE DEF new
  <2>4. writer' = [writer EXCEPT ![w] = new] BY <1>3 DEF Load, new
  <2>5. Writing' BY <2>3, <2>4, TypesSplit DEF Writing
  <2> QED BY <1>3, <2>5, TypesSplit DEF Load, Rest
<1>4. ASSUME NEW w \in Writers, MakeLock(w) PROVE TypeOK'
  <2>1. writer' = [writer EXCEPT ![w] = [writer[w] EXCEPT !.pc = "read", !.stamped = clock]]
    BY <1>4, TypesSplit DEF MakeLock, Writing
  <2>2. writer[w] \in Writer /\ clock \in Times BY TypesSplit DEF Writing, Rest
  <2>3. "read" \in Places BY DEF Places, Holding
  <2>4. [writer[w] EXCEPT !.pc = "read", !.stamped = clock] \in Writer BY <2>2, <2>3 DEF Writer
  <2>5. Writing' BY <2>1, <2>4, TypesSplit DEF Writing
  <2> QED BY <1>4, <2>5, TypesSplit DEF MakeLock, Rest
<1>5. ASSUME NEW w \in Writers, StatLock(w) PROVE TypeOK'
  <2>1. writer' = [writer EXCEPT ![w] = [writer[w] EXCEPT !.pc = "judge", !.seen = lock.at]]
    BY <1>5, TypesSplit DEF StatLock, Writing
  <2>2. lock.at \in Times BY <1>5 DEF StatLock, TypeOK
  <2>3. [writer[w] EXCEPT !.pc = "judge", !.seen = lock.at] \in Writer
    BY <2>2, TypesSplit DEF Writing, Writer, Places
  <2>4. Writing' BY <2>1, <2>3, TypesSplit DEF Writing
  <2> QED BY <1>5, <2>4, TypesSplit DEF StatLock, Rest
<1>6. ASSUME NEW w \in Writers, Judge(w) PROVE TypeOK'
  <2>1. Goto(w, "claim") \/ Retry(w) \/ End(w) BY <1>6 DEF Judge
  <2>2. Writing' BY <2>1, GotoFacts, RetryFacts, EndFacts DEF Places
  <2> QED BY <1>6, <2>2, TypesSplit DEF Judge, Rest
<1>7. ASSUME NEW w \in Writers, MakeClaim(w) PROVE TypeOK'
  <2>1. Writing' BY <1>7, GotoCallFacts DEF MakeClaim, Places
  <2>2. [of |-> writer[w].seen, at |-> clock] \in [of: Times, at: Times]
    BY TypesSplit DEF Writing, Writer, Rest
  <2> QED BY <1>7, <2>1, <2>2, TypesSplit DEF MakeClaim, Rest
<1>8. ASSUME NEW w \in Writers, StatClaim(w) PROVE TypeOK'
  <2>1. Goto(w, "expire") \/ Retry(w) \/ End(w) BY <1>8 DEF StatClaim
  <2>2. Writing' BY <2>1, GotoFacts, RetryFacts, EndFacts DEF Places
  <2> QED BY <1>8, <2>2, TypesSplit DEF StatClaim, Rest
<1>9. ASSUME NEW w \in Writers, ExpireClaim(w) \/ Unclaim(w) PROVE TypeOK'
  <2>1. Writing' BY <1>9, RetryFacts, EndFacts DEF ExpireClaim, Unclaim
  <2> QED BY <1>9, <2>1, TypesSplit DEF ExpireClaim, Unclaim, Rest
<1>10. ASSUME NEW w \in Writers, Confirm(w) PROVE TypeOK'
  <2>1. Goto(w, "break") \/ Goto(w, "unclaim") BY <1>10 DEF Confirm
  <2>2. Writing' BY <2>1, GotoFacts DEF Places
  <2> QED BY <1>10, <2>2, TypesSplit DEF Confirm, Rest
<1>11. ASSUME NEW w \in Writers, Break(w) PROVE TypeOK'
  <2>1. Writing' BY <1>11, GotoFacts DEF Break, Places
  <2> QED BY <1>11, <2>1, TypesSplit DEF Break, Rest
<1>12. ASSUME NEW w \in Writers, ReadManifest(w) PROVE TypeOK'
  <2>1. Goto(w, "blobs") \/ Answer(w, "refused") BY <1>12 DEF ReadManifest
  <2>2. Writing' BY <2>1, GotoFacts, AnswerFacts DEF Places, Holding
  <2> QED BY <1>12, <2>2, TypesSplit DEF ReadManifest, Rest
<1>13. ASSUME NEW w \in Writers, NEW b \in Blobs, PlaceBlob(w, b) PROVE TypeOK'
  <2>1. writer' = [writer EXCEPT ![w] = [writer[w] EXCEPT !.todo = writer[w].todo \ {b}]]
    BY <1>13, TypesSplit DEF PlaceBlob, Writing
  <2>2. [writer[w] EXCEPT !.todo = writer[w].todo \ {b}] \in Writer
    BY TypesSplit DEF Writing, Writer
  <2>3. Writing' BY <2>1, <2>2, TypesSplit DEF Writing
  <2> QED BY <1>13, <2>3, TypesSplit DEF PlaceBlob, Rest
<1>14. ASSUME NEW w \in Writers, AskOwns(w) PROVE TypeOK'
  <2>1. GotoCall(w, "rename") \/ Answer(w, "refused") BY <1>14 DEF AskOwns
  <2>2. Writing' BY <2>1, GotoCallFacts, AnswerFacts DEF Places, Holding
  <2> QED BY <1>14, <2>2, TypesSplit DEF AskOwns, Rest
<1>15. ASSUME NEW w \in Writers, Rename(w) PROVE TypeOK'
  <2>1. Writing' BY <1>15, AnswerFacts DEF Rename
  <2>2. writer[w].next \in Manifests \cup {Absent} BY TypesSplit DEF Writing, Writer
  <2> QED BY <1>15, <2>1, <2>2, TypesSplit DEF Rename, Rest
<1>16. ASSUME NEW w \in Writers, Release(w) PROVE TypeOK'
  <2> DEFINE new == [Idle(writer[w].answer) EXCEPT !.pc = "rmdir", !.since = clock]
  <2>1. writer[w].answer \in {"none", "written", "refused"} /\ clock \in Times
    BY TypesSplit DEF Writing, Writer, Rest
  <2>2. Idle(writer[w].answer) \in Writer BY <2>1, IdleType
  <2>3. new \in Writer BY <2>1, <2>2 DEF Writer, Places
  <2>4. writer' = [writer EXCEPT ![w] = new] \/ End(w) BY <1>16 DEF Release
  <2> HIDE DEF new
  <2>5. Writing' BY <2>3, <2>4, TypesSplit, EndFacts DEF Writing
  <2> QED BY <1>16, <2>5, TypesSplit DEF Release, Rest
<1>17. ASSUME NEW w \in Writers, RemoveLock(w) PROVE TypeOK'
  BY <1>17, EndFacts, TypesSplit DEF RemoveLock, Rest
<1>18. ASSUME NEW w \in Writers, AskStamp(w) PROVE TypeOK'
  <2>1. writer' = [writer EXCEPT ![w] = [writer[w] EXCEPT !.asked = clock]]
    BY <1>18, TypesSplit DEF AskStamp, Writing
  <2>2. [writer[w] EXCEPT !.asked = clock] \in Writer
    BY TypesSplit DEF Writing, Writer, Rest
  <2>3. Writing' BY <2>1, <2>2, TypesSplit DEF Writing
  <2> QED BY <1>18, <2>3, TypesSplit DEF AskStamp, Rest
<1>19. ASSUME NEW w \in Writers, Stamp(w) PROVE TypeOK'
  <2> DEFINE stamped == IF lock = NoLock THEN -Stale
                        ELSE IF Owned(w) THEN writer[w].asked ELSE writer[w].stamped
  <2>1. writer[w].asked \in Times BY <1>19, TypesSplit DEF Stamp, Writing, Writer
  <2>2. stamped \in Times \cup {-Stale} BY <2>1, TypesSplit DEF Writing, Writer
  <2>3. writer' = [writer EXCEPT ![w].asked = Never, ![w].stamped = stamped]
    BY <1>19 DEF Stamp
  <2> HIDE DEF stamped
  <2>4. writer' = [writer EXCEPT ![w] = [writer[w] EXCEPT !.asked = Never, !.stamped = stamped]]
    BY <2>3, TypesSplit DEF Writing
  <2>5. [writer[w] EXCEPT !.asked = Never, !.stamped = stamped] \in Writer
    BY <2>2, TypesSplit DEF Writing, Writer
  <2>6. Writing' BY <2>4, <2>5, TypesSplit DEF Writing
  <2>7. lock' = NoLock \/ lock' \in [at: Times, by: Writers]
    BY <1>19, <2>1, TypesSplit DEF Stamp, Rest
  <2> QED BY <1>19, <2>6, <2>7, TypesSplit DEF Stamp, Rest
<1>20. ASSUME NEW w \in Writers, Fail(w) PROVE TypeOK'
  <2>1. End(w) \/ Goto(w, "unclaim") \/ Answer(w, "refused") BY <1>20 DEF Fail
  <2>2. Writing' BY <2>1, EndFacts, GotoFacts, AnswerFacts DEF Places
  <2> QED BY <1>20, <2>2, TypesSplit DEF Fail, Rest
<1>21. ASSUME NEW w \in Writers, Die(w) PROVE TypeOK'
  <2>1. Idle("none") \in Writer BY IdleType
  <2>2. [Idle("none") EXCEPT !.pc = "dead"] \in Writer BY <2>1 DEF Writer, Places
  <2>3. Writing' BY <1>21, <2>2, TypesSplit DEF Die, Writing
  <2> QED BY <1>21, <2>3, TypesSplit DEF Die, Rest
<1> QED
  BY <1>1, <1>2, <1>3, <1>4, <1>5, <1>6, <1>7, <1>8, <1>9, <1>10, <1>11, <1>12, <1>13, <1>14,
     <1>15, <1>16, <1>17, <1>18, <1>19, <1>20, <1>21 DEF Next

(* Every reachable state is well typed, whatever the calls' delays.        *)
THEOREM LineTypes == Spec => []TypeOK
<1>1. Init => TypeOK BY InitTypes
<1>2. TypeOK /\ [Next]_vars => TypeOK' BY StepTypes
<1> QED BY <1>1, <1>2, PTL DEF Spec
-----------------------------------------------------------------------------
(* The blobs.  A publisher knows the blobs of the manifest it read, and     *)
(* nothing takes them away: no lock is needed for this.                    *)

Storing == {"mkdir", "judge", "claim", "expire", "confirm", "break", "unclaim",
            "read", "blobs", "rename"}
Placed(w) ==
  /\ writer[w].pc \in Storing =>
       /\ writer[w].next \in Manifests
       /\ Names[writer[w].next] \subseteq stored \cup writer[w].todo
  /\ writer[w].pc = "rename" => writer[w].todo = {}
BlobsInv == TypeOK /\ NamedBlobsAreStored /\ \A w \in Writers : Placed(w)

LEMMA PlacedKept ==
  ASSUME BlobsInv, NEW w \in Writers, Others(w), stored \subseteq stored', Placed(w)'
  PROVE  \A v \in Writers : Placed(v)'
BY DEF BlobsInv, Placed, Others

(* A step that leaves the manifest, and in which the writer gives its write *)
(* up or keeps it.                                                         *)
LEMMA PlacedQuiet ==
  ASSUME BlobsInv, TypeOK', NEW w \in Writers, Others(w), manifest' = manifest,
         stored' = stored,
         \/ writer'[w].pc \notin Storing
         \/ SameWrite(w) /\ writer[w].pc \in Storing
            /\ (writer'[w].pc = "rename" => writer[w].todo = {})
  PROVE  BlobsInv'
<1>1. Placed(w)' BY DEF BlobsInv, Placed, SameWrite, Storing
<1>2. NamedBlobsAreStored' BY DEF BlobsInv, NamedBlobsAreStored
<1> QED BY <1>1, <1>2, PlacedKept DEF BlobsInv

LEMMA BlobsStep == ASSUME BlobsInv, [Next]_vars PROVE BlobsInv'
<1> TypeOK /\ TypeOK' BY StepTypes DEF BlobsInv
<1>1. CASE UNCHANGED vars BY <1>1 DEF vars, BlobsInv, NamedBlobsAreStored, Placed
<1>2. CASE Tick BY <1>2 DEF Tick, BlobsInv, NamedBlobsAreStored, Placed
<1>3. ASSUME NEW w \in Writers, NEW next \in Manifests, Load(w, next) PROVE BlobsInv'
  <2>1. /\ Others(w) /\ writer'[w].pc = "mkdir" /\ writer'[w].next = next
        /\ writer'[w].todo = IF manifest = Absent THEN Names[next]
                                                  ELSE Names[next] \ Names[manifest]
    BY <1>3 DEF Load, Idle, TypeOK, Others
  <2>2. Placed(w)' BY <1>3, <2>1 DEF Load, Placed, BlobsInv, NamedBlobsAreStored
  <2>3. NamedBlobsAreStored' BY <1>3 DEF Load, BlobsInv, NamedBlobsAreStored
  <2> QED BY <1>3, <2>1, <2>2, <2>3, PlacedKept DEF Load, BlobsInv
<1>4. ASSUME NEW w \in Writers, NEW b \in Blobs, PlaceBlob(w, b) PROVE BlobsInv'
  <2>1. /\ Others(w) /\ writer'[w].pc = "blobs" /\ writer'[w].next = writer[w].next
        /\ writer'[w].todo = writer[w].todo \ {b} /\ stored' = stored \cup {b}
    BY <1>4, TypesSplit DEF PlaceBlob, Writing, Writer, Others
  <2>2. Placed(w)' BY <1>4, <2>1 DEF PlaceBlob, BlobsInv, Placed, Storing
  <2>3. NamedBlobsAreStored' BY <1>4, <2>1 DEF PlaceBlob, BlobsInv, NamedBlobsAreStored
  <2> QED BY <2>1, <2>2, <2>3, PlacedKept DEF BlobsInv
<1>5. ASSUME NEW w \in Writers, Rename(w) PROVE BlobsInv'
  <2>1. Others(w) /\ writer'[w].pc = "release" BY <1>5, AnswerFacts DEF Rename
  <2>2. Placed(w)' BY <2>1 DEF Placed, Storing
  <2>3. Names[writer[w].next] \subseteq stored BY <1>5 DEF Rename, BlobsInv, Placed, Storing
  <2>4. NamedBlobsAreStored' BY <1>5, <2>3 DEF Rename, NamedBlobsAreStored
  <2> QED BY <1>5, <2>1, <2>2, <2>4, PlacedKept DEF Rename, BlobsInv
<1>6. ASSUME NEW w \in Writers, MakeLock(w) PROVE BlobsInv'
  <2>1. Others(w) /\ SameWrite(w) /\ writer'[w].pc = "read"
    BY <1>6, TypesSplit DEF MakeLock, Writing, Writer, Others, SameWrite
  <2> QED BY <1>6, <2>1, PlacedQuiet DEF MakeLock, Storing
<1>7. ASSUME NEW w \in Writers, StatLock(w) PROVE BlobsInv'
  <2>1. Others(w) /\ SameWrite(w) /\ writer'[w].pc = "judge"
    BY <1>7, TypesSplit DEF StatLock, Writing, Writer, Others, SameWrite
  <2> QED BY <1>7, <2>1, PlacedQuiet DEF StatLock, Storing
<1>8. ASSUME NEW w \in Writers, AskStamp(w) PROVE BlobsInv'
  <2>1. Others(w) /\ SameWrite(w) /\ writer'[w].pc = writer[w].pc
    BY <1>8, TypesSplit DEF AskStamp, Writing, Writer, Others, SameWrite
  <2> QED BY <1>8, <2>1, PlacedQuiet DEF AskStamp, Storing, BlobsInv, Placed
<1>9. ASSUME NEW w \in Writers, Stamp(w) PROVE BlobsInv'
  <2>1. Others(w) /\ SameWrite(w) /\ writer'[w].pc = writer[w].pc
    BY <1>9, TypesSplit DEF Stamp, Writing, Writer, Others, SameWrite
  <2> QED BY <1>9, <2>1, PlacedQuiet DEF Stamp, BlobsInv, Placed
<1>10. ASSUME NEW w \in Writers, Release(w) PROVE BlobsInv'
  <2>1. Others(w) /\ writer'[w].pc \in {"rmdir", "idle"}
    BY <1>10, EndFacts, TypesSplit DEF Release, Idle, Writing, Others
  <2> QED BY <1>10, <2>1, PlacedQuiet DEF Release, Storing
<1>11. ASSUME NEW w \in Writers, Die(w) PROVE BlobsInv'
  <2>1. Others(w) /\ writer'[w].pc = "dead"
    BY <1>11, TypesSplit DEF Die, Idle, Writing, Others
  <2> QED BY <1>11, <2>1, PlacedQuiet DEF Die, Storing
<1>12. ASSUME NEW w \in Writers,
              \/ Judge(w) \/ MakeClaim(w) \/ StatClaim(w) \/ ExpireClaim(w) \/ Confirm(w)
              \/ Break(w) \/ Unclaim(w) \/ ReadManifest(w) \/ AskOwns(w) \/ RemoveLock(w)
              \/ Fail(w)
       PROVE  BlobsInv'
  <2>1. /\ manifest' = manifest /\ stored' = stored
        /\ \/ writer[w].pc \in Storing
              /\ \/ Retry(w)
                 \/ \E pc \in Storing \ {"rename", "mkdir"} : Goto(w, pc)
                 \/ GotoCall(w, "confirm")
                 \/ writer[w].todo = {} /\ GotoCall(w, "rename")
           \/ Answer(w, "refused")
           \/ End(w)
    BY <1>12 DEF Judge, MakeClaim, StatClaim, ExpireClaim, Confirm, Break, Unclaim,
                 ReadManifest, AskOwns, RemoveLock, Fail, Storing
  <2>2. CASE Retry(w) /\ writer[w].pc \in Storing
    BY <2>1, <2>2, RetryFacts, PlacedQuiet
  <2>3. ASSUME NEW pc \in Storing \ {"rename", "mkdir"}, Goto(w, pc), writer[w].pc \in Storing
        PROVE  BlobsInv'
    <3>1. pc \in Places BY DEF Storing, Places, Holding
    <3> QED BY <2>1, <2>3, <3>1, GotoFacts, PlacedQuiet
  <2>4. ASSUME NEW pc \in {"confirm", "rename"}, GotoCall(w, pc), writer[w].pc \in Storing,
               pc = "rename" => writer[w].todo = {}
        PROVE  BlobsInv'
    <3>1. pc \in Places BY DEF Places, Holding
    <3> QED BY <2>1, <2>4, <3>1, GotoCallFacts, PlacedQuiet
  <2>5. CASE Answer(w, "refused")
    <3>1. Others(w) /\ writer'[w].pc = "release" BY <2>5, AnswerFacts
    <3> QED BY <2>1, <3>1, PlacedQuiet DEF Storing
  <2>6. CASE End(w)
    <3>1. Others(w) /\ writer'[w].pc = "idle" BY <2>6, EndFacts
    <3> QED BY <2>1, <3>1, PlacedQuiet DEF Storing
  <2> QED BY <2>1, <2>2, <2>3, <2>4, <2>5, <2>6
<1> QED
  BY <1>1, <1>2, <1>3, <1>4, <1>5, <1>6, <1>7, <1>8, <1>9, <1>10, <1>11, <1>12 DEF Next

(* A reader finds every blob of the manifest it reads, whatever the calls'  *)
(* delays and whoever holds the lock.                                      *)
THEOREM BlobsOfALineStored == Spec => []NamedBlobsAreStored
<1>1. Init => BlobsInv
  <2> SUFFICES ASSUME Init PROVE BlobsInv OBVIOUS
  <2>1. \A w \in Writers : writer[w].pc = "idle" BY DEF Init, Idle
  <2> QED BY <2>1, InitTypes DEF Init, BlobsInv, NamedBlobsAreStored, Placed, Storing
<1>2. BlobsInv /\ [Next]_vars => BlobsInv' BY BlobsStep
<1>3. BlobsInv => NamedBlobsAreStored BY DEF BlobsInv
<1> QED BY <1>1, <1>2, <1>3, PTL DEF Spec
-----------------------------------------------------------------------------
(* The lock, where every call is prompt.                                   *)

(* A lock its holder still counts on: it vouches for it, waits for a stamp  *)
(* it asked for while it did, or is at a call it made while it did.        *)
Counted(w) ==
  \/ writer[w].pc \in Holding /\ (Owned(w) \/ writer[w].asked # Never)
  \/ writer[w].pc \in {"rename", "rmdir"}

(* Such a lock is there, and is as young as its holder believes.           *)
Stands(w) ==
  Counted(w) => /\ lock # NoLock /\ lock.by = w
                /\ writer[w].pc # "rmdir" => writer[w].stamped <= lock.at
InFlight(w) ==
  LET me == writer[w] IN
  /\ me.asked # Never => /\ me.pc \in Holding /\ me.stamped < me.asked
                         /\ me.asked - me.stamped < Stale - Refresh
                         /\ clock - me.asked <= Refresh
  /\ me.pc = "rename" => /\ me.since - me.stamped < Stale - Refresh
                         /\ clock - me.since <= Refresh
  /\ me.pc = "rmdir" => /\ me.since - lock.at < Stale - Refresh
                        /\ clock - me.since <= Refresh
(* A lock about to be broken is the one that was judged.                   *)
Found(w) == writer[w].pc = "break" => lock # NoLock /\ lock.at = writer[w].seen
(* While its lock is counted on, a writer's manifest is the one it read.   *)
Read(w) ==
  writer[w].pc \in {"blobs", "rename"} /\ Counted(w) => manifest = writer[w].expected
Locks(w) == Stands(w) /\ InFlight(w) /\ Found(w) /\ Read(w)

(* A lock judged dead is old, and stays so; the claim on removing it is     *)
(* there, young, and one's own.                                            *)
Breaking(w) == writer[w].pc \in {"confirm", "break", "unclaim"}
Judged(w) ==
  writer[w].pc \in {"claim", "expire", "confirm", "break", "unclaim"} =>
    clock - writer[w].seen > Stale
Claimed(w) ==
  Breaking(w) => /\ [of |-> writer[w].seen, at |-> writer[w].since] \in claims
                 /\ clock - writer[w].since <= Stale
Expiring(w) ==
  writer[w].pc = "expire" => \A c \in Named(writer[w].seen) : clock - c.at > Stale
Claims(w) == Judged(w) /\ Claimed(w) /\ Expiring(w)

OneClaim == \A c, d \in claims : c.of = d.of => c = d
OneBreaker ==
  \A v, w \in Writers : Breaking(v) /\ Breaking(w) /\ writer[v].seen = writer[w].seen => v = w

LockInv == OneClaim /\ OneBreaker /\ \A w \in Writers : Locks(w) /\ Claims(w)

LEMMA Fields ==
  ASSUME TypeOK, NEW w \in Writers
  PROVE /\ clock \in Int /\ 0 <= clock
        /\ writer[w].stamped \in Int /\ writer[w].asked \in Int
        /\ writer[w].since \in Int /\ writer[w].seen \in Int
        /\ lock # NoLock => lock.at \in Int
        /\ Stale \in Int /\ Refresh \in Int /\ 0 < Refresh /\ Refresh < Stale
        /\ Never = -1
BY Bounds DEF TypeOK, Times

LEMMA Young ==
  ASSUME TypeOK, LockInv, NEW w \in Writers, Counted(w)
  PROVE  lock # NoLock /\ lock.by = w /\ clock - lock.at < Stale
<1>1. Stands(w) /\ InFlight(w) BY DEF LockInv, Locks
<1>2. lock # NoLock /\ lock.by = w BY <1>1 DEF Stands
<1>3. CASE writer[w].pc = "rmdir" BY <1>1, <1>2, <1>3, Fields DEF InFlight
<1>4. CASE writer[w].pc # "rmdir"
  <2>1. writer[w].stamped <= lock.at BY <1>1, <1>4 DEF Stands
  <2>2. clock - writer[w].stamped < Stale
    BY <1>1, <1>4, Fields DEF InFlight, Counted, Owned
  <2> QED BY <1>2, <2>1, <2>2, Fields
<1> QED BY <1>2, <1>3, <1>4

(* Whoever counts on the lock is alone, and nobody is about to break it;    *)
(* whoever is about to break it is alone too.                              *)
LEMMA Alone ==
  ASSUME TypeOK, LockInv, NEW w \in Writers, lock = NoLock \/ Counted(w) \/ writer[w].pc = "break"
  PROVE  \A v \in Writers \ {w} : ~Counted(v) /\ writer[v].pc # "break"
<1> SUFFICES ASSUME NEW v \in Writers \ {w} PROVE ~Counted(v) /\ writer[v].pc # "break"
  OBVIOUS
<1>1. Counted(v) => lock # NoLock /\ lock.by = v /\ clock - lock.at < Stale BY Young
<1>2. writer[v].pc = "break" =>
        lock # NoLock /\ lock.at = writer[v].seen /\ clock - writer[v].seen > Stale
  BY DEF LockInv, Locks, Claims, Found, Judged
<1>3. CASE lock = NoLock BY <1>1, <1>2, <1>3
<1>4. CASE Counted(w)
  <2>1. lock # NoLock /\ lock.by = w /\ clock - lock.at < Stale BY <1>4, Young
  <2> QED BY <1>1, <1>2, <2>1, Fields
<1>5. CASE writer[w].pc = "break"
  <2>1. lock # NoLock /\ lock.at = writer[w].seen /\ clock - writer[w].seen > Stale
    BY <1>5 DEF LockInv, Locks, Claims, Found, Judged
  <2>2. writer[v].pc # "break" BY <1>2, <1>5, <2>1 DEF LockInv, OneBreaker, Breaking
  <2> QED BY <1>1, <2>1, <2>2, Fields
<1> QED BY <1>3, <1>4, <1>5

(* What a step of one writer leaves to the others.                         *)
LEMMA LocksKept ==
  ASSUME LockInv, NEW w \in Writers, Others(w), clock' = clock, lock' = lock,
         manifest' = manifest
  PROVE  \A v \in Writers \ {w} : Locks(v)'
BY DEF LockInv, Locks, Stands, Counted, Owned, InFlight, Found, Read, Others

LEMMA LocksApart ==
  ASSUME TypeOK, LockInv, NEW w \in Writers, Others(w), clock' = clock,
         lock = NoLock \/ Counted(w) \/ writer[w].pc = "break"
  PROVE  \A v \in Writers \ {w} : Locks(v)'
<1> SUFFICES ASSUME NEW v \in Writers \ {w} PROVE Locks(v)' OBVIOUS
<1>1. ~Counted(v) /\ writer[v].pc # "break" /\ writer'[v] = writer[v] BY Alone DEF Others
<1>2. ~Counted(v)' /\ writer'[v].pc # "break" BY <1>1 DEF Counted, Owned
<1>3. InFlight(v)' BY <1>1 DEF LockInv, Locks, InFlight, Counted
<1> QED BY <1>2, <1>3 DEF Locks, Stands, Found, Read

(* A claim that goes was looked at while it was old, or was one's own.     *)
LEMMA ClaimsKept ==
  ASSUME TypeOK, LockInv, Prompt = Calls, NEW w \in Writers, Free(w), Others(w), clock' = clock,
         \/ claims \subseteq claims'
         \/ /\ claims' = claims \ Named(writer[w].seen)
            /\ writer[w].pc \in {"expire", "unclaim"}
  PROVE  \A v \in Writers \ {w} : Claims(v)'
<1> SUFFICES ASSUME NEW v \in Writers \ {w} PROVE Claims(v)' OBVIOUS
<1>1. Claims(v) /\ writer'[v] = writer[v] /\ writer[v].pc # "expire"
  BY DEF LockInv, Others, Free, Calls
<1>2. Judged(v)' /\ Expiring(v)' BY <1>1 DEF Claims, Judged, Expiring
<1>3. Breaking(v)' <=> Breaking(v) BY <1>1 DEF Breaking
<1>4. ASSUME Breaking(v) PROVE [of |-> writer[v].seen, at |-> writer[v].since] \in claims'
  <2> DEFINE c == [of |-> writer[v].seen, at |-> writer[v].since]
  <2>1. c \in claims /\ clock - writer[v].since <= Stale BY <1>1, <1>4 DEF Claims, Claimed
  <2>2. CASE claims \subseteq claims' BY <2>1, <2>2
  <2>3. CASE claims' = claims \ Named(writer[w].seen) /\ writer[w].pc = "expire"
    <3>1. ~(clock - c.at > Stale) BY <2>1, Fields
    <3>2. c \notin Named(writer[w].seen) BY <2>3, <3>1 DEF LockInv, Claims, Expiring
    <3> QED BY <2>1, <2>3, <3>2
  <2>4. CASE claims' = claims \ Named(writer[w].seen) /\ writer[w].pc = "unclaim"
    <3>1. writer[v].seen # writer[w].seen
      BY <1>4, <2>4 DEF LockInv, OneBreaker, Breaking
    <3> QED BY <2>1, <2>4, <3>1 DEF Named
  <2> QED BY <2>2, <2>3, <2>4
<1>5. Claimed(v)' BY <1>1, <1>3, <1>4 DEF Claims, Claimed
<1> QED BY <1>2, <1>5 DEF Claims

(* A writer that was breaking a lock, or that stops.                       *)
LEMMA BreakersKept ==
  ASSUME LockInv, NEW w \in Writers, Others(w),
         Breaking(w)' => Breaking(w) /\ SameClaim(w)
  PROVE  OneBreaker'
BY DEF LockInv, OneBreaker, Breaking, Others, SameClaim

LEMMA OneClaimKept == ASSUME LockInv, claims' \subseteq claims PROVE OneClaim'
BY DEF LockInv, OneClaim

(* A writer that is nowhere in particular.                                 *)
LEMMA AwayKept ==
  ASSUME NEW w \in Writers, writer'[w].pc \in {"idle", "mkdir", "judge", "dead"},
         writer'[w].asked = Never
  PROVE  Locks(w)' /\ Claims(w)' /\ ~Breaking(w)'
BY DEF Locks, Stands, Counted, InFlight, Found, Read, Claims, Judged, Claimed, Breaking, Expiring,
       Holding

LEMMA AwayStep ==
  ASSUME TypeOK, LockInv, Prompt = Calls, NEW w \in Writers, Free(w), Others(w),
         UNCHANGED <<clock, lock, manifest>>,
         writer'[w].pc \in {"idle", "mkdir", "judge", "dead"}, writer'[w].asked = Never,
         \/ claims' = claims
         \/ /\ claims' = claims \ Named(writer[w].seen)
            /\ writer[w].pc \in {"expire", "unclaim"}
  PROVE  LockInv'
<1>1. OneClaim' BY OneClaimKept
<1>2. Locks(w)' /\ Claims(w)' /\ ~Breaking(w)' BY AwayKept
<1>3. OneBreaker' BY <1>2, BreakersKept
<1>4. \A v \in Writers \ {w} : Locks(v)' /\ Claims(v)' BY LocksKept, ClaimsKept
<1> QED BY <1>1, <1>2, <1>3, <1>4 DEF LockInv

(* A holder that goes on holding, its stamps where they were.              *)
LEMMA HoldingStep ==
  ASSUME TypeOK, LockInv, Prompt = Calls, NEW w \in Writers, Free(w), Others(w),
         UNCHANGED <<clock, lock, manifest, claims>>, SameStamps(w),
         writer[w].pc \in Holding, writer'[w].pc \in Holding,
         writer'[w].pc = "rename" =>
           \/ writer[w].pc = "rename" /\ writer'[w].since = writer[w].since
           \/ Owned(w) /\ writer'[w].since = clock,
         writer'[w].pc \in {"blobs", "rename"} =>
           \/ manifest = writer'[w].expected
           \/ writer[w].pc \in {"blobs", "rename"} /\ writer'[w].expected = writer[w].expected
  PROVE  LockInv'
<1>1. OneClaim' BY OneClaimKept
<1>2. ~Breaking(w)' /\ writer'[w].pc \notin {"expire", "claim", "break", "rmdir"}
      /\ writer[w].pc # "rmdir"
  BY DEF Breaking, Holding
<1>3. OneBreaker' BY <1>2, BreakersKept
<1>4. \A v \in Writers \ {w} : Locks(v)' /\ Claims(v)' BY LocksKept, ClaimsKept
<1>5. Claims(w)' BY <1>2 DEF Claims, Judged, Claimed, Breaking, Expiring
<1>6. Counted(w)' => Counted(w) BY <1>2 DEF Counted, Owned, SameStamps
<1>7. Stands(w)' BY <1>2, <1>6 DEF LockInv, Locks, Stands, SameStamps
<1>8. InFlight(w)'
  <2>1. Owned(w) /\ writer'[w].since = clock =>
          /\ writer'[w].since - writer'[w].stamped < Stale - Refresh
          /\ clock - writer'[w].since <= Refresh
    BY Fields DEF Owned, SameStamps
  <2> QED BY <1>2, <2>1 DEF LockInv, Locks, InFlight, SameStamps
<1>9. Found(w)' /\ Read(w)' BY <1>2, <1>6 DEF LockInv, Locks, Found, Read
<1> QED BY <1>1, <1>3, <1>4, <1>5, <1>7, <1>8, <1>9 DEF LockInv, Locks

LEMMA LockInit == Init => LockInv
<1> SUFFICES ASSUME Init PROVE LockInv OBVIOUS
<1>1. \A w \in Writers : writer[w].pc = "idle" /\ writer[w].asked = Never BY DEF Init, Idle
<1>2. \A w \in Writers : Locks(w) /\ Claims(w)
  BY <1>1 DEF Locks, Stands, Counted, InFlight, Found, Read, Claims, Judged, Claimed,
              Breaking, Expiring, Holding
<1>3. OneClaim /\ OneBreaker BY <1>1 DEF Init, OneClaim, OneBreaker, Breaking
<1> QED BY <1>2, <1>3 DEF LockInv

LEMMA TickStep == ASSUME TypeOK, TypeOK', LockInv, Prompt = Calls, Tick PROVE LockInv'
<1>1. clock' = clock + 1 /\ UNCHANGED <<manifest, lock, claims, writer>>
      /\ \A w \in Writers : ~Overdue(w)
  BY DEF Tick
<1>2. OneClaim' /\ OneBreaker' BY <1>1 DEF LockInv, OneClaim, OneBreaker, Breaking
<1> SUFFICES ASSUME NEW w \in Writers PROVE (Locks(w) /\ Claims(w))'
  BY <1>2 DEF LockInv
<1>3. Locks(w) /\ Claims(w) /\ ~Overdue(w) BY <1>1 DEF LockInv
<1>4. Counted(w)' => Counted(w) BY <1>1, Fields DEF Counted, Owned
<1>5. Stands(w)' BY <1>1, <1>3, <1>4 DEF Locks, Stands
<1>6. InFlight(w)'
  <2>1. /\ writer[w].asked # Never => clock - writer[w].asked < Refresh
        /\ writer[w].pc \in {"rename", "rmdir"} => clock - writer[w].since < Refresh
    BY <1>3, Fields DEF Overdue, Calls
  <2> QED BY <1>1, <1>3, <2>1, Fields DEF Locks, InFlight
<1>7. Found(w)' /\ Read(w)' BY <1>1, <1>3, <1>4 DEF Locks, Found, Read
<1>8. Judged(w)' BY <1>1, <1>3, Fields DEF Claims, Judged
<1>9. Claimed(w)'
  <2>1. Breaking(w) => clock - writer[w].since < Stale
    BY <1>3, Fields DEF Overdue, Calls, Breaking
  <2> QED BY <1>1, <1>3, <2>1, Fields DEF Claims, Claimed, Breaking
<1>10. Expiring(w)'
  <2>1. \A c \in claims : c.at \in Int BY Bounds DEF TypeOK
  <2> QED BY <1>1, <1>3, <2>1, Fields DEF Claims, Expiring, Named
<1> QED BY <1>5, <1>6, <1>7, <1>8, <1>9, <1>10 DEF Locks, Claims

LEMMA MakeLockStep ==
  ASSUME TypeOK, LockInv, Prompt = Calls, NEW w \in Writers, Free(w), MakeLock(w) PROVE LockInv'
<1>1. /\ Others(w) /\ writer'[w].pc = "read" /\ writer'[w].stamped = clock
      /\ writer'[w].asked = writer[w].asked
  BY TypesSplit DEF MakeLock, Writing, Writer, Others
<1>2. /\ lock = NoLock /\ lock' = [at |-> clock, by |-> w]
      /\ UNCHANGED <<clock, manifest, claims>>
  BY DEF MakeLock
<1>3. \A v \in Writers \ {w} : Locks(v)' /\ Claims(v)' BY <1>1, <1>2, LocksApart, ClaimsKept
<1>4. OneClaim' BY <1>2, OneClaimKept
<1>5. OneBreaker' /\ Claims(w)'
  BY <1>1, BreakersKept DEF Breaking, Claims, Judged, Claimed, Expiring
<1>6. lock' # NoLock BY <1>2, Fields DEF NoLock
<1>7. writer[w].asked = Never BY DEF MakeLock, LockInv, Locks, InFlight, Holding
<1>8. Locks(w)' BY <1>1, <1>2, <1>6, <1>7, Fields DEF Locks, Stands, InFlight, Found, Read
<1> QED BY <1>3, <1>4, <1>5, <1>8 DEF LockInv

LEMMA JudgeStep ==
  ASSUME TypeOK, LockInv, Prompt = Calls, NEW w \in Writers, Free(w), Judge(w) PROVE LockInv'
<1>1. writer[w].asked = Never BY DEF Judge, LockInv, Locks, InFlight, Holding
<1>2. UNCHANGED <<clock, manifest, stored, lock, claims>> BY DEF Judge
<1>3. CASE Retry(w) \/ End(w)
  <2>1. Others(w) /\ writer'[w].pc \in {"idle", "mkdir"} /\ writer'[w].asked = Never
    BY <1>1, <1>3, RetryFacts, EndFacts DEF SameStamps
  <2> QED BY <1>2, <2>1, AwayStep
<1>4. CASE clock - writer[w].seen > Stale /\ Goto(w, "claim")
  <2>1. Others(w) /\ writer'[w].pc = "claim" /\ SameStamps(w) /\ SameClaim(w)
    BY <1>4, GotoFacts DEF Places
  <2>2. \A v \in Writers \ {w} : Locks(v)' /\ Claims(v)' BY <1>2, <2>1, LocksKept, ClaimsKept
  <2>3. OneClaim' /\ OneBreaker' BY <1>2, <2>1, OneClaimKept, BreakersKept DEF Breaking
  <2>4. Locks(w)'
    BY <1>1, <2>1 DEF Locks, Stands, Counted, InFlight, Found, Read, Holding, SameStamps
  <2>5. Claims(w)'
    BY <1>2, <1>4, <2>1 DEF Claims, Judged, Claimed, Breaking, Expiring, SameClaim
  <2> QED BY <2>2, <2>3, <2>4, <2>5 DEF LockInv
<1> QED BY <1>3, <1>4 DEF Judge

LEMMA StatClaimStep ==
  ASSUME TypeOK, LockInv, Prompt = Calls, NEW w \in Writers, Free(w), StatClaim(w) PROVE LockInv'
<1>1. writer[w].asked = Never /\ writer[w].pc = "claim"
  BY DEF StatClaim, LockInv, Locks, InFlight, Holding
<1>2. UNCHANGED <<clock, manifest, stored, lock, claims>> BY DEF StatClaim
<1>3. CASE Retry(w) \/ End(w)
  <2>1. Others(w) /\ writer'[w].pc \in {"idle", "mkdir"} /\ writer'[w].asked = Never
    BY <1>1, <1>3, RetryFacts, EndFacts DEF SameStamps
  <2> QED BY <1>2, <2>1, AwayStep
<1>4. ASSUME NEW c \in Named(writer[w].seen), clock - c.at > Stale, Goto(w, "expire")
      PROVE  LockInv'
  <2>1. Others(w) /\ writer'[w].pc = "expire" /\ SameStamps(w) /\ SameClaim(w)
    BY <1>4, GotoFacts DEF Places
  <2>2. \A v \in Writers \ {w} : Locks(v)' /\ Claims(v)' BY <1>2, <2>1, LocksKept, ClaimsKept
  <2>3. OneClaim' /\ OneBreaker' BY <1>2, <2>1, OneClaimKept, BreakersKept DEF Breaking
  <2>4. Locks(w)'
    BY <1>1, <2>1 DEF Locks, Stands, Counted, InFlight, Found, Read, Holding, SameStamps
  <2>5. \A d \in Named(writer[w].seen) : d = c BY DEF Named, LockInv, OneClaim
  <2>6. Judged(w)' /\ Claimed(w)'
    BY <1>1, <1>2, <2>1 DEF LockInv, Claims, Judged, Claimed, Breaking, SameClaim
  <2>7. Expiring(w)' BY <1>2, <1>4, <2>1, <2>5 DEF Expiring, SameClaim, Named
  <2> QED BY <2>2, <2>3, <2>4, <2>6, <2>7 DEF LockInv, Claims
<1> QED BY <1>3, <1>4 DEF StatClaim

LEMMA MakeClaimStep ==
  ASSUME TypeOK, LockInv, Prompt = Calls, NEW w \in Writers, Free(w), MakeClaim(w) PROVE LockInv'
<1> DEFINE mine == [of |-> writer[w].seen, at |-> clock]
<1>1. /\ UNCHANGED <<clock, manifest, stored, lock>> /\ writer[w].pc = "claim"
      /\ Named(writer[w].seen) = {} /\ claims' = claims \cup {mine}
  BY DEF MakeClaim
<1>2. /\ Others(w) /\ writer'[w].pc = "confirm" /\ SameStamps(w)
      /\ writer'[w].seen = writer[w].seen /\ writer'[w].since = clock
  BY GotoCallFacts DEF MakeClaim, Places
<1>3. \A v \in Writers \ {w} : Locks(v)' /\ Claims(v)' BY <1>1, <1>2, LocksKept, ClaimsKept
<1>4. \A c \in claims : c.of # writer[w].seen BY <1>1 DEF Named
<1>5. OneClaim' BY <1>1, <1>4 DEF LockInv, OneClaim
<1>6. \A v \in Writers : Breaking(v) => writer[v].seen # writer[w].seen
  BY <1>4 DEF LockInv, Claims, Claimed
<1>7. OneBreaker' BY <1>2, <1>6 DEF LockInv, OneBreaker, Breaking, Others
<1>8. writer[w].asked = Never BY <1>1 DEF LockInv, Locks, InFlight, Holding
<1>9. Locks(w)'
  BY <1>2, <1>8 DEF Locks, Stands, Counted, InFlight, Found, Read, Holding, SameStamps
<1>10. Claims(w)'
  <2>1. Judged(w)' BY <1>1, <1>2 DEF LockInv, Claims, Judged
  <2>2. mine \in claims' /\ clock - clock <= Stale BY <1>1, Fields
  <2>3. Claimed(w)' BY <1>1, <1>2, <2>2 DEF Claimed
  <2> QED BY <1>2, <2>1, <2>3 DEF Claims, Expiring
<1> QED BY <1>3, <1>5, <1>7, <1>9, <1>10 DEF LockInv

LEMMA ConfirmStep ==
  ASSUME TypeOK, LockInv, Prompt = Calls, NEW w \in Writers, Free(w),
         UNCHANGED <<clock, manifest, lock, claims>>, Breaking(w),
         \/ lock # NoLock /\ lock.at = writer[w].seen /\ Goto(w, "break")
         \/ Goto(w, "unclaim")
  PROVE  LockInv'
<1>1. /\ Others(w) /\ writer'[w].pc \in {"break", "unclaim"} /\ SameStamps(w) /\ SameClaim(w)
      /\ writer'[w].pc = "break" => lock # NoLock /\ lock.at = writer[w].seen
  BY GotoFacts DEF Places
<1>2. \A v \in Writers \ {w} : Locks(v)' /\ Claims(v)' BY <1>1, LocksKept, ClaimsKept
<1>3. OneClaim' /\ OneBreaker' BY <1>1, OneClaimKept, BreakersKept
<1>4. writer[w].asked = Never BY DEF Breaking, LockInv, Locks, InFlight, Holding
<1>5. Locks(w)'
  BY <1>1, <1>4 DEF Locks, Stands, Counted, InFlight, Found, Read, Holding, SameStamps, SameClaim
<1>6. Claims(w)'
  BY <1>1 DEF LockInv, Claims, Judged, Claimed, Breaking, Expiring, SameClaim
<1> QED BY <1>2, <1>3, <1>5, <1>6 DEF LockInv

LEMMA BreakStep ==
  ASSUME TypeOK, LockInv, Prompt = Calls, NEW w \in Writers, Free(w), Break(w) PROVE LockInv'
<1>1. UNCHANGED <<clock, manifest, claims>> /\ writer[w].pc = "break" BY DEF Break
<1>2. Others(w) /\ writer'[w].pc = "unclaim" /\ SameStamps(w) /\ SameClaim(w)
  BY GotoFacts DEF Break, Places
<1>3. \A v \in Writers \ {w} : Locks(v)' /\ Claims(v)' BY <1>1, <1>2, LocksApart, ClaimsKept
<1>4. OneClaim' /\ OneBreaker' BY <1>1, <1>2, OneClaimKept, BreakersKept DEF Breaking
<1>5. writer[w].asked = Never BY <1>1 DEF LockInv, Locks, InFlight, Holding
<1>6. Locks(w)'
  BY <1>2, <1>5 DEF Locks, Stands, Counted, InFlight, Found, Read, Holding, SameStamps
<1>7. Claims(w)'
  BY <1>1, <1>2 DEF LockInv, Claims, Judged, Claimed, Breaking, Expiring, SameClaim
<1> QED BY <1>3, <1>4, <1>6, <1>7 DEF LockInv

LEMMA UnclaimStep ==
  ASSUME TypeOK, LockInv, Prompt = Calls, NEW w \in Writers, Free(w),
         ExpireClaim(w) \/ Unclaim(w)
  PROVE  LockInv'
<1>1. /\ UNCHANGED <<clock, manifest, lock>> /\ writer[w].pc \in {"expire", "unclaim"}
      /\ claims' = claims \ Named(writer[w].seen) /\ (Retry(w) \/ End(w))
  BY DEF ExpireClaim, Unclaim
<1>2. writer[w].asked = Never BY <1>1 DEF LockInv, Locks, InFlight, Holding
<1>3. Others(w) /\ writer'[w].pc \in {"idle", "mkdir"} /\ writer'[w].asked = Never
  BY <1>1, <1>2, RetryFacts, EndFacts DEF SameStamps
<1> QED BY <1>1, <1>3, AwayStep

LEMMA AnswerStep ==
  ASSUME TypeOK, LockInv, Prompt = Calls, NEW w \in Writers, Free(w),
         UNCHANGED <<clock, manifest, lock, claims>>,
         writer[w].pc \in Holding, Answer(w, "refused")
  PROVE  LockInv'
<1>1. Others(w) /\ writer'[w].pc = "release" /\ SameStamps(w) BY AnswerFacts
<1> QED BY <1>1, HoldingStep DEF Holding

LEMMA ReadManifestStep ==
  ASSUME TypeOK, LockInv, Prompt = Calls, NEW w \in Writers, Free(w), ReadManifest(w)
  PROVE  LockInv'
<1>1. UNCHANGED <<clock, manifest, lock, claims>> /\ writer[w].pc \in Holding
  BY DEF ReadManifest, Holding
<1>2. CASE Answer(w, "refused") BY <1>1, <1>2, AnswerStep
<1>3. CASE manifest = writer[w].expected /\ Goto(w, "blobs")
  <2>1. Others(w) /\ writer'[w].pc = "blobs" /\ SameStamps(w) /\ SameWrite(w)
    BY <1>3, GotoFacts DEF Places, Holding
  <2> QED BY <1>1, <1>3, <2>1, HoldingStep DEF Holding, SameWrite
<1> QED BY <1>2, <1>3 DEF ReadManifest

LEMMA PlaceBlobStep ==
  ASSUME TypeOK, LockInv, Prompt = Calls, NEW w \in Writers, Free(w),
         NEW b \in Blobs, PlaceBlob(w, b)
  PROVE  LockInv'
<1>1. /\ Others(w) /\ SameStamps(w) /\ writer'[w].pc = "blobs" /\ writer[w].pc = "blobs"
      /\ writer'[w].expected = writer[w].expected
  BY TypesSplit DEF PlaceBlob, Writing, Writer, Others, SameStamps
<1> QED BY <1>1, HoldingStep DEF PlaceBlob, Holding

LEMMA AskOwnsStep ==
  ASSUME TypeOK, LockInv, Prompt = Calls, NEW w \in Writers, Free(w), AskOwns(w)
  PROVE  LockInv'
<1>1. UNCHANGED <<clock, manifest, lock, claims>> /\ writer[w].pc = "blobs"
  BY DEF AskOwns
<1>2. CASE Answer(w, "refused") BY <1>1, <1>2, AnswerStep DEF Holding
<1>3. CASE Owned(w) /\ GotoCall(w, "rename")
  <2>1. /\ Others(w) /\ writer'[w].pc = "rename" /\ SameStamps(w) /\ SameWrite(w)
        /\ writer'[w].since = clock
    BY <1>3, GotoCallFacts DEF Places, Holding
  <2> QED BY <1>1, <1>3, <2>1, HoldingStep DEF Holding, SameWrite
<1> QED BY <1>2, <1>3 DEF AskOwns

LEMMA RenameStep ==
  ASSUME TypeOK, LockInv, Prompt = Calls, NEW w \in Writers, Free(w), Rename(w) PROVE LockInv'
<1>1. UNCHANGED <<clock, lock, claims>> /\ writer[w].pc = "rename" BY DEF Rename
<1>2. Others(w) /\ writer'[w].pc = "release" /\ SameStamps(w) BY AnswerFacts DEF Rename
<1>3. Counted(w) BY <1>1 DEF Counted
<1>4. \A v \in Writers \ {w} : Locks(v)' /\ Claims(v)'
  BY <1>1, <1>2, <1>3, LocksApart, ClaimsKept
<1>5. OneClaim' /\ OneBreaker' BY <1>1, <1>2, OneClaimKept, BreakersKept DEF Breaking
<1>6. Claims(w)' BY <1>2 DEF Claims, Judged, Claimed, Breaking, Expiring
<1>7. Stands(w)' BY <1>1, <1>2, <1>3 DEF LockInv, Locks, Stands, SameStamps
<1>8. InFlight(w)' BY <1>1, <1>2 DEF LockInv, Locks, InFlight, Holding, SameStamps
<1>9. Found(w)' /\ Read(w)' BY <1>2 DEF Found, Read
<1> QED BY <1>4, <1>5, <1>6, <1>7, <1>8, <1>9 DEF LockInv, Locks

LEMMA ReleaseStep ==
  ASSUME TypeOK, LockInv, Prompt = Calls, NEW w \in Writers, Free(w), Release(w) PROVE LockInv'
<1>1. /\ UNCHANGED <<clock, manifest, lock, claims>> /\ writer[w].pc = "release"
      /\ writer[w].asked = Never
  BY DEF Release
<1>2. CASE End(w)
  <2>1. Others(w) /\ writer'[w].pc = "idle" /\ writer'[w].asked = Never BY <1>2, EndFacts
  <2> QED BY <1>1, <2>1, AwayStep
<1>3. CASE Owned(w) /\ writer' = [writer EXCEPT ![w] = [Idle(writer[w].answer) EXCEPT
                                   !.pc = "rmdir", !.since = clock]]
  <2>1. /\ Others(w) /\ writer'[w].pc = "rmdir" /\ writer'[w].since = clock
        /\ writer'[w].asked = Never
    BY <1>3, TypesSplit DEF Writing, Others, Idle
  <2>2. \A v \in Writers \ {w} : Locks(v)' /\ Claims(v)' BY <1>1, <2>1, LocksKept, ClaimsKept
  <2>3. OneClaim' /\ OneBreaker' BY <1>1, <2>1, OneClaimKept, BreakersKept DEF Breaking
  <2>4. Claims(w)' BY <2>1 DEF Claims, Judged, Claimed, Breaking, Expiring
  <2>5. Counted(w) BY <1>1, <1>3 DEF Counted, Holding
  <2>6. lock # NoLock /\ lock.by = w /\ writer[w].stamped <= lock.at
    BY <1>1, <2>5 DEF LockInv, Locks, Stands
  <2>7. clock - lock.at < Stale - Refresh BY <1>3, <2>6, Fields DEF Owned
  <2>8. Locks(w)'
    BY <1>1, <2>1, <2>6, <2>7, Fields DEF Locks, Stands, InFlight, Found, Read
  <2> QED BY <2>2, <2>3, <2>4, <2>8 DEF LockInv
<1> QED BY <1>2, <1>3 DEF Release

LEMMA RemoveLockStep ==
  ASSUME TypeOK, LockInv, Prompt = Calls, NEW w \in Writers, Free(w), RemoveLock(w)
  PROVE  LockInv'
<1>1. UNCHANGED <<clock, manifest, claims>> /\ writer[w].pc = "rmdir" BY DEF RemoveLock
<1>2. Others(w) /\ writer'[w].pc = "idle" /\ writer'[w].asked = Never
  BY EndFacts DEF RemoveLock
<1>3. Counted(w) BY <1>1 DEF Counted
<1>4. \A v \in Writers \ {w} : Locks(v)' /\ Claims(v)'
  BY <1>1, <1>2, <1>3, LocksApart, ClaimsKept
<1>5. Locks(w)' /\ Claims(w)' /\ ~Breaking(w)' BY <1>2, AwayKept
<1>6. OneClaim' /\ OneBreaker' BY <1>1, <1>2, <1>5, OneClaimKept, BreakersKept
<1> QED BY <1>4, <1>5, <1>6 DEF LockInv

LEMMA AskStampStep ==
  ASSUME TypeOK, LockInv, Prompt = Calls, NEW w \in Writers, Free(w), AskStamp(w) PROVE LockInv'
<1>1. /\ UNCHANGED <<clock, manifest, lock, claims>>
      /\ writer[w].pc \in {"read", "blobs", "rename"} /\ Owned(w) /\ clock > writer[w].stamped
  BY DEF AskStamp
<1>2. /\ Others(w) /\ writer'[w].pc = writer[w].pc /\ SameWrite(w) /\ SameClaim(w)
      /\ writer'[w].stamped = writer[w].stamped /\ writer'[w].asked = clock
  BY TypesSplit DEF AskStamp, Writing, Writer, Others, SameWrite, SameClaim
<1>3. \A v \in Writers \ {w} : Locks(v)' /\ Claims(v)' BY <1>1, <1>2, LocksKept, ClaimsKept
<1>4. OneClaim' /\ OneBreaker' BY <1>1, <1>2, OneClaimKept, BreakersKept DEF Breaking
<1>5. Claims(w)' BY <1>1, <1>2 DEF Claims, Judged, Claimed, Breaking, Expiring
<1>6. Counted(w) /\ Locks(w) BY <1>1 DEF Counted, Holding, LockInv
<1>7. Stands(w)' /\ Found(w)' /\ Read(w)'
  BY <1>1, <1>2, <1>6 DEF Locks, Stands, Found, Read, SameWrite, SameClaim
<1>8. InFlight(w)'
  BY <1>1, <1>2, <1>6, Fields DEF Locks, InFlight, Owned, SameClaim, Holding
<1> QED BY <1>3, <1>4, <1>5, <1>7, <1>8 DEF LockInv, Locks

LEMMA StampStep ==
  ASSUME TypeOK, LockInv, Prompt = Calls, NEW w \in Writers, Free(w), Stamp(w) PROVE LockInv'
<1>1. UNCHANGED <<clock, manifest, claims>> /\ writer[w].asked # Never BY DEF Stamp
<1>2. Locks(w) /\ writer[w].pc \in Holding BY <1>1 DEF LockInv, Locks, InFlight
<1>3. Counted(w) /\ lock # NoLock /\ lock.by = w
  BY <1>1, <1>2 DEF Counted, Locks, Stands
<1>4. /\ Others(w) /\ writer'[w].pc = writer[w].pc /\ SameWrite(w) /\ SameClaim(w)
      /\ writer'[w].asked = Never
      /\ writer'[w].stamped = IF Owned(w) THEN writer[w].asked ELSE writer[w].stamped
  BY <1>3, TypesSplit DEF Stamp, Writing, Writer, Others, SameWrite, SameClaim
<1>5. lock' # NoLock /\ lock'.by = w /\ lock'.at = writer[w].asked
  <2>1. lock \in [at: Times, by: Writers] BY <1>3 DEF TypeOK
  <2>2. lock' = [lock EXCEPT !.at = writer[w].asked] BY <1>3 DEF Stamp
  <2> QED BY <1>1, <1>3, <2>1, <2>2 DEF NoLock
<1>6. \A v \in Writers \ {w} : Locks(v)' /\ Claims(v)'
  BY <1>1, <1>3, <1>4, LocksApart, ClaimsKept
<1>7. ~Breaking(w)' /\ writer'[w].pc \notin {"claim", "expire", "rmdir", "break"}
      /\ writer[w].pc # "rmdir"
  BY <1>2, <1>4 DEF Breaking, Holding
<1>8. OneClaim' /\ OneBreaker' BY <1>1, <1>4, <1>7, OneClaimKept, BreakersKept
<1>9. Claims(w)' BY <1>7 DEF Claims, Judged, Claimed, Breaking, Expiring
<1>10. writer[w].stamped < writer[w].asked BY <1>1, <1>2 DEF Locks, InFlight
<1>11. Stands(w)' BY <1>4, <1>5, <1>7, <1>10, Fields DEF Stands
<1>12. InFlight(w)'
  BY <1>1, <1>2, <1>4, <1>7, <1>10, Fields DEF Locks, InFlight, SameClaim
<1>13. Found(w)' /\ Read(w)' BY <1>1, <1>2, <1>3, <1>4, <1>7 DEF Locks, Found, Read, SameWrite
<1> QED BY <1>6, <1>8, <1>9, <1>11, <1>12, <1>13 DEF LockInv, Locks

LEMMA LockStep ==
  ASSUME TypeOK, TypeOK', LockInv, Prompt = Calls, [Next]_vars PROVE LockInv'
<1>1. CASE UNCHANGED vars
  BY <1>1 DEF vars, LockInv, OneClaim, OneBreaker, Locks, Stands, Counted, Owned, InFlight, Found,
              Read, Claims, Judged, Claimed, Breaking, Expiring, Named
<1>2. CASE Tick BY <1>2, TickStep
<1>3. CASE \E w \in Writers, next \in Manifests : Free(w) /\ Load(w, next)
  <2>1. PICK w \in Writers : Free(w) /\ \E next \in Manifests : Load(w, next) BY <1>3
  <2>2. Others(w) /\ writer'[w].pc = "mkdir" /\ writer'[w].asked = Never
    BY <2>1, TypesSplit DEF Load, Idle, Writing, Others
  <2> QED BY <2>1, <2>2, AwayStep DEF Load
<1>4. CASE \E w \in Writers : Free(w) /\ StatLock(w)
  <2>1. PICK w \in Writers : Free(w) /\ StatLock(w) BY <1>4
  <2>2. writer[w].asked = Never BY <2>1 DEF StatLock, LockInv, Locks, InFlight, Holding
  <2>3. Others(w) /\ writer'[w].pc = "judge" /\ writer'[w].asked = Never
    BY <2>1, <2>2, TypesSplit DEF StatLock, Writing, Writer, Others
  <2> QED BY <2>1, <2>3, AwayStep DEF StatLock
<1>5. CASE \E w \in Writers : Free(w) /\ Die(w)
  <2>1. PICK w \in Writers : Free(w) /\ Die(w) BY <1>5
  <2>2. Others(w) /\ writer'[w].pc = "dead" /\ writer'[w].asked = Never
    BY <2>1, TypesSplit DEF Die, Idle, Writing, Others
  <2> QED BY <2>1, <2>2, AwayStep DEF Die
<1>6. CASE \E w \in Writers : Free(w) /\ Fail(w)
  <2>1. PICK w \in Writers : Free(w) /\ Fail(w) BY <1>6
  <2>2. UNCHANGED <<clock, manifest, lock, claims>> BY <2>1 DEF Fail
  <2>3. CASE End(w)
    <3>1. Others(w) /\ writer'[w].pc = "idle" /\ writer'[w].asked = Never BY <2>3, EndFacts
    <3> QED BY <2>1, <2>2, <3>1, AwayStep
  <2>4. CASE Breaking(w) /\ Goto(w, "unclaim") BY <2>1, <2>2, <2>4, ConfirmStep
  <2>5. CASE writer[w].pc \in Holding /\ Answer(w, "refused")
    BY <2>1, <2>2, <2>5, AnswerStep
  <2> QED BY <2>1, <2>3, <2>4, <2>5 DEF Fail, Breaking, Holding
<1>7. CASE \E w \in Writers : Free(w) /\ Confirm(w)
  BY <1>7, ConfirmStep DEF Confirm, Breaking
<1>8. CASE \E w \in Writers, b \in Blobs : Free(w) /\ PlaceBlob(w, b) BY <1>8, PlaceBlobStep
<1> QED
  BY <1>1, <1>2, <1>3, <1>4, <1>5, <1>6, <1>7, <1>8, MakeLockStep, JudgeStep, MakeClaimStep,
     StatClaimStep, BreakStep, UnclaimStep, ReadManifestStep, AskOwnsStep, RenameStep,
     ReleaseStep, RemoveLockStep, AskStampStep, StampStep
  DEF Next

(* With every call prompt, nobody takes for dead a lock its holder vouches  *)
(* for, and no two writers hold it.                                        *)
THEOREM VouchedLocksStand == Prompt = Calls /\ Spec => []VouchedLockIsHeld
<1> SUFFICES ASSUME Prompt = Calls PROVE Spec => []VouchedLockIsHeld OBVIOUS
<1>1. Init => TypeOK /\ LockInv BY InitTypes, LockInit
<1>2. TypeOK /\ LockInv /\ [Next]_vars => (TypeOK /\ LockInv)' BY StepTypes, LockStep
<1>3. TypeOK /\ LockInv => VouchedLockIsHeld BY Young DEF VouchedLockIsHeld, Counted
<1> QED BY <1>1, <1>2, <1>3, PTL DEF Spec
-----------------------------------------------------------------------------
(* The directory is a cell: a rename finds the manifest its writer read,     *)
(* every other step starts a write, gives one up or shows nothing.         *)

(* The call a writer has in flight, as the cell sees it.                   *)
InCall(w) ==
  LET me == writer[w] IN
  IF me.pc \in {"idle", "dead", "release", "rmdir"}
    THEN [storing |-> FALSE, expected |-> Absent, next |-> Absent, answer |-> me.answer]
    ELSE [storing |-> TRUE, expected |-> me.expected, next |-> me.next, answer |-> "none"]
Calling == [w \in Writers |-> InCall(w)]
Told(answer) == [storing |-> FALSE, expected |-> Absent, next |-> Absent, answer |-> answer]
CellStep == [Cell!Next]_<<manifest, Calling>>

LEMMA CallChanges ==
  ASSUME NEW w \in Writers, Others(w)
  PROVE  /\ Calling' = [Calling EXCEPT ![w] = InCall(w)']
         /\ Calling[w] = InCall(w) /\ Calling'[w] = InCall(w)'
         /\ InCall(w)' = InCall(w) => Calling' = Calling
<1>1. \A v \in Writers \ {w} : InCall(v)' = InCall(v) BY DEF InCall, Others
<1> QED BY <1>1 DEF Calling

LEMMA Shown ==
  ASSUME NEW w \in Writers, Others(w), manifest' = manifest, InCall(w)' = InCall(w)
  PROVE  CellStep
BY CallChanges DEF CellStep

LEMMA Forgotten ==
  ASSUME NEW w \in Writers, Others(w), manifest' = manifest, InCall(w)' = Told("none")
  PROVE  CellStep
<1>1. CASE InCall(w) = Told("none") BY <1>1, Shown
<1>2. CASE InCall(w) # Told("none")
  <2>1. Cell!Forget(w)
    BY <1>2, CallChanges DEF Cell!Forget, Cell!Answered, Calling, InCall, Told
  <2>2. Calling'[w] # Calling[w] BY <1>2, CallChanges
  <2> QED BY <2>1, <2>2 DEF CellStep, Cell!Next, Cell!Step, Calling, InCall
<1> QED BY <1>1, <1>2

LEMMA Refused ==
  ASSUME TypeOK, NEW w \in Writers, writer[w].pc \in Storing, Answer(w, "refused"),
         manifest' = manifest
  PROVE  CellStep
<1>1. Others(w) /\ writer'[w].pc = "release" /\ writer'[w].answer = "refused"
  BY AnswerFacts
<1>2. InCall(w)' = Told("refused") BY <1>1 DEF InCall, Told
<1>3. InCall(w).storing = TRUE BY DEF InCall, Storing
<1>4. Cell!Refuse(w)
  <2>1. Calling[w].storing BY <1>1, <1>3, CallChanges
  <2>2. Calling' = [Calling EXCEPT ![w] = Told("refused")] BY <1>1, <1>2, CallChanges
  <2> QED BY <2>1, <2>2 DEF Cell!Refuse, Cell!Answered, Calling, InCall, Told
<1>5. Calling'[w] # Calling[w]
  <2>1. InCall(w)'.storing = FALSE BY <1>2 DEF Told
  <2> QED BY <1>1, <1>3, <2>1, CallChanges
<1> QED BY <1>4, <1>5 DEF CellStep, Cell!Next, Cell!Step, Calling, InCall

LEMMA Ended ==
  ASSUME TypeOK, NEW w \in Writers, End(w), manifest' = manifest
  PROVE  CellStep
<1>1. Others(w) /\ writer'[w].pc = "idle" /\ writer'[w].answer = "none"
  BY EndFacts DEF Idle
<1>2. InCall(w)' = Told("none") BY <1>1 DEF InCall, Told
<1> QED BY <1>1, <1>2, Forgotten

(* A writer that goes on with the write it has.                            *)
LEMMA WentOn ==
  ASSUME NEW w \in Writers, Others(w), manifest' = manifest,
         writer[w].pc \in Storing, writer'[w].pc \in Storing,
         writer'[w].expected = writer[w].expected, writer'[w].next = writer[w].next
  PROVE  CellStep
<1>1. InCall(w)' = InCall(w) BY DEF InCall, Storing
<1> QED BY <1>1, Shown

LEMMA Loaded ==
  ASSUME TypeOK, NEW w \in Writers, NEW next \in Manifests, Load(w, next) PROVE CellStep
<1>1. /\ Others(w) /\ writer'[w].pc = "mkdir" /\ writer'[w].next = next
      /\ writer'[w].expected = manifest /\ manifest' = manifest /\ writer[w].pc = "idle"
  BY TypesSplit DEF Load, Idle, Writing, Others
<1>2. InCall(w)' = [storing |-> TRUE, expected |-> manifest, next |-> next, answer |-> "none"]
  BY <1>1 DEF InCall
<1>3. InCall(w).storing = FALSE BY <1>1 DEF InCall
<1>4. Cell!Load(w)
  BY <1>1, <1>2, <1>3, CallChanges DEF Cell!Load, Calling, InCall
<1>5. Calling'[w] # Calling[w]
  <2>1. InCall(w)'.storing = TRUE BY <1>2
  <2> QED BY <1>1, <1>3, <2>1, CallChanges
<1> QED BY <1>4, <1>5 DEF CellStep, Cell!Next, Cell!Step, Calling, InCall

LEMMA Renamed ==
  ASSUME TypeOK, LockInv, NEW w \in Writers, Rename(w) PROVE CellStep
<1>1. Others(w) /\ writer'[w].pc = "release" /\ writer'[w].answer = "written"
  BY AnswerFacts DEF Rename
<1>2. InCall(w)' = Told("written") BY <1>1 DEF InCall, Told
<1>3. /\ InCall(w).storing = TRUE /\ InCall(w).expected = writer[w].expected
      /\ InCall(w).next = writer[w].next
  BY DEF InCall, Rename
<1>4. manifest = writer[w].expected /\ manifest' = writer[w].next
  BY DEF Rename, LockInv, Locks, Read, Counted
<1>5. Cell!Replace(w)
  <2>1. Calling[w].storing BY <1>1, <1>3, CallChanges
  <2>2. Calling' = [Calling EXCEPT ![w] = Told("written")] BY <1>1, <1>2, CallChanges
  <2>3. manifest = Calling[w].expected /\ manifest' = Calling[w].next
    BY <1>1, <1>3, <1>4, CallChanges
  <2> QED BY <2>1, <2>2, <2>3 DEF Cell!Replace, Cell!Answered, Calling, InCall, Told
<1>6. Calling'[w] # Calling[w]
  <2>1. InCall(w)'.storing = FALSE BY <1>2 DEF Told
  <2> QED BY <1>1, <1>3, <2>1, CallChanges
<1> QED BY <1>5, <1>6 DEF CellStep, Cell!Next, Cell!Step, Calling, InCall

LEMMA StepMaps == ASSUME TypeOK, LockInv, [Next]_vars PROVE CellStep
<1>1. CASE UNCHANGED vars \/ Tick
  <2>1. manifest' = manifest /\ writer' = writer BY <1>1 DEF vars, Tick
  <2>2. Calling' = Calling BY <2>1 DEF Calling, InCall
  <2> QED BY <2>1, <2>2 DEF CellStep
<1> SUFFICES ASSUME NEW w \in Writers,
                    \/ \E next \in Manifests : Load(w, next)
                    \/ MakeLock(w) \/ StatLock(w) \/ Judge(w)
                    \/ MakeClaim(w) \/ StatClaim(w) \/ ExpireClaim(w)
                    \/ Confirm(w) \/ Break(w) \/ Unclaim(w)
                    \/ ReadManifest(w) \/ (\E b \in Blobs : PlaceBlob(w, b)) \/ AskOwns(w)
                    \/ Rename(w) \/ Release(w) \/ RemoveLock(w)
                    \/ AskStamp(w) \/ Stamp(w) \/ Fail(w) \/ Die(w)
             PROVE  CellStep
  BY <1>1 DEF Next
<1>2. CASE \E next \in Manifests : Load(w, next) BY <1>2, Loaded
<1>3. CASE Rename(w) BY <1>3, Renamed
<1>4. CASE MakeLock(w) \/ StatLock(w) \/ \E b \in Blobs : PlaceBlob(w, b)
  <2>1. /\ Others(w) /\ manifest' = manifest
        /\ writer[w].pc \in Storing /\ writer'[w].pc \in Storing
        /\ writer'[w].expected = writer[w].expected /\ writer'[w].next = writer[w].next
    BY <1>4, TypesSplit DEF MakeLock, StatLock, PlaceBlob, Writing, Writer, Others, Storing
  <2> QED BY <2>1, WentOn
<1>5. CASE AskStamp(w) \/ Stamp(w)
  <2>1. Others(w) /\ SameWrite(w) /\ writer'[w].pc = writer[w].pc
        /\ writer'[w].answer = writer[w].answer /\ manifest' = manifest
    BY <1>5, TypesSplit DEF AskStamp, Stamp, Writing, Writer, Others, SameWrite
  <2>2. InCall(w)' = InCall(w) BY <2>1 DEF InCall, SameWrite
  <2> QED BY <2>1, <2>2, Shown
<1>6. CASE Release(w)
  <2>1. CASE End(w) BY <1>6, <2>1, Ended DEF Release
  <2>2. CASE writer' = [writer EXCEPT ![w] = [Idle(writer[w].answer) EXCEPT
                                        !.pc = "rmdir", !.since = clock]]
    <3>1. /\ Others(w) /\ writer'[w].pc = "rmdir" /\ writer'[w].answer = writer[w].answer
          /\ manifest' = manifest /\ writer[w].pc = "release"
      BY <1>6, <2>2, TypesSplit DEF Release, Idle, Writing, Others
    <3>2. InCall(w)' = InCall(w) BY <3>1 DEF InCall
    <3> QED BY <3>1, <3>2, Shown
  <2> QED BY <1>6, <2>1, <2>2 DEF Release
<1>7. CASE Die(w)
  <2>1. Others(w) /\ manifest' = manifest /\ InCall(w)' = Told("none")
    BY <1>7, TypesSplit DEF Die, Idle, Writing, Others, InCall, Told
  <2> QED BY <2>1, Forgotten
<1>8. CASE \/ Judge(w) \/ MakeClaim(w) \/ StatClaim(w) \/ ExpireClaim(w) \/ Confirm(w)
           \/ Break(w) \/ Unclaim(w) \/ ReadManifest(w) \/ AskOwns(w) \/ RemoveLock(w)
           \/ Fail(w)
  <2>1. /\ manifest' = manifest
        /\ \/ writer[w].pc \in Storing
              /\ \/ Retry(w)
                 \/ \E pc \in Storing : Goto(w, pc)
                 \/ \E pc \in Storing : GotoCall(w, pc)
                 \/ Answer(w, "refused")
           \/ End(w)
    BY <1>8 DEF Judge, MakeClaim, StatClaim, ExpireClaim, Confirm, Break, Unclaim,
                ReadManifest, AskOwns, RemoveLock, Fail, Storing
  <2>2. Storing \subseteq Places BY DEF Storing, Places, Holding
  <2>3. CASE Retry(w) /\ writer[w].pc \in Storing
    <3>1. Others(w) /\ SameWrite(w) /\ writer'[w].pc \in Storing
      BY <2>3, RetryFacts DEF Storing
    <3> QED BY <2>1, <2>3, <3>1, WentOn DEF SameWrite
  <2>4. ASSUME NEW pc \in Storing, Goto(w, pc) \/ GotoCall(w, pc), writer[w].pc \in Storing
        PROVE  CellStep
    <3>1. Others(w) /\ SameWrite(w) /\ writer'[w].pc \in Storing
      BY <2>2, <2>4, GotoFacts, GotoCallFacts
    <3> QED BY <2>1, <2>4, <3>1, WentOn DEF SameWrite
  <2>5. CASE Answer(w, "refused") /\ writer[w].pc \in Storing BY <2>1, <2>5, Refused
  <2>6. CASE End(w) BY <2>1, <2>6, Ended
  <2> QED BY <2>1, <2>3, <2>4, <2>5, <2>6
<1> QED BY <1>2, <1>3, <1>4, <1>5, <1>6, <1>7, <1>8

(* With every call prompt, the directory is the cell a share's backend      *)
(* promises: a write replaces the manifest the publisher read, in one step, *)
(* or nothing.                                                             *)
THEOREM DirectoryIsACell == Prompt = Calls /\ Spec => ImplementsLineCell
<1> SUFFICES ASSUME Prompt = Calls PROVE Spec => Cell!Spec BY DEF ImplementsLineCell
<1>1. Init => TypeOK /\ LockInv BY InitTypes, LockInit
<1>2. TypeOK /\ LockInv /\ [Next]_vars => (TypeOK /\ LockInv)' BY StepTypes, LockStep
<1>3. Init => Cell!Init
  <2> SUFFICES ASSUME Init PROVE Cell!Init OBVIOUS
  <2>1. \A w \in Writers : InCall(w) = Told("none") BY DEF Init, InCall, Idle, Told
  <2> QED BY <2>1 DEF Init, Cell!Init, Cell!States, Cell!Answered, InCall, Told
<1>4. TypeOK /\ LockInv /\ [Next]_vars => [Cell!Next]_<<manifest, Calling>>
  BY StepMaps DEF CellStep
<1> QED BY <1>1, <1>2, <1>3, <1>4, PTL DEF Spec, Cell!Spec, Calling, InCall
=============================================================================
