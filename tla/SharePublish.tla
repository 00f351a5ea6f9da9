------------------------------ MODULE SharePublish ------------------------------
(***************************************************************************)
(* Publishing a run's record on a share (packages/core, share): jobs offer *)
(* entries to a line, each reads the line, decides slot by slot whether    *)
(* what is held yields, and asks the backend for a conditional write.  On  *)
(* a mainline the record is then kept at its commit too, on a line of its  *)
(* own, and an operator may purge what was kept long ago.                  *)
(*                                                                         *)
(* The backend is what LineCell promises: a write takes place in one step  *)
(* while the line is still what was loaded, or not at all, and its answer  *)
(* may be lost.  One named line is modelled with what is kept of it; its   *)
(* store lists commits, as git's does.  An entry stands for its bytes.     *)
(***************************************************************************)
EXTENDS Integers, FiniteSets

CONSTANTS
  Jobs,      \* publishes in flight, at most one per member
  Slots,     \* a family and a qualifier: what replaces what
  Versions,  \* formats of an entry
  Commits,   \* commits of the history
  Older,     \* the pairs <<a, d>> such that d strictly descends from a
  Images,    \* images, by digest
  Offers,    \* what a publish may offer
  Latest,    \* the line itself, beside those kept at its commits
  None,      \* no entry in a slot
  Attempts,  \* reads of the manifest before giving up
  MaxListed, \* bound of the records a purge removes at once
  Prunes     \* whether a write drops what its manifest does not name

Lines == {Latest} \cup Commits
Entry == [version: Versions, commit: Commits, images: SUBSET Images]
Manifest == [Slots -> Entry \cup {None}]
Empty == [s \in Slots |-> None]

(* One run, one commit: an offer's entries were all derived at it.         *)
Offer == {o \in [commit: Commits, entries: Manifest] :
            /\ o.entries # Empty
            /\ \A s \in Slots : o.entries[s] # None => o.entries[s].commit = o.commit}

ASSUME NameAssumption == Latest \notin Commits /\ None \notin Entry
ASSUME VersionAssumption == Versions \subseteq Nat
ASSUME HistoryAssumption ==
  /\ Older \subseteq Commits \X Commits
  /\ \A c \in Commits : <<c, c>> \notin Older
  /\ \A a, b, c \in Commits : <<a, b>> \in Older /\ <<b, c>> \in Older
                              => <<a, c>> \in Older
ASSUME OfferAssumption == Offers \subseteq Offer
ASSUME BoundAssumption == Attempts \in Nat \ {0} /\ MaxListed \in Nat /\ Prunes \in BOOLEAN

VARIABLES
  kind,      \* of the line: a mainline or a branch
  line,      \* the manifest of each line, and whether it reads as one
  stored,    \* the entries and images in place under each line
  job,       \* the publishes in flight
  purge,     \* the commits a purge listed and has not dropped yet
  aged,      \* history: those of them not written since it listed them
  promised   \* history: what one publish, any of them, was told the mainline
             \* holds, or newer

vars == <<kind, line, stored, job, aged, purge, promised>>

Held(entries) == [is |-> "held", entries |-> entries]
Unread(is) == [is |-> is, entries |-> Empty]
LineState == [is: {"held", "absent", "garbled", "newer"}, entries: Manifest]

Named(entries) ==
  LET held == {entries[s] : s \in Slots} \ {None} IN
  [entries |-> held, images |-> UNION {e.images : e \in held}]
Nothing == Named(Empty)
Without(a, b) == [entries |-> a.entries \ b.entries, images |-> a.images \ b.images]
Both(a, b) == [entries |-> a.entries \cap b.entries, images |-> a.images \cap b.images]
Either(a, b) == [entries |-> a.entries \cup b.entries, images |-> a.images \cup b.images]
Within(a, b) == a.entries \subseteq b.entries /\ a.images \subseteq b.images

Idle == [pc |-> "idle"]
At(l, o, deaf, tries) ==
  [pc |-> "load", line |-> l, offer |-> o, deaf |-> deaf, tries |-> tries]

(* A line nobody published on, one whose manifest was cut short, or one a  *)
(* newer release already writes.                                           *)
Init ==
  /\ kind \in {"mainline", "branch"}
  /\ \E is \in {"absent", "garbled", "newer"} :
       line = [l \in Lines |-> IF l = Latest THEN Unread(is) ELSE Unread("absent")]
  /\ stored = [l \in Lines |-> Nothing]
  /\ job = [j \in Jobs |-> Idle]
  /\ aged = {} /\ purge = {} /\ promised = {}

-----------------------------------------------------------------------------
(* decide.                                                                 *)

(* Mutant: formats compared on a mainline only.                           *)
KeptOnMainline(held, entry, deaf) ==
  /\ held # None /\ kind = "mainline"
  /\ held.version > entry.version \/ (~deaf /\ <<entry.commit, held.commit>> \in Older)
(* What the line holds in a slot is kept over the offered entry: it is in  *)
(* a newer format, or, on a mainline, its commit strictly descends from    *)
(* the offered one and the history says so.                                *)
Kept(held, entry, deaf) ==
  /\ held # None
  /\ \/ held.version > entry.version
     \/ kind = "mainline" /\ ~deaf /\ <<entry.commit, held.commit>> \in Older

(* Written, but nobody could say whether the held one was newer.           *)
Unanswered(held, entry, deaf) ==
  /\ kind = "mainline" /\ deaf
  /\ held # None /\ held.version <= entry.version /\ held.commit # entry.commit

(* The slots a publish replaces, of a manifest it loaded.                  *)
Plan(o, held, deaf) ==
  {s \in Slots : o.entries[s] # None /\ ~Kept(held[s], o.entries[s], deaf)}

NextManifest(o, held, deaf) ==
  [s \in Slots |-> IF s \in Plan(o, held, deaf) THEN o.entries[s] ELSE held[s]]

(* Only what the held manifest does not name.                              *)
BlobsFor(o, held, deaf) ==
  Without(Named(NextManifest(o, held, deaf)), Named(held))

-----------------------------------------------------------------------------
(* publishLine, publishOne, keepAtCommits.                                 *)
Working(j, pc) == job[j].pc = pc
End(j) == job' = [job EXCEPT ![j] = Idle]

(* The line is settled: on a mainline its record is kept at its commit     *)
(* next, where the history is not asked, all being of one commit; on a     *)
(* branch that was all.                                                    *)
SettleOn(j, l) ==
  IF l = Latest /\ kind = "mainline"
    THEN job' = [job EXCEPT ![j] = At(job[j].offer.commit, job[j].offer, FALSE, 1)]
    ELSE End(j)
(* Mutant: one more.                                                       *)
AgainOnceMore(j) ==
  IF job[j].tries <= Attempts
    THEN job' = [job EXCEPT ![j] = At(job[j].line, job[j].offer, job[j].deaf,
                                      job[j].tries + 1)]
    ELSE End(j)
(* Another read of the manifest, if any is left.                           *)
Again(j) ==
  IF job[j].tries < Attempts
    THEN job' = [job EXCEPT ![j] = At(job[j].line, job[j].offer, job[j].deaf,
                                      job[j].tries + 1)]
    ELSE End(j)
(* What a publish that settled the latest was told stands there.           *)
Promises(j) ==
  LET o == job[j].offer IN
  {[slot |-> s, version |-> o.entries[s].version, commit |-> o.commit] :
     s \in {t \in Slots : o.entries[t] # None}}
Promise(j, before) ==
  \/ promised' = before
  \/ job[j].line = Latest /\ kind = "mainline" /\ promised' = Promises(j)

(* Only a mainline's history is asked, once for a publish.                 *)
Begin(j, o, deaf) ==
  /\ Working(j, "idle") /\ (deaf => kind = "mainline")
  /\ job' = [job EXCEPT ![j] = At(Latest, o, deaf, 1)]
  /\ UNCHANGED <<kind, line, stored, aged, purge, promised>>

(* load and decide.  A line in a newer format is not this writer's; one    *)
(* that does not read as a manifest holds nothing.                         *)
Load(j) ==
  /\ Working(j, "load")
  /\ LET saw == line[job[j].line]
         settled == Plan(job[j].offer, saw.entries, job[j].deaf) = {} IN
     /\ IF saw.is = "newer" THEN End(j)
        ELSE IF settled THEN SettleOn(j, job[j].line)
        ELSE job' = [job EXCEPT ![j] =
               [pc |-> "store", line |-> job[j].line, offer |-> job[j].offer,
                deaf |-> job[j].deaf, tries |-> job[j].tries, saw |-> saw]]
     /\ IF saw.is # "newer" /\ settled THEN Promise(j, promised)
                                       ELSE promised' = promised
  /\ UNCHANGED <<kind, line, stored, aged, purge>>

(* Mutant: pruned to what is written now, not to the whole manifest.       *)
WritePruned(j) ==
  LET me == job[j]
      next == NextManifest(me.offer, me.saw.entries, me.deaf)
      blobs == BlobsFor(me.offer, me.saw.entries, me.deaf)
      carried == Both(stored[me.line], Named(me.offer.entries))
  IN
  /\ line' = [line EXCEPT ![me.line] = Held(next)]
  /\ stored' = [stored EXCEPT ![me.line] = Either(carried, blobs)]
  /\ aged' = aged \ {me.line}
(* store, taking place: on the held line's blobs, where the store prunes.  *)
Write(j) ==
  LET me == job[j]
      next == NextManifest(me.offer, me.saw.entries, me.deaf)
      blobs == BlobsFor(me.offer, me.saw.entries, me.deaf)
      carried == IF Prunes THEN Both(stored[me.line], Named(next)) ELSE stored[me.line]
  IN
  /\ line' = [line EXCEPT ![me.line] = Held(next)]
  /\ stored' = [stored EXCEPT ![me.line] = Either(carried, blobs)]
  /\ aged' = aged \ {me.line}
(* Promises a publish withdraws: it said it could not tell what is newer.  *)
Withdrawn(j) ==
  {p \in promised :
     /\ job[j].line = Latest /\ job[j].offer.entries[p.slot] # None
     /\ Unanswered(job[j].saw.entries[p.slot], job[j].offer.entries[p.slot],
                   job[j].deaf)}

(* Mutant: whatever the line holds by now.                                 *)
ReplaceBlind(j) ==
  /\ Working(j, "store")
  /\ Write(j)
  /\ \/ SettleOn(j, job[j].line) /\ Promise(j, promised \ Withdrawn(j))
     \/ (Again(j) \/ End(j)) /\ promised' = promised \ Withdrawn(j)
  /\ UNCHANGED <<kind, purge>>
(* The write took place, and the job is told; or the answer is lost, and   *)
(* it is told of a conflict or of a store that did not answer.             *)
Replace(j) ==
  /\ Working(j, "store") /\ line[job[j].line] = job[j].saw
  /\ Write(j)
  /\ \/ SettleOn(j, job[j].line) /\ Promise(j, promised \ Withdrawn(j))
     \/ (Again(j) \/ End(j)) /\ promised' = promised \ Withdrawn(j)
  /\ UNCHANGED <<kind, purge>>

(* It did not: a conflict, or a miss.                                      *)
Refuse(j) ==
  /\ Working(j, "store")
  /\ Again(j) \/ End(j)
  /\ UNCHANGED <<kind, line, stored, aged, purge, promised>>

(* The job is killed, or a load is refused.                                *)
Stop(j) ==
  /\ ~Working(j, "idle")
  /\ End(j)
  /\ UNCHANGED <<kind, line, stored, aged, purge, promised>>

(* A newer release publishes in a format this one does not read.           *)
Upgrade ==
  /\ line[Latest].is # "newer"
  /\ line' = [line EXCEPT ![Latest] = Unread("newer")]
  /\ UNCHANGED <<kind, stored, job, aged, purge, promised>>

-----------------------------------------------------------------------------
(* purgeKept.                                                              *)

(* Those of the kept lines that were written before the time it was given. *)
List(old) ==
  /\ purge = {} /\ old # {} /\ Cardinality(old) <= MaxListed
  /\ \A c \in old : line[c].is # "absent"
  /\ purge' = old /\ aged' = old
  /\ UNCHANGED <<kind, line, stored, job, promised>>

(* The listed lines go, one ref at a time.                                 *)
Drop(c) ==
  /\ c \in purge
  /\ line' = [line EXCEPT ![c] = Unread("absent")]
  /\ stored' = [stored EXCEPT ![c] = Nothing]
  /\ purge' = purge \ {c} /\ aged' = aged \ {c}
  /\ UNCHANGED <<kind, job, promised>>

(* The store refuses, or the purge is killed.                              *)
GiveUp ==
  /\ purge # {}
  /\ purge' = {} /\ aged' = {}
  /\ UNCHANGED <<kind, line, stored, job, promised>>

Next ==
  \/ \E j \in Jobs :
       \/ \E o \in Offers, deaf \in BOOLEAN : Begin(j, o, deaf)
       \/ Load(j) \/ Replace(j) \/ Refuse(j) \/ Stop(j)
  \/ Upgrade
  \/ \E old \in SUBSET Commits : List(old)
  \/ (\E c \in Commits : Drop(c)) \/ GiveUp

Spec == Init /\ [][Next]_vars

-----------------------------------------------------------------------------
(* Properties.                                                             *)
Loading == [pc: {"load"}, line: Lines, offer: Offers, deaf: BOOLEAN,
            tries: 1..Attempts]
Storing == [pc: {"store"}, line: Lines, offer: Offers, deaf: BOOLEAN,
            tries: 1..Attempts, saw: LineState]
Blobs == [entries: SUBSET Entry, images: SUBSET Images]

(* Every value has its type (share/publish.ts, share/line.ts).             *)
TypeOK ==
  /\ kind \in {"mainline", "branch"}
  /\ line \in [Lines -> LineState] /\ stored \in [Lines -> Blobs]
  /\ job \in [Jobs -> {Idle} \cup Loading \cup Storing]
  /\ aged \subseteq Commits /\ purge \subseteq Commits
  /\ promised \subseteq [slot: Slots, version: Versions, commit: Commits]

(* A reader finds every blob of the manifest it reads: a write sends what  *)
(* the line it read lacked, and builds on that line's blobs (blobsFor; the *)
(* prune of share-git.ts store).                                           *)
NamedBlobsAreHeld ==
  \A l \in Lines : Within(Named(line[l].entries), stored[l])

(* What a mainline publish was told stands: whatever was published since,  *)
(* its slot holds that entry or one in a newer format or of no older       *)
(* commit, unless a later publish said it could not tell (publishLine, "a  *)
(* slow run of an older commit finishing last").                           *)
Stands(p, e) ==
  e # None /\ (e.version > p.version \/ <<e.commit, p.commit>> \notin Older)
PublishedStands ==
  line[Latest].is = "held" => \A p \in promised : Stands(p, line[Latest].entries[p.slot])

(* The publish whose write takes place in a step on a line.                *)
Writer(j, l) == Working(j, "store") /\ job[j].line = l /\ job'[j] # job[j]
Rewritten(l) == line'[l] # line[l] /\ line[l].is = "held" /\ line'[l].is = "held"

(* On every line, a format never falls back and an entry never goes; on a  *)
(* mainline none is replaced by an entry of an older commit while the      *)
(* history can be asked; and a line in a newer format is left alone        *)
(* (decide, publishOne).                                                   *)
NothingGoesBack ==
  [][\A l \in Lines :
       /\ line[l].is = "newer" => line'[l].is = "newer"
       /\ Rewritten(l) => \A s \in Slots : line[l].entries[s] # None =>
            LET old == line[l].entries[s]
                new == line'[l].entries[s] IN
            /\ new # None /\ new.version >= old.version
            /\ kind = "mainline" /\ <<new.commit, old.commit>> \in Older
               => \E j \in Jobs : Writer(j, l) /\ job[j].deaf]_vars

(* Publishes of different suites do not undo one another: a write changes  *)
(* the slots its publish offers and no other (publishLine, "suites         *)
(* published by different jobs land on one line").                         *)
OthersSurvive ==
  [][\A l \in Lines : Rewritten(l) => \A s \in Slots :
       line'[l].entries[s] # line[l].entries[s] =>
         \E j \in Jobs : Writer(j, l) /\ line'[l].entries[s] = job[j].offer.entries[s]]_vars

(* A purge removes only what was written before the time it was given      *)
(* (purgeKept, "written before `before`").                                 *)
PurgeSparesRewritten ==
  [][\A c \in Commits : line[c].is # "absent" /\ line'[c].is = "absent"
                         => c \in aged]_vars
=============================================================================
