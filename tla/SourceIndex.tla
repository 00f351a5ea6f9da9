------------------------------ MODULE SourceIndex ------------------------------
(***************************************************************************)
(* The source index (packages/sense): a log of immutable segments under a   *)
(* manifest.  A chain is the base the index was readied with and at most    *)
(* one working layer over it.  Processes read the chain without a lock,     *)
(* decide what the next manifest names, and publish under a lock only if    *)
(* the manifest is still the one they decided against: new segments first,  *)
(* then the manifest, then the removal of the segments it stopped naming.   *)
(*                                                                         *)
(* A segment is named by its digest, so it is its rows: a row puts a        *)
(* version of a file or deletes it.  Paths are checkouts; a worktree's      *)
(* index may start as a copy of the primary checkout's.  Files of the       *)
(* single-segment format of older releases are left out, and the settings   *)
(* a chain was made under are one of its rows.                              *)
(***************************************************************************)
EXTENDS Integers, Sequences, FiniteSets

CONSTANTS
  Writers,   \* processes, each at one task at a time
  Paths,     \* the checkouts' indexes
  Primary,   \* the primary checkout's
  Files,     \* what rows are about
  Parses,    \* those of them a cold build writes in its first segment
  Versions,  \* what a row may put
  Absent,    \* no row, or a deleted one
  Trees,     \* what a scan of a checkout may find
  Starts,    \* what earlier tasks may have left at the primary checkout's path
  Nothing,   \* no manifest
  Anything,  \* a cold build's answer to which manifest it expects
  Nobody,    \* no process holds the lock
  MaxTasks,  \* bound of the tasks begun
  MaxFaults  \* bound of the deaths and of the segments lost

Content == [Files -> Versions \cup {Absent}]
Layer == UNION {[S -> Versions \cup {Absent}] : S \in SUBSET Files}
Chain == [segments: Seq(Layer), working: {0, 1}]

(* What the constants must be.                                              *)
Parameters ==
  /\ IsFiniteSet(Files) /\ Parses \subseteq Files /\ Primary \in Paths
  /\ Trees \subseteq Content
  /\ \A c \in Starts \ {Nothing} : c \in Chain /\ Len(c.segments) > c.working
  /\ Absent \notin Versions
  /\ Nothing \notin Chain \cup Content
  /\ Anything \notin Chain \cup {Nothing}
  /\ Nobody \notin Writers
  /\ MaxTasks \in Nat /\ MaxFaults \in Nat

VARIABLES
  chain,     \* the manifest at each path
  stored,    \* the segments in place under each path
  lock,      \* who holds the lock beside each path
  task,      \* what each process is doing
  begun,     \* tasks begun, for the bound
  faults,    \* deaths and losses so far, for the bound
  lost,      \* history: segments under each path that something else removed
  strewn     \* history: paths where a cold build replaced a chain it never read

vars == <<chain, stored, lock, task, begun, faults, lost, strewn>>
-----------------------------------------------------------------------------
(* Layers, oldest first.                                                   *)

Holding(layers, f) == {i \in DOMAIN layers : f \in DOMAIN layers[i]}
Newest(S) == CHOOSE i \in S : \A j \in S : j <= i
Row(layers, f) ==
  IF Holding(layers, f) = {} THEN Absent ELSE layers[Newest(Holding(layers, f))][f]
Says(layers) == [f \in Files |-> Row(layers, f)]

Only(layer, S) == [f \in (DOMAIN layer) \cap S |-> layer[f]]
Folded(layers) ==
  [f \in UNION {DOMAIN layers[i] : i \in DOMAIN layers} |-> Row(layers, f)]

(* One base saying what the layers say: nothing is left for it to delete.  *)
Compacted(layers) == Only(Folded(layers), {f \in Files : Row(layers, f) # Absent})
(* Mutant: a merge drops deletions, as a compaction may.                    *)
MergedWithoutDeletes(base, layers) ==
  Only(Folded(layers), {f \in Files : /\ Row(layers, f) # Absent
                                      /\ Row(layers, f) # Row(base, f)})
(* The layers as one over a base: a deletion stays, and a row the base     *)
(* holds as they put it goes.                                              *)
Merged(base, layers) ==
  Only(Folded(layers), {f \in Files : \/ Row(layers, f) = Absent
                                      \/ Row(layers, f) # Row(base, f)})
(* What turns one content into another.                                    *)
Difference(from, next) == [f \in {g \in Files : from[g] # next[g]} |-> next[f]]
(* The rows a scan holds encoded come as a layer of their own, first.      *)
Split(layer) == <<Only(layer, Parses), Only(layer, Files \ Parses)>>

Rows(layers) == Cardinality(UNION {{i} \X DOMAIN layers[i] : i \in DOMAIN layers})
Base(c) == SubSeq(c.segments, 1, Len(c.segments) - c.working)
Working(c) == SubSeq(c.segments, Len(c.segments) - c.working + 1, Len(c.segments))
Elements(segments) == {segments[i] : i \in DOMAIN segments}
Named(c) == IF c = Nothing THEN {} ELSE Elements(c.segments)
SaidBy(c) == IF c = Nothing THEN Nothing ELSE Says(c.segments)

-----------------------------------------------------------------------------
(* Tasks.  A task reads a chain: the manifest, then every segment it names  *)
(* in any order.  What it keeps is the prefix that read.                    *)

NoTask == [pc |-> "idle"]
Reading(job, p, seen, known, next) ==
  [pc |-> "reading", job |-> job, path |-> p, seen |-> seen,
   left |-> IF seen = Nothing THEN {} ELSE DOMAIN seen.segments, got |-> {},
   known |-> known, next |-> next]

Source(t) == IF t.job = "seed" THEN Primary ELSE t.path
Length(c) == IF c = Nothing THEN 0 ELSE Len(c.segments)
Kept(t) == CHOOSE n \in 0..Length(t.seen) :
             /\ 1..n \subseteq t.got
             /\ n + 1 \notin t.got
Prefix(t) == IF t.seen = Nothing THEN <<>> ELSE SubSeq(t.seen.segments, 1, Kept(t))
Whole(t) == t.seen # Nothing /\ Kept(t) = Length(t.seen)
HasRead(w, job) == task[w].pc = "reading" /\ task[w].left = {} /\ task[w].job = job

(* What `written` is asked: the manifest it expects, the segments kept from *)
(* it and the new ones, and those the next manifest replaces.               *)
Publishing(kind, p, over, kept, segments, replaced, working, from, next) ==
  [pc |-> "enter", kind |-> kind, path |-> p, over |-> over, kept |-> kept,
   segments |-> segments, replaced |-> replaced, working |-> working,
   from |-> from, next |-> next, left |-> segments]

Becomes(w, t) == task' = [task EXCEPT ![w] = t]
Local == UNCHANGED <<chain, stored, lock, begun, faults, lost, strewn>>

(* A task begins by reading a manifest: an update's, a readying's or a      *)
(* save's own.                                                              *)
Open(w) ==
  /\ task[w] = NoTask
  /\ begun < MaxTasks
  /\ \E p \in Paths, job \in {"update", "ready", "save"} :
       Becomes(w, Reading(job, p, chain[p], <<>>, Nothing))
  /\ begun' = begun + 1
  /\ UNCHANGED <<chain, stored, lock, faults, lost, strewn>>

(* A worktree without an index reads the primary checkout's to start from. *)
OpenSeed(w) ==
  /\ task[w] = NoTask
  /\ begun < MaxTasks
  /\ \E p \in Paths \ {Primary} :
       /\ chain[p] = Nothing
       /\ Becomes(w, Reading("seed", p, chain[Primary], <<>>, Nothing))
  /\ begun' = begun + 1
  /\ UNCHANGED <<chain, stored, lock, faults, lost, strewn>>

ReadSegment(w) ==
  /\ task[w].pc = "reading"
  /\ LET t == task[w] IN
     \E i \in t.left :
       Becomes(w, [t EXCEPT !.left = @ \ {i},
                            !.got = IF t.seen.segments[i] \in stored[Source(t)]
                                    THEN @ \cup {i} ELSE @])
  /\ Local

(* A native update: declined unless the chain is whole; otherwise what the  *)
(* tree says now, as the next working layer over the base it read.  With    *)
(* nothing changed it may still write the working layer, to carry a listing.*)
DecideUpdate(w) ==
  /\ HasRead(w, "update")
  /\ LET t == task[w] IN
     \/ ~Whole(t) /\ Becomes(w, NoTask)
     \/ /\ Whole(t)
        /\ \E next \in Trees :
             LET content == Says(t.seen.segments)
                 delta == Difference(content, next)
                 above == Working(t.seen)
                 layer == IF above = <<>> THEN delta
                          ELSE IF next = content THEN above[1]
                          ELSE Merged(Base(t.seen), Append(above, delta))
             IN \/ next = content /\ Becomes(w, NoTask)
                \/ Becomes(w, Publishing("swap", t.path, t.seen, Base(t.seen),
                                         <<layer>>, above, 1, content, next))
  /\ Local

(* A readying: the working layer folded into the base, once it is worth it. *)
DecideReady(w) ==
  /\ HasRead(w, "ready")
  /\ LET t == task[w] IN
     IF /\ Whole(t)
        /\ t.seen.working = 1
        /\ 10 * Rows(Working(t.seen)) >= Rows(Base(t.seen))
     THEN Becomes(w, Publishing("swap", t.path, t.seen, <<>>, <<Compacted(t.seen.segments)>>,
                                t.seen.segments, 0,
                                Says(t.seen.segments), Says(t.seen.segments)))
     ELSE Becomes(w, NoTask)
  /\ Local

(* A save has scanned the checkout against the prefix it read: nothing to   *)
(* write, a cold build published whatever is at the path by then, or an     *)
(* append, which reads the chain again; a scan that encoded its parses has  *)
(* a layer to append even then.                                             *)
Scan(w) ==
  /\ HasRead(w, "save")
  /\ LET t == task[w] IN
     \E next \in Trees :
       \/ /\ Whole(t)
          /\ next = Says(Prefix(t))
          /\ Becomes(w, NoTask)
       \/ /\ t.seen = Nothing
          /\ Becomes(w, Publishing("put", t.path, Anything, <<>>,
                                   Split(Compacted(<<next>>)), <<>>, 0, Nothing, next))
       \/ Becomes(w, Reading("append", t.path, chain[t.path], Prefix(t), next))
  /\ Local

(* The layers over the segments the save read, which must still head the    *)
(* chain; what the chain names past them is replaced.                       *)
DecideAppend(w) ==
  /\ HasRead(w, "append")
  /\ LET t == task[w]
         delta == Difference(Says(t.known), t.next)
         names == IF t.seen = Nothing THEN <<>> ELSE t.seen.segments
         kept == Len(t.known)
         heads == kept <= Len(names) /\ SubSeq(names, 1, kept) = t.known
         base == IF t.seen = Nothing THEN 0
                 ELSE LET under == Len(names) - t.seen.working
                      IN IF under < kept THEN under ELSE kept
     IN \/ /\ ~heads \/ Kept(t) < kept
           /\ Becomes(w, NoTask)
        \/ /\ kept = 0
           /\ \E layers \in {<<delta>>, Split(delta)} :
                Becomes(w, Publishing("put", t.path, t.seen, <<>>, layers, names, 0,
                                      Says(t.known), t.next))
        \/ /\ kept > 0 /\ heads /\ kept <= Kept(t)
           /\ LET layer == Merged(SubSeq(names, 1, base),
                                  Append(SubSeq(names, base + 1, kept), delta))
              IN Becomes(w, Publishing("put", t.path, t.seen, SubSeq(names, 1, base),
                                       <<layer>>, SubSeq(names, base + 1, Len(names)), 1,
                                       Says(t.known), t.next))
  /\ Local

(* The copy of the prefix that read, if any did.                            *)
DecideSeed(w) ==
  /\ HasRead(w, "seed")
  /\ LET t == task[w]
         under == Length(t.seen) - t.seen.working
     IN IF t.seen = Nothing \/ Prefix(t) = <<>> THEN Becomes(w, NoTask)
        ELSE Becomes(w, Publishing("swap", t.path, Nothing, <<>>, Prefix(t), <<>>,
                                   IF Kept(t) > under THEN Kept(t) - under ELSE 0,
                                   Nothing, Says(Prefix(t))))
  /\ Local

-----------------------------------------------------------------------------
(* Publishing, under the lock beside the manifest.                          *)

(* The lock is had, and the manifest is what was expected, or nothing is    *)
(* written.                                                                 *)
Enter(w) ==
  /\ task[w].pc = "enter"
  /\ LET t == task[w] IN
     /\ lock[t.path] = Nobody
     /\ IF t.over \in {Anything, chain[t.path]}
        THEN /\ lock' = [lock EXCEPT ![t.path] = w]
             /\ Becomes(w, [t EXCEPT !.pc = "write"])
        ELSE /\ Becomes(w, NoTask)
             /\ UNCHANGED lock
  /\ UNCHANGED <<chain, stored, begun, faults, lost, strewn>>

(* A segment is renamed into place, whether or not it was there.            *)
WriteSegment(w) ==
  /\ task[w].pc = "write"
  /\ task[w].left # <<>>
  /\ LET t == task[w] IN
     /\ stored' = [stored EXCEPT ![t.path] = @ \cup {Head(t.left)}]
     /\ lost' = [lost EXCEPT ![t.path] = @ \ {Head(t.left)}]
     /\ Becomes(w, [t EXCEPT !.left = Tail(@)])
  /\ UNCHANGED <<chain, lock, begun, faults, strewn>>

(* Mutant: every new segment is counted as the working layer's.             *)
NextCountsAll(t) == [segments |-> t.kept \o t.segments, working |-> Len(t.segments)]
NextChain(t) == [segments |-> t.kept \o t.segments, working |-> t.working]
(* Mutant: what was replaced is removed even where the next manifest names it. *)
UnnamedOrNot(t) == Elements(t.replaced)
(* Mutant: the first of what was replaced is forgotten.                     *)
UnnamedButFirst(t) ==
  IF t.replaced = <<>> THEN {}
  ELSE Elements(Tail(t.replaced)) \ Named(NextChain(t))
Unnamed(t) == Elements(t.replaced) \ Named(NextChain(t))

(* The manifest is renamed into place: the commit.                          *)
WriteManifest(w) ==
  /\ task[w].pc = "write"
  /\ task[w].left = <<>>
  /\ LET t == task[w] IN
     /\ chain' = [chain EXCEPT ![t.path] = NextChain(t)]
     /\ strewn' = IF t.over = Anything /\ chain[t.path] # Nothing
                  THEN strewn \cup {t.path} ELSE strewn
     /\ Becomes(w, [pc |-> "clear", path |-> t.path, left |-> Unnamed(t)])
  /\ UNCHANGED <<stored, lock, begun, faults, lost>>

(* What it stopped naming is removed, one by one, still under the lock.     *)
RemoveSegment(w) ==
  /\ task[w].pc = "clear"
  /\ LET t == task[w] IN
     \E s \in t.left :
       /\ stored' = [stored EXCEPT ![t.path] = @ \ {s}]
       /\ Becomes(w, [t EXCEPT !.left = @ \ {s}])
  /\ UNCHANGED <<chain, lock, begun, faults, lost, strewn>>

Leave(w) ==
  /\ task[w].pc = "clear"
  /\ task[w].left = {}
  /\ lock' = [lock EXCEPT ![task[w].path] = Nobody]
  /\ Becomes(w, NoTask)
  /\ UNCHANGED <<chain, stored, begun, faults, lost, strewn>>

(* The process dies, or the file system refuses it something: it is at no   *)
(* task, and the kernel frees its lock.                                     *)
Die(w) ==
  /\ task[w] # NoTask
  /\ faults < MaxFaults
  /\ faults' = faults + 1
  /\ lock' = [p \in Paths |-> IF lock[p] = w THEN Nobody ELSE lock[p]]
  /\ Becomes(w, NoTask)
  /\ UNCHANGED <<chain, stored, begun, lost, strewn>>

(* A segment goes missing or bad: a cache restored without it.              *)
Lose(p) ==
  /\ faults < MaxFaults
  /\ \E s \in stored[p] :
       /\ stored' = [stored EXCEPT ![p] = @ \ {s}]
       /\ lost' = [lost EXCEPT ![p] = @ \cup {s}]
  /\ faults' = faults + 1
  /\ UNCHANGED <<chain, lock, task, begun, strewn>>

Init ==
  /\ \E start \in Starts :
       chain = [p \in Paths |-> IF p = Primary THEN start ELSE Nothing]
  /\ stored = [p \in Paths |-> Named(chain[p])]
  /\ lock = [p \in Paths |-> Nobody]
  /\ task = [w \in Writers |-> NoTask]
  /\ begun = 0 /\ faults = 0
  /\ lost = [p \in Paths |-> {}]
  /\ strewn = {}

(* What a process does on its way once it has begun.                        *)
Proceed(w) ==
  \/ ReadSegment(w)
  \/ DecideUpdate(w) \/ DecideReady(w) \/ Scan(w) \/ DecideAppend(w) \/ DecideSeed(w)
  \/ Enter(w) \/ WriteSegment(w) \/ WriteManifest(w) \/ RemoveSegment(w) \/ Leave(w)

Next ==
  \/ \E w \in Writers : Open(w) \/ OpenSeed(w) \/ Proceed(w) \/ Die(w)
  \/ \E p \in Paths : Lose(p)

Spec == Init /\ [][Next]_vars
-----------------------------------------------------------------------------
(* Properties.                                                              *)

Reads == [pc: {"reading"}, job: {"update", "ready", "save", "append", "seed"},
          path: Paths, seen: Chain \cup {Nothing}, left: SUBSET Nat, got: SUBSET Nat,
          known: Seq(Layer), next: Content \cup {Nothing}]
Publishes == [pc: {"enter", "write"}, kind: {"swap", "put"}, path: Paths,
              over: Chain \cup {Nothing, Anything}, kept: Seq(Layer),
              segments: Seq(Layer), replaced: Seq(Layer), working: {0, 1},
              from: Content \cup {Nothing}, next: Content, left: Seq(Layer)]
Clears == [pc: {"clear"}, path: Paths, left: SUBSET Layer]

(* The state is what the code's variables and files may hold, a chain is a  *)
(* base and at most one working layer over it, and only a process that is   *)
(* publishing holds a lock.                                                 *)
TypeOK ==
  /\ chain \in [Paths -> Chain \cup {Nothing}]
  /\ \A p \in Paths : chain[p] # Nothing => Len(chain[p].segments) > chain[p].working
  /\ stored \in [Paths -> SUBSET Layer]
  /\ lock \in [Paths -> Writers \cup {Nobody}]
  /\ task \in [Writers -> {NoTask} \cup Reads \cup Publishes \cup Clears]
  /\ begun \in 0..MaxTasks /\ faults \in Nat
  /\ lost \in [Paths -> SUBSET Layer]
  /\ strewn \subseteq Paths

(* A reader that opens the index at any moment finds every segment the      *)
(* manifest names, but for those something else took away: not what a       *)
(* readying or another update removes, whoever died where (log.rs:16-20).   *)
NamedSegmentsAreStored ==
  \A p \in Paths : Named(chain[p]) \ lost[p] \subseteq stored[p]

(* Disk does not fill with segments no manifest names: unless a process     *)
(* died or a cold build landed on a chain it never read, nothing is stored  *)
(* between publishes but what is named (log.rs:129-133).                    *)
NothingIsLeftBehind ==
  \A p \in Paths : faults = 0 /\ p \notin strewn /\ lock[p] = Nobody
                   => stored[p] \subseteq Named(chain[p])

(* The indexes are IndexRegister's: whatever lands is what its writer meant *)
(* the index to say, with the layers of no other writer mixed in; updates,  *)
(* readyings and seeds land only on what they read; a readying changes      *)
(* nothing an index says.                                                   *)
Register == INSTANCE IndexRegister WITH
  Contents <- Content,
  says <- [p \in Paths |-> SaidBy(chain[p])],
  asked <- [w \in Writers |->
              IF task[w].pc \in {"enter", "write"}
              THEN [kind |-> task[w].kind, path |-> task[w].path,
                    from |-> task[w].from, next |-> task[w].next]
              ELSE [kind |-> "none"]]
IndexesAreRegisters == Register!Spec
=============================================================================
