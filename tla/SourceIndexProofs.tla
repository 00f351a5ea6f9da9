--------------------------- MODULE SourceIndexProofs ---------------------------
(***************************************************************************)
(* Proofs about SourceIndex, for every set of processes, checkouts, files   *)
(* and versions and every bound: what layers over layers say, the types,    *)
(* the segments a manifest names and those nothing names, and that the      *)
(* indexes are the registers of IndexRegister.                              *)
(***************************************************************************)
EXTENDS SourceIndex, SequenceTheorems, WellFoundedInduction, TLAPS

(* The least and the greatest of a set of numbers.                         *)
LEMMA Least ==
  ASSUME NEW S, S \subseteq Nat, S # {} PROVE \E i \in S : \A j \in S : i <= j
<1> DEFINE Less == {ss \in Nat \X Nat : ss[1] < ss[2]}
<1>1. IsWellFoundedOn(Less, Nat) BY NatLessThanWellFounded DEF OpToRel
<1>2. PICK i \in S : \A j \in S : ~(<<j, i>> \in Less)
  <2> HIDE DEF Less
  <2> QED BY <1>1, WFMin
<1>3. \A j \in S : ~(j < i) BY <1>2
<1> QED BY <1>3

LEMMA NewestFacts ==
  ASSUME NEW S, S \subseteq Nat, S # {}, NEW n \in Nat, \A i \in S : i <= n
  PROVE  Newest(S) \in S /\ \A j \in S : j <= Newest(S)
<1> DEFINE Under == {n - i : i \in S}
<1>1. Under \subseteq Nat /\ Under # {}
  <2>1. \A i \in S : n - i \in Nat OBVIOUS
  <2> QED BY <2>1
<1>2. PICK u \in Under : \A v \in Under : u <= v BY <1>1, Least
<1>3. PICK i \in S : u = n - i BY <1>2
<1>4. \A j \in S : j <= i
  <2> TAKE j \in S
  <2>1. n - j \in Under OBVIOUS
  <2>2. n - i <= n - j BY <1>2, <1>3, <2>1
  <2> QED BY <2>2
<1> QED BY <1>4 DEF Newest
-----------------------------------------------------------------------------
(* Layers.                                                                 *)

Put == Versions \cup {Absent}

LEMMA LayerFacts ==
  ASSUME NEW l \in Layer PROVE DOMAIN l \subseteq Files /\ l \in [DOMAIN l -> Put]
BY DEF Layer, Put

LEMMA LayerIs ==
  ASSUME NEW S \in SUBSET Files, NEW l \in [S -> Put] PROVE l \in Layer
BY DEF Layer, Put

LEMMA HoldingFacts ==
  ASSUME NEW s \in Seq(Layer), NEW f
  PROVE  Holding(s, f) \subseteq Nat /\ \A i \in Holding(s, f) : i <= Len(s)
BY DEF Holding

(* A file's row is that of the newest layer about it.                      *)
LEMMA RowTop ==
  ASSUME NEW s \in Seq(Layer), NEW f, Holding(s, f) # {}
  PROVE  \E i \in DOMAIN s : /\ f \in DOMAIN s[i] /\ Row(s, f) = s[i][f]
                             /\ \A j \in DOMAIN s : f \in DOMAIN s[j] => j <= i
<1> DEFINE i == Newest(Holding(s, f))
<1>1. i \in Holding(s, f) /\ \A j \in Holding(s, f) : j <= i BY HoldingFacts, NewestFacts
<1>2. Row(s, f) = s[i][f] BY DEF Row
<1> HIDE DEF i
<1> QED BY <1>1, <1>2 DEF Holding

LEMMA RowAt ==
  ASSUME NEW s \in Seq(Layer), NEW f, NEW i \in DOMAIN s, f \in DOMAIN s[i],
         \A j \in DOMAIN s : f \in DOMAIN s[j] => j <= i
  PROVE  Holding(s, f) # {} /\ Row(s, f) = s[i][f]
<1>1. Holding(s, f) # {} BY DEF Holding
<1>2. PICK k \in DOMAIN s : /\ f \in DOMAIN s[k] /\ Row(s, f) = s[k][f]
                            /\ \A j \in DOMAIN s : f \in DOMAIN s[j] => j <= k
  BY <1>1, RowTop
<1>3. k = i BY <1>2
<1> QED BY <1>1, <1>2, <1>3

LEMMA RowType ==
  ASSUME NEW s \in Seq(Layer), NEW f PROVE Row(s, f) \in Put
<1>1. CASE Holding(s, f) = {} BY <1>1 DEF Row, Put
<1>2. CASE Holding(s, f) # {}
  <2>1. PICK i \in DOMAIN s : f \in DOMAIN s[i] /\ Row(s, f) = s[i][f] BY <1>2, RowTop
  <2> QED BY <2>1, LayerFacts
<1> QED BY <1>1, <1>2

LEMMA RowConcat ==
  ASSUME NEW s \in Seq(Layer), NEW u \in Seq(Layer), NEW f
  PROVE  Row(s \o u, f) = IF Holding(u, f) # {} THEN Row(u, f) ELSE Row(s, f)
<1> DEFINE c == s \o u
<1>1. /\ c \in Seq(Layer) /\ Len(c) = Len(s) + Len(u)
      /\ \A i \in DOMAIN s : i \in DOMAIN c /\ c[i] = s[i]
      /\ \A i \in DOMAIN u : Len(s) + i \in DOMAIN c /\ c[Len(s) + i] = u[i]
      /\ \A j \in DOMAIN c : j \in DOMAIN s \/ \E i \in DOMAIN u : j = Len(s) + i
  <2>1. c \in Seq(Layer) /\ Len(c) = Len(s) + Len(u) OBVIOUS
  <2>2. \A i \in DOMAIN s : i \in DOMAIN c /\ c[i] = s[i] OBVIOUS
  <2>3. \A i \in DOMAIN u : Len(s) + i \in DOMAIN c /\ c[Len(s) + i] = u[i] OBVIOUS
  <2>4. ASSUME NEW j \in DOMAIN c, j \notin DOMAIN s
        PROVE  \E i \in DOMAIN u : j = Len(s) + i
    <3>1. j - Len(s) \in DOMAIN u BY <2>1, <2>4
    <3> QED BY <2>1, <2>4, <3>1
  <2> QED BY <2>1, <2>2, <2>3, <2>4
<1> HIDE DEF c
<1>2. CASE Holding(u, f) # {}
  <2>1. PICK i \in DOMAIN u : /\ f \in DOMAIN u[i] /\ Row(u, f) = u[i][f]
                              /\ \A j \in DOMAIN u : f \in DOMAIN u[j] => j <= i
    BY <1>2, RowTop
  <2>2. \A j \in DOMAIN c : f \in DOMAIN c[j] => j <= Len(s) + i BY <1>1, <2>1
  <2>3. Row(c, f) = c[Len(s) + i][f] BY <1>1, <2>1, <2>2, RowAt
  <2> QED BY <1>1, <1>2, <2>1, <2>3 DEF c
<1>3. CASE Holding(u, f) = {} /\ Holding(s, f) # {}
  <2>1. PICK i \in DOMAIN s : /\ f \in DOMAIN s[i] /\ Row(s, f) = s[i][f]
                              /\ \A j \in DOMAIN s : f \in DOMAIN s[j] => j <= i
    BY <1>3, RowTop
  <2>2. \A j \in DOMAIN c : f \in DOMAIN c[j] => j <= i BY <1>1, <1>3, <2>1 DEF Holding
  <2>3. Row(c, f) = c[i][f] BY <1>1, <2>1, <2>2, RowAt
  <2> QED BY <1>1, <1>3, <2>1, <2>3 DEF c
<1>4. CASE Holding(u, f) = {} /\ Holding(s, f) = {}
  <2>1. Holding(c, f) = {} BY <1>1, <1>4 DEF Holding
  <2> QED BY <1>4, <2>1 DEF Row, c
<1> QED BY <1>2, <1>3, <1>4

LEMMA RowOne ==
  ASSUME NEW l \in Layer, NEW f
  PROVE  /\ Holding(<<l>>, f) # {} <=> f \in DOMAIN l
         /\ Row(<<l>>, f) = IF f \in DOMAIN l THEN l[f] ELSE Absent
<1> DEFINE s == <<l>>
<1>1. s \in Seq(Layer) /\ DOMAIN s = {1} /\ s[1] = l OBVIOUS
<1> HIDE DEF s
<1>2. CASE f \in DOMAIN l
  <2>1. Holding(s, f) # {} /\ Row(s, f) = s[1][f] BY <1>1, <1>2, RowAt
  <2> QED BY <1>1, <1>2, <2>1 DEF s
<1>3. CASE f \notin DOMAIN l
  <2>1. Holding(s, f) = {} BY <1>1, <1>3 DEF Holding
  <2> QED BY <1>3, <2>1 DEF Row, s
<1> QED BY <1>2, <1>3

LEMMA RowOver ==
  ASSUME NEW s \in Seq(Layer), NEW l \in Layer
  PROVE  /\ s \o <<l>> \in Seq(Layer)
         /\ \A f : Row(s \o <<l>>, f) = IF f \in DOMAIN l THEN l[f] ELSE Row(s, f)
<1> DEFINE u == <<l>>
<1>1. u \in Seq(Layer) OBVIOUS
<1>2. \A f : /\ Holding(u, f) # {} <=> f \in DOMAIN l
             /\ Row(u, f) = IF f \in DOMAIN l THEN l[f] ELSE Absent
  BY RowOne
<1> HIDE DEF u
<1>3. \A f : Row(s \o u, f) = IF f \in DOMAIN l THEN l[f] ELSE Row(s, f)
  BY <1>1, <1>2, RowConcat
<1> QED BY <1>1, <1>3 DEF u

(* What the layers say of every file they are asked about.                 *)
LEMMA SaysType == ASSUME NEW s \in Seq(Layer) PROVE Says(s) \in Content
BY RowType DEF Says, Content, Put

(* A layer that turns what was said into something else.                   *)
LEMMA SaysDelta ==
  ASSUME NEW s \in Seq(Layer), NEW next \in Content
  PROVE  /\ Difference(Says(s), next) \in Layer
         /\ Says(s \o <<Difference(Says(s), next)>>) = next
<1> DEFINE l == Difference(Says(s), next)
<1>1. /\ l \in Layer /\ DOMAIN l = {g \in Files : Row(s, g) # next[g]}
      /\ \A f \in DOMAIN l : l[f] = next[f]
  <2> DEFINE D == {g \in Files : Row(s, g) # next[g]}
  <2>1. l = [f \in D |-> next[f]] BY DEF Difference, Says
  <2>2. D \in SUBSET Files /\ [f \in D |-> next[f]] \in [D -> Put] BY DEF Content, Put
  <2> QED BY <2>1, <2>2, LayerIs
<1> HIDE DEF l
<1>2. ASSUME NEW f \in Files PROVE Row(s \o <<l>>, f) = next[f]
  <2>1. Row(s \o <<l>>, f) = IF f \in DOMAIN l THEN l[f] ELSE Row(s, f) BY <1>1, RowOver
  <2> QED BY <1>1, <2>1
<1>3. Says(s \o <<l>>) = next BY <1>2 DEF Says, Content
<1> QED BY <1>1, <1>3 DEF l

LEMMA OnlyFacts ==
  ASSUME NEW l \in Layer, NEW S
  PROVE  /\ Only(l, S) \in Layer /\ DOMAIN Only(l, S) = DOMAIN l \cap S
         /\ \A f \in DOMAIN l \cap S : Only(l, S)[f] = l[f]
<1>1. DOMAIN l \cap S \in SUBSET Files
      /\ [f \in DOMAIN l \cap S |-> l[f]] \in [DOMAIN l \cap S -> Put]
  BY LayerFacts
<1> QED BY <1>1, LayerIs DEF Only

LEMMA FoldedFacts ==
  ASSUME NEW s \in Seq(Layer)
  PROVE  /\ Folded(s) \in Layer
         /\ \A f : f \in DOMAIN Folded(s) <=> Holding(s, f) # {}
         /\ \A f \in DOMAIN Folded(s) : Folded(s)[f] = Row(s, f)
<1> DEFINE D == UNION {DOMAIN s[i] : i \in DOMAIN s}
<1>1. D \in SUBSET Files
  <2>1. \A i \in DOMAIN s : s[i] \in Layer OBVIOUS
  <2> QED BY <2>1, LayerFacts
<1>2. [f \in D |-> Row(s, f)] \in [D -> Put] BY RowType
<1>3. \A f : f \in D <=> Holding(s, f) # {} BY DEF Holding
<1> QED BY <1>1, <1>2, <1>3, LayerIs DEF Folded

(* A merge over its base says what its layers say over it.                 *)
LEMMA SaysMerged ==
  ASSUME NEW base \in Seq(Layer), NEW s \in Seq(Layer)
  PROVE  /\ Merged(base, s) \in Layer
         /\ Says(base \o <<Merged(base, s)>>) = Says(base \o s)
<1> DEFINE l == Merged(base, s)
           S == {f \in Files : Row(s, f) = Absent \/ Row(s, f) # Row(base, f)}
<1>1. l \in Layer /\ DOMAIN l = DOMAIN Folded(s) \cap S
      /\ \A f \in DOMAIN l : l[f] = Row(s, f)
  <2>1. l = Only(Folded(s), S) BY DEF Merged
  <2>2. /\ Folded(s) \in Layer
        /\ \A f \in DOMAIN Folded(s) : Folded(s)[f] = Row(s, f)
    BY FoldedFacts
  <2> HIDE DEF l, S
  <2>3. /\ Only(Folded(s), S) \in Layer /\ DOMAIN Only(Folded(s), S) = DOMAIN Folded(s) \cap S
        /\ \A f \in DOMAIN Folded(s) \cap S : Only(Folded(s), S)[f] = Folded(s)[f]
    BY <2>2, OnlyFacts
  <2> QED BY <2>1, <2>2, <2>3
<1>2. \A f \in Files : f \in DOMAIN l <=>
         Holding(s, f) # {} /\ (Row(s, f) = Absent \/ Row(s, f) # Row(base, f))
  <2>1. \A f : f \in DOMAIN Folded(s) <=> Holding(s, f) # {} BY FoldedFacts
  <2>2. \A f \in Files : f \in S <=> Row(s, f) = Absent \/ Row(s, f) # Row(base, f) OBVIOUS
  <2> HIDE DEF l, S
  <2> QED BY <1>1, <2>1, <2>2
<1> HIDE DEF l, S
<1>3. ASSUME NEW f \in Files PROVE Row(base \o <<l>>, f) = Row(base \o s, f)
  <2>1. Row(base \o <<l>>, f) = IF f \in DOMAIN l THEN Row(s, f) ELSE Row(base, f)
    <3>1. Row(base \o <<l>>, f) = IF f \in DOMAIN l THEN l[f] ELSE Row(base, f)
      BY <1>1, RowOver
    <3> QED BY <1>1, <3>1
  <2>2. Row(base \o s, f) = IF Holding(s, f) # {} THEN Row(s, f) ELSE Row(base, f)
    BY RowConcat
  <2> QED BY <1>2, <2>1, <2>2
<1>4. Says(base \o <<l>>) = Says(base \o s) BY <1>3 DEF Says
<1> QED BY <1>1, <1>4 DEF l

(* A compaction says what its layers say.                                  *)
LEMMA SaysCompacted ==
  ASSUME NEW s \in Seq(Layer)
  PROVE  /\ Compacted(s) \in Layer /\ Says(<<Compacted(s)>>) = Says(s)
<1> DEFINE l == Compacted(s)
           S == {f \in Files : Row(s, f) # Absent}
<1>1. l \in Layer /\ DOMAIN l = DOMAIN Folded(s) \cap S
      /\ \A f \in DOMAIN l : l[f] = Row(s, f)
  <2>1. l = Only(Folded(s), S) BY DEF Compacted
  <2>2. /\ Folded(s) \in Layer
        /\ \A f \in DOMAIN Folded(s) : Folded(s)[f] = Row(s, f)
    BY FoldedFacts
  <2> HIDE DEF l, S
  <2>3. /\ Only(Folded(s), S) \in Layer /\ DOMAIN Only(Folded(s), S) = DOMAIN Folded(s) \cap S
        /\ \A f \in DOMAIN Folded(s) \cap S : Only(Folded(s), S)[f] = Folded(s)[f]
    BY <2>2, OnlyFacts
  <2> QED BY <2>1, <2>2, <2>3
<1>2. \A f \in Files : f \in DOMAIN l <=> Row(s, f) # Absent
  <2>1. \A f : Holding(s, f) = {} => Row(s, f) = Absent BY DEF Row
  <2>2. \A f : f \in DOMAIN Folded(s) <=> Holding(s, f) # {} BY FoldedFacts
  <2>3. \A f \in Files : f \in S <=> Row(s, f) # Absent OBVIOUS
  <2> HIDE DEF l, S
  <2> QED BY <1>1, <2>1, <2>2, <2>3
<1> HIDE DEF l, S
<1>3. \A f \in Files : Row(<<l>>, f) = Row(s, f) BY <1>1, <1>2, RowOne
<1> QED BY <1>1, <1>3 DEF Says, l

(* A layer in two parts, the second the files the first is not about.      *)
LEMMA SaysSplit ==
  ASSUME NEW l \in Layer
  PROVE  Split(l) \in Seq(Layer) /\ Len(Split(l)) = 2 /\ Says(Split(l)) = Says(<<l>>)
<1> DEFINE a == Only(l, Parses)
           b == Only(l, Files \ Parses)
<1>1. /\ a \in Layer /\ DOMAIN a = DOMAIN l \cap Parses
      /\ b \in Layer /\ DOMAIN b = DOMAIN l \ Parses
      /\ \A f \in DOMAIN a : a[f] = l[f]
      /\ \A f \in DOMAIN b : b[f] = l[f]
  <2>1. /\ a \in Layer /\ DOMAIN a = DOMAIN l \cap Parses
        /\ \A f \in DOMAIN l \cap Parses : a[f] = l[f]
    BY OnlyFacts
  <2>2. /\ b \in Layer /\ DOMAIN b = DOMAIN l \cap (Files \ Parses)
        /\ \A f \in DOMAIN l \cap (Files \ Parses) : b[f] = l[f]
    BY OnlyFacts
  <2> HIDE DEF a, b
  <2> QED BY <2>1, <2>2, LayerFacts
<1>2. Split(l) = <<a, b>> BY DEF Split
<1> HIDE DEF a, b
<1>3. <<a>> \in Seq(Layer) /\ <<a, b>> = <<a>> \o <<b>>
  <2> DEFINE u == <<a>>
             v == <<b>>
             c == <<a, b>>
  <2>1. u \in Seq(Layer) /\ Len(u) = 1 /\ u[1] = a BY <1>1
  <2>2. v \in Seq(Layer) /\ Len(v) = 1 /\ v[1] = b BY <1>1
  <2>3. c \in Seq(Layer) /\ Len(c) = 2 /\ c[1] = a /\ c[2] = b BY <1>1
  <2> HIDE DEF u, v, c
  <2>4. u \o v \in Seq(Layer) /\ Len(u \o v) = 2 /\ (u \o v)[1] = a /\ (u \o v)[2] = b
    <3>1. /\ u \o v \in Seq(Layer) /\ Len(u \o v) = 2
          /\ \A i \in 1..2 : (u \o v)[i] = IF i <= 1 THEN u[i] ELSE v[i - 1]
      BY <2>1, <2>2, ConcatProperties
    <3> QED BY <2>1, <2>2, <3>1
  <2>5. \A i \in 1..Len(c) : c[i] = (u \o v)[i] BY <2>3, <2>4
  <2>6. c = u \o v BY <2>3, <2>4, <2>5, SeqEqual
  <2> QED BY <2>1, <2>6 DEF u, v, c
<1>4. \A f \in Files : Row(<<a>> \o <<b>>, f) = Row(<<l>>, f)
  <2> TAKE f \in Files
  <2>1. Row(<<a>> \o <<b>>, f) = IF f \in DOMAIN b THEN b[f] ELSE Row(<<a>>, f)
    BY <1>1, <1>3, RowOver
  <2>2. Row(<<a>>, f) = IF f \in DOMAIN a THEN a[f] ELSE Absent BY <1>1, RowOne
  <2>3. Row(<<l>>, f) = IF f \in DOMAIN l THEN l[f] ELSE Absent BY RowOne
  <2> QED BY <1>1, <2>1, <2>2, <2>3
<1>5. Says(<<a, b>>) = Says(<<l>>) BY <1>3, <1>4 DEF Says
<1> QED BY <1>1, <1>2, <1>5

LEMMA SaysContent ==
  ASSUME NEW next \in Content PROVE next \in Layer /\ Says(<<next>>) = next
<1>1. next \in Layer /\ DOMAIN next = Files BY LayerIs DEF Content, Put
<1>2. \A f \in Files : Row(<<next>>, f) = next[f] BY <1>1, RowOne
<1> QED BY <1>1, <1>2 DEF Says, Content
-----------------------------------------------------------------------------
(* What holds of every state.                                              *)

Formed == {c \in Chain : Len(c.segments) > c.working}

(* A task that reads: what it has read is of the chain it saw.             *)
ReadsWell(t) ==
  /\ t \in Reads /\ t.seen \in Formed \cup {Nothing}
  /\ t.left \subseteq 1..Length(t.seen) /\ t.got \subseteq 1..Length(t.seen)
  /\ t.job = "append" => t.next \in Content

(* A task that has decided: the next chain says what its writer meant, and  *)
(* what it neither keeps nor writes of the one it expects, it replaces.     *)
Expected(t) == IF t.over = Anything THEN {} ELSE Named(t.over)
DecidesWell(t) ==
  /\ t \in Publishes /\ NextChain(t) \in Formed
  /\ Says(t.kept \o t.segments) = t.next
  /\ t.kind = "swap" => t.over # Anything /\ SaidBy(t.over) = t.from
  /\ Elements(t.kept) \subseteq Expected(t)
  /\ Expected(t) \subseteq Elements(t.kept \o t.segments) \cup Elements(t.replaced)
  /\ Elements(t.left) \subseteq Elements(t.segments)
  /\ t.pc = "enter" => t.left = t.segments

At(w) ==
  \/ task[w] = NoTask
  \/ task[w].pc = "reading" /\ ReadsWell(task[w])
  \/ task[w].pc \in {"enter", "write"} /\ DecidesWell(task[w])
  \/ task[w].pc = "clear" /\ task[w] \in Clears
Types ==
  /\ chain \in [Paths -> Formed \cup {Nothing}]
  /\ stored \in [Paths -> SUBSET Layer]
  /\ lock \in [Paths -> Writers \cup {Nobody}]
  /\ DOMAIN task = Writers
  /\ begun \in 0..MaxTasks /\ faults \in Nat
  /\ lost \in [Paths -> SUBSET Layer]
  /\ strewn \subseteq Paths
  /\ \A w \in Writers : At(w)

(* Who writes holds the lock, and what it expects is there.                *)
Holds(w, p) == task[w].pc \in {"write", "clear"} /\ task[w].path = p
Locked ==
  /\ \A w \in Writers, p \in Paths : Holds(w, p) <=> lock[p] = w
  /\ \A w \in Writers : task[w].pc = "write" =>
       task[w].over \in {Anything, chain[task[w].path]}

(* What a manifest names is there before it, and goes after it.            *)
InPlace(p) == stored[p] \cup lost[p]
Landed(w) ==
  LET t == task[w] IN
  /\ t.pc = "write" => Elements(t.segments) \subseteq Elements(t.left) \cup InPlace(t.path)
  /\ t.pc = "clear" => t.left \cap Named(chain[t.path]) = {}
SInv ==
  /\ Types /\ Locked
  /\ NamedSegmentsAreStored
  /\ \A w \in Writers : Landed(w)

(* What is stored is named, or a writer at work names it or removes it.    *)
Minding(w, p) ==
  IF ~Holds(w, p) THEN {}
  ELSE IF task[w].pc = "write" THEN Elements(task[w].segments) ELSE task[w].left
Tidy ==
  \A p \in Paths : faults = 0 /\ p \notin strewn =>
    \A s \in stored[p] \ Named(chain[p]) : \E w \in Writers : s \in Minding(w, p)
IInv == SInv /\ Tidy
-----------------------------------------------------------------------------
(* Parts of a chain.                                                       *)

LEMMA ElementsFacts ==
  ASSUME NEW s \in Seq(Layer)
  PROVE  /\ Elements(s) \subseteq Layer
         /\ \A i \in 1..Len(s) : s[i] \in Elements(s)
         /\ s # <<>> => /\ Head(s) \in Layer /\ Tail(s) \in Seq(Layer)
                        /\ Elements(s) = {Head(s)} \cup Elements(Tail(s))
<1>1. Elements(s) \subseteq Layer /\ \A i \in 1..Len(s) : s[i] \in Elements(s)
  BY DEF Elements
<1>2. ASSUME s # <<>>
      PROVE  /\ Head(s) \in Layer /\ Tail(s) \in Seq(Layer)
             /\ Elements(s) = {Head(s)} \cup Elements(Tail(s))
  <2>1. /\ Tail(s) \in Seq(Layer) /\ Len(Tail(s)) = Len(s) - 1 /\ Len(s) \in Nat \ {0}
        /\ \A i \in 1..Len(Tail(s)) : Tail(s)[i] = s[i + 1]
    BY <1>2, HeadTailProperties, EmptySeq
  <2>2. Head(s) = s[1] /\ Head(s) \in Layer BY <1>2
  <2>3. DOMAIN s = 1..Len(s) /\ DOMAIN Tail(s) = 1..Len(Tail(s)) BY <2>1
  <2>4. ASSUME NEW i \in 1..Len(s) PROVE s[i] \in {Head(s)} \cup Elements(Tail(s))
    <3>1. CASE i = 1 BY <2>2, <3>1
    <3>2. CASE i # 1
      <4>1. i - 1 \in 1..Len(Tail(s)) /\ s[i] = Tail(s)[i - 1] BY <2>1, <2>4, <3>2
      <4> QED BY <2>3, <4>1 DEF Elements
    <3> QED BY <3>1, <3>2
  <2>5. ASSUME NEW i \in 1..Len(Tail(s)) PROVE Tail(s)[i] \in Elements(s)
    <3>1. i + 1 \in 1..Len(s) /\ Tail(s)[i] = s[i + 1] BY <2>1, <2>5
    <3> QED BY <1>1, <3>1
  <2>6. Head(s) \in Elements(s) BY <1>1, <2>1, <2>2
  <2> QED BY <2>1, <2>2, <2>3, <2>4, <2>5, <2>6 DEF Elements
<1> QED BY <1>1, <1>2

LEMMA ElementsConcat ==
  ASSUME NEW s \in Seq(Layer), NEW u \in Seq(Layer)
  PROVE  s \o u \in Seq(Layer) /\ Elements(s \o u) = Elements(s) \cup Elements(u)
<1> DEFINE c == s \o u
<1>1. /\ c \in Seq(Layer) /\ Len(c) = Len(s) + Len(u)
      /\ \A i \in 1..Len(s) + Len(u) : c[i] = IF i <= Len(s) THEN s[i] ELSE u[i - Len(s)]
  BY ConcatProperties
<1>2. DOMAIN s = 1..Len(s) /\ DOMAIN u = 1..Len(u) /\ DOMAIN c = 1..Len(c)
      /\ Len(s) \in Nat /\ Len(u) \in Nat
  BY <1>1
<1> HIDE DEF c
<1>3. ASSUME NEW i \in DOMAIN c PROVE c[i] \in Elements(s) \cup Elements(u)
  <2>1. CASE i <= Len(s) BY <1>1, <1>2, <1>3, <2>1 DEF Elements
  <2>2. CASE ~(i <= Len(s))
    <3>1. i - Len(s) \in DOMAIN u /\ c[i] = u[i - Len(s)] BY <1>1, <1>2, <1>3, <2>2
    <3> QED BY <3>1 DEF Elements
  <2> QED BY <2>1, <2>2
<1>4. ASSUME NEW i \in DOMAIN s PROVE s[i] \in Elements(c)
  <2>1. i \in DOMAIN c /\ c[i] = s[i] BY <1>1, <1>2, <1>4
  <2> QED BY <2>1 DEF Elements
<1>5. ASSUME NEW i \in DOMAIN u PROVE u[i] \in Elements(c)
  <2>1. Len(s) + i \in DOMAIN c /\ c[Len(s) + i] = u[i] BY <1>1, <1>2, <1>5
  <2> QED BY <2>1 DEF Elements
<1>6. Elements(c) = Elements(s) \cup Elements(u) BY <1>3, <1>4, <1>5 DEF Elements
<1> QED BY <1>1, <1>6 DEF c

(* A sequence cut in two.                                                  *)
LEMMA Cut ==
  ASSUME NEW s \in Seq(Layer), NEW n \in 0..Len(s)
  PROVE  /\ SubSeq(s, 1, n) \in Seq(Layer) /\ Len(SubSeq(s, 1, n)) = n
         /\ SubSeq(s, n + 1, Len(s)) \in Seq(Layer)
         /\ Len(SubSeq(s, n + 1, Len(s))) = Len(s) - n
         /\ SubSeq(s, 1, n) \o SubSeq(s, n + 1, Len(s)) = s
         /\ Elements(s) = Elements(SubSeq(s, 1, n)) \cup Elements(SubSeq(s, n + 1, Len(s)))
<1>1. Len(s) \in Nat /\ \A i \in 1..Len(s) : s[i] \in Layer OBVIOUS
<1>2. SubSeq(s, 1, n) \in Seq(Layer) /\ Len(SubSeq(s, 1, n)) = n
  <2>1. \A i \in 1..n : s[i] \in Layer BY <1>1
  <2> QED BY <1>1, <2>1, SubSeqProperties
<1>3. /\ SubSeq(s, n + 1, Len(s)) \in Seq(Layer)
      /\ Len(SubSeq(s, n + 1, Len(s))) = Len(s) - n
  <2>1. \A i \in n + 1..Len(s) : s[i] \in Layer BY <1>1
  <2>2. /\ SubSeq(s, n + 1, Len(s)) \in Seq(Layer)
        /\ Len(SubSeq(s, n + 1, Len(s)))
             = IF n + 1 <= Len(s) THEN Len(s) - (n + 1) + 1 ELSE 0
    BY <1>1, <2>1, SubSeqProperties
  <2> QED BY <1>1, <2>2
<1>4. SubSeq(s, 1, n) \o SubSeq(s, n + 1, Len(s)) = s
  <2>1. 1 \in 1..Len(s) + 1 /\ n \in 1 - 1..Len(s) /\ Len(s) \in n..Len(s) BY <1>1
  <2>2. SubSeq(s, 1, n) \o SubSeq(s, n + 1, Len(s)) = SubSeq(s, 1, Len(s))
    BY <2>1, ConcatAdjacentSubSeq
  <2> QED BY <2>2, SubSeqFull
<1> QED BY <1>2, <1>3, <1>4, ElementsConcat

LEMMA ChainParts ==
  ASSUME NEW c \in Formed
  PROVE  /\ Base(c) \in Seq(Layer) /\ Working(c) \in Seq(Layer)
         /\ Len(Base(c)) = Len(c.segments) - c.working /\ Len(Base(c)) >= 1
         /\ Len(Working(c)) = c.working
         /\ Base(c) \o Working(c) = c.segments
         /\ Elements(c.segments) = Elements(Base(c)) \cup Elements(Working(c))
<1>1. c.segments \in Seq(Layer) /\ c.working \in {0, 1} /\ Len(c.segments) > c.working
      /\ Len(c.segments) \in Nat
  BY DEF Formed, Chain
<1> DEFINE n == Len(c.segments) - c.working
<1>2. /\ n \in 0..Len(c.segments) /\ n >= 1
      /\ n = Len(c.segments) - c.working /\ Len(c.segments) - n = c.working
  BY <1>1
<1>3. Base(c) = SubSeq(c.segments, 1, n)
      /\ Working(c) = SubSeq(c.segments, n + 1, Len(c.segments))
  BY DEF Base, Working
<1> HIDE DEF n
<1>4. /\ SubSeq(c.segments, 1, n) \in Seq(Layer) /\ Len(SubSeq(c.segments, 1, n)) = n
      /\ SubSeq(c.segments, n + 1, Len(c.segments)) \in Seq(Layer)
      /\ Len(SubSeq(c.segments, n + 1, Len(c.segments))) = Len(c.segments) - n
      /\ SubSeq(c.segments, 1, n) \o SubSeq(c.segments, n + 1, Len(c.segments)) = c.segments
      /\ Elements(c.segments) = Elements(SubSeq(c.segments, 1, n))
                                \cup Elements(SubSeq(c.segments, n + 1, Len(c.segments)))
  BY <1>1, <1>2, Cut
<1> QED BY <1>2, <1>3, <1>4

(* What is read and what is over it, folded over the base, say what a scan  *)
(* found.                                                                   *)
LEMMA SaysUpdated ==
  ASSUME NEW base \in Seq(Layer), NEW above \in Seq(Layer), NEW next \in Content
  PROVE  LET delta == Difference(Says(base \o above), next) IN
         /\ delta \in Layer /\ Append(above, delta) \in Seq(Layer)
         /\ Merged(base, Append(above, delta)) \in Layer
         /\ Says(base \o <<Merged(base, Append(above, delta))>>) = next
<1>0. PICK delta : delta = Difference(Says(base \o above), next) OBVIOUS
<1>1. base \o above \in Seq(Layer) BY ConcatProperties
<1>2. delta \in Layer /\ Says((base \o above) \o <<delta>>) = next
  BY <1>0, <1>1, SaysDelta
<1>3. Append(above, delta) \in Seq(Layer) /\ Append(above, delta) = above \o <<delta>>
  BY <1>2, AppendProperties, AppendIsConcat
<1>4. base \o (above \o <<delta>>) = (base \o above) \o <<delta>>
  <2>1. <<delta>> \in Seq(Layer) BY <1>2
  <2> QED BY <2>1, ConcatAssociative
<1>5. /\ Merged(base, Append(above, delta)) \in Layer
      /\ Says(base \o <<Merged(base, Append(above, delta))>>) = Says(base \o Append(above, delta))
  BY <1>3, SaysMerged
<1> QED BY <1>0, <1>2, <1>3, <1>4, <1>5

LEMMA KeptFacts ==
  ASSUME NEW t, NEW L \in Nat, L = Length(t.seen), t.got \subseteq 1..L
  PROVE  Kept(t) \in 0..L /\ 1..Kept(t) \subseteq t.got
<1> DEFINE Missed == {n \in Nat : n + 1 \notin t.got}
<1>1. L \in Missed OBVIOUS
<1>2. PICK n \in Missed : \A m \in Missed : n <= m BY <1>1, Least
<1>3. n \in 0..L BY <1>1, <1>2
<1>4. ASSUME NEW i \in 1..n PROVE i \in t.got
  <2>1. i - 1 \in Nat /\ ~(n <= i - 1) BY <1>3, <1>4
  <2>2. i - 1 \notin Missed BY <1>2, <2>1
  <2> QED BY <2>1, <2>2
<1>5. n \in 0..L /\ 1..n \subseteq t.got /\ n + 1 \notin t.got BY <1>2, <1>3, <1>4
<1> HIDE DEF Missed
<1> QED BY <1>5 DEF Kept
-----------------------------------------------------------------------------
(* Tasks.                                                                  *)

Others(w) == \A v \in Writers \ {w} : task'[v] = task[v]

LEMMA BecomesFacts ==
  ASSUME Types, NEW w \in Writers, NEW t, Becomes(w, t)
  PROVE  DOMAIN task' = Writers /\ task'[w] = t /\ Others(w)
BY DEF Becomes, Types, Others

LEMMA Kinds ==
  /\ NoTask.pc = "idle"
  /\ \A t : ReadsWell(t) => t.pc = "reading"
  /\ \A t : DecidesWell(t) => t.pc \in {"enter", "write"}
  /\ \A t \in Clears : t.pc = "clear"
BY DEF NoTask, ReadsWell, Reads, DecidesWell, Publishes, Clears

LEMMA ReadingWell ==
  ASSUME NEW job \in {"update", "ready", "save", "append", "seed"}, NEW p \in Paths,
         NEW seen \in Formed \cup {Nothing}, NEW known \in Seq(Layer),
         NEW next \in Content \cup {Nothing}, job = "append" => next \in Content
  PROVE  ReadsWell(Reading(job, p, seen, known, next))
<1> DEFINE t == Reading(job, p, seen, known, next)
<1>1. seen # Nothing => /\ DOMAIN seen.segments = 1..Len(seen.segments)
                        /\ Len(seen.segments) \in Nat
  BY DEF Formed, Chain
<1>2. seen \in Chain \cup {Nothing} BY DEF Formed
<1>3. /\ t.left = (IF seen = Nothing THEN {} ELSE DOMAIN seen.segments) /\ t.got = {}
      /\ t.seen = seen /\ t.job = job /\ t.next = next
  BY DEF Reading
<1>4. t.left \subseteq 1..Length(t.seen) BY <1>1, <1>3 DEF Length
<1>5. t.left \in SUBSET Nat BY <1>1, <1>3
<1>6. t \in Reads BY <1>2, <1>5 DEF Reading, Reads
<1> HIDE DEF t
<1> QED BY <1>3, <1>4, <1>6 DEF ReadsWell, t

LEMMA PublishingWell ==
  ASSUME NEW kind \in {"swap", "put"}, NEW p \in Paths,
         NEW over \in Chain \cup {Nothing, Anything}, NEW kept \in Seq(Layer),
         NEW segments \in Seq(Layer), NEW replaced \in Seq(Layer), NEW working \in {0, 1},
         NEW from \in Content \cup {Nothing}, NEW next \in Content,
         Len(kept) + Len(segments) > working, Says(kept \o segments) = next,
         kind = "swap" => over # Anything /\ SaidBy(over) = from,
         Elements(kept) \subseteq IF over = Anything THEN {} ELSE Named(over),
         over # Anything => Named(over) \subseteq
                              Elements(kept \o segments) \cup Elements(replaced)
  PROVE  DecidesWell(Publishing(kind, p, over, kept, segments, replaced, working, from, next))
<1> DEFINE t == Publishing(kind, p, over, kept, segments, replaced, working, from, next)
<1>1. /\ t.over = over /\ t.kept = kept /\ t.segments = segments /\ t.replaced = replaced
      /\ t.kind = kind /\ t.working = working /\ t.from = from /\ t.next = next
      /\ t.left = segments
  BY DEF Publishing
<1>2. t \in Publishes BY DEF Publishing, Publishes
<1>3. kept \o segments \in Seq(Layer) /\ Len(kept \o segments) = Len(kept) + Len(segments)
  BY ConcatProperties
<1> HIDE DEF t
<1>4. NextChain(t) \in Formed
  <2>1. NextChain(t) = [segments |-> kept \o segments, working |-> working]
    BY <1>1 DEF NextChain
  <2> QED BY <1>3, <2>1 DEF Formed, Chain
<1>5. Expected(t) = IF over = Anything THEN {} ELSE Named(over) BY <1>1 DEF Expected
<1>6. DecidesWell(t) BY <1>1, <1>2, <1>4, <1>5 DEF DecidesWell
<1> QED BY <1>6 DEF t

(* A step of a writer that neither holds the lock nor has it after.        *)
Thinks(w) ==
  /\ UNCHANGED <<chain, stored, lock, faults, lost, strewn>>
  /\ begun' \in 0..MaxTasks
  /\ DOMAIN task' = Writers /\ Others(w) /\ At(w)'
  /\ task[w].pc \notin {"write", "clear"} /\ task'[w].pc \notin {"write", "clear"}
  /\ task[w].pc = "enter" => task'[w] = NoTask

LEMMA ThinksKeeps == ASSUME IInv, NEW w \in Writers, Thinks(w) PROVE IInv'
<1>1. Types'
  <2>1. \A v \in Writers : At(v)' BY DEF Thinks, Others, IInv, SInv, Types, At
  <2> QED BY <2>1 DEF Thinks, IInv, SInv, Types
<1>2. \A v \in Writers, p \in Paths : Holds(v, p)' <=> Holds(v, p)
  BY DEF Thinks, Others, Holds
<1>3. Locked'
  <2>1. \A v \in Writers : task'[v].pc = "write" =>
          task'[v].over \in {Anything, chain'[task'[v].path]}
    BY DEF Thinks, Others, IInv, SInv, Locked
  <2>2. \A v \in Writers, p \in Paths : Holds(v, p)' <=> lock'[p] = v
    BY <1>2 DEF Thinks, IInv, SInv, Locked
  <2> QED BY <2>1, <2>2 DEF Locked
<1>4. NamedSegmentsAreStored' BY DEF Thinks, IInv, SInv, NamedSegmentsAreStored
<1>5. ASSUME NEW v \in Writers PROVE Landed(v)'
  <2>1. CASE v = w BY <2>1 DEF Thinks, Landed
  <2>2. CASE v # w
    <3>1. Landed(v) /\ task'[v] = task[v] BY <2>2 DEF Thinks, Others, IInv, SInv
    <3> QED BY <3>1 DEF Thinks, Landed, InPlace
  <2> QED BY <2>1, <2>2
<1>6. \A v \in Writers, p \in Paths : Minding(v, p) \subseteq Minding(v, p)'
  BY <1>2 DEF Thinks, Others, Minding, Holds
<1>7. Tidy' BY <1>6 DEF Thinks, IInv, Tidy
<1> QED BY <1>1, <1>3, <1>4, <1>5, <1>7 DEF IInv, SInv

LEMMA ThinksReading ==
  ASSUME IInv, NEW w \in Writers, NEW t, Becomes(w, t), Local,
         task[w].pc \in {"idle", "reading"},
         t = NoTask \/ ReadsWell(t) \/ (DecidesWell(t) /\ t.pc = "enter")
  PROVE  Thinks(w)
<1>1. DOMAIN task' = Writers /\ task'[w] = t /\ Others(w)
  BY BecomesFacts DEF IInv, SInv
<1>2. At(w)' BY <1>1, Kinds DEF At
<1> QED BY <1>1, <1>2, Kinds DEF Thinks, Local, IInv, SInv, Types
-----------------------------------------------------------------------------
(* What a process does before it publishes.                                *)

LEMMA OpenThinks ==
  ASSUME Parameters, IInv, NEW w \in Writers, Open(w) \/ OpenSeed(w) PROVE Thinks(w)
<1>1. task[w] = NoTask /\ begun < MaxTasks /\ begun' = begun + 1
      /\ UNCHANGED <<chain, stored, lock, faults, lost, strewn>>
  BY DEF Open, OpenSeed
<1>2. PICK p \in Paths, q \in Paths, job \in {"update", "ready", "save", "seed"} :
        Becomes(w, Reading(job, p, chain[q], <<>>, Nothing))
  <2>1. CASE Open(w) BY <2>1 DEF Open
  <2>2. CASE OpenSeed(w) BY <2>2 DEF OpenSeed, Parameters
  <2> QED BY <2>1, <2>2
<1>3. chain[q] \in Formed \cup {Nothing} /\ <<>> \in Seq(Layer) BY DEF IInv, SInv, Types
<1> DEFINE t == Reading(job, p, chain[q], <<>>, Nothing)
<1>4. ReadsWell(t) BY <1>3, ReadingWell
<1>5. DOMAIN task' = Writers /\ task'[w] = t /\ Others(w)
  BY <1>2, BecomesFacts DEF IInv, SInv
<1> HIDE DEF t
<1>6. begun' \in 0..MaxTasks BY <1>1 DEF IInv, SInv, Types, Parameters
<1>7. At(w)' BY <1>4, <1>5, Kinds DEF At
<1> QED BY <1>1, <1>4, <1>5, <1>6, <1>7, Kinds DEF Thinks

LEMMA ReadSegmentThinks ==
  ASSUME IInv, NEW w \in Writers, ReadSegment(w) PROVE Thinks(w)
<1> DEFINE t == task[w]
<1>1. t.pc = "reading" /\ Local BY DEF ReadSegment
<1>2. ReadsWell(t) BY <1>1, Kinds DEF IInv, SInv, Types, At
<1>3. PICK i \in t.left : \E got \in {t.got, t.got \cup {i}} :
        Becomes(w, [t EXCEPT !.left = t.left \ {i}, !.got = got])
  BY DEF ReadSegment
<1>8. PICK got \in {t.got, t.got \cup {i}} :
        Becomes(w, [t EXCEPT !.left = t.left \ {i}, !.got = got])
  BY <1>3
<1> HIDE DEF t
<1>4. PICK u : u = [t EXCEPT !.left = t.left \ {i}, !.got = got] OBVIOUS
<1>5. t \in Reads /\ t.left \subseteq 1..Length(t.seen) /\ t.got \subseteq 1..Length(t.seen)
  BY <1>2 DEF ReadsWell
<1>6. u \in Reads /\ u.seen = t.seen /\ u.job = t.job /\ u.next = t.next
      /\ u.left = t.left \ {i} /\ u.got = got
  <2>1. t.left \ {i} \in SUBSET Nat /\ got \in SUBSET Nat BY <1>5 DEF Reads
  <2> QED BY <1>4, <1>5, <2>1 DEF Reads
<1>7. ReadsWell(u) BY <1>2, <1>5, <1>6 DEF ReadsWell
<1> QED BY <1>1, <1>4, <1>7, <1>8, ThinksReading DEF t

(* What a task that has read everything knows.                             *)
LEMMA HasReadFacts ==
  ASSUME IInv, NEW w \in Writers, NEW job, HasRead(w, job)
  PROVE  LET t == task[w] IN
         /\ t.pc = "reading" /\ t.job = job /\ t \in Reads /\ ReadsWell(t)
         /\ t.path \in Paths /\ t.seen \in Formed \cup {Nothing}
         /\ t.known \in Seq(Layer)
         /\ job = "append" => t.next \in Content
         /\ Length(t.seen) \in Nat
         /\ Kept(t) \in 0..Length(t.seen)
         /\ t.seen # Nothing =>
              /\ t.seen \in Formed /\ t.seen \in Chain
              /\ t.seen.segments \in Seq(Layer) /\ t.seen.working \in {0, 1}
              /\ Length(t.seen) = Len(t.seen.segments)
              /\ Length(t.seen) > t.seen.working
              /\ SaidBy(t.seen) = Says(t.seen.segments)
              /\ Named(t.seen) = Elements(t.seen.segments)
<1> DEFINE t == task[w]
<1>1. t.pc = "reading" /\ t.job = job BY DEF HasRead
<1>2. ReadsWell(t) BY <1>1, Kinds DEF IInv, SInv, Types, At
<1>3. t \in Reads /\ t.path \in Paths /\ t.known \in Seq(Layer) /\ t.seen \in Formed \cup {Nothing}
      /\ (job = "append" => t.next \in Content) /\ t.got \subseteq 1..Length(t.seen)
  BY <1>1, <1>2 DEF ReadsWell, Reads
<1> HIDE DEF t
<1>4. t.seen # Nothing =>
              /\ t.seen \in Formed /\ t.seen \in Chain
              /\ t.seen.segments \in Seq(Layer) /\ t.seen.working \in {0, 1}
              /\ Length(t.seen) = Len(t.seen.segments)
              /\ Length(t.seen) > t.seen.working
  BY <1>3 DEF Formed, Chain, Length
<1>5. Length(t.seen) \in Nat BY <1>4 DEF Length
<1>6. Kept(t) \in 0..Length(t.seen) BY <1>3, <1>5, KeptFacts
<1>7. t.seen # Nothing => /\ SaidBy(t.seen) = Says(t.seen.segments)
                          /\ Named(t.seen) = Elements(t.seen.segments)
  BY DEF SaidBy, Named
<1> QED BY <1>1, <1>2, <1>3, <1>4, <1>5, <1>6, <1>7 DEF t

LEMMA UpdateThinks ==
  ASSUME Parameters, IInv, NEW w \in Writers, DecideUpdate(w) PROVE Thinks(w)
<1> DEFINE t == task[w]
<1>1. HasRead(w, "update") /\ Local BY DEF DecideUpdate
<1>2. /\ t.pc = "reading" /\ t.path \in Paths
      /\ t.seen # Nothing =>
              /\ t.seen \in Formed /\ t.seen \in Chain
              /\ t.seen.segments \in Seq(Layer) /\ t.seen.working \in {0, 1}
              /\ SaidBy(t.seen) = Says(t.seen.segments)
              /\ Named(t.seen) = Elements(t.seen.segments)
  BY <1>1, HasReadFacts
<1> DEFINE content == Says(t.seen.segments)
           base == Base(t.seen)
           above == Working(t.seen)
           delta(next) == Difference(content, next)
           layer(next) == IF above = <<>> THEN delta(next)
                          ELSE IF next = content THEN above[1]
                          ELSE Merged(base, Append(above, delta(next)))
           asks(next) == Publishing("swap", t.path, t.seen, base, <<layer(next)>>, above, 1,
                                    content, next)
<1>3. \/ Becomes(w, NoTask)
      \/ Whole(t) /\ \E next \in Trees : Becomes(w, asks(next))
  BY DEF DecideUpdate
<1>4. ASSUME NEW next \in Trees, Whole(t), Becomes(w, asks(next)) PROVE Thinks(w)
  <2>1. t.seen # Nothing /\ next \in Content BY <1>4 DEF Whole, Parameters
  <2>2. /\ base \in Seq(Layer) /\ above \in Seq(Layer) /\ Len(base) >= 1 /\ Len(base) \in Nat
        /\ Len(above) \in {0, 1}
        /\ base \o above = t.seen.segments
        /\ Elements(t.seen.segments) = Elements(base) \cup Elements(above)
    <3>1. t.seen \in Formed /\ t.seen.working \in {0, 1} BY <1>2, <2>1
    <3> HIDE DEF t
    <3>2. /\ base \in Seq(Layer) /\ above \in Seq(Layer) /\ Len(base) >= 1
          /\ Len(above) = t.seen.working /\ base \o above = t.seen.segments
          /\ Elements(t.seen.segments) = Elements(base) \cup Elements(above)
      BY <3>1, ChainParts
    <3> HIDE DEF base, above
    <3> QED BY <3>1, <3>2, LenProperties
  <2>3. content \in Content /\ content = Says(base \o above)
    BY <1>2, <2>1, <2>2, SaysType
  <2> HIDE DEF base, above, content, t
  <2>4. layer(next) \in Layer /\ Says(base \o <<layer(next)>>) = next
    <3>1. CASE above = <<>>
      <4>1. base \o above = base BY <2>2, <3>1, ConcatEmptySeq
      <4> QED BY <2>1, <2>2, <2>3, <3>1, <4>1, SaysDelta
    <3>2. CASE above # <<>> /\ next = content
      <4>1. above[1] \in Layer /\ above = <<above[1]>> BY <2>2, <3>2
      <4> QED BY <2>3, <3>2, <4>1
    <3>3. CASE above # <<>> /\ next # content
      <4>1. layer(next) = Merged(base, Append(above, delta(next))) BY <3>3
      <4>2. PICK d : d = delta(next) OBVIOUS
      <4>3. d = Difference(Says(base \o above), next) BY <2>3, <4>2
      <4>4. layer(next) = Merged(base, Append(above, d)) BY <4>1, <4>2
      <4>5. /\ Merged(base, Append(above, d)) \in Layer
            /\ Says(base \o <<Merged(base, Append(above, d))>>) = next
        BY <2>1, <2>2, <4>3, SaysUpdated
      <4> HIDE DEF layer, delta
      <4> QED BY <4>4, <4>5
    <3> QED BY <3>1, <3>2, <3>3
  <2>5. PICK l : l = layer(next) OBVIOUS
  <2>6. l \in Layer /\ Says(base \o <<l>>) = next BY <2>4, <2>5
  <2>7. <<l>> \in Seq(Layer) /\ Len(<<l>>) = 1 BY <2>6
  <2>8. asks(next) = Publishing("swap", t.path, t.seen, base, <<l>>, above, 1, content, next)
    BY <2>5
  <2>9. Elements(base) \subseteq Named(t.seen)
        /\ Named(t.seen) \subseteq Elements(base \o <<l>>) \cup Elements(above)
    <3>1. \A u \in Seq(Layer) : Elements(base \o u) = Elements(base) \cup Elements(u)
      BY <2>2, ElementsConcat
    <3>2. Elements(base \o <<l>>) = Elements(base) \cup Elements(<<l>>) BY <2>7, <3>1
    <3>3. Named(t.seen) = Elements(base) \cup Elements(above) BY <1>2, <2>1, <2>2 DEF t
    <3> QED BY <3>2, <3>3
  <2>10. t.seen # Anything BY <1>2, <2>1 DEF Parameters, t
  <2>11. t.seen \in Chain /\ t.path \in Paths /\ SaidBy(t.seen) = content
    BY <1>2, <2>1 DEF content, t
  <2>12. Len(base) + Len(<<l>>) > 1 BY <2>2, <2>7
  <2>13. DecidesWell(Publishing("swap", t.path, t.seen, base, <<l>>, above, 1, content, next))
    BY <2>1, <2>2, <2>3, <2>6, <2>7, <2>9, <2>10, <2>11, <2>12, PublishingWell
  <2>14. asks(next).pc = "enter" BY DEF Publishing
  <2> HIDE DEF asks
  <2> QED BY <1>1, <1>2, <1>4, <2>8, <2>13, <2>14, ThinksReading DEF t
<1>5. CASE Becomes(w, NoTask) BY <1>1, <1>2, <1>5, ThinksReading
<1> QED BY <1>3, <1>4, <1>5
LEMMA ReadyThinks ==
  ASSUME Parameters, IInv, NEW w \in Writers, DecideReady(w) PROVE Thinks(w)
<1> DEFINE t == task[w]
           s == t.seen.segments
           asks == Publishing("swap", t.path, t.seen, <<>>, <<Compacted(s)>>, s, 0,
                              Says(s), Says(s))
<1>1. HasRead(w, "ready") /\ Local BY DEF DecideReady
<1>2. Becomes(w, NoTask) \/ (Whole(t) /\ Becomes(w, asks)) BY DEF DecideReady
<1>3. /\ t.pc = "reading" /\ t.path \in Paths
      /\ t.seen # Nothing => /\ t.seen \in Chain /\ s \in Seq(Layer)
                             /\ SaidBy(t.seen) = Says(s) /\ Named(t.seen) = Elements(s)
  BY <1>1, HasReadFacts
<1>4. CASE Becomes(w, NoTask) BY <1>1, <1>3, <1>4, ThinksReading
<1>5. CASE Whole(t) /\ Becomes(w, asks)
  <2>1. t.seen # Nothing BY <1>5 DEF Whole
  <2>2. t.seen \in Chain /\ s \in Seq(Layer) /\ Says(s) \in Content /\ t.seen # Anything
        /\ SaidBy(t.seen) = Says(s) /\ Named(t.seen) = Elements(s)
    BY <1>3, <2>1, SaysType DEF Parameters
  <2>3. PICK c : c = <<Compacted(s)>> OBVIOUS
  <2>4. c \in Seq(Layer) /\ Len(c) = 1 /\ Says(c) = Says(s)
    <3>1. Compacted(s) \in Layer /\ Says(<<Compacted(s)>>) = Says(s) BY <2>2, SaysCompacted
    <3> QED BY <2>3, <3>1
  <2>5. <<>> \in Seq(Layer) /\ Len(<<>>) = 0 /\ <<>> \o c = c /\ Elements(<<>>) = {}
    BY <2>4, ConcatEmptySeq, EmptySeq DEF Elements
  <2>6. PICK e : e = <<>> OBVIOUS
  <2>7. asks = Publishing("swap", t.path, t.seen, e, c, s, 0, Says(s), Says(s))
    BY <2>3, <2>6
  <2> HIDE DEF asks, s, t
  <2>8. DecidesWell(Publishing("swap", t.path, t.seen, e, c, s, 0, Says(s), Says(s)))
    <3>1. e \in Seq(Layer) /\ Len(e) + Len(c) > 0 /\ Says(e \o c) = Says(s)
          /\ Elements(e) \subseteq (IF t.seen = Anything THEN {} ELSE Named(t.seen))
          /\ Named(t.seen) \subseteq Elements(e \o c) \cup Elements(s)
      BY <2>2, <2>4, <2>5, <2>6
    <3> QED BY <1>3, <2>2, <2>4, <3>1, PublishingWell
  <2>9. asks.pc = "enter" BY DEF Publishing, asks
  <2> QED BY <1>1, <1>3, <1>5, <2>7, <2>8, <2>9, ThinksReading DEF t
<1> QED BY <1>2, <1>4, <1>5

LEMMA PrefixFacts ==
  ASSUME IInv, NEW w \in Writers, NEW job, HasRead(w, job)
  PROVE  LET t == task[w] IN
         /\ Prefix(t) \in Seq(Layer)
         /\ t.seen # Nothing => Len(Prefix(t)) = Kept(t)
<1> DEFINE t == task[w]
<1>1. /\ Kept(t) \in 0..Length(t.seen)
      /\ t.seen # Nothing => /\ t.seen.segments \in Seq(Layer)
                             /\ Length(t.seen) = Len(t.seen.segments)
  BY HasReadFacts
<1> HIDE DEF t
<1>2. CASE t.seen = Nothing BY <1>2, EmptySeq DEF Prefix, t
<1>3. CASE t.seen # Nothing
  <2>1. Prefix(t) = SubSeq(t.seen.segments, 1, Kept(t)) BY <1>3 DEF Prefix
  <2>2. Kept(t) \in 0..Len(t.seen.segments) /\ t.seen.segments \in Seq(Layer) BY <1>1, <1>3
  <2> QED BY <2>1, <2>2, Cut DEF t
<1> QED BY <1>2, <1>3

LEMMA ScanThinks ==
  ASSUME Parameters, IInv, NEW w \in Writers, Scan(w) PROVE Thinks(w)
<1> DEFINE t == task[w]
           built(next) == Publishing("put", t.path, Anything, <<>>,
                                     Split(Compacted(<<next>>)), <<>>, 0, Nothing, next)
           reads(next) == Reading("append", t.path, chain[t.path], Prefix(t), next)
<1>1. HasRead(w, "save") /\ Local BY DEF Scan
<1>2. PICK next \in Trees : Becomes(w, NoTask) \/ Becomes(w, built(next))
                            \/ Becomes(w, reads(next))
  BY DEF Scan
<1>3. t.pc = "reading" /\ t.path \in Paths /\ next \in Content
  BY <1>1, HasReadFacts DEF Parameters
<1>4. CASE Becomes(w, NoTask) BY <1>1, <1>3, <1>4, ThinksReading
<1>5. CASE Becomes(w, built(next))
  <2>1. PICK s : s = Split(Compacted(<<next>>)) OBVIOUS
  <2>2. s \in Seq(Layer) /\ Len(s) = 2 /\ Says(s) = next
    <3>1. PICK c : c = <<next>> OBVIOUS
    <3>2. next \in Layer /\ Says(c) = next BY <1>3, <3>1, SaysContent
    <3>3. c \in Seq(Layer) BY <3>1, <3>2
    <3>4. Compacted(c) \in Layer /\ Says(<<Compacted(c)>>) = next BY <3>2, <3>3, SaysCompacted
    <3> QED BY <2>1, <3>1, <3>4, SaysSplit
  <2>3. PICK e : e = <<>> OBVIOUS
  <2>4. e \in Seq(Layer) /\ Len(e) = 0 /\ e \o s = s /\ Elements(e) = {}
    BY <2>2, <2>3, ConcatEmptySeq, EmptySeq DEF Elements
  <2>5. built(next) = Publishing("put", t.path, Anything, e, s, e, 0, Nothing, next)
    BY <2>1, <2>3
  <2>6. DecidesWell(Publishing("put", t.path, Anything, e, s, e, 0, Nothing, next))
    <3> HIDE DEF t
    <3>1. e \in Seq(Layer) /\ Len(e) + Len(s) > 0 /\ Says(e \o s) = next
          /\ Elements(e) \subseteq (IF Anything = Anything THEN {} ELSE Named(Anything))
      BY <2>2, <2>4
    <3> QED BY <1>3, <2>2, <3>1, PublishingWell
  <2>7. built(next).pc = "enter" BY DEF Publishing
  <2> HIDE DEF built
  <2> QED BY <1>1, <1>3, <1>5, <2>5, <2>6, <2>7, ThinksReading
<1>6. CASE Becomes(w, reads(next))
  <2>1. Prefix(t) \in Seq(Layer) BY <1>1, PrefixFacts
  <2>2. chain[t.path] \in Formed \cup {Nothing} BY <1>3 DEF IInv, SInv, Types
  <2>3. ReadsWell(reads(next))
    <3> HIDE DEF t
    <3> QED BY <1>3, <2>1, <2>2, ReadingWell
  <2> HIDE DEF reads
  <2> QED BY <1>1, <1>3, <1>6, <2>3, ThinksReading
<1> QED BY <1>2, <1>4, <1>5, <1>6

LEMMA SeedThinks ==
  ASSUME Parameters, IInv, NEW w \in Writers, DecideSeed(w) PROVE Thinks(w)
<1> DEFINE t == task[w]
           under == Length(t.seen) - t.seen.working
           n == IF Kept(t) > under THEN Kept(t) - under ELSE 0
           s == Prefix(t)
           asks == Publishing("swap", t.path, Nothing, <<>>, s, <<>>, n, Nothing, Says(s))
<1>1. HasRead(w, "seed") /\ Local BY DEF DecideSeed
<1>2. Becomes(w, NoTask) \/ (t.seen # Nothing /\ s # <<>> /\ Becomes(w, asks))
  BY DEF DecideSeed
<1>3. /\ t.pc = "reading" /\ t.path \in Paths
      /\ Length(t.seen) \in Nat /\ Kept(t) \in 0..Length(t.seen)
      /\ t.seen # Nothing => t.seen.working \in {0, 1} /\ Length(t.seen) > t.seen.working
  BY <1>1, HasReadFacts
<1>4. s \in Seq(Layer) /\ (t.seen # Nothing => Len(s) = Kept(t)) BY <1>1, PrefixFacts
<1>5. CASE Becomes(w, NoTask) BY <1>1, <1>3, <1>5, ThinksReading
<1>6. CASE t.seen # Nothing /\ s # <<>> /\ Becomes(w, asks)
  <2>1. n \in {0, 1} /\ Len(s) > n
    <3>1. Len(s) > 0 /\ Len(s) = Kept(t) BY <1>4, <1>6, EmptySeq
    <3> HIDE DEF s, t
    <3> QED BY <1>3, <1>6, <3>1
  <2>2. PICK e : e = <<>> OBVIOUS
  <2>3. e \in Seq(Layer) /\ Len(e) = 0 /\ e \o s = s /\ Elements(e) = {}
    BY <1>4, <2>2, ConcatEmptySeq, EmptySeq DEF Elements
  <2>4. Says(s) \in Content BY <1>4, SaysType
  <2>5. asks = Publishing("swap", t.path, Nothing, e, s, e, n, Nothing, Says(s)) BY <2>2
  <2> HIDE DEF n, s, asks, t
  <2>6. Nothing # Anything /\ SaidBy(Nothing) = Nothing /\ Named(Nothing) = {}
    BY DEF Parameters, SaidBy, Named
  <2>7. DecidesWell(Publishing("swap", t.path, Nothing, e, s, e, n, Nothing, Says(s)))
    <3>1. e \in Seq(Layer) /\ Len(e) + Len(s) > n /\ Says(e \o s) = Says(s)
          /\ Elements(e) \subseteq (IF Nothing = Anything THEN {} ELSE Named(Nothing))
          /\ Named(Nothing) \subseteq Elements(e \o s) \cup Elements(e)
      BY <1>4, <2>1, <2>3, <2>6
    <3> QED BY <1>3, <1>4, <2>1, <2>4, <2>6, <3>1, PublishingWell
  <2>8. asks.pc = "enter" BY DEF Publishing, asks
  <2> QED BY <1>1, <1>3, <1>6, <2>5, <2>7, <2>8, ThinksReading DEF t
<1> QED BY <1>2, <1>5, <1>6
LEMMA AppendThinks ==
  ASSUME Parameters, IInv, NEW w \in Writers, DecideAppend(w) PROVE Thinks(w)
<1> DEFINE t == task[w]
           delta == Difference(Says(t.known), t.next)
           names == IF t.seen = Nothing THEN <<>> ELSE t.seen.segments
           kept == Len(t.known)
           heads == kept <= Len(names) /\ SubSeq(names, 1, kept) = t.known
           base == IF t.seen = Nothing THEN 0
                   ELSE LET under == Len(names) - t.seen.working
                        IN IF under < kept THEN under ELSE kept
           first(layers) == Publishing("put", t.path, t.seen, <<>>, layers, names, 0,
                                       Says(t.known), t.next)
           layer == Merged(SubSeq(names, 1, base), Append(SubSeq(names, base + 1, kept), delta))
           over == Publishing("put", t.path, t.seen, SubSeq(names, 1, base), <<layer>>,
                              SubSeq(names, base + 1, Len(names)), 1, Says(t.known), t.next)
<1>1. HasRead(w, "append") /\ Local BY DEF DecideAppend
<1>2. \/ Becomes(w, NoTask)
      \/ kept = 0 /\ \E layers \in {<<delta>>, Split(delta)} : Becomes(w, first(layers))
      \/ kept > 0 /\ heads /\ Becomes(w, over)
  BY DEF DecideAppend
<1>3. /\ t.pc = "reading" /\ t.path \in Paths /\ t.known \in Seq(Layer) /\ t.next \in Content
      /\ t.seen \in Chain \cup {Nothing}
      /\ t.seen # Nothing =>
           /\ t.seen.segments \in Seq(Layer) /\ t.seen.working \in {0, 1}
           /\ Len(t.seen.segments) > t.seen.working
           /\ Named(t.seen) = Elements(t.seen.segments)
  <2>1. /\ t.pc = "reading" /\ t.path \in Paths /\ t.known \in Seq(Layer)
        /\ t.next \in Content
        /\ t.seen # Nothing =>
             /\ t.seen \in Chain /\ t.seen.segments \in Seq(Layer) /\ t.seen.working \in {0, 1}
             /\ Length(t.seen) = Len(t.seen.segments) /\ Length(t.seen) > t.seen.working
             /\ Named(t.seen) = Elements(t.seen.segments)
    <3>1. /\ t.pc = "reading" /\ t.path \in Paths /\ t.known \in Seq(Layer)
          /\ t.next \in Content
      BY <1>1, HasReadFacts
    <3>2. t.seen # Nothing =>
             /\ t.seen \in Chain /\ t.seen.segments \in Seq(Layer) /\ t.seen.working \in {0, 1}
             /\ Length(t.seen) = Len(t.seen.segments) /\ Length(t.seen) > t.seen.working
             /\ Named(t.seen) = Elements(t.seen.segments)
      BY <1>1, HasReadFacts
    <3> QED BY <3>1, <3>2
  <2> HIDE DEF t
  <2> QED BY <2>1
<1>4. names \in Seq(Layer) /\ Named(t.seen) = Elements(names) /\ kept \in Nat
      /\ t.seen # Anything /\ Says(t.known) \in Content
  <2>1. CASE t.seen = Nothing BY <1>3, <2>1, EmptySeq, SaysType DEF Named, Elements, Parameters
  <2>2. CASE t.seen # Nothing
    <3>1. t.seen # Anything BY <1>3 DEF Parameters
    <3> HIDE DEF t
    <3> QED BY <1>3, <2>2, <3>1, SaysType, LenProperties
  <2> QED BY <2>1, <2>2
<1>5. CASE Becomes(w, NoTask) BY <1>1, <1>3, <1>5, ThinksReading
<1>6. ASSUME NEW layers \in {<<delta>>, Split(delta)}, kept = 0, Becomes(w, first(layers))
      PROVE  Thinks(w)
  <2>1. t.known = <<>>
    <3> HIDE DEF t
    <3> QED BY <1>3, <1>6, EmptySeq
  <2>2. PICK d : d = delta OBVIOUS
  <2>3. PICK one : one = <<d>> OBVIOUS
  <2>4. d \in Layer /\ one \in Seq(Layer) /\ Len(one) = 1 /\ Says(one) = t.next
    <3>1. d \in Layer /\ Says(t.known \o <<d>>) = t.next
      <4> HIDE DEF t
      <4> QED BY <1>3, <2>2, SaysDelta
    <3>2. one \in Seq(Layer) /\ Len(one) = 1 BY <2>3, <3>1
    <3>3. <<>> \o one = one BY <3>2, ConcatEmptySeq
    <3> QED BY <2>1, <2>3, <3>1, <3>2, <3>3
  <2>5. layers \in Seq(Layer) /\ Len(layers) > 0 /\ Says(layers) = t.next
    <3> HIDE DEF t, delta
    <3>1. CASE layers = one BY <2>4, <3>1
    <3>2. CASE layers = Split(d) BY <2>3, <2>4, <3>2, SaysSplit
    <3> QED BY <1>6, <2>2, <2>3, <3>1, <3>2
  <2>6. PICK e : e = <<>> OBVIOUS
  <2>7. e \in Seq(Layer) /\ Len(e) = 0 /\ e \o layers = layers /\ Elements(e) = {}
    BY <2>5, <2>6, ConcatEmptySeq, EmptySeq DEF Elements
  <2>8. first(layers) = Publishing("put", t.path, t.seen, e, layers, names, 0,
                                   Says(t.known), t.next)
    BY <2>6
  <2> HIDE DEF names, kept, delta, t
  <2>9. e \in Seq(Layer) /\ Len(e) + Len(layers) > 0 /\ Says(e \o layers) = t.next
        /\ Elements(e) \subseteq (IF t.seen = Anything THEN {} ELSE Named(t.seen))
        /\ Named(t.seen) \subseteq Elements(e \o layers) \cup Elements(names)
    BY <1>4, <2>5, <2>7
  <2>10. DecidesWell(Publishing("put", t.path, t.seen, e, layers, names, 0,
                                Says(t.known), t.next))
    BY <1>3, <1>4, <2>5, <2>9, PublishingWell
  <2>11. first(layers).pc = "enter" BY DEF Publishing
  <2> HIDE DEF first
  <2> QED BY <1>1, <1>3, <1>6, <2>8, <2>10, <2>11, ThinksReading DEF t
<1>7. CASE kept > 0 /\ heads /\ Becomes(w, over)
  <2>1. t.seen # Nothing BY <1>3, <1>7
  <2>2. base \in Nat /\ base >= 1 /\ base <= kept /\ kept <= Len(names) /\ Len(names) \in Nat
    <3>1. names = t.seen.segments /\ t.seen.working \in {0, 1}
          /\ Len(names) > t.seen.working /\ Len(names) \in Nat
      BY <1>3, <1>4, <2>1
    <3>2. base = IF Len(names) - t.seen.working < kept THEN Len(names) - t.seen.working ELSE kept
      BY <2>1
    <3> HIDE DEF names, base, t
    <3>3. kept \in Nat /\ kept > 0 /\ kept <= Len(names) BY <1>4, <1>7
    <3> HIDE DEF kept
    <3> QED BY <3>1, <3>2, <3>3
  <2> HIDE DEF base, names, kept, t
  <2>3. SubSeq(names, 1, kept) = t.known BY <1>7
  <2>4. PICK a : a = SubSeq(names, 1, base) OBVIOUS
  <2>5. PICK b : b = SubSeq(names, base + 1, kept) OBVIOUS
  <2>6. PICK r : r = SubSeq(names, base + 1, Len(names)) OBVIOUS
  <2>7. /\ a \in Seq(Layer) /\ Len(a) = base /\ r \in Seq(Layer)
        /\ Elements(names) = Elements(a) \cup Elements(r)
    <3>1. base \in 0..Len(names) BY <1>4, <2>2
    <3> QED BY <1>4, <2>4, <2>6, <3>1, Cut
  <2>8. b \in Seq(Layer)
    <3>1. \A i \in base + 1..kept : names[i] \in Layer BY <1>4, <2>2
    <3>2. base + 1 \in Int /\ kept \in Int BY <1>4, <2>2
    <3> QED BY <2>5, <3>1, <3>2, SubSeqProperties
  <2>9. a \o b = t.known
    <3>1. 1 \in 1..Len(names) + 1 /\ base \in 1 - 1..Len(names) /\ kept \in base..Len(names)
      BY <1>4, <2>2
    <3>2. SubSeq(names, 1, base) \o SubSeq(names, base + 1, kept) = SubSeq(names, 1, kept)
      BY <1>4, <3>1, ConcatAdjacentSubSeq
    <3> QED BY <2>3, <2>4, <2>5, <3>2
  <2>10. PICK l : l = layer OBVIOUS
  <2>11. l \in Layer /\ Says(a \o <<l>>) = t.next
    <3>1. PICK d : d = delta OBVIOUS
    <3>2. d = Difference(Says(a \o b), t.next) BY <2>9, <3>1
    <3>3. l = Merged(a, Append(b, d)) BY <2>4, <2>5, <2>10, <3>1
    <3>4. LET e == Difference(Says(a \o b), t.next) IN
          Merged(a, Append(b, e)) \in Layer /\ Says(a \o <<Merged(a, Append(b, e))>>) = t.next
      BY <1>3, <2>7, <2>8, SaysUpdated
    <3> QED BY <3>2, <3>3, <3>4
  <2>12. PICK u : u = <<l>> OBVIOUS
  <2>13. u \in Seq(Layer) /\ Len(u) = 1 /\ Says(a \o u) = t.next BY <2>11, <2>12
  <2>14. Elements(a \o u) = Elements(a) \cup Elements(u) BY <2>7, <2>13, ElementsConcat
  <2>15. /\ Len(a) + Len(u) > 1
         /\ Elements(a) \subseteq (IF t.seen = Anything THEN {} ELSE Named(t.seen))
         /\ Named(t.seen) \subseteq Elements(a \o u) \cup Elements(r)
    BY <1>4, <2>2, <2>7, <2>13, <2>14
  <2>16. over = Publishing("put", t.path, t.seen, a, u, r, 1, Says(t.known), t.next)
    BY <2>4, <2>6, <2>10, <2>12
  <2>17. DecidesWell(Publishing("put", t.path, t.seen, a, u, r, 1, Says(t.known), t.next))
    BY <1>3, <1>4, <2>7, <2>13, <2>15, PublishingWell
  <2>18. over.pc = "enter" BY DEF Publishing
  <2> HIDE DEF over
  <2> QED BY <1>1, <1>3, <1>7, <2>16, <2>17, <2>18, ThinksReading DEF t
<1> HIDE DEF first, over, heads
<1> QED BY <1>2, <1>5, <1>6, <1>7
-----------------------------------------------------------------------------
(* Publishing.                                                             *)

LEMMA PublisherFacts ==
  ASSUME IInv, NEW w \in Writers, task[w].pc \in {"enter", "write"}
  PROVE  LET t == task[w] IN
         /\ DecidesWell(t) /\ t \in Publishes /\ t.path \in Paths /\ NextChain(t) \in Formed
         /\ t.segments \in Seq(Layer) /\ t.kept \in Seq(Layer) /\ t.replaced \in Seq(Layer)
         /\ t.left \in Seq(Layer)
         /\ Elements(t.left) \subseteq Elements(t.segments)
         /\ Elements(t.segments) \subseteq Layer
<1> DEFINE t == task[w]
<1>1. DecidesWell(t) BY Kinds DEF IInv, SInv, Types, At
<1> HIDE DEF t
<1>2. t \in Publishes /\ NextChain(t) \in Formed /\ Elements(t.left) \subseteq Elements(t.segments)
  BY <1>1 DEF DecidesWell
<1>3. t.path \in Paths /\ t.segments \in Seq(Layer) /\ t.kept \in Seq(Layer)
      /\ t.replaced \in Seq(Layer) /\ t.left \in Seq(Layer)
  BY <1>2 DEF Publishes
<1> QED BY <1>1, <1>2, <1>3, ElementsFacts DEF t

LEMMA ClearerFacts ==
  ASSUME IInv, NEW w \in Writers, task[w].pc = "clear"
  PROVE  task[w] \in Clears /\ task[w].path \in Paths /\ task[w].left \subseteq Layer
<1>1. task[w] \in Clears BY Kinds DEF IInv, SInv, Types, At
<1> QED BY <1>1 DEF Clears

LEMMA HolderPath ==
  ASSUME IInv, NEW w \in Writers, task[w].pc \in {"write", "clear"}
  PROVE  task[w].path \in Paths /\ lock[task[w].path] = w
<1>1. task[w].path \in Paths BY PublisherFacts, ClearerFacts
<1> QED BY <1>1 DEF IInv, SInv, Locked, Holds

(* A writer elsewhere is not disturbed.                                    *)
Elsewhere(w, p) ==
  /\ Others(w)
  /\ \A q \in Paths \ {p} : chain'[q] = chain[q] /\ stored'[q] = stored[q] /\ lost'[q] = lost[q]

LEMMA LandedElsewhere ==
  ASSUME IInv, NEW w \in Writers, NEW p \in Paths, lock[p] \in {w, Nobody}, Nobody \notin Writers,
         Elsewhere(w, p), NEW v \in Writers \ {w}
  PROVE  /\ At(v)' /\ Landed(v)'
         /\ task'[v].pc = "write" => task'[v].over \in {Anything, chain'[task'[v].path]}
<1>1. task'[v] = task[v] BY DEF Elsewhere, Others
<1>2. At(v)' BY <1>1 DEF At, IInv, SInv, Types
<1>3. CASE task[v].pc \notin {"write", "clear"} BY <1>1, <1>2, <1>3 DEF Landed
<1>4. CASE task[v].pc \in {"write", "clear"}
  <2>1. task[v].path \in Paths \ {p} BY <1>4, HolderPath
  <2>2. Landed(v) /\ (task[v].pc = "write" => task[v].over \in {Anything, chain[task[v].path]})
    BY DEF IInv, SInv, Locked
  <2>3. Landed(v)' BY <1>1, <2>1, <2>2 DEF Landed, InPlace, Elsewhere
  <2> QED BY <1>1, <1>2, <2>1, <2>2, <2>3 DEF Elsewhere
<1> QED BY <1>3, <1>4

LEMMA EnterKeeps ==
  ASSUME Parameters, IInv, NEW w \in Writers, Enter(w)
  PROVE  Thinks(w) \/ (IInv' /\ task'[w].pc = "write" /\ Others(w)
                       /\ task'[w] = [task[w] EXCEPT !.pc = "write"]
                       /\ UNCHANGED <<chain, stored, lost>>)
<1> DEFINE t == task[w]
<1>1. t.pc = "enter" /\ lock[t.path] = Nobody
      /\ UNCHANGED <<chain, stored, begun, faults, lost, strewn>>
  BY DEF Enter
<1>2. /\ DecidesWell(t) /\ t \in Publishes /\ t.path \in Paths
  BY <1>1, PublisherFacts
<1>3. CASE Becomes(w, NoTask) /\ UNCHANGED lock
  <2>1. DOMAIN task' = Writers /\ task'[w] = NoTask /\ Others(w)
    BY <1>3, BecomesFacts DEF IInv, SInv
  <2>2. At(w)' BY <2>1 DEF At
  <2> QED BY <1>1, <1>3, <2>1, <2>2, Kinds DEF Thinks, IInv, SInv, Types
<1>4. CASE /\ t.over \in {Anything, chain[t.path]}
           /\ lock' = [lock EXCEPT ![t.path] = w]
           /\ Becomes(w, [t EXCEPT !.pc = "write"])
  <2>1. DOMAIN task' = Writers /\ task'[w] = [t EXCEPT !.pc = "write"] /\ Others(w)
    BY <1>4, BecomesFacts DEF IInv, SInv
  <2>2. PICK u : u = [t EXCEPT !.pc = "write"] OBVIOUS
  <2> HIDE DEF t
  <2>3. /\ u \in Publishes /\ u.pc = "write" /\ u.path = t.path /\ u.over = t.over
        /\ u.kept = t.kept /\ u.segments = t.segments /\ u.replaced = t.replaced
        /\ u.working = t.working /\ u.kind = t.kind /\ u.from = t.from /\ u.next = t.next
        /\ u.left = t.left /\ t.left = t.segments
    BY <1>1, <1>2, <2>2 DEF Publishes, DecidesWell
  <2>4. DecidesWell(u) BY <1>2, <2>3 DEF DecidesWell, NextChain, Expected
  <2>5. task'[w] = u BY <2>1, <2>2
  <2>6. lock' \in [Paths -> Writers \cup {Nobody}] /\ lock'[t.path] = w
        /\ \A q \in Paths \ {t.path} : lock'[q] = lock[q]
    BY <1>2, <1>4 DEF IInv, SInv, Types
  <2>7. Elsewhere(w, t.path) BY <1>1, <2>1 DEF Elsewhere
  <2>8. ASSUME NEW v \in Writers
        PROVE  /\ At(v)' /\ Landed(v)'
               /\ task'[v].pc = "write" => task'[v].over \in {Anything, chain'[task'[v].path]}
    <3>1. CASE v = w
      <4>1. At(v)' BY <2>3, <2>4, <2>5, <3>1 DEF At
      <4>2. Landed(v)' BY <2>3, <2>5, <3>1 DEF Landed
      <4>3. task'[v].over \in {Anything, chain'[task'[v].path]}
        BY <1>1, <1>4, <2>3, <2>5, <3>1 DEF t
      <4> QED BY <4>1, <4>2, <4>3
    <3>2. CASE v # w
      <4>1. v \in Writers \ {w} BY <3>2
      <4> QED BY <1>1, <1>2, <2>7, <4>1, LandedElsewhere DEF Parameters
    <3> QED BY <3>1, <3>2
  <2>9. Types'
    <3>1. \A v \in Writers : At(v)' BY <2>8
    <3> QED BY <1>1, <2>1, <2>6, <3>1 DEF Types, IInv, SInv
  <2>10. Locked'
    <3>1. \A v \in Writers \ {w}, p \in Paths : Holds(v, p)' <=> Holds(v, p)
      BY <2>1 DEF Others, Holds
    <3>2. \A p \in Paths : Holds(w, p)' <=> p = t.path BY <2>3, <2>5 DEF Holds
    <3>3. \A p \in Paths : lock[p] # w
      BY <1>1 DEF IInv, SInv, Locked, Holds, t
    <3>4. \A v \in Writers : lock[t.path] # v BY <1>1 DEF Parameters
    <3>5. \A v \in Writers, p \in Paths : Holds(v, p)' <=> lock'[p] = v
      BY <1>2, <2>6, <3>1, <3>2, <3>3, <3>4 DEF IInv, SInv, Locked
    <3>6. \A v \in Writers : task'[v].pc = "write" =>
            task'[v].over \in {Anything, chain'[task'[v].path]}
      BY <2>8
    <3> QED BY <3>5, <3>6 DEF Locked
  <2>11. NamedSegmentsAreStored' BY <1>1 DEF IInv, SInv, NamedSegmentsAreStored
  <2>12. \A v \in Writers : Landed(v)' BY <2>8
  <2>13. Tidy'
    <3>1. \A v \in Writers, p \in Paths : Minding(v, p) \subseteq Minding(v, p)'
      <4>1. \A p \in Paths : Minding(w, p) = {} BY <1>1 DEF Minding, Holds, t
      <4> QED BY <2>1, <4>1 DEF Others, Minding, Holds
    <3> QED BY <1>1, <3>1 DEF IInv, Tidy
  <2>14. IInv' BY <2>9, <2>10, <2>11, <2>12, <2>13 DEF IInv, SInv
  <2> QED BY <1>1, <2>1, <2>3, <2>5, <2>14 DEF t
<1>5. \/ Becomes(w, NoTask) /\ UNCHANGED lock
      \/ /\ t.over \in {Anything, chain[t.path]}
         /\ lock' = [lock EXCEPT ![t.path] = w]
         /\ Becomes(w, [t EXCEPT !.pc = "write"])
  BY DEF Enter
<1> QED BY <1>3, <1>4, <1>5
-----------------------------------------------------------------------------
(* What is stored and not named, the holder of the lock minds.             *)
LEMMA HolderMinds ==
  ASSUME IInv, NEW w \in Writers, task[w].pc \in {"write", "clear"},
         faults = 0, task[w].path \notin strewn
  PROVE  stored[task[w].path] \ Named(chain[task[w].path])
           \subseteq IF task[w].pc = "write" THEN Elements(task[w].segments) ELSE task[w].left
<1>1. PICK p : p = task[w].path OBVIOUS
<1>2. p \in Paths /\ lock[p] = w BY <1>1, HolderPath
<1>3. ASSUME NEW s \in stored[p] \ Named(chain[p])
      PROVE  s \in Minding(w, p)
  <2>1. PICK v \in Writers : s \in Minding(v, p) BY <1>1, <1>2, <1>3 DEF IInv, Tidy
  <2>2. Holds(v, p) BY <2>1 DEF Minding
  <2>3. v = w BY <1>2, <2>2 DEF IInv, SInv, Locked
  <2> QED BY <2>1, <2>3
<1>4. Minding(w, p) = IF task[w].pc = "write" THEN Elements(task[w].segments)
                      ELSE task[w].left
  BY <1>1 DEF Minding, Holds
<1> QED BY <1>1, <1>3, <1>4

(* A step of the holder of the lock that keeps it.                         *)
LEMMA HolderKeeps ==
  ASSUME Parameters, IInv, NEW w \in Writers, NEW p \in Paths, NEW u,
         task[w].pc \in {"write", "clear"}, task[w].path = p,
         Becomes(w, u), u.pc \in {"write", "clear"}, u.path = p,
         (u.pc = "write" /\ DecidesWell(u)) \/ u \in Clears,
         u.pc = "write" => u.over \in {Anything, chain'[p]},
         u.pc = "write" => Elements(u.segments) \subseteq Elements(u.left) \cup InPlace(p)',
         u.pc = "clear" => u.left \cap Named(chain'[p]) = {},
         UNCHANGED <<lock, begun, faults>>, Elsewhere(w, p),
         chain' \in [Paths -> Formed \cup {Nothing}], stored' \in [Paths -> SUBSET Layer],
         lost' \in [Paths -> SUBSET Layer], strewn' \subseteq Paths, strewn \subseteq strewn',
         Named(chain'[p]) \ lost'[p] \subseteq stored'[p],
         faults = 0 /\ p \notin strewn' =>
           stored'[p] \ Named(chain'[p])
             \subseteq IF u.pc = "write" THEN Elements(u.segments) ELSE u.left
  PROVE  IInv'
<1>1. DOMAIN task' = Writers /\ task'[w] = u /\ Others(w)
  BY BecomesFacts DEF IInv, SInv
<1>2. lock[p] = w BY HolderPath
<1>3. ASSUME NEW v \in Writers
      PROVE  /\ At(v)' /\ Landed(v)'
             /\ task'[v].pc = "write" => task'[v].over \in {Anything, chain'[task'[v].path]}
  <2>1. CASE v = w
    <3>1. At(v)' BY <1>1, <2>1, Kinds DEF At
    <3>2. Landed(v)' BY <1>1, <2>1 DEF Landed
    <3> QED BY <1>1, <2>1, <3>1, <3>2
  <2>2. CASE v # w
    <3>1. v \in Writers \ {w} BY <2>2
    <3> QED BY <1>2, <3>1, LandedElsewhere DEF Parameters
  <2> QED BY <2>1, <2>2
<1>4. Types'
  <2>1. \A v \in Writers : At(v)' BY <1>3
  <2> QED BY <1>1, <2>1 DEF Types, IInv, SInv
<1>5. \A v \in Writers, q \in Paths : Holds(v, q)' <=> Holds(v, q)
  BY <1>1 DEF Others, Holds
<1>6. Locked'
  <2>1. \A v \in Writers : task'[v].pc = "write" =>
          task'[v].over \in {Anything, chain'[task'[v].path]}
    BY <1>3
  <2>2. \A v \in Writers, q \in Paths : Holds(v, q)' <=> lock'[q] = v
    BY <1>5 DEF IInv, SInv, Locked
  <2> QED BY <2>1, <2>2 DEF Locked
<1>7. NamedSegmentsAreStored'
  <2>1. ASSUME NEW q \in Paths PROVE Named(chain'[q]) \ lost'[q] \subseteq stored'[q]
    <3>1. CASE q = p BY <3>1
    <3>2. CASE q # p BY <3>2 DEF IInv, SInv, NamedSegmentsAreStored, Elsewhere
    <3> QED BY <3>1, <3>2
  <2> QED BY <2>1 DEF NamedSegmentsAreStored
<1>8. Tidy'
  <2>1. ASSUME NEW q \in Paths, faults' = 0, q \notin strewn',
               NEW s \in stored'[q] \ Named(chain'[q])
        PROVE  \E v \in Writers : s \in Minding(v, q)'
    <3>1. CASE q = p
      <4>1. s \in Minding(w, q)' BY <1>1, <2>1, <3>1 DEF Minding, Holds
      <4> QED BY <4>1
    <3>2. CASE q # p
      <4>1. s \in stored[q] \ Named(chain[q]) BY <2>1, <3>2 DEF Elsewhere
      <4>2. PICK v \in Writers : s \in Minding(v, q) BY <2>1, <4>1 DEF IInv, Tidy
      <4>3. v # w BY <3>2, <4>2 DEF Minding, Holds
      <4>4. s \in Minding(v, q)' BY <1>1, <4>2, <4>3 DEF Others, Minding, Holds
      <4> QED BY <4>4
    <3> QED BY <3>1, <3>2
  <2> QED BY <2>1 DEF Tidy
<1>9. \A v \in Writers : Landed(v)' BY <1>3
<1> QED BY <1>4, <1>6, <1>7, <1>8, <1>9 DEF IInv, SInv

LEMMA WriteSegmentKeeps ==
  ASSUME Parameters, IInv, NEW w \in Writers, WriteSegment(w)
  PROVE  IInv' /\ task'[w].pc = "write" /\ Others(w) /\ UNCHANGED chain
         /\ task'[w] = [task[w] EXCEPT !.left = Tail(@)]
<1>1. PICK t : t = task[w] OBVIOUS
<1>2. PICK p : p = t.path OBVIOUS
<1>3. PICK h : h = Head(t.left) OBVIOUS
<1>4. PICK u : u = [t EXCEPT !.left = Tail(@)] OBVIOUS
<1>5. /\ t.pc = "write" /\ t.left # <<>> /\ Becomes(w, u)
      /\ stored' = [stored EXCEPT ![p] = @ \cup {h}]
      /\ lost' = [lost EXCEPT ![p] = @ \ {h}]
      /\ UNCHANGED <<chain, lock, begun, faults, strewn>>
  BY <1>1, <1>2, <1>3, <1>4 DEF WriteSegment
<1>6. /\ DecidesWell(t) /\ t \in Publishes /\ p \in Paths
      /\ t.left \in Seq(Layer) /\ t.segments \in Seq(Layer)
      /\ Elements(t.left) \subseteq Elements(t.segments)
  BY <1>1, <1>2, <1>5, PublisherFacts
<1>7. h \in Layer /\ Tail(t.left) \in Seq(Layer)
      /\ Elements(t.left) = {h} \cup Elements(Tail(t.left))
  BY <1>3, <1>5, <1>6, ElementsFacts
<1>8. /\ u \in Publishes /\ u.pc = "write" /\ u.path = p /\ u.over = t.over
      /\ u.kept = t.kept /\ u.segments = t.segments /\ u.replaced = t.replaced
      /\ u.working = t.working /\ u.kind = t.kind /\ u.from = t.from /\ u.next = t.next
      /\ u.left = Tail(t.left)
  BY <1>2, <1>4, <1>5, <1>6, <1>7 DEF Publishes
<1>9. DecidesWell(u) BY <1>6, <1>7, <1>8 DEF DecidesWell, NextChain, Expected
<1>10. /\ stored'[p] = stored[p] \cup {h} /\ lost'[p] = lost[p] \ {h}
       /\ stored' \in [Paths -> SUBSET Layer] /\ lost' \in [Paths -> SUBSET Layer]
       /\ \A q \in Paths \ {p} : stored'[q] = stored[q] /\ lost'[q] = lost[q]
  BY <1>5, <1>6, <1>7 DEF IInv, SInv, Types
<1>11. DOMAIN task' = Writers /\ task'[w] = u /\ Others(w)
  BY <1>5, BecomesFacts DEF IInv, SInv
<1>12. Elsewhere(w, p) BY <1>5, <1>10, <1>11 DEF Elsewhere
<1>13. InPlace(p) \cup {h} \subseteq InPlace(p)' BY <1>10 DEF InPlace
<1>14. Elements(u.segments) \subseteq Elements(u.left) \cup InPlace(p)'
  <2>1. Elements(t.segments) \subseteq Elements(t.left) \cup InPlace(p)
    BY <1>1, <1>2, <1>5 DEF IInv, SInv, Landed
  <2> QED BY <1>7, <1>8, <1>13, <2>1
<1>15. u.over \in {Anything, chain'[p]}
  BY <1>1, <1>2, <1>5, <1>8 DEF IInv, SInv, Locked
<1>16. Named(chain'[p]) \ lost'[p] \subseteq stored'[p]
  <2>1. Named(chain[p]) \ lost[p] \subseteq stored[p]
    BY <1>6 DEF IInv, SInv, NamedSegmentsAreStored
  <2> QED BY <1>5, <1>10, <2>1
<1>17. faults = 0 /\ p \notin strewn' =>
         stored'[p] \ Named(chain'[p]) \subseteq Elements(u.segments)
  <2>1. faults = 0 /\ p \notin strewn =>
          stored[p] \ Named(chain[p]) \subseteq Elements(t.segments)
    BY <1>1, <1>2, <1>5, HolderMinds
  <2> QED BY <1>5, <1>6, <1>7, <1>8, <1>10, <2>1
<1>18. /\ chain' \in [Paths -> Formed \cup {Nothing}] /\ strewn' \subseteq Paths
       /\ strewn \subseteq strewn'
  BY <1>5 DEF IInv, SInv, Types
<1>19. IInv'
  <2>1. /\ u.pc = "clear" => u.left \cap Named(chain'[p]) = {}
        /\ u.pc \in {"write", "clear"} /\ task[w].pc \in {"write", "clear"} /\ task[w].path = p
        /\ UNCHANGED <<lock, begun, faults>>
    BY <1>1, <1>2, <1>5, <1>8
  <2>2. faults = 0 /\ p \notin strewn' =>
           stored'[p] \ Named(chain'[p])
             \subseteq IF u.pc = "write" THEN Elements(u.segments) ELSE u.left
    BY <1>8, <1>17
  <2> QED BY <1>5, <1>6, <1>8, <1>9, <1>10, <1>12, <1>14, <1>15, <1>16, <1>18, <2>1, <2>2,
             HolderKeeps
<1> QED BY <1>1, <1>4, <1>5, <1>8, <1>11, <1>19

LEMMA WriteManifestKeeps ==
  ASSUME Parameters, IInv, NEW w \in Writers, WriteManifest(w)
  PROVE  IInv' /\ task'[w].pc = "clear" /\ Others(w)
         /\ chain' = [chain EXCEPT ![task[w].path] = NextChain(task[w])]
<1>1. PICK t : t = task[w] OBVIOUS
<1>2. PICK p : p = t.path OBVIOUS
<1>3. PICK c : c = NextChain(t) OBVIOUS
<1>4. PICK u : u = [pc |-> "clear", path |-> p, left |-> Unnamed(t)] OBVIOUS
<1>5. /\ t.pc = "write" /\ t.left = <<>> /\ Becomes(w, u)
      /\ chain' = [chain EXCEPT ![p] = c]
      /\ strewn' = IF t.over = Anything /\ chain[p] # Nothing THEN strewn \cup {p} ELSE strewn
      /\ UNCHANGED <<stored, lock, begun, faults, lost>>
  BY <1>1, <1>2, <1>3, <1>4 DEF WriteManifest
<1>6. /\ DecidesWell(t) /\ p \in Paths /\ c \in Formed
      /\ t.segments \in Seq(Layer) /\ t.kept \in Seq(Layer) /\ t.replaced \in Seq(Layer)
  BY <1>1, <1>2, <1>3, <1>5, PublisherFacts
<1>7. c # Nothing /\ Named(c) = Elements(t.kept) \cup Elements(t.segments)
      /\ Elements(t.kept \o t.segments) = Named(c)
  <2>1. c \in Chain BY <1>6 DEF Formed
  <2>2. c # Nothing BY <2>1 DEF Parameters
  <2>3. c.segments = t.kept \o t.segments BY <1>3 DEF NextChain
  <2> QED BY <1>6, <2>2, <2>3, ElementsConcat DEF Named
<1>8. u.pc = "clear" /\ u.path = p /\ u.left = Elements(t.replaced) \ Named(c)
  BY <1>3, <1>4 DEF Unnamed
<1>9. u \in Clears
  <2>1. Elements(t.replaced) \subseteq Layer BY <1>6, ElementsFacts
  <2> QED BY <1>4, <1>6, <1>8, <2>1 DEF Clears
<1>10. /\ chain'[p] = c /\ chain' \in [Paths -> Formed \cup {Nothing}]
       /\ \A q \in Paths \ {p} : chain'[q] = chain[q]
  BY <1>5, <1>6 DEF IInv, SInv, Types
<1>11. DOMAIN task' = Writers /\ task'[w] = u /\ Others(w)
  BY <1>5, BecomesFacts DEF IInv, SInv
<1>12. Elsewhere(w, p) BY <1>5, <1>10, <1>11 DEF Elsewhere
<1>13. t.over \in {Anything, chain[p]} BY <1>1, <1>2, <1>5 DEF IInv, SInv, Locked
<1>14. Named(chain[p]) \ lost[p] \subseteq stored[p]
  BY <1>6 DEF IInv, SInv, NamedSegmentsAreStored
<1>15. Named(chain'[p]) \ lost'[p] \subseteq stored'[p]
  <2>1. Elements(t.kept) \subseteq Named(chain[p])
    BY <1>6, <1>13 DEF DecidesWell, Expected
  <2>2. Elements(<<>>) = {} BY DEF Elements
  <2>3. Elements(t.segments) \subseteq Elements(t.left) \cup (stored[p] \cup lost[p])
    BY <1>1, <1>2, <1>5 DEF IInv, SInv, Landed, InPlace
  <2> QED BY <1>5, <1>7, <1>10, <1>14, <2>1, <2>2, <2>3
<1>16. ASSUME faults = 0, p \notin strewn' PROVE stored'[p] \ Named(c) \subseteq u.left
  <2>1. p \notin strewn /\ (t.over = Anything => chain[p] = Nothing) BY <1>5, <1>16
  <2>2. stored[p] \ Named(chain[p]) \subseteq Elements(t.segments)
    BY <1>1, <1>2, <1>5, <1>16, <2>1, HolderMinds
  <2>3. Named(chain[p]) \subseteq Named(c) \cup Elements(t.replaced)
    <3>1. CASE t.over = Anything BY <2>1, <3>1 DEF Named
    <3>2. CASE t.over # Anything
      <4>1. Expected(t) = Named(chain[p]) BY <1>13, <3>2 DEF Expected
      <4>2. Expected(t) \subseteq Elements(t.kept \o t.segments) \cup Elements(t.replaced)
        BY <1>6 DEF DecidesWell
      <4> QED BY <1>7, <4>1, <4>2
    <3> QED BY <3>1, <3>2
  <2> QED BY <1>5, <1>7, <1>8, <2>2, <2>3
<1>17. /\ stored' \in [Paths -> SUBSET Layer] /\ lost' \in [Paths -> SUBSET Layer]
       /\ strewn' \subseteq Paths /\ strewn \subseteq strewn'
  BY <1>5, <1>6 DEF IInv, SInv, Types
<1>18. IInv'
  <2>1. /\ u.pc = "write" => u.over \in {Anything, chain'[p]}
        /\ u.pc = "write" => Elements(u.segments) \subseteq Elements(u.left) \cup InPlace(p)'
        /\ u.pc = "clear" => u.left \cap Named(chain'[p]) = {}
    BY <1>8, <1>10
  <2>2. /\ u.pc \in {"write", "clear"} /\ task[w].pc \in {"write", "clear"} /\ task[w].path = p
        /\ UNCHANGED <<lock, begun, faults>>
    BY <1>1, <1>2, <1>5, <1>8
  <2>3. faults = 0 /\ p \notin strewn' =>
           stored'[p] \ Named(chain'[p])
             \subseteq IF u.pc = "write" THEN Elements(u.segments) ELSE u.left
    BY <1>8, <1>10, <1>16
  <2> QED BY <1>5, <1>6, <1>8, <1>9, <1>10, <1>12, <1>15, <1>17, <2>1, <2>2, <2>3, HolderKeeps
<1> QED BY <1>1, <1>2, <1>3, <1>5, <1>8, <1>11, <1>18

LEMMA RemoveSegmentKeeps ==
  ASSUME Parameters, IInv, NEW w \in Writers, RemoveSegment(w)
  PROVE  IInv' /\ task'[w].pc = "clear" /\ Others(w) /\ UNCHANGED chain
<1>1. PICK t : t = task[w] OBVIOUS
<1>2. PICK p : p = t.path OBVIOUS
<1>3. PICK s \in t.left : stored' = [stored EXCEPT ![p] = @ \ {s}]
                          /\ Becomes(w, [t EXCEPT !.left = @ \ {s}])
  BY <1>1, <1>2 DEF RemoveSegment
<1>4. PICK u : u = [t EXCEPT !.left = @ \ {s}] OBVIOUS
<1>5. t.pc = "clear" /\ Becomes(w, u) /\ UNCHANGED <<chain, lock, begun, faults, lost, strewn>>
  BY <1>1, <1>3, <1>4 DEF RemoveSegment
<1>6. t \in Clears /\ p \in Paths /\ t.left \subseteq Layer BY <1>1, <1>2, <1>5, ClearerFacts
<1>7. u \in Clears /\ u.pc = "clear" /\ u.path = p /\ u.left = t.left \ {s}
  BY <1>2, <1>4, <1>5, <1>6 DEF Clears
<1>8. /\ stored'[p] = stored[p] \ {s} /\ stored' \in [Paths -> SUBSET Layer]
      /\ \A q \in Paths \ {p} : stored'[q] = stored[q]
  BY <1>3, <1>6 DEF IInv, SInv, Types
<1>9. DOMAIN task' = Writers /\ task'[w] = u /\ Others(w)
  BY <1>5, BecomesFacts DEF IInv, SInv
<1>10. Elsewhere(w, p) BY <1>5, <1>8, <1>9 DEF Elsewhere
<1>11. t.left \cap Named(chain[p]) = {} BY <1>1, <1>2, <1>5 DEF IInv, SInv, Landed
<1>12. Named(chain[p]) \ lost[p] \subseteq stored[p]
  BY <1>6 DEF IInv, SInv, NamedSegmentsAreStored
<1>13. Named(chain'[p]) \ lost'[p] \subseteq stored'[p] BY <1>3, <1>5, <1>8, <1>11, <1>12
<1>14. ASSUME faults = 0, p \notin strewn' PROVE stored'[p] \ Named(chain'[p]) \subseteq u.left
  <2>1. stored[p] \ Named(chain[p]) \subseteq t.left
    BY <1>1, <1>2, <1>5, <1>14, HolderMinds
  <2> QED BY <1>5, <1>7, <1>8, <2>1
<1>15. /\ chain' \in [Paths -> Formed \cup {Nothing}] /\ lost' \in [Paths -> SUBSET Layer]
       /\ strewn' \subseteq Paths /\ strewn \subseteq strewn'
  BY <1>5 DEF IInv, SInv, Types
<1>16. IInv'
  <2>1. /\ u.pc = "write" => u.over \in {Anything, chain'[p]}
        /\ u.pc = "write" => Elements(u.segments) \subseteq Elements(u.left) \cup InPlace(p)'
        /\ u.pc = "clear" => u.left \cap Named(chain'[p]) = {}
    BY <1>5, <1>7, <1>11
  <2>2. /\ u.pc \in {"write", "clear"} /\ task[w].pc \in {"write", "clear"} /\ task[w].path = p
        /\ UNCHANGED <<lock, begun, faults>>
    BY <1>1, <1>2, <1>5, <1>7
  <2>3. faults = 0 /\ p \notin strewn' =>
           stored'[p] \ Named(chain'[p])
             \subseteq IF u.pc = "write" THEN Elements(u.segments) ELSE u.left
    BY <1>7, <1>14
  <2> QED BY <1>5, <1>6, <1>7, <1>8, <1>10, <1>13, <1>15, <2>1, <2>2, <2>3, HolderKeeps
<1> QED BY <1>5, <1>7, <1>9, <1>16
-----------------------------------------------------------------------------
(* The other steps.                                                        *)

(* A process is at no task any more, and holds no lock.                    *)
LEMMA QuitKeeps ==
  ASSUME Parameters, IInv, NEW w \in Writers, Becomes(w, NoTask),
         lock' = [p \in Paths |-> IF lock[p] = w THEN Nobody ELSE lock[p]],
         UNCHANGED <<chain, stored, begun, lost, strewn>>, faults' \in Nat,
         faults' = 0 => faults = 0 /\ \A p \in Paths : Minding(w, p) = {}
  PROVE  IInv' /\ task'[w] = NoTask /\ Others(w)
<1>1. DOMAIN task' = Writers /\ task'[w] = NoTask /\ Others(w)
  BY BecomesFacts DEF IInv, SInv
<1>2. ASSUME NEW v \in Writers
      PROVE  /\ At(v)' /\ Landed(v)'
             /\ task'[v].pc = "write" => task'[v].over \in {Anything, chain'[task'[v].path]}
  <2>1. CASE v = w BY <1>1, <2>1, Kinds DEF At, Landed
  <2>2. CASE v # w
    <3>1. task'[v] = task[v] BY <1>1, <2>2 DEF Others
    <3>2. At(v)' BY <3>1 DEF At, IInv, SInv, Types
    <3>3. Landed(v)' BY <3>1 DEF Landed, InPlace, IInv, SInv
    <3> QED BY <3>1, <3>2, <3>3 DEF IInv, SInv, Locked
  <2> QED BY <2>1, <2>2
<1>3. Types'
  <2>1. \A v \in Writers : At(v)' BY <1>2
  <2>2. lock' \in [Paths -> Writers \cup {Nobody}] BY DEF IInv, SInv, Types
  <2> QED BY <1>1, <2>1, <2>2 DEF Types, IInv, SInv
<1>4. Locked'
  <2>1. \A v \in Writers : task'[v].pc = "write" =>
          task'[v].over \in {Anything, chain'[task'[v].path]}
    BY <1>2
  <2>2. \A v \in Writers \ {w}, p \in Paths : Holds(v, p)' <=> Holds(v, p)
    BY <1>1 DEF Others, Holds
  <2>3. \A p \in Paths : ~Holds(w, p)' BY <1>1, Kinds DEF Holds
  <2>4. \A v \in Writers, p \in Paths : Holds(v, p)' <=> lock'[p] = v
    BY <2>2, <2>3 DEF IInv, SInv, Locked, Parameters
  <2> QED BY <2>1, <2>4 DEF Locked
<1>5. NamedSegmentsAreStored' BY DEF IInv, SInv, NamedSegmentsAreStored
<1>6. Tidy'
  <2>1. ASSUME NEW p \in Paths, faults' = 0, p \notin strewn',
               NEW s \in stored'[p] \ Named(chain'[p])
        PROVE  \E v \in Writers : s \in Minding(v, p)'
    <3>1. PICK v \in Writers : s \in Minding(v, p) BY <2>1 DEF IInv, Tidy
    <3>2. v # w BY <2>1, <3>1
    <3>3. s \in Minding(v, p)' BY <1>1, <3>1, <3>2 DEF Others, Minding, Holds
    <3> QED BY <3>3
  <2> QED BY <2>1 DEF Tidy
<1>7. \A v \in Writers : Landed(v)' BY <1>2
<1> QED BY <1>1, <1>3, <1>4, <1>5, <1>6, <1>7 DEF IInv, SInv

LEMMA LeaveKeeps ==
  ASSUME Parameters, IInv, NEW w \in Writers, Leave(w)
  PROVE  IInv' /\ task[w].pc = "clear" /\ task'[w] = NoTask /\ Others(w) /\ UNCHANGED chain
<1>1. /\ task[w].pc = "clear" /\ task[w].left = {} /\ Becomes(w, NoTask)
      /\ lock' = [lock EXCEPT ![task[w].path] = Nobody]
      /\ UNCHANGED <<chain, stored, begun, faults, lost, strewn>>
  BY DEF Leave
<1>2. task[w].path \in Paths /\ lock[task[w].path] = w BY <1>1, HolderPath
<1>3. \A p \in Paths : lock[p] = w <=> p = task[w].path
  BY <1>1 DEF IInv, SInv, Locked, Holds
<1>4. lock' = [p \in Paths |-> IF lock[p] = w THEN Nobody ELSE lock[p]]
  BY <1>1, <1>2, <1>3 DEF IInv, SInv, Types
<1>5. \A p \in Paths : Minding(w, p) = {} BY <1>1 DEF Minding
<1>6. faults' \in Nat /\ (faults' = 0 => faults = 0) BY <1>1 DEF IInv, SInv, Types
<1> QED BY <1>1, <1>4, <1>5, <1>6, QuitKeeps

LEMMA DieKeeps ==
  ASSUME Parameters, IInv, NEW w \in Writers, Die(w)
  PROVE  IInv' /\ task'[w] = NoTask /\ Others(w) /\ UNCHANGED chain
<1>1. faults' \in Nat /\ faults' # 0 BY DEF Die, IInv, SInv, Types
<1> QED BY <1>1, QuitKeeps DEF Die

LEMMA LoseKeeps ==
  ASSUME Parameters, IInv, NEW p \in Paths, Lose(p)
  PROVE  IInv' /\ UNCHANGED <<chain, task>>
<1>1. PICK s \in stored[p] : /\ stored' = [stored EXCEPT ![p] = @ \ {s}]
                             /\ lost' = [lost EXCEPT ![p] = @ \cup {s}]
  BY DEF Lose
<1>2. faults' = faults + 1 /\ UNCHANGED <<chain, lock, task, begun, strewn>> BY DEF Lose
<1>3. /\ stored' \in [Paths -> SUBSET Layer] /\ lost' \in [Paths -> SUBSET Layer]
      /\ stored'[p] = stored[p] \ {s} /\ lost'[p] = lost[p] \cup {s}
      /\ \A q \in Paths \ {p} : stored'[q] = stored[q] /\ lost'[q] = lost[q]
  BY <1>1 DEF IInv, SInv, Types
<1>4. faults' \in Nat /\ faults' # 0 BY <1>2 DEF IInv, SInv, Types
<1>5. Types'
  <2>1. \A v \in Writers : At(v)' BY <1>2 DEF At, IInv, SInv, Types
  <2> QED BY <1>2, <1>3, <1>4, <2>1 DEF Types, IInv, SInv
<1>6. Locked' BY <1>2 DEF Locked, Holds, IInv, SInv
<1>7. NamedSegmentsAreStored'
  <2>1. ASSUME NEW q \in Paths PROVE Named(chain'[q]) \ lost'[q] \subseteq stored'[q]
    <3>1. Named(chain[q]) \ lost[q] \subseteq stored[q]
      BY DEF IInv, SInv, NamedSegmentsAreStored
    <3> QED BY <1>2, <1>3, <3>1
  <2> QED BY <2>1 DEF NamedSegmentsAreStored
<1>8. ASSUME NEW v \in Writers PROVE Landed(v)'
  <2>1. Landed(v) BY DEF IInv, SInv
  <2>2. \A q \in Paths : InPlace(q) \subseteq InPlace(q)'
    BY <1>3 DEF InPlace
  <2>3. CASE task[v].pc = "write"
    <3>1. task[v].path \in Paths BY <2>3, HolderPath
    <3> QED BY <1>2, <2>1, <2>2, <2>3, <3>1 DEF Landed
  <2>4. CASE task[v].pc # "write" BY <1>2, <2>1, <2>4 DEF Landed
  <2> QED BY <2>3, <2>4
<1>9. Tidy' BY <1>4 DEF Tidy
<1>10. \A v \in Writers : Landed(v)' BY <1>8
<1> QED BY <1>2, <1>5, <1>6, <1>7, <1>9, <1>10 DEF IInv, SInv

LEMMA InitInvariant == Parameters /\ Init => IInv
<1> SUFFICES ASSUME Parameters, Init PROVE IInv OBVIOUS
<1>1. PICK start \in Starts : chain = [p \in Paths |-> IF p = Primary THEN start ELSE Nothing]
  BY DEF Init
<1>2. start \in Formed \cup {Nothing} BY DEF Parameters, Formed
<1>3. \A c \in Formed \cup {Nothing} : Named(c) \subseteq Layer
  BY ElementsFacts DEF Formed, Chain, Named
<1>4. chain \in [Paths -> Formed \cup {Nothing}] BY <1>1, <1>2
<1>5. stored \in [Paths -> SUBSET Layer] BY <1>3, <1>4 DEF Init
<1>6. Types BY <1>4, <1>5 DEF Init, Types, At, Parameters
<1>7. Locked BY Kinds DEF Init, Locked, Holds, Parameters
<1>8. NamedSegmentsAreStored BY DEF Init, NamedSegmentsAreStored
<1>9. \A w \in Writers : Landed(w) BY Kinds DEF Init, Landed
<1>10. Tidy BY DEF Init, Tidy
<1> QED BY <1>6, <1>7, <1>8, <1>9, <1>10 DEF IInv, SInv

LEMMA StandingStill == ASSUME IInv, UNCHANGED vars PROVE IInv'
<1>1. Types'
  <2>1. \A v \in Writers : At(v)' BY DEF vars, At, IInv, SInv, Types
  <2> QED BY <2>1 DEF vars, Types, IInv, SInv
<1>2. Locked' BY DEF vars, Locked, Holds, IInv, SInv
<1>3. NamedSegmentsAreStored' BY DEF vars, NamedSegmentsAreStored, IInv, SInv
<1>4. \A v \in Writers : Landed(v)' BY DEF vars, Landed, InPlace, IInv, SInv
<1>5. Tidy'
  <2>1. \A v \in Writers, p \in Paths : Minding(v, p)' = Minding(v, p)
    BY DEF vars, Minding, Holds
  <2> QED BY <2>1 DEF vars, Tidy, IInv
<1> QED BY <1>1, <1>2, <1>3, <1>4, <1>5 DEF IInv, SInv

(* What a step of Next is.                                                 *)
Steps(w) ==
  \/ Thinks(w)
  \/ /\ Enter(w) /\ task'[w].pc = "write"
     /\ task'[w] = [task[w] EXCEPT !.pc = "write"] /\ Others(w) /\ UNCHANGED chain
  \/ WriteSegment(w) \/ WriteManifest(w) \/ RemoveSegment(w) \/ Leave(w) \/ Die(w)

LEMMA Step == ASSUME Parameters, IInv, NEW w \in Writers,
                     Open(w) \/ OpenSeed(w) \/ Proceed(w) \/ Die(w)
              PROVE  IInv' /\ Steps(w)
<1>1. CASE Open(w) \/ OpenSeed(w) BY <1>1, OpenThinks, ThinksKeeps DEF Steps
<1>2. CASE ReadSegment(w) BY <1>2, ReadSegmentThinks, ThinksKeeps DEF Steps
<1>3. CASE DecideUpdate(w) BY <1>3, UpdateThinks, ThinksKeeps DEF Steps
<1>4. CASE DecideReady(w) BY <1>4, ReadyThinks, ThinksKeeps DEF Steps
<1>5. CASE Scan(w) BY <1>5, ScanThinks, ThinksKeeps DEF Steps
<1>6. CASE DecideAppend(w) BY <1>6, AppendThinks, ThinksKeeps DEF Steps
<1>7. CASE DecideSeed(w) BY <1>7, SeedThinks, ThinksKeeps DEF Steps
<1>8. CASE Enter(w) BY <1>8, EnterKeeps, ThinksKeeps DEF Steps
<1>9. CASE WriteSegment(w) BY <1>9, WriteSegmentKeeps DEF Steps
<1>10. CASE WriteManifest(w) BY <1>10, WriteManifestKeeps DEF Steps
<1>11. CASE RemoveSegment(w) BY <1>11, RemoveSegmentKeeps DEF Steps
<1>12. CASE Leave(w) BY <1>12, LeaveKeeps DEF Steps
<1>13. CASE Die(w) BY <1>13, DieKeeps DEF Steps
<1> QED BY <1>1, <1>2, <1>3, <1>4, <1>5, <1>6, <1>7, <1>8, <1>9, <1>10, <1>11, <1>12, <1>13
        DEF Proceed

LEMMA NextInvariant == Parameters /\ IInv /\ [Next]_vars => IInv'
<1> SUFFICES ASSUME Parameters, IInv, [Next]_vars PROVE IInv' OBVIOUS
<1>1. CASE \E w \in Writers : Open(w) \/ OpenSeed(w) \/ Proceed(w) \/ Die(w) BY <1>1, Step
<1>2. CASE \E p \in Paths : Lose(p) BY <1>2, LoseKeeps
<1>3. CASE UNCHANGED vars BY <1>3, StandingStill
<1> QED BY <1>1, <1>2, <1>3 DEF Next
-----------------------------------------------------------------------------
(* The theorems.                                                           *)

(* In every state the invariant holds.                                     *)
LEMMA Invariant == Parameters /\ Spec => []IInv
<1> SUFFICES ASSUME Parameters PROVE Spec => []IInv OBVIOUS
<1> QED BY InitInvariant, NextInvariant, PTL DEF Spec

(* Manifests, segments, locks and tasks are what TypeOK says, and every     *)
(* chain is a base with at most one working layer over it.                  *)
THEOREM IndexTypes == Parameters /\ Spec => []TypeOK
<1> SUFFICES ASSUME Parameters PROVE Spec => []TypeOK OBVIOUS
<1> DEFINE Tasked == task = [w \in Writers |-> task[w]]
<1>1. Init => Tasked BY DEF Init
<1>2. IInv /\ Tasked /\ [Next]_vars => Tasked'
  <2> SUFFICES ASSUME IInv, Tasked, [Next]_vars PROVE Tasked' OBVIOUS
  <2>1. ASSUME NEW w \in Writers, NEW t, Becomes(w, t) PROVE Tasked'
    BY <2>1 DEF Becomes
  <2>2. ASSUME NEW w \in Writers, Open(w) \/ OpenSeed(w) \/ Proceed(w) \/ Die(w)
        PROVE  \E t : Becomes(w, t)
    <3>1. CASE Open(w) \/ OpenSeed(w) BY <3>1 DEF Open, OpenSeed
    <3>2. CASE ReadSegment(w) BY <3>2 DEF ReadSegment
    <3>3. CASE DecideUpdate(w) BY <3>3 DEF DecideUpdate
    <3>4. CASE DecideReady(w) BY <3>4 DEF DecideReady
    <3>5. CASE Scan(w) BY <3>5 DEF Scan
    <3>6. CASE DecideAppend(w) BY <3>6 DEF DecideAppend
    <3>7. CASE DecideSeed(w) BY <3>7 DEF DecideSeed
    <3>8. CASE Enter(w) BY <3>8 DEF Enter
    <3>9. CASE WriteSegment(w) \/ WriteManifest(w) BY <3>9 DEF WriteSegment, WriteManifest
    <3>10. CASE RemoveSegment(w) \/ Leave(w) \/ Die(w) BY <3>10 DEF RemoveSegment, Leave, Die
    <3> QED BY <2>2, <3>1, <3>2, <3>3, <3>4, <3>5, <3>6, <3>7, <3>8, <3>9, <3>10 DEF Proceed
  <2>3. UNCHANGED task => Tasked' OBVIOUS
  <2>4. \A p \in Paths : Lose(p) => UNCHANGED task BY DEF Lose
  <2> HIDE DEF Tasked
  <2> QED BY <2>1, <2>2, <2>3, <2>4 DEF Next, vars
<1>3. IInv /\ Tasked => TypeOK
  <2> SUFFICES ASSUME IInv, Tasked PROVE TypeOK OBVIOUS
  <2>1. \A w \in Writers : task[w] \in {NoTask} \cup Reads \cup Publishes \cup Clears
    BY DEF IInv, SInv, Types, At, ReadsWell, DecidesWell
  <2>2. task \in [Writers -> {NoTask} \cup Reads \cup Publishes \cup Clears] BY <2>1
  <2> QED BY <2>2 DEF TypeOK, IInv, SInv, Types, Formed
<1> QED BY <1>1, <1>2, <1>3, Invariant, PTL DEF Spec

(* Whatever order updates, readyings, saves and seeds come in, and whoever  *)
(* dies where, a manifest names no segment that was removed by a writer.    *)
THEOREM NamedStayStored == Parameters /\ Spec => []NamedSegmentsAreStored
<1> SUFFICES ASSUME Parameters PROVE Spec => []NamedSegmentsAreStored OBVIOUS
<1>1. IInv => NamedSegmentsAreStored BY DEF IInv, SInv
<1> QED BY <1>1, Invariant, PTL

(* Between publishes, nothing is stored that the manifest does not name.    *)
THEOREM NothingLeftBehind == Parameters /\ Spec => []NothingIsLeftBehind
<1> SUFFICES ASSUME Parameters PROVE Spec => []NothingIsLeftBehind OBVIOUS
<1>1. IInv => NothingIsLeftBehind
  <2> SUFFICES ASSUME IInv, NEW p \in Paths, faults = 0, p \notin strewn,
                      lock[p] = Nobody, NEW s \in stored[p] \ Named(chain[p])
               PROVE  FALSE
    BY DEF NothingIsLeftBehind
  <2>1. PICK w \in Writers : s \in Minding(w, p) BY DEF IInv, Tidy
  <2>2. lock[p] = w BY <2>1 DEF Minding, IInv, SInv, Locked
  <2> QED BY <2>2 DEF Parameters
<1> QED BY <1>1, Invariant, PTL

(* What IndexRegister is told of an index and of a writer.                  *)
SaysNow == [p \in Paths |-> SaidBy(chain[p])]
AskOf(t) ==
  IF t.pc \in {"enter", "write"}
  THEN [kind |-> t.kind, path |-> t.path, from |-> t.from, next |-> t.next]
  ELSE [kind |-> "none"]
AskedNow == [w \in Writers |-> AskOf(task[w])]

LEMMA AskFacts ==
  ASSUME IInv, NEW w \in Writers
  PROVE  /\ task[w].pc \in {"enter", "write"} =>
              /\ AskOf(task[w]) \in Register!Asks /\ AskOf(task[w]) # Register!Idle
              /\ AskOf(task[w]).kind = task[w].kind /\ AskOf(task[w]).path = task[w].path
              /\ AskOf(task[w]).from = task[w].from /\ AskOf(task[w]).next = task[w].next
         /\ task[w].pc \notin {"enter", "write"} => AskOf(task[w]) = Register!Idle
<1>1. ASSUME task[w].pc \in {"enter", "write"}
      PROVE  AskOf(task[w]) \in Register!Asks /\ AskOf(task[w]) # Register!Idle
  <2>1. task[w] \in Publishes BY <1>1, PublisherFacts
  <2>2. task[w].kind \in {"swap", "put"} /\ task[w].path \in Paths
        /\ task[w].from \in Content \cup {Nothing} /\ task[w].next \in Content
    BY <2>1 DEF Publishes
  <2>3. AskOf(task[w]) = [kind |-> task[w].kind, path |-> task[w].path,
                          from |-> task[w].from, next |-> task[w].next]
    BY <1>1 DEF AskOf
  <2> QED BY <2>2, <2>3 DEF Register!Asks, Register!Idle
<1> QED BY <1>1 DEF AskOf, Register!Idle

LEMMA AskedFacts ==
  ASSUME NEW w \in Writers, Others(w)
  PROVE  AskedNow' = [AskedNow EXCEPT ![w] = AskOf(task'[w])]
BY DEF AskedNow, Others

(* A step of a writer is one of IndexRegister's, or none.                  *)
RegisterStep == [Register!Next]_<<SaysNow, AskedNow>>
LEMMA StepRegisters ==
  ASSUME Parameters, IInv, IInv', NEW w \in Writers, Steps(w)
  PROVE  RegisterStep
<1> DEFINE t == task[w]
<1>1. AskedNow \in [Writers -> Register!Asks \cup {Register!Idle}] /\ AskedNow[w] = AskOf(t)
  BY AskFacts DEF AskedNow
<1>2. ASSUME UNCHANGED chain, Others(w), AskOf(task'[w]) = AskOf(t) PROVE RegisterStep
  <2>1. SaysNow' = SaysNow BY <1>2 DEF SaysNow
  <2>2. AskedNow' = AskedNow BY <1>1, <1>2, AskedFacts
  <2> QED BY <2>1, <2>2 DEF RegisterStep
<1>3. ASSUME UNCHANGED chain, Others(w), task'[w] = NoTask PROVE RegisterStep
  <2>1. AskOf(task'[w]) = Register!Idle BY <1>3, Kinds DEF AskOf, Register!Idle
  <2>2. CASE t.pc \in {"enter", "write"}
    <3>1. AskOf(t) # Register!Idle BY <2>2, AskFacts
    <3>2. SaysNow' = SaysNow BY <1>3 DEF SaysNow
    <3>3. AskedNow' = [AskedNow EXCEPT ![w] = Register!Idle] BY <1>3, <2>1, AskedFacts
    <3>4. Register!Refuse(w)
      BY <1>1, <3>1, <3>2, <3>3 DEF Register!Refuse, SaysNow, AskedNow, AskOf
    <3> QED BY <3>4 DEF RegisterStep, Register!Next
  <2>3. CASE t.pc \notin {"enter", "write"}
    <3>1. AskOf(t) = Register!Idle BY <2>3, AskFacts
    <3> QED BY <1>2, <1>3, <2>1, <3>1
  <2> QED BY <2>2, <2>3
<1>4. CASE Thinks(w)
  <2>1. UNCHANGED chain /\ Others(w) BY <1>4 DEF Thinks
  <2>2. CASE t.pc = "enter" BY <1>3, <1>4, <2>1, <2>2 DEF Thinks
  <2>3. CASE t.pc # "enter" /\ task'[w].pc = "enter"
    <3>1. AskOf(t) = Register!Idle BY <1>4, <2>3, AskFacts DEF Thinks
    <3>2. AskOf(task'[w]) \in Register!Asks
      <4>1. task'[w] \in Publishes BY <2>3, Kinds DEF IInv, SInv, Types, At, DecidesWell
      <4>2. AskOf(task'[w]) = [kind |-> task'[w].kind, path |-> task'[w].path,
                               from |-> task'[w].from, next |-> task'[w].next]
        BY <2>3 DEF AskOf
      <4> QED BY <4>1, <4>2 DEF Publishes, Register!Asks
    <3>3. AskedNow' = [AskedNow EXCEPT ![w] = AskOf(task'[w])]
          /\ AskedNow'[w] = AskOf(task'[w])
      BY <1>1, <2>1, AskedFacts
    <3>4. SaysNow' = SaysNow BY <2>1 DEF SaysNow
    <3>5. Register!Ask(w)
      BY <1>1, <3>1, <3>2, <3>3, <3>4 DEF Register!Ask, SaysNow, AskedNow, AskOf
    <3> QED BY <3>5 DEF RegisterStep, Register!Next
  <2>4. CASE t.pc # "enter" /\ task'[w].pc # "enter"
    <3>1. AskOf(task'[w]) = AskOf(t) BY <1>4, <2>4 DEF Thinks, AskOf
    <3> QED BY <1>2, <2>1, <3>1
  <2> QED BY <2>2, <2>3, <2>4
<1>5. CASE /\ Enter(w) /\ task'[w].pc = "write"
           /\ task'[w] = [task[w] EXCEPT !.pc = "write"] /\ Others(w) /\ UNCHANGED chain
  <2>1. t.pc = "enter" BY <1>5 DEF Enter
  <2>2. t \in Publishes BY <2>1, PublisherFacts
  <2>3. AskOf(task'[w]) = AskOf(t) BY <1>5, <2>1, <2>2 DEF AskOf, Publishes
  <2> QED BY <1>2, <1>5, <2>3
<1>6. CASE WriteSegment(w)
  <2>1. t.pc = "write" BY <1>6 DEF WriteSegment
  <2>2. t \in Publishes BY <2>1, PublisherFacts
  <2>3. /\ task'[w].pc = "write" /\ Others(w) /\ UNCHANGED chain
        /\ task'[w] = [t EXCEPT !.left = Tail(@)]
    BY <1>6, WriteSegmentKeeps
  <2>4. AskOf(task'[w]) = AskOf(t) BY <2>1, <2>2, <2>3 DEF AskOf, Publishes
  <2> QED BY <1>2, <2>3, <2>4
<1>7. CASE WriteManifest(w)
  <2>1. t.pc = "write" BY <1>7 DEF WriteManifest
  <2>2. DecidesWell(t) /\ t.path \in Paths /\ NextChain(t) \in Formed BY <2>1, PublisherFacts
  <2>3. /\ task'[w].pc = "clear" /\ Others(w)
        /\ chain' = [chain EXCEPT ![t.path] = NextChain(t)]
    BY <1>7, WriteManifestKeeps
  <2>4. SaidBy(NextChain(t)) = t.next
    <3>1. NextChain(t) # Nothing BY <2>2 DEF Formed, Parameters
    <3>2. NextChain(t).segments = t.kept \o t.segments BY DEF NextChain
    <3> QED BY <2>2, <3>1, <3>2 DEF SaidBy, DecidesWell
  <2>5. AskOf(t).path = t.path /\ AskOf(t).next = t.next /\ AskOf(t).kind = t.kind
        /\ AskOf(t).from = t.from /\ AskOf(t) # Register!Idle
    BY <2>1, AskFacts
  <2>6. SaysNow' = [SaysNow EXCEPT ![t.path] = t.next]
    BY <2>2, <2>3, <2>4 DEF SaysNow, IInv, SInv, Types
  <2>7. AskOf(task'[w]) = Register!Idle BY <2>3 DEF AskOf, Register!Idle
  <2>8. AskedNow' = [AskedNow EXCEPT ![w] = Register!Idle] BY <2>3, <2>7, AskedFacts
  <2>9. t.kind = "swap" => SaysNow[t.path] = t.from
    <3>1. t.over \in {Anything, chain[t.path]} BY <2>1 DEF IInv, SInv, Locked
    <3>2. t.kind = "swap" => SaidBy(chain[t.path]) = t.from BY <2>2, <3>1 DEF DecidesWell
    <3> QED BY <2>2, <3>2 DEF SaysNow
  <2> HIDE DEF t
  <2>10. /\ AskedNow[w] # Register!Idle
         /\ AskedNow[w].kind = "swap" => SaysNow[AskedNow[w].path] = AskedNow[w].from
         /\ SaysNow' = [SaysNow EXCEPT ![AskedNow[w].path] = AskedNow[w].next]
         /\ AskedNow' = [AskedNow EXCEPT ![w] = Register!Idle]
    BY <1>1, <2>5, <2>6, <2>8, <2>9
  <2>11. Register!Land(w) BY <2>10 DEF Register!Land, SaysNow, AskedNow, AskOf
  <2> QED BY <2>11 DEF RegisterStep, Register!Next
<1>8. CASE RemoveSegment(w)
  <2>1. t.pc = "clear" BY <1>8 DEF RemoveSegment
  <2>2. task'[w].pc = "clear" /\ Others(w) /\ UNCHANGED chain BY <1>8, RemoveSegmentKeeps
  <2>3. AskOf(task'[w]) = AskOf(t) BY <2>1, <2>2 DEF AskOf
  <2> QED BY <1>2, <2>2, <2>3
<1>9. CASE Leave(w) BY <1>3, <1>9, LeaveKeeps
<1>10. CASE Die(w) BY <1>3, <1>10, DieKeeps
<1> QED BY <1>4, <1>5, <1>6, <1>7, <1>8, <1>9, <1>10 DEF Steps

LEMMA InitRegisters == Parameters /\ Init => Register!Init
<1> SUFFICES ASSUME Parameters, Init PROVE Register!Init OBVIOUS
<1>1. IInv BY InitInvariant
<1>2. \A s \in Seq(Layer) : Says(s) \in Content BY SaysType
<1>3. \A p \in Paths : SaidBy(chain[p]) \in Content \cup {Nothing}
  BY <1>1, <1>2 DEF IInv, SInv, Types, Formed, Chain, SaidBy
<1>4. \A w \in Writers : AskOf(task[w]) = Register!Idle BY Kinds DEF Init, AskOf, Register!Idle
<1> QED BY <1>3, <1>4 DEF Register!Init, AskOf

(* The indexes implement IndexRegister: what lands is what its writer meant *)
(* the index to say, and an update, a readying or a seed lands only on what *)
(* it read.                                                                 *)
THEOREM IndexesRegister == Parameters /\ Spec => IndexesAreRegisters
<1> SUFFICES ASSUME Parameters PROVE Spec => Register!Spec BY DEF IndexesAreRegisters
<1>1. Init => IInv /\ Register!Init BY InitInvariant, InitRegisters
<1>2. IInv /\ [Next]_vars => IInv' BY NextInvariant
<1>3. IInv /\ IInv' /\ [Next]_vars => RegisterStep
  <2> SUFFICES ASSUME IInv, IInv', [Next]_vars PROVE RegisterStep OBVIOUS
  <2>1. CASE \E w \in Writers : Open(w) \/ OpenSeed(w) \/ Proceed(w) \/ Die(w)
    BY <2>1, Step, StepRegisters
  <2>2. ASSUME UNCHANGED <<chain, task>> PROVE RegisterStep
    BY <2>2 DEF RegisterStep, SaysNow, AskedNow
  <2>3. CASE \E p \in Paths : Lose(p) BY <2>2, <2>3, LoseKeeps
  <2>4. CASE UNCHANGED vars BY <2>2, <2>4 DEF vars
  <2> QED BY <2>1, <2>3, <2>4 DEF Next
<1> QED BY <1>1, <1>2, <1>3, PTL DEF Spec, Register!Spec, RegisterStep, SaysNow, AskedNow, AskOf
=============================================================================
