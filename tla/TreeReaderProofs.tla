-------------------------- MODULE TreeReaderProofs --------------------------
(***************************************************************************)
(* What a reader of a changing tree can be sure of: the theorems about     *)
(* SourceCapture and ReadbackAudit, for trees, paths, files and sequences  *)
(* of changes of every size.                                               *)
(*                                                                         *)
(* Paths first: where a sequence of names leads is defined by recursion    *)
(* on its length, and what is needed of it is proved by induction, said    *)
(* of sets of numbers.  Then the tree: what any one change leaves alone.   *)
(* Then the two calls, each with its inductive invariant (CaptureInv and   *)
(* AuditInv), one lemma for each of its steps and one for the changes      *)
(* others make meanwhile.  Both invariants say that what was opened is in  *)
(* its place or is known to have gone from it; that a file which bears the *)
(* stamp it was opened with reads as it is; and that on a path nobody has  *)
(* disturbed everything is as it was when it was opened.                   *)
(***************************************************************************)
EXTENDS SourceCapture, ReadbackAudit, WellFoundedInduction, TLAPS

-----------------------------------------------------------------------------
(* Induction on natural numbers, said of sets. *)

LEMMA LeastNatural ==
  ASSUME NEW S \in SUBSET Nat, S # {}
  PROVE  \E m \in S : \A k \in S : m <= k
<1>1. \A k, m \in Nat : k < m => <<k, m>> \in OpToRel(<, Nat)
  BY DEF OpToRel
<1>2. \E R : IsWellFoundedOn(R, Nat) /\ \A k, m \in Nat : k < m => <<k, m>> \in R
  BY <1>1, NatLessThanWellFounded, Zenon
<1>3. PICK R : IsWellFoundedOn(R, Nat) /\ \A k, m \in Nat : k < m => <<k, m>> \in R
  BY <1>2, Zenon
<1>4. \E m \in S : \A k \in S : ~ (<<k, m>> \in R)
  <2>1. IsWellFoundedOn(R, Nat) /\ S \subseteq Nat /\ S # {}
    BY <1>3, Zenon
  <2> QED
    BY <2>1, WFMin, Zenon
<1>5. PICK m \in S : \A k \in S : ~ (<<k, m>> \in R)
  BY <1>4, Zenon
<1>6. ASSUME NEW k \in S PROVE m <= k
  <2>1. ~ (k < m)
    BY <1>3, <1>5, Zenon
  <2> QED
    BY <2>1
<1> QED
  BY <1>6, Zenon

LEMMA SetInduction ==
  ASSUME NEW S, 0 \in S, \A n \in Nat : n \in S => n + 1 \in S
  PROVE  Nat \subseteq S
<1> SUFFICES ASSUME Nat \ S # {} PROVE FALSE
  OBVIOUS
<1>1. PICK m \in Nat \ S : \A k \in Nat \ S : m <= k
  BY LeastNatural
<1>2. m # 0 /\ m - 1 \in Nat /\ m - 1 \in S
  BY <1>1
<1> QED
  BY <1>1, <1>2

-----------------------------------------------------------------------------
(* Paths.  The inodes a path leads through, in a tree with the entries e.  *)

NameIn(e, d, n) == IF <<d, n>> \in Slot THEN e[<<d, n>>] ELSE Nothing

Below(e, i, n) == IF i \in Folder \cup {Outside} THEN NameIn(e, i, n) ELSE Nothing

IsWalk(e, path, g) ==
  g = [k \in 0..Len(path) |->
         IF k = 0 THEN Outside ELSE Below(e, g[k - 1], path[k])]

(* Leads, for any entries. *)
EndOf(e, path) == (CHOOSE g : IsWalk(e, path, g))[Len(path)]

LEMMA EndOfEntry ==
  ASSUME NEW path
  PROVE  /\ Leads(path) = EndOf(entry, path)
         /\ Leads(path)' = EndOf(entry', path)
<1>1. Leads(path) = EndOf(entry, path)
  BY DEF Leads, EndOf, IsWalk, Below, NameIn, Named
<1>2. Leads(path)' = EndOf(entry', path)
  BY DEF Leads, EndOf, IsWalk, Below, NameIn, Named
<1> QED
  BY <1>1, <1>2

LEMMA WalkExists ==
  ASSUME NEW e, NEW path \in Seq(STRING)
  PROVE  \E g : IsWalk(e, path, g)
<1> DEFINE Part(n, g) == g = [k \in 0..n |->
                IF k = 0 THEN Outside ELSE Below(e, g[k - 1], path[k])]
           S == {n \in Nat : \E g : Part(n, g)}
<1>1. 0 \in S
  <2>1. Part(0, [k \in 0..0 |-> Outside])
    OBVIOUS
  <2> QED
    BY <2>1, Zenon
<1>2. ASSUME NEW n \in Nat, n \in S PROVE n + 1 \in S
  <2>1. PICK g : Part(n, g)
    BY <1>2
  <2> DEFINE h == [k \in 0..n+1 |->
                     IF k = n + 1 THEN Below(e, g[n], path[n + 1]) ELSE g[k]]
  <2>2. \A k \in 0..n : h[k] = g[k]
    OBVIOUS
  <2>3. \A k \in 0..n : g[k] = IF k = 0 THEN Outside ELSE Below(e, g[k - 1], path[k])
    BY <2>1
  <2>4. \A k \in 0..n+1 :
          h[k] = IF k = 0 THEN Outside ELSE Below(e, h[k - 1], path[k])
    <3> SUFFICES ASSUME NEW k \in 0..n+1
                 PROVE  h[k] = IF k = 0 THEN Outside ELSE Below(e, h[k - 1], path[k])
      OBVIOUS
    <3>1. CASE k = n + 1
      <4>1. h[k] = Below(e, g[n], path[n + 1]) /\ h[n] = g[n] /\ k - 1 = n /\ k # 0
        BY <3>1
      <4> HIDE DEF h
      <4> QED
        BY <4>1, <3>1
    <3>2. CASE k \in 1..n
      <4>1. h[k] = g[k] /\ h[k - 1] = g[k - 1] /\ k # 0
        BY <3>2
      <4> HIDE DEF h
      <4> QED
        BY <4>1, <3>2, <2>3
    <3>3. CASE k = 0
      <4>1. h[0] = g[0] /\ g[0] = Outside
        BY <2>2, <2>3
      <4> QED
        BY <4>1, <3>3
    <3> QED
      BY <3>1, <3>2, <3>3
  <2>5. Part(n + 1, h)
    <3> DEFINE f == [k \in 0..n+1 |->
                IF k = 0 THEN Outside ELSE Below(e, h[k - 1], path[k])]
    <3>1. DOMAIN h = 0..n+1 /\ h = [k \in DOMAIN h |-> h[k]]
      OBVIOUS
    <3> HIDE DEF h
    <3> QED
      BY <3>1, <2>4
  <2>6. \E f : Part(n + 1, f)
    <3> HIDE DEF h, Part
    <3> QED
      BY <2>5, Zenon
  <2>7. n + 1 \in Nat
    OBVIOUS
  <2> HIDE DEF Part
  <2> QED
    BY <2>6, <2>7
<1>3. Len(path) \in S
  <2> HIDE DEF S
  <2> QED
    BY <1>1, <1>2, SetInduction
<1> QED
  BY <1>3 DEF IsWalk

LEMMA WalkSteps ==
  ASSUME NEW e, NEW path \in Seq(STRING), NEW g, IsWalk(e, path, g)
  PROVE  /\ g[0] = Outside
         /\ \A k \in 1..Len(path) : g[k] = Below(e, g[k - 1], path[k])
<1>1. Len(path) \in Nat /\ 0 \in 0..Len(path)
  OBVIOUS
<1>2. \A k \in 0..Len(path) : g[k] = IF k = 0 THEN Outside ELSE Below(e, g[k - 1], path[k])
  BY DEF IsWalk
<1> QED
  BY <1>1, <1>2

(* A prefix leads where the path passes by. *)
LEMMA PrefixLeads ==
  ASSUME NEW e, NEW path \in Seq(STRING), NEW g, IsWalk(e, path, g),
         NEW k \in 0..Len(path)
  PROVE  EndOf(e, SubSeq(path, 1, k)) = g[k]
<1> DEFINE part == SubSeq(path, 1, k)
<1>1. part \in Seq(STRING) /\ Len(part) = k /\ \A j \in 1..k : part[j] = path[j]
  OBVIOUS
<1>2. PICK h : h = CHOOSE f : IsWalk(e, part, f)
  OBVIOUS
<1>3. IsWalk(e, part, h)
  <2> HIDE DEF part
  <2> QED
    BY <1>1, <1>2, WalkExists
<1> DEFINE S == {n \in Nat : n <= k => h[n] = g[n]}
<1> HIDE DEF part
<1>4. 0 \in S
  BY <1>1, <1>3, WalkSteps
<1>5. ASSUME NEW n \in Nat, n \in S PROVE n + 1 \in S
  <2> SUFFICES ASSUME n + 1 <= k PROVE h[n + 1] = g[n + 1]
    OBVIOUS
  <2>1. h[n] = g[n] /\ n + 1 \in 1..k /\ n + 1 \in 1..Len(path) /\ (n + 1) - 1 = n
    BY <1>5
  <2>2. h[n + 1] = Below(e, h[(n + 1) - 1], part[n + 1])
    BY <1>1, <1>3, <2>1, WalkSteps
  <2>3. g[n + 1] = Below(e, g[(n + 1) - 1], path[n + 1])
    BY <2>1, WalkSteps
  <2> QED
    BY <1>1, <2>1, <2>2, <2>3
<1>6. k \in S
  <2> HIDE DEF S
  <2> QED
    BY <1>4, <1>5, SetInduction
<1>7. h[k] = g[k]
  BY <1>6
<1> QED
  BY <1>1, <1>2, <1>7 DEF EndOf, part

(* A path that ends at a file passes through directories only. *)
LEMMA FoldersOnTheWay ==
  ASSUME NEW e, NEW path \in Seq(STRING), NEW g, IsWalk(e, path, g),
         g[Len(path)] \in File, NEW k \in 1..Len(path)
  PROVE  /\ g[k - 1] \in Folder \cup {Outside}
         /\ g[k] = NameIn(e, g[k - 1], path[k])
<1> DEFINE S == {n \in Nat : k <= n /\ n <= Len(path) => g[n] = Nothing}
<1>1. SUFFICES ASSUME g[k - 1] \notin Folder \cup {Outside} PROVE FALSE
  BY WalkSteps DEF Below
<1>2. 0 \in S
  OBVIOUS
<1>3. ASSUME NEW n \in Nat, n \in S PROVE n + 1 \in S
  <2> SUFFICES ASSUME k <= n + 1, n + 1 <= Len(path) PROVE g[n + 1] = Nothing
    OBVIOUS
  <2>1. g[n + 1] = Below(e, g[(n + 1) - 1], path[n + 1]) /\ (n + 1) - 1 = n
    <3>1. n + 1 \in 1..Len(path)
      OBVIOUS
    <3> QED
      BY <3>1, WalkSteps
  <2>2. g[n] \notin Folder \cup {Outside}
    <3>1. CASE k <= n
      <4>1. g[n] = Nothing
        BY <3>1, <1>3
      <4> QED
        BY <4>1, TreeAssumption DEF Inode
    <3>2. CASE k = n + 1
      BY <3>2, <1>1
    <3> QED
      BY <3>1, <3>2
  <2> QED
    BY <2>1, <2>2 DEF Below
<1>4. Len(path) \in S
  <2> HIDE DEF S
  <2> QED
    BY <1>2, <1>3, SetInduction
<1>5. g[Len(path)] = Nothing
  BY <1>4
<1> QED
  BY <1>5, TreeAssumption DEF Inode

(* A change of a slot that is not on the new walk did not move it. *)
LEMMA SameWalk ==
  ASSUME NEW e, NEW e2, NEW path \in Seq(STRING), NEW s,
         \A t \in Slot : t # s => e2[t] = e[t],
         NEW g, IsWalk(e, path, g), NEW g2, IsWalk(e2, path, g2),
         \A k \in 1..Len(path) : <<g2[k - 1], path[k]>> # s
  PROVE  \A k \in 0..Len(path) : g[k] = g2[k]
<1> DEFINE S == {n \in Nat : n <= Len(path) => g[n] = g2[n]}
<1>1. 0 \in S
  BY WalkSteps
<1>2. ASSUME NEW n \in Nat, n \in S PROVE n + 1 \in S
  <2> SUFFICES ASSUME n + 1 <= Len(path) PROVE g[n + 1] = g2[n + 1]
    OBVIOUS
  <2>1. g[n] = g2[n] /\ n + 1 \in 1..Len(path) /\ (n + 1) - 1 = n
    BY <1>2
  <2>2. /\ g[n + 1] = Below(e, g[n], path[n + 1])
        /\ g2[n + 1] = Below(e2, g2[n], path[n + 1])
        /\ <<g2[n], path[n + 1]>> # s
    BY <2>1, WalkSteps
  <2> QED
    BY <2>1, <2>2 DEF Below, NameIn
<1>3. Nat \subseteq S
  <2> HIDE DEF S
  <2> QED
    BY <1>1, <1>2, SetInduction
<1> QED
  BY <1>3

(* The same, of Leads. *)
LEMMA WholePrefix ==
  ASSUME NEW path \in Seq(STRING)
  PROVE  SubSeq(path, 1, Len(path)) = path
  OBVIOUS

LEMMA Walks ==
  ASSUME NEW e, NEW path \in Seq(STRING)
  PROVE  /\ EndOf(e, SubSeq(path, 1, 0)) = Outside
         /\ \A k \in 1..Len(path) :
              EndOf(e, SubSeq(path, 1, k))
                = Below(e, EndOf(e, SubSeq(path, 1, k - 1)), path[k])
         /\ EndOf(e, path) \in File =>
              \A k \in 1..Len(path) :
                /\ EndOf(e, SubSeq(path, 1, k - 1)) \in Folder \cup {Outside}
                /\ EndOf(e, SubSeq(path, 1, k))
                     = NameIn(e, EndOf(e, SubSeq(path, 1, k - 1)), path[k])
<1>1. PICK g : IsWalk(e, path, g)
  BY WalkExists
<1>2. \A k \in 0..Len(path) : EndOf(e, SubSeq(path, 1, k)) = g[k]
  BY <1>1, PrefixLeads
<1>3. EndOf(e, path) = g[Len(path)]
  <2>1. Len(path) \in 0..Len(path)
    OBVIOUS
  <2> QED
    BY <2>1, <1>2, WholePrefix
<1>4. 0 \in 0..Len(path) /\ \A k \in 1..Len(path) : k \in 0..Len(path) /\ k - 1 \in 0..Len(path)
  OBVIOUS
<1>5. EndOf(e, SubSeq(path, 1, 0)) = Outside
  BY <1>1, <1>2, <1>4, WalkSteps
<1>6. ASSUME NEW k \in 1..Len(path)
      PROVE  EndOf(e, SubSeq(path, 1, k))
               = Below(e, EndOf(e, SubSeq(path, 1, k - 1)), path[k])
  <2>1. g[k] = Below(e, g[k - 1], path[k])
    BY <1>1, WalkSteps
  <2> QED
    BY <2>1, <1>2, <1>4
<1>7. ASSUME EndOf(e, path) \in File, NEW k \in 1..Len(path)
      PROVE  /\ EndOf(e, SubSeq(path, 1, k - 1)) \in Folder \cup {Outside}
             /\ EndOf(e, SubSeq(path, 1, k))
                  = NameIn(e, EndOf(e, SubSeq(path, 1, k - 1)), path[k])
  <2>1. /\ g[k - 1] \in Folder \cup {Outside}
        /\ g[k] = NameIn(e, g[k - 1], path[k])
    BY <1>1, <1>3, <1>7, FoldersOnTheWay
  <2> QED
    BY <2>1, <1>2, <1>4
<1> QED
  BY <1>5, <1>6, <1>7

LEMMA SameWalks ==
  ASSUME NEW e, NEW e2, NEW path \in Seq(STRING), NEW s,
         \A t \in Slot : t # s => e2[t] = e[t],
         \A k \in 1..Len(path) : <<EndOf(e2, SubSeq(path, 1, k - 1)), path[k]>> # s
  PROVE  \A k \in 0..Len(path) :
           EndOf(e2, SubSeq(path, 1, k)) = EndOf(e, SubSeq(path, 1, k))
<1>1. PICK g : IsWalk(e, path, g)
  BY WalkExists
<1>2. PICK g2 : IsWalk(e2, path, g2)
  BY WalkExists
<1>3. \A k \in 0..Len(path) : EndOf(e, SubSeq(path, 1, k)) = g[k]
  BY <1>1, PrefixLeads
<1>4. \A k \in 0..Len(path) : EndOf(e2, SubSeq(path, 1, k)) = g2[k]
  BY <1>2, PrefixLeads
<1>5. \A k \in 1..Len(path) : <<g2[k - 1], path[k]>> # s
  <2>1. \A k \in 1..Len(path) : k - 1 \in 0..Len(path)
    OBVIOUS
  <2> QED
    BY <2>1, <1>4
<1>6. \A k \in 0..Len(path) : g[k] = g2[k]
  BY <1>1, <1>2, <1>5, SameWalk
<1> QED
  BY <1>3, <1>4, <1>6

-----------------------------------------------------------------------------
(* The tree. *)

LEMMA ContentIsSequence ==
  ASSUME NEW c \in Content
  PROVE  c \in Seq(Block) /\ Len(c) \in Nat
<1>1. PICK n \in 0..MaxBlocks : c \in [1..n -> Block]
  BY DEF Content
<1> QED
  BY <1>1

(* No change of the tree bears a stamp of the future; an inode has one     *)
(* name; and unless something has returned, no slot names what it named    *)
(* before.                                                                 *)
TreeInv ==
  /\ TreeTypeOK
  /\ \A i \in Inode : stamp[i] <= changes
  /\ \A s, t \in Slot : entry[s] = entry[t] /\ entry[s] # Nothing => s = t
  /\ returned \/ \A s \in Slot : <<s, entry[s]>> \notin pastNames

LEMMA TreeInitInv == TreeInit => TreeInv
<1> SUFFICES ASSUME TreeInit PROVE TreeInv
  OBVIOUS
<1>1. TreeTypeOK
  <2>1. 0 \in 0..MaxChanges
    BY TreeAssumption
  <2>2. entry \in [Slot -> Inode \cup {Nothing}] /\ content \in [File -> Content]
    BY TreeAssumption DEF TreeInit
  <2> QED
    BY <2>1, <2>2 DEF TreeInit, TreeTypeOK
<1>2. \A i \in Inode : stamp[i] <= changes
  BY DEF TreeInit
<1>3. \A s, t \in Slot : entry[s] = entry[t] /\ entry[s] # Nothing => s = t
  BY TreeAssumption DEF TreeInit
<1> QED
  BY <1>1, <1>2, <1>3 DEF TreeInit, TreeInv

LEMMA TouchedStamps ==
  ASSUME TreeInv, NEW I, changes < MaxChanges, changes' = changes + 1,
         stamp' = [i \in Inode |-> IF i \in I THEN changes' ELSE stamp[i]]
  PROVE  /\ changes' = changes + 1 /\ changes' \in 0..MaxChanges
         /\ stamp' \in [Inode -> 0..MaxChanges]
         /\ \A i \in Inode : /\ stamp'[i] <= changes'
                             /\ i \in I => stamp'[i] = changes + 1
                             /\ i \notin I => stamp'[i] = stamp[i]
                             /\ stamp'[i] = stamp[i] \/ stamp'[i] = changes + 1
<1>1. /\ changes \in 0..MaxChanges /\ changes < MaxChanges /\ changes' = changes + 1
      /\ stamp \in [Inode -> 0..MaxChanges] /\ MaxChanges \in Nat
      /\ \A i \in Inode : stamp[i] <= changes
  BY TreeAssumption DEF TreeInv, TreeTypeOK
<1>2. changes' \in 0..MaxChanges /\ changes + 1 \in 0..MaxChanges
  BY <1>1
<1>3. stamp' = [i \in Inode |-> IF i \in I THEN changes + 1 ELSE stamp[i]]
  BY <1>1
<1>4. stamp' \in [Inode -> 0..MaxChanges]
  BY <1>1, <1>2, <1>3
<1>5. ASSUME NEW i \in Inode
      PROVE  /\ stamp'[i] <= changes'
             /\ i \in I => stamp'[i] = changes + 1
             /\ i \notin I => stamp'[i] = stamp[i]
             /\ stamp'[i] = stamp[i] \/ stamp'[i] = changes + 1
  <2>1. stamp[i] <= changes /\ stamp[i] \in 0..MaxChanges
    BY <1>1
  <2>2. stamp'[i] = IF i \in I THEN changes + 1 ELSE stamp[i]
    BY <1>3
  <2> QED
    BY <2>1, <2>2, <1>1
<1> QED
  BY <1>1, <1>2, <1>4, <1>5

(* What a change of the tree leaves as it was, and what it tells. *)
Effects ==
  /\ changes' = changes + 1
  /\ \A i \in Inode : stamp'[i] = stamp[i] \/ stamp'[i] = changes + 1
  /\ pastNames \subseteq pastNames'
  /\ returned => returned'
  /\ \A s \in Slot : entry'[s] = entry[s] \/ <<s, entry[s]>> \in pastNames'
  /\ \A f \in File : content'[f] = content[f] \/ stamp'[f] = changes + 1

LEMMA ExchangeStep ==
  ASSUME TreeInv, NEW s \in Slot, NEW i \in Fits[s] \cup {Nothing}, Exchange(s, i)
  PROVE  TreeInv' /\ Effects
<1>1. i \in Inode \cup {Nothing}
  BY TreeAssumption
<1>2. /\ i # entry[s] /\ (i # Nothing => \A t \in Slot : entry[t] # i)
      /\ entry' = [entry EXCEPT ![s] = i]
      /\ pastNames' = pastNames \cup {<<s, entry[s]>>}
      /\ returned' = (returned \/ <<s, i>> \in pastNames)
      /\ content' = content /\ pastBytes' = pastBytes
  BY DEF Exchange
<1>3. /\ entry \in [Slot -> Inode \cup {Nothing}] /\ content \in [File -> Content]
      /\ pastNames \subseteq Slot \X (Inode \cup {Nothing})
      /\ pastBytes \subseteq File \X Content /\ returned \in BOOLEAN
      /\ \A t, u \in Slot : entry[t] = entry[u] /\ entry[t] # Nothing => t = u
      /\ returned \/ \A t \in Slot : <<t, entry[t]>> \notin pastNames
  BY DEF TreeInv, TreeTypeOK
<1>4. entry'[s] = i /\ \A t \in Slot : t # s => entry'[t] = entry[t]
  BY <1>2, <1>3
<1>5. \E I : /\ changes < MaxChanges /\ changes' = changes + 1
             /\ stamp' = [j \in Inode |-> IF j \in I THEN changes' ELSE stamp[j]]
  BY DEF Exchange, Touched
<1>6. /\ changes' = changes + 1 /\ changes' \in 0..MaxChanges
      /\ stamp' \in [Inode -> 0..MaxChanges]
      /\ \A j \in Inode : /\ stamp'[j] <= changes'
                          /\ stamp'[j] = stamp[j] \/ stamp'[j] = changes + 1
  BY <1>5, TouchedStamps
<1>7. TreeTypeOK'
  <2>1. entry' \in [Slot -> Inode \cup {Nothing}]
    BY <1>1, <1>2, <1>3
  <2>2. pastNames' \subseteq Slot \X (Inode \cup {Nothing})
    BY <1>2, <1>3
  <2>3. returned' \in BOOLEAN
    BY <1>2, <1>3
  <2> QED
    BY <2>1, <2>2, <2>3, <1>2, <1>3, <1>6 DEF TreeTypeOK
<1>8. ASSUME NEW t \in Slot, NEW u \in Slot, entry'[t] = entry'[u], entry'[t] # Nothing
      PROVE  t = u
  BY <1>8, <1>2, <1>3, <1>4
<1>9. returned' \/ \A t \in Slot : <<t, entry'[t]>> \notin pastNames'
  <2> SUFFICES ASSUME ~returned', NEW t \in Slot
               PROVE  <<t, entry'[t]>> \notin pastNames'
    OBVIOUS
  <2>1. ~returned /\ <<s, i>> \notin pastNames
    BY <1>2
  <2>2. <<t, entry[t]>> \notin pastNames
    BY <2>1, <1>3
  <2> QED
    BY <2>1, <2>2, <1>2, <1>4
<1>10. TreeInv'
  BY <1>6, <1>7, <1>8, <1>9 DEF TreeInv
<1>11. \A t \in Slot : entry'[t] = entry[t] \/ <<t, entry[t]>> \in pastNames'
  BY <1>2, <1>4
<1> QED
  BY <1>2, <1>6, <1>10, <1>11 DEF Effects

LEMMA RewriteStep ==
  ASSUME TreeInv, NEW f \in File, NEW c \in Content, Rewrite(f, c)
  PROVE  TreeInv' /\ Effects
<1>1. /\ Touched({f}) /\ content' = [content EXCEPT ![f] = c]
      /\ pastBytes' = pastBytes \cup {<<f, content[f]>>}
      /\ returned' = (returned \/ <<f, c>> \in pastBytes)
      /\ entry' = entry /\ pastNames' = pastNames
  BY DEF Rewrite
<1>2. /\ entry \in [Slot -> Inode \cup {Nothing}] /\ content \in [File -> Content]
      /\ pastNames \subseteq Slot \X (Inode \cup {Nothing})
      /\ pastBytes \subseteq File \X Content /\ returned \in BOOLEAN
  BY DEF TreeInv, TreeTypeOK
<1>3. /\ changes' = changes + 1 /\ changes' \in 0..MaxChanges
      /\ stamp' \in [Inode -> 0..MaxChanges]
      /\ \A j \in Inode : /\ stamp'[j] <= changes'
                          /\ stamp'[j] = stamp[j] \/ stamp'[j] = changes + 1
      /\ stamp'[f] = changes + 1
  <2>1. f \in Inode
    BY DEF Inode
  <2>2. /\ changes < MaxChanges /\ changes' = changes + 1
        /\ stamp' = [j \in Inode |-> IF j \in {f} THEN changes' ELSE stamp[j]]
    BY <1>1 DEF Touched
  <2> QED
    BY <2>1, <2>2, TouchedStamps
<1>4. TreeTypeOK'
  <2>1. content' \in [File -> Content] /\ content[f] \in Content
    BY <1>1, <1>2
  <2>2. pastBytes' \subseteq File \X Content
    BY <1>1, <1>2, <2>1
  <2>3. returned' \in BOOLEAN
    BY <1>1, <1>2
  <2> QED
    BY <2>1, <2>2, <2>3, <1>1, <1>2, <1>3 DEF TreeTypeOK
<1>5. TreeInv'
  <2>1. returned \/ \A s \in Slot : <<s, entry[s]>> \notin pastNames
    BY DEF TreeInv
  <2>2. returned' \/ \A s \in Slot : <<s, entry'[s]>> \notin pastNames'
    BY <2>1, <1>1
  <2>3. \A s, t \in Slot : entry'[s] = entry'[t] /\ entry'[s] # Nothing => s = t
    BY <1>1 DEF TreeInv
  <2> QED
    BY <2>2, <2>3, <1>3, <1>4 DEF TreeInv
<1>6. \A g \in File : content'[g] = content[g] \/ stamp'[g] = changes + 1
  BY <1>1, <1>2, <1>3
<1> QED
  BY <1>1, <1>3, <1>5, <1>6 DEF Effects

LEMMA ChangeStep ==
  ASSUME TreeInv, Change
  PROVE  TreeInv' /\ Effects
  BY ExchangeStep, RewriteStep DEF Change

(* The path p leads to a file, and neither an entry on it nor the file has *)
(* been changed.                                                           *)
Undisturbed(p) ==
  /\ Leads(p) \in File
  /\ \A x \in pastBytes : x[1] # Leads(p)
  /\ \A x \in pastNames, k \in 1..Len(p) : x[1] # OnPath(p, k)

(* The inode the first k names of p lead to.                               *)
Walk(p, k) == Leads(SubSeq(p, 1, k))

LEMMA WalkNow ==
  ASSUME TreeTypeOK, NEW p \in Seq(STRING), p # << >>, Leads(p) \in File
  PROVE  /\ Walk(p, 0) = Outside /\ Walk(p, Len(p)) = Leads(p)
         /\ \A k \in 1..Len(p) - 1 : Walk(p, k) \in Folder
         /\ \A k \in 1..Len(p) :
              /\ Walk(p, k) = Named(Walk(p, k - 1), p[k])
              /\ <<Walk(p, k - 1), p[k]>> \in Slot
              /\ OnPath(p, k) = <<Walk(p, k - 1), p[k]>>
<1>1. /\ Len(p) \in Nat \ {0} /\ Leads(p) = EndOf(entry, p)
      /\ \A k \in Nat : Walk(p, k) = EndOf(entry, SubSeq(p, 1, k))
  BY EndOfEntry DEF Walk
<1>2. /\ Walk(p, 0) = Outside /\ Walk(p, Len(p)) = Leads(p)
  BY <1>1, Walks, WholePrefix
<1>3. ASSUME NEW k \in 1..Len(p)
      PROVE  /\ Walk(p, k - 1) \in Folder \cup {Outside}
             /\ Walk(p, k) = Named(Walk(p, k - 1), p[k])
  <2>1. k \in Nat /\ k - 1 \in Nat
    OBVIOUS
  <2>2. /\ EndOf(entry, SubSeq(p, 1, k - 1)) \in Folder \cup {Outside}
        /\ EndOf(entry, SubSeq(p, 1, k))
             = NameIn(entry, EndOf(entry, SubSeq(p, 1, k - 1)), p[k])
    BY <1>1, Walks
  <2> QED
    BY <2>1, <2>2, <1>1 DEF NameIn, Named
<1>4. ASSUME NEW k \in 1..Len(p)
      PROVE  OnPath(p, k) = <<Walk(p, k - 1), p[k]>>
  BY DEF OnPath, Walk
<1>5. ASSUME NEW k \in 1..Len(p)
      PROVE  <<Walk(p, k - 1), p[k]>> \in Slot
  <2>1. Walk(p, k) # Nothing
    <3>1. CASE k = Len(p)
      BY <3>1, <1>2, TreeAssumption DEF Inode
    <3>2. CASE k # Len(p)
      <4>1. k + 1 \in 1..Len(p) /\ (k + 1) - 1 = k
        BY <3>2
      <4>2. Walk(p, (k + 1) - 1) \in Folder \cup {Outside}
        BY <4>1, <1>3
      <4> QED
        BY <4>1, <4>2, TreeAssumption DEF Inode
    <3> QED
      BY <3>1, <3>2
  <2> QED
    BY <2>1, <1>3 DEF Named
<1>6. ASSUME NEW k \in 1..Len(p) - 1
      PROVE  Walk(p, k) \in Folder
  <2>1. k \in 1..Len(p) /\ k + 1 \in 1..Len(p) /\ (k + 1) - 1 = k
    OBVIOUS
  <2>2. Walk(p, k) \in Folder \cup {Outside}
    <3>1. Walk(p, (k + 1) - 1) \in Folder \cup {Outside}
      BY <2>1, <1>3
    <3> QED
      BY <2>1, <3>1
  <2>3. Walk(p, k) = entry[<<Walk(p, k - 1), p[k]>>]
    BY <2>1, <1>3, <1>5 DEF Named
  <2>4. entry \in [Slot -> Inode \cup {Nothing}]
    BY DEF TreeTypeOK
  <2>5. Walk(p, k) \in Inode \cup {Nothing}
    BY <2>1, <2>3, <2>4, <1>5
  <2> QED
    BY <2>2, <2>5, TreeAssumption
<1> QED
  BY <1>2, <1>3, <1>4, <1>5, <1>6

(* If the path is undisturbed after a change, then the change was elsewhere. *)
LEMMA ChangeElsewhere ==
  ASSUME TreeInv, Change, NEW p \in Seq(STRING), p # << >>, Undisturbed(p)'
  PROVE  /\ Undisturbed(p)
         /\ Leads(p)' = Leads(p)
         /\ \A k \in 0..Len(p) : Walk(p, k)' = Walk(p, k)
         /\ stamp'[Leads(p)] = stamp[Leads(p)]
         /\ content'[Leads(p)] = content[Leads(p)]
<1>1. /\ Leads(p) = EndOf(entry, p) /\ Leads(p)' = EndOf(entry', p)
      /\ \A k \in Int : /\ Walk(p, k) = EndOf(entry, SubSeq(p, 1, k))
                        /\ Walk(p, k)' = EndOf(entry', SubSeq(p, 1, k))
                        /\ OnPath(p, k) = <<EndOf(entry, SubSeq(p, 1, k - 1)), p[k]>>
                        /\ OnPath(p, k)' = <<EndOf(entry', SubSeq(p, 1, k - 1)), p[k]>>
  BY EndOfEntry DEF Walk, OnPath
<1>2. /\ Leads(p)' \in File
      /\ \A x \in pastBytes' : x[1] # Leads(p)'
      /\ \A x \in pastNames', k \in 1..Len(p) : x[1] # OnPath(p, k)'
  BY DEF Undisturbed
<1>3. /\ TreeTypeOK /\ entry \in [Slot -> Inode \cup {Nothing}]
      /\ content \in [File -> Content] /\ Len(p) \in Nat \ {0}
  BY DEF TreeInv, TreeTypeOK
<1>4. /\ \A k \in 0..Len(p) :
           EndOf(entry', SubSeq(p, 1, k)) = EndOf(entry, SubSeq(p, 1, k))
      /\ pastNames \subseteq pastNames' /\ pastBytes \subseteq pastBytes'
  <2>1. CASE \E t \in Slot : \E i \in Fits[t] \cup {Nothing} : Exchange(t, i)
    <3>1. PICK t \in Slot : \E i \in Fits[t] \cup {Nothing} : Exchange(t, i)
      BY <2>1
    <3>2. PICK i \in Fits[t] \cup {Nothing} : Exchange(t, i)
      BY <3>1
    <3>3. /\ \A u \in Slot : u # t => entry'[u] = entry[u]
          /\ <<t, entry[t]>> \in pastNames' /\ <<t, entry[t]>>[1] = t
          /\ pastNames \subseteq pastNames' /\ pastBytes' = pastBytes
      BY <3>2, <1>3 DEF Exchange
    <3>4. ASSUME NEW k \in 1..Len(p)
          PROVE  <<EndOf(entry', SubSeq(p, 1, k - 1)), p[k]>> # t
      <4>1. OnPath(p, k)' = <<EndOf(entry', SubSeq(p, 1, k - 1)), p[k]>>
        BY <1>1
      <4>2. t # OnPath(p, k)'
        BY <3>3, <1>2
      <4> QED
        BY <4>1, <4>2
    <3> QED
      BY <3>3, <3>4, SameWalks
  <2>2. CASE \E f \in File, c \in Content : Rewrite(f, c)
    <3>1. entry' = entry /\ pastNames' = pastNames /\ pastBytes \subseteq pastBytes'
      BY <2>2 DEF Rewrite
    <3> QED
      BY <3>1
  <2> QED
    BY <2>1, <2>2 DEF Change
<1>5. /\ Leads(p)' = Leads(p) /\ Leads(p) \in File
      /\ \A k \in 0..Len(p) : Walk(p, k)' = Walk(p, k)
      /\ \A k \in 1..Len(p) : OnPath(p, k)' = OnPath(p, k)
  <2>1. Len(p) \in 0..Len(p) /\ \A k \in 1..Len(p) : k \in Int /\ k - 1 \in 0..Len(p)
    BY <1>3
  <2>2. EndOf(entry', p) = EndOf(entry, p)
    BY <2>1, <1>4, WholePrefix
  <2>3. ASSUME NEW k \in 1..Len(p) PROVE OnPath(p, k)' = OnPath(p, k)
    <3>1. EndOf(entry', SubSeq(p, 1, k - 1)) = EndOf(entry, SubSeq(p, 1, k - 1))
      BY <2>1, <1>4
    <3> QED
      BY <3>1, <2>1, <1>1
  <2>4. ASSUME NEW k \in 0..Len(p) PROVE Walk(p, k)' = Walk(p, k)
    BY <1>1, <1>4
  <2> QED
    BY <2>2, <2>3, <2>4, <1>1, <1>2
<1>8. Undisturbed(p)
  BY <1>2, <1>4, <1>5 DEF Undisturbed
<1>6. ASSUME \E s \in Slot : \E i \in Fits[s] \cup {Nothing} : Exchange(s, i)
      PROVE  stamp'[Leads(p)] = stamp[Leads(p)] /\ content'[Leads(p)] = content[Leads(p)]
  <2>1. PICK s \in Slot : \E i \in Fits[s] \cup {Nothing} : Exchange(s, i)
    BY <1>6
  <2>2. PICK i \in Fits[s] \cup {Nothing} : Exchange(s, i)
    BY <2>1
  <2>3. /\ content' = content /\ <<s, entry[s]>> \in pastNames'
        /\ i # Nothing => \A t \in Slot : entry[t] # i
        /\ stamp' = [j \in Inode |-> IF j \in {s[1], entry[s], i} \cap Inode
                                       THEN changes' ELSE stamp[j]]
    BY <2>2 DEF Exchange, Touched
  <2>4. PICK u \in Slot : u = OnPath(p, Len(p)) /\ entry[u] = Leads(p)
    <3>1. Len(p) \in 1..Len(p) /\ p # << >>
      BY <1>3
    <3>2. /\ Walk(p, Len(p)) = Named(Walk(p, Len(p) - 1), p[Len(p)])
          /\ <<Walk(p, Len(p) - 1), p[Len(p)]>> \in Slot
          /\ OnPath(p, Len(p)) = <<Walk(p, Len(p) - 1), p[Len(p)]>>
          /\ Walk(p, Len(p)) = Leads(p)
      BY <3>1, <1>3, <1>5, WalkNow
    <3> QED
      BY <3>2 DEF Named
  <2>5. u # s
    <3>1. Len(p) \in 1..Len(p) /\ <<s, entry[s]>>[1] = s
      BY <1>3
    <3> QED
      BY <3>1, <2>3, <2>4, <1>2, <1>5
  <2>6. Leads(p) \in Inode /\ Leads(p) # Nothing
    BY <1>5, TreeAssumption DEF Inode
  <2>7. Leads(p) # entry[s] /\ Leads(p) # i
    BY <2>3, <2>4, <2>5, <2>6 DEF TreeInv
  <2>8. Leads(p) # s[1]
    <3>1. s[1] \in Folder \cup {Outside}
      BY TreeAssumption
    <3> QED
      BY <3>1, <1>5, TreeAssumption DEF Inode
  <2> QED
    BY <2>3, <2>6, <2>7, <2>8
<1>7. ASSUME \E f \in File, c \in Content : Rewrite(f, c)
      PROVE  stamp'[Leads(p)] = stamp[Leads(p)] /\ content'[Leads(p)] = content[Leads(p)]
  <2>1. PICK f \in File, c \in Content : Rewrite(f, c)
    BY <1>7
  <2>2. /\ content' = [content EXCEPT ![f] = c] /\ <<f, content[f]>> \in pastBytes'
        /\ stamp' = [j \in Inode |-> IF j \in {f} THEN changes' ELSE stamp[j]]
    BY <2>1 DEF Rewrite, Touched
  <2>3. f # Leads(p)
    BY <2>2, <1>2, <1>5
  <2>4. Leads(p) \in Inode
    BY <1>5 DEF Inode
  <2> QED
    BY <2>2, <2>3, <2>4, <1>3, <1>5
<1>9. stamp'[Leads(p)] = stamp[Leads(p)] /\ content'[Leads(p)] = content[Leads(p)]
  BY <1>6, <1>7 DEF Change
<1> QED
  BY <1>5, <1>8, <1>9

(* A step that leaves the tree alone leaves all that is said of it alone.  *)
LEMMA TreeStays ==
  ASSUME UNCHANGED treeVars
  PROVE  /\ TreeInv => TreeInv'
         /\ RootEntry' = RootEntry
         /\ \A p : /\ Leads(p)' = Leads(p) /\ Undisturbed(p)' = Undisturbed(p)
                  /\ \A k : Walk(p, k)' = Walk(p, k)
<1>1. /\ entry' = entry /\ content' = content /\ stamp' = stamp /\ changes' = changes
      /\ pastNames' = pastNames /\ pastBytes' = pastBytes /\ returned' = returned
  BY DEF treeVars
<1>2. TreeInv => TreeInv'
  BY <1>1 DEF TreeInv, TreeTypeOK
<1>3. RootEntry' = RootEntry
  BY <1>1 DEF RootEntry, Named
<1>4. \A p : Leads(p)' = Leads(p)
  BY <1>1, EndOfEntry
<1>5. \A p, k : Walk(p, k)' = Walk(p, k)
  BY <1>4 DEF Walk
<1>6. \A p, k : OnPath(p, k)' = OnPath(p, k)
  BY <1>4 DEF OnPath
<1>7. \A p : Undisturbed(p)' = Undisturbed(p)
  BY <1>1, <1>4, <1>6 DEF Undisturbed
<1> QED
  BY <1>2, <1>3, <1>4, <1>5, <1>7

-----------------------------------------------------------------------------
(* Capturing a source. *)

(* The slot of the k-th component, below the inode that was opened.        *)
Place(k) == <<Parent(k), Path[k]>>

(* It has named the inode that was opened there, and then another.         *)
Gone(k) == <<Place(k), held[k]>> \in pastNames

Starting == {"validate", "openRoot"}
Opening == {"open", "verify"}
Closing == {"recheck", "requalify", "done"}

CaptureTypes ==
  /\ TreeInv
  /\ pc \in Starting \cup Opening \cup {"read"} \cup Closing \cup {"failed"}
  /\ held \in Seq(Inode) /\ Depth <= Last
  /\ \A k \in 1..Depth : held[k] \in IF k = Last THEN File ELSE Folder
  /\ buffer \in Seq(Block)
  /\ checked \in 0..Last
  /\ offered \subseteq Content
  /\ pc \in Starting => held = << >>
  /\ pc \in Opening => Depth >= 1
  /\ pc = "open" => Depth < Last
  /\ pc \in {"read"} \cup Closing => Depth = Last
  /\ pc \in Starting \cup Opening => buffer = << >>

(* The first directory held is the one that was validated. *)
RootKnown ==
  /\ pc = "openRoot" => root \in Folder \X (0..changes) \X {0}
  /\ held # << >> => held[1] = root[1]

(* What was opened is still in its place, or is known to have been there.  *)
OpenedInPlace == \A k \in 1..Depth : Entry(k) = held[k] \/ Gone(k)

(* While the file bears the stamp it was opened with, what has been read   *)
(* of it is how its content begins.                                        *)
ReadInPlace ==
  Depth = Last =>
    /\ before[1] = held[Last] /\ before[2] \in 0..changes
    /\ pc \in {"verify", "read"} /\ stamp[held[Last]] = before[2] =>
         /\ Len(buffer) <= Len(content[held[Last]])
         /\ \A j \in 1..Len(buffer) : buffer[j] = content[held[Last]][j]

(* What was read was there, or a component not checked since had moved.    *)
ReadWasThere ==
  /\ Offer(Leads(Path), content) \subseteq offered
  /\ pc \in Closing /\ before = after =>
       buffer \in offered \/ returned
         \/ \E k \in 1..Last : (k = 1 \/ k > checked) /\ Gone(k)
  /\ pc \in {"requalify", "done"} => before = after /\ checked = Last
  /\ pc = "done" => buffer \in offered \/ returned

(* On an undisturbed path, everything is as it was when it was opened.     *)
NothingMoved ==
  Undisturbed(Path) =>
    /\ \A k \in 1..Depth : held[k] = Walk(Path, k)
    /\ pc = "openRoot" => /\ root[1] = RootEntry
                          /\ root = State(RootEntry) \/ stamp[RootEntry] > 0
    /\ Depth = Last => before = State(held[Last])
    /\ pc \in Closing => after = before /\ Len(buffer) = Size(held[Last])
    /\ pc = "failed" => held = << >> /\ stamp[RootEntry] > 0

CaptureInv ==
  /\ CaptureTypes
  /\ RootKnown
  /\ OpenedInPlace
  /\ ReadInPlace
  /\ ReadWasThere
  /\ NothingMoved

LEMMA PathFacts ==
  /\ Path \in Seq(STRING) /\ Path # << >>
  /\ Last \in Nat /\ Last >= 2 /\ Last = Len(Path)
  /\ Path[1] = RootName
<1>1. RelativePath \in Seq(STRING) /\ RelativePath # << >>
  BY PathAssumption
<1>2. Len(RelativePath) \in Nat \ {0}
  BY <1>1
<1>3. RootName \in STRING
  BY RootAssumption
<1>4. Path \in Seq(STRING) /\ Len(Path) = Len(RelativePath) + 1
  <2>1. <<RootName>> \in Seq(STRING) /\ Len(<<RootName>>) = 1
    <3>1. \A S : \A a \in S : <<a>> \in Seq(S)
      OBVIOUS
    <3>2. <<RootName>> \in Seq(STRING)
      BY <1>3, <3>1, Zenon
    <3> QED
      BY <3>2
  <2>2. \A S, a, b : a \in Seq(S) /\ b \in Seq(S) =>
          a \o b \in Seq(S) /\ Len(a \o b) = Len(a) + Len(b)
    OBVIOUS
  <2>3. <<RootName>> \o RelativePath \in Seq(STRING)
    BY <1>1, <2>1, <2>2, Zenon
  <2>4. Len(<<RootName>> \o RelativePath) = 1 + Len(RelativePath)
    BY <1>1, <2>1, <2>2
  <2> QED
    BY <1>2, <2>3, <2>4 DEF Path
<1>5. Path[1] = RootName
  BY <1>1, <1>3 DEF Path
<1>6. Last \in Nat /\ Last >= 2 /\ Path # << >>
  BY <1>2, <1>4 DEF Last
<1> QED
  BY <1>4, <1>5, <1>6 DEF Last

(* What the prime of a lookup means. *)
LEMMA EntryIs ==
  ASSUME NEW k
  PROVE  /\ Entry(k) = NameIn(entry, IF k = 1 THEN Outside ELSE held[k - 1], Path[k])
         /\ Entry(k)' = NameIn(entry', IF k = 1 THEN Outside ELSE held'[k - 1], Path[k])
         /\ Gone(k) <=> <<<<IF k = 1 THEN Outside ELSE held[k - 1], Path[k]>>, held[k]>> \in pastNames
         /\ Gone(k)' <=> <<<<IF k = 1 THEN Outside ELSE held'[k - 1], Path[k]>>, held'[k]>> \in pastNames'
  BY DEF Entry, Gone, Place, Parent, Named, NameIn

LEMMA RootIsEntry == RootEntry = Entry(1)
  BY PathFacts DEF RootEntry, Entry, Parent

(* If every component is in its place, the path leads to what was opened.  *)
LEMMA Reached ==
  ASSUME CaptureTypes, Depth = Last, \A k \in 1..Last : Entry(k) = held[k]
  PROVE  Leads(Path) = held[Last]
<1> DEFINE g == [k \in 0..Len(Path) |-> IF k = 0 THEN Outside ELSE held[k]]
<1>1. ASSUME NEW k \in 1..Len(Path)
      PROVE  held[k] = Below(entry, IF k = 1 THEN Outside ELSE held[k - 1], Path[k])
  <2>1. held[k] = NameIn(entry, IF k = 1 THEN Outside ELSE held[k - 1], Path[k])
    BY EntryIs, PathFacts
  <2>2. k # 1 => held[k - 1] \in Folder
    <3>1. k # 1 => k - 1 \in 1..Depth /\ k - 1 # Last
      BY PathFacts
    <3> QED
      BY <3>1 DEF CaptureTypes
  <2> QED
    BY <2>1, <2>2 DEF Below
<1>2. IsWalk(entry, Path, g)
  <2>1. \A k \in 0..Len(Path) :
          g[k] = IF k = 0 THEN Outside ELSE Below(entry, g[k - 1], Path[k])
    <3> SUFFICES ASSUME NEW k \in 1..Len(Path)
                 PROVE  g[k] = Below(entry, g[k - 1], Path[k])
      <4>1. g[0] = Outside
        BY PathFacts
      <4> HIDE DEF g
      <4> QED
        BY <4>1, PathFacts
    <3>1. g[k] = held[k] /\ g[k - 1] = IF k = 1 THEN Outside ELSE held[k - 1]
      BY PathFacts
    <3> QED
      BY <3>1, <1>1
  <2>2. g = [k \in 0..Len(Path) |-> g[k]]
    OBVIOUS
  <2> HIDE DEF g
  <2> QED
    BY <2>1, <2>2 DEF IsWalk
<1>3. EndOf(entry, SubSeq(Path, 1, Len(Path))) = g[Len(Path)]
  <2>1. Len(Path) \in 0..Len(Path)
    BY PathFacts
  <2> HIDE DEF g
  <2> QED
    BY <2>1, <1>2, PathFacts, PrefixLeads
<1>4. g[Len(Path)] = held[Last] /\ SubSeq(Path, 1, Len(Path)) = Path
  BY PathFacts, WholePrefix
<1>5. Leads(Path) = EndOf(entry, Path)
  BY EndOfEntry
<1> QED
  BY <1>3, <1>4, <1>5

(* A step of the call while the tree stays as it is.                       *)
TreeAtRest ==
  UNCHANGED treeVars /\ offered' = offered \cup Offer(Leads(Path)', content')

LEMMA AtRest ==
  ASSUME CaptureInv, TreeAtRest
  PROVE  /\ entry' = entry /\ content' = content /\ stamp' = stamp
         /\ changes' = changes /\ pastNames' = pastNames /\ returned' = returned
         /\ TreeInv' /\ RootEntry' = RootEntry
         /\ offered' \subseteq Content /\ offered \subseteq offered'
         /\ Offer(Leads(Path), content)' \subseteq offered'
         /\ Undisturbed(Path)' = Undisturbed(Path)
         /\ \A k : Walk(Path, k)' = Walk(Path, k)
         /\ held' = held => \A k : Entry(k)' = Entry(k) /\ Gone(k)' = Gone(k)
<1>1. /\ entry' = entry /\ content' = content /\ stamp' = stamp
      /\ changes' = changes /\ pastNames' = pastNames /\ returned' = returned
  BY DEF TreeAtRest, treeVars
<1>2. /\ TreeInv' /\ RootEntry' = RootEntry
      /\ Undisturbed(Path)' = Undisturbed(Path)
      /\ \A k : Walk(Path, k)' = Walk(Path, k)
  BY TreeStays DEF TreeAtRest, CaptureInv, CaptureTypes
<1>3. Offer(Leads(Path), content)' \subseteq offered' /\ offered \subseteq offered'
  BY DEF TreeAtRest, Offer
<1>4. offered' \subseteq Content
  <2>1. offered \subseteq Content /\ content' \in [File -> Content]
    BY <1>1 DEF CaptureInv, CaptureTypes, TreeInv, TreeTypeOK
  <2>2. Offer(Leads(Path)', content') \subseteq Content
    BY <2>1 DEF Offer
  <2> QED
    BY <2>1, <2>2 DEF TreeAtRest
<1>5. held' = held => \A k : Entry(k)' = Entry(k) /\ Gone(k)' = Gone(k)
  BY <1>1 DEF Entry, Gone, Place, Parent, Named
<1> QED
  BY <1>1, <1>2, <1>3, <1>4, <1>5

(* On an undisturbed path, the next component is the one to be opened.     *)
LEMMA NextOnWalk ==
  ASSUME CaptureTypes, NothingMoved, Undisturbed(Path)
  PROVE  /\ RootEntry = Walk(Path, 1) /\ RootEntry \in Folder
         /\ \A k \in 1..Last : k <= Depth + 1 =>
              /\ Entry(k) = Walk(Path, k)
              /\ Walk(Path, k) \in IF k = Last THEN File ELSE Folder
<1>1. Path \in Seq(STRING) /\ Path # << >> /\ Leads(Path) \in File /\ TreeTypeOK
  BY PathFacts DEF Undisturbed, CaptureTypes, TreeInv
<1>2. /\ Walk(Path, 0) = Outside /\ Walk(Path, Last) = Leads(Path)
      /\ \A k \in 1..Last - 1 : Walk(Path, k) \in Folder
      /\ \A k \in 1..Last : Walk(Path, k) = Named(Walk(Path, k - 1), Path[k])
  BY <1>1, WalkNow DEF Last
<1>3. Depth \in Nat /\ \A k \in 1..Depth : held[k] = Walk(Path, k)
  BY DEF CaptureTypes, NothingMoved, Depth
<1>4. ASSUME NEW k \in 1..Last, k <= Depth + 1
      PROVE  /\ Entry(k) = Walk(Path, k)
             /\ Walk(Path, k) \in IF k = Last THEN File ELSE Folder
  <2>1. Parent(k) = Walk(Path, k - 1)
    <3>1. CASE k = 1
      BY <3>1, <1>2 DEF Parent
    <3>2. CASE k # 1
      <4>1. k - 1 \in 1..Depth
        BY <3>2, <1>3, <1>4
      <4> QED
        BY <3>2, <4>1, <1>3 DEF Parent
    <3> QED
      BY <3>1, <3>2
  <2>2. Entry(k) = Walk(Path, k)
    BY <2>1, <1>2 DEF Entry
  <2>3. CASE k = Last
    BY <2>2, <2>3, <1>1, <1>2
  <2>4. CASE k # Last
    <3>1. k \in 1..Last - 1
      BY <2>4, PathFacts
    <3> QED
      BY <2>2, <2>4, <3>1, <1>2
  <2> QED
    BY <2>2, <2>3, <2>4
<1>5. RootEntry = Walk(Path, 1) /\ RootEntry \in Folder
  <2>1. 1 \in 1..Last /\ 1 <= Depth + 1 /\ 1 # Last
    BY <1>3, PathFacts
  <2> QED
    BY <2>1, <1>4, RootIsEntry
<1> QED
  BY <1>4, <1>5

LEMMA ValidateStep ==
  ASSUME CaptureInv, TreeAtRest, Validate
  PROVE  CaptureInv'
<1>1. /\ pc = "validate" /\ held = << >> /\ Depth = 0 /\ buffer = << >>
      /\ held' = held /\ before' = before /\ after' = after
      /\ buffer' = buffer /\ checked' = checked
      /\ root' = IF RootEntry \in Folder THEN State(RootEntry) ELSE Nothing
      /\ pc' = IF RootEntry \in Folder THEN "openRoot" ELSE "failed"
  BY DEF Validate, FailUnless, Goto, Fail, CaptureInv, CaptureTypes, Starting, Opening, Depth
<1>2. Depth' = 0 /\ 0 # Last
  BY <1>1, PathFacts DEF Depth
<1>3. CaptureTypes'
  BY <1>1, <1>2, AtRest DEF CaptureInv, CaptureTypes, Starting, Opening, Closing
<1>4. RootKnown'
  <2>1. ASSUME RootEntry \in Folder
        PROVE  State(RootEntry) \in Folder \X (0..changes) \X {0}
    <3>1. RootEntry \in Inode /\ RootEntry \notin File
      BY <2>1, TreeAssumption DEF Inode
    <3>2. stamp[RootEntry] \in 0..changes
      BY <3>1 DEF CaptureInv, CaptureTypes, TreeInv, TreeTypeOK
    <3> QED
      BY <2>1, <3>1, <3>2 DEF State, Size
  <2> QED
    BY <1>1, <2>1, AtRest DEF RootKnown
<1>5. OpenedInPlace' /\ ReadInPlace'
  BY <1>2 DEF OpenedInPlace, ReadInPlace
<1>6. ReadWasThere'
  BY <1>1, AtRest DEF ReadWasThere, Closing
<1>7. NothingMoved'
  <2> SUFFICES ASSUME Undisturbed(Path)'
               PROVE  /\ root'[1] = RootEntry' /\ root' = State(RootEntry)'
                      /\ pc' = "openRoot"
    BY <1>2 DEF NothingMoved, Closing
  <2>1. RootEntry \in Folder
    BY AtRest, NextOnWalk DEF CaptureInv
  <2>2. State(RootEntry)' = State(RootEntry)
    BY AtRest DEF State, Size
  <2> QED
    BY <1>1, <2>1, <2>2, AtRest DEF State
<1> QED
  BY <1>3, <1>4, <1>5, <1>6, <1>7 DEF CaptureInv

LEMMA OpenRootStep ==
  ASSUME CaptureInv, TreeAtRest, OpenRoot
  PROVE  CaptureInv'
<1>1. /\ pc = "openRoot" /\ held = << >> /\ Depth = 0 /\ buffer = << >>
      /\ root' = root /\ before' = before /\ after' = after
      /\ buffer' = buffer /\ checked' = checked
      /\ root \in Folder \X (0..changes) \X {0}
  BY DEF OpenRoot, CaptureInv, CaptureTypes, RootKnown, Starting, Opening, Depth
<1>2. CASE RootEntry \in Folder /\ State(RootEntry) = root
  <2>1. /\ held' = <<RootEntry>> /\ pc' = "open" /\ Depth' = 1 /\ 1 # Last
        /\ held'[1] = RootEntry /\ root[1] = RootEntry
    BY <1>2, PathFacts DEF OpenRoot, Goto, Depth, State
  <2>2. RootEntry \in Inode
    BY <1>2 DEF Inode
  <2>3. CaptureTypes'
    <3>1. Depth' <= Last /\ Depth' < Last /\ Depth' >= 1
      BY <2>1, PathFacts
    <3>2. held' \in Seq(Inode) /\ \A k \in 1..Depth' :
            held'[k] \in IF k = Last THEN File ELSE Folder
      BY <1>2, <2>1, <2>2
    <3> QED
      BY <1>1, <2>1, <3>1, <3>2, AtRest
      DEF CaptureInv, CaptureTypes, Starting, Opening, Closing
  <2>4. RootKnown'
    BY <1>1, <2>1 DEF RootKnown
  <2>5. OpenedInPlace'
    <3>1. Entry(1)' = NameIn(entry, Outside, Path[1])
      BY EntryIs, AtRest
    <3>2. Entry(1)' = RootEntry
      BY <3>1, PathFacts DEF RootEntry, Named, NameIn
    <3> QED
      BY <2>1, <3>2 DEF OpenedInPlace
  <2>6. ReadInPlace' /\ ReadWasThere'
    BY <2>1, AtRest DEF ReadInPlace, ReadWasThere, Closing
  <2>7. NothingMoved'
    <3> SUFFICES ASSUME Undisturbed(Path)'
                 PROVE  \A k \in 1..Depth' : held'[k] = Walk(Path, k)'
      BY <2>1 DEF NothingMoved, Closing
    <3>1. RootEntry = Walk(Path, 1)
      BY AtRest, NextOnWalk DEF CaptureInv
    <3> QED
      BY <2>1, <3>1, AtRest
  <2> QED
    BY <2>3, <2>4, <2>5, <2>6, <2>7 DEF CaptureInv
<1>3. CASE ~(RootEntry \in Folder /\ State(RootEntry) = root)
  <2>1. held' = held /\ pc' = "failed" /\ Depth' = 0 /\ 0 # Last
    BY <1>1, <1>3, PathFacts DEF OpenRoot, Fail, Depth
  <2>2. CaptureTypes'
    BY <1>1, <2>1, AtRest DEF CaptureInv, CaptureTypes, Starting, Opening, Closing
  <2>3. RootKnown' /\ OpenedInPlace' /\ ReadInPlace' /\ ReadWasThere'
    BY <1>1, <2>1, AtRest DEF RootKnown, OpenedInPlace, ReadInPlace, ReadWasThere, Closing
  <2>4. NothingMoved'
    <3> SUFFICES ASSUME Undisturbed(Path)'
                 PROVE  held' = << >> /\ stamp'[RootEntry'] > 0
      BY <2>1 DEF NothingMoved, Closing
    <3>1. RootEntry \in Folder
      BY AtRest, NextOnWalk DEF CaptureInv
    <3>2. root = State(RootEntry) \/ stamp[RootEntry] > 0
      BY <1>1, AtRest DEF CaptureInv, NothingMoved
    <3> QED
      BY <1>1, <1>3, <2>1, <3>1, <3>2, AtRest
  <2> QED
    BY <2>2, <2>3, <2>4 DEF CaptureInv
<1> QED
  BY <1>2, <1>3

(* Whatever a step does besides, the components stay where they are.       *)
LEMMA HeldStays ==
  ASSUME CaptureInv, TreeAtRest, held' = held, root' = root, pc' # "openRoot"
  PROVE  /\ Depth' = Depth /\ RootKnown' /\ OpenedInPlace'
         /\ Undisturbed(Path)' => Undisturbed(Path)
         /\ \A k \in 1..Depth :
              Undisturbed(Path) => held[k] = Walk(Path, k) /\ held[k] = Entry(k)
<1>1. Depth' = Depth /\ Undisturbed(Path)' = Undisturbed(Path)
  BY AtRest DEF Depth
<1>2. RootKnown'
  BY AtRest DEF CaptureInv, RootKnown
<1>3. OpenedInPlace'
  BY <1>1, AtRest DEF CaptureInv, OpenedInPlace
<1>4. ASSUME NEW k \in 1..Depth, Undisturbed(Path)
      PROVE  held[k] = Walk(Path, k) /\ held[k] = Entry(k)
  <2>1. k \in 1..Last /\ k <= Depth + 1
    BY PathFacts DEF CaptureInv, CaptureTypes, Depth
  <2>2. Entry(k) = Walk(Path, k)
    BY <2>1, <1>4, NextOnWalk DEF CaptureInv
  <2> QED
    BY <2>2, <1>4 DEF CaptureInv, NothingMoved
<1> QED
  BY <1>1, <1>2, <1>3, <1>4

(* The call ends in a refusal. *)
LEMMA RefusalStep ==
  ASSUME CaptureInv, TreeAtRest, pc' = "failed", ~Undisturbed(Path),
         held' = held, root' = root, buffer' = buffer, checked' = checked,
         before' = before
  PROVE  CaptureInv'
<1>1. /\ Depth' = Depth /\ RootKnown' /\ OpenedInPlace' /\ ~Undisturbed(Path)'
  BY HeldStays
<1>2. CaptureTypes'
  BY <1>1, AtRest DEF CaptureInv, CaptureTypes, Starting, Opening, Closing
<1>3. ReadInPlace' /\ ReadWasThere' /\ NothingMoved'
  BY <1>1, AtRest DEF CaptureInv, ReadInPlace, ReadWasThere, NothingMoved, Closing
<1> QED
  BY <1>1, <1>2, <1>3 DEF CaptureInv

LEMMA OpenDirectoryStep ==
  ASSUME CaptureInv, TreeAtRest, OpenDirectory
  PROVE  CaptureInv'
<1> DEFINE e == Entry(Depth + 1)
<1>1. /\ pc = "open" /\ Depth < Last - 1 /\ Depth \in Nat \ {0} /\ Last \in Nat
      /\ Depth + 1 \in 1..Last /\ Depth + 1 # Last /\ Depth + 1 # 1
      /\ buffer = << >> /\ held \in Seq(Inode)
      /\ root' = root /\ before' = before /\ after' = after
      /\ buffer' = buffer /\ checked' = checked
  BY PathFacts DEF OpenDirectory, CaptureInv, CaptureTypes, Opening, Depth
<1>2. CASE e \in Folder
  <2>1. held' = Append(held, e) /\ pc' = "verify"
    BY <1>2 DEF OpenDirectory, Goto
  <2>2. /\ Depth' = Depth + 1 /\ held' \in Seq(Inode) /\ held'[Depth + 1] = e
        /\ \A k \in 1..Depth : held'[k] = held[k]
    <3>1. e \in Inode
      BY <1>2 DEF Inode
    <3> HIDE DEF e
    <3> QED
      BY <2>1, <3>1, <1>1 DEF Depth
  <2>3. CaptureTypes'
    <3>1. \A k \in 1..Depth' : held'[k] \in IF k = Last THEN File ELSE Folder
      <4>1. \A k \in 1..Depth : held[k] \in IF k = Last THEN File ELSE Folder
        BY DEF CaptureInv, CaptureTypes
      <4> HIDE DEF e
      <4> QED
        BY <4>1, <2>2, <1>1, <1>2
    <3>2. /\ pc' = "verify" /\ held' \in Seq(Inode) /\ Depth' <= Last /\ Depth' >= 1
          /\ buffer' \in Seq(Block) /\ buffer' = << >> /\ checked' \in 0..Last
      BY <1>1, <2>1, <2>2 DEF CaptureInv, CaptureTypes
    <3>3. TreeInv' /\ offered' \subseteq Content
      BY AtRest
    <3> QED
      BY <3>1, <3>2, <3>3 DEF CaptureTypes, Starting, Opening, Closing
  <2>4. RootKnown'
    <3>1. held'[1] = held[1] /\ held # << >>
      BY <1>1, <2>2 DEF Depth
    <3> QED
      BY <1>1, <2>1, <3>1 DEF CaptureInv, RootKnown
  <2>5. OpenedInPlace'
    <3> SUFFICES ASSUME NEW k \in 1..Depth + 1
                 PROVE  Entry(k)' = held'[k] \/ Gone(k)'
      BY <2>2 DEF OpenedInPlace
    <3>1. k # 1 => held'[k - 1] = held[k - 1]
      <4>1. k # 1 => k - 1 \in 1..Depth
        BY <1>1
      <4> QED
        BY <4>1, <2>2
    <3>2. Entry(k)' = Entry(k)
      BY <3>1, EntryIs, AtRest
    <3>3. CASE k = Depth + 1
      BY <3>2, <3>3, <2>2
    <3>4. CASE k # Depth + 1
      <4>1. k \in 1..Depth /\ held'[k] = held[k]
        BY <3>4, <1>1, <2>2
      <4>2. Gone(k)' <=> Gone(k)
        BY <4>1, <3>1, EntryIs, AtRest
      <4> QED
        BY <4>1, <4>2, <3>2 DEF CaptureInv, OpenedInPlace
    <3> QED
      BY <3>3, <3>4
  <2>6. ReadInPlace' /\ ReadWasThere'
    BY <1>1, <2>1, <2>2, AtRest DEF ReadInPlace, ReadWasThere, Closing
  <2>7. NothingMoved'
    <3> SUFFICES ASSUME Undisturbed(Path)
                 PROVE  \A k \in 1..Depth + 1 : held'[k] = Walk(Path, k)
      BY <1>1, <2>1, <2>2, AtRest DEF NothingMoved, Closing
    <3>1. \A k \in 1..Depth : held[k] = Walk(Path, k)
      BY DEF CaptureInv, NothingMoved
    <3>2. e = Walk(Path, Depth + 1)
      BY <1>1, NextOnWalk DEF CaptureInv
    <3> HIDE DEF e
    <3> QED
      BY <3>1, <3>2, <2>2, <1>1
  <2> QED
    BY <2>3, <2>4, <2>5, <2>6, <2>7 DEF CaptureInv
<1>3. CASE e \notin Folder
  <2>1. pc' = "failed" /\ held' = held
    BY <1>3 DEF OpenDirectory, Fail
  <2>2. ~Undisturbed(Path)
    <3>1. Undisturbed(Path) => e \in Folder
      BY <1>1, NextOnWalk DEF CaptureInv
    <3> QED
      BY <3>1, <1>3
  <2> QED
    BY <1>1, <2>1, <2>2, RefusalStep
<1> QED
  BY <1>2, <1>3

LEMMA OpenFileStep ==
  ASSUME CaptureInv, TreeAtRest, OpenFile
  PROVE  CaptureInv'
<1> DEFINE e == Entry(Last)
<1>1. /\ pc = "open" /\ Depth = Last - 1 /\ Depth \in Nat \ {0} /\ Last \in Nat
      /\ Depth + 1 = Last /\ Last # 1 /\ Last \in 1..Last
      /\ buffer = << >> /\ held \in Seq(Inode)
      /\ root' = root /\ after' = after
      /\ buffer' = buffer /\ checked' = checked
  BY PathFacts DEF OpenFile, CaptureInv, CaptureTypes, Opening, Depth
<1>2. CASE e \in File
  <2>1. held' = Append(held, e) /\ pc' = "verify" /\ before' = State(e)
    <3>1. e \notin Folder
      BY <1>2, TreeAssumption
    <3> QED
      BY <1>2, <3>1 DEF OpenFile, Goto
  <2>2. /\ Depth' = Last /\ held' \in Seq(Inode) /\ held'[Last] = e
        /\ \A k \in 1..Depth : held'[k] = held[k]
    <3>1. e \in Inode
      BY <1>2 DEF Inode
    <3> HIDE DEF e
    <3> QED
      BY <2>1, <3>1, <1>1 DEF Depth
  <2>3. CaptureTypes'
    <3>1. \A k \in 1..Last : held'[k] \in IF k = Last THEN File ELSE Folder
      <4>1. \A k \in 1..Depth : held[k] \in IF k = Last THEN File ELSE Folder
        BY DEF CaptureInv, CaptureTypes
      <4> HIDE DEF e
      <4> QED
        BY <4>1, <2>2, <1>1, <1>2
    <3>2. /\ pc' = "verify" /\ held' \in Seq(Inode) /\ Depth' <= Last /\ Depth' >= 1
          /\ buffer' \in Seq(Block) /\ buffer' = << >> /\ checked' \in 0..Last
      BY <1>1, <2>1, <2>2 DEF CaptureInv, CaptureTypes
    <3>3. TreeInv' /\ offered' \subseteq Content
      BY AtRest
    <3> QED
      BY <2>1, <2>2, <3>1, <3>2, <3>3 DEF CaptureTypes, Starting, Opening, Closing
  <2>4. RootKnown'
    <3>1. held'[1] = held[1] /\ held # << >>
      BY <1>1, <2>2 DEF Depth
    <3> QED
      BY <1>1, <2>1, <3>1 DEF CaptureInv, RootKnown
  <2>5. OpenedInPlace'
    <3> SUFFICES ASSUME NEW k \in 1..Last
                 PROVE  Entry(k)' = held'[k] \/ Gone(k)'
      BY <2>2 DEF OpenedInPlace
    <3>1. k # 1 => held'[k - 1] = held[k - 1]
      <4>1. k # 1 => k - 1 \in 1..Depth
        BY <1>1
      <4> QED
        BY <4>1, <2>2
    <3>2. Entry(k)' = Entry(k)
      BY <3>1, EntryIs, AtRest
    <3>3. CASE k = Last
      BY <3>2, <3>3, <2>2
    <3>4. CASE k # Last
      <4>1. k \in 1..Depth /\ held'[k] = held[k]
        BY <3>4, <1>1, <2>2
      <4>2. Gone(k)' <=> Gone(k)
        BY <4>1, <3>1, EntryIs, AtRest
      <4> QED
        BY <4>1, <4>2, <3>2 DEF CaptureInv, OpenedInPlace
    <3> QED
      BY <3>3, <3>4
  <2>6. /\ e \in Inode /\ stamp[e] \in 0..changes /\ State(e) = <<e, stamp[e], Len(content[e])>>
    <3>1. e \in Inode
      BY <1>2 DEF Inode
    <3> HIDE DEF e
    <3> QED
      BY <3>1, <1>2 DEF CaptureInv, CaptureTypes, TreeInv, TreeTypeOK, State, Size
  <2>7. ReadInPlace'
    <3> HIDE DEF e
    <3>1. content'[e] \in Content
      BY <1>2, AtRest DEF TreeInv, TreeTypeOK
    <3>2. 0 <= Len(content'[e])
      BY <3>1, ContentIsSequence
    <3> QED
      BY <1>1, <2>1, <2>2, <2>6, <3>2, AtRest DEF ReadInPlace
  <2>8. ReadWasThere'
    BY <2>1, AtRest DEF ReadWasThere, Closing
  <2>9. NothingMoved'
    <3> SUFFICES ASSUME Undisturbed(Path)
                 PROVE  /\ \A k \in 1..Last : held'[k] = Walk(Path, k)
                        /\ before' = State(held[Last])'
      BY <1>1, <2>1, <2>2, AtRest DEF NothingMoved, Closing
    <3>1. \A k \in 1..Depth : held[k] = Walk(Path, k)
      BY DEF CaptureInv, NothingMoved
    <3>2. e = Walk(Path, Last)
      BY <1>1, NextOnWalk DEF CaptureInv
    <3>3. before' = State(held[Last])'
      <4> HIDE DEF e
      <4> QED
        BY <2>1, <2>2, AtRest DEF State, Size
    <3>4. ASSUME NEW k \in 1..Last PROVE held'[k] = Walk(Path, k)
      <4> HIDE DEF e
      <4>1. CASE k = Last
        BY <4>1, <3>2, <2>2
      <4>2. CASE k # Last
        <5>1. k \in 1..Depth
          BY <4>2, <1>1
        <5> QED
          BY <5>1, <3>1, <2>2
      <4> QED
        BY <4>1, <4>2
    <3> QED
      BY <3>3, <3>4
  <2> QED
    BY <2>3, <2>4, <2>5, <2>7, <2>8, <2>9 DEF CaptureInv
<1>3. CASE e \notin File
  <2>1. pc' = "failed" /\ held' = held /\ before' = before
    BY <1>3 DEF OpenFile, Fail
  <2>2. ~Undisturbed(Path)
    <3>1. Undisturbed(Path) => e \in File
      BY <1>1, NextOnWalk DEF CaptureInv
    <3> QED
      BY <3>1, <1>3
  <2> QED
    BY <1>1, <2>1, <2>2, RefusalStep
<1> QED
  BY <1>2, <1>3

LEMMA VerifyStep ==
  ASSUME CaptureInv, TreeAtRest, Verify
  PROVE  CaptureInv'
<1>1. /\ pc = "verify" /\ Depth \in 1..Last /\ Last \in Nat
      /\ held' = held /\ root' = root /\ before' = before /\ after' = after
      /\ buffer' = buffer /\ checked' = checked
  BY PathFacts DEF Verify, CaptureInv, CaptureTypes, Opening, Depth
<1>2. CASE Entry(Depth) = held[Depth]
  <2>1. pc' = IF Depth = Last THEN "read" ELSE "open"
    BY <1>2 DEF Verify, Goto
  <2>2. Depth' = Depth /\ RootKnown' /\ OpenedInPlace'
    BY <1>1, <2>1, HeldStays
  <2>3. CaptureTypes'
    BY <1>1, <2>1, <2>2, AtRest DEF CaptureInv, CaptureTypes, Starting, Opening, Closing
  <2>4. ReadInPlace'
    BY <1>1, <2>1, <2>2, AtRest DEF CaptureInv, ReadInPlace
  <2>5. ReadWasThere'
    BY <2>1, AtRest DEF ReadWasThere, Closing
  <2>6. NothingMoved'
    BY <1>1, <2>1, <2>2, AtRest DEF CaptureInv, NothingMoved, Closing, State, Size
  <2> QED
    BY <2>2, <2>3, <2>4, <2>5, <2>6 DEF CaptureInv
<1>3. CASE Entry(Depth) # held[Depth]
  <2>1. pc' = "failed"
    BY <1>3 DEF Verify, Fail
  <2>2. ~Undisturbed(Path)
    <3>1. Depth \in 1..Depth
      BY <1>1
    <3> QED
      BY <1>1, <1>3, <2>1, <3>1, HeldStays
  <2> QED
    BY <1>1, <2>1, <2>2, RefusalStep
<1> QED
  BY <1>2, <1>3

LEMMA ReadStep ==
  ASSUME CaptureInv, TreeAtRest, Read
  PROVE  CaptureInv'
<1> DEFINE c == content[held[Last]]
<1>1. /\ pc = "read" /\ pc' = "read" /\ Depth = Last /\ Last \in Nat /\ Last \in 1..Last
      /\ held' = held /\ root' = root /\ before' = before /\ after' = after
      /\ checked' = checked
      /\ Len(buffer) < Len(c) /\ buffer' = Append(buffer, c[Len(buffer) + 1])
  BY PathFacts DEF Read, CaptureInv, CaptureTypes
<1>2. c \in Seq(Block) /\ buffer \in Seq(Block)
  <2>1. held[Last] \in File /\ content \in [File -> Content]
    BY <1>1 DEF CaptureInv, CaptureTypes, TreeInv, TreeTypeOK
  <2>2. c \in Content
    BY <2>1
  <2> QED
    BY <2>2, ContentIsSequence DEF CaptureInv, CaptureTypes
<1>3. /\ buffer' \in Seq(Block) /\ Len(buffer') = Len(buffer) + 1
      /\ Len(buffer) + 1 <= Len(c) /\ Len(buffer) \in Nat
      /\ buffer'[Len(buffer) + 1] = c[Len(buffer) + 1]
      /\ \A j \in 1..Len(buffer) : buffer'[j] = buffer[j]
  <2> HIDE DEF c
  <2>1. Len(c) \in Nat /\ Len(buffer) \in Nat
    BY <1>2
  <2>2. Len(buffer) + 1 \in 1..Len(c)
    BY <1>1, <2>1
  <2>3. c[Len(buffer) + 1] \in Block
    BY <1>2, <2>2
  <2> QED
    BY <1>1, <1>2, <2>1, <2>2, <2>3
<1>4. Depth' = Depth /\ RootKnown' /\ OpenedInPlace'
  BY <1>1, HeldStays
<1>5. CaptureTypes'
  BY <1>1, <1>3, <1>4, AtRest DEF CaptureInv, CaptureTypes, Starting, Opening, Closing
<1>6. ReadInPlace'
  <2>1. /\ before[1] = held[Last] /\ before[2] \in 0..changes
        /\ stamp[held[Last]] = before[2] => \A j \in 1..Len(buffer) : buffer[j] = c[j]
    BY <1>1 DEF CaptureInv, ReadInPlace
  <2>2. ASSUME stamp[held[Last]] = before[2], NEW j \in 1..Len(buffer')
        PROVE  buffer'[j] = c[j]
    <3> HIDE DEF c
    <3>1. j \in 1..Len(buffer) \/ j = Len(buffer) + 1
      BY <1>3
    <3> QED
      BY <3>1, <2>1, <2>2, <1>3
  <2>3. content'[held'[Last]] = c /\ stamp' = stamp /\ changes' = changes
    BY <1>1, AtRest
  <2> HIDE DEF c
  <2> QED
    BY <1>1, <1>3, <2>1, <2>2, <2>3 DEF ReadInPlace
<1>7. ReadWasThere'
  BY <1>1, AtRest DEF ReadWasThere, Closing
<1>8. NothingMoved'
  BY <1>1, <1>4, AtRest DEF CaptureInv, NothingMoved, Closing, State, Size
<1> QED
  BY <1>4, <1>5, <1>6, <1>7, <1>8 DEF CaptureInv

(* A file that bears the stamp it was opened with has been read whole.     *)
LEMMA ReadWhole ==
  ASSUME CaptureInv, pc = "read", Len(buffer) >= Size(held[Last]),
         State(held[Last]) = before
  PROVE  buffer = content[held[Last]]
<1> DEFINE c == content[held[Last]]
<1>1. Depth = Last /\ Last \in 1..Last /\ held[Last] \in File
  BY PathFacts DEF CaptureInv, CaptureTypes
<1>2. c \in Seq(Block) /\ buffer \in Seq(Block)
  <2>1. c \in Content
    BY <1>1 DEF CaptureInv, CaptureTypes, TreeInv, TreeTypeOK
  <2> QED
    BY <2>1, ContentIsSequence DEF CaptureInv, CaptureTypes
<1>3. Len(buffer) >= Len(c) /\ before[2] = stamp[held[Last]]
  BY <1>1 DEF Size, State
<1>4. Len(buffer) <= Len(c) /\ \A j \in 1..Len(buffer) : buffer[j] = c[j]
  BY <1>1, <1>3 DEF CaptureInv, ReadInPlace
<1> HIDE DEF c
<1>5. Len(buffer) = Len(c)
  BY <1>2, <1>3, <1>4
<1>6. buffer = c
  BY <1>2, <1>4, <1>5
<1> QED
  BY <1>6 DEF c

LEMMA FinishStep ==
  ASSUME CaptureInv, TreeAtRest, Finish
  PROVE  CaptureInv'
<1>1. /\ pc = "read" /\ pc' = "recheck" /\ Depth = Last /\ Last \in Nat
      /\ Last \in 1..Last /\ Last >= 2 /\ held[Last] \in File
      /\ held' = held /\ root' = root /\ before' = before
      /\ buffer' = buffer /\ checked' = 1 /\ after' = State(held[Last])
      /\ Len(buffer) >= Size(held[Last])
  BY PathFacts DEF Finish, Goto, CaptureInv, CaptureTypes
<1>2. Depth' = Depth /\ RootKnown' /\ OpenedInPlace'
  BY <1>1, HeldStays
<1>3. CaptureTypes'
  BY <1>1, <1>2, AtRest DEF CaptureInv, CaptureTypes, Starting, Opening, Closing
<1>4. ReadInPlace'
  BY <1>1, <1>2, AtRest DEF CaptureInv, ReadInPlace
<1>5. ReadWasThere'
  <2>1. ASSUME before = after'
        PROVE  buffer \in offered \/ \E k \in 1..Last : Gone(k)
    <3>1. buffer = content[held[Last]]
      BY <1>1, <2>1, ReadWhole
    <3>2. CASE \A k \in 1..Last : Entry(k) = held[k]
      <4>1. Leads(Path) = held[Last]
        BY <1>1, <3>2, Reached DEF CaptureInv
      <4> QED
        BY <1>1, <3>1, <4>1 DEF CaptureInv, ReadWasThere, Offer
    <3>3. CASE \E k \in 1..Last : Entry(k) # held[k]
      BY <1>1, <3>3 DEF CaptureInv, OpenedInPlace
    <3> QED
      BY <3>2, <3>3
  <2>2. \A k \in 1..Last : (k = 1 \/ k > checked') /\ Gone(k)' = Gone(k)
    BY <1>1, AtRest
  <2> QED
    BY <1>1, <2>1, <2>2, AtRest DEF ReadWasThere, Closing
<1>6. NothingMoved'
  <2> SUFFICES ASSUME Undisturbed(Path)
               PROVE  /\ \A k \in 1..Depth : held[k] = Walk(Path, k)
                      /\ before = State(held[Last])
                      /\ Len(buffer) = Size(held[Last])
    BY <1>1, <1>2, AtRest DEF NothingMoved, Closing, State, Size
  <2>1. /\ \A k \in 1..Depth : held[k] = Walk(Path, k)
        /\ before = State(held[Last])
    BY <1>1 DEF CaptureInv, NothingMoved
  <2>2. buffer = content[held[Last]]
    BY <1>1, <2>1, ReadWhole
  <2> QED
    BY <1>1, <2>1, <2>2 DEF Size
<1> QED
  BY <1>2, <1>3, <1>4, <1>5, <1>6 DEF CaptureInv

(* A component that is in its place, and has been gone, has returned.      *)
LEMMA BackInPlace ==
  ASSUME CaptureInv, NEW k \in 1..Depth, Entry(k) = held[k], Gone(k)
  PROVE  returned
<1>1. held[k] \in Inode /\ held[k] # Nothing
  BY TreeAssumption DEF CaptureInv, CaptureTypes, Inode
<1>2. Place(k) \in Slot /\ entry[Place(k)] = held[k]
  BY <1>1 DEF Entry, Named, Place
<1> QED
  BY <1>2 DEF CaptureInv, CaptureTypes, TreeInv, Gone

LEMMA RecheckStep ==
  ASSUME CaptureInv, TreeAtRest, Recheck
  PROVE  CaptureInv'
<1>1. /\ pc = "recheck" /\ checked < Last /\ Depth = Last /\ Last \in Nat
      /\ checked \in 0..Last /\ checked + 1 \in 1..Depth /\ checked + 1 \in 0..Last
      /\ held' = held /\ root' = root /\ before' = before /\ after' = after
      /\ buffer' = buffer
  BY PathFacts DEF Recheck, CaptureInv, CaptureTypes, Closing
<1>2. CASE Entry(checked + 1) = held[checked + 1]
  <2>1. checked' = checked + 1 /\ pc' = pc
    BY <1>2 DEF Recheck
  <2>2. Depth' = Depth /\ RootKnown' /\ OpenedInPlace'
    BY <1>1, <2>1, HeldStays
  <2>3. CaptureTypes'
    BY <1>1, <2>1, <2>2, AtRest DEF CaptureInv, CaptureTypes, Starting, Opening, Closing
  <2>4. ReadInPlace'
    BY <1>1, <2>1, <2>2, AtRest DEF CaptureInv, ReadInPlace
  <2>5. ReadWasThere'
    <3>1. ASSUME NEW k \in 1..Last, k = 1 \/ k > checked, Gone(k), ~returned
          PROVE  k = 1 \/ k > checked + 1
      BY <3>1, <1>1, <1>2, BackInPlace
    <3>2. \A k : Gone(k)' = Gone(k)
      BY <1>1, AtRest
    <3> QED
      BY <1>1, <2>1, <3>1, <3>2, AtRest DEF CaptureInv, ReadWasThere
  <2>6. NothingMoved'
    BY <1>1, <2>1, <2>2, AtRest DEF CaptureInv, NothingMoved, Closing, State, Size
  <2> QED
    BY <2>2, <2>3, <2>4, <2>5, <2>6 DEF CaptureInv
<1>3. CASE Entry(checked + 1) # held[checked + 1]
  <2>1. pc' = "failed" /\ checked' = checked
    BY <1>3 DEF Recheck, Fail
  <2>2. ~Undisturbed(Path)
    BY <1>1, <1>3, <2>1, HeldStays
  <2> QED
    BY <1>1, <2>1, <2>2, RefusalStep
<1> QED
  BY <1>2, <1>3

LEMMA CompareStep ==
  ASSUME CaptureInv, TreeAtRest, Compare
  PROVE  CaptureInv'
<1>1. /\ pc = "recheck" /\ checked = Last /\ Depth = Last
      /\ held' = held /\ root' = root /\ before' = before /\ after' = after
      /\ buffer' = buffer /\ checked' = checked
  BY DEF Compare, CaptureInv, CaptureTypes, Closing
<1>2. CASE before = after /\ Len(buffer) = after[3]
  <2>1. pc' = "requalify"
    BY <1>2 DEF Compare, Goto
  <2>2. Depth' = Depth /\ RootKnown' /\ OpenedInPlace'
    BY <1>1, <2>1, HeldStays
  <2>3. CaptureTypes'
    BY <1>1, <2>1, <2>2, AtRest DEF CaptureInv, CaptureTypes, Starting, Opening, Closing
  <2>4. ReadInPlace'
    BY <1>1, <2>1, <2>2, AtRest DEF CaptureInv, ReadInPlace
  <2>5. ReadWasThere'
    <3>1. \A k : Gone(k)' = Gone(k)
      BY <1>1, AtRest
    <3> QED
      BY <1>1, <1>2, <2>1, <3>1, AtRest DEF CaptureInv, ReadWasThere, Closing
  <2>6. NothingMoved'
    BY <1>1, <2>1, <2>2, AtRest DEF CaptureInv, NothingMoved, Closing, State, Size
  <2> QED
    BY <2>2, <2>3, <2>4, <2>5, <2>6 DEF CaptureInv
<1>3. CASE ~(before = after /\ Len(buffer) = after[3])
  <2>1. pc' = "failed"
    BY <1>3 DEF Compare, Fail
  <2>2. ~Undisturbed(Path)
    <3> SUFFICES ASSUME Undisturbed(Path) PROVE FALSE
      OBVIOUS
    <3>1. /\ before = State(held[Last]) /\ after = before
          /\ Len(buffer) = Size(held[Last])
      BY <1>1 DEF CaptureInv, NothingMoved, Closing
    <3> QED
      BY <1>3, <3>1 DEF State
  <2> QED
    BY <1>1, <2>1, <2>2, RefusalStep
<1> QED
  BY <1>2, <1>3

LEMMA RequalifyRootStep ==
  ASSUME CaptureInv, TreeAtRest, RequalifyRoot
  PROVE  CaptureInv'
<1>1. /\ pc = "requalify" /\ checked = Last /\ Depth = Last /\ before = after
      /\ 1 \in 1..Depth /\ Last \in Nat
      /\ held' = held /\ root' = root /\ before' = before /\ after' = after
      /\ buffer' = buffer /\ checked' = checked
      /\ held[1] = root[1] /\ RootEntry = Entry(1)
  <2>1. held # << >> => held[1] = root[1]
    BY DEF CaptureInv, RootKnown
  <2>2. pc = "requalify" /\ checked = Last /\ Depth = Last /\ before = after
    BY DEF RequalifyRoot, CaptureInv, CaptureTypes, ReadWasThere, Closing
  <2>3. held # << >>
    BY <2>2, PathFacts DEF Depth
  <2> QED
    BY <2>1, <2>2, <2>3, PathFacts, RootIsEntry DEF RequalifyRoot
<1>2. CASE RootEntry = root[1]
  <2>1. pc' = "done"
    BY <1>2 DEF RequalifyRoot, FailUnless, Goto
  <2>2. Depth' = Depth /\ RootKnown' /\ OpenedInPlace'
    BY <1>1, <2>1, HeldStays
  <2>3. CaptureTypes'
    BY <1>1, <2>1, <2>2, AtRest DEF CaptureInv, CaptureTypes, Starting, Opening, Closing
  <2>4. ReadInPlace'
    BY <1>1, <2>1, <2>2, AtRest DEF CaptureInv, ReadInPlace
  <2>5. ReadWasThere'
    <3>1. buffer \in offered \/ returned
      <4>1. buffer \in offered \/ returned
              \/ \E k \in 1..Last : (k = 1 \/ k > checked) /\ Gone(k)
        BY <1>1 DEF CaptureInv, ReadWasThere, Closing
      <4>2. Gone(1) => returned
        BY <1>1, <1>2, BackInPlace
      <4> QED
        BY <4>1, <4>2, <1>1
    <3> QED
      BY <1>1, <2>1, <3>1, AtRest DEF ReadWasThere
  <2>6. NothingMoved'
    BY <1>1, <2>1, <2>2, AtRest DEF CaptureInv, NothingMoved, Closing, State, Size
  <2> QED
    BY <2>2, <2>3, <2>4, <2>5, <2>6 DEF CaptureInv
<1>3. CASE RootEntry # root[1]
  <2>1. pc' = "failed"
    BY <1>3 DEF RequalifyRoot, FailUnless, Fail
  <2>2. ~Undisturbed(Path)
    BY <1>1, <1>3, <2>1, HeldStays
  <2> QED
    BY <1>1, <2>1, <2>2, RefusalStep
<1> QED
  BY <1>2, <1>3

LEMMA RootOnWalk ==
  RootEntry = Walk(Path, 1) /\ RootEntry' = Walk(Path, 1)'
<1>1. /\ RootEntry = NameIn(entry, Outside, Path[1])
      /\ RootEntry' = NameIn(entry', Outside, Path[1])
  BY PathFacts DEF RootEntry, Named, NameIn
<1>2. /\ Walk(Path, 1) = EndOf(entry, SubSeq(Path, 1, 1))
      /\ Walk(Path, 1)' = EndOf(entry', SubSeq(Path, 1, 1))
  BY EndOfEntry DEF Walk
<1>3. 1 \in 1..Len(Path) /\ 1 - 1 = 0
  BY PathFacts
<1>4. \A e : EndOf(e, SubSeq(Path, 1, 1)) = NameIn(e, Outside, Path[1])
  <2> TAKE e
  <2>1. EndOf(e, SubSeq(Path, 1, 0)) = Outside
    BY PathFacts, Walks
  <2>2. EndOf(e, SubSeq(Path, 1, 1)) = Below(e, EndOf(e, SubSeq(Path, 1, 1 - 1)), Path[1])
    BY <1>3, PathFacts, Walks
  <2> QED
    BY <2>1, <2>2, <1>3 DEF Below
<1> QED
  BY <1>1, <1>2, <1>4

(* Other programs change the tree. *)
LEMMA TreeChanges ==
  ASSUME CaptureInv, Change, UNCHANGED readerVars,
         offered' = offered \cup Offer(Leads(Path)', content')
  PROVE  CaptureInv'
<1>1. /\ pc' = pc /\ held' = held /\ root' = root /\ before' = before
      /\ after' = after /\ buffer' = buffer /\ checked' = checked
      /\ Depth' = Depth
  BY DEF readerVars, Depth
<1>2. TreeInv /\ TreeTypeOK
  BY DEF CaptureInv, CaptureTypes, TreeInv
<1>3. TreeInv' /\ Effects
  BY <1>2, ChangeStep
<1>4. /\ changes' = changes + 1 /\ changes \in Nat
      /\ \A i \in Inode : stamp'[i] = stamp[i] \/ stamp'[i] = changes + 1
      /\ \A i \in Inode : stamp[i] \in Nat
      /\ pastNames \subseteq pastNames'
      /\ returned => returned'
      /\ \A s \in Slot : entry'[s] = entry[s] \/ <<s, entry[s]>> \in pastNames'
      /\ \A f \in File : content'[f] = content[f] \/ stamp'[f] = changes + 1
  BY <1>2, <1>3 DEF Effects, TreeTypeOK
<1>5. /\ offered \subseteq offered' /\ Offer(Leads(Path), content)' \subseteq offered'
      /\ offered' \subseteq Content
  <2>1. content' \in [File -> Content] /\ offered \subseteq Content
    BY <1>3 DEF TreeInv, TreeTypeOK, CaptureInv, CaptureTypes
  <2>2. Offer(Leads(Path)', content') \subseteq Content
    BY <2>1 DEF Offer
  <2> QED
    BY <2>1, <2>2 DEF Offer
<1>6. CaptureTypes'
  BY <1>1, <1>3, <1>5 DEF CaptureInv, CaptureTypes
<1>7. RootKnown'
  <2>1. 0..changes \subseteq 0..changes'
    BY <1>4
  <2> QED
    BY <2>1, <1>1 DEF CaptureInv, RootKnown
<1>8. \A k : Gone(k) => Gone(k)'
  BY <1>1, <1>4, EntryIs
<1>9. OpenedInPlace'
  <2> SUFFICES ASSUME NEW k \in 1..Depth, Entry(k) = held[k]
               PROVE  Entry(k)' = held[k] \/ Gone(k)'
    BY <1>1, <1>8 DEF CaptureInv, OpenedInPlace
  <2>1. held[k] # Nothing
    BY TreeAssumption DEF CaptureInv, CaptureTypes, Inode
  <2>2. Place(k) \in Slot /\ entry[Place(k)] = held[k]
    BY <2>1 DEF Entry, Named, Place
  <2>3. Entry(k)' = entry'[Place(k)]
    BY <1>1, <2>2 DEF Entry, Named, Place, Parent
  <2>4. Gone(k)' <=> <<Place(k), held[k]>> \in pastNames'
    BY <1>1 DEF Gone, Place, Parent
  <2> QED
    BY <2>2, <2>3, <2>4, <1>4
<1>10. ReadInPlace'
  <2> SUFFICES ASSUME Depth = Last
               PROVE  /\ before[1] = held[Last] /\ before[2] \in 0..changes'
                      /\ pc \in {"verify", "read"} /\ stamp'[held[Last]] = before[2] =>
                           /\ Len(buffer) <= Len(content'[held[Last]])
                           /\ \A j \in 1..Len(buffer) : buffer[j] = content'[held[Last]][j]
    BY <1>1 DEF ReadInPlace
  <2>1. /\ before[1] = held[Last] /\ before[2] \in 0..changes
        /\ pc \in {"verify", "read"} /\ stamp[held[Last]] = before[2] =>
             /\ Len(buffer) <= Len(content[held[Last]])
             /\ \A j \in 1..Len(buffer) : buffer[j] = content[held[Last]][j]
    BY DEF CaptureInv, ReadInPlace
  <2>2. held[Last] \in File /\ held[Last] \in Inode
    BY PathFacts DEF CaptureInv, CaptureTypes, Inode
  <2>3. before[2] \in 0..changes' /\ before[2] # changes + 1
    BY <2>1, <1>4
  <2>4. ASSUME stamp'[held[Last]] = before[2]
        PROVE  /\ stamp[held[Last]] = before[2]
               /\ content'[held[Last]] = content[held[Last]]
    BY <2>2, <2>3, <2>4, <1>4
  <2> QED
    BY <2>1, <2>3, <2>4
<1>11. ReadWasThere'
  BY <1>1, <1>4, <1>5, <1>8 DEF CaptureInv, ReadWasThere
<1>12. NothingMoved'
  <2> SUFFICES ASSUME Undisturbed(Path)' PROVE NothingMoved'
    BY DEF NothingMoved
  <2>1. /\ Undisturbed(Path)
        /\ \A k \in 0..Len(Path) : Walk(Path, k)' = Walk(Path, k)
        /\ stamp'[Leads(Path)] = stamp[Leads(Path)]
        /\ content'[Leads(Path)] = content[Leads(Path)]
    BY <1>2, PathFacts, ChangeElsewhere
  <2>2. RootEntry' = RootEntry /\ RootEntry \in Folder
    <3>1. 1 \in 0..Len(Path)
      BY PathFacts
    <3>2. RootEntry \in Folder
      BY <2>1, NextOnWalk DEF CaptureInv
    <3> QED
      BY <2>1, <3>1, <3>2, RootOnWalk
  <2>3. /\ RootEntry \in Inode /\ Size(RootEntry) = 0
        /\ State(RootEntry) = <<RootEntry, stamp[RootEntry], 0>>
        /\ State(RootEntry)' = <<RootEntry, stamp'[RootEntry], 0>>
        /\ stamp'[RootEntry] = stamp[RootEntry] \/ stamp'[RootEntry] > 0
        /\ stamp[RootEntry] > 0 => stamp'[RootEntry] > 0
    <3>1. RootEntry \in Inode /\ RootEntry \notin File
      BY <2>2, TreeAssumption DEF Inode
    <3>2. /\ stamp'[RootEntry] = stamp[RootEntry] \/ stamp'[RootEntry] > 0
          /\ stamp[RootEntry] > 0 => stamp'[RootEntry] > 0
      BY <3>1, <1>4
    <3> QED
      BY <2>2, <3>1, <3>2 DEF State, Size
  <2>4. \A k \in 1..Depth : held[k] = Walk(Path, k) /\ k \in 0..Len(Path)
    BY <2>1, PathFacts DEF CaptureInv, CaptureTypes, NothingMoved, Depth
  <2>5. ASSUME Depth = Last
        PROVE  /\ State(held[Last])' = State(held[Last])
               /\ Size(held[Last])' = Size(held[Last])
    <3>1. held[Last] = Leads(Path)
      <4>1. Walk(Path, Last) = Leads(Path)
        BY WholePrefix, PathFacts DEF Walk, Last
      <4> QED
        BY <4>1, <2>4, <2>5, PathFacts
    <3> QED
      BY <3>1, <2>1, <1>1 DEF State, Size
  <2>6. pc \in Closing => Depth = Last
    BY DEF CaptureInv, CaptureTypes
  <2> QED
    BY <2>1, <2>2, <2>3, <2>4, <2>5, <2>6, <1>1 DEF CaptureInv, NothingMoved
<1> QED
  BY <1>6, <1>7, <1>9, <1>10, <1>11, <1>12 DEF CaptureInv

LEMMA CaptureStarts == CaptureInit => CaptureInv
<1> SUFFICES ASSUME CaptureInit PROVE CaptureInv
  OBVIOUS
<1>1. /\ pc = "validate" /\ held = << >> /\ buffer = << >> /\ checked = 0
      /\ Depth = 0 /\ offered = Offer(Leads(Path), content)
  BY DEF CaptureInit, ReaderInit, Depth
<1>2. TreeInv
  BY TreeInitInv DEF CaptureInit
<1>3. Depth # Last /\ 0 \in 0..Last /\ Depth <= Last
  BY <1>1, PathFacts
<1>4. offered \subseteq Content
  BY <1>1, <1>2 DEF TreeInv, TreeTypeOK, Offer
<1>5. CaptureTypes
  BY <1>1, <1>2, <1>3, <1>4 DEF CaptureTypes, Starting, Opening, Closing
<1> QED
  BY <1>1, <1>3, <1>5
  DEF CaptureInv, RootKnown, OpenedInPlace, ReadInPlace, ReadWasThere, NothingMoved, Closing

LEMMA CaptureInductive == CaptureInv /\ [CaptureNext]_captureVars => CaptureInv'
<1> SUFFICES ASSUME CaptureInv, [CaptureNext]_captureVars PROVE CaptureInv'
  OBVIOUS
<1>1. CASE UNCHANGED captureVars
  <2>1. /\ UNCHANGED treeVars /\ offered' = offered /\ pc' = pc /\ held' = held
        /\ root' = root /\ before' = before /\ after' = after
        /\ buffer' = buffer /\ checked' = checked
    BY <1>1 DEF captureVars, readerVars
  <2>2. TreeAtRest
    <3>1. Leads(Path)' = Leads(Path) /\ content' = content
      BY <2>1, TreeStays DEF treeVars
    <3>2. Offer(Leads(Path), content) \subseteq offered
      BY DEF CaptureInv, ReadWasThere
    <3> QED
      BY <2>1, <3>1, <3>2 DEF TreeAtRest
  <2>3. Depth' = Depth
    BY <2>1 DEF Depth
  <2>4. CaptureTypes' /\ RootKnown'
    BY <2>1, <2>2, <2>3, AtRest DEF CaptureInv, CaptureTypes, RootKnown
  <2>5. OpenedInPlace' /\ ReadInPlace' /\ ReadWasThere'
    BY <2>1, <2>2, <2>3, AtRest DEF CaptureInv, OpenedInPlace, ReadInPlace, ReadWasThere
  <2>6. NothingMoved'
    BY <2>1, <2>2, <2>3, AtRest DEF CaptureInv, NothingMoved, State, Size
  <2> QED
    BY <2>4, <2>5, <2>6 DEF CaptureInv
<1>2. CASE CaptureNext
  <2>1. /\ offered' = offered \cup Offer(Leads(Path)', content')
        /\ (CaptureStep /\ UNCHANGED treeVars) \/ (Change /\ UNCHANGED readerVars)
    BY <1>2 DEF CaptureNext
  <2>2. CASE CaptureStep /\ UNCHANGED treeVars
    <3>1. TreeAtRest
      BY <2>1, <2>2 DEF TreeAtRest
    <3> QED
      BY <2>2, <3>1, ValidateStep, OpenRootStep, OpenDirectoryStep, OpenFileStep,
         VerifyStep, ReadStep, FinishStep, RecheckStep, CompareStep,
         RequalifyRootStep DEF CaptureStep
  <2>3. CASE Change /\ UNCHANGED readerVars
    BY <2>1, <2>3, TreeChanges
  <2> QED
    BY <2>1, <2>2, <2>3
<1> QED
  BY <1>1, <1>2

LEMMA CaptureInvariant == CaptureSpec => []CaptureInv
  BY CaptureStarts, CaptureInductive, PTL DEF CaptureSpec

(* A capture that capture_source returns                                   *)
(* (src/src/hai_mr05/source_acquisition.py:217-327) is what the whole path *)
(* led to at one moment of the call, whatever other programs did, for      *)
(* paths, trees, files and sequences of changes of every size, as long as  *)
(* no name and no bytes went away and came back.                           *)
THEOREM CapturesWereThere == CaptureSpec => []CapturedWasThere
<1>1. CaptureInv => CapturedWasThere
  BY DEF CaptureInv, ReadWasThere, CapturedWasThere
<1> QED
  BY <1>1, CaptureInvariant, PTL

(* The two fstats of capture_source that agree enclose a read of the file  *)
(* from its first block to its last, whatever came and went meanwhile.     *)
THEOREM CapturesAreWhole == CaptureSpec => CaptureIsWhole
<1>1. ASSUME CaptureInv, [CaptureNext]_captureVars, pc = "read", pc' = "recheck",
             after' = before
      PROVE  buffer = content[held[Last]]
  <2>1. CaptureStep
    BY <1>1 DEF CaptureNext, captureVars, readerVars
  <2>2. Finish
    BY <2>1, <1>1 DEF CaptureStep, Validate, OpenRoot, OpenDirectory, OpenFile,
       Verify, Read, Recheck, Compare, RequalifyRoot
  <2> QED
    BY <2>2, <1>1, ReadWhole DEF Finish
<1>2. CaptureInv /\ [CaptureNext]_captureVars =>
        [pc = "read" /\ pc' = "recheck" /\ after' = before
           => buffer = content[held[Last]]]_captureVars
  BY <1>1
<1> QED
  BY <1>2, CaptureInvariant, PTL DEF CaptureSpec, CaptureIsWhole

(* capture_source refuses a path that leads to a regular file only if an   *)
(* entry of the path or the file was changed, or the approved root was     *)
(* touched before it was opened.                                           *)
THEOREM RefusalsHaveCause == CaptureSpec => []NoFalseRefusal
<1>1. CaptureInv => NoFalseRefusal
  BY DEF CaptureInv, NothingMoved, Undisturbed, NoFalseRefusal, Last
<1> QED
  BY <1>1, CaptureInvariant, PTL

(* What a refused call says: it has a code exactly when it was refused.    *)
CaptureSays ==
  /\ code \in Codes \cup {Nothing}
  /\ (code # Nothing) <=> (pc = "failed")

LEMMA CaptureSaysStep ==
  ASSUME CaptureSays, [CaptureNext]_captureVars
  PROVE  CaptureSays'
<1>1. /\ Escape \in Codes /\ "MR05_MISSING_SOURCE" \in Codes
      /\ "UNSUPPORTED_INPUT" \in Codes /\ "HASH_MISMATCH" \in Codes
      /\ Nothing \notin Codes
  BY PathAssumption DEF Codes
<1>2. \A e : Missing(e) \in Codes
  BY <1>1 DEF Missing
<1>3. CASE CaptureNext /\ CaptureStep
  <2> USE <1>1, <1>2 DEF CaptureSays, Goto, Fail, FailUnless
  <2>0. pc # "failed"
    BY <1>3 DEF CaptureNext
  <2>1. CASE Validate
    BY <2>0, <2>1 DEF Validate
  <2>2. CASE OpenRoot
    BY <2>0, <2>2 DEF OpenRoot
  <2>3. CASE OpenDirectory
    BY <2>0, <2>3 DEF OpenDirectory
  <2>4. CASE OpenFile
    BY <2>0, <2>4 DEF OpenFile
  <2>5. CASE Verify
    BY <2>0, <2>5 DEF Verify
  <2>6. CASE Read
    BY <2>0, <2>6 DEF Read
  <2>7. CASE Finish
    BY <2>0, <2>7 DEF Finish
  <2>8. CASE Recheck
    BY <2>0, <2>8 DEF Recheck
  <2>9. CASE Compare
    BY <2>0, <2>9 DEF Compare
  <2>10. CASE RequalifyRoot
    BY <2>0, <2>10 DEF RequalifyRoot
  <2> QED
    BY <1>3, <2>1, <2>2, <2>3, <2>4, <2>5, <2>6, <2>7, <2>8, <2>9, <2>10
       DEF CaptureStep
<1>4. CASE UNCHANGED readerVars
  BY <1>4 DEF CaptureSays, readerVars
<1> QED
  BY <1>3, <1>4 DEF CaptureNext, captureVars

(* A capture (src/src/hai_mr05/source_acquisition.py:217-327) keeps to its *)
(* types: it opens directories and then one file, reads blocks of files,   *)
(* and has a code of the registry exactly when it is refused.              *)
THEOREM CapturesTypeCorrect == CaptureSpec => []CaptureTypeOK
<1>1. CaptureInit => CaptureSays
  BY DEF CaptureInit, ReaderInit, CaptureSays
<1>2. CaptureSays /\ [CaptureNext]_captureVars => CaptureSays'
  BY CaptureSaysStep
<1>3. CaptureInv /\ CaptureSays => CaptureTypeOK
  BY DEF CaptureInv, CaptureTypes, TreeInv, CaptureSays, CaptureTypeOK, Depth,
     Starting, Opening, Closing
<1> QED
  BY <1>1, <1>2, <1>3, CaptureInvariant, PTL DEF CaptureSpec

-----------------------------------------------------------------------------
(* Reading the evidence back. *)

(* What is opened for the current read: directories from the root down,    *)
(* then the file; each in its slot, on the path of the record.             *)
TargetPath == FullPath(Target)
Opened(k) == IF k <= Leaf THEN held[k] ELSE file
Reach == IF file = Nothing THEN Depth ELSE Leaf + 1
OpenedAt(k) == <<Parent(k), TargetPath[k]>>
NamedAt(k) == Named(Parent(k), TargetPath[k])
Moved(k) == <<OpenedAt(k), Opened(k)>> \in pastNames
RootMoved == <<<<Outside, RootName>>, held[1]>> \in pastNames

AfterFile == {"openFile", "read", "recheck", "compare", "requalify", "done"}

AuditTypes ==
  /\ TreeInv
  /\ pc \in Starting \cup Opening \cup AfterFile \cup {"failed"}
  /\ reading \in 1..4
  /\ held \in Seq(Folder) /\ Depth <= Leaf
  /\ file \in File \cup {Nothing}
  /\ buffer \in Seq(Block)
  /\ checked \in 0..Leaf
  /\ showing \in [Records -> {"never", "now", "gone", "again"}]
  /\ together \in BOOLEAN
  /\ pc \in Starting => held = << >> /\ reading = 1
  /\ pc \in Starting \cup Opening => file = Nothing
  /\ pc \in Opening => Depth >= 1
  /\ pc = "verify" => Depth >= 2
  /\ file # Nothing => Depth = Leaf
  /\ pc \in AfterFile => file # Nothing
  /\ pc \in Starting \cup Opening \cup {"openFile"} => buffer = << >>
  /\ pc = "recheck" => checked >= 1
  /\ pc \in {"requalify", "done"} => reading = 4

AuditRootKnown ==
  /\ pc = "openRoot" => root \in Folder \X (0..changes) \X {0}
  /\ held # << >> => held[1] = root[1]

AuditInPlace == \A k \in 1..Reach : NamedAt(k) = Opened(k) \/ Moved(k)

(* As ReadInPlace; the file had the size that was wanted.                  *)
AuditRead ==
  pc = "read" =>
    /\ before[1] = file /\ before[2] \in 0..changes /\ before[3] = Len(Want)
    /\ stamp[file] = before[2] =>
         /\ Len(buffer) <= Len(content[file])
         /\ \A j \in 1..Len(buffer) : buffer[j] = content[file][j]

(* The history of what the places show. *)
ShowingKnown ==
  /\ \A p \in Records : /\ showing[p] = "now" => Shows(p)
                        /\ showing[p] \in {"never", "gone"} => ~Shows(p)
  /\ (\A p \in Records : Shows(p)) => together

(* What the first n reads tell of the two places, if each found what it    *)
(* wanted: the third read of the manifest already tells all.               *)
Evident(n) ==
  /\ n = 1 => showing[Manifest] # "never"
  /\ n = 2 => together \/ showing[Manifest] \in {"gone", "again"}
  /\ n > 2 => together \/ showing[Manifest] = "again"

ReadsAreEvident ==
  /\ reading > 1 => Evident(reading - 1) \/ returned \/ RootMoved
  /\ pc \in {"recheck", "compare"} /\ before = after /\ buffer = Want =>
       \/ Evident(reading) \/ returned \/ RootMoved
       \/ pc = "recheck" /\ \E k \in 2..Leaf + 1 : k > checked /\ Moved(k)
  /\ pc = "requalify" => Evident(4) \/ returned \/ RootMoved
  /\ pc = "done" => Evident(4) \/ returned

(* Both places show what they should, and nothing on the way has changed.  *)
Calm == \A p \in Records : Undisturbed(FullPath(p)) /\ Shows(p)

AuditCalm ==
  Calm =>
    /\ \A k \in 1..Depth : held[k] = Walk(TargetPath, k)
    /\ pc = "openRoot" => /\ root[1] = RootEntry
                          /\ root = State(RootEntry) \/ stamp[RootEntry] > 0
    /\ file # Nothing => file = Leads(TargetPath)
    /\ pc \in {"read", "recheck", "compare"} => before = State(file)
    /\ pc \in {"recheck", "compare"} => after = before /\ buffer = Want
    /\ pc = "failed" => held = << >> /\ stamp[RootEntry] > 0

AuditInv ==
  /\ AuditTypes
  /\ AuditRootKnown
  /\ AuditInPlace
  /\ AuditRead
  /\ ShowingKnown
  /\ ReadsAreEvident
  /\ AuditCalm

LEMMA AuditPathFacts ==
  ASSUME reading \in 1..4
  PROVE  /\ Target \in Records /\ Target \in Seq(STRING)
         /\ Leaf \in Nat /\ Leaf >= 1 /\ Leaf = Len(Target)
         /\ Target = IF reading \in {1, 3} THEN Manifest ELSE Final
         /\ Want \in Content
<1>1. Target = IF reading \in {1, 3} THEN Manifest ELSE Final
  BY DEF Target, Reads
<1>2. Target \in Records /\ Target \in Seq(STRING) /\ Target # << >>
  BY <1>1, AuditAssumption DEF Records
<1>3. Want \in Content
  BY <1>2, AuditAssumption DEF Want
<1> QED
  BY <1>1, <1>2, <1>3 DEF Leaf

LEMMA FullPathFacts ==
  ASSUME NEW p \in Records
  PROVE  /\ FullPath(p) \in Seq(STRING) /\ FullPath(p) # << >>
         /\ Len(FullPath(p)) = Len(p) + 1 /\ Len(p) \in Nat /\ Len(p) >= 1
         /\ FullPath(p)[1] = RootName
         /\ \A k \in 1..Len(p) : FullPath(p)[k + 1] = p[k]
<1>1. p \in Seq(STRING) /\ p # << >> /\ RootName \in STRING
  BY AuditAssumption, RootAssumption
<1>2. \A S, a, q : a \in S /\ q \in Seq(S) => <<a>> \o q \in Seq(S)
  OBVIOUS
<1>3. <<RootName>> \o p \in Seq(STRING)
  BY <1>1, <1>2, Zenon
<1>4. \A S : \A q \in Seq(S) : \A a \in S :
        /\ <<a>> \o q # << >> /\ Len(<<a>> \o q) = Len(q) + 1
        /\ (<<a>> \o q)[1] = a
        /\ \A k \in 1..Len(q) : (<<a>> \o q)[k + 1] = q[k]
  OBVIOUS
<1>5. /\ <<RootName>> \o p # << >> /\ Len(<<RootName>> \o p) = Len(p) + 1
      /\ (<<RootName>> \o p)[1] = RootName
      /\ \A k \in 1..Len(p) : (<<RootName>> \o p)[k + 1] = p[k]
  BY <1>1, <1>4
<1>6. Len(p) \in Nat /\ Len(p) >= 1
  BY <1>1
<1> QED
  BY <1>3, <1>5, <1>6 DEF FullPath

LEMMA TargetPathFacts ==
  ASSUME reading \in 1..4
  PROVE  /\ TargetPath \in Seq(STRING) /\ TargetPath # << >>
         /\ Len(TargetPath) = Leaf + 1 /\ TargetPath[1] = RootName
         /\ \A k \in 1..Leaf : TargetPath[k + 1] = Target[k]
  BY AuditPathFacts, FullPathFacts DEF TargetPath

(* What the prime of a lookup means, for the read that is under way.       *)
LEMMA NamedAtIs ==
  ASSUME NEW k, reading' = reading
  PROVE  /\ TargetPath' = TargetPath /\ Leaf' = Leaf /\ Want' = Want /\ Target' = Target
         /\ NamedAt(k) = NameIn(entry, IF k = 1 THEN Outside ELSE held[k - 1], TargetPath[k])
         /\ NamedAt(k)' = NameIn(entry', IF k = 1 THEN Outside ELSE held'[k - 1], TargetPath[k])
         /\ Opened(k)' = IF k <= Leaf THEN held'[k] ELSE file'
         /\ Moved(k) <=> <<<<IF k = 1 THEN Outside ELSE held[k - 1], TargetPath[k]>>,
                           Opened(k)>> \in pastNames
         /\ Moved(k)' <=> <<<<IF k = 1 THEN Outside ELSE held'[k - 1], TargetPath[k]>>,
                            Opened(k)'>> \in pastNames'
<1>1. TargetPath' = TargetPath /\ Leaf' = Leaf /\ Want' = Want /\ Target' = Target
  BY DEF TargetPath, Target, Leaf, Want
<1> QED
  BY <1>1 DEF NamedAt, Moved, OpenedAt, Opened, Parent, Named, NameIn

LEMMA RootMovedIs ==
  ASSUME reading \in 1..4, Depth \in Nat \ {0}, Depth <= Leaf
  PROVE  Moved(1) <=> RootMoved
<1>1. TargetPath[1] = RootName /\ 1 <= Leaf
  BY TargetPathFacts, AuditPathFacts
<1> QED
  BY <1>1 DEF Moved, RootMoved, OpenedAt, Opened, Parent

(* If every component is in its place, the record's path leads to the file *)
(* that was opened.                                                        *)
LEMMA FileReached ==
  ASSUME AuditTypes, file # Nothing, \A k \in 1..Leaf + 1 : NamedAt(k) = Opened(k)
  PROVE  Leads(TargetPath) = file
<1> DEFINE n == Len(TargetPath)
           g == [k \in 0..n |-> IF k = 0 THEN Outside ELSE Opened(k)]
<1>1. /\ n = Leaf + 1 /\ Leaf \in Nat /\ Leaf >= 1 /\ n \in Nat
      /\ TargetPath \in Seq(STRING) /\ Depth = Leaf /\ held \in Seq(Folder)
  <2>1. reading \in 1..4 /\ Depth = Leaf /\ held \in Seq(Folder)
    BY DEF AuditTypes
  <2>2. Leaf \in Nat /\ Leaf >= 1
    BY <2>1, AuditPathFacts
  <2>3. TargetPath \in Seq(STRING) /\ n = Leaf + 1
    BY <2>1, TargetPathFacts
  <2> QED
    BY <2>1, <2>2, <2>3
<1>2. ASSUME NEW k \in 1..n
      PROVE  Opened(k) = Below(entry, IF k = 1 THEN Outside ELSE Opened(k - 1), TargetPath[k])
  <2>1. Opened(k) = NameIn(entry, IF k = 1 THEN Outside ELSE held[k - 1], TargetPath[k])
    BY <1>1 DEF NamedAt, Named, NameIn, Parent
  <2>2. k # 1 => Opened(k - 1) = held[k - 1] /\ held[k - 1] \in Folder
    <3>1. k # 1 => k - 1 \in 1..Leaf
      BY <1>1
    <3> QED
      BY <3>1, <1>1 DEF Opened, Depth
  <2> QED
    BY <2>1, <2>2 DEF Below
<1>3. IsWalk(entry, TargetPath, g)
  <2>1. \A k \in 0..n :
          g[k] = IF k = 0 THEN Outside ELSE Below(entry, g[k - 1], TargetPath[k])
    <3> SUFFICES ASSUME NEW k \in 1..n
                 PROVE  g[k] = Below(entry, g[k - 1], TargetPath[k])
      <4>1. g[0] = Outside
        BY <1>1
      <4> HIDE DEF g
      <4> QED
        BY <4>1, <1>1
    <3>1. g[k] = Opened(k) /\ g[k - 1] = IF k = 1 THEN Outside ELSE Opened(k - 1)
      BY <1>1
    <3> QED
      BY <3>1, <1>2
  <2>2. g = [k \in 0..n |-> g[k]]
    OBVIOUS
  <2> HIDE DEF g
  <2> QED
    BY <2>1, <2>2 DEF IsWalk
<1>4. EndOf(entry, SubSeq(TargetPath, 1, n)) = g[n]
  <2>1. n \in 0..n
    BY <1>1
  <2> HIDE DEF g
  <2> QED
    BY <2>1, <1>1, <1>3, PrefixLeads
<1>5. g[n] = file
  <2>1. Opened(n) = file
    BY <1>1 DEF Opened
  <2> QED
    BY <1>1, <2>1
<1>6. Leads(TargetPath) = EndOf(entry, TargetPath) /\ SubSeq(TargetPath, 1, n) = TargetPath
  BY <1>1, EndOfEntry, WholePrefix
<1> QED
  BY <1>4, <1>5, <1>6

(* How the history grows. *)
Remember ==
  /\ showing' = [p \in Records |-> Later(showing[p], Shows(p)')]
  /\ together' = (together \/ \A p \in Records : Shows(p)')

LEMMA Remembered ==
  ASSUME AuditInv, Remember
  PROVE  /\ ShowingKnown'
         /\ showing' \in [Records -> {"never", "now", "gone", "again"}]
         /\ together' \in BOOLEAN
         /\ \A n \in 1..4 : Evident(n) => Evident(n)'
<1>1. /\ showing \in [Records -> {"never", "now", "gone", "again"}]
      /\ together \in BOOLEAN
  BY DEF AuditInv, AuditTypes
<1>2. ASSUME NEW p \in Records
      PROVE  /\ showing'[p] = Later(showing[p], Shows(p)')
             /\ showing'[p] \in {"never", "now", "gone", "again"}
             /\ showing'[p] = "now" => Shows(p)'
             /\ showing'[p] \in {"never", "gone"} => ~Shows(p)'
             /\ showing[p] # "never" => showing'[p] # "never"
             /\ showing[p] \in {"gone", "again"} => showing'[p] \in {"gone", "again"}
             /\ showing[p] = "again" => showing'[p] = "again"
  <2>1. showing'[p] = Later(showing[p], Shows(p)')
    BY DEF Remember
  <2>2. showing[p] \in {"never", "now", "gone", "again"}
    BY <1>1
  <2>3. CASE Shows(p)'
    BY <2>1, <2>2, <2>3 DEF Later
  <2>4. CASE ~Shows(p)'
    BY <2>1, <2>2, <2>4 DEF Later
  <2> QED
    BY <2>3, <2>4
<1>3. showing' \in [Records -> {"never", "now", "gone", "again"}]
  <2>1. showing' = [p \in Records |-> Later(showing[p], Shows(p)')]
    BY DEF Remember
  <2>2. \A p \in Records : Later(showing[p], Shows(p)') \in {"never", "now", "gone", "again"}
    BY <1>2
  <2> QED
    BY <2>1, <2>2
<1>4. together' = (together \/ \A p \in Records : Shows(p)')
  BY DEF Remember
<1>5. together' \in BOOLEAN /\ (together => together')
      /\ ((\A p \in Records : Shows(p)') => together')
  BY <1>1, <1>4
<1>6. ShowingKnown'
  <2>1. \A p \in Records : /\ showing'[p] = "now" => Shows(p)'
                           /\ showing'[p] \in {"never", "gone"} => ~Shows(p)'
    BY <1>2
  <2> QED
    BY <2>1, <1>5 DEF ShowingKnown
<1>7. Manifest \in Records
  BY DEF Records
<1>8. ASSUME NEW n \in 1..4, Evident(n) PROVE Evident(n)'
  <2>1. CASE n = 1
    BY <1>2, <1>5, <1>7, <1>8, <2>1 DEF Evident
  <2>2. CASE n = 2
    BY <1>2, <1>5, <1>7, <1>8, <2>2 DEF Evident
  <2>3. CASE n \in {3, 4}
    BY <1>2, <1>5, <1>7, <1>8, <2>3 DEF Evident
  <2> QED
    BY <2>1, <2>2, <2>3
<1> QED
  BY <1>3, <1>5, <1>6, <1>8

(* A read that finds what it wants in its place tells the next thing.      *)
LEMMA ShownIsEvident ==
  ASSUME AuditInv, Shows(Target)
  PROVE  Evident(reading) \/ returned \/ RootMoved
<1>1. reading \in 1..4 /\ Target = IF reading \in {1, 3} THEN Manifest ELSE Final
  BY AuditPathFacts DEF AuditInv, AuditTypes
<1>2. Manifest \in Records /\ Final \in Records /\ Records = {Manifest, Final}
  BY DEF Records
<1>3. /\ showing[Target] \in {"now", "again"}
      /\ showing[Manifest] = "now" => Shows(Manifest)
      /\ Shows(Manifest) /\ Shows(Final) => together
      /\ showing[Manifest] \in {"never", "now", "gone", "again"}
  BY <1>1, <1>2 DEF AuditInv, AuditTypes, ShowingKnown
<1>4. /\ reading > 1 => Evident(reading - 1) \/ returned \/ RootMoved
      /\ together \in BOOLEAN /\ returned \in BOOLEAN
  BY DEF AuditInv, ReadsAreEvident, AuditTypes, TreeInv, TreeTypeOK
<1>5. CASE reading = 1
  <2>1. Target = Manifest
    BY <1>1, <1>5
  <2>2. Shows(Manifest) /\ showing[Manifest] \in {"now", "again"}
    BY <1>3, <2>1
  <2> QED
    BY <1>3, <1>4, <1>5, <2>2 DEF Evident
<1>6. CASE reading = 2
  <2>1. Target = Final
    BY <1>1, <1>6
  <2>2. Shows(Final) /\ showing[Final] \in {"now", "again"}
    BY <1>3, <2>1
  <2> QED
    BY <1>3, <1>4, <1>6, <2>2 DEF Evident
<1>7. CASE reading = 3
  <2>1. Target = Manifest
    BY <1>1, <1>7
  <2>2. Shows(Manifest) /\ showing[Manifest] \in {"now", "again"}
    BY <1>3, <2>1
  <2> QED
    BY <1>3, <1>4, <1>7, <2>2 DEF Evident
<1>8. CASE reading = 4
  BY <1>4, <1>8 DEF Evident
<1> QED
  BY <1>1, <1>5, <1>6, <1>7, <1>8

(* A step of the audit while the tree stays as it is. *)
AuditAlone == UNCHANGED treeVars /\ Remember

LEMMA AuditAtRest ==
  ASSUME AuditInv, AuditAlone
  PROVE  /\ entry' = entry /\ content' = content /\ stamp' = stamp
         /\ changes' = changes /\ pastNames' = pastNames /\ returned' = returned
         /\ showing' = showing /\ together' = together
         /\ TreeInv' /\ RootEntry' = RootEntry /\ ShowingKnown'
         /\ Calm' = Calm
         /\ \A p : Leads(p)' = Leads(p)
         /\ \A p, k : Walk(p, k)' = Walk(p, k)
         /\ \A n : Evident(n)' = Evident(n)
<1>1. /\ entry' = entry /\ content' = content /\ stamp' = stamp
      /\ changes' = changes /\ pastNames' = pastNames /\ returned' = returned
  BY DEF AuditAlone, treeVars
<1>2. /\ TreeInv' /\ RootEntry' = RootEntry
      /\ \A p : Leads(p)' = Leads(p) /\ Undisturbed(p)' = Undisturbed(p)
      /\ \A p, k : Walk(p, k)' = Walk(p, k)
  BY TreeStays DEF AuditAlone, AuditInv, AuditTypes
<1>3. \A p : Shows(p)' = Shows(p)
  BY <1>1, <1>2 DEF Shows
<1>4. showing' = showing
  <2>1. showing' = [p \in Records |-> Later(showing[p], Shows(p)')]
    BY DEF AuditAlone, Remember
  <2>2. showing \in [Records -> {"never", "now", "gone", "again"}]
    BY DEF AuditInv, AuditTypes
  <2>3. ASSUME NEW p \in Records PROVE Later(showing[p], Shows(p)') = showing[p]
    <3>1. showing[p] \in {"never", "now", "gone", "again"}
      BY <2>2
    <3>2. /\ showing[p] = "now" => Shows(p)'
          /\ showing[p] \in {"never", "gone"} => ~Shows(p)'
      BY <1>3 DEF AuditInv, ShowingKnown
    <3>3. CASE Shows(p)'
      BY <3>1, <3>2, <3>3 DEF Later
    <3>4. CASE ~Shows(p)'
      BY <3>1, <3>2, <3>4 DEF Later
    <3> QED
      BY <3>3, <3>4
  <2> QED
    BY <2>1, <2>2, <2>3
<1>5. together' = together
  <2>1. together' = (together \/ \A p \in Records : Shows(p)')
    BY DEF AuditAlone, Remember
  <2>2. together \in BOOLEAN /\ ((\A p \in Records : Shows(p)) => together)
    BY DEF AuditInv, AuditTypes, ShowingKnown
  <2> QED
    BY <2>1, <2>2, <1>3
<1>6. Calm' = Calm
  BY <1>2, <1>3 DEF Calm
<1>7. ShowingKnown'
  BY Remembered DEF AuditAlone
<1>8. \A n : Evident(n)' = Evident(n)
  BY <1>4, <1>5 DEF Evident
<1> QED
  BY <1>1, <1>2, <1>4, <1>5, <1>6, <1>7, <1>8

(* If all is calm, the next component is the one to be opened.             *)
LEMMA NextOnRecord ==
  ASSUME AuditTypes, AuditCalm, Calm
  PROVE  /\ RootEntry = Walk(TargetPath, 1) /\ RootEntry \in Folder
         /\ \A k \in 1..Leaf + 1 : k <= Depth + 1 =>
              /\ NamedAt(k) = Walk(TargetPath, k)
              /\ Walk(TargetPath, k) \in IF k = Leaf + 1 THEN File ELSE Folder
         /\ Walk(TargetPath, Leaf + 1) = Leads(TargetPath)
         /\ Leads(TargetPath) \in File /\ content[Leads(TargetPath)] = Want
<1>1. /\ reading \in 1..4 /\ TreeTypeOK /\ held \in Seq(Folder) /\ Depth \in Nat
  BY DEF AuditTypes, TreeInv, Depth
<1>2. /\ Target \in Records /\ Leaf \in Nat /\ Leaf >= 1
      /\ TargetPath \in Seq(STRING) /\ TargetPath # << >>
      /\ Len(TargetPath) = Leaf + 1 /\ TargetPath[1] = RootName
  BY <1>1, AuditPathFacts, TargetPathFacts
<1>3. Leads(TargetPath) \in File /\ content[Leads(TargetPath)] = Want
  <2>1. Undisturbed(FullPath(Target)) /\ Shows(Target)
    BY <1>2 DEF Calm
  <2> QED
    BY <2>1 DEF Undisturbed, Shows, TargetPath, Want
<1>4. ASSUME NEW p, p = TargetPath
      PROVE  /\ Walk(p, 0) = Outside /\ Walk(p, Len(p)) = Leads(p)
             /\ \A k \in 1..Len(p) - 1 : Walk(p, k) \in Folder
             /\ \A k \in 1..Len(p) : Walk(p, k) = Named(Walk(p, k - 1), p[k])
  <2>1. p \in Seq(STRING) /\ p # << >> /\ Leads(p) \in File
    BY <1>2, <1>3, <1>4
  <2> QED
    BY <1>1, <2>1, WalkNow
<1>5. /\ Walk(TargetPath, 0) = Outside
      /\ Walk(TargetPath, Leaf + 1) = Leads(TargetPath)
      /\ \A k \in 1..Leaf : Walk(TargetPath, k) \in Folder
      /\ \A k \in 1..Leaf + 1 :
           Walk(TargetPath, k) = Named(Walk(TargetPath, k - 1), TargetPath[k])
  BY <1>2, <1>4
<1>6. \A k \in 1..Depth : held[k] = Walk(TargetPath, k)
  BY DEF AuditCalm
<1>7. ASSUME NEW k \in 1..Leaf + 1, k <= Depth + 1
      PROVE  /\ NamedAt(k) = Walk(TargetPath, k)
             /\ Walk(TargetPath, k) \in IF k = Leaf + 1 THEN File ELSE Folder
  <2>1. Parent(k) = Walk(TargetPath, k - 1)
    <3>1. CASE k = 1
      BY <3>1, <1>5 DEF Parent
    <3>2. CASE k # 1
      <4>1. k - 1 \in 1..Depth
        BY <3>2, <1>1, <1>2, <1>7
      <4> QED
        BY <3>2, <4>1, <1>6 DEF Parent
    <3> QED
      BY <3>1, <3>2
  <2>2. NamedAt(k) = Walk(TargetPath, k)
    BY <2>1, <1>5 DEF NamedAt
  <2>3. CASE k = Leaf + 1
    BY <2>2, <2>3, <1>3, <1>5
  <2>4. CASE k # Leaf + 1
    <3>1. k \in 1..Leaf
      BY <2>4, <1>2
    <3> QED
      BY <2>2, <2>4, <3>1, <1>5
  <2> QED
    BY <2>2, <2>3, <2>4
<1>8. RootEntry = Walk(TargetPath, 1) /\ RootEntry \in Folder
  <2>1. 1 \in 1..Leaf + 1 /\ 1 <= Depth + 1 /\ 1 # Leaf + 1
    BY <1>1, <1>2
  <2>2. RootEntry = NamedAt(1)
    BY <1>2 DEF RootEntry, NamedAt, Parent
  <2> QED
    BY <2>1, <2>2, <1>7
<1> QED
  BY <1>3, <1>5, <1>7, <1>8

(* Whatever a step of the audit does besides, what is open stays in place. *)
LEMMA OpenedStays ==
  ASSUME AuditInv, AuditAlone, held' = held, root' = root, file' = file,
         reading' = reading, pc' # "openRoot"
  PROVE  /\ Depth' = Depth /\ Leaf' = Leaf /\ Reach' = Reach /\ Want' = Want
         /\ TargetPath' = TargetPath
         /\ AuditRootKnown' /\ AuditInPlace'
         /\ RootMoved' = RootMoved
         /\ \A k : Moved(k)' = Moved(k)
         /\ Evident(reading)' = Evident(reading)
         /\ reading > 1 => Evident(reading - 1)' \/ returned' \/ RootMoved'
         /\ Calm => \A k \in 1..Reach : NamedAt(k) = Opened(k)
<1>1. /\ Depth' = Depth /\ Leaf' = Leaf /\ Reach' = Reach
      /\ TargetPath' = TargetPath /\ Want' = Want
  BY DEF Depth, Leaf, Reach, Target, TargetPath, Want
<1>2. AuditRootKnown'
  BY AuditAtRest DEF AuditInv, AuditRootKnown
<1>3. /\ \A k : NamedAt(k)' = NamedAt(k) /\ Opened(k)' = Opened(k)
      /\ \A k : Moved(k)' = Moved(k)
      /\ RootMoved' = RootMoved
  BY <1>1, AuditAtRest DEF NamedAt, Named, Opened, Moved, OpenedAt, Parent, RootMoved
<1>4. AuditInPlace'
  BY <1>1, <1>3 DEF AuditInv, AuditInPlace
<1>5. /\ Evident(reading)' = Evident(reading)
      /\ Evident(reading - 1)' = Evident(reading - 1)
  BY AuditAtRest DEF Evident
<1>6. reading > 1 => Evident(reading - 1)' \/ returned' \/ RootMoved'
  BY <1>3, <1>5, AuditAtRest DEF AuditInv, ReadsAreEvident
<1>7. ASSUME Calm, NEW k \in 1..Reach PROVE NamedAt(k) = Opened(k)
  <2>1. /\ reading \in 1..4 /\ Leaf \in Nat /\ Leaf >= 1 /\ Depth \in Nat
        /\ Depth <= Leaf /\ (file # Nothing => Depth = Leaf)
    BY AuditPathFacts DEF AuditInv, AuditTypes, Depth
  <2>2. CASE k = Leaf + 1
    <3>1. file # Nothing /\ Depth = Leaf
      BY <2>1, <2>2 DEF Reach
    <3>2. file = Leads(TargetPath)
      BY <3>1, <1>7 DEF AuditInv, AuditCalm
    <3>3. NamedAt(k) = Walk(TargetPath, Leaf + 1)
      BY <2>1, <2>2, <3>1, <1>7, NextOnRecord DEF AuditInv
    <3>4. Walk(TargetPath, Leaf + 1) = Leads(TargetPath)
      BY <1>7, NextOnRecord DEF AuditInv
    <3>5. Opened(k) = file
      BY <2>1, <2>2 DEF Opened
    <3> QED
      BY <3>2, <3>3, <3>4, <3>5
  <2>3. CASE k # Leaf + 1
    <3>1. k \in 1..Depth /\ k \in 1..Leaf + 1 /\ k <= Depth + 1 /\ k <= Leaf
      BY <2>1, <2>3 DEF Reach
    <3>2. NamedAt(k) = Walk(TargetPath, k)
      BY <3>1, <1>7, NextOnRecord DEF AuditInv
    <3>3. held[k] = Walk(TargetPath, k)
      BY <3>1, <1>7 DEF AuditInv, AuditCalm
    <3> QED
      BY <3>1, <3>2, <3>3 DEF Opened
  <2> QED
    BY <2>2, <2>3
<1> QED
  BY <1>1, <1>2, <1>3, <1>4, <1>5, <1>6, <1>7

(* The audit ends in a refusal. *)
LEMMA AuditRefusal ==
  ASSUME AuditInv, AuditAlone, pc' = "failed", ~Calm, held' = held, root' = root,
         file' = file, reading' = reading, buffer' = buffer, checked' \in 0..Leaf
  PROVE  AuditInv'
<1>1. /\ Depth' = Depth /\ Leaf' = Leaf /\ AuditRootKnown' /\ AuditInPlace'
      /\ reading > 1 => Evident(reading - 1)' \/ returned' \/ RootMoved'
  BY OpenedStays
<1>2. AuditTypes'
  BY <1>1, AuditAtRest DEF AuditInv, AuditTypes, Starting, Opening, AfterFile
<1>3. AuditRead' /\ ShowingKnown' /\ ReadsAreEvident'
  BY <1>1, AuditAtRest DEF AuditRead, ReadsAreEvident
<1>4. AuditCalm'
  BY AuditAtRest DEF AuditCalm
<1> QED
  BY <1>1, <1>2, <1>3, <1>4 DEF AuditInv

LEMMA AuditValidateStep ==
  ASSUME AuditInv, AuditAlone, Validate, UNCHANGED <<reading, file>>
  PROVE  AuditInv'
<1>1. /\ pc = "validate" /\ held = << >> /\ Depth = 0 /\ buffer = << >>
      /\ file = Nothing /\ reading = 1
      /\ held' = held /\ before' = before /\ after' = after
      /\ buffer' = buffer /\ checked' = checked /\ file' = file /\ reading' = reading
      /\ root' = IF RootEntry \in Folder THEN State(RootEntry) ELSE Nothing
      /\ pc' = IF RootEntry \in Folder THEN "openRoot" ELSE "failed"
  BY DEF Validate, FailUnless, Goto, Fail, AuditInv, AuditTypes, Starting, Depth
<1>2. Depth' = 0 /\ Reach' = 0 /\ Leaf' = Leaf
  BY <1>1 DEF Depth, Reach, Leaf, Target
<1>3. AuditTypes'
  BY <1>1, <1>2, AuditAtRest
  DEF AuditInv, AuditTypes, Starting, Opening, AfterFile
<1>4. AuditRootKnown'
  <2>1. ASSUME RootEntry \in Folder
        PROVE  State(RootEntry) \in Folder \X (0..changes) \X {0}
    <3>1. RootEntry \in Inode /\ RootEntry \notin File
      BY <2>1, TreeAssumption DEF Inode
    <3>2. stamp[RootEntry] \in 0..changes
      BY <3>1 DEF AuditInv, AuditTypes, TreeInv, TreeTypeOK
    <3> QED
      BY <2>1, <3>1, <3>2 DEF State, Size
  <2> QED
    BY <1>1, <2>1, AuditAtRest DEF AuditRootKnown
<1>5. AuditInPlace' /\ AuditRead' /\ ShowingKnown'
  BY <1>1, <1>2, AuditAtRest DEF AuditInPlace, AuditRead
<1>6. ReadsAreEvident'
  BY <1>1 DEF ReadsAreEvident
<1>7. AuditCalm'
  <2> SUFFICES ASSUME Calm
               PROVE  /\ root'[1] = RootEntry' /\ root' = State(RootEntry)'
                      /\ pc' = "openRoot"
    <3>1. \A k : k \notin 1..Depth'
      BY <1>2
    <3> QED
      BY <3>1, <1>1, AuditAtRest DEF AuditCalm
  <2>1. RootEntry \in Folder
    BY NextOnRecord DEF AuditInv
  <2>2. State(RootEntry)' = State(RootEntry)
    BY AuditAtRest DEF State, Size
  <2> QED
    BY <1>1, <2>1, <2>2, AuditAtRest DEF State
<1> QED
  BY <1>3, <1>4, <1>5, <1>6, <1>7 DEF AuditInv

LEMMA AuditOpenRootStep ==
  ASSUME AuditInv, AuditAlone, OpenRoot, UNCHANGED <<reading, file>>
  PROVE  AuditInv'
<1>1. /\ pc = "openRoot" /\ held = << >> /\ Depth = 0 /\ buffer = << >>
      /\ file = Nothing /\ reading = 1
      /\ root' = root /\ before' = before /\ after' = after
      /\ buffer' = buffer /\ checked' = checked /\ file' = file /\ reading' = reading
      /\ root \in Folder \X (0..changes) \X {0}
      /\ Leaf' = Leaf /\ TargetPath' = TargetPath /\ Leaf \in Nat /\ Leaf >= 1
  BY AuditPathFacts
  DEF OpenRoot, AuditInv, AuditTypes, AuditRootKnown, Starting, Opening, Depth,
      Leaf, Target, TargetPath
<1>2. CASE RootEntry \in Folder /\ State(RootEntry) = root
  <2>1. /\ held' = <<RootEntry>> /\ pc' = "open" /\ Depth' = 1 /\ Reach' = 1
        /\ held'[1] = RootEntry /\ root[1] = RootEntry
    BY <1>1, <1>2 DEF OpenRoot, Goto, Depth, State, Reach
  <2>2. AuditTypes'
    <3>1. held' \in Seq(Folder)
      BY <1>2, <2>1
    <3>2. Depth' <= Leaf
      BY <1>1, <2>1
    <3> QED
      BY <1>1, <2>1, <3>1, <3>2, AuditAtRest
      DEF AuditInv, AuditTypes, Starting, Opening, AfterFile
  <2>3. AuditRootKnown'
    BY <1>1, <2>1 DEF AuditRootKnown
  <2>4. AuditInPlace'
    <3>1. NamedAt(1)' = RootEntry
      <4>1. NamedAt(1)' = NameIn(entry, Outside, TargetPath[1])
        BY <1>1, NamedAtIs, AuditAtRest
      <4>2. TargetPath[1] = RootName
        BY TargetPathFacts DEF AuditInv, AuditTypes
      <4> QED
        BY <4>1, <4>2 DEF RootEntry, Named, NameIn
    <3>2. Opened(1)' = RootEntry
      BY <1>1, <2>1 DEF Opened
    <3> QED
      BY <2>1, <3>1, <3>2 DEF AuditInPlace
  <2>5. AuditRead' /\ ShowingKnown' /\ ReadsAreEvident'
    BY <1>1, <2>1, AuditAtRest DEF AuditRead, ReadsAreEvident
  <2>6. AuditCalm'
    <3> SUFFICES ASSUME Calm
                 PROVE  \A k \in 1..Depth' : held'[k] = Walk(TargetPath, k)'
      BY <1>1, <2>1, AuditAtRest DEF AuditCalm
    <3>1. RootEntry = Walk(TargetPath, 1)
      BY NextOnRecord DEF AuditInv
    <3>2. Walk(TargetPath, 1)' = Walk(TargetPath, 1)
      BY <1>1, AuditAtRest DEF Walk
    <3> QED
      BY <2>1, <3>1, <3>2
  <2> QED
    BY <2>2, <2>3, <2>4, <2>5, <2>6 DEF AuditInv
<1>3. CASE ~(RootEntry \in Folder /\ State(RootEntry) = root)
  <2>1. held' = held /\ pc' = "failed" /\ Depth' = 0 /\ Reach' = 0
    BY <1>1, <1>3 DEF OpenRoot, Fail, Depth, Reach
  <2>2. AuditTypes'
    BY <1>1, <2>1, AuditAtRest DEF AuditInv, AuditTypes, Starting, Opening, AfterFile
  <2>3. AuditRootKnown' /\ AuditInPlace' /\ AuditRead' /\ ShowingKnown' /\ ReadsAreEvident'
    BY <1>1, <2>1, AuditAtRest
    DEF AuditRootKnown, AuditInPlace, AuditRead, ReadsAreEvident
  <2>4. AuditCalm'
    <3> SUFFICES ASSUME Calm
                 PROVE  held' = << >> /\ stamp'[RootEntry'] > 0
      <4>1. \A k : k \notin 1..Depth'
        BY <2>1
      <4> QED
        BY <4>1, <1>1, <2>1, AuditAtRest DEF AuditCalm
    <3>1. RootEntry \in Folder
      BY NextOnRecord DEF AuditInv
    <3>2. root = State(RootEntry) \/ stamp[RootEntry] > 0
      BY <1>1 DEF AuditInv, AuditCalm
    <3> QED
      BY <1>1, <1>3, <2>1, <3>1, <3>2, AuditAtRest
  <2> QED
    BY <2>2, <2>3, <2>4 DEF AuditInv
<1> QED
  BY <1>2, <1>3

LEMMA EnterDirectoryStep ==
  ASSUME AuditInv, AuditAlone, EnterDirectory
  PROVE  AuditInv'
<1> DEFINE e == NamedAt(Depth + 1)
<1>1. /\ pc = "open" /\ Depth < Leaf /\ Depth \in Nat \ {0} /\ Leaf \in Nat
      /\ Depth + 1 \in 1..Leaf + 1 /\ Depth + 1 # Leaf + 1 /\ Depth + 1 # 1
      /\ buffer = << >> /\ held \in Seq(Folder) /\ file = Nothing
      /\ reading' = reading /\ file' = file
      /\ root' = root /\ before' = before /\ after' = after
      /\ buffer' = buffer /\ checked' = checked
      /\ TargetPath' = TargetPath /\ Leaf' = Leaf
  BY AuditPathFacts
  DEF EnterDirectory, AuditInv, AuditTypes, Opening, Depth, TargetPath, Leaf, Target
<1>2. Named(Deepest, Target[Len(held)]) = e
  <2>1. TargetPath[Depth + 1] = Target[Depth]
    <3>1. Depth \in 1..Leaf
      BY <1>1
    <3> QED
      BY <3>1, TargetPathFacts DEF AuditInv, AuditTypes
  <2>2. Parent(Depth + 1) = Deepest
    BY <1>1 DEF Parent, Deepest, Depth
  <2> QED
    BY <2>1, <2>2 DEF NamedAt, Depth
<1>3. CASE e \in Folder
  <2>1. held' = Append(held, e) /\ pc' = "verify"
    BY <1>2, <1>3 DEF EnterDirectory, Goto
  <2>2. /\ Depth' = Depth + 1 /\ held' \in Seq(Folder) /\ held'[Depth + 1] = e
        /\ \A k \in 1..Depth : held'[k] = held[k]
    <3> HIDE DEF e
    <3> QED
      BY <2>1, <1>1, <1>3 DEF Depth
  <2>3. Reach = Depth /\ Reach' = Depth + 1
    BY <1>1, <2>2 DEF Reach
  <2>4. AuditTypes'
    <3>1. Depth' <= Leaf /\ Depth' >= 2
      BY <1>1, <2>2
    <3> QED
      BY <1>1, <2>1, <2>2, <3>1, AuditAtRest
      DEF AuditInv, AuditTypes, Starting, Opening, AfterFile
  <2>5. held'[1] = held[1] /\ held # << >>
    BY <1>1, <2>2 DEF Depth
  <2>6. AuditRootKnown'
    BY <1>1, <2>1, <2>5 DEF AuditInv, AuditRootKnown
  <2>7. AuditInPlace'
    <3> SUFFICES ASSUME NEW k \in 1..Depth + 1
                 PROVE  NamedAt(k)' = Opened(k)' \/ Moved(k)'
      BY <2>3 DEF AuditInPlace
    <3>1. k # 1 => held'[k - 1] = held[k - 1]
      <4>1. k # 1 => k - 1 \in 1..Depth
        BY <1>1
      <4> QED
        BY <4>1, <2>2
    <3>2. NamedAt(k)' = NamedAt(k)
      BY <1>1, <3>1, NamedAtIs, AuditAtRest
    <3>3. k <= Leaf /\ Opened(k)' = held'[k]
      BY <1>1 DEF Opened
    <3>4. CASE k = Depth + 1
      BY <3>2, <3>3, <3>4, <2>2
    <3>5. CASE k # Depth + 1
      <4>1. k \in 1..Depth /\ held'[k] = held[k] /\ Opened(k) = held[k]
        BY <3>5, <3>3, <1>1, <2>2 DEF Opened
      <4>2. Moved(k)' <=> Moved(k)
        BY <1>1, <4>1, <3>1, <3>3, NamedAtIs, AuditAtRest
      <4> QED
        BY <4>1, <4>2, <3>2, <3>3, <2>3 DEF AuditInv, AuditInPlace
    <3> QED
      BY <3>4, <3>5
  <2>8. AuditRead' /\ ShowingKnown'
    BY <2>1, AuditAtRest DEF AuditRead
  <2>9. ReadsAreEvident'
    <3>1. RootMoved' = RootMoved
      BY <2>5, AuditAtRest DEF RootMoved
    <3> QED
      BY <1>1, <2>1, <3>1, AuditAtRest DEF AuditInv, ReadsAreEvident, Evident
  <2>10. AuditCalm'
    <3> SUFFICES ASSUME Calm
                 PROVE  \A k \in 1..Depth + 1 : held'[k] = Walk(TargetPath, k)'
      BY <1>1, <2>1, <2>2, AuditAtRest DEF AuditCalm
    <3>1. \A k \in 1..Depth : held[k] = Walk(TargetPath, k)
      BY DEF AuditInv, AuditCalm
    <3>2. e = Walk(TargetPath, Depth + 1)
      BY <1>1, NextOnRecord DEF AuditInv
    <3>3. \A k : Walk(TargetPath, k)' = Walk(TargetPath, k)
      BY <1>1, AuditAtRest DEF Walk
    <3> HIDE DEF e
    <3> QED
      BY <3>1, <3>2, <3>3, <2>2, <1>1
  <2> QED
    BY <2>4, <2>6, <2>7, <2>8, <2>9, <2>10 DEF AuditInv
<1>4. CASE e \notin Folder
  <2>1. pc' = "failed" /\ held' = held /\ checked' \in 0..Leaf
    BY <1>1, <1>2, <1>4 DEF EnterDirectory, Fail, AuditInv, AuditTypes
  <2>2. ~Calm
    <3>1. Calm => e \in Folder
      BY <1>1, NextOnRecord DEF AuditInv
    <3> QED
      BY <3>1, <1>4
  <2> QED
    BY <1>1, <2>1, <2>2, AuditRefusal
<1> QED
  BY <1>3, <1>4

LEMMA VerifyDirectoryStep ==
  ASSUME AuditInv, AuditAlone, VerifyDirectory
  PROVE  AuditInv'
<1>1. /\ pc = "verify" /\ Depth \in 2..Leaf /\ Leaf \in Nat /\ file = Nothing
      /\ reading' = reading /\ file' = file /\ checked' \in 0..Leaf
      /\ held' = held /\ root' = root /\ before' = before /\ after' = after
      /\ buffer' = buffer /\ checked' = checked /\ buffer = << >>
  BY AuditPathFacts DEF VerifyDirectory, AuditInv, AuditTypes, Opening, Depth
<1>2. Named(held[Len(held) - 1], Target[Len(held) - 1]) = NamedAt(Depth)
  <2>1. TargetPath[(Depth - 1) + 1] = Target[Depth - 1] /\ (Depth - 1) + 1 = Depth
    <3>1. Depth - 1 \in 1..Leaf /\ (Depth - 1) + 1 = Depth
      BY <1>1
    <3> QED
      BY <3>1, TargetPathFacts DEF AuditInv, AuditTypes
  <2>2. Parent(Depth) = held[Depth - 1]
    BY <1>1 DEF Parent
  <2> QED
    BY <2>1, <2>2 DEF NamedAt, Depth
<1>3. Opened(Depth) = Deepest /\ Depth \in 1..Reach
  BY <1>1 DEF Opened, Deepest, Depth, Reach
<1>4. CASE NamedAt(Depth) = Deepest
  <2>1. pc' = "open"
    BY <1>2, <1>4 DEF VerifyDirectory, FailUnless, Goto
  <2>2. /\ Depth' = Depth /\ Leaf' = Leaf /\ AuditRootKnown' /\ AuditInPlace'
        /\ TargetPath' = TargetPath
        /\ reading > 1 => Evident(reading - 1)' \/ returned' \/ RootMoved'
    BY <1>1, <2>1, OpenedStays
  <2>3. AuditTypes'
    BY <1>1, <2>1, <2>2, AuditAtRest
    DEF AuditInv, AuditTypes, Starting, Opening, AfterFile
  <2>4. AuditRead' /\ ShowingKnown' /\ ReadsAreEvident'
    BY <1>1, <2>1, <2>2, AuditAtRest DEF AuditRead, ReadsAreEvident
  <2>5. AuditCalm'
    <3>1. \A k : Walk(TargetPath, k)' = Walk(TargetPath, k)
      BY <2>2, AuditAtRest DEF Walk
    <3> QED
      BY <1>1, <2>1, <2>2, <3>1, AuditAtRest DEF AuditInv, AuditCalm
  <2> QED
    BY <2>2, <2>3, <2>4, <2>5, AuditAtRest DEF AuditInv
<1>5. CASE NamedAt(Depth) # Deepest
  <2>1. pc' = "failed"
    BY <1>2, <1>5 DEF VerifyDirectory, FailUnless, Fail
  <2>2. ~Calm
    BY <1>1, <1>3, <1>5, <2>1, OpenedStays
  <2> QED
    BY <1>1, <2>1, <2>2, AuditRefusal
<1> QED
  BY <1>4, <1>5

(* The lookup of the record's name in the directory that was opened last.  *)
LEMMA FileEntryIs ==
  ASSUME AuditInv, Depth = Leaf
  PROVE  /\ FileEntry = NamedAt(Leaf + 1) /\ Leaf + 1 # 1
         /\ Calm => FileEntry = Leads(TargetPath)
<1>1. reading \in 1..4 /\ Leaf \in Nat /\ Leaf >= 1
  BY AuditPathFacts DEF AuditInv, AuditTypes
<1>2. TargetPath[Leaf + 1] = Target[Leaf] /\ Parent(Leaf + 1) = held[Leaf]
  BY <1>1, TargetPathFacts DEF Parent
<1>3. FileEntry = NamedAt(Leaf + 1)
  BY <1>2 DEF FileEntry, NamedAt
<1>4. ASSUME Calm PROVE NamedAt(Leaf + 1) = Leads(TargetPath)
  <2>1. Leaf + 1 \in 1..Leaf + 1 /\ Leaf + 1 <= Depth + 1
    BY <1>1
  <2>2. NamedAt(Leaf + 1) = Walk(TargetPath, Leaf + 1)
    BY <2>1, <1>4, NextOnRecord DEF AuditInv
  <2>3. Walk(TargetPath, Leaf + 1) = Leads(TargetPath)
    BY <1>4, NextOnRecord DEF AuditInv
  <2> QED
    BY <2>2, <2>3
<1> QED
  BY <1>1, <1>3, <1>4

LEMMA InspectStep ==
  ASSUME AuditInv, AuditAlone, Inspect
  PROVE  AuditInv'
<1>1. /\ pc = "open" /\ Depth = Leaf /\ Leaf \in Nat /\ Leaf >= 1
      /\ file = Nothing /\ reading' = reading /\ checked' \in 0..Leaf
      /\ held' = held /\ root' = root /\ before' = before /\ after' = after
      /\ buffer' = buffer /\ checked' = checked /\ buffer = << >>
      /\ TargetPath' = TargetPath /\ Leaf' = Leaf /\ Depth' = Depth
  BY AuditPathFacts
  DEF Inspect, AuditInv, AuditTypes, Opening, Depth, TargetPath, Leaf, Target
<1>2. CASE FileEntry \in File
  <2>1. file' = FileEntry /\ pc' = "openFile" /\ FileEntry # Nothing
    BY <1>2, TreeAssumption DEF Inspect, Goto, Inode
  <2>2. Reach = Leaf /\ Reach' = Leaf + 1
    BY <1>1, <2>1 DEF Reach
  <2>3. AuditTypes'
    BY <1>1, <1>2, <2>1, AuditAtRest
    DEF AuditInv, AuditTypes, Starting, Opening, AfterFile
  <2>4. AuditRootKnown'
    BY <1>1, <2>1 DEF AuditInv, AuditRootKnown
  <2>5. AuditInPlace'
    <3> SUFFICES ASSUME NEW k \in 1..Leaf + 1
                 PROVE  NamedAt(k)' = Opened(k)' \/ Moved(k)'
      BY <2>2 DEF AuditInPlace
    <3>1. NamedAt(k)' = NamedAt(k)
      BY <1>1, NamedAtIs, AuditAtRest
    <3>2. CASE k = Leaf + 1
      <4>1. Opened(k)' = file'
        BY <1>1, <3>2 DEF Opened
      <4> QED
        BY <1>1, <3>1, <3>2, <4>1, <2>1, FileEntryIs
    <3>3. CASE k # Leaf + 1
      <4>1. k \in 1..Leaf /\ Opened(k)' = Opened(k)
        BY <1>1, <3>3, NamedAtIs DEF Opened
      <4>2. Moved(k)' <=> Moved(k)
        BY <1>1, <4>1, NamedAtIs, AuditAtRest
      <4> QED
        BY <4>1, <4>2, <3>1, <2>2 DEF AuditInv, AuditInPlace
    <3> QED
      BY <3>2, <3>3
  <2>6. AuditRead' /\ ShowingKnown'
    BY <2>1, AuditAtRest DEF AuditRead
  <2>7. ReadsAreEvident'
    <3>1. RootMoved' = RootMoved
      BY <1>1, AuditAtRest DEF RootMoved
    <3> QED
      BY <1>1, <2>1, <3>1, AuditAtRest DEF AuditInv, ReadsAreEvident, Evident
  <2>8. AuditCalm'
    <3>1. /\ \A k : Walk(TargetPath, k)' = Walk(TargetPath, k)
          /\ Leads(TargetPath)' = Leads(TargetPath)
      BY <1>1, AuditAtRest DEF Walk
    <3>2. Calm => file' = Leads(TargetPath)
      BY <1>1, <2>1, FileEntryIs
    <3> QED
      BY <1>1, <2>1, <3>1, <3>2, AuditAtRest DEF AuditInv, AuditCalm
  <2> QED
    BY <2>3, <2>4, <2>5, <2>6, <2>7, <2>8 DEF AuditInv
<1>3. CASE FileEntry \notin File
  <2>1. pc' = "failed" /\ file' = file
    BY <1>3 DEF Inspect, Fail
  <2>2. ~Calm
    <3>1. Calm => FileEntry \in File
      BY <1>1, FileEntryIs, NextOnRecord DEF AuditInv
    <3> QED
      BY <3>1, <1>3
  <2> QED
    BY <1>1, <2>1, <2>2, AuditRefusal
<1> QED
  BY <1>2, <1>3

LEMMA RecordStays ==
  ASSUME AuditInv, AuditAlone, held' = held, file' = file, reading' = reading
  PROVE  /\ \A k : Walk(TargetPath, k)' = Walk(TargetPath, k)
         /\ Leads(TargetPath)' = Leads(TargetPath)
         /\ State(file)' = State(file) /\ Size(file)' = Size(file)
         /\ Depth' = Depth /\ Leaf' = Leaf /\ Want' = Want
<1>1. TargetPath' = TargetPath /\ Depth' = Depth /\ Leaf' = Leaf /\ Want' = Want
  BY DEF TargetPath, Target, Depth, Leaf, Want
<1> QED
  BY <1>1, AuditAtRest DEF Walk, State, Size

LEMMA OpenInspectedStep ==
  ASSUME AuditInv, AuditAlone, OpenInspected
  PROVE  AuditInv'
<1>1. /\ pc = "openFile" /\ Depth = Leaf /\ Leaf \in Nat
      /\ file # Nothing /\ file \in File /\ reading' = reading /\ checked' \in 0..Leaf
      /\ held' = held /\ root' = root /\ file' = file /\ after' = after
      /\ buffer' = buffer /\ checked' = checked /\ buffer = << >>
  BY AuditPathFacts DEF OpenInspected, AuditInv, AuditTypes, AfterFile
<1>2. CASE FileEntry = file /\ Size(file) = Len(Want)
  <2>1. pc' = "read" /\ before' = State(file)
    BY <1>1, <1>2 DEF OpenInspected, FailUnless, Goto
  <2>2. /\ AuditRootKnown' /\ AuditInPlace'
        /\ reading > 1 => Evident(reading - 1)' \/ returned' \/ RootMoved'
    BY <1>1, <2>1, OpenedStays
  <2>3. AuditTypes'
    BY <1>1, <2>1, RecordStays, AuditAtRest
    DEF AuditInv, AuditTypes, Starting, Opening, AfterFile
  <2>4. AuditRead'
    <3>1. content[file] \in Content /\ stamp[file] \in 0..changes
      <4>1. file \in Inode
        BY <1>1 DEF Inode
      <4> QED
        BY <1>1, <4>1 DEF AuditInv, AuditTypes, TreeInv, TreeTypeOK
    <3>2. 0 <= Len(content[file])
      BY <3>1, ContentIsSequence
    <3>3. /\ before'[1] = file /\ before'[2] = stamp[file]
          /\ before'[3] = Len(Want)
      BY <1>2, <2>1 DEF State
    <3> QED
      BY <1>1, <2>1, <3>1, <3>2, <3>3, RecordStays, AuditAtRest DEF AuditRead
  <2>5. ShowingKnown' /\ ReadsAreEvident'
    BY <1>1, <2>1, <2>2, AuditAtRest DEF ReadsAreEvident
  <2>6. AuditCalm'
    BY <1>1, <2>1, RecordStays, AuditAtRest DEF AuditInv, AuditCalm
  <2> QED
    BY <2>2, <2>3, <2>4, <2>5, <2>6 DEF AuditInv
<1>3. CASE ~(FileEntry = file /\ Size(file) = Len(Want))
  <2>1. pc' = "failed"
    BY <1>3 DEF OpenInspected, FailUnless, Fail
  <2>2. ~Calm
    <3> SUFFICES ASSUME Calm PROVE FALSE
      OBVIOUS
    <3>1. FileEntry = Leads(TargetPath)
      BY <1>1, FileEntryIs
    <3>2. file = Leads(TargetPath)
      BY <1>1 DEF AuditInv, AuditCalm
    <3>3. content[file] = Want
      BY <3>2, NextOnRecord DEF AuditInv
    <3> QED
      BY <1>1, <1>3, <3>1, <3>2, <3>3 DEF Size
  <2> QED
    BY <1>1, <2>1, <2>2, AuditRefusal
<1> QED
  BY <1>2, <1>3

LEMMA ReadOnStep ==
  ASSUME AuditInv, AuditAlone, ReadOn
  PROVE  AuditInv'
<1> DEFINE c == content[file]
<1>1. /\ pc = "read" /\ pc' = "read" /\ Depth = Leaf
      /\ file # Nothing /\ file \in File /\ reading' = reading
      /\ held' = held /\ root' = root /\ file' = file /\ after' = after
      /\ before' = before /\ checked' = checked
      /\ Len(buffer) < Len(c) /\ buffer' = Append(buffer, c[Len(buffer) + 1])
  BY DEF ReadOn, AuditInv, AuditTypes, AfterFile, Size
<1>2. c \in Seq(Block) /\ buffer \in Seq(Block)
  <2>1. c \in Content
    BY <1>1 DEF AuditInv, AuditTypes, TreeInv, TreeTypeOK
  <2> QED
    BY <2>1, ContentIsSequence DEF AuditInv, AuditTypes
<1>3. /\ buffer' \in Seq(Block) /\ Len(buffer') = Len(buffer) + 1
      /\ Len(buffer) + 1 <= Len(c) /\ Len(buffer) \in Nat
      /\ buffer'[Len(buffer) + 1] = c[Len(buffer) + 1]
      /\ \A j \in 1..Len(buffer) : buffer'[j] = buffer[j]
  <2> HIDE DEF c
  <2>1. Len(c) \in Nat /\ Len(buffer) \in Nat
    BY <1>2
  <2>2. Len(buffer) + 1 \in 1..Len(c)
    BY <1>1, <2>1
  <2>3. c[Len(buffer) + 1] \in Block
    BY <1>2, <2>2
  <2> QED
    BY <1>1, <1>2, <2>1, <2>2, <2>3
<1>4. /\ AuditRootKnown' /\ AuditInPlace'
      /\ reading > 1 => Evident(reading - 1)' \/ returned' \/ RootMoved'
  BY <1>1, OpenedStays
<1>5. AuditTypes'
  BY <1>1, <1>3, RecordStays, AuditAtRest
  DEF AuditInv, AuditTypes, Starting, Opening, AfterFile
<1>6. AuditRead'
  <2>1. /\ before[1] = file /\ before[2] \in 0..changes /\ before[3] = Len(Want)
        /\ stamp[file] = before[2] => \A j \in 1..Len(buffer) : buffer[j] = c[j]
    BY <1>1 DEF AuditInv, AuditRead
  <2>2. ASSUME stamp[file] = before[2], NEW j \in 1..Len(buffer')
        PROVE  buffer'[j] = c[j]
    <3> HIDE DEF c
    <3>1. j \in 1..Len(buffer) \/ j = Len(buffer) + 1
      BY <1>3
    <3> QED
      BY <3>1, <2>1, <2>2, <1>3
  <2>3. content'[file'] = c /\ stamp' = stamp /\ changes' = changes /\ Want' = Want
    BY <1>1, RecordStays, AuditAtRest
  <2> HIDE DEF c
  <2> QED
    BY <1>1, <1>3, <2>1, <2>2, <2>3 DEF AuditRead
<1>7. ShowingKnown' /\ ReadsAreEvident'
  BY <1>1, <1>4, AuditAtRest DEF ReadsAreEvident
<1>8. AuditCalm'
  BY <1>1, RecordStays, AuditAtRest DEF AuditInv, AuditCalm
<1> QED
  BY <1>4, <1>5, <1>6, <1>7, <1>8 DEF AuditInv

(* A file that bears the stamp it was opened with has been read whole.     *)
LEMMA RecordWhole ==
  ASSUME AuditInv, pc = "read", State(file) = before,
         Len(buffer) >= Size(file) \/ Len(buffer) > Len(Want)
  PROVE  buffer = content[file]
<1> DEFINE c == content[file]
<1>1. file \in File
  BY DEF AuditInv, AuditTypes, AfterFile
<1>2. c \in Seq(Block) /\ buffer \in Seq(Block)
  <2>1. c \in Content
    BY <1>1 DEF AuditInv, AuditTypes, TreeInv, TreeTypeOK
  <2> QED
    BY <2>1, ContentIsSequence DEF AuditInv, AuditTypes
<1>3. /\ before[2] = stamp[file] /\ before[3] = Len(c) /\ Size(file) = Len(c)
  BY <1>1 DEF Size, State
<1>4. /\ Len(buffer) <= Len(c) /\ before[3] = Len(Want)
      /\ \A j \in 1..Len(buffer) : buffer[j] = c[j]
  BY <1>1, <1>3 DEF AuditInv, AuditRead
<1>5. Len(buffer) = Len(c)
  <2> HIDE DEF c
  <2>1. Len(c) \in Nat /\ Len(buffer) \in Nat
    BY <1>2
  <2> QED
    BY <2>1, <1>3, <1>4
<1>6. buffer = c
  <2> HIDE DEF c
  <2> QED
    BY <1>2, <1>4, <1>5
<1> QED
  BY <1>6 DEF c

LEMMA StopReadingStep ==
  ASSUME AuditInv, AuditAlone, StopReading
  PROVE  AuditInv'
<1>1. /\ pc = "read" /\ pc' = "recheck" /\ Depth = Leaf /\ Leaf \in Nat /\ Leaf >= 1
      /\ file # Nothing /\ file \in File /\ reading' = reading /\ reading \in 1..4
      /\ held' = held /\ root' = root /\ file' = file
      /\ before' = before /\ buffer' = buffer /\ checked' = 1
      /\ after' = State(file)
      /\ Len(buffer) >= Size(file) \/ Len(buffer) > Len(Want)
  BY AuditPathFacts DEF StopReading, Goto, AuditInv, AuditTypes, AfterFile
<1>2. /\ AuditRootKnown' /\ AuditInPlace'
      /\ reading > 1 => Evident(reading - 1)' \/ returned' \/ RootMoved'
      /\ Evident(reading)' = Evident(reading) /\ RootMoved' = RootMoved
      /\ \A k : Moved(k)' = Moved(k)
  BY <1>1, OpenedStays
<1>3. AuditTypes'
  BY <1>1, RecordStays, AuditAtRest
  DEF AuditInv, AuditTypes, Starting, Opening, AfterFile
<1>4. AuditRead' /\ ShowingKnown'
  BY <1>1, AuditAtRest DEF AuditRead
<1>5. ReadsAreEvident'
  <2>1. ASSUME before = after', buffer = Want
        PROVE  \/ Evident(reading) \/ returned \/ RootMoved
               \/ \E k \in 2..Leaf + 1 : Moved(k)
    <3>1. buffer = content[file]
      BY <1>1, <2>1, RecordWhole
    <3>2. CASE \A k \in 1..Leaf + 1 : NamedAt(k) = Opened(k)
      <4>1. Leads(TargetPath) = file
        BY <1>1, <3>2, FileReached DEF AuditInv
      <4>2. Shows(Target)
        BY <1>1, <2>1, <3>1, <4>1 DEF Shows, TargetPath, Want
      <4> QED
        BY <4>2, ShownIsEvident
    <3>3. CASE \E k \in 1..Leaf + 1 : NamedAt(k) # Opened(k)
      <4>1. PICK k \in 1..Leaf + 1 : NamedAt(k) # Opened(k)
        BY <3>3
      <4>2. Moved(k)
        BY <1>1, <4>1 DEF AuditInv, AuditInPlace, Reach
      <4>3. CASE k = 1
        BY <1>1, <4>2, <4>3, RootMovedIs
      <4>4. CASE k # 1
        <5>1. k \in 2..Leaf + 1
          BY <1>1, <4>4
        <5> QED
          BY <4>2, <5>1
      <4> QED
        BY <4>3, <4>4
    <3> QED
      BY <3>2, <3>3
  <2>2. \A k \in 2..Leaf + 1 : k > checked'
    BY <1>1
  <2>3. before = after' /\ buffer = Want =>
          \/ Evident(reading)' \/ returned' \/ RootMoved'
          \/ \E k \in 2..Leaf + 1 : k > checked' /\ Moved(k)'
    BY <2>1, <2>2, <1>2, AuditAtRest
  <2> QED
    BY <1>1, <1>2, <2>3, RecordStays DEF ReadsAreEvident
<1>6. AuditCalm'
  <2>1. ASSUME Calm PROVE after' = before /\ buffer = Want
    <3>1. before = State(file) /\ file = Leads(TargetPath)
      BY <1>1, <2>1 DEF AuditInv, AuditCalm
    <3>2. buffer = content[file]
      BY <1>1, <3>1, RecordWhole
    <3>3. content[file] = Want
      BY <2>1, <3>1, NextOnRecord DEF AuditInv
    <3> QED
      BY <1>1, <3>1, <3>2, <3>3
  <2> QED
    BY <1>1, <2>1, RecordStays, AuditAtRest DEF AuditInv, AuditCalm
<1> QED
  BY <1>2, <1>3, <1>4, <1>5, <1>6 DEF AuditInv

(* A component that is in its place, and has been gone, has returned.      *)
LEMMA BackOnRecord ==
  ASSUME AuditInv, NEW k \in 1..Reach, NamedAt(k) = Opened(k), Moved(k)
  PROVE  returned
<1>1. Opened(k) \in Inode /\ Opened(k) # Nothing
  <2>1. /\ Leaf \in Nat /\ Depth \in Nat /\ Depth <= Leaf /\ held \in Seq(Folder)
        /\ file \in File \cup {Nothing} /\ (file # Nothing => Depth = Leaf)
    BY AuditPathFacts DEF AuditInv, AuditTypes, Depth
  <2>2. CASE k <= Leaf
    <3>1. k \in 1..Depth
      BY <2>1, <2>2 DEF Reach
    <3>2. Opened(k) \in Folder
      BY <2>1, <2>2, <3>1 DEF Opened, Depth
    <3> QED
      BY <3>2, TreeAssumption DEF Inode
  <2>3. CASE ~(k <= Leaf)
    <3>1. Opened(k) \in File
      BY <2>1, <2>3 DEF Opened, Reach
    <3> QED
      BY <3>1, TreeAssumption DEF Inode
  <2> QED
    BY <2>2, <2>3
<1>2. OpenedAt(k) \in Slot /\ entry[OpenedAt(k)] = Opened(k)
  BY <1>1 DEF NamedAt, Named, OpenedAt
<1> QED
  BY <1>2 DEF AuditInv, AuditTypes, TreeInv, Moved

LEMMA RecheckDirectoryStep ==
  ASSUME AuditInv, AuditAlone, RecheckDirectory
  PROVE  AuditInv'
<1> DEFINE k == checked + 1
<1>1. /\ pc = "recheck" /\ Depth = Leaf /\ Leaf \in Nat /\ Reach = Leaf + 1
      /\ k \in 2..Leaf /\ k \in 1..Reach /\ checked' = k /\ checked \in 1..Leaf
      /\ file # Nothing /\ reading' = reading
      /\ held' = held /\ root' = root /\ file' = file
      /\ before' = before /\ buffer' = buffer /\ after' = after
  BY AuditPathFacts DEF RecheckDirectory, AuditInv, AuditTypes, AfterFile, Reach
<1>2. /\ Named(held[checked], Target[checked]) = NamedAt(k)
      /\ held[checked + 1] = Opened(k)
  <2>1. TargetPath[checked + 1] = Target[checked]
    BY <1>1, TargetPathFacts DEF AuditInv, AuditTypes
  <2>2. Parent(checked + 1) = held[checked]
    BY <1>1 DEF Parent
  <2> QED
    BY <1>1, <2>1, <2>2 DEF NamedAt, Opened
<1> HIDE DEF k
<1>3. CASE NamedAt(k) = Opened(k)
  <2>1. pc' = "recheck"
    BY <1>1, <1>2, <1>3 DEF RecheckDirectory, FailUnless, Goto
  <2>2. /\ AuditRootKnown' /\ AuditInPlace'
        /\ reading > 1 => Evident(reading - 1)' \/ returned' \/ RootMoved'
        /\ Evident(reading)' = Evident(reading) /\ RootMoved' = RootMoved
        /\ \A j : Moved(j)' = Moved(j)
    BY <1>1, <2>1, OpenedStays
  <2>3. AuditTypes'
    BY <1>1, <2>1, RecordStays, AuditAtRest
    DEF AuditInv, AuditTypes, Starting, Opening, AfterFile
  <2>4. AuditRead' /\ ShowingKnown'
    BY <2>1, AuditAtRest DEF AuditRead
  <2>5. ReadsAreEvident'
    <3>1. before = after /\ buffer = Want =>
            \/ Evident(reading) \/ returned \/ RootMoved
            \/ \E j \in 2..Leaf + 1 : j > checked /\ Moved(j)
      BY <1>1 DEF AuditInv, ReadsAreEvident
    <3>2. ASSUME NEW j \in 2..Leaf + 1, j > checked, Moved(j), ~returned
          PROVE  j > checked'
      <4>1. j # k
        BY <1>1, <1>3, <3>2, BackOnRecord
      <4> QED
        BY <1>1, <3>2, <4>1 DEF k
    <3>3. before = after /\ buffer = Want =>
            \/ Evident(reading)' \/ returned' \/ RootMoved'
            \/ \E j \in 2..Leaf + 1 : j > checked' /\ Moved(j)'
      BY <3>1, <3>2, <2>2, AuditAtRest
    <3> QED
      BY <1>1, <2>1, <2>2, <3>3, RecordStays DEF ReadsAreEvident
  <2>6. AuditCalm'
    BY <1>1, <2>1, RecordStays, AuditAtRest DEF AuditInv, AuditCalm
  <2> QED
    BY <2>2, <2>3, <2>4, <2>5, <2>6 DEF AuditInv
<1>4. CASE NamedAt(k) # Opened(k)
  <2>1. pc' = "failed" /\ checked' \in 0..Leaf
    BY <1>1, <1>2, <1>4 DEF RecheckDirectory, FailUnless, Fail
  <2>2. ~Calm
    BY <1>1, <1>4, <2>1, OpenedStays
  <2> QED
    BY <1>1, <2>1, <2>2, AuditRefusal
<1> QED
  BY <1>3, <1>4

LEMMA RecheckFileStep ==
  ASSUME AuditInv, AuditAlone, RecheckFile
  PROVE  AuditInv'
<1>1. /\ pc = "recheck" /\ Depth = Leaf /\ Leaf \in Nat /\ Reach = Leaf + 1
      /\ Leaf + 1 \in 1..Reach /\ Opened(Leaf + 1) = file
      /\ checked' = checked /\ checked = Leaf /\ checked \in 0..Leaf
      /\ file # Nothing /\ reading' = reading
      /\ held' = held /\ root' = root /\ file' = file
      /\ before' = before /\ buffer' = buffer /\ after' = after
      /\ FileEntry = NamedAt(Leaf + 1)
  BY AuditPathFacts, FileEntryIs
  DEF RecheckFile, AuditInv, AuditTypes, AfterFile, Reach, Opened
<1>2. CASE FileEntry = file
  <2>1. pc' = "compare"
    BY <1>2 DEF RecheckFile, FailUnless, Goto
  <2>2. /\ AuditRootKnown' /\ AuditInPlace'
        /\ reading > 1 => Evident(reading - 1)' \/ returned' \/ RootMoved'
        /\ Evident(reading)' = Evident(reading) /\ RootMoved' = RootMoved
    BY <1>1, <2>1, OpenedStays
  <2>3. AuditTypes'
    BY <1>1, <2>1, RecordStays, AuditAtRest
    DEF AuditInv, AuditTypes, Starting, Opening, AfterFile
  <2>4. AuditRead' /\ ShowingKnown'
    BY <2>1, AuditAtRest DEF AuditRead
  <2>5. ReadsAreEvident'
    <3>1. before = after /\ buffer = Want =>
            \/ Evident(reading) \/ returned \/ RootMoved
            \/ \E j \in 2..Leaf + 1 : j > checked /\ Moved(j)
      BY <1>1 DEF AuditInv, ReadsAreEvident
    <3>2. ASSUME NEW j \in 2..Leaf + 1, j > checked, Moved(j)
          PROVE  returned
      <4>1. j = Leaf + 1
        BY <1>1, <3>2
      <4> QED
        BY <1>1, <1>2, <3>2, <4>1, BackOnRecord
    <3>3. before = after /\ buffer = Want =>
            Evident(reading)' \/ returned' \/ RootMoved'
      BY <3>1, <3>2, <2>2, AuditAtRest
    <3> QED
      BY <1>1, <2>1, <2>2, <3>3, RecordStays DEF ReadsAreEvident
  <2>6. AuditCalm'
    BY <1>1, <2>1, RecordStays, AuditAtRest DEF AuditInv, AuditCalm
  <2> QED
    BY <2>2, <2>3, <2>4, <2>5, <2>6 DEF AuditInv
<1>3. CASE FileEntry # file
  <2>1. pc' = "failed" /\ checked' \in 0..Leaf
    BY <1>1, <1>3 DEF RecheckFile, FailUnless, Fail
  <2>2. ~Calm
    BY <1>1, <1>3, <2>1, OpenedStays
  <2> QED
    BY <1>1, <2>1, <2>2, AuditRefusal
<1> QED
  BY <1>2, <1>3

(* The root is where the path of each record begins.                       *)
LEMMA RootOnRecord ==
  ASSUME NEW p \in Records
  PROVE  RootEntry = Walk(FullPath(p), 1) /\ RootEntry' = Walk(FullPath(p), 1)'
<1> DEFINE q == FullPath(p)
<1>1. q \in Seq(STRING) /\ q # << >> /\ q[1] = RootName /\ 1 \in 1..Len(q) /\ 1 - 1 = 0
  BY FullPathFacts
<1> HIDE DEF q
<1>2. /\ RootEntry = NameIn(entry, Outside, q[1])
      /\ RootEntry' = NameIn(entry', Outside, q[1])
  BY <1>1 DEF RootEntry, Named, NameIn
<1>3. /\ Walk(q, 1) = EndOf(entry, SubSeq(q, 1, 1))
      /\ Walk(q, 1)' = EndOf(entry', SubSeq(q, 1, 1))
  BY EndOfEntry DEF Walk
<1>4. \A e : EndOf(e, SubSeq(q, 1, 1)) = NameIn(e, Outside, q[1])
  <2> TAKE e
  <2>1. EndOf(e, SubSeq(q, 1, 0)) = Outside
    BY <1>1, Walks
  <2>2. EndOf(e, SubSeq(q, 1, 1)) = Below(e, EndOf(e, SubSeq(q, 1, 1 - 1)), q[1])
    BY <1>1, Walks
  <2> QED
    BY <2>1, <2>2, <1>1 DEF Below
<1> QED
  BY <1>2, <1>3, <1>4 DEF q

LEMMA CompareBytesStep ==
  ASSUME AuditInv, AuditAlone, CompareBytes
  PROVE  AuditInv'
<1>1. /\ pc = "compare" /\ Depth = Leaf /\ Leaf \in Nat /\ Leaf >= 1
      /\ checked \in 0..Leaf /\ reading \in 1..4 /\ held \in Seq(Folder)
      /\ file # Nothing /\ root' = root /\ Len(Reads) = 4
      /\ held # << >> /\ held[1] = root[1]
  <2>1. /\ pc = "compare" /\ Depth = Leaf /\ Leaf \in Nat /\ Leaf >= 1
        /\ checked \in 0..Leaf /\ reading \in 1..4 /\ held \in Seq(Folder)
        /\ file # Nothing /\ root' = root /\ Len(Reads) = 4
    BY AuditPathFacts DEF CompareBytes, AuditInv, AuditTypes, AfterFile, Reads
  <2>2. held # << >>
    BY <2>1 DEF Depth
  <2> QED
    BY <2>1, <2>2 DEF AuditInv, AuditRootKnown
<1>2. CASE before = after /\ buffer = Want /\ reading < 4
  <2>1. /\ reading' = reading + 1 /\ held' = <<held[1]>> /\ pc' = "open"
        /\ file' = Nothing /\ buffer' = << >> /\ checked' = 0
    BY <1>1, <1>2 DEF CompareBytes, Goto
  <2>2. /\ reading' \in 1..4 /\ Target' \in Records /\ Leaf' \in Nat /\ Leaf' >= 1
        /\ TargetPath' = FullPath(Target') /\ TargetPath'[1] = RootName
    <3>1. reading' \in 1..4
      BY <1>1, <1>2, <2>1
    <3>2. Target' \in Records
      BY <3>1 DEF Target, Reads, Records
    <3>3. \A p \in Records : Len(p) \in Nat /\ Len(p) >= 1 /\ FullPath(p)[1] = RootName
      BY FullPathFacts
    <3> QED
      BY <3>1, <3>2, <3>3 DEF Leaf, TargetPath
  <2>3. held[1] \in Folder /\ Depth' = 1 /\ held'[1] = held[1] /\ Reach' = 1
        /\ held' \in Seq(Folder) /\ held' # << >>
    <3>1. 1 \in 1..Len(held)
      BY <1>1 DEF Depth
    <3>2. held[1] \in Folder
      BY <1>1, <3>1
    <3> QED
      BY <2>1, <3>2 DEF Depth, Reach
  <2>4. AuditTypes'
    BY <2>1, <2>2, <2>3, AuditAtRest
    DEF AuditInv, AuditTypes, Starting, Opening, AfterFile
  <2>5. AuditRootKnown'
    BY <1>1, <2>1, <2>3 DEF AuditRootKnown
  <2>6. RootMoved' = RootMoved
    BY <2>3, AuditAtRest DEF RootMoved
  <2>7. AuditInPlace'
    <3>1. NamedAt(1) = RootEntry /\ NamedAt(1)' = RootEntry
      <4>1. TargetPath[1] = RootName
        BY <1>1, TargetPathFacts
      <4> QED
        BY <2>2, <4>1, AuditAtRest DEF NamedAt, Parent, RootEntry, Named
    <3>2. Opened(1) = held[1] /\ Opened(1)' = held[1]
      BY <1>1, <2>2, <2>3 DEF Opened
    <3>3. Moved(1) <=> RootMoved
      BY <1>1, RootMovedIs
    <3>4. Moved(1)' <=> RootMoved
      BY <2>2, <3>2, AuditAtRest DEF Moved, OpenedAt, Parent, RootMoved
    <3>5. NamedAt(1) = Opened(1) \/ Moved(1)
      BY <1>1 DEF AuditInv, AuditInPlace, Reach
    <3> QED
      BY <2>3, <3>1, <3>2, <3>3, <3>4, <3>5 DEF AuditInPlace
  <2>8. AuditRead' /\ ShowingKnown'
    BY <2>1, AuditAtRest DEF AuditRead
  <2>9. ReadsAreEvident'
    <3>1. Evident(reading) \/ returned \/ RootMoved
      BY <1>1, <1>2 DEF AuditInv, ReadsAreEvident
    <3>2. reading' - 1 = reading
      BY <1>1, <2>1
    <3>3. Evident(reading - 1)' <=> Evident(reading)
      BY <3>2, AuditAtRest DEF Evident
    <3> QED
      BY <2>1, <2>6, <3>1, <3>3, AuditAtRest DEF ReadsAreEvident
  <2>10. AuditCalm'
    <3> SUFFICES ASSUME Calm
                 PROVE  \A k \in 1..Depth' : held'[k] = Walk(TargetPath, k)'
      BY <2>1, AuditAtRest DEF AuditCalm
    <3>1. RootEntry = held[1]
      BY <1>1, NextOnRecord DEF AuditInv, AuditCalm
    <3>2. \A p \in Records : Walk(FullPath(p), 1)' = RootEntry'
      BY RootOnRecord
    <3>3. Walk(TargetPath, 1)' = RootEntry
      BY <2>2, <3>2, AuditAtRest
    <3> QED
      BY <2>3, <3>1, <3>3
  <2> QED
    BY <2>4, <2>5, <2>7, <2>8, <2>9, <2>10 DEF AuditInv
<1>3. CASE before = after /\ buffer = Want /\ reading = 4
  <2>1. /\ reading' = reading /\ held' = held /\ pc' = "requalify"
        /\ file' = file /\ buffer' = buffer /\ checked' = checked
        /\ before' = before /\ after' = after
    BY <1>1, <1>3 DEF CompareBytes, Goto
  <2>2. /\ AuditRootKnown' /\ AuditInPlace'
        /\ reading > 1 => Evident(reading - 1)' \/ returned' \/ RootMoved'
        /\ Evident(reading)' = Evident(reading) /\ RootMoved' = RootMoved
    BY <1>1, <2>1, OpenedStays
  <2>3. AuditTypes'
    BY <1>1, <1>3, <2>1, RecordStays, AuditAtRest
    DEF AuditInv, AuditTypes, Starting, Opening, AfterFile
  <2>4. AuditRead' /\ ShowingKnown'
    BY <2>1, AuditAtRest DEF AuditRead
  <2>5. ReadsAreEvident'
    <3>1. Evident(reading) \/ returned \/ RootMoved
      BY <1>1, <1>3 DEF AuditInv, ReadsAreEvident
    <3>2. Evident(4)' <=> Evident(reading)
      BY <1>3, AuditAtRest DEF Evident
    <3> QED
      BY <2>1, <2>2, <3>1, <3>2, AuditAtRest DEF ReadsAreEvident
  <2>6. AuditCalm'
    BY <2>1, RecordStays, AuditAtRest DEF AuditInv, AuditCalm
  <2> QED
    BY <2>2, <2>3, <2>4, <2>5, <2>6 DEF AuditInv
<1>4. CASE ~(before = after /\ buffer = Want)
  <2>1. /\ pc' = "failed" /\ reading' = reading /\ held' = held
        /\ file' = file /\ buffer' = buffer /\ checked' = checked
    BY <1>4 DEF CompareBytes, Fail
  <2>2. ~Calm
    BY <1>1, <1>4 DEF AuditInv, AuditCalm
  <2> QED
    BY <1>1, <2>1, <2>2, AuditRefusal
<1> QED
  BY <1>1, <1>2, <1>3, <1>4

LEMMA AuditRequalifyRootStep ==
  ASSUME AuditInv, AuditAlone, RequalifyRoot, UNCHANGED <<reading, file>>
  PROVE  AuditInv'
<1>1. /\ pc = "requalify" /\ Depth = Leaf /\ Leaf \in Nat /\ Leaf >= 1
      /\ reading = 4 /\ file # Nothing /\ checked' \in 0..Leaf
      /\ held' = held /\ root' = root /\ before' = before /\ after' = after
      /\ buffer' = buffer /\ checked' = checked /\ reading' = reading /\ file' = file
      /\ held[1] = root[1] /\ TargetPath[1] = RootName
  <2>1. /\ pc = "requalify" /\ Depth = Leaf /\ Leaf \in Nat /\ Leaf >= 1
        /\ reading = 4 /\ file # Nothing /\ checked \in 0..Leaf
        /\ TargetPath[1] = RootName
    BY AuditPathFacts, TargetPathFacts DEF RequalifyRoot, AuditInv, AuditTypes, AfterFile
  <2>2. held # << >>
    BY <2>1 DEF Depth
  <2> QED
    BY <2>1, <2>2 DEF RequalifyRoot, AuditInv, AuditRootKnown
<1>2. 1 \in 1..Reach /\ NamedAt(1) = RootEntry /\ Opened(1) = held[1]
      /\ (Moved(1) <=> RootMoved)
  BY <1>1, RootMovedIs DEF Reach, NamedAt, Parent, RootEntry, Opened
<1>3. CASE RootEntry = root[1]
  <2>1. pc' = "done"
    BY <1>3 DEF RequalifyRoot, FailUnless, Goto
  <2>2. /\ AuditRootKnown' /\ AuditInPlace'
        /\ reading > 1 => Evident(reading - 1)' \/ returned' \/ RootMoved'
    BY <1>1, <2>1, OpenedStays
  <2>3. AuditTypes'
    BY <1>1, <2>1, RecordStays, AuditAtRest
    DEF AuditInv, AuditTypes, Starting, Opening, AfterFile
  <2>4. AuditRead' /\ ShowingKnown'
    BY <2>1, AuditAtRest DEF AuditRead
  <2>5. ReadsAreEvident'
    <3>1. Evident(4) \/ returned \/ RootMoved
      BY <1>1 DEF AuditInv, ReadsAreEvident
    <3>2. RootMoved => returned
      BY <1>1, <1>2, <1>3, BackOnRecord
    <3>3. Evident(4)' = Evident(4)
      BY AuditAtRest
    <3> QED
      BY <1>1, <2>1, <2>2, <3>1, <3>2, <3>3, AuditAtRest DEF ReadsAreEvident
  <2>6. AuditCalm'
    BY <1>1, <2>1, RecordStays, AuditAtRest DEF AuditInv, AuditCalm
  <2> QED
    BY <2>2, <2>3, <2>4, <2>5, <2>6 DEF AuditInv
<1>4. CASE RootEntry # root[1]
  <2>1. pc' = "failed"
    BY <1>4 DEF RequalifyRoot, FailUnless, Fail
  <2>2. ~Calm
    BY <1>1, <1>2, <1>4, <2>1, OpenedStays
  <2> QED
    BY <1>1, <2>1, <2>2, AuditRefusal
<1> QED
  BY <1>3, <1>4

(* Other programs change the tree. *)
LEMMA CalmElsewhere ==
  ASSUME TreeInv, Change, Calm'
  PROVE  /\ Calm /\ RootEntry' = RootEntry
         /\ \A p \in Records :
              /\ Leads(FullPath(p))' = Leads(FullPath(p))
              /\ \A k \in 0..Len(FullPath(p)) :
                   Walk(FullPath(p), k)' = Walk(FullPath(p), k)
              /\ stamp'[Leads(FullPath(p))] = stamp[Leads(FullPath(p))]
              /\ content'[Leads(FullPath(p))] = content[Leads(FullPath(p))]
<1>1. ASSUME NEW p \in Records
      PROVE  /\ Undisturbed(FullPath(p)) /\ Shows(p)
             /\ Leads(FullPath(p))' = Leads(FullPath(p))
             /\ \A k \in 0..Len(FullPath(p)) :
                  Walk(FullPath(p), k)' = Walk(FullPath(p), k)
             /\ stamp'[Leads(FullPath(p))] = stamp[Leads(FullPath(p))]
             /\ content'[Leads(FullPath(p))] = content[Leads(FullPath(p))]
  <2>1. Undisturbed(FullPath(p))' /\ Shows(p)'
    BY DEF Calm
  <2>2. FullPath(p) \in Seq(STRING) /\ FullPath(p) # << >>
    BY FullPathFacts
  <2>3. /\ Undisturbed(FullPath(p))
        /\ Leads(FullPath(p))' = Leads(FullPath(p))
        /\ \A k \in 0..Len(FullPath(p)) :
             Walk(FullPath(p), k)' = Walk(FullPath(p), k)
        /\ stamp'[Leads(FullPath(p))] = stamp[Leads(FullPath(p))]
        /\ content'[Leads(FullPath(p))] = content[Leads(FullPath(p))]
    BY <2>1, <2>2, ChangeElsewhere
  <2>4. Shows(p)
    BY <2>1, <2>3 DEF Shows
  <2> QED
    BY <2>3, <2>4
<1>2. RootEntry' = RootEntry
  <2>1. Manifest \in Records
    BY DEF Records
  <2>2. 1 \in 0..Len(FullPath(Manifest))
    BY <2>1, FullPathFacts
  <2>3. Walk(FullPath(Manifest), 1)' = Walk(FullPath(Manifest), 1)
    BY <2>1, <2>2, <1>1
  <2>4. /\ RootEntry = Walk(FullPath(Manifest), 1)
        /\ RootEntry' = Walk(FullPath(Manifest), 1)'
    BY <2>1, RootOnRecord
  <2> QED
    BY <2>3, <2>4
<1> QED
  BY <1>1, <1>2 DEF Calm

LEMMA TreeChangesInAudit ==
  ASSUME AuditInv, Change, UNCHANGED <<readerVars, reading, file>>, Remember
  PROVE  AuditInv'
<1>1. /\ pc' = pc /\ held' = held /\ root' = root /\ before' = before
      /\ after' = after /\ buffer' = buffer /\ checked' = checked
      /\ reading' = reading /\ file' = file
      /\ Depth' = Depth /\ Leaf' = Leaf /\ Reach' = Reach
      /\ TargetPath' = TargetPath /\ Want' = Want
  BY DEF readerVars, Depth, Leaf, Reach, Target, TargetPath, Want
<1>2. TreeInv /\ TreeTypeOK /\ reading \in 1..4
  BY DEF AuditInv, AuditTypes, TreeInv
<1>3. TreeInv' /\ Effects
  BY <1>2, ChangeStep
<1>4. /\ changes' = changes + 1 /\ changes \in Nat
      /\ \A i \in Inode : stamp'[i] = stamp[i] \/ stamp'[i] = changes + 1
      /\ \A i \in Inode : stamp[i] \in Nat
      /\ pastNames \subseteq pastNames'
      /\ returned => returned'
      /\ \A s \in Slot : entry'[s] = entry[s] \/ <<s, entry[s]>> \in pastNames'
      /\ \A f \in File : content'[f] = content[f] \/ stamp'[f] = changes + 1
  BY <1>2, <1>3 DEF Effects, TreeTypeOK
<1>5. /\ ShowingKnown'
      /\ showing' \in [Records -> {"never", "now", "gone", "again"}]
      /\ together' \in BOOLEAN
      /\ \A n \in 1..4 : Evident(n) => Evident(n)'
  BY Remembered
<1>6. AuditTypes'
  BY <1>1, <1>3, <1>5 DEF AuditInv, AuditTypes
<1>7. AuditRootKnown'
  <2>1. 0..changes \subseteq 0..changes'
    BY <1>4
  <2> QED
    BY <2>1, <1>1 DEF AuditInv, AuditRootKnown
<1>8. /\ \A k : Opened(k)' = Opened(k) /\ OpenedAt(k)' = OpenedAt(k)
      /\ \A k : Moved(k) => Moved(k)'
      /\ RootMoved => RootMoved'
  BY <1>1, <1>4 DEF Opened, OpenedAt, Parent, Moved, RootMoved
<1>9. AuditInPlace'
  <2> SUFFICES ASSUME NEW k \in 1..Reach, NamedAt(k) = Opened(k)
               PROVE  NamedAt(k)' = Opened(k) \/ Moved(k)'
    BY <1>1, <1>8 DEF AuditInv, AuditInPlace
  <2>1. Opened(k) # Nothing
    <3>1. /\ Leaf \in Nat /\ Depth \in Nat /\ held \in Seq(Folder)
          /\ file \in File \cup {Nothing} /\ (file # Nothing => Depth = Leaf)
      BY <1>2, AuditPathFacts DEF AuditInv, AuditTypes, Depth
    <3>2. CASE k <= Leaf
      <4>1. k \in 1..Depth
        BY <3>1, <3>2 DEF Reach
      <4>2. Opened(k) \in Folder
        BY <3>1, <3>2, <4>1 DEF Opened, Depth
      <4> QED
        BY <4>2, TreeAssumption DEF Inode
    <3>3. CASE ~(k <= Leaf)
      <4>1. Depth <= Leaf
        BY DEF AuditInv, AuditTypes
      <4> QED
        BY <3>1, <3>3, <4>1 DEF Opened, Reach
    <3> QED
      BY <3>2, <3>3
  <2>2. OpenedAt(k) \in Slot /\ entry[OpenedAt(k)] = Opened(k)
    BY <2>1 DEF NamedAt, Named, OpenedAt
  <2>3. NamedAt(k)' = entry'[OpenedAt(k)]
    BY <1>1, <2>2 DEF NamedAt, Named, OpenedAt, Parent
  <2>4. Moved(k)' <=> <<OpenedAt(k), Opened(k)>> \in pastNames'
    BY <1>8 DEF Moved
  <2> QED
    BY <2>2, <2>3, <2>4, <1>4
<1>10. AuditRead'
  <2> SUFFICES ASSUME pc = "read"
               PROVE  /\ before[1] = file /\ before[2] \in 0..changes'
                      /\ before[3] = Len(Want)
                      /\ stamp'[file] = before[2] =>
                           /\ Len(buffer) <= Len(content'[file])
                           /\ \A j \in 1..Len(buffer) : buffer[j] = content'[file][j]
    BY <1>1 DEF AuditRead
  <2>1. /\ before[1] = file /\ before[2] \in 0..changes /\ before[3] = Len(Want)
        /\ stamp[file] = before[2] =>
             /\ Len(buffer) <= Len(content[file])
             /\ \A j \in 1..Len(buffer) : buffer[j] = content[file][j]
    BY DEF AuditInv, AuditRead
  <2>2. file \in File /\ file \in Inode
    BY DEF AuditInv, AuditTypes, AfterFile, Inode
  <2>3. before[2] \in 0..changes' /\ before[2] # changes + 1
    BY <2>1, <1>4
  <2>4. ASSUME stamp'[file] = before[2]
        PROVE  stamp[file] = before[2] /\ content'[file] = content[file]
    BY <2>2, <2>3, <2>4, <1>4
  <2> QED
    BY <2>1, <2>3, <2>4
<1>11. ReadsAreEvident'
  <2>1. Evident(reading) => Evident(reading)'
    <3>1. \A n \in 1..4 : n = reading => (Evident(n) => Evident(n)')
      BY <1>5
    <3> QED
      BY <1>1, <1>2, <3>1 DEF Evident
  <2>2. reading > 1 => (Evident(reading - 1) => Evident(reading - 1)')
    <3>1. \A n \in 1..4 : n = reading - 1 => (Evident(n) => Evident(n)')
      BY <1>5
    <3>2. reading > 1 => reading - 1 \in 1..4
      BY <1>2
    <3> QED
      BY <1>1, <3>1, <3>2 DEF Evident
  <2>3. Evident(4) => Evident(4)'
    BY <1>5
  <2> QED
    BY <1>1, <1>4, <1>8, <2>1, <2>2, <2>3 DEF AuditInv, ReadsAreEvident
<1>12. AuditCalm'
  <2> SUFFICES ASSUME Calm' PROVE AuditCalm'
    BY DEF AuditCalm
  <2>1. /\ Calm /\ RootEntry' = RootEntry
        /\ \A p \in Records :
              /\ Leads(FullPath(p))' = Leads(FullPath(p))
              /\ \A k \in 0..Len(FullPath(p)) :
                   Walk(FullPath(p), k)' = Walk(FullPath(p), k)
              /\ stamp'[Leads(FullPath(p))] = stamp[Leads(FullPath(p))]
              /\ content'[Leads(FullPath(p))] = content[Leads(FullPath(p))]
    BY <1>2, CalmElsewhere
  <2>2. /\ Target \in Records /\ Target' = Target /\ Leaf \in Nat
        /\ Len(TargetPath) = Leaf + 1
    BY <1>1, <1>2, AuditPathFacts, TargetPathFacts DEF Target
  <2>3. /\ Leads(TargetPath)' = Leads(TargetPath)
        /\ \A k \in 0..Leaf + 1 : Walk(TargetPath, k)' = Walk(TargetPath, k)
        /\ stamp'[Leads(TargetPath)] = stamp[Leads(TargetPath)]
        /\ content'[Leads(TargetPath)] = content[Leads(TargetPath)]
    <3>1. \A p \in Records : p = Target =>
              /\ Leads(FullPath(p))' = Leads(FullPath(p))
              /\ \A k \in 0..Leaf + 1 :
                   Walk(FullPath(p), k)' = Walk(FullPath(p), k)
              /\ stamp'[Leads(FullPath(p))] = stamp[Leads(FullPath(p))]
              /\ content'[Leads(FullPath(p))] = content[Leads(FullPath(p))]
      BY <2>1, <2>2 DEF TargetPath
    <3> QED
      BY <2>2, <3>1 DEF TargetPath
  <2>4. RootEntry \in Folder
    BY <2>1, NextOnRecord DEF AuditInv
  <2>5. /\ RootEntry \in Inode /\ Size(RootEntry) = 0
        /\ State(RootEntry) = <<RootEntry, stamp[RootEntry], 0>>
        /\ State(RootEntry)' = <<RootEntry, stamp'[RootEntry], 0>>
        /\ stamp'[RootEntry] = stamp[RootEntry] \/ stamp'[RootEntry] > 0
        /\ stamp[RootEntry] > 0 => stamp'[RootEntry] > 0
    <3>1. RootEntry \in Inode /\ RootEntry \notin File
      BY <2>4, TreeAssumption DEF Inode
    <3>2. /\ stamp'[RootEntry] = stamp[RootEntry] \/ stamp'[RootEntry] > 0
          /\ stamp[RootEntry] > 0 => stamp'[RootEntry] > 0
      BY <3>1, <1>4
    <3> QED
      BY <2>1, <3>1, <3>2 DEF State, Size
  <2>6. ASSUME NEW k \in 1..Depth PROVE held[k] = Walk(TargetPath, k)'
    <3>1. k \in 0..Leaf + 1
      BY <2>2 DEF AuditInv, AuditTypes, Depth
    <3>2. held[k] = Walk(TargetPath, k)
      BY <2>1 DEF AuditInv, AuditCalm
    <3> QED
      BY <3>1, <3>2, <2>3
  <2>7. file # Nothing => file = Leads(TargetPath) /\ State(file)' = State(file)
    <3>1. file # Nothing => file = Leads(TargetPath)
      BY <2>1 DEF AuditInv, AuditCalm
    <3> QED
      BY <3>1, <2>3, <1>1 DEF State, Size
  <2>8. pc \in AfterFile => file # Nothing
    BY DEF AuditInv, AuditTypes
  <2> QED
    BY <2>1, <2>3, <2>4, <2>5, <2>6, <2>7, <2>8, <1>1
    DEF AuditInv, AuditCalm, AfterFile
<1> QED
  BY <1>5, <1>6, <1>7, <1>9, <1>10, <1>11, <1>12 DEF AuditInv

LEMMA AuditStarts == AuditInit => AuditInv
<1> SUFFICES ASSUME AuditInit PROVE AuditInv
  OBVIOUS
<1>1. /\ pc = "validate" /\ held = << >> /\ buffer = << >> /\ checked = 0
      /\ Depth = 0 /\ reading = 1 /\ file = Nothing /\ Reach = 0
  BY DEF AuditInit, ReaderInit, Depth, Reach
<1>2. /\ showing = [p \in Records |-> IF Shows(p) THEN "now" ELSE "never"]
      /\ together = (\A p \in Records : Shows(p))
  BY DEF AuditInit
<1>3. TreeInv
  BY TreeInitInv DEF AuditInit
<1>4. Leaf \in Nat /\ 0 \in 0..Leaf /\ Depth <= Leaf
  BY <1>1, AuditPathFacts
<1>5. /\ showing \in [Records -> {"never", "now", "gone", "again"}]
      /\ together \in BOOLEAN
  BY <1>2
<1>6. ShowingKnown
  BY <1>2 DEF ShowingKnown
<1>7. AuditTypes
  BY <1>1, <1>3, <1>4, <1>5 DEF AuditTypes, Starting, Opening, AfterFile
<1>8. AuditRootKnown /\ AuditInPlace /\ AuditRead
  BY <1>1 DEF AuditRootKnown, AuditInPlace, AuditRead
<1>9. ReadsAreEvident /\ AuditCalm
  BY <1>1 DEF ReadsAreEvident, AuditCalm
<1> QED
  BY <1>6, <1>7, <1>8, <1>9 DEF AuditInv

LEMMA AuditInductive == AuditInv /\ [AuditNext]_auditVars => AuditInv'
<1> SUFFICES ASSUME AuditInv, [AuditNext]_auditVars PROVE AuditInv'
  OBVIOUS
<1>1. CASE UNCHANGED auditVars
  <2>1. /\ UNCHANGED treeVars /\ showing' = showing /\ together' = together
        /\ pc' = pc /\ held' = held /\ root' = root /\ before' = before
        /\ after' = after /\ buffer' = buffer /\ checked' = checked
        /\ reading' = reading /\ file' = file
    BY <1>1 DEF auditVars, readerVars
  <2>2. Remember
    <3>1. \A p \in Records : Shows(p)' = Shows(p)
      BY <2>1, TreeStays DEF Shows, treeVars
    <3>2. /\ showing \in [Records -> {"never", "now", "gone", "again"}]
          /\ together \in BOOLEAN /\ ((\A p \in Records : Shows(p)) => together)
          /\ \A p \in Records : /\ showing[p] = "now" => Shows(p)
                                /\ showing[p] \in {"never", "gone"} => ~Shows(p)
      BY DEF AuditInv, AuditTypes, ShowingKnown
    <3>3. ASSUME NEW p \in Records PROVE Later(showing[p], Shows(p)') = showing[p]
      <4>1. showing[p] \in {"never", "now", "gone", "again"}
        BY <3>2
      <4>2. CASE Shows(p)'
        BY <4>1, <4>2, <3>1, <3>2 DEF Later
      <4>3. CASE ~Shows(p)'
        BY <4>1, <4>3, <3>1, <3>2 DEF Later
      <4> QED
        BY <4>2, <4>3
    <3>4. showing' = [p \in Records |-> Later(showing[p], Shows(p)')]
      BY <2>1, <3>2, <3>3
    <3>5. together' = (together \/ \A p \in Records : Shows(p)')
      BY <2>1, <3>1, <3>2
    <3> QED
      BY <3>4, <3>5 DEF Remember
  <2>3. AuditAlone
    BY <2>1, <2>2 DEF AuditAlone
  <2>4. CASE pc # "openRoot"
    <3>1. /\ AuditRootKnown' /\ AuditInPlace' /\ RootMoved' = RootMoved
          /\ reading > 1 => Evident(reading - 1)' \/ returned' \/ RootMoved'
          /\ Evident(reading)' = Evident(reading)
          /\ \A k : Moved(k)' = Moved(k)
      BY <2>1, <2>3, <2>4, OpenedStays
    <3>2. AuditTypes' /\ ShowingKnown'
      BY <2>1, <2>3, RecordStays, AuditAtRest DEF AuditInv, AuditTypes
    <3>3. AuditRead'
      BY <2>1, <2>3, RecordStays, AuditAtRest DEF AuditInv, AuditRead
    <3>4. ReadsAreEvident'
      <4>1. Evident(4)' = Evident(4)
        BY <2>3, AuditAtRest
      <4> QED
        BY <2>1, <2>3, <3>1, <4>1, RecordStays, AuditAtRest
        DEF AuditInv, ReadsAreEvident
    <3>5. AuditCalm'
      BY <2>1, <2>3, RecordStays, AuditAtRest DEF AuditInv, AuditCalm, State, Size
    <3> QED
      BY <3>1, <3>2, <3>3, <3>4, <3>5 DEF AuditInv
  <2>5. CASE pc = "openRoot"
    <3>1. held = << >> /\ reading = 1 /\ file = Nothing /\ Depth = 0 /\ Reach' = 0
      BY <2>1, <2>5 DEF AuditInv, AuditTypes, Starting, Depth, Reach
    <3>2. AuditTypes' /\ ShowingKnown'
      BY <2>1, <2>3, RecordStays, AuditAtRest DEF AuditInv, AuditTypes
    <3>3. AuditRootKnown' /\ AuditInPlace' /\ AuditRead' /\ ReadsAreEvident'
      BY <2>1, <2>3, <2>5, <3>1, AuditAtRest
      DEF AuditInv, AuditRootKnown, AuditInPlace, AuditRead, ReadsAreEvident
    <3>4. AuditCalm'
      BY <2>1, <2>3, <2>5, <3>1, RecordStays, AuditAtRest
      DEF AuditInv, AuditCalm, State, Size
    <3> QED
      BY <3>2, <3>3, <3>4 DEF AuditInv
  <2> QED
    BY <2>4, <2>5
<1>2. CASE AuditNext
  <2>1. /\ Remember
        /\ \/ AuditStep /\ UNCHANGED treeVars
           \/ Change /\ UNCHANGED <<readerVars, reading, file>>
    BY <1>2 DEF AuditNext, Remember
  <2>2. CASE AuditStep /\ UNCHANGED treeVars
    <3>1. AuditAlone
      BY <2>1, <2>2 DEF AuditAlone
    <3> QED
      BY <2>2, <3>1, AuditValidateStep, AuditOpenRootStep, AuditRequalifyRootStep,
         EnterDirectoryStep, VerifyDirectoryStep, InspectStep, OpenInspectedStep,
         ReadOnStep, StopReadingStep, RecheckDirectoryStep, RecheckFileStep,
         CompareBytesStep DEF AuditStep
  <2>3. CASE Change /\ UNCHANGED <<readerVars, reading, file>>
    BY <2>1, <2>3, TreeChangesInAudit
  <2> QED
    BY <2>1, <2>2, <2>3
<1> QED
  BY <1>1, <1>2

LEMMA AuditInvariant == AuditSpec => []AuditInv
  BY AuditStarts, AuditInductive, PTL DEF AuditSpec

(* An audit that audit_persisted_final_evidence_records passes             *)
(* (src/src/hai_mr05/evidence.py:1774-1874) means that both records were   *)
(* in their places at one moment of the call, whatever other programs did, *)
(* as long as nothing went away and came back.                             *)
THEOREM PassedAuditsSawBoth == AuditSpec => []BothAtOnce
<1>1. AuditInv => BothAtOnce
  <2> SUFFICES ASSUME AuditInv, pc = "done", ~returned,
                      \A p \in Records : showing[p] # "again"
               PROVE  together
    BY DEF BothAtOnce
  <2>1. Evident(4)
    BY DEF AuditInv, ReadsAreEvident
  <2>2. Manifest \in Records
    BY DEF Records
  <2> QED
    BY <2>1, <2>2 DEF Evident
<1> QED
  BY <1>1, AuditInvariant, PTL

(* An audit of a tree that shows both records is refused only if an entry  *)
(* on their paths or one of the files was changed, or the root was touched *)
(* before it was opened.                                                   *)
THEOREM AlarmsHaveCause == AuditSpec => []NoFalseAlarm
<1>1. AuditInv => NoFalseAlarm
  <2> SUFFICES ASSUME AuditInv, pc = "failed", \A p \in Records : Shows(p), Calm
               PROVE  held = << >> /\ stamp[RootEntry] > 0
    <3>1. ASSUME \A p \in Records : Shows(p), ~Calm
          PROVE  \E p \in Records :
                   \/ \E x \in pastBytes : x[1] = Leads(FullPath(p))
                   \/ \E x \in pastNames, k \in 1..Len(p) + 1 :
                        x[1] = OnPath(FullPath(p), k)
      <4>1. PICK p \in Records : ~Undisturbed(FullPath(p))
        BY <3>1 DEF Calm
      <4>2. Leads(FullPath(p)) \in File /\ Len(FullPath(p)) = Len(p) + 1
        BY <3>1, FullPathFacts DEF Shows
      <4> QED
        BY <4>1, <4>2 DEF Undisturbed
    <3> QED
      BY <3>1 DEF NoFalseAlarm
  <2> QED
    BY DEF AuditInv, AuditCalm
<1> QED
  BY <1>1, AuditInvariant, PTL

(* The same of an audit, which never holds more of a file than one block   *)
(* beyond what it expects.                                                 *)
AuditSays ==
  /\ code \in {Escape, "HASH_MISMATCH", Nothing}
  /\ (code # Nothing) <=> (pc = "failed")
  /\ Len(buffer) <= Len(Want) + 1

LEMMA WantIsFinite == ASSUME reading \in 1..4 PROVE Len(Want) \in Nat
  BY AuditPathFacts DEF Content

LEMMA AuditSaysStep ==
  ASSUME AuditInv, AuditInv', AuditSays, [AuditNext]_auditVars
  PROVE  AuditSays'
<1>1. Nothing # Escape /\ Nothing # "HASH_MISMATCH"
  BY AuditAssumption
<1>2. /\ reading \in 1..4 /\ reading' \in 1..4 /\ buffer \in Seq(Block)
      /\ buffer' \in Seq(Block)
  BY DEF AuditInv, AuditTypes
<1>3. Len(Want) \in Nat /\ Len(Want)' \in Nat /\ (reading' = reading => Len(Want)' = Len(Want))
  <2>1. Len(Want) \in Nat
    BY <1>2, WantIsFinite
  <2>2. Len(Want)' = Len(Expected[Reads[reading']])
    BY DEF Want, Target, Reads
  <2>3. \A r \in 1..4 : Reads[r] \in Records
    BY DEF Reads, Records
  <2>4. \A p \in Records : Len(Expected[p]) \in Nat
    BY AuditAssumption DEF Content
  <2> QED
    BY <1>2, <2>1, <2>2, <2>3, <2>4 DEF Want, Target
<1>4. CASE UNCHANGED <<readerVars, reading, file>>
  BY <1>3, <1>4 DEF AuditSays, readerVars
<1>5. CASE AuditNext /\ AuditStep
  <2>0. pc # "failed"
    BY <1>5 DEF AuditNext
  <2>1. /\ code' \in {Escape, "HASH_MISMATCH", Nothing}
        /\ (code' # Nothing) <=> (pc' = "failed")
    <3> USE <2>0, <1>1 DEF AuditSays, Goto, Fail, FailUnless
    <3>1. CASE Validate
      BY <3>1 DEF Validate
    <3>2. CASE OpenRoot
      BY <3>2 DEF OpenRoot
    <3>3. CASE RequalifyRoot
      BY <3>3 DEF RequalifyRoot
    <3>4. CASE EnterDirectory
      BY <3>4 DEF EnterDirectory
    <3>5. CASE VerifyDirectory
      BY <3>5 DEF VerifyDirectory
    <3>6. CASE Inspect
      BY <3>6 DEF Inspect
    <3>7. CASE OpenInspected
      BY <3>7 DEF OpenInspected
    <3>8. CASE ReadOn
      BY <3>8 DEF ReadOn
    <3>9. CASE StopReading
      BY <3>9 DEF StopReading
    <3>10. CASE RecheckDirectory
      BY <3>10 DEF RecheckDirectory
    <3>11. CASE RecheckFile
      BY <3>11 DEF RecheckFile
    <3>12. CASE CompareBytes
      BY <3>12 DEF CompareBytes
    <3> QED
      BY <1>5, <3>1, <3>2, <3>3, <3>4, <3>5, <3>6, <3>7, <3>8, <3>9, <3>10,
         <3>11, <3>12 DEF AuditStep
  <2>2. Len(buffer') <= Len(Want)' + 1
    <3>1. CASE buffer' = << >>
      BY <3>1, <1>3
    <3>2. CASE ReadOn
      <4>1. /\ Len(buffer) <= Len(Want) /\ reading' = reading
            /\ buffer' = Append(buffer, content[file][Len(buffer) + 1])
        BY <3>2 DEF ReadOn
      <4>2. Len(buffer') = Len(buffer) + 1
        BY <1>2, <4>1
      <4>3. Len(buffer) \in Nat
        BY <1>2
      <4> QED
        BY <1>3, <4>1, <4>2, <4>3
    <3>3. CASE buffer' = buffer /\ reading' = reading
      BY <3>3, <1>3 DEF AuditSays
    <3> QED
      BY <1>5, <3>1, <3>2, <3>3 DEF AuditStep, Validate, OpenRoot, RequalifyRoot,
         EnterDirectory, VerifyDirectory, Inspect, OpenInspected, StopReading,
         RecheckDirectory, RecheckFile, CompareBytes
  <2> QED
    BY <2>1, <2>2 DEF AuditSays
<1> QED
  BY <1>4, <1>5 DEF AuditNext, auditVars

(* An audit (src/src/hai_mr05/evidence.py:1495-1570, 1738-1874) keeps to   *)
(* its types, and reads at most one block more than it expects, however    *)
(* long a file is made meanwhile.                                          *)
THEOREM AuditsTypeCorrect == AuditSpec => []AuditTypeOK
<1>1. AuditInit => AuditSays
  <2> SUFFICES ASSUME AuditInit PROVE AuditSays
    OBVIOUS
  <2>1. code = Nothing /\ pc = "validate" /\ Len(buffer) = 0
    BY DEF AuditInit, ReaderInit
  <2>2. Len(Want) \in Nat
    BY WantIsFinite DEF AuditInit
  <2> QED
    BY <2>1, <2>2 DEF AuditSays
<1>2. AuditInv /\ AuditInv' /\ AuditSays /\ [AuditNext]_auditVars => AuditSays'
  BY AuditSaysStep
<1>3. AuditInv /\ AuditSays => AuditTypeOK
  BY DEF AuditInv, AuditTypes, TreeInv, AuditSays, AuditTypeOK, Depth, Starting,
     Opening, AfterFile
<1> QED
  BY <1>1, <1>2, <1>3, AuditInvariant, PTL DEF AuditSpec
=============================================================================
