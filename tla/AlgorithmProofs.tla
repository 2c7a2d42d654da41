-------------------------- MODULE AlgorithmProofs --------------------------
(***************************************************************************)
(* Proofs about the algorithms that work on a graph, for graphs and lists  *)
(* of any size: the failure cascades compute the fixpoints the other       *)
(* modules take them for, the search of a document's dependencies accepts  *)
(* exactly what can be ordered, and expanding the groups of an environment *)
(* fails exactly on cycles and unknown stacks.  None of the proofs is an   *)
(* induction over a graph: each invariant compares what a loop or a call   *)
(* has done so far with every set that is closed in the same way.          *)
(***************************************************************************)
EXTENDS Algorithms, TLAPS

-----------------------------------------------------------------------------
(* The failure cascades.  What the loop has written so far lies in every   *)
(* set that is closed under failure, and when a whole pass writes nothing, *)
(* what has been written is such a set itself.                             *)

Typed ==
    /\ deps \in [Item -> SUBSET Item]
    /\ before \in [Item -> EntryStatus]
    /\ st \in [Item -> EntryStatus]
    /\ loop \in {"cascade", "uncascade"}
    /\ at \in 1 .. NumItems + 1
    /\ changed \in BOOLEAN
    /\ done \in BOOLEAN

Doomed == M!Doomed(before, "r")

StillDoomed == M!StillDoomed(before, "r")

(* What has been written belongs to the fixpoint.                           *)
Sound(i) ==
    \/ st[i] = before[i]
    \/ loop = "cascade" /\ before[i] = "pending" /\ st[i] = "dep_failed" /\ i \in Doomed
    \/ loop = "uncascade" /\ before[i] = "dep_failed" /\ st[i] = "pending" /\ i \notin StillDoomed

(* A pass that has changed nothing has left nothing to write behind it.    *)
Settled ==
    /\ ~changed => \A i \in Item : i < at => done \/ ~Marks(i)
    /\ done => \A i \in Item : ~Marks(i)

LoopInv == Typed /\ (\A i \in Item : Sound(i)) /\ Settled

-----------------------------------------------------------------------------
LEMMA Items ==
    /\ M!Item = Item
    /\ M!ItemsOf("r") = Item
    /\ \A s, S : M!With(s, "r", S) = {i \in Item : s[i] \in S}
    /\ \A s, i : M!FailedDeps(s, i) = {d \in deps[i] : s[d] \in {"failed", "dep_failed"}}
  BY DEF M!Item, Item, M!ItemsOf, M!With, M!FailedDeps, M!TerminalFailure

(* What the failures of the items doom is closed under failure ...          *)
LEMMA DoomedHas ==
    ASSUME Typed, NEW i \in Item, before[i] = "pending", NEW d \in deps[i],
           before[d] \in {"failed", "dep_failed"} \/ d \in Doomed
    PROVE  i \in Doomed
<1> DEFINE W == M!With(before, "r", {"pending"})
<1>1. SUFFICES ASSUME NEW X \in SUBSET W, M!ClosedUnderFailure(before, "r", X)
               PROVE  i \in X
  BY Items DEF Doomed, M!Doomed
<1>2. i \in W
  BY Items
<1>3. M!FailedDeps(before, i) # {} \/ deps[i] \cap X # {}
  <2>1. CASE before[d] \in {"failed", "dep_failed"}
    BY <2>1, Items
  <2>2. CASE d \in Doomed
    BY <2>2, <1>1 DEF Doomed, M!Doomed
  <2> QED
    BY <2>1, <2>2
<1> QED
  BY <1>1, <1>2, <1>3 DEF M!ClosedUnderFailure

(* ... and is in any set that is.                                           *)
LEMMA DoomedLeast ==
    ASSUME NEW X, X \subseteq {i \in Item : before[i] = "pending"},
           \A i \in Item : before[i] = "pending" /\
              (\E d \in deps[i] : before[d] \in {"failed", "dep_failed"} \/ d \in X) => i \in X
    PROVE  Doomed \subseteq X
<1>1. X \in SUBSET M!With(before, "r", {"pending"})
  BY Items
<1>2. M!ClosedUnderFailure(before, "r", X)
  BY Items DEF M!ClosedUnderFailure
<1> QED
  BY <1>1, <1>2 DEF Doomed, M!Doomed

(* An item that stays DEP_FAILED depends on a FAILED one or on such an item *)
LEMMA StillDoomedBy ==
    ASSUME NEW i \in StillDoomed
    PROVE  /\ i \in Item /\ before[i] = "dep_failed"
           /\ \E d \in deps[i] : before[d] = "failed" \/ d \in StillDoomed
  BY Items DEF StillDoomed, M!StillDoomed

(* ... and every set of which that is true stays.                           *)
LEMMA StillDoomedGreatest ==
    ASSUME NEW X, X \subseteq {i \in Item : before[i] = "dep_failed"},
           \A i \in X : \E d \in deps[i] : before[d] = "failed" \/ d \in X
    PROVE  X \subseteq StillDoomed
  BY Items DEF StillDoomed, M!StillDoomed

-----------------------------------------------------------------------------
LEMMA LoopBegins == Init => LoopInv
<1> SUFFICES ASSUME Init PROVE LoopInv
  OBVIOUS
<1>1. Typed
  <2>1. at \in 1 .. NumItems + 1
    BY LoopsAssumption DEF Init
  <2> QED
    BY <2>1 DEF Init, Typed
<1>2. \A i \in Item : ~(i < at)
  BY DEF Init, Item
<1> QED
  BY <1>1, <1>2 DEF Init, LoopInv, Sound, Settled

(* An item that is written belongs to the fixpoint.                         *)
LEMMA MarkSound ==
    ASSUME LoopInv, NEW i \in Item, Marks(i)
    PROVE  \/ loop = "cascade" /\ before[i] = "pending" /\ i \in Doomed
           \/ loop = "uncascade" /\ before[i] = "dep_failed" /\ i \notin StillDoomed
<1>1. CASE loop = "cascade"
  <2>1. st[i] = "pending" /\ \E d \in deps[i] : st[d] \in {"failed", "dep_failed"}
    BY <1>1, Items DEF Marks
  <2>2. before[i] = "pending"
    BY <1>1, <2>1 DEF LoopInv, Sound
  <2>3. PICK d \in deps[i] : st[d] \in {"failed", "dep_failed"}
    BY <2>1
  <2>4. d \in Item
    BY DEF LoopInv, Typed
  <2>5. before[d] \in {"failed", "dep_failed"} \/ d \in Doomed
    BY <1>1, <2>3, <2>4 DEF LoopInv, Sound
  <2> QED
    BY <1>1, <2>2, <2>5, DoomedHas DEF LoopInv
<1>2. CASE loop = "uncascade"
  <2>1. st[i] = "dep_failed" /\ \A d \in deps[i] : st[d] \notin {"failed", "dep_failed"}
    BY <1>2, Items DEF Marks
  <2>2. before[i] = "dep_failed"
    BY <1>2, <2>1 DEF LoopInv, Sound
  <2>3. ASSUME i \in StillDoomed PROVE FALSE
    <3>1. PICK d \in deps[i] : before[d] = "failed" \/ d \in StillDoomed
      BY <2>3, StillDoomedBy
    <3>2. d \in Item
      BY DEF LoopInv, Typed
    <3>3. st[d] \in {"failed", "dep_failed"}
      BY <1>2, <3>1, <3>2, StillDoomedBy DEF LoopInv, Sound
    <3> QED
      BY <2>1, <3>3
  <2> QED
    BY <1>2, <2>2, <2>3
<1> QED
  BY <1>1, <1>2 DEF LoopInv, Typed

LEMMA VisitKeeps ==
    ASSUME LoopInv, Visit
    PROVE  LoopInv'
<1>1. at \in Item /\ ~done /\ UNCHANGED <<deps, before, loop, done>> /\ at' = at + 1
  BY LoopsAssumption DEF Visit, LoopInv, Typed, Item
<1>2. CASE Marks(at)
  <2>1. st' = [st EXCEPT ![at] = Mark] /\ changed' = TRUE
    BY <1>2 DEF Visit
  <2>2. Typed'
    BY <1>1, <2>1, LoopsAssumption DEF LoopInv, Typed, Item, Mark, EntryStatus
  <2>3. Doomed' = Doomed /\ StillDoomed' = StillDoomed
    BY <1>1 DEF Doomed, StillDoomed, M!Doomed, M!StillDoomed, M!With, M!ItemsOf, M!Item,
                M!ClosedUnderFailure, M!FailedDeps
  <2>4. \A i \in Item : Sound(i)'
    BY <1>1, <1>2, <2>1, <2>3, MarkSound DEF LoopInv, Typed, Sound, Mark
  <2> QED
    BY <1>1, <2>1, <2>2, <2>4 DEF LoopInv, Settled
<1>3. CASE ~Marks(at)
  <2>1. st' = st /\ changed' = changed
    BY <1>3 DEF Visit, LoopInv, Typed
  <2>2. Typed'
    BY <1>1, <2>1, LoopsAssumption DEF LoopInv, Typed, Item
  <2>3. /\ Doomed' = Doomed /\ StillDoomed' = StillDoomed
        /\ \A i \in Item : Marks(i)' <=> Marks(i)
    BY <1>1, <2>1 DEF Doomed, StillDoomed, M!Doomed, M!StillDoomed, M!With, M!ItemsOf, M!Item,
                      M!ClosedUnderFailure, M!FailedDeps, Marks
  <2>4. \A i \in Item : Sound(i)'
    BY <1>1, <2>1, <2>3 DEF LoopInv, Sound
  <2>5. Settled'
    <3>1. \A i \in Item : i < at + 1 => i < at \/ i = at
      BY <1>1 DEF Item
    <3> QED
      BY <1>1, <1>3, <2>1, <2>3, <3>1 DEF LoopInv, Settled
  <2> QED
    BY <2>2, <2>4, <2>5 DEF LoopInv
<1> QED
  BY <1>2, <1>3

LEMMA EndPassKeeps ==
    ASSUME LoopInv, EndPass
    PROVE  LoopInv'
<1>1. /\ ~done /\ done' = ~changed /\ changed' = FALSE /\ UNCHANGED <<deps, before, st, loop>>
      /\ at = NumItems + 1 /\ at' = IF changed THEN 1 ELSE at
  BY LoopsAssumption DEF EndPass, LoopInv, Typed
<1>2. Typed'
  <2>1. at' \in 1 .. NumItems + 1
    BY <1>1, LoopsAssumption
  <2>2. done' \in BOOLEAN
    BY <1>1
  <2> QED
    BY <1>1, <2>1, <2>2 DEF LoopInv, Typed
<1>3. /\ Doomed' = Doomed /\ StillDoomed' = StillDoomed
      /\ \A i \in Item : Marks(i)' <=> Marks(i)
  BY <1>1 DEF Doomed, StillDoomed, M!Doomed, M!StillDoomed, M!With, M!ItemsOf, M!Item,
              M!ClosedUnderFailure, M!FailedDeps, Marks
<1>4. \A i \in Item : Sound(i)'
  BY <1>1, <1>3 DEF LoopInv, Sound
<1>5. Settled'
  <2>1. \A i \in Item : i < NumItems + 1 /\ ~(i < 1)
    BY LoopsAssumption DEF Item
  <2> QED
    BY <1>1, <1>3, <2>1 DEF LoopInv, Settled
<1> QED
  BY <1>2, <1>4, <1>5 DEF LoopInv

LEMMA StutterKeeps ==
    ASSUME LoopInv, UNCHANGED vars
    PROVE  LoopInv'
<1>1. /\ Doomed' = Doomed /\ StillDoomed' = StillDoomed
      /\ \A i \in Item : Marks(i)' <=> Marks(i)
  BY DEF vars, Doomed, StillDoomed, M!Doomed, M!StillDoomed, M!With, M!ItemsOf, M!Item,
         M!ClosedUnderFailure, M!FailedDeps, Marks
<1> QED
  BY <1>1 DEF vars, LoopInv, Typed, Sound, Settled

LEMMA LoopAlways == Spec => []LoopInv
<1>1. LoopInv /\ [Next]_vars => LoopInv'
  BY VisitKeeps, EndPassKeeps, StutterKeeps DEF Next
<1> QED
  BY <1>1, LoopBegins, PTL DEF Spec

(* A loop that has ended has written the whole fixpoint.                    *)
LEMMA DoneIsFixpoint ==
    ASSUME LoopInv, done
    PROVE  st = Fixpoint
<1>1. \A i \in Item : ~Marks(i)
  BY DEF LoopInv, Settled
<1>2. CASE loop = "cascade"
  <2> DEFINE X == {i \in Item : before[i] = "pending" /\ st[i] = "dep_failed"}
  <2>1. \A i \in Item : before[i] = "pending" /\
           (\E d \in deps[i] : before[d] \in {"failed", "dep_failed"} \/ d \in X) => i \in X
    <3> SUFFICES ASSUME NEW i \in Item, before[i] = "pending", NEW d \in deps[i],
                        before[d] \in {"failed", "dep_failed"} \/ d \in X
                 PROVE  i \in X
      OBVIOUS
    <3>1. d \in Item
      BY DEF LoopInv, Typed
    <3>2. st[d] \in {"failed", "dep_failed"}
      BY <1>2, <3>1 DEF LoopInv, Sound
    <3>3. st[i] # "pending"
      BY <1>1, <1>2, <3>2, Items DEF Marks
    <3> QED
      BY <1>2, <3>3 DEF LoopInv, Sound
  <2>2. Doomed \subseteq X
    BY <2>1, DoomedLeast
  <2>3. \A i \in Item : st[i] = IF i \in Doomed THEN "dep_failed" ELSE before[i]
    BY <1>2, <2>2 DEF LoopInv, Sound
  <2>4. st = [i \in Item |-> st[i]]
    BY DEF LoopInv, Typed
  <2> QED
    BY <1>2, <2>3, <2>4, Items DEF Fixpoint, M!Cascade, Doomed
<1>3. CASE loop = "uncascade"
  <2> DEFINE X == {i \in Item : st[i] = "dep_failed"}
  <2>1. X \subseteq {i \in Item : before[i] = "dep_failed"}
    BY <1>3 DEF LoopInv, Sound
  <2>2. \A i \in X : \E d \in deps[i] : before[d] = "failed" \/ d \in X
    <3> SUFFICES ASSUME NEW i \in X PROVE \E d \in deps[i] : before[d] = "failed" \/ d \in X
      OBVIOUS
    <3>1. PICK d \in deps[i] : st[d] \in {"failed", "dep_failed"}
      BY <1>1, <1>3, Items DEF Marks
    <3>2. d \in Item
      BY DEF LoopInv, Typed
    <3> QED
      BY <1>3, <3>1, <3>2 DEF LoopInv, Sound
  <2>3. X \subseteq StillDoomed
    BY <2>1, <2>2, StillDoomedGreatest
  <2>4. \A i \in Item :
           st[i] = IF i \in M!With(before, "r", {"dep_failed"}) \ StillDoomed
                   THEN "pending" ELSE before[i]
    BY <1>3, <2>3, StillDoomedBy, Items DEF LoopInv, Sound
  <2>5. st = [i \in Item |-> st[i]]
    BY DEF LoopInv, Typed
  <2> QED
    BY <1>3, <2>4, <2>5, Items DEF Fixpoint, M!Uncascade, StillDoomed
<1> QED
  BY <1>2, <1>3 DEF LoopInv, Typed

-----------------------------------------------------------------------------
(* A loop that ends has computed its fixpoint, whatever the order of the    *)
(* items, their dependencies and their statuses (the cascade at the head of *)
(* process_run, uncascade_dep_failures of runs/models.py).                  *)
THEOREM LoopsAreFixpoints == Spec => []LoopIsFixpoint
<1>1. LoopInv => LoopIsFixpoint
  BY DoneIsFixpoint DEF LoopIsFixpoint
<1> QED
  BY <1>1, LoopAlways, PTL

(* No visit writes what the fixpoint does not have, so no pass shows a      *)
(* status that the loop takes back.                                         *)
THEOREM LoopsNeverOvershoot == Spec => []NeverOvershoots
<1>1. LoopInv => NeverOvershoots
  <2> SUFFICES ASSUME LoopInv, NEW i \in Item PROVE st[i] \in {before[i], Fixpoint[i]}
    BY DEF NeverOvershoots
  <2>1. CASE loop = "cascade"
    BY <2>1, Items DEF LoopInv, Sound, Fixpoint, M!Cascade, Doomed
  <2>2. CASE loop = "uncascade"
    BY <2>2, Items DEF LoopInv, Sound, Fixpoint, M!Uncascade, StillDoomed
  <2> QED
    BY <2>1, <2>2 DEF LoopInv, Typed
<1> QED
  BY <1>1, LoopAlways, PTL

(* When the failed items of a run turn out to have completed, undoing the   *)
(* cascade leads back to where it began, in any run whose dependencies have *)
(* no cycle: nothing is left DEP_FAILED, and nothing else is touched.       *)
THEOREM UncascadeIsInverse == Spec => []UncascadeUndoesCascade
<1>1. LoopInv => UncascadeUndoesCascade
  <2> SUFFICES ASSUME LoopInv, M!Acyclic, \A i \in Item : before[i] # "dep_failed"
               PROVE  M!Uncascade(Corrected(M!Cascade(before, "r")), "r") = Corrected(before)
    BY DEF UncascadeUndoesCascade
  <2> DEFINE s == M!Cascade(before, "r")
             c == Corrected(s)
             X == M!StillDoomed(c, "r")
  <2>1. \A i \in Item : s[i] = IF i \in Doomed THEN "dep_failed" ELSE before[i]
    BY Items DEF M!Cascade, Doomed
  <2>2. \A i \in Item : c[i] = IF s[i] = "failed" THEN "completed" ELSE s[i]
    BY DEF Corrected
  <2>3. \A i \in Doomed : i \in Item /\ before[i] = "pending"
    BY Items DEF Doomed, M!Doomed
  <2> HIDE DEF s, c
  <2>4. M!With(c, "r", {"dep_failed"}) = Doomed
    <3>1. M!With(c, "r", {"dep_failed"}) = {i \in Item : c[i] = "dep_failed"}
      BY Items
    <3>2. \A i \in Item : c[i] = "dep_failed" <=> i \in Doomed
      BY <2>1, <2>2
    <3> QED
      BY <2>3, <3>1, <3>2
  <2>5. X \in SUBSET Item /\ \A i \in X : \E d \in deps[i] : c[d] = "failed" \/ d \in X
    BY Items DEF M!StillDoomed
  <2>6. \A i \in X : deps[i] \cap X # {}
    <3> SUFFICES ASSUME NEW i \in X PROVE deps[i] \cap X # {}
      OBVIOUS
    <3>1. PICK d \in deps[i] : c[d] = "failed" \/ d \in X
      BY <2>5
    <3>2. d \in Item
      BY <2>5 DEF LoopInv, Typed
    <3> QED
      BY <3>1, <3>2, <2>2
  <2>7. X = {}
    <3> HIDE DEF X
    <3> QED
      BY <2>5, <2>6, Items DEF M!Acyclic
  <2>8. M!Uncascade(c, "r") = [i \in Item |-> IF i \in Doomed THEN "pending" ELSE c[i]]
    BY <2>4, <2>7, Items DEF M!Uncascade
  <2>9. \A i \in Item : (IF i \in Doomed THEN "pending" ELSE c[i])
                        = IF before[i] = "failed" THEN "completed" ELSE before[i]
    BY <2>1, <2>2, <2>3
  <2> QED
    BY <2>8, <2>9 DEF Corrected, c, s
<1> QED
  BY <1>1, LoopAlways, PTL

(* The loops are part of the composition: what holds of them holds there.  *)
LEMMA LoopsOfAll == AllSpec => Spec
<1>1. AllInit => Init
  BY DEF AllInit
<1>2. [AllNext]_AllVars => [Next]_vars
  BY DEF AllNext, AllVars, LoopsVars
<1> QED
  BY <1>1, <1>2, PTL DEF AllSpec, Spec

-----------------------------------------------------------------------------
(* Lists, whatever they hold.                                                *)
IsSeq(q) == q \in Seq(E!ToSet(q))

LEMMA SeqTyped ==
    ASSUME NEW S, NEW q \in Seq(S)
    PROVE  IsSeq(q)
  <1>1. DOMAIN q = 1 .. Len(q) /\ Len(q) \in Nat
    OBVIOUS
  <1>2. \A i \in 1 .. Len(q) : q[i] \in E!ToSet(q)
    BY <1>1 DEF E!ToSet
  <1>3. q = [i \in 1 .. Len(q) |-> q[i]]
    OBVIOUS
  <1> HIDE DEF IsSeq
  <1>4. [i \in 1 .. Len(q) |-> q[i]] \in Seq(E!ToSet(q))
    BY <1>1, <1>2
  <1> QED
    BY <1>3, <1>4 DEF IsSeq

LEMMA SeqWider ==
    ASSUME NEW q, IsSeq(q), NEW S, E!ToSet(q) \subseteq S
    PROVE  q \in Seq(S)
  <1>1. q \in Seq(E!ToSet(q))
    BY DEF IsSeq
  <1>2. Len(q) \in Nat /\ q = [i \in 1 .. Len(q) |-> q[i]]
        /\ \A i \in 1 .. Len(q) : q[i] \in S
    BY <1>1
  <1>3. [i \in 1 .. Len(q) |-> q[i]] \in Seq(S)
    BY <1>2
  <1> QED
    BY <1>2, <1>3

LEMMA SeqDomain ==
    ASSUME NEW q, IsSeq(q)
    PROVE  Len(q) \in Nat /\ DOMAIN q = 1 .. Len(q) /\ (q = <<>> <=> Len(q) = 0)
  BY DEF IsSeq

LEMMA SeqAppend ==
    ASSUME NEW q, IsSeq(q), NEW x
    PROVE  /\ IsSeq(Append(q, x)) /\ Len(Append(q, x)) = Len(q) + 1
           /\ \A i \in 1 .. Len(q) : Append(q, x)[i] = q[i]
           /\ Append(q, x)[Len(q) + 1] = x
  <1> DEFINE S == E!ToSet(q) \cup {x}
  <1>1. q \in Seq(S) /\ x \in S
    BY SeqWider
  <1> HIDE DEF S
  <1>2. Append(q, x) \in Seq(S)
    BY <1>1
  <1>3. IsSeq(Append(q, x))
    BY <1>2, SeqTyped
  <1>4. /\ Len(Append(q, x)) = Len(q) + 1
        /\ \A i \in 1 .. Len(q) : Append(q, x)[i] = q[i]
        /\ Append(q, x)[Len(q) + 1] = x
    BY <1>1
  <1> QED
    BY <1>3, <1>4

LEMMA SeqExcept ==
    ASSUME NEW q, IsSeq(q), NEW k \in 1 .. Len(q), NEW x
    PROVE  LET s == [q EXCEPT ![k] = x]
           IN  /\ IsSeq(s) /\ Len(s) = Len(q)
               /\ \A i \in 1 .. Len(q) : s[i] = IF i = k THEN x ELSE q[i]
  <1> DEFINE S == E!ToSet(q) \cup {x}
  <1>1. q \in Seq(S) /\ x \in S
    BY SeqWider
  <1> HIDE DEF S
  <1>2. [q EXCEPT ![k] = x] \in Seq(S)
    BY <1>1
  <1>3. IsSeq([q EXCEPT ![k] = x])
    BY <1>2, SeqTyped
  <1>4. /\ Len([q EXCEPT ![k] = x]) = Len(q)
        /\ \A i \in 1 .. Len(q) : [q EXCEPT ![k] = x][i] = IF i = k THEN x ELSE q[i]
    BY <1>1, <1>2
  <1> QED
    BY <1>3, <1>4

LEMMA ShorterList ==
    ASSUME NEW S, NEW p \in Seq(S), NEW m \in 0 .. Len(p)
    PROVE  SubSeq(p, 1, m) \in Seq(S) /\ Len(SubSeq(p, 1, m)) = m
  OBVIOUS

LEMMA SeqShorter ==
    ASSUME NEW q, IsSeq(q), NEW m \in 0 .. Len(q)
    PROVE  /\ IsSeq(SubSeq(q, 1, m)) /\ Len(SubSeq(q, 1, m)) = m
           /\ \A i \in 1 .. m : SubSeq(q, 1, m)[i] = q[i]
  <1>1. q \in Seq(E!ToSet(q))
    BY DEF IsSeq
  <1>2. SubSeq(q, 1, m) \in Seq(E!ToSet(q)) /\ Len(SubSeq(q, 1, m)) = m
    BY <1>1, ShorterList
  <1>3. \A i \in 1 .. m : SubSeq(q, 1, m)[i] = q[i]
    BY <1>1
  <1> QED
    BY <1>2, <1>3, SeqTyped

-----------------------------------------------------------------------------
(* The search of a document's dependencies.                                  *)

Ids == G!IdsOf(doc)

DepsTyped ==
    /\ color \in [Ids -> {"white", "grey", "black"}]
    /\ left \in [Ids -> SUBSET Ids]
    /\ path \in Seq(Ids)
    /\ root \in Nat \ {0}

(* The grey nodes are the path, from a task on along its dependencies; what *)
(* a call has looked at is black or is the call it has made.                *)
PathInv ==
    /\ \A n \in Ids : color[n] = "grey" <=> \E k \in 1 .. Len(path) : path[k] = n
    /\ \A j, k \in 1 .. Len(path) : path[j] = path[k] => j = k
    /\ \A k \in 1 .. Len(path) - 1 : path[k + 1] \in G!deps_map[path[k]]
    /\ \A k \in 1 .. Len(path) :
          /\ left[path[k]] \subseteq G!deps_map[path[k]]
          /\ \A d \in G!deps_map[path[k]] \ left[path[k]] :
                color[d] = "black" \/ (k < Len(path) /\ d = path[k + 1])

(* The black nodes can be ordered.                                          *)
BlackInv ==
    /\ \A n \in Ids : color[n] = "black" => \A d \in G!deps_map[n] : color[d] = "black"
    /\ \A S \in SUBSET Ids : S # {} /\ (\A n \in S : color[n] = "black") =>
          \E n \in S : G!deps_map[n] \cap S = {}

SomeCycle == \E S \in SUBSET Ids : S # {} /\ \A n \in S : G!deps_map[n] \cap S # {}

SearchInv ==
    /\ doc \in Docs
    /\ verdict \in {"new", "searching", "accepted", "rejected"}
    /\ DepsTyped /\ PathInv /\ BlackInv
    /\ \A i \in 1 .. Len(doc) : i < root => color[doc[i].id] # "white"
    /\ verdict \in {"searching", "accepted"} => G!NamesExist
    /\ verdict = "accepted" => \A n \in Ids : color[n] = "black"
    /\ verdict = "rejected" => ~G!NamesExist \/ SomeCycle

LEMMA DocIsList == doc \in Docs => Len(doc) \in Nat /\ DOMAIN doc = 1 .. Len(doc)
  BY DocsAssumption

LEMMA IdOf == doc \in Docs => \A n \in Ids : \E i \in 1 .. Len(doc) : doc[i].id = n
  BY DocIsList DEF Ids, G!IdsOf

LEMMA IdIn == doc \in Docs => \A i \in 1 .. Len(doc) : doc[i].id \in Ids
  BY DocIsList DEF Ids, G!IdsOf

(* What deps_map says of a task, if no two tasks have one id.               *)
LEMMA MapMeans ==
    ASSUME doc \in Docs, G!DistinctIds(doc), NEW i \in DOMAIN doc
    PROVE  G!deps_map[doc[i].id] = G!Tasks[i].deps
  <1>1. DOMAIN G!Tasks = DOMAIN doc /\ \A j \in DOMAIN doc : G!Tasks[j].id = doc[j].id
    BY DEF G!Tasks, G!_resolve_wildcard_deps
  <1>2. doc[i].id \in G!IdsOf(G!Tasks)
    BY <1>1 DEF G!IdsOf
  <1>3. i \in Nat /\ \A j \in DOMAIN doc : j \in Nat
    BY DocIsList
  <1> DEFINE Last(j) == /\ G!Tasks[j].id = doc[i].id
                        /\ \A l \in DOMAIN G!Tasks : G!Tasks[l].id = doc[i].id => l <= j
  <1>4. Last(i)
    BY <1>1, <1>3 DEF G!DistinctIds
  <1>5. \A j \in DOMAIN G!Tasks : Last(j) => j = i
    BY <1>1 DEF G!DistinctIds
  <1>6. (CHOOSE j \in DOMAIN G!Tasks : Last(j)) = i
    BY <1>1, <1>4, <1>5
  <1> QED
    BY <1>2, <1>6 DEF G!deps_map, G!DepsMap

LEMMA MapTyped ==
    ASSUME doc \in Docs, G!DistinctIds(doc), G!NamesExist
    PROVE  \A n \in Ids : G!deps_map[n] \subseteq Ids
  <1> SUFFICES ASSUME NEW i \in 1 .. Len(doc) PROVE G!deps_map[doc[i].id] \subseteq Ids
    BY IdOf
  <1>1. DOMAIN G!Tasks = DOMAIN doc /\ i \in DOMAIN doc
    BY DocIsList DEF G!Tasks, G!_resolve_wildcard_deps
  <1> QED
    BY <1>1, MapMeans DEF G!NamesExist, Ids

LEMMA SearchBegins == G!Init => SearchInv
  <1> SUFFICES ASSUME G!Init PROVE SearchInv
    OBVIOUS
  <1>1. DepsTyped
    BY DEF G!Init, DepsTyped, Ids
  <1>2. PathInv
    BY DEF G!Init, PathInv, Ids
  <1>3. BlackInv
    BY DEF G!Init, BlackInv, Ids
  <1>4. \A i \in 1 .. Len(doc) : ~(i < root)
    BY DocIsList DEF G!Init
  <1> QED
    BY <1>1, <1>2, <1>3, <1>4 DEF G!Init, SearchInv

LEMMA MapStays == doc' = doc =>
    /\ Ids' = Ids /\ G!deps_map' = G!deps_map /\ G!NamesExist' = G!NamesExist
    /\ SomeCycle' = SomeCycle
  BY DEF Ids, G!deps_map, G!Tasks, G!NamesExist, SomeCycle

(* A call of dfs.                                                           *)
LEMMA EnterKeeps ==
    ASSUME SearchInv, G!DistinctIds(doc), verdict = "searching", NEW n \in Ids,
           color[n] = "white", NEW l, l \in [Ids -> SUBSET Ids],
           G!Enter(n, l), doc' = doc, verdict' = verdict, root' \in Nat \ {0},
           \A i \in 1 .. Len(doc) : i < root' => color[doc[i].id] # "white" \/ doc[i].id = n,
           \/ path = <<>> /\ l = left
           \/ /\ path # <<>> /\ n \in left[G!Node]
              /\ l = [left EXCEPT ![G!Node] = @ \ {n}]
    PROVE  SearchInv'
  <1> DEFINE dm == G!deps_map
  <1>1. \A x \in Ids : dm[x] \subseteq Ids
    BY MapTyped DEF SearchInv
  <1>2. doc \in Docs /\ DepsTyped /\ PathInv /\ BlackInv /\ G!NamesExist
    BY DEF SearchInv
  <1>3. color' = [color EXCEPT ![n] = "grey"] /\ path' = Append(path, n)
        /\ left' = [l EXCEPT ![n] = dm[n]]
    BY DEF G!Enter
  <1>4. Ids' = Ids /\ G!deps_map' = dm /\ G!NamesExist'
    BY <1>2, MapStays
  <1> HIDE DEF dm
  <1>5. DepsTyped'
    BY <1>1, <1>2, <1>3, <1>4 DEF DepsTyped
  <1>6. /\ Len(path) \in Nat /\ Len(path') = Len(path) + 1
        /\ \A k \in 1 .. Len(path) : path'[k] = path[k] /\ path[k] \in Ids
        /\ path'[Len(path) + 1] = n
    BY <1>2, <1>3 DEF DepsTyped
  <1>7. \A k \in 1 .. Len(path) : path[k] # n
    BY <1>2 DEF PathInv
  <1>8. \A x \in Ids : color'[x] = IF x = n THEN "grey" ELSE color[x]
    BY <1>2, <1>3 DEF DepsTyped
  <1>9. PathInv'
    <2>1. \A x \in Ids : color'[x] = "grey" <=> \E k \in 1 .. Len(path') : path'[k] = x
      BY <1>2, <1>6, <1>8 DEF PathInv
    <2>2. \A j, k \in 1 .. Len(path') : path'[j] = path'[k] => j = k
      BY <1>2, <1>6, <1>7 DEF PathInv
    <2>3. path # <<>> => n \in left[path[Len(path)]] /\ Len(path) > 0
                         /\ l = [left EXCEPT ![path[Len(path)]] = @ \ {n}]
      BY <1>6, <1>2 DEF G!Node, DepsTyped
    <2>4. \A k \in 1 .. Len(path') - 1 : path'[k + 1] \in dm[path'[k]]
      BY <1>2, <1>6, <2>3 DEF PathInv, dm, DepsTyped
    <2>5. \A k \in 1 .. Len(path) :
             /\ l[path[k]] \subseteq dm[path[k]]
             /\ \A d \in dm[path[k]] \ l[path[k]] :
                   color[d] = "black" \/ (k < Len(path) /\ d = path[k + 1])
                     \/ (k = Len(path) /\ d = n)
      BY <1>2, <1>6, <2>3 DEF PathInv, dm, DepsTyped
    <2>6. \A k \in 1 .. Len(path) : left'[path[k]] = l[path[k]]
      BY <1>3, <1>6, <1>7
    <2>7. left'[n] = dm[n]
      BY <1>3
    <2>8. \A k \in 1 .. Len(path') :
             /\ left'[path'[k]] \subseteq dm[path'[k]]
             /\ \A d \in dm[path'[k]] \ left'[path'[k]] :
                   color'[d] = "black" \/ (k < Len(path') /\ d = path'[k + 1])
      <3> SUFFICES ASSUME NEW k \in 1 .. Len(path')
                   PROVE  /\ left'[path'[k]] \subseteq dm[path'[k]]
                          /\ \A d \in dm[path'[k]] \ left'[path'[k]] :
                                color'[d] = "black" \/ (k < Len(path') /\ d = path'[k + 1])
        OBVIOUS
      <3>1. CASE k = Len(path) + 1
        BY <1>6, <2>7, <3>1
      <3>2. CASE k \in 1 .. Len(path)
        BY <1>1, <1>6, <1>8, <2>5, <2>6, <3>2
      <3> QED
        BY <1>6, <3>1, <3>2
    <2> QED
      BY <1>4, <2>1, <2>2, <2>4, <2>8 DEF PathInv
  <1>10. BlackInv'
    BY <1>1, <1>2, <1>4, <1>8 DEF BlackInv, dm
  <1>11. \A i \in 1 .. Len(doc) : i < root' => color'[doc[i].id] # "white"
    BY <1>2, <1>8, IdIn
  <1> QED
    BY <1>2, <1>4, <1>5, <1>9, <1>10, <1>11 DEF SearchInv

LEMMA SearchStep == SearchInv /\ G!DistinctIds(doc) /\ G!Next => SearchInv'
  <1> SUFFICES ASSUME SearchInv, G!DistinctIds(doc), G!Next PROVE SearchInv'
    OBVIOUS
  <1> DEFINE dm == G!deps_map
  <1>1. doc \in Docs /\ DepsTyped /\ PathInv /\ BlackInv
    BY DEF SearchInv
  <1>2. CASE G!_build_run
    <2>1. UNCHANGED <<doc, color, path, left, root>>
          /\ verdict' = IF G!NamesExist THEN "searching" ELSE "rejected"
      BY <1>2 DEF G!_build_run, G!search
    <2> QED
      BY <2>1, MapStays DEF SearchInv, DepsTyped, PathInv, BlackInv
  <1>3. CASE G!SearchFrom
    <2>1. /\ verdict = "searching" /\ path = <<>> /\ root <= Len(doc)
          /\ root' = root + 1 /\ UNCHANGED <<doc, verdict>>
      BY <1>3 DEF G!SearchFrom
    <2> DEFINE n == doc[root].id
    <2>2. root \in 1 .. Len(doc) /\ n \in Ids
      BY <1>1, <2>1, DocIsList, IdIn DEF DepsTyped
    <2>3. \A i \in 1 .. Len(doc) : i < root' => color[doc[i].id] # "white" \/ doc[i].id = n
      BY <2>1, <2>2, DocIsList DEF SearchInv
    <2>4. CASE color[n] = "white" /\ G!Enter(n, left)
      BY <1>1, <2>1, <2>2, <2>3, <2>4, EnterKeeps DEF DepsTyped
    <2>5. CASE color[n] # "white" /\ UNCHANGED <<color, path, left>>
      <3>1. \A i \in 1 .. Len(doc) : i < root' => color[doc[i].id] # "white"
        BY <2>3, <2>5
      <3>2. DepsTyped' /\ PathInv' /\ BlackInv'
        BY <1>1, <2>1, <2>2, <2>5, MapStays DEF DepsTyped, PathInv, BlackInv
      <3> QED
        BY <2>1, <2>5, <3>1, <3>2, MapStays DEF SearchInv
    <2> QED
      BY <1>3, <2>4, <2>5 DEF G!SearchFrom
  <1>4. CASE G!FollowDep
    <2>1. /\ verdict = "searching" /\ path # <<>> /\ UNCHANGED doc
      BY <1>4 DEF G!FollowDep
    <2>2. PICK dep \in left[G!Node] :
            \/ /\ color[dep] = "grey" /\ verdict' = "rejected"
               /\ UNCHANGED <<color, path, left, root>>
            \/ /\ color[dep] = "white" /\ G!Enter(dep, [left EXCEPT ![G!Node] = @ \ {dep}])
               /\ UNCHANGED <<root, verdict>>
            \/ /\ color[dep] = "black" /\ left' = [left EXCEPT ![G!Node] = @ \ {dep}]
               /\ UNCHANGED <<color, path, root, verdict>>
      BY <1>4 DEF G!FollowDep, G!search
    <2>3. Len(path) \in Nat \ {0} /\ G!Node \in Ids /\ G!Node = path[Len(path)]
      BY <1>1, <2>1 DEF DepsTyped, G!Node
    <2>4. dep \in Ids /\ dep \in dm[G!Node]
      BY <1>1, <2>3 DEF DepsTyped, PathInv
    <2>5. CASE color[dep] = "grey" /\ verdict' = "rejected" /\ UNCHANGED <<color, path, left, root>>
      <3>1. PICK k \in 1 .. Len(path) : path[k] = dep
        BY <1>1, <2>4, <2>5 DEF PathInv
      <3> DEFINE S == {path[j] : j \in k .. Len(path)}
      <3>2. S \in SUBSET Ids /\ S # {}
        BY <1>1, <2>3 DEF DepsTyped
      <3>3. ASSUME NEW j \in k .. Len(path) PROVE dm[path[j]] \cap S # {}
        <4>1. CASE j = Len(path)
          BY <2>3, <2>4, <3>1, <4>1
        <4>2. CASE j < Len(path)
          BY <1>1, <2>3, <4>2 DEF PathInv
        <4> QED
          BY <2>3, <4>1, <4>2
      <3>a. \A n \in S : dm[n] \cap S # {}
        <4> SUFFICES ASSUME NEW j \in k .. Len(path) PROVE dm[path[j]] \cap S # {}
          OBVIOUS
        <4> QED
          BY <3>3
      <3> HIDE DEF S
      <3>4. SomeCycle
        BY <3>2, <3>a DEF SomeCycle
      <3> QED
        BY <1>1, <2>1, <2>5, <3>4, MapStays DEF SearchInv, DepsTyped, PathInv, BlackInv
    <2>6. CASE color[dep] = "white" /\ G!Enter(dep, [left EXCEPT ![G!Node] = @ \ {dep}])
               /\ UNCHANGED <<root, verdict>>
      <3>1. [left EXCEPT ![G!Node] = @ \ {dep}] \in [Ids -> SUBSET Ids]
        BY <1>1, <2>3 DEF DepsTyped
      <3>2. root' \in Nat \ {0}
            /\ \A i \in 1 .. Len(doc) : i < root' => color[doc[i].id] # "white" \/ doc[i].id = dep
        BY <1>1, <2>6 DEF DepsTyped, SearchInv
      <3> QED
        BY <2>1, <2>4, <2>6, <3>1, <3>2, EnterKeeps
    <2>7. CASE color[dep] = "black" /\ left' = [left EXCEPT ![G!Node] = @ \ {dep}]
               /\ UNCHANGED <<color, path, root, verdict>>
      <3>1. DepsTyped'
        BY <1>1, <2>1, <2>3, <2>7, MapStays DEF DepsTyped
      <3>2. \A x \in Ids : left'[x] = IF x = G!Node THEN left[x] \ {dep} ELSE left[x]
        BY <1>1, <2>7 DEF DepsTyped
      <3>3. \A k \in 1 .. Len(path) : path[k] \in Ids
        BY <1>1 DEF DepsTyped
      <3>a. Ids' = Ids /\ G!deps_map' = dm
        BY <2>1, MapStays
      <3> HIDE DEF dm
      <3>b. ASSUME NEW k \in 1 .. Len(path)
            PROVE  /\ left'[path[k]] \subseteq dm[path[k]]
                   /\ \A d \in dm[path[k]] \ left'[path[k]] :
                         color[d] = "black" \/ (k < Len(path) /\ d = path[k + 1])
        <4>1. /\ left[path[k]] \subseteq dm[path[k]]
              /\ \A d \in dm[path[k]] \ left[path[k]] :
                    color[d] = "black" \/ (k < Len(path) /\ d = path[k + 1])
          BY <1>1 DEF PathInv, dm
        <4>2. left'[path[k]] = left[path[k]] \/ left'[path[k]] = left[path[k]] \ {dep}
          BY <3>2, <3>3
        <4> QED
          BY <2>7, <4>1, <4>2
      <3>4. PathInv'
        BY <1>1, <2>1, <2>7, <3>a, <3>b DEF PathInv, dm
      <3>5. BlackInv'
        BY <1>1, <2>1, <2>7, MapStays DEF BlackInv
      <3> QED
        BY <1>1, <2>1, <2>7, <3>1, <3>4, <3>5, MapStays DEF SearchInv
    <2> QED
      BY <2>2, <2>5, <2>6, <2>7
  <1>5. CASE G!Leave
    <2>1. /\ verdict = "searching" /\ path # <<>> /\ left[G!Node] = {}
          /\ color' = [color EXCEPT ![G!Node] = "black"]
          /\ path' = SubSeq(path, 1, Len(path) - 1)
          /\ UNCHANGED <<doc, verdict, left, root>>
      BY <1>5 DEF G!Leave
    <2>2. Len(path) \in Nat \ {0} /\ G!Node \in Ids /\ G!Node = path[Len(path)]
      BY <1>1, <2>1 DEF DepsTyped, G!Node
    <2>3. /\ Len(path') = Len(path) - 1
          /\ \A k \in 1 .. Len(path) - 1 : path'[k] = path[k] /\ path[k] \in Ids
          /\ path' \in Seq(Ids)
      <3> DEFINE m == Len(path) - 1
      <3>1. path \in Seq(Ids) /\ m \in Nat /\ m \in 0 .. Len(path) /\ path' = SubSeq(path, 1, m)
        BY <1>1, <2>1, <2>2 DEF DepsTyped
      <3>2. \A k \in 1 .. m : k \in 1 .. Len(path) /\ path[k] \in Ids
        BY <3>1
      <3>3. path' = [k \in 1 .. m |-> path[k]]
        BY <3>1
      <3>4. path' \in Seq(Ids) /\ Len(path') = m
        BY <3>1, ShorterList
      <3> QED
        BY <3>2, <3>3, <3>4
    <2>4. \A x \in Ids : color'[x] = IF x = G!Node THEN "black" ELSE color[x]
      BY <1>1, <2>1 DEF DepsTyped
    <2>5. \A x \in Ids : dm[x] \subseteq Ids
      BY <2>1, MapTyped DEF SearchInv
    <2>6. \A d \in dm[G!Node] : color[d] = "black"
      BY <1>1, <2>1, <2>2 DEF PathInv
    <2>7. Ids' = Ids /\ G!deps_map' = dm
      BY <2>1, MapStays
    <2>8. color[G!Node] = "grey"
      BY <1>1, <2>2 DEF PathInv
    <2> DEFINE top == G!Node
    <2> HIDE DEF dm, top
    <2>9. DepsTyped'
      BY <1>1, <2>1, <2>2, <2>3, <2>7 DEF DepsTyped
    <2>10. PathInv'
      <3>1. \A n \in Ids : color'[n] = "grey" <=> \E k \in 1 .. Len(path') : path'[k] = n
        BY <1>1, <2>2, <2>3, <2>4 DEF PathInv
      <3>2. \A j, k \in 1 .. Len(path') : path'[j] = path'[k] => j = k
        BY <1>1, <2>2, <2>3 DEF PathInv
      <3>3. \A k \in 1 .. Len(path') - 1 : path'[k + 1] \in dm[path'[k]]
        <4> TAKE k \in 1 .. Len(path') - 1
        <4>1. k \in 1 .. Len(path) - 1 /\ k + 1 \in 1 .. Len(path) - 1
          BY <2>2, <2>3
        <4>2. path'[k] = path[k] /\ path'[k + 1] = path[k + 1]
          BY <2>3, <4>1
        <4> QED
          BY <1>1, <4>1, <4>2 DEF PathInv, dm
      <3>4. ASSUME NEW k \in 1 .. Len(path')
            PROVE  /\ left'[path'[k]] \subseteq dm[path'[k]]
                   /\ \A d \in dm[path'[k]] \ left'[path'[k]] :
                         color'[d] = "black" \/ (k < Len(path') /\ d = path'[k + 1])
        <4>1. k \in 1 .. Len(path) /\ path'[k] = path[k] /\ left' = left /\ path[k] \in Ids
              /\ k < Len(path)
          BY <2>1, <2>2, <2>3
        <4>2. \A d \in dm[path[k]] \ left[path[k]] : color[d] = "black" \/ d = path[k + 1]
          BY <1>1, <4>1 DEF PathInv, dm
        <4>3. k + 1 = Len(path) \/ (k < Len(path') /\ path'[k + 1] = path[k + 1])
          BY <2>2, <2>3, <4>1
        <4>4. \A d \in dm[path[k]] \ left[path[k]] :
                color'[d] = "black" \/ (k < Len(path') /\ d = path'[k + 1])
          BY <2>2, <2>4, <2>5, <4>1, <4>2, <4>3
        <4> QED
          BY <1>1, <4>1, <4>4 DEF PathInv, dm
      <3> QED
        BY <2>7, <3>1, <3>2, <3>3, <3>4 DEF PathInv
    <2>11. BlackInv'
      <3>1. \A n \in Ids : color'[n] = "black" => \A d \in dm[n] : color'[d] = "black"
        BY <1>1, <2>4, <2>5, <2>6 DEF BlackInv, dm
      <3>2. ASSUME NEW S \in SUBSET Ids, S # {}, \A n \in S : color'[n] = "black"
            PROVE  \E n \in S : dm[n] \cap S = {}
        <4>1. CASE S = {G!Node}
          BY <2>6, <2>8, <4>1
        <4>2. CASE S # {G!Node}
          <5> DEFINE R == S \ {G!Node}
          <5>1. R \in SUBSET Ids /\ R # {} /\ \A n \in R : color[n] = "black"
            BY <2>4, <3>2, <4>2
          <5>2. PICK n \in R : dm[n] \cap R = {}
            BY <1>1, <5>1 DEF BlackInv, dm
          <5>3. G!Node \notin dm[n]
            BY <1>1, <2>8, <5>1 DEF BlackInv, dm
          <5> QED
            BY <5>2, <5>3
        <4> QED
          BY <4>1, <4>2
      <3> QED
        BY <2>7, <3>1, <3>2 DEF BlackInv
    <2> QED
      BY <1>1, <2>1, <2>4, <2>9, <2>10, <2>11, MapStays, IdIn DEF SearchInv
  <1>6. CASE G!Accept
    <2>1. /\ verdict = "searching" /\ path = <<>> /\ root > Len(doc) /\ verdict' = "accepted"
          /\ UNCHANGED <<doc, color, path, left, root>>
      BY <1>6 DEF G!Accept, G!search
    <2>2. \A n \in Ids : color[n] # "grey"
      BY <1>1, <2>1 DEF PathInv
    <2>3. \A n \in Ids : color[n] # "white"
      BY <1>1, <2>1, IdOf, DocIsList DEF SearchInv, DepsTyped
    <2>4. \A n \in Ids : color[n] = "black"
      BY <1>1, <2>2, <2>3 DEF DepsTyped
    <2> QED
      BY <1>1, <2>1, <2>4, MapStays DEF SearchInv, DepsTyped, PathInv, BlackInv
  <1>7. CASE G!_handle_generates_source
    <2>1. UNCHANGED <<doc, verdict, color, path, left, root>>
      BY <1>7 DEF G!_handle_generates_source, G!search
    <2> QED
      BY <2>1, MapStays DEF SearchInv, DepsTyped, PathInv, BlackInv
  <1> QED
    BY <1>2, <1>3, <1>4, <1>5, <1>6, <1>7 DEF G!Next

(* Without a second use of an id, a dependency means the one task that has it. *)
LEMMA FirstMeans ==
    ASSUME doc \in Docs, G!DistinctIds(doc), NEW i \in DOMAIN doc
    PROVE  G!FirstOf(G!Tasks, doc[i].id) = i
  <1>1. DOMAIN G!Tasks = DOMAIN doc /\ \A j \in DOMAIN doc : G!Tasks[j].id = doc[j].id
    BY DEF G!Tasks, G!_resolve_wildcard_deps
  <1>2. i \in Nat /\ \A j \in DOMAIN doc : j \in Nat
    BY DocIsList
  <1> DEFINE First(j) == /\ G!Tasks[j].id = doc[i].id
                         /\ \A l \in DOMAIN G!Tasks : G!Tasks[l].id = doc[i].id => j <= l
  <1>3. First(i)
    BY <1>1, <1>2 DEF G!DistinctIds
  <1>4. \A j \in DOMAIN G!Tasks : First(j) => j = i
    BY <1>1 DEF G!DistinctIds
  <1>5. (CHOOSE j \in DOMAIN G!Tasks : First(j)) = i
    BY <1>1, <1>3, <1>4
  <1> QED
    BY <1>5 DEF G!FirstOf

LEMMA TasksOfDoc ==
    /\ DOMAIN G!Tasks = DOMAIN doc
    /\ \A i \in DOMAIN doc : G!Tasks[i].id = doc[i].id
  BY DEF G!Tasks, G!_resolve_wildcard_deps

(* Tasks that were all left can be ordered.                                  *)
LEMMA BlackIsOrderable ==
    ASSUME doc \in Docs, G!DistinctIds(doc), G!NamesExist, BlackInv,
           \A n \in Ids : color[n] = "black"
    PROVE  G!Orderable(G!Tasks)
  <1> SUFFICES ASSUME NEW S \in SUBSET DOMAIN doc, S # {}
               PROVE  \E i \in S : {G!FirstOf(G!Tasks, n) : n \in G!Tasks[i].deps} \cap S = {}
    BY TasksOfDoc DEF G!Orderable
  <1> DEFINE R == {doc[i].id : i \in S}
  <1>1. R \in SUBSET Ids /\ R # {}
    BY DEF Ids, G!IdsOf
  <1>2. PICK n \in R : G!deps_map[n] \cap R = {}
    BY <1>1 DEF BlackInv
  <1>3. PICK i \in S : doc[i].id = n
    BY <1>2
  <1>4. G!deps_map[n] = G!Tasks[i].deps
    BY <1>3, MapMeans
  <1>5. ASSUME NEW m \in G!Tasks[i].deps PROVE G!FirstOf(G!Tasks, m) \notin S
    <2>1. m \in Ids
      BY <1>3, <1>4, MapTyped, IdIn, DocIsList
    <2>2. PICK j \in DOMAIN doc : doc[j].id = m
      BY <2>1, IdOf, DocIsList
    <2>3. G!FirstOf(G!Tasks, m) = j
      BY <2>2, FirstMeans
    <2> QED
      BY <1>2, <1>4, <2>2, <2>3
  <1> QED
    BY <1>5

(* A set of tasks each of which waits for one of the set cannot.              *)
LEMMA CycleIsNotOrderable ==
    ASSUME doc \in Docs, G!DistinctIds(doc), SomeCycle
    PROVE  ~G!Orderable(G!Tasks)
  <1>1. PICK S \in SUBSET Ids : S # {} /\ \A n \in S : G!deps_map[n] \cap S # {}
    BY DEF SomeCycle
  <1> DEFINE R == {i \in DOMAIN doc : doc[i].id \in S}
  <1>2. R \in SUBSET DOMAIN G!Tasks /\ R # {}
    BY <1>1, IdOf, DocIsList, TasksOfDoc
  <1>3. ASSUME NEW i \in R
        PROVE  {G!FirstOf(G!Tasks, n) : n \in G!Tasks[i].deps} \cap R # {}
    <2>1. PICK m \in S : m \in G!Tasks[i].deps
      BY <1>1, MapMeans
    <2>2. PICK j \in DOMAIN doc : doc[j].id = m
      BY <1>1, <2>1, IdOf, DocIsList
    <2>3. G!FirstOf(G!Tasks, m) = j /\ j \in R
      BY <2>2, FirstMeans
    <2> QED
      BY <2>1, <2>3
  <1> HIDE DEF R
  <1> QED
    BY <1>2, <1>3 DEF G!Orderable

LEMMA SearchIsExact ==
    ASSUME SearchInv, G!DistinctIds(doc)
    PROVE  G!AcceptsExactlyTheOrderable
  <1>1. doc \in Docs
    BY DEF SearchInv
  <1>2. CASE verdict = "accepted"
    <2>1. G!NamesExist /\ G!Orderable(G!Tasks)
      BY <1>1, <1>2, BlackIsOrderable DEF SearchInv
    <2> QED
      BY <1>2, <2>1 DEF G!NamesExist, G!AcceptsExactlyTheOrderable
  <1>3. CASE verdict = "rejected" /\ SomeCycle
    BY <1>1, <1>3, CycleIsNotOrderable DEF G!AcceptsExactlyTheOrderable
  <1>4. CASE verdict = "rejected" /\ ~G!NamesExist
    <2> SUFFICES ASSUME doc # <<>>, G!Resolvable(doc, G!IdsOf(doc)), G!Orderable(G!Tasks),
                        \A i \in DOMAIN G!Tasks : G!Tasks[i].deps \subseteq G!IdsOf(doc)
                 PROVE  FALSE
      BY <1>4 DEF G!AcceptsExactlyTheOrderable
    <2>1. PICK i \in DOMAIN doc : doc[i].id \in G!Tasks[i].deps
      BY <1>4, TasksOfDoc DEF G!NamesExist
    <2>2. {i} \in SUBSET DOMAIN G!Tasks /\ {i} # {}
      BY <2>1, TasksOfDoc
    <2>3. {G!FirstOf(G!Tasks, n) : n \in G!Tasks[i].deps} \cap {i} = {}
      BY <2>2 DEF G!Orderable
    <2> QED
      BY <1>1, <2>1, <2>3, FirstMeans
  <1> QED
    BY <1>2, <1>3, <1>4 DEF SearchInv, G!AcceptsExactlyTheOrderable

(* The search of _validate_dependencies accepts what can be ordered and       *)
(* nothing else, for every document.                                          *)
THEOREM CheckIsExact == AllSpec => []AcceptsExactlyTheOrderable
  <1> DEFINE Inv == part = "deps" /\ G!DistinctIds(doc) => SearchInv
  <1>1. AllInit => Inv
    BY SearchBegins DEF AllInit
  <1>2. Inv /\ [AllNext]_AllVars => Inv'
    <2> SUFFICES ASSUME Inv, [AllNext]_AllVars, part' = "deps", G!DistinctIds(doc)'
                 PROVE  SearchInv'
      OBVIOUS
    <2>1. CASE UNCHANGED AllVars
      BY <2>1, MapStays DEF AllVars, DepsVars, SearchInv, DepsTyped, PathInv, BlackInv,
                            G!DistinctIds
    <2>2. CASE AllNext
      <3>1. part = "deps" /\ G!Next
        BY <2>2 DEF AllNext
      <3>2. doc' = doc
        BY <3>1 DEF G!Next, G!_build_run, G!SearchFrom, G!FollowDep, G!Leave, G!Accept,
                    G!_handle_generates_source
      <3>3. G!DistinctIds(doc)
        BY <3>2 DEF G!DistinctIds
      <3> QED
        BY <3>1, <3>3, SearchStep
    <2> QED
      BY <2>1, <2>2
  <1>3. Inv => AcceptsExactlyTheOrderable
    BY SearchIsExact DEF AcceptsExactlyTheOrderable, G!AcceptsExactlyTheOrderable
  <1> QED
    BY <1>1, <1>2, <1>3, PTL DEF AllSpec

-----------------------------------------------------------------------------
(* The environment of a task.                                                *)

LEMMA ListConcat ==
    ASSUME NEW a, NEW b, IsList(a), IsList(b)
    PROVE  /\ IsList(a \o b) /\ Len(a \o b) = Len(a) + Len(b)
           /\ b # <<>> => a \o b # <<>> /\ (a \o b)[Len(a \o b)] = b[Len(b)]
  <1> DEFINE S == E!ToSet(a) \cup E!ToSet(b)
  <1>1. IsSeq(a) /\ IsSeq(b)
    BY DEF IsList, IsSeq
  <1>2. a \in Seq(S) /\ b \in Seq(S) /\ \A r \in S : IsRule(r)
    BY <1>1, SeqWider DEF IsList
  <1> HIDE DEF S
  <1>3. a \o b \in Seq(S) /\ Len(a \o b) = Len(a) + Len(b)
    BY <1>2
  <1>4. E!ToSet(a \o b) \subseteq S
    BY <1>3 DEF E!ToSet
  <1>5. ASSUME b # <<>> PROVE a \o b # <<>> /\ (a \o b)[Len(a \o b)] = b[Len(b)]
    BY <1>2, <1>3, <1>5
  <1> QED
    BY <1>2, <1>3, <1>4, <1>5, SeqTyped DEF IsList, IsSeq

LEMMA RulesAreList ==
    ASSUME config \in Configs
    PROVE  /\ IsList(E!collect_rules)
           /\ config.rules["task"] # <<>> =>
                 /\ E!collect_rules # <<>>
                 /\ E!collect_rules[Len(E!collect_rules)]
                      = config.rules["task"][Len(config.rules["task"])]
  <1> DEFINE a == config.rules["backend"]
             b == config.rules["server"]
             c == config.rules["workflow-doc"]
             d == config.rules["task"]
  <1>1. IsList(a) /\ IsList(b) /\ IsList(c) /\ IsList(d)
    BY ConfigsAssumption DEF E!Layers
  <1>2. E!collect_rules = a \o b \o c \o d
    BY DEF E!collect_rules
  <1> HIDE DEF a, b, c
  <1>3. IsList(a \o b \o c)
    BY <1>1, ListConcat
  <1> QED
    BY <1>1, <1>2, <1>3, ListConcat

LEMMA GroupsAreLists ==
    ASSUME config \in Configs
    PROVE  /\ DOMAIN E!collect_groups \subseteq Names
           /\ \A n \in DOMAIN E!collect_groups : IsList(E!collect_groups[n])
  <1>1. /\ \A l \in E!GroupLayers : DOMAIN config.groups[l] \subseteq Names
        /\ \A l \in E!GroupLayers : \A n \in DOMAIN config.groups[l] : IsList(config.groups[l][n])
    BY ConfigsAssumption
  <1> QED
    BY <1>1 DEF E!collect_groups, E!GroupLayers

(* What one rule includes is a set of names.                                *)
LEMMA Including ==
    ASSUME NEW r, IsRule(r)
    PROVE  /\ E!ToSet(r.include) \subseteq Names
           /\ Len(r.include) \in Nat /\ DOMAIN r.include = 1 .. Len(r.include)
  BY DEF IsRule, E!ToSet

LEMMA ListIs ==
    ASSUME NEW l, IsList(l)
    PROVE  /\ Len(l) \in Nat /\ DOMAIN l = 1 .. Len(l)
           /\ \A j \in 1 .. Len(l) :
                 l[j] \in E!ToSet(l) /\ IsRule(l[j]) /\ Len(l[j].include) \in Nat
           /\ \A r \in E!ToSet(l) : \E j \in 1 .. Len(l) : r = l[j]
  <1>1. Len(l) \in Nat /\ DOMAIN l = 1 .. Len(l)
    BY DEF IsList
  <1>2. /\ \A j \in 1 .. Len(l) : l[j] \in E!ToSet(l)
        /\ \A r \in E!ToSet(l) : \E j \in 1 .. Len(l) : r = l[j]
    BY <1>1 DEF E!ToSet
  <1> QED
    BY <1>1, <1>2, Including DEF IsList

LEMMA BodyIsRules ==
    ASSUME config \in Configs, NEW n
    PROVE  \A r \in E!Body(n) : IsRule(r)
  BY GroupsAreLists DEF E!Body, IsList

LEMMA NamedAreNames ==
    ASSUME config \in Configs
    PROVE  /\ \A n : E!Named(E!Body(n)) \subseteq Names
           /\ E!Named(E!Entry) \subseteq Names
  BY BodyIsRules, RulesAreList, Including DEF E!Named, E!Entry, IsList

(* What is reached from some names: the least closed set with them.          *)
LEMMA ClosureHolds ==
    ASSUME config \in Configs, NEW ns, ns \subseteq Names
    PROVE  /\ ns \subseteq E!Closure(ns) /\ E!Closure(ns) \subseteq Names
           /\ \A n \in E!Closure(ns) : E!Named(E!Body(n)) \subseteq E!Closure(ns)
  BY NamedAreNames DEF E!Closure, E!Closed

LEMMA ClosureIsLeast ==
    ASSUME NEW ns, NEW S \in SUBSET Names, ns \subseteq S, E!Closed(S)
    PROVE  E!Closure(ns) \subseteq S
  BY DEF E!Closure

LEMMA ClosureByStep ==
    ASSUME config \in Configs, NEW ns, ns \subseteq Names, NEW y \in E!Closure(ns)
    PROVE  \E x \in ns : y = x \/ y \in E!Closure(E!Named(E!Body(x)))
  <1> DEFINE S == {n \in Names : \E x \in ns : n = x \/ n \in E!Closure(E!Named(E!Body(x)))}
  <1>1. ns \subseteq S
    OBVIOUS
  <1>2. ASSUME NEW n \in S PROVE E!Named(E!Body(n)) \subseteq S
    <2>1. PICK x \in ns : n = x \/ n \in E!Closure(E!Named(E!Body(x)))
      BY <1>2
    <2>2. E!Named(E!Body(n)) \subseteq E!Closure(E!Named(E!Body(x)))
      BY <2>1, ClosureHolds, NamedAreNames
    <2> QED
      BY <2>2, NamedAreNames
  <1>3. S \in SUBSET Names /\ E!Closed(S)
    BY <1>2 DEF E!Closed
  <1>4. E!Closure(ns) \subseteq S
    BY <1>1, <1>3, ClosureIsLeast
  <1> QED
    BY <1>4

(* The groups whose expansion comes to an end: the least set of names that    *)
(* holds each whose rules only include names of the set and known stacks.     *)
Fine(S, r) == r.stacks \subseteq Stacks /\ E!ToSet(r.include) \subseteq S

AllFine(S) == {m \in Names : \A r \in E!Body(m) : Fine(S, r)}

Expandable == {n \in Names : \A S \in SUBSET Names : AllFine(S) \subseteq S => n \in S}

LEMMA ExpandableHolds == AllFine(Expandable) \subseteq Expandable
  BY DEF Expandable, AllFine, Fine

LEMMA ExpandableIsLeast == Expandable \subseteq AllFine(Expandable)
  <1> DEFINE S == AllFine(Expandable)
  <1>1. S \in SUBSET Names /\ S \subseteq Expandable
    BY ExpandableHolds DEF AllFine
  <1>2. AllFine(S) \subseteq S
    BY <1>1 DEF AllFine, Fine
  <1> QED
    BY <1>1, <1>2 DEF Expandable

(* No such group reaches itself.                                             *)
LEMMA ExpandableHasNoCycle ==
    ASSUME config \in Configs, NEW n \in Expandable
    PROVE  n \notin E!Closure(E!Named(E!Body(n)))
  <1> DEFINE S == {m \in Names : m \notin E!Closure(E!Named(E!Body(m)))}
  <1>1. ASSUME NEW m \in AllFine(S), m \in E!Closure(E!Named(E!Body(m))) PROVE FALSE
    <2>1. PICK x \in E!Named(E!Body(m)) : m = x \/ m \in E!Closure(E!Named(E!Body(x)))
      BY <1>1, ClosureByStep, NamedAreNames
    <2>2. x \in S
      BY <2>1 DEF AllFine, Fine, E!Named
    <2>3. m # x
      BY <1>1, <2>2
    <2>4. x \in E!Closure(E!Named(E!Body(x)))
      BY <2>1, <2>3, ClosureHolds, NamedAreNames
    <2> QED
      BY <2>2, <2>4
  <1>2. AllFine(S) \subseteq S
    BY <1>1 DEF AllFine
  <1>3. S \in SUBSET Names
    OBVIOUS
  <1> HIDE DEF S
  <1>4. n \in S
    BY <1>2, <1>3 DEF Expandable
  <1> QED
    BY <1>4 DEF S

-----------------------------------------------------------------------------
(* The calls of flatten.                                                     *)
Reached == E!Closure(E!Named(E!Entry))

Known == E!Entry \cup UNION {E!Body(n) : n \in Reached}

(* A call has found the rules before its place, and the includes before its  *)
(* name, expandable; each group it is nested in reaches what it includes.    *)
FrameInv(f) ==
    /\ f = [list |-> f.list, at |-> f.at, inc |-> f.inc, seen |-> f.seen, guards |-> f.guards]
    /\ IsList(f.list) /\ E!ToSet(f.list) \subseteq Known
    /\ f.at \in 1 .. Len(f.list) + 1 /\ f.inc \in Nat \ {0}
    /\ f.at > Len(f.list) => f.inc = 1
    /\ f.at <= Len(f.list) => f.inc <= Len(f.list[f.at].include) + 1
    /\ \A i \in 1 .. f.at - 1 : Fine(Expandable, f.list[i])
    /\ f.at <= Len(f.list) => \A j \in 1 .. f.inc - 1 : f.list[f.at].include[j] \in Expandable
    /\ f.seen \subseteq Reached
    /\ \A n \in f.seen : \A r \in E!ToSet(f.list) :
          E!ToSet(r.include) \subseteq E!Closure(E!Named(E!Body(n)))

(* The call g was made for the name the call f is at.                        *)
Calls(f, g) ==
    /\ f.at <= Len(f.list) /\ f.inc <= Len(f.list[f.at].include)
    /\ f.list[f.at].include[f.inc] \in DOMAIN E!collect_groups
    /\ g.list = E!collect_groups[f.list[f.at].include[f.inc]]

FramesInv(fs) ==
    /\ IsSeq(fs) /\ Len(fs) >= 1 /\ fs[1].list = E!collect_rules
    /\ \A k \in 1 .. Len(fs) : FrameInv(fs[k])
    /\ \A k \in 1 .. Len(fs) - 1 : Calls(fs[k], fs[k + 1])

Fails ==
    \/ \E n \in Reached : n \in E!Closure(E!Named(E!Body(n)))
    \/ \E r \in Known : ~(r.stacks \subseteq Stacks)

FlattenInv ==
    /\ config \in Configs
    /\ phase \in {"flatten", "resolve", "done", "raised"}
    /\ phase = "flatten" => FramesInv(frames)
    /\ phase \in {"resolve", "done"} => \A r \in E!Entry : Fine(Expandable, r)
    /\ phase = "raised" => Fails

LEMMA FramesReplace ==
    ASSUME NEW fs, FramesInv(fs), NEW g, FrameInv(g), g.list = fs[Len(fs)].list
    PROVE  FramesInv([fs EXCEPT ![Len(fs)] = g])
  <1> DEFINE m == Len(fs)
             s == [fs EXCEPT ![m] = g]
  <1>1. IsSeq(fs) /\ m \in Nat /\ m \in 1 .. m
    BY SeqDomain DEF FramesInv
  <1>2. IsSeq(s) /\ Len(s) = m /\ \A i \in 1 .. m : s[i] = IF i = m THEN g ELSE fs[i]
    BY <1>1, SeqExcept
  <1> HIDE DEF m, s
  <1>3. s[1].list = E!collect_rules
    BY <1>1, <1>2 DEF FramesInv, m
  <1>4. \A k \in 1 .. m : FrameInv(s[k])
    BY <1>1, <1>2 DEF FramesInv, m
  <1>5. ASSUME NEW k \in 1 .. m - 1 PROVE Calls(s[k], s[k + 1])
    <2>1. s[k] = fs[k] /\ s[k + 1].list = fs[k + 1].list /\ Calls(fs[k], fs[k + 1])
      BY <1>1, <1>2 DEF FramesInv, m
    <2> QED
      BY <2>1 DEF Calls
  <1>6. FramesInv(s)
    BY <1>1, <1>2, <1>3, <1>4, <1>5 DEF FramesInv
  <1> QED
    BY <1>6 DEF s, m

LEMMA FramesPush ==
    ASSUME NEW fs, FramesInv(fs), NEW g, FrameInv(g), Calls(fs[Len(fs)], g)
    PROVE  FramesInv(Append(fs, g))
  <1> DEFINE m == Len(fs)
             s == Append(fs, g)
  <1>1. IsSeq(fs) /\ m \in Nat /\ m >= 1
    BY SeqDomain DEF FramesInv
  <1>2. IsSeq(s) /\ Len(s) = m + 1 /\ (\A i \in 1 .. m : s[i] = fs[i]) /\ s[m + 1] = g
    BY <1>1, SeqAppend
  <1> HIDE DEF m, s
  <1>3. s[1].list = E!collect_rules
    BY <1>1, <1>2 DEF FramesInv, m
  <1>4. \A k \in 1 .. m + 1 : FrameInv(s[k])
    BY <1>1, <1>2 DEF FramesInv, m
  <1>5. ASSUME NEW k \in 1 .. m PROVE Calls(s[k], s[k + 1])
    BY <1>1, <1>2 DEF FramesInv, m
  <1>6. FramesInv(s)
    BY <1>1, <1>2, <1>3, <1>4, <1>5 DEF FramesInv
  <1> QED
    BY <1>6 DEF s, m

LEMMA FramesPop ==
    ASSUME NEW fs, FramesInv(fs), Len(fs) > 1
    PROVE  LET s == SubSeq(fs, 1, Len(fs) - 1)
           IN  /\ FramesInv(s) /\ Len(s) = Len(fs) - 1
               /\ \A k \in 1 .. Len(s) : s[k] = fs[k]
  <1> DEFINE m == Len(fs) - 1
             s == SubSeq(fs, 1, m)
  <1>1. IsSeq(fs) /\ m \in Nat /\ m >= 1 /\ Len(fs) = m + 1 /\ m \in 0 .. Len(fs)
    BY SeqDomain DEF FramesInv
  <1>2. IsSeq(s) /\ Len(s) = m /\ \A i \in 1 .. m : s[i] = fs[i]
    BY <1>1, SeqShorter
  <1> HIDE DEF m, s
  <1>3. FramesInv(s)
    BY <1>1, <1>2 DEF FramesInv
  <1> QED
    BY <1>1, <1>2, <1>3 DEF s, m

(* The sets are the same as long as the configuration is.                     *)
LEMMA ConfigStays ==
    ASSUME config' = config
    PROVE  /\ E!Entry' = E!Entry /\ Reached' = Reached /\ Known' = Known /\ Fails' = Fails
           /\ Expandable' = Expandable
           /\ E!collect_rules' = E!collect_rules /\ E!collect_groups' = E!collect_groups
           /\ FramesInv(frames)' <=> FramesInv(frames')
  <1>1. E!collect_rules' = E!collect_rules /\ E!collect_groups' = E!collect_groups
    BY DEF E!collect_rules, E!collect_groups
  <1>2. E!Entry' = E!Entry
    BY <1>1 DEF E!Entry
  <1>3. \A n : E!Body(n)' = E!Body(n)
    BY <1>1 DEF E!Body
  <1>4. \A ns : E!Closure(ns)' = E!Closure(ns)
    BY <1>3 DEF E!Closure, E!Closed
  <1>5. \A rs : E!Named(rs)' = E!Named(rs)
    BY DEF E!Named
  <1>6. Reached' = Reached
    BY <1>2, <1>4, <1>5 DEF Reached
  <1>7. Known' = Known
    BY <1>2, <1>3, <1>6 DEF Known
  <1>8. Fails' = Fails
    BY <1>3, <1>4, <1>5, <1>6, <1>7 DEF Fails
  <1>9. \A S : AllFine(S)' = AllFine(S)
    BY <1>3 DEF AllFine, Fine
  <1>10. Expandable' = Expandable
    BY <1>9 DEF Expandable
  <1>11. \A S, r : Fine(S, r)' <=> Fine(S, r)
    BY DEF Fine
  <1>12. \A f : FrameInv(f)' <=> FrameInv(f)
    BY <1>3, <1>4, <1>5, <1>6, <1>7, <1>10, <1>11 DEF FrameInv
  <1>13. \A f, g : Calls(f, g)' <=> Calls(f, g)
    BY <1>1 DEF Calls
  <1>14. FramesInv(frames)' <=> FramesInv(frames')
    BY <1>1, <1>12, <1>13 DEF FramesInv
  <1> QED
    BY <1>1, <1>2, <1>6, <1>7, <1>8, <1>10, <1>14

LEMMA TopIs ==
    ASSUME FlattenInv, phase = "flatten"
    PROVE  /\ FramesInv(frames) /\ FrameInv(E!Top) /\ E!Depth \in Nat \ {0}
           /\ E!Top = frames[E!Depth] /\ E!Depth = Len(frames) /\ IsSeq(frames)
           /\ \A k \in 1 .. E!Depth : FrameInv(frames[k])
           /\ frames = [k \in 1 .. E!Depth |-> frames[k]]
  <1>1. FramesInv(frames) /\ IsSeq(frames) /\ Len(frames) \in Nat \ {0}
    BY SeqDomain DEF FlattenInv, FramesInv
  <1>2. frames = [k \in 1 .. Len(frames) |-> frames[k]]
    BY <1>1 DEF IsSeq
  <1> QED
    BY <1>1, <1>2 DEF FramesInv, E!Top, E!Depth

(* The rule a call is at, while it has one.                                  *)
LEMMA RuleIs ==
    ASSUME NEW f, FrameInv(f), f.at <= Len(f.list)
    PROVE  LET r == f.list[f.at]
           IN  /\ IsRule(r) /\ r \in Known /\ r \in E!ToSet(f.list) /\ f.at \in 1 .. Len(f.list)
               /\ Len(r.include) \in Nat /\ DOMAIN r.include = 1 .. Len(r.include)
               /\ E!ToSet(r.include) \subseteq Names
  <1>1. f.at \in DOMAIN f.list /\ f.at \in 1 .. Len(f.list)
    BY DEF FrameInv, IsList
  <1>2. f.list[f.at] \in E!ToSet(f.list)
    BY <1>1 DEF E!ToSet
  <1> QED
    BY <1>1, <1>2, Including DEF FrameInv, IsList

(* The name it is at.                                                        *)
LEMMA NameIs ==
    ASSUME config \in Configs, NEW f, FrameInv(f), f.at <= Len(f.list),
           f.inc <= Len(f.list[f.at].include)
    PROVE  LET n == f.list[f.at].include[f.inc]
           IN  /\ n \in Names /\ n \in Reached
               /\ \A m \in f.seen : n \in E!Closure(E!Named(E!Body(m)))
  <1> DEFINE r == f.list[f.at]
             n == r.include[f.inc]
  <1>1. IsRule(r) /\ r \in Known /\ r \in E!ToSet(f.list) /\ E!ToSet(r.include) \subseteq Names
    BY RuleIs
  <1>2. n \in E!ToSet(r.include)
    BY RuleIs DEF FrameInv, E!ToSet
  <1>3. n \in Reached
    <2>1. CASE r \in E!Entry
      <3>1. n \in E!Named(E!Entry)
        BY <1>2, <2>1 DEF E!Named
      <3> QED
        BY <3>1, ClosureHolds, NamedAreNames DEF Reached
    <2>2. CASE \E m \in Reached : r \in E!Body(m)
      <3>1. PICK m \in Reached : n \in E!Named(E!Body(m))
        BY <1>2, <2>2 DEF E!Named
      <3> QED
        BY <3>1, ClosureHolds, NamedAreNames DEF Reached
    <2> QED
      BY <1>1, <2>1, <2>2 DEF Known
  <1> QED
    BY <1>1, <1>2, <1>3 DEF FrameInv

(* A name that is passed over.                                               *)
LEMMA PassName ==
    ASSUME NEW f, FrameInv(f), f.at <= Len(f.list), f.inc <= Len(f.list[f.at].include),
           f.list[f.at].include[f.inc] \in Expandable
    PROVE  FrameInv([f EXCEPT !.inc = @ + 1])
  <1> DEFINE g == [f EXCEPT !.inc = @ + 1]
  <1>1. /\ g.list = f.list /\ g.at = f.at /\ g.inc = f.inc + 1 /\ g.seen = f.seen
        /\ g.guards = f.guards
        /\ g = [list |-> g.list, at |-> g.at, inc |-> g.inc, seen |-> g.seen, guards |-> g.guards]
    BY DEF FrameInv
  <1>2. Len(f.list[f.at].include) \in Nat /\ f.inc \in Nat \ {0}
    BY RuleIs DEF FrameInv
  <1> HIDE DEF g
  <1>3. FrameInv(g)
    BY <1>1, <1>2 DEF FrameInv
  <1> QED
    BY <1>3 DEF g

LEMMA IncludeStep ==
    ASSUME FlattenInv, E!Include
    PROVE  FlattenInv'
  <1> DEFINE f == E!Top
             n == E!Name
             d == E!Depth
  <1>1. phase = "flatten" /\ config' = config /\ config \in Configs
    BY DEF E!Include, FlattenInv
  <1>2. f.at <= Len(f.list) /\ f.inc <= Len(f.list[f.at].include)
        /\ n = f.list[f.at].include[f.inc]
    BY DEF E!Include, E!Including, E!Rule, E!Name
  <1>3. FramesInv(frames) /\ FrameInv(f) /\ d \in Nat \ {0} /\ f = frames[d] /\ d = Len(frames)
        /\ frames = [k \in 1 .. d |-> frames[k]]
    BY <1>1, TopIs
  <1>4. n \in Names /\ n \in Reached /\ \A m \in f.seen : n \in E!Closure(E!Named(E!Body(m)))
    BY <1>1, <1>2, <1>3, NameIs
  <1>5. CASE n \in f.seen /\ phase' = "raised"
    BY <1>1, <1>4, <1>5, ConfigStays DEF FlattenInv, Fails
  <1>6. CASE n \notin DOMAIN E!collect_groups /\ E!Skip /\ phase' = phase
    <2>1. n \in Expandable
      BY <1>4, <1>6, ExpandableHolds DEF AllFine, E!Body
    <2>2. FrameInv([f EXCEPT !.inc = @ + 1])
      BY <1>2, <1>3, <2>1, PassName
    <2>3. frames' = [frames EXCEPT ![d] = [f EXCEPT !.inc = @ + 1]]
      BY <1>3, <1>6 DEF E!Skip
    <2>4. [f EXCEPT !.inc = @ + 1].list = f.list
      BY <1>3 DEF FrameInv
    <2>5. FramesInv(frames')
      BY <1>3, <2>2, <2>3, <2>4, FramesReplace
    <2> QED
      BY <1>1, <1>6, <2>5, ConfigStays DEF FlattenInv
  <1>7. CASE /\ n \in DOMAIN E!collect_groups /\ phase' = phase
             /\ frames' = Append(frames, E!Frame(E!collect_groups[n], f.seen \cup {n},
                                                 f.guards \cup E!Rule.if_))
    <2> DEFINE g == E!Frame(E!collect_groups[n], f.seen \cup {n}, f.guards \cup E!Rule.if_)
    <2>1. /\ g.list = E!collect_groups[n] /\ g.at = 1 /\ g.inc = 1 /\ g.seen = f.seen \cup {n}
          /\ g = [list |-> g.list, at |-> g.at, inc |-> g.inc, seen |-> g.seen,
                  guards |-> g.guards]
      BY DEF E!Frame
    <2>2. IsList(g.list) /\ E!ToSet(g.list) = E!Body(n)
      BY <1>1, <1>7, <2>1, GroupsAreLists DEF E!Body
    <2>3. E!ToSet(g.list) \subseteq Known
      BY <1>4, <2>2 DEF Known
    <2>4. \A r \in E!ToSet(g.list) : E!ToSet(r.include) \subseteq E!Named(E!Body(n))
      BY <2>2 DEF E!Named
    <2>5. \A m \in g.seen : E!Named(E!Body(n)) \subseteq E!Closure(E!Named(E!Body(m)))
      BY <1>1, <1>4, <2>1, ClosureHolds, NamedAreNames
    <2>6. g.seen \subseteq Reached
      BY <1>3, <1>4, <2>1 DEF FrameInv
    <2>7. \A r \in E!ToSet(g.list) : Len(r.include) \in Nat
      BY <2>2, Including DEF IsList
    <2>8. Len(g.list) \in Nat /\ \A j \in 1 .. Len(g.list) : g.list[j] \in E!ToSet(g.list)
      BY <2>2, ListIs
    <2> HIDE DEF g
    <2>9. FrameInv(g)
      BY <2>1, <2>2, <2>3, <2>4, <2>5, <2>6, <2>7, <2>8 DEF FrameInv
    <2>10. Calls(f, g)
      BY <1>2, <1>7, <2>1 DEF Calls
    <2>11. FramesInv(frames')
      BY <1>3, <1>7, <2>9, <2>10, FramesPush DEF g
    <2> QED
      BY <1>1, <1>7, <2>11, ConfigStays DEF FlattenInv
  <1> QED
    BY <1>5, <1>6, <1>7 DEF E!Include

(* A rule whose includes have all been expanded.                             *)
LEMMA PassRule ==
    ASSUME NEW f, FrameInv(f), f.at <= Len(f.list), f.inc > Len(f.list[f.at].include),
           f.list[f.at].stacks \subseteq Stacks
    PROVE  /\ FrameInv([f EXCEPT !.at = @ + 1, !.inc = 1])
           /\ [f EXCEPT !.at = @ + 1, !.inc = 1].list = f.list
  <1> DEFINE g == [f EXCEPT !.at = @ + 1, !.inc = 1]
             r == f.list[f.at]
  <1>1. f = [list |-> f.list, at |-> f.at, inc |-> f.inc, seen |-> f.seen, guards |-> f.guards]
    BY DEF FrameInv
  <1>2. g = [list |-> g.list, at |-> g.at, inc |-> g.inc, seen |-> g.seen, guards |-> g.guards]
    <2> SUFFICES ASSUME NEW h, h = [f EXCEPT !.at = @ + 1, !.inc = 1]
                 PROVE  h = [list |-> h.list, at |-> h.at, inc |-> h.inc, seen |-> h.seen,
                             guards |-> h.guards]
      OBVIOUS
    <2> QED
      BY <1>1
  <1>3. g.list = f.list /\ g.at = f.at + 1 /\ g.inc = 1 /\ g.seen = f.seen
    BY <1>1
  <1> HIDE DEF g
  <1>4. /\ f.at \in 1 .. Len(f.list) /\ Len(r.include) \in Nat
        /\ DOMAIN r.include = 1 .. Len(r.include)
    BY RuleIs
  <1>5. Fine(Expandable, r)
    <2>1. f.inc <= Len(r.include) + 1 /\ f.inc \in Nat
          /\ \A j \in 1 .. f.inc - 1 : r.include[j] \in Expandable
      BY DEF FrameInv
    <2>2. \A j \in 1 .. Len(r.include) : r.include[j] \in Expandable
      BY <1>4, <2>1
    <2> QED
      BY <1>4, <2>2 DEF Fine, E!ToSet
  <1>6. IsList(f.list)
    BY DEF FrameInv
  <1>7. Len(f.list) \in Nat /\ \A j \in 1 .. Len(f.list) : Len(f.list[j].include) \in Nat
    BY <1>6, ListIs
  <1>8. \A i \in 1 .. g.at - 1 : Fine(Expandable, g.list[i])
    <2>1. \A i \in 1 .. f.at - 1 : Fine(Expandable, f.list[i])
      BY DEF FrameInv
    <2>2. \A i \in 1 .. f.at : i = f.at \/ i \in 1 .. f.at - 1
      BY <1>4, <1>7
    <2>3. g.at - 1 = f.at
      BY <1>3, <1>4, <1>7
    <2> QED
      BY <1>3, <1>5, <2>1, <2>2, <2>3
  <1>9. g.at \in 1 .. Len(g.list) + 1
    BY <1>3, <1>4, <1>7
  <1>10. g.at <= Len(g.list) => Len(g.list[g.at].include) \in Nat
    BY <1>3, <1>7, <1>9
  <1>11. /\ E!ToSet(g.list) \subseteq Known /\ g.seen \subseteq Reached
         /\ \A n \in g.seen : \A q \in E!ToSet(g.list) :
               E!ToSet(q.include) \subseteq E!Closure(E!Named(E!Body(n)))
    BY <1>3 DEF FrameInv
  <1>12. FrameInv(g)
    BY <1>2, <1>3, <1>6, <1>8, <1>9, <1>10, <1>11 DEF FrameInv
  <1> QED
    BY <1>3, <1>12 DEF g

LEMMA KeepStep ==
    ASSUME FlattenInv, E!Keep
    PROVE  FlattenInv'
  <1> DEFINE f == E!Top
             r == E!Rule
             d == E!Depth
  <1>1. phase = "flatten" /\ config' = config /\ config \in Configs
    BY DEF E!Keep, FlattenInv
  <1>2. f.at <= Len(f.list) /\ f.inc > Len(r.include) /\ r = f.list[f.at]
    BY DEF E!Keep, E!Rule
  <1>3. FramesInv(frames) /\ FrameInv(f) /\ d \in Nat \ {0} /\ f = frames[d] /\ d = Len(frames)
        /\ frames = [k \in 1 .. d |-> frames[k]]
    BY <1>1, TopIs
  <1>4. CASE ~(r.stacks \subseteq Stacks) /\ phase' = "raised"
    <2>1. r \in Known
      BY <1>2, <1>3, RuleIs
    <2> QED
      BY <1>1, <1>4, <2>1, ConfigStays DEF FlattenInv, Fails
  <1>5. CASE /\ r.stacks \subseteq Stacks /\ phase' = phase
             /\ frames' = [frames EXCEPT ![d].at = @ + 1, ![d].inc = 1]
    <2> DEFINE g == [f EXCEPT !.at = @ + 1, !.inc = 1]
    <2>1. FrameInv(g) /\ g.list = f.list
      BY <1>2, <1>3, <1>5, PassRule
    <2>2. frames' = [frames EXCEPT ![d] = g]
      BY <1>3, <1>5
    <2> HIDE DEF g
    <2>3. FramesInv(frames')
      BY <1>3, <2>1, <2>2, FramesReplace
    <2> QED
      BY <1>1, <1>5, <2>3, ConfigStays DEF FlattenInv
  <1> QED
    BY <1>4, <1>5 DEF E!Keep

LEMMA ReturnStep ==
    ASSUME FlattenInv, E!Return
    PROVE  FlattenInv'
  <1> DEFINE f == E!Top
             d == E!Depth
  <1>1. phase = "flatten" /\ config' = config /\ config \in Configs /\ f.at > Len(f.list)
    BY DEF E!Return, FlattenInv
  <1>2. FramesInv(frames) /\ FrameInv(f) /\ d \in Nat \ {0} /\ f = frames[d] /\ d = Len(frames)
        /\ \A k \in 1 .. d : FrameInv(frames[k])
    BY <1>1, TopIs
  <1>3. \A r \in E!ToSet(f.list) : Fine(Expandable, r)
    <2>1. Len(f.list) \in Nat /\ \A r \in E!ToSet(f.list) : \E j \in 1 .. Len(f.list) : r = f.list[j]
      BY <1>2, ListIs DEF FrameInv
    <2>2. f.at = Len(f.list) + 1
      BY <1>1, <1>2, <2>1 DEF FrameInv
    <2>3. \A j \in 1 .. Len(f.list) : Fine(Expandable, f.list[j])
      BY <1>2, <2>1, <2>2 DEF FrameInv
    <2> QED
      BY <2>1, <2>3
  <1>4. CASE d = 1 /\ phase' = "resolve"
    <2>1. \A r \in E!Entry : Fine(Expandable, r)
      BY <1>2, <1>3, <1>4 DEF FramesInv, E!Entry
    <2> QED
      BY <1>1, <1>4, <2>1, ConfigStays DEF FlattenInv, Fine
  <1>5. CASE /\ d > 1 /\ phase' = phase
             /\ frames' = [SubSeq(frames, 1, d - 1) EXCEPT ![d - 1].inc = @ + 1]
    <2> DEFINE s == SubSeq(frames, 1, d - 1)
               g == frames[d - 1]
    <2>1. FramesInv(s) /\ Len(s) = d - 1 /\ \A k \in 1 .. Len(s) : s[k] = frames[k]
      BY <1>2, <1>5, FramesPop
    <2>2. d - 1 \in Nat \ {0} /\ d - 1 \in 1 .. d - 1 /\ (d - 1) + 1 = d
      BY <1>2, <1>5
    <2>3. Calls(g, f) /\ FrameInv(g)
      BY <1>2, <2>2 DEF FramesInv
    <2> DEFINE n == g.list[g.at].include[g.inc]
    <2>4. n \in Names
      BY <1>1, <2>3, NameIs DEF Calls
    <2>5. E!ToSet(f.list) = E!Body(n)
      BY <2>3 DEF Calls, E!Body
    <2>6. n \in Expandable
      BY <1>3, <2>4, <2>5, ExpandableHolds DEF AllFine
    <2>7. FrameInv([g EXCEPT !.inc = @ + 1])
      BY <2>3, <2>6, PassName DEF Calls
    <2>8. [g EXCEPT !.inc = @ + 1].list = g.list
      BY <2>3 DEF FrameInv
    <2>9. s[d - 1] = g
      BY <2>1, <2>2
    <2> HIDE DEF s, g
    <2>10. frames' = [s EXCEPT ![d - 1] = [g EXCEPT !.inc = @ + 1]]
      BY <1>5, <2>9 DEF s
    <2>11. FramesInv(frames')
      BY <2>1, <2>7, <2>8, <2>9, <2>10, FramesReplace
    <2> QED
      BY <1>1, <1>5, <2>11, ConfigStays DEF FlattenInv
  <1> QED
    BY <1>4, <1>5 DEF E!Return

LEMMA ResolveStep ==
    ASSUME FlattenInv, E!resolve_detailed
    PROVE  FlattenInv'
  <1>1. /\ phase = "resolve" /\ phase' \in {"resolve", "done"}
        /\ config' = config /\ config \in Configs
    BY DEF E!resolve_detailed, FlattenInv
  <1> QED
    BY <1>1, ConfigStays DEF FlattenInv, Fine

LEMMA FlattenBegins == E!Init => FlattenInv
  <1> SUFFICES ASSUME E!Init PROVE FlattenInv
    OBVIOUS
  <1> DEFINE f == E!Frame(E!collect_rules, {}, {})
  <1>1. config \in Configs /\ phase = "flatten" /\ frames = <<f>>
    BY DEF E!Init
  <1>2. IsList(E!collect_rules)
    BY <1>1, RulesAreList
  <1>3. Len(E!collect_rules) \in Nat
        /\ \A j \in 1 .. Len(E!collect_rules) : Len(E!collect_rules[j].include) \in Nat
    BY <1>2, ListIs
  <1>4. /\ f.list = E!collect_rules /\ f.at = 1 /\ f.inc = 1 /\ f.seen = {}
        /\ f = [list |-> f.list, at |-> f.at, inc |-> f.inc, seen |-> f.seen,
                guards |-> f.guards]
    BY DEF E!Frame
  <1> HIDE DEF f
  <1>5. E!ToSet(f.list) \subseteq Known
    BY <1>4 DEF Known, E!Entry
  <1>6. FrameInv(f)
    BY <1>2, <1>3, <1>4, <1>5 DEF FrameInv
  <1>7. IsSeq(<<f>>) /\ Len(<<f>>) = 1 /\ <<f>>[1] = f
    BY DEF IsSeq, E!ToSet
  <1>8. FramesInv(<<f>>)
    BY <1>4, <1>6, <1>7 DEF FramesInv
  <1> QED
    BY <1>1, <1>8 DEF FlattenInv

(* What is expanded to its end has neither a cycle nor an unknown stack.     *)
LEMMA ExpandedIsFine ==
    ASSUME config \in Configs, \A r \in E!Entry : Fine(Expandable, r)
    PROVE  ~Fails
  <1>1. Expandable \in SUBSET Names
    BY DEF Expandable
  <1>2. E!Named(E!Entry) \subseteq Expandable
    BY DEF Fine, E!Named
  <1>3. E!Closed(Expandable)
    BY ExpandableIsLeast DEF E!Closed, E!Named, AllFine, Fine
  <1>4. Reached \subseteq Expandable
    BY <1>1, <1>2, <1>3, ClosureIsLeast DEF Reached
  <1>5. \A r \in Known : r.stacks \subseteq Stacks
    BY <1>4, ExpandableIsLeast DEF Known, AllFine, Fine
  <1> QED
    BY <1>4, <1>5, ExpandableHasNoCycle DEF Fails

LEMMA FlattenIsExact == FlattenInv => E!RaisesExactlyOnCycles
  BY ExpandedIsFine DEF FlattenInv, E!RaisesExactlyOnCycles, Fails, Reached, Known

(* Resolving an environment fails exactly if what its lists reach has a cycle *)
(* or an unknown stack, whatever is configured (flatten).                     *)
THEOREM ResolvingIsExact == AllSpec => []RaisesExactlyOnCycles
  <1> DEFINE Inv == part = "env" => FlattenInv
  <1>1. AllInit => Inv
    BY FlattenBegins DEF AllInit
  <1>2. Inv /\ [AllNext]_AllVars => Inv'
    <2> SUFFICES ASSUME Inv, [AllNext]_AllVars, part' = "env" PROVE FlattenInv'
      OBVIOUS
    <2>1. CASE UNCHANGED AllVars
      <3>1. FlattenInv /\ UNCHANGED <<config, phase, frames>>
        BY <2>1 DEF AllVars, EnvVars
      <3> QED
        BY <3>1, ConfigStays DEF FlattenInv, Fine
    <2>2. CASE AllNext
      <3>1. FlattenInv /\ E!Next
        BY <2>2 DEF AllNext
      <3> QED
        BY <3>1, IncludeStep, KeepStep, ReturnStep, ResolveStep DEF E!Next
    <2> QED
      BY <2>1, <2>2
  <1>3. Inv => RaisesExactlyOnCycles
    BY FlattenIsExact DEF RaisesExactlyOnCycles
  <1> QED
    BY <1>1, <1>2, <1>3, PTL DEF AllSpec

-----------------------------------------------------------------------------
(* What joins the list: the rule the outer call has just passed comes last,  *)
(* whatever its own includes have put before it; and what a rule applied     *)
(* last has set is in the environment, the seed untouched.                   *)
LastRule(r) == r.op # "none" => out # <<>> /\ out[Len(out)] = r

EnvInv ==
    /\ env = [k \in DOMAIN build_seed |-> env[k]]
    /\ \A k \in Protected : env[k] = build_seed[k]
    /\ applied \in 0 .. Len(out)
    /\ LET r == out[applied]
       IN  applied > 0 /\ r.op = "set" /\ r.if_ = {} /\ r.key \notin Protected =>
              env[r.key] = <<r.part>>

LastInv ==
    /\ IsSeq(out) /\ \A i \in 1 .. Len(out) : out[i].key \in DOMAIN build_seed
    /\ EnvInv
    /\ phase = "flatten" => frames[1].guards = {}
    /\ phase = "flatten" /\ Len(frames) = 1 /\ frames[1].at > 1 /\ frames[1].inc = 1 =>
          LastRule(E!collect_rules[frames[1].at - 1])
    /\ phase \in {"resolve", "done"} /\ E!collect_rules # <<>> =>
          LastRule(E!collect_rules[Len(E!collect_rules)])
    /\ phase = "done" => applied = Len(out)

(* The rule with the conditions it inherits.                                 *)
LEMMA Guarded ==
    ASSUME NEW r, IsRule(r), NEW guards
    PROVE  /\ [r EXCEPT !.if_ = @ \cup guards].key = r.key
           /\ guards = {} => [r EXCEPT !.if_ = @ \cup guards] = r
  <1>1. r = [if_ |-> r.if_, include |-> r.include, stacks |-> r.stacks,
             key |-> r.key, op |-> r.op, part |-> r.part]
    BY DEF IsRule
  <1>2. [r EXCEPT !.if_ = @ \cup guards].key = r.key
    BY <1>1
  <1>3. ASSUME guards = {} PROVE [r EXCEPT !.if_ = @ \cup guards] = r
    <2>1. r.if_ \cup guards = r.if_
      BY <1>3
    <2>2. [r EXCEPT !.if_ = r.if_] = r
      BY <1>1
    <2> QED
      BY <2>1, <2>2
  <1> QED
    BY <1>2, <1>3

LEMMA LastBegins == E!Init => LastInv
  <1> SUFFICES ASSUME E!Init PROVE LastInv
    OBVIOUS
  <1>1. out = <<>> /\ applied = 0 /\ env = build_seed /\ phase = "flatten"
    BY DEF E!Init
  <1>2. frames[1].guards = {} /\ frames[1].at = 1
    BY DEF E!Init, E!Frame
  <1>3. IsSeq(out) /\ Len(out) = 0
    BY <1>1 DEF IsSeq
  <1>4. EnvInv
    BY <1>1, <1>3, ConfigsAssumption DEF EnvInv
  <1> QED
    BY <1>1, <1>2, <1>3, <1>4 DEF LastInv

LEMMA LastByInclude ==
    ASSUME FlattenInv, LastInv, E!Include
    PROVE  LastInv'
  <1>1. phase = "flatten" /\ UNCHANGED <<config, out, env, applied>>
    BY DEF E!Include
  <1>2. FramesInv(frames) /\ E!Depth \in Nat \ {0} /\ E!Depth = Len(frames) /\ IsSeq(frames)
        /\ E!Top = frames[E!Depth] /\ FrameInv(E!Top)
    BY <1>1, TopIs
  <1>3. EnvInv' /\ E!collect_rules' = E!collect_rules
    BY <1>1, ConfigStays DEF LastInv, EnvInv
  <1>4. CASE phase' = "raised"
    BY <1>1, <1>3, <1>4 DEF LastInv
  <1>5. CASE E!Skip /\ phase' = phase
    <2> DEFINE d == Len(frames)
               g == [frames[d] EXCEPT !.inc = @ + 1]
    <2>1. frames' = [frames EXCEPT ![d] = g] /\ d \in 1 .. Len(frames) /\ 1 \in 1 .. Len(frames)
      BY <1>2, <1>5 DEF E!Skip
    <2>2. g.guards = frames[d].guards /\ g.inc = frames[d].inc + 1 /\ frames[d].inc \in Nat \ {0}
      BY <1>2 DEF FrameInv
    <2> HIDE DEF g
    <2>3. Len(frames') = d /\ frames'[1] = IF d = 1 THEN g ELSE frames[1]
      BY <1>2, <2>1, SeqExcept
    <2>4. frames'[1].guards = {}
      BY <1>1, <2>2, <2>3 DEF LastInv
    <2>5. Len(frames') = 1 => frames'[1].inc # 1
      BY <2>2, <2>3
    <2> QED
      BY <1>1, <1>3, <1>5, <2>4, <2>5 DEF LastInv
  <1>6. CASE phase' = phase /\ \E g : frames' = Append(frames, g)
    <2>1. Len(frames') # 1 /\ frames'[1] = frames[1]
      BY <1>2, <1>6, SeqAppend
    <2> QED
      BY <1>1, <1>3, <1>6, <2>1 DEF LastInv
  <1> QED
    BY <1>4, <1>5, <1>6 DEF E!Include

LEMMA LastByKeep ==
    ASSUME FlattenInv, LastInv, E!Keep
    PROVE  LastInv'
  <1> DEFINE r == E!Rule
             d == E!Depth
             q == [r EXCEPT !.if_ = @ \cup E!Top.guards]
  <1>1. phase = "flatten" /\ UNCHANGED <<config, env, applied>>
        /\ E!Top.at <= Len(E!Top.list) /\ r = E!Top.list[E!Top.at]
    BY DEF E!Keep, E!Rule
  <1>2. FramesInv(frames) /\ d \in Nat \ {0} /\ IsSeq(frames)
        /\ Len(frames) = d /\ E!Top = frames[d] /\ FrameInv(E!Top)
        /\ frames = [k \in 1 .. d |-> frames[k]]
    BY <1>1, TopIs
  <1>3. IsRule(r) /\ E!Top.at \in 1 .. Len(E!Top.list)
    BY <1>1, <1>2, RuleIs
  <1>4. E!collect_rules' = E!collect_rules
    BY <1>1, ConfigStays
  <1>5. CASE phase' = "raised" /\ UNCHANGED <<frames, out>>
    BY <1>1, <1>4, <1>5 DEF LastInv, EnvInv
  <1>6. CASE /\ out' = IF r.op = "none" THEN out ELSE Append(out, q)
             /\ frames' = [frames EXCEPT ![d].at = @ + 1, ![d].inc = 1]
             /\ phase' = phase
    <2>1. q.key = r.key /\ (E!Top.guards = {} => q = r) /\ r.key \in DOMAIN build_seed
      BY <1>3, Guarded DEF IsRule
    <2> HIDE DEF q, r
    <2>2. IsSeq(out) /\ Len(out) \in Nat
      BY SeqDomain DEF LastInv
    <2>3. /\ IsSeq(out') /\ \A i \in 1 .. Len(out') : out'[i].key \in DOMAIN build_seed
          /\ Len(out') >= Len(out) /\ Len(out') \in Nat
          /\ \A i \in 1 .. Len(out) : out'[i] = out[i]
          /\ r.op # "none" => Len(out') = Len(out) + 1 /\ out'[Len(out')] = q
      <3>1. CASE r.op = "none"
        BY <1>6, <2>2, <3>1 DEF LastInv
      <3>2. CASE r.op # "none"
        <4>1. out' = Append(out, q)
          BY <1>6, <3>2
        <4>2. /\ IsSeq(out') /\ Len(out') = Len(out) + 1
              /\ \A i \in 1 .. Len(out) : out'[i] = out[i]
              /\ out'[Len(out) + 1] = q
          BY <2>2, <4>1, SeqAppend
        <4>3. \A i \in 1 .. Len(out) : out[i].key \in DOMAIN build_seed
          BY DEF LastInv
        <4> QED
          BY <2>1, <2>2, <4>2, <4>3
      <3> QED
        BY <3>1, <3>2
    <2>4. EnvInv'
      <3>1. EnvInv
        BY DEF LastInv
      <3>2. applied' = applied /\ applied \in 0 .. Len(out') /\ env' = env
            /\ (applied > 0 => out'[applied] = out[applied])
        BY <1>1, <2>2, <2>3, <3>1 DEF EnvInv
      <3> QED
        BY <3>1, <3>2 DEF EnvInv
    <2> DEFINE g == [E!Top EXCEPT !.at = @ + 1, !.inc = 1]
    <2>5. frames' = [frames EXCEPT ![d] = g] /\ d \in 1 .. Len(frames) /\ 1 \in 1 .. Len(frames)
      <3>1. frames' = [frames EXCEPT ![d].at = @ + 1, ![d].inc = 1]
        BY <1>6
      <3>2. frames = [k \in 1 .. d |-> frames[k]] /\ d \in 1 .. d /\ E!Top = frames[d]
        BY <1>2
      <3>3. frames' = [frames EXCEPT ![d] = g]
        BY <3>1, <3>2
      <3>4. d \in 1 .. Len(frames) /\ 1 \in 1 .. Len(frames)
        BY <1>2
      <3> QED
        BY <3>3, <3>4
    <2>6. g.guards = E!Top.guards /\ g.at = E!Top.at + 1
      BY <1>2 DEF FrameInv
    <2> HIDE DEF g
    <2>7. Len(frames') = d /\ frames'[1] = IF d = 1 THEN g ELSE frames[1]
      BY <1>2, <2>5, SeqExcept
    <2>8. frames'[1].guards = {}
      BY <1>1, <1>2, <2>6, <2>7 DEF LastInv
    <2>9. Len(frames') = 1 => LastRule(E!collect_rules[frames[1].at - 1])'
      <3> SUFFICES ASSUME d = 1 PROVE LastRule(E!collect_rules[frames[1].at - 1])'
        BY <2>7
      <3>1. frames[1].list = E!collect_rules /\ frames[1].guards = {}
        BY <1>1, <1>2 DEF FramesInv, LastInv
      <3>2. frames'[1].at = frames[1].at + 1 /\ frames[1].at \in Int
        BY <1>2, <1>3, <2>6, <2>7 DEF FrameInv
      <3>3. E!collect_rules'[frames'[1].at - 1] = r
        BY <1>1, <1>2, <1>4, <3>1, <3>2
      <3>4. r.op # "none" => out' # <<>> /\ out'[Len(out')] = r
        BY <1>2, <2>1, <2>2, <2>3, <3>1
      <3> QED
        BY <3>3, <3>4 DEF LastRule
    <2> QED
      BY <1>1, <1>6, <2>3, <2>4, <2>8, <2>9 DEF LastInv
  <1> QED
    BY <1>2, <1>5, <1>6 DEF E!Keep

LEMMA LastByReturn ==
    ASSUME FlattenInv, LastInv, E!Return
    PROVE  LastInv'
  <1> DEFINE d == Len(frames)
  <1>1. phase = "flatten" /\ UNCHANGED <<config, out, env, applied>>
        /\ E!Top.at > Len(E!Top.list)
    BY DEF E!Return
  <1>2. FramesInv(frames) /\ d \in Nat \ {0} /\ IsSeq(frames)
        /\ E!Depth = d /\ E!Top = frames[d] /\ FrameInv(E!Top)
    BY <1>1, TopIs
  <1>3. EnvInv' /\ E!collect_rules' = E!collect_rules
    BY <1>1, ConfigStays DEF LastInv, EnvInv
  <1>4. CASE d = 1 /\ phase' = "resolve"
    <2>1. frames[1].list = E!collect_rules /\ IsList(frames[1].list)
      BY <1>2, <1>4 DEF FramesInv, FrameInv
    <2>2. Len(E!collect_rules) \in Nat /\ frames[1].at = Len(E!collect_rules) + 1
          /\ frames[1].inc = 1
      BY <1>1, <1>2, <1>4, <2>1, ListIs DEF FrameInv
    <2>3. E!collect_rules # <<>> => Len(E!collect_rules) > 0
      BY <2>1 DEF IsList
    <2>4. E!collect_rules # <<>> => LastRule(E!collect_rules[Len(E!collect_rules)])
      BY <1>1, <1>4, <2>2, <2>3 DEF LastInv
    <2> QED
      BY <1>1, <1>3, <1>4, <2>4 DEF LastInv, LastRule
  <1>5. CASE /\ d > 1 /\ phase' = phase
             /\ frames' = [SubSeq(frames, 1, d - 1) EXCEPT ![d - 1].inc = @ + 1]
    <2> DEFINE s == SubSeq(frames, 1, d - 1)
               g == [frames[d - 1] EXCEPT !.inc = @ + 1]
    <2>1. IsSeq(s) /\ Len(s) = d - 1 /\ \A k \in 1 .. d - 1 : s[k] = frames[k]
      BY <1>2, <1>5, SeqShorter
    <2>2. d - 1 \in 1 .. d - 1 /\ 1 \in 1 .. d - 1 /\ s[d - 1] = frames[d - 1]
      BY <1>2, <1>5, <2>1
    <2>3. g.guards = frames[d - 1].guards /\ g.inc = frames[d - 1].inc + 1
          /\ frames[d - 1].inc \in Nat \ {0}
      <3>1. FrameInv(frames[d - 1])
        BY <1>2, <2>2 DEF FramesInv
      <3> QED
        BY <3>1 DEF FrameInv
    <2> HIDE DEF s
    <2>4. frames' = [s EXCEPT ![d - 1] = g]
      BY <1>5, <2>2 DEF s
    <2> HIDE DEF g
    <2>5. Len(frames') = d - 1 /\ frames'[1] = IF d - 1 = 1 THEN g ELSE frames[1]
      BY <2>1, <2>2, <2>4, SeqExcept
    <2>6. frames'[1].guards = {}
      BY <1>1, <2>3, <2>5 DEF LastInv
    <2>7. Len(frames') = 1 => frames'[1].inc # 1
      <3>1. g.inc # 1
        BY <2>3
      <3>2. Len(frames') = 1 => frames'[1] = g
        BY <2>5
      <3> QED
        BY <3>1, <3>2
    <2> QED
      BY <1>1, <1>3, <1>5, <2>6, <2>7 DEF LastInv
  <1> QED
    BY <1>2, <1>4, <1>5 DEF E!Return

(* One rule applied.                                                         *)
LEMMA ApplyIs ==
    ASSUME EnvInv, NEW r, r.key \in DOMAIN build_seed
    PROVE  LET e == E!Apply(env, r)
           IN  /\ e = [k \in DOMAIN build_seed |-> e[k]]
               /\ \A k \in Protected : e[k] = build_seed[k]
               /\ r.op = "set" /\ r.if_ = {} /\ r.key \notin Protected => e[r.key] = <<r.part>>
  <1>1. env = [k \in DOMAIN build_seed |-> env[k]]
        /\ (\A k \in Protected : env[k] = build_seed[k]) /\ Protected \subseteq DOMAIN build_seed
    BY ConfigsAssumption DEF EnvInv
  <1>2. CASE r.key \in Protected
    BY <1>1, <1>2 DEF E!Apply, E!_is_protected
  <1>3. CASE r.key \notin Protected /\ ~E!_matches(env, r)
    BY <1>1, <1>3 DEF E!Apply, E!_matches
  <1>4. CASE r.key \notin Protected /\ E!_matches(env, r)
    <2> DEFINE v == IF r.op = "append" /\ env[r.key] # E!Unset
                    THEN Append(env[r.key], r.part) ELSE <<r.part>>
    <2>1. E!Apply(env, r) = [env EXCEPT ![r.key] = v]
      BY <1>4 DEF E!Apply, E!_is_protected
    <2>2. r.op = "set" => v = <<r.part>>
      OBVIOUS
    <2> HIDE DEF v
    <2> QED
      BY <1>1, <1>4, <2>1, <2>2
  <1> QED
    BY <1>2, <1>3, <1>4

LEMMA LastByResolve ==
    ASSUME FlattenInv, LastInv, E!resolve_detailed
    PROVE  LastInv'
  <1>1. phase = "resolve" /\ UNCHANGED <<config, frames, out>>
    BY DEF E!resolve_detailed
  <1>2. E!collect_rules' = E!collect_rules
    BY <1>1, ConfigStays
  <1>3. EnvInv /\ IsSeq(out) /\ Len(out) \in Nat
        /\ \A i \in 1 .. Len(out) : out[i].key \in DOMAIN build_seed
    BY SeqDomain DEF LastInv
  <1>4. CASE /\ applied < Len(out) /\ env' = E!Apply(env, out[applied + 1])
             /\ applied' = applied + 1 /\ phase' = phase
    <2> DEFINE r == out[applied + 1]
    <2>1. applied + 1 \in 1 .. Len(out) /\ applied' \in 0 .. Len(out) /\ out'[applied'] = r
      BY <1>1, <1>3, <1>4 DEF EnvInv
    <2>2. r.key \in DOMAIN build_seed
      BY <1>3, <2>1
    <2> HIDE DEF r
    <2>3. /\ env' = [k \in DOMAIN build_seed |-> env'[k]]
          /\ \A k \in Protected : env'[k] = build_seed[k]
          /\ r.op = "set" /\ r.if_ = {} /\ r.key \notin Protected => env'[r.key] = <<r.part>>
      BY <1>3, <1>4, <2>2, ApplyIs DEF r
    <2>4. EnvInv'
      BY <1>1, <2>1, <2>3 DEF EnvInv
    <2> QED
      BY <1>1, <1>2, <1>4, <2>4 DEF LastInv, LastRule
  <1>5. CASE applied = Len(out) /\ phase' = "done" /\ UNCHANGED <<env, applied>>
    BY <1>1, <1>2, <1>5 DEF LastInv, LastRule, EnvInv
  <1> QED
    BY <1>4, <1>5 DEF E!resolve_detailed

LEMMA LastIsLast == FlattenInv /\ LastInv => E!TaskHasLastWord
  <1> SUFFICES ASSUME FlattenInv, LastInv, phase = "done" PROVE E!TaskHasLastWord
    BY DEF E!TaskHasLastWord
  <1> DEFINE own == config.rules["task"]
             r == own[Len(own)]
  <1>1. \A k \in Protected : env[k] = build_seed[k]
    BY DEF LastInv, EnvInv
  <1>2. ASSUME own # <<>>, r.op = "set", r.if_ = {}, r.key \notin Protected
        PROVE  env[r.key] = <<r.part>>
    <2>1. E!collect_rules # <<>> /\ E!collect_rules[Len(E!collect_rules)] = r
      BY <1>2, RulesAreList DEF FlattenInv
    <2>2. out # <<>> /\ out[Len(out)] = r /\ applied = Len(out)
      BY <1>2, <2>1 DEF LastInv, LastRule
    <2>3. applied > 0
      BY <2>2, SeqDomain DEF LastInv
    <2> HIDE DEF r
    <2> QED
      BY <1>2, <2>2, <2>3 DEF LastInv, EnvInv
  <1> QED
    BY <1>1, <1>2 DEF E!TaskHasLastWord, E!_is_protected

(* The seed reaches every task, and no rule of another layer undoes what the  *)
(* task's last rule sets, however groups are nested (resolve_detailed).       *)
THEOREM TaskHasTheLastWord == AllSpec => []TaskHasLastWord
  <1> DEFINE Inv == part = "env" => FlattenInv /\ LastInv
  <1>1. AllInit => Inv
    BY FlattenBegins, LastBegins DEF AllInit
  <1>2. Inv /\ [AllNext]_AllVars => Inv'
    <2> SUFFICES ASSUME Inv, [AllNext]_AllVars, part' = "env" PROVE FlattenInv' /\ LastInv'
      OBVIOUS
    <2>1. CASE UNCHANGED AllVars
      <3>1. FlattenInv /\ LastInv /\ UNCHANGED <<config, phase, frames, out, env, applied>>
        BY <2>1 DEF AllVars, EnvVars
      <3> QED
        BY <3>1, ConfigStays DEF FlattenInv, Fine, LastInv, EnvInv, LastRule
    <2>2. CASE AllNext
      <3>1. FlattenInv /\ LastInv /\ E!Next
        BY <2>2 DEF AllNext
      <3>2. FlattenInv'
        BY <3>1, IncludeStep, KeepStep, ReturnStep, ResolveStep DEF E!Next
      <3> QED
        BY <3>1, <3>2, LastByInclude, LastByKeep, LastByReturn, LastByResolve DEF E!Next
    <2> QED
      BY <2>1, <2>2
  <1>3. Inv => TaskHasLastWord
    BY LastIsLast DEF TaskHasLastWord
  <1> QED
    BY <1>1, <1>2, <1>3, PTL DEF AllSpec

-----------------------------------------------------------------------------
(* The items of a run, those of generated tasks included.                    *)

ItemsInv ==
    /\ doc \in Docs /\ IsSeq(items) /\ G!DepsExist
    /\ verdict \in {"searching", "accepted"} => G!NamesExist

LEMMA Joined ==
    ASSUME NEW a, NEW b, IsSeq(a), IsSeq(b)
    PROVE  /\ IsSeq(a \o b) /\ E!ToSet(a \o b) = E!ToSet(a) \cup E!ToSet(b)
           /\ G!IdsOf(a \o b) = G!IdsOf(a) \cup G!IdsOf(b)
  <1> DEFINE S == E!ToSet(a) \cup E!ToSet(b)
  <1>1. a \in Seq(S) /\ b \in Seq(S)
    BY SeqWider
  <1> HIDE DEF S
  <1>2. /\ a \o b \in Seq(S) /\ Len(a \o b) = Len(a) + Len(b)
        /\ Len(a) \in Nat /\ Len(b) \in Nat
        /\ \A i \in 1 .. Len(a) : (a \o b)[i] = a[i]
        /\ \A i \in 1 .. Len(b) : (a \o b)[Len(a) + i] = b[i]
    BY <1>1
  <1>3. /\ DOMAIN a = 1 .. Len(a) /\ DOMAIN b = 1 .. Len(b)
        /\ DOMAIN (a \o b) = 1 .. Len(a) + Len(b)
    BY <1>1, <1>2
  <1>4. \A i \in 1 .. Len(a) + Len(b) : i \in 1 .. Len(a) \/ i - Len(a) \in 1 .. Len(b)
    BY <1>2
  <1>5. \A i \in 1 .. Len(a) + Len(b) : i \notin 1 .. Len(a) => (a \o b)[i] = b[i - Len(a)]
    BY <1>2, <1>4
  <1>6. \A i \in 1 .. Len(b) : Len(a) + i \in 1 .. Len(a) + Len(b)
    BY <1>2
  <1>7. \A i \in 1 .. Len(a) : i \in 1 .. Len(a) + Len(b)
    BY <1>2
  <1>8. E!ToSet(a \o b) = E!ToSet(a) \cup E!ToSet(b)
    <2>1. ASSUME NEW i \in DOMAIN (a \o b) PROVE (a \o b)[i] \in E!ToSet(a) \cup E!ToSet(b)
      BY <1>2, <1>3, <1>4, <1>5, <2>1 DEF E!ToSet
    <2>2. ASSUME NEW i \in DOMAIN a PROVE a[i] \in E!ToSet(a \o b)
      BY <1>2, <1>3, <1>7, <2>2 DEF E!ToSet
    <2>3. ASSUME NEW i \in DOMAIN b PROVE b[i] \in E!ToSet(a \o b)
      BY <1>2, <1>3, <1>6, <2>3 DEF E!ToSet
    <2> QED
      BY <2>1, <2>2, <2>3 DEF E!ToSet
  <1>9. \A q : G!IdsOf(q) = {t.id : t \in E!ToSet(q)}
    BY DEF G!IdsOf, E!ToSet
  <1>10. G!IdsOf(a \o b) = G!IdsOf(a) \cup G!IdsOf(b)
    BY <1>8, <1>9
  <1> QED
    BY <1>2, <1>8, <1>10, SeqTyped

(* Resolving keeps the list and its ids.                                      *)
LEMMA Resolves ==
    ASSUME NEW tasks, IsSeq(tasks), NEW ids
    PROVE  LET q == G!_resolve_wildcard_deps(tasks, ids)
           IN  IsSeq(q) /\ DOMAIN q = DOMAIN tasks /\ G!IdsOf(q) = G!IdsOf(tasks)
  <1> DEFINE q == G!_resolve_wildcard_deps(tasks, ids)
  <1>1. DOMAIN tasks = 1 .. Len(tasks) /\ Len(tasks) \in Nat
    BY SeqDomain
  <1>2. /\ q = [i \in 1 .. Len(tasks) |-> q[i]] /\ DOMAIN q = DOMAIN tasks
        /\ \A i \in DOMAIN tasks : q[i].id = tasks[i].id
    BY <1>1 DEF G!_resolve_wildcard_deps
  <1>3. \A i \in 1 .. Len(tasks) : q[i] \in E!ToSet(q)
    BY <1>1, <1>2 DEF E!ToSet
  <1>4. G!IdsOf(q) = G!IdsOf(tasks)
    BY <1>2 DEF G!IdsOf
  <1> HIDE DEF q
  <1>5. [i \in 1 .. Len(tasks) |-> q[i]] \in Seq(E!ToSet(q))
    BY <1>1, <1>3
  <1> QED
    BY <1>2, <1>4, <1>5 DEF IsSeq, q

LEMMA ItemsBegin == G!Init => ItemsInv
  BY SeqTyped DEF G!Init, ItemsInv, G!DepsExist, IsSeq

(* Every step of the search, and every generation, keeps the names known.     *)
LEMMA ItemsStep == ItemsInv /\ G!Next => ItemsInv'
  <1> SUFFICES ASSUME ItemsInv, G!Next PROVE ItemsInv'
    OBVIOUS
  <1>1. doc' = doc /\ (verdict' \in {"searching", "accepted"} => G!NamesExist)
    BY DEF ItemsInv, G!Next, G!_build_run, G!SearchFrom, G!FollowDep, G!Leave, G!Accept,
           G!_handle_generates_source
  <1>2. G!NamesExist => G!NamesExist'
    BY <1>1 DEF G!NamesExist, G!Tasks
  <1>3. ASSUME UNCHANGED items PROVE ItemsInv'
    BY <1>1, <1>2, <1>3 DEF ItemsInv, G!DepsExist, IsSeq
  <1>4. CASE G!Accept
    <2>1. items' = G!Tasks /\ G!NamesExist
      BY <1>4 DEF G!Accept, ItemsInv
    <2>2. IsSeq(doc)
      BY DocsAssumption DEF ItemsInv, IsSeq
    <2>3. IsSeq(G!Tasks) /\ G!IdsOf(G!Tasks) = G!IdsOf(doc)
      BY <2>2, Resolves DEF G!Tasks
    <2>4. \A i \in DOMAIN G!Tasks : G!Tasks[i].deps \subseteq G!IdsOf(doc)
      BY <2>1 DEF G!NamesExist
    <2> QED
      BY <1>1, <1>2, <2>1, <2>3, <2>4 DEF ItemsInv, G!DepsExist, IsSeq
  <1>5. CASE G!_handle_generates_source
    <2>1. PICK new \in GenDocs :
            LET ids == G!IdsOf(items \o new)
                tasks == G!_resolve_wildcard_deps(new, ids)
            IN  /\ \A i \in DOMAIN tasks : tasks[i].deps \subseteq ids
                /\ items' = items \o tasks
      BY <1>5 DEF G!_handle_generates_source
    <2> DEFINE ids == G!IdsOf(items \o new)
               tasks == G!_resolve_wildcard_deps(new, ids)
    <2>2. IsSeq(items) /\ IsSeq(new)
      BY DocsAssumption DEF ItemsInv, IsSeq
    <2>3. IsSeq(tasks) /\ G!IdsOf(tasks) = G!IdsOf(new)
      BY <2>2, Resolves
    <2>4. /\ items' = items \o tasks
          /\ \A i \in DOMAIN tasks : tasks[i].deps \subseteq ids
      BY <2>1
    <2>5. ids = G!IdsOf(items) \cup G!IdsOf(new)
      BY <2>2, Joined
    <2> HIDE DEF ids, tasks
    <2>6. /\ IsSeq(items') /\ G!IdsOf(items') = ids
          /\ E!ToSet(items') = E!ToSet(items) \cup E!ToSet(tasks)
      BY <2>2, <2>3, <2>4, <2>5, Joined
    <2>7. \A t \in E!ToSet(items) : t.deps \subseteq ids
      BY <2>5 DEF ItemsInv, G!DepsExist, E!ToSet
    <2>8. \A t \in E!ToSet(tasks) : t.deps \subseteq ids
      BY <2>4 DEF E!ToSet
    <2>9. \A i \in DOMAIN items' : items'[i] \in E!ToSet(items')
      BY DEF E!ToSet
    <2> QED
      BY <1>1, <1>2, <2>6, <2>7, <2>8, <2>9 DEF ItemsInv, G!DepsExist, IsSeq
  <1> QED
    BY <1>3, <1>4, <1>5 DEF G!Next, G!_build_run, G!SearchFrom, G!FollowDep, G!Leave

(* A dependency of an item always names an item of the same run, also when    *)
(* a task has generated further tasks: none waits for a name that cannot come *)
(* (_resolve_wildcard_deps, _validate_dependencies and                        *)
(* _handle_generates_source of runs/manager.py).                              *)
THEOREM DependenciesExist == AllSpec => [](part = "deps" => G!DepsExist)
  <1> DEFINE Inv == part = "deps" => ItemsInv
  <1>1. AllInit => Inv
    BY ItemsBegin DEF AllInit
  <1>2. Inv /\ [AllNext]_AllVars => Inv'
    <2> SUFFICES ASSUME Inv, [AllNext]_AllVars, part' = "deps" PROVE ItemsInv'
      OBVIOUS
    <2>1. CASE UNCHANGED AllVars
      BY <2>1 DEF AllVars, DepsVars, ItemsInv, G!DepsExist, IsSeq, G!NamesExist, G!Tasks
    <2>2. CASE AllNext
      BY <2>2, ItemsStep DEF AllNext
    <2> QED
      BY <2>1, <2>2
  <1>3. Inv => (part = "deps" => G!DepsExist)
    BY DEF ItemsInv
  <1> QED
    BY <1>1, <1>2, <1>3, PTL DEF AllSpec
=============================================================================
