--------------------------- MODULE DispatchProofs ---------------------------
(***************************************************************************)
(* Proofs about Dispatch for any runs, items, dependencies, caps and       *)
(* coroutines: the types, then the concurrency caps.                       *)
(***************************************************************************)
EXTENDS Dispatch, FiniteSetTheorems, TLAPS


(* A nonempty set of natural numbers has a least element.                  *)
LEMMA LeastExists ==
    ASSUME NEW S \in SUBSET Nat, S # {}
    PROVE  \E m \in S : \A k \in S : m <= k
<1> DEFINE R == OpToRel(<, Nat)
<1>1. \A k, m \in Nat : <<k, m>> \in R <=> k < m
  BY DEF OpToRel
<1>2. IsWellFoundedOn(R, Nat)
  BY NatLessThanWellFounded
<1> HIDE DEF R
<1>3. PICK m \in S : \A k \in S : ~ (<<k, m>> \in R)
  BY <1>2, WFMin
<1>4. ASSUME NEW k \in S PROVE m <= k
  <2>1. k \in Nat /\ m \in Nat
    BY <1>3
  <2>2. ~ (<<k, m>> \in R)
    BY <1>3
  <2>3. ~ (k < m)
    BY <1>1, <2>1, <2>2
  <2> QED
    BY <2>1, <2>3
<1> QED
  BY <1>4

(* First(S) is the least element of a set of items.                        *)
LEMMA FirstIn ==
    ASSUME NEW S \in SUBSET Item, S # {}
    PROVE  First(S) \in S /\ First(S) \in Item
<1>1. \E m \in S : \A k \in S : m <= k
  BY LeastExists, RunModelAssumption DEF Item
<1> QED
  BY <1>1 DEF First

LEMMA ItemsFinite ==
    ASSUME NEW S \in SUBSET Item
    PROVE  IsFiniteSet(S) /\ Cardinality(S) \in Nat
<1>1. IsFiniteSet(Item)
  BY FS_Interval, RunModelAssumption DEF Item
<1> QED
  BY <1>1, FS_Subset, FS_CardinalityType

(* A prefix of length n has at most n elements: all but its greatest one   *)
(* are smaller than that one, and fewer than n are.                        *)
LEMMA PrefixBound ==
    ASSUME NEW S \in SUBSET Item, NEW n \in Int
    PROVE  /\ Prefix(S, n) \subseteq S
           /\ n >= 0 => Cardinality(Prefix(S, n)) <= n
           /\ n <= 0 => Prefix(S, n) = {}
<1> DEFINE T == Prefix(S, n)
           Below(i) == {j \in S : j < i}
<1>1. T \subseteq S /\ \A i \in T : Cardinality(Below(i)) < n
  BY DEF Prefix
<1>2. \A i \in S : Cardinality(Below(i)) \in Nat
  BY ItemsFinite DEF Item
<1>3. ASSUME n <= 0 PROVE T = {}
  <2>1. \A i \in T : i \in S /\ Cardinality(Below(i)) < n /\ Cardinality(Below(i)) \in Nat
    BY <1>1, <1>2
  <2>2. \A i \in T : FALSE
    <3> HIDE DEF T, Below
    <3> QED
      BY <2>1, <1>3
  <2> QED
    BY <2>2
<1>4. ASSUME T # {} PROVE Cardinality(T) <= n
  <2> DEFINE Rest == {k \in Nat : \A t \in T : t <= k}
  <2>1. T \subseteq Nat /\ NumItems \in Rest
    <3>1. \A t \in T : t \in Item
      BY <1>1
    <3>2. \A t \in Item : t \in Nat /\ t <= NumItems
      BY RunModelAssumption DEF Item
    <3> QED
      BY <3>1, <3>2, RunModelAssumption
  <2>2. PICK m \in Rest : \A k \in Rest : m <= k
    BY <2>1, LeastExists
  <2>3. m \in T
    <3> SUFFICES ASSUME m \notin T PROVE FALSE
      OBVIOUS
    <3>1. \A t \in T : t < m
      BY <2>1, <2>2
    <3>2. m - 1 \in Rest
      BY <2>1, <2>2, <3>1, <1>4
    <3> QED
      BY <2>2, <3>2
  <2>4. T \ {m} \subseteq Below(m)
    BY <2>1, <2>2, <1>1
  <2>5. Cardinality(T \ {m}) <= Cardinality(Below(m))
    BY <2>4, ItemsFinite, FS_Subset, Below(m) \in SUBSET Item
  <2>6. Cardinality(T \ {m}) = Cardinality(T) - 1
    BY <2>3, <1>1, ItemsFinite, FS_RemoveElement
  <2>7. Cardinality(T) \in Nat
    BY <1>1, ItemsFinite
  <2> QED
    BY <2>3, <2>5, <2>6, <2>7, <1>1, <1>2
<1>5. T = {} => Cardinality(T) = 0
  BY FS_EmptySet
<1> QED
  BY <1>1, <1>3, <1>4, <1>5

-----------------------------------------------------------------------------
(* Type correctness.                                                       *)

(* The cascade turns some PENDING items DEP_FAILED and changes no other.   *)
LEMMA CascadeType ==
    ASSUME NEW s \in [Item -> ItemStatus], NEW r
    PROVE  /\ Cascade(s, r) \in [Item -> ItemStatus]
           /\ \A i \in Item : Cascade(s, r)[i] # s[i] =>
                s[i] = "pending" /\ Cascade(s, r)[i] = "dep_failed"
<1>1. \A i \in Doomed(s, r) : s[i] = "pending"
  BY DEF Doomed, With
<1>2. "dep_failed" \in ItemStatus
  BY DEF ItemStatus, Status
<1> QED
  BY <1>1, <1>2 DEF Cascade

LEMMA SuspendedType ==
    ASSUME NEW caller \in Caller, NEW op \in {"submitting", "hooks"},
           NEW r \in Run \cup {NoRun}, NEW fair \in BOOLEAN,
           NEW todo \in SUBSET Item, NEW hit \in BOOLEAN
    PROVE  /\ Suspended(caller, op, r, fair, todo, hit) \in Coroutine
           /\ Returned(caller) \in Coroutine
           /\ Idle \in Coroutine
<1>1. 0 \in 0 .. NumItems
  BY RunModelAssumption
<1>2. Idle \in Coroutine
  BY <1>1 DEF Idle, Coroutine, Caller
<1>3. Suspended(caller, op, r, fair, todo, hit) \in Coroutine
  BY <1>1 DEF Suspended, Coroutine, Caller
<1>4. [Idle EXCEPT !.caller = "poll", !.op = "polling"] \in Coroutine
  BY <1>1 DEF Idle, Coroutine, Caller
<1> QED
  BY <1>2, <1>3, <1>4 DEF Returned

LEMMA ProcessRunType ==
    ASSUME TypeOK, NEW p \in Coro, NEW caller \in Caller,
           NEW s \in [Item -> ItemStatus], NEW lv,
           NEW r \in Run \cup {NoRun}, NEW fair \in BOOLEAN,
           ProcessRun(p, caller, s, lv, r, fair)
    PROVE  st' \in [Item -> ItemStatus] /\ co' \in [Coro -> Coroutine]
<1> DEFINE todo == ToSubmit(Cascade(s, r), lv, r, fair)
<1>1. todo \in SUBSET Item
  BY DEF ToSubmit, Prefix, Ready, With, ItemsOf
<1>2. st' = Cascade(s, r)
  BY DEF ProcessRun
<1>3. co' = [co EXCEPT ![p] =
               IF todo = {} THEN Returned(caller)
               ELSE Suspended(caller, "submitting", r, fair, todo, FALSE)]
  BY DEF ProcessRun
<1> HIDE DEF todo
<1> QED
  BY <1>1, <1>2, <1>3, CascadeType, SuspendedType DEF TypeOK

LEMMA TurnedType ==
    ASSUME NEW s \in [Item -> ItemStatus], NEW S, NEW status \in ItemStatus
    PROVE  Turned(S, status, s) \in [Item -> ItemStatus]
  BY DEF Turned

LEMMA BeginPassType ==
    ASSUME NEW pass \in {"resolve", "update", "fair", "greedy"},
           NEW S \in SUBSET Run, NEW q \in Orders(S), BeginPass(pass, q)
    PROVE  poll' \in Cycle
<1>1. Live \in SUBSET Run /\ Cardinality(Live) \in Nat /\ Cardinality(S) \in Nat
  BY DispatchAssumption, FS_Subset, FS_CardinalityType DEF Live
<1>2. q \in [1 .. Cardinality(S) -> Run]
  BY DEF Orders
<1>3. q \in Seq(Run)
  BY <1>1, <1>2
<1> QED
  BY <1>1, <1>3 DEF BeginPass, Cycle

LEMMA ContinueType ==
    ASSUME TypeOK, NEW p \in Coro, NEW todo \in SUBSET Item, NEW hit \in BOOLEAN,
           Continue(p, todo, hit)
    PROVE  co' \in [Coro -> Coroutine]
<1>1. co[p].caller \in Caller /\ co[p].run \in Run \cup {NoRun} /\ co[p].fair \in BOOLEAN
  BY DEF TypeOK, Coroutine
<1>2. /\ Suspended(co[p].caller, "submitting", co[p].run, co[p].fair, todo, hit) \in Coroutine
      /\ Suspended(co[p].caller, "hooks", co[p].run, co[p].fair, {}, hit) \in Coroutine
      /\ Returned(co[p].caller) \in Coroutine
  BY <1>1, SuspendedType
<1> QED
  BY <1>2 DEF Continue, TypeOK

LEMMA CancelFromType ==
    ASSUME TypeOK, NEW p \in Coro, NEW s \in [Item -> ItemStatus],
           NEW r \in Run \cup {NoRun}, NEW k, CancelFrom(p, s, r, k)
    PROVE  /\ st' \in [Item -> ItemStatus]
           /\ co' \in [Coro -> Coroutine]
           /\ mine' \in [Item -> BOOLEAN]
<1> DEFINE ahead == {i \in With(s, r, Cancellable) : i >= k}
           stop == IF ahead = {} THEN NumItems + 1 ELSE First(ahead)
           waits == [Idle EXCEPT !.caller = "request", !.op = "cancelling",
                                 !.run = r, !.at = stop]
<1>1. "failed" \in ItemStatus
  BY DEF ItemStatus, Status
<1>2. st' \in [Item -> ItemStatus]
  BY <1>1 DEF CancelFrom
<1>3. ahead \in SUBSET Item
  BY DEF With, ItemsOf
<1>4. ahead # {} => stop \in 0 .. NumItems /\ stop \in Item
  BY <1>3, FirstIn, RunModelAssumption DEF Item
<1>5. ahead # {} => waits \in Coroutine
  BY <1>4 DEF Idle, Coroutine, Caller
<1>6. Idle \in Coroutine
  BY RunModelAssumption DEF Idle, Coroutine, Caller
<1>7. \/ ahead # {} /\ co' = [co EXCEPT ![p] = waits]
         /\ (mine' = [mine EXCEPT ![stop] = FALSE] \/ UNCHANGED mine)
      \/ co' = [co EXCEPT ![p] = Idle] /\ UNCHANGED mine
  BY DEF CancelFrom
<1> HIDE DEF ahead, stop, waits
<1> QED
  BY <1>2, <1>4, <1>5, <1>6, <1>7 DEF TypeOK

LEMMA TypeStep ==
    ASSUME TypeOK, [Next]_vars
    PROVE  TypeOK'
<1>st. /\ st \in [Item -> ItemStatus]
      /\ {"pending", "submitted", "running", "settling", "completed", "failed"}
           \subseteq ItemStatus
  BY DEF TypeOK, ItemStatus, Status
<1>co. ASSUME NEW p \in Coro
       PROVE  /\ co[p].caller \in Caller /\ co[p].run \in Run \cup {NoRun}
              /\ co[p].fair \in BOOLEAN /\ co[p].hit \in BOOLEAN
              /\ co[p].todo \in SUBSET Item
  BY DEF TypeOK, Coroutine
<1>0. Live \in SUBSET Run /\ Cardinality(Live) \in Nat
  BY DispatchAssumption, FS_Subset, FS_CardinalityType DEF Live
<1>1. Idle \in Coroutine /\ Returned("poll") \in Coroutine
  BY SuspendedType DEF Caller
<1>2. CASE UNCHANGED vars
  BY <1>2 DEF vars, TypeOK
<1>more. ASSUME NEW i, lost[i] < MaxLost
         PROVE  [lost EXCEPT ![i] = @ + 1] \in [Item -> 0 .. MaxLost]
  <2> DEFINE next == [lost EXCEPT ![i] = @ + 1]
  <2>1. lost \in [Item -> 0 .. MaxLost]
    BY DEF TypeOK
  <2>2. next = [j \in Item |-> IF j = i THEN lost[i] + 1 ELSE lost[j]]
    BY <2>1
  <2>3. i \in Item => lost[i] + 1 \in 0 .. MaxLost
    BY <1>more, <2>1, DispatchAssumption
  <2> QED
    BY <2>1, <2>2, <2>3
<1>off. [PollOff EXCEPT !.pass = "dead"] \in Cycle /\ PollOff \in Cycle
  <2>1. <<>> \in Seq(Run) /\ 0 \in Nat
    OBVIOUS
  <2>2. [PollOff EXCEPT !.pass = "dead"] = [pass |-> "dead", queue |-> <<>>, size |-> 0]
    BY DEF PollOff
  <2> QED
    BY <2>1, <2>2 DEF PollOff, Cycle
<1>3. ASSUME NEW p \in Coro, SubmitAccepted(p) PROVE TypeOK'
  <2> DEFINE i == First(co[p].todo)
  <2>1. co' \in [Coro -> Coroutine]
    <3>1. Continue(p, co[p].todo \ {i}, co[p].hit)
      BY <1>3 DEF SubmitAccepted
    <3>2. co[p].todo \ {i} \in SUBSET Item
      BY <1>co
    <3> HIDE DEF i
    <3> QED
      BY <3>1, <3>2, <1>co, ContinueType
  <2>2. lost' \in [Item -> 0 .. MaxLost]
    <3>1. mine[i] => lost[i] < MaxLost
      BY <1>3 DEF SubmitAccepted
    <3>2. lost' = IF mine[i] THEN [lost EXCEPT ![i] = @ + 1] ELSE lost
      BY <1>3 DEF SubmitAccepted
    <3>3. lost \in [Item -> 0 .. MaxLost]
      BY DEF TypeOK
    <3>4. CASE mine[i]
      BY <3>1, <3>2, <3>4, <1>more
    <3>5. CASE ~mine[i]
      BY <3>2, <3>3, <3>5
    <3> QED
      BY <3>4, <3>5
  <2>3. st' \in [Item -> ItemStatus] /\ mine' \in [Item -> BOOLEAN]
    <3>1. st' = [st EXCEPT ![i] = "submitted"] /\ mine' = [mine EXCEPT ![i] = TRUE]
      BY <1>3 DEF SubmitAccepted
    <3> HIDE DEF i
    <3> QED
      BY <3>1, <1>st DEF TypeOK
  <2> QED
    BY <1>3, <2>1, <2>2, <2>3 DEF SubmitAccepted, TypeOK
<1>4. ASSUME NEW p \in Coro, SubmitCached(p) PROVE TypeOK'
  <2> DEFINE i == First(co[p].todo)
  <2>1. co' \in [Coro -> Coroutine]
    <3>1. Continue(p, co[p].todo \ {i}, TRUE)
      BY <1>4 DEF SubmitCached
    <3>2. co[p].todo \ {i} \in SUBSET Item
      BY <1>co
    <3> HIDE DEF i
    <3> QED
      BY <3>1, <3>2, ContinueType
  <2>2. st' \in [Item -> ItemStatus]
    <3>1. st' = [st EXCEPT ![i] = "completed"]
      BY <1>4 DEF SubmitCached
    <3> QED
      BY <3>1, <1>st
  <2> QED
    BY <1>4, <2>1, <2>2 DEF SubmitCached, TypeOK
<1>5. ASSUME NEW i, MayLoseAck(i) PROVE lost' \in [Item -> 0 .. MaxLost]
  BY <1>5, DispatchAssumption DEF MayLoseAck, TypeOK
<1>6. ASSUME NEW p \in Coro, SubmitRefused(p) PROVE TypeOK'
  <2>1. co' \in [Coro -> Coroutine]
    <3>1. Continue(p, {}, co[p].hit)
      BY <1>6 DEF SubmitRefused
    <3> QED
      BY <3>1, <1>co, ContinueType
  <2>2. st' \in [Item -> ItemStatus]
    BY <1>6, <1>st DEF SubmitRefused
  <2>3. lost' \in [Item -> 0 .. MaxLost]
    BY <1>6, <1>5 DEF SubmitRefused
  <2> QED
    BY <1>6, <2>1, <2>2, <2>3 DEF SubmitRefused, TypeOK
<1>7. ASSUME NEW p \in Coro, SubmitRaises(p) PROVE TypeOK'
  <2>1. poll' \in Cycle
    <3>1. poll \in Cycle
      BY DEF TypeOK
    <3>2. [poll EXCEPT !.queue = <<>>, !.size = Cardinality(Live)] \in Cycle
      <4>1. <<>> \in Seq(Run)
        OBVIOUS
      <4>2. ASSUME NEW q \in Seq(Run), NEW n \in Nat
            PROVE  [poll EXCEPT !.queue = q, !.size = n] \in Cycle
        BY <3>1 DEF Cycle
      <4> QED
        BY <4>1, <4>2, <1>0
    <3>3. \/ poll' = poll
          \/ poll' = [poll EXCEPT !.queue = <<>>, !.size = Cardinality(Live)]
          \/ poll' = [PollOff EXCEPT !.pass = "dead"]
      BY <1>7 DEF SubmitRaises
    <3> QED
      BY <3>1, <3>2, <3>3, <1>off
  <2>2. lost' \in [Item -> 0 .. MaxLost]
    BY <1>7, <1>5 DEF SubmitRaises
  <2>3. co' \in [Coro -> Coroutine]
    <3>1. co' = [co EXCEPT ![p] = Idle] \/ co' = [co EXCEPT ![p] = Returned("poll")]
      BY <1>7 DEF SubmitRaises
    <3> QED
      BY <3>1, <1>1 DEF TypeOK
  <2> QED
    BY <1>7, <2>1, <2>2, <2>3 DEF SubmitRaises, TypeOK
<1>8. ASSUME NEW p \in Coro, HooksReturn(p) PROVE TypeOK'
  <2>1. ASSUME NEW caller \in Caller, NEW r \in Run \cup {NoRun}, NEW fair \in BOOLEAN,
               ProcessRun(p, caller, st, Live, r, fair)
        PROVE  st' \in [Item -> ItemStatus] /\ co' \in [Coro -> Coroutine]
    BY <2>1, <1>st, ProcessRunType
  <2>2. ProcessRun(p, co[p].caller, st, Live, co[p].run, co[p].fair)
    BY <1>8 DEF HooksReturn
  <2>3. /\ co[p].caller \in Caller
        /\ co[p].run \in Run \cup {NoRun}
        /\ co[p].fair \in BOOLEAN
    BY <1>co
  <2>4. st' \in [Item -> ItemStatus] /\ co' \in [Coro -> Coroutine]
    BY <2>1, <2>2, <2>3
  <2> QED
    BY <1>8, <2>4 DEF HooksReturn, TypeOK
<1>9. ASSUME NEW p \in Coro, CancelReturns(p) PROVE TypeOK'
  <2>1. [st EXCEPT ![co[p].at] = "failed"] \in [Item -> ItemStatus]
    BY <1>st
  <2>2. CancelFrom(p, [st EXCEPT ![co[p].at] = "failed"], co[p].run, co[p].at + 1)
    BY <1>9 DEF CancelReturns
  <2>3. st' \in [Item -> ItemStatus] /\ co' \in [Coro -> Coroutine]
        /\ mine' \in [Item -> BOOLEAN]
    BY <2>1, <2>2, <1>co, CancelFromType
  <2> QED
    BY <1>9, <2>3 DEF CancelReturns, TypeOK
<1>10. ASSUME NEW p \in Coro, NEW r \in Run, Create(p, r) PROVE TypeOK'
  <2>1. st' \in [Item -> ItemStatus] /\ co' \in [Coro -> Coroutine]
    BY <1>10, ProcessRunType DEF Create, TypeOK, Caller
  <2> QED
    BY <1>10, <2>1 DEF Create, TypeOK
<1>11. ASSUME NEW p \in Coro, NEW r \in Run, Rerun(p, r) PROVE TypeOK'
  <2>1. [i \in Item |-> IF RunOf[i] = r THEN "pending" ELSE st[i]] \in [Item -> ItemStatus]
    BY <1>st
  <2>2. st' \in [Item -> ItemStatus] /\ co' \in [Coro -> Coroutine]
    BY <1>11, <2>1, ProcessRunType DEF Rerun, Caller
  <2>3. mine' \in [Item -> BOOLEAN]
    BY <1>11 DEF Rerun, TypeOK
  <2>4. lost' \in [Item -> 0 .. MaxLost]
    BY <1>11, DispatchAssumption DEF Rerun, TypeOK, ItemsOf
  <2> QED
    BY <1>11, <2>2, <2>3, <2>4 DEF Rerun, TypeOK
<1>12. ASSUME NEW p \in Coro, NEW r \in Run, Delete(p, r) PROVE TypeOK'
  BY <1>12 DEF Delete, TypeOK
<1>13. ASSUME NEW p \in Coro, NEW r \in Run, Cancel(p, r) PROVE TypeOK'
  <2>1. st \in [Item -> ItemStatus]
    BY DEF TypeOK
  <2> QED
    BY <1>13, <2>1, CancelFromType DEF Cancel, TypeOK
<1>14. ASSUME NEW p \in Coro, PollStart(p) PROVE TypeOK'
  <2>1. PICK q \in Orders(Live) : BeginPass("resolve", q)
    BY <1>14 DEF PollStart
  <2>2. poll' \in Cycle
    BY <2>1, <1>0, BeginPassType
  <2> QED
    BY <1>14, <1>1, <2>2 DEF PollStart, TypeOK
<1>15. ASSUME NEW p \in Coro, PollNextPass(p) PROVE TypeOK'
  <2>1. Contending(st, Live) \in SUBSET Run
    BY <1>0 DEF Contending
  <2>2. poll' \in Cycle
    <3>1. \/ \E q \in Orders(Live) : BeginPass("update", q)
          \/ \E q \in NeediestFirst(Contending(st, Live)) :
                \E pass \in {"fair", "greedy"} : BeginPass(pass, q)
          \/ poll' = PollOff
      BY <1>15 DEF PollNextPass
    <3>2. NeediestFirst(Contending(st, Live)) \subseteq Orders(Contending(st, Live))
      BY DEF NeediestFirst
    <3>3. CASE \E q \in Orders(Live) : BeginPass("update", q)
      BY <3>3, <1>0, BeginPassType
    <3>4. ASSUME NEW q \in Orders(Contending(st, Live)), NEW pass \in {"fair", "greedy"},
                 BeginPass(pass, q)
          PROVE  poll' \in Cycle
      BY <3>4, <2>1, BeginPassType
    <3> QED
      BY <3>1, <3>2, <3>3, <3>4, <1>off
  <2> QED
    BY <1>15, <1>1, <2>2 DEF PollNextPass, TypeOK
<1>16. ASSUME NEW p \in Coro, PollRaises(p) PROVE TypeOK'
  <2>1. poll' \in Cycle
    <3>1. \/ \E q \in Orders(Live) : BeginPass("update", q)
          \/ poll' = [PollOff EXCEPT !.pass = "dead"]
      BY <1>16 DEF PollRaises
    <3> QED
      BY <3>1, <1>0, <1>off, BeginPassType
  <2> QED
    BY <1>16, <1>1, <2>1 DEF PollRaises, TypeOK
<1>17. ASSUME NEW p \in Coro, NEW pass, Visiting(p, pass), Advance
       PROVE  poll' \in Cycle /\ Head(poll.queue) \in Run
  <2>1. poll \in Cycle /\ poll.queue \in Seq(Run)
    BY DEF TypeOK, Cycle
  <2>2. Head(poll.queue) \in Run /\ Tail(poll.queue) \in Seq(Run)
    <3>1. Len(poll.queue) > 0
      BY <1>17 DEF Visiting
    <3> QED
      BY <2>1, <3>1
  <2>3. poll' = [poll EXCEPT !.queue = Tail(poll.queue)]
    BY <1>17 DEF Advance
  <2> QED
    BY <2>1, <2>2, <2>3 DEF Cycle
<1>18. ASSUME NEW p \in Coro, PollResolve(p) PROVE TypeOK'
  <2>1. poll' \in Cycle /\ Head(poll.queue) \in Run
    BY <1>18, <1>17 DEF PollResolve
  <2>2. ASSUME NEW ok, NEW bad
        PROVE  Turned(ok, "completed", Turned(bad, "failed", st)) \in [Item -> ItemStatus]
    <3>1. Turned(bad, "failed", st) \in [Item -> ItemStatus]
      BY <1>st, TurnedType
    <3> QED
      BY <3>1, <1>st, TurnedType
  <2>3. Suspended("poll", "hooks", Head(poll.queue), TRUE, {}, TRUE) \in Coroutine
    BY <2>1, SuspendedType DEF Caller
  <2>4. st' \in [Item -> ItemStatus] /\ co' \in [Coro -> Coroutine]
    <3>1. PICK ok, bad :
            LET new == Turned(ok, "completed", Turned(bad, "failed", st)) IN
            \/ ProcessRun(p, "poll", new, Live, Head(poll.queue), TRUE)
            \/ /\ st' = new
               /\ co' = [co EXCEPT ![p] =
                           Suspended("poll", "hooks", Head(poll.queue), TRUE, {}, TRUE)]
            \/ st' = new /\ UNCHANGED co
      BY <1>18 DEF PollResolve
    <3> DEFINE new == Turned(ok, "completed", Turned(bad, "failed", st))
    <3>2. new \in [Item -> ItemStatus]
      BY <2>2
    <3> HIDE DEF new
    <3>3. CASE ProcessRun(p, "poll", new, Live, Head(poll.queue), TRUE)
      BY <3>2, <3>3, <2>1, ProcessRunType DEF Caller
    <3>4. CASE st' = new /\ co' = [co EXCEPT ![p] =
                 Suspended("poll", "hooks", Head(poll.queue), TRUE, {}, TRUE)]
      BY <3>2, <3>4, <2>3 DEF TypeOK
    <3>5. CASE st' = new /\ UNCHANGED co
      BY <3>2, <3>5 DEF TypeOK
    <3> QED
      BY <3>1, <3>3, <3>4, <3>5 DEF new
  <2>5. unsure' \in SUBSET Item
    BY <1>18 DEF PollResolve, TypeOK, With, ItemsOf
  <2> QED
    BY <1>18, <2>1, <2>4, <2>5 DEF PollResolve, TypeOK
<1>19. ASSUME NEW p \in Coro, PollUpdate(p) PROVE TypeOK'
  <2>1. poll' \in Cycle /\ Head(poll.queue) \in Run
    BY <1>19, <1>17 DEF PollUpdate
  <2>2. ASSUME NEW A, NEW B, NEW C
        PROVE  Turned(A, "running", Turned(B, "settling", Turned(C, "failed", st)))
                 \in [Item -> ItemStatus]
    <3>1. Turned(C, "failed", st) \in [Item -> ItemStatus]
      BY <1>st, TurnedType
    <3>2. Turned(B, "settling", Turned(C, "failed", st)) \in [Item -> ItemStatus]
      BY <3>1, <1>st, TurnedType
    <3> QED
      BY <3>2, <1>st, TurnedType
  <2>3. st' \in [Item -> ItemStatus] /\ co' \in [Coro -> Coroutine]
    BY <1>19, <2>1, <2>2, ProcessRunType DEF PollUpdate, TypeOK, Caller
  <2> QED
    BY <1>19, <2>1, <2>3 DEF PollUpdate, TypeOK
<1>20. ASSUME NEW p \in Coro, PollServe(p) PROVE TypeOK'
  <2>1. poll' \in Cycle /\ Head(poll.queue) \in Run
    BY <1>20, <1>17 DEF PollServe
  <2>2. st' \in [Item -> ItemStatus] /\ co' \in [Coro -> Coroutine]
    BY <1>20, <2>1, ProcessRunType DEF PollServe, TypeOK, Caller
  <2> QED
    BY <1>20, <2>1, <2>2 DEF PollServe, TypeOK
<1>21. ASSUME NEW i \in Item, JobEnds(i) PROVE TypeOK'
  BY <1>21 DEF JobEnds, TypeOK
<1>22. ASSUME NEW i \in Item, LostJobEnds(i) PROVE TypeOK'
  BY <1>22, DispatchAssumption DEF LostJobEnds, TypeOK
<1> QED
  BY <1>2, <1>3, <1>4, <1>6, <1>7, <1>8, <1>9, <1>10, <1>11, <1>12, <1>13, <1>14,
     <1>15, <1>16, <1>18, <1>19, <1>20, <1>21, <1>22
     DEF Next, Resume, Request, PollStep

LEMMA TypeInit ==
    ASSUME Init
    PROVE  TypeOK
<1>1. Idle \in Coroutine
  BY SuspendedType DEF Caller
<1>2. PollOff \in Cycle
  BY DEF PollOff, Cycle
<1> QED
  BY <1>1, <1>2, DispatchAssumption DEF Init, TypeOK, ItemStatus, Status

(* Every variable keeps its type, with any number of coroutines, requests  *)
(* and faults.                                                             *)
THEOREM TypeCorrect == Spec => []TypeOK
<1>1. Init => TypeOK
  BY TypeInit
<1> QED
  BY <1>1, TypeStep, PTL DEF Spec

-----------------------------------------------------------------------------
(***************************************************************************)
(* The caps are not inductive by themselves: a slot is taken long after it *)
(* was counted, when submit_task returns.  What is inductive counts the    *)
(* items a suspended process_run is going to submit (Claimed) as if they   *)
(* had their slots already.  Every process_run counts on its own and       *)
(* ignores the claims of the others, hence one cap for each coroutine;     *)
(* with a single one the cap itself.                                       *)
(***************************************************************************)

(* Only a run that was created has active items, is worked for, or queued. *)
ActiveKnown == \A i \in Item : st[i] \in Active => phase[RunOf[i]] # "new"

CoKnown ==
    \A p \in Coro :
        /\ \A i \in co[p].todo : phase[RunOf[i]] # "new"
        /\ co[p].op \in {"submitting", "hooks"} =>
              co[p].run \in Run /\ phase[co[p].run] # "new"
        /\ co[p].op = "submitting" => co[p].todo # {}

QueueKnown == \A k \in DOMAIN poll.queue : phase[poll.queue[k]] # "new"

KnownInv == TypeOK /\ ActiveKnown /\ CoKnown /\ QueueKnown

(* A step either takes slots that were claimed, and claims none, or it is  *)
(* one call of process_run, which claims what ToSubmit says.               *)
Shrinks ==
    /\ \A q \in Coro : co'[q].todo \subseteq co[q].todo
    /\ \A i \in Item : st'[i] \in Active => st[i] \in Active \/ i \in Claimed
    /\ Live' \subseteq Live

ChoosesFor(p, r, fair) ==
    /\ \A q \in Coro \ {p} : co'[q].todo = co[q].todo
    /\ co'[p].todo = ToSubmit(st', Live', r, fair)
    /\ \A i \in Item : st'[i] \in Active => st[i] \in Active
    /\ \A x \in Live' : phase[x] # "deleted"

Chooses ==
    \E p \in Coro, r \in Run, fair \in BOOLEAN : ChoosesFor(p, r, fair)

-----------------------------------------------------------------------------
(* Counting.                                                               *)

LEMMA UnionCard ==
    ASSUME NEW A \in SUBSET Item, NEW B \in SUBSET Item
    PROVE  /\ Cardinality(A \cup B) <= Cardinality(A) + Cardinality(B)
           /\ A \subseteq B => Cardinality(A) <= Cardinality(B)
           /\ Cardinality(A) \in Nat /\ Cardinality(A \cup B) \in Nat
<1>1. IsFiniteSet(A) /\ IsFiniteSet(B) /\ IsFiniteSet(A \cup B) /\ IsFiniteSet(A \cap B)
  BY ItemsFinite
<1>2. /\ Cardinality(A) \in Nat /\ Cardinality(B) \in Nat
      /\ Cardinality(A \cup B) \in Nat /\ Cardinality(A \cap B) \in Nat
  BY <1>1, FS_CardinalityType
<1>3. Cardinality(A \cup B) = Cardinality(A) + Cardinality(B) - Cardinality(A \cap B)
  BY <1>1, FS_Union
<1>4. A \subseteq B => Cardinality(A) <= Cardinality(B)
  BY <1>1, FS_Subset
<1> QED
  BY <1>2, <1>3, <1>4

(* The union of a finite family of sets of at most m items.  Induction     *)
(* takes the form of a least counterexample.                               *)
LEMMA UnionBound ==
    ASSUME NEW S, IsFiniteSet(S), NEW f, NEW m \in Nat,
           \A q \in S : f[q] \in SUBSET Item /\ Cardinality(f[q]) <= m
    PROVE  Cardinality(UNION {f[q] : q \in S}) <= Cardinality(S) * m
<1> DEFINE U(T) == UNION {f[q] : q \in T}
           Bad == {n \in Nat : \E T \in SUBSET S :
                      Cardinality(T) = n /\ ~ (Cardinality(U(T)) <= n * m)}
<1>1. \A T \in SUBSET S : U(T) \in SUBSET Item /\ Cardinality(U(T)) \in Nat
  <2>1. \A T \in SUBSET S : U(T) \in SUBSET Item
    OBVIOUS
  <2> QED
    BY <2>1, ItemsFinite
<1>2. \A T \in SUBSET S : IsFiniteSet(T) /\ Cardinality(T) \in Nat
  BY FS_Subset, FS_CardinalityType
<1>3. SUFFICES ASSUME Bad # {} PROVE FALSE
  <2>1. S \in SUBSET S /\ Cardinality(S) \in Nat
    BY <1>2
  <2>2. Cardinality(S) \notin Bad => Cardinality(U(S)) <= Cardinality(S) * m
    BY <2>1
  <2> QED
    BY <2>2
<1>4. PICK n \in Bad : \A k \in Bad : n <= k
  BY <1>3, LeastExists
<1>5. PICK T \in SUBSET S : Cardinality(T) = n /\ ~ (Cardinality(U(T)) <= n * m)
  BY <1>4
<1>6. n \in Nat
  BY <1>4
<1>7. T # {}
  <2> SUFFICES ASSUME T = {} PROVE FALSE
    OBVIOUS
  <2>1. Cardinality(U(T)) = 0 /\ n = 0
    BY <1>5, FS_EmptySet
  <2>2. 0 <= n * m
    BY <2>1
  <2> HIDE DEF U
  <2> QED
    BY <2>1, <2>2, <1>5
<1>8. PICK q \in T : TRUE
  BY <1>7
<1> DEFINE R == T \ {q}
<1>9. Cardinality(R) = n - 1 /\ R \in SUBSET S /\ n - 1 \in Nat
  <2>1. Cardinality(R) = n - 1
    BY <1>2, <1>5, <1>8, FS_RemoveElement
  <2> QED
    BY <2>1, <1>2, <1>5
<1>10. Cardinality(U(R)) <= (n - 1) * m
  <2>1. n - 1 \notin Bad
    <3> HIDE DEF Bad
    <3> QED
      BY <1>4, <1>6
  <2> QED
    BY <2>1, <1>9
<1>11. Cardinality(U(T)) <= Cardinality(U(R)) + Cardinality(f[q])
  <2>1. U(T) = U(R) \cup f[q]
    BY <1>8
  <2>2. U(R) \in SUBSET Item /\ f[q] \in SUBSET Item
    BY <1>1, <1>9, <1>8
  <2> HIDE DEF U
  <2> QED
    BY <2>1, <2>2, UnionCard
<1>12. Cardinality(f[q]) <= m /\ Cardinality(f[q]) \in Nat
  BY <1>8, ItemsFinite
<1>13. (n - 1) * m + m = n * m
  BY <1>6
<1>14. /\ Cardinality(U(T)) \in Nat /\ Cardinality(U(R)) \in Nat
       /\ n * m \in Int /\ (n - 1) * m \in Int
  <2>1. n * m \in Int /\ (n - 1) * m \in Int
    BY <1>6
  <2> HIDE DEF U, R
  <2> QED
    BY <2>1, <1>1, <1>9
<1> HIDE DEF U, R, Bad
<1> QED
  BY <1>5, <1>10, <1>11, <1>12, <1>13, <1>14

-----------------------------------------------------------------------------
(* Slots.                                                                  *)

LEMMA OnBackendCard ==
    ASSUME NEW s, NEW lv
    PROVE  /\ OnBackend(s, lv) \in SUBSET Item
           /\ Cardinality(OnBackend(s, lv)) \in Nat
           /\ BackendSlots(s, lv) \in Int
<1>1. OnBackend(s, lv) \in SUBSET Item
  BY DEF OnBackend
<1>2. Cardinality(OnBackend(s, lv)) \in Nat
  BY <1>1, ItemsFinite
<1> QED
  BY <1>1, <1>2, DispatchAssumption DEF BackendSlots

LEMMA RunSlotsType ==
    ASSUME NEW s, NEW r \in Run
    PROVE  /\ RunSlots(s, r) \in Int
           /\ RunningCount(s, r) \in Nat
<1>1. /\ Ready(s, r) \in SUBSET Item /\ With(s, r, Active) \in SUBSET Item
  BY DEF Ready, With, ItemsOf
<1>2. Cardinality(Ready(s, r)) \in Nat /\ RunningCount(s, r) \in Nat
  BY <1>1, ItemsFinite DEF RunningCount
<1>3. RunMax[r] \in Int
  BY DispatchAssumption DEF NoMax
<1> QED
  BY <1>2, <1>3 DEF RunSlots

LEMMA FairSlotsType ==
    ASSUME NEW s, NEW lv \in SUBSET Run
    PROVE  FairSlots(s, lv) \in Int
<1> DEFINE n == Cardinality(Contending(s, lv))
           b == BackendSlots(s, lv)
<1>1. n \in Nat
  <2>1. Contending(s, lv) \in SUBSET Run
    BY DEF Contending
  <2> QED
    BY <2>1, DispatchAssumption, FS_Subset, FS_CardinalityType
<1>2. b \in Int
  BY OnBackendCard
<1>3. FairSlots(s, lv) = IF n <= 1 THEN b ELSE IF b \div n < 1 THEN 1 ELSE b \div n
  BY DEF FairSlots
<1> HIDE DEF n, b
<1>4. n > 1 => b \div n \in Int
  BY <1>1, <1>2
<1> QED
  BY <1>1, <1>2, <1>3, <1>4

(* The number of items to submit exceeds neither the run's free slots nor  *)
(* the backend's.                                                          *)
LEMMA SlotsBound ==
    ASSUME NEW s, NEW lv \in SUBSET Run, NEW r \in Run, NEW fair \in BOOLEAN
    PROVE  /\ Slots(s, lv, r, fair) \in Int
           /\ Slots(s, lv, r, fair) <= RunSlots(s, r)
           /\ Slots(s, lv, r, fair) <= BackendSlots(s, lv)
<1> DEFINE limits == {RunSlots(s, r), BackendSlots(s, lv)}
                     \cup (IF fair THEN {FairSlots(s, lv)} ELSE {})
<1>1. /\ limits \subseteq Int /\ RunSlots(s, r) \in limits /\ BackendSlots(s, lv) \in limits
  BY RunSlotsType, OnBackendCard, FairSlotsType
<1>2. \E n \in limits : \A m \in limits : n <= m
  <2>1. ASSUME NEW a \in Int, NEW b \in Int, NEW c \in Int
        PROVE  \E n \in {a, b, c} : n <= a /\ n <= b /\ n <= c
    <3>1. a <= b \/ b <= a
      OBVIOUS
    <3>2. a <= c \/ c <= a
      OBVIOUS
    <3>3. b <= c \/ c <= b
      OBVIOUS
    <3> QED
      BY <3>1, <3>2, <3>3
  <2>2. PICK c \in Int : limits = {RunSlots(s, r), BackendSlots(s, lv), c}
    <3>1. CASE fair
      BY <3>1, <1>1
    <3>2. CASE ~fair
      BY <3>2, <1>1
    <3> QED
      BY <3>1, <3>2
  <2> HIDE DEF limits
  <2> QED
    BY <2>1, <2>2, <1>1
<1>3. Slots(s, lv, r, fair) = CHOOSE n \in limits : \A m \in limits : n <= m
  BY DEF Slots
<1> HIDE DEF limits
<1> QED
  BY <1>1, <1>2, <1>3

(* Claims and slots together stay within the caps that were looked at.     *)
LEMMA ToSubmitFits ==
    ASSUME NEW s, NEW lv \in SUBSET Run, NEW r \in Run, NEW fair \in BOOLEAN
    PROVE  LET T == ToSubmit(s, lv, r, fair) IN
           /\ T \in SUBSET ItemsOf(r)
           /\ Cardinality(T) <= BackendMax
           /\ T # {} => Cardinality(OnBackend(s, lv)) + Cardinality(T) <= BackendMax
           /\ RunMax[r] # NoMax =>
                /\ Cardinality(T) <= RunMax[r]
                /\ T # {} => RunningCount(s, r) + Cardinality(T) <= RunMax[r]
<1> DEFINE T == ToSubmit(s, lv, r, fair)
           n == Slots(s, lv, r, fair)
<1>1. n \in Int /\ n <= RunSlots(s, r) /\ n <= BackendSlots(s, lv)
  BY SlotsBound
<1>2. Ready(s, r) \in SUBSET ItemsOf(r) /\ ItemsOf(r) \in SUBSET Item
  BY DEF Ready, With, ItemsOf
<1>3. /\ T \in SUBSET Ready(s, r)
      /\ n >= 0 => Cardinality(T) <= n
      /\ n <= 0 => T = {}
  BY <1>1, <1>2, PrefixBound DEF ToSubmit
<1> HIDE DEF T, n
<1>4. /\ Cardinality(T) \in Nat
      /\ T = {} => Cardinality(T) = 0
  <2>1. T \in SUBSET Item
    BY <1>2, <1>3
  <2> QED
    BY <2>1, ItemsFinite, FS_EmptySet
<1>5. T # {} => Cardinality(T) <= n
  BY <1>1, <1>3
<1>6. T # {} => Cardinality(OnBackend(s, lv)) + Cardinality(T) <= BackendMax
  BY <1>1, <1>4, <1>5, OnBackendCard, DispatchAssumption DEF BackendSlots
<1>7. Cardinality(T) <= BackendMax
  BY <1>4, <1>6, OnBackendCard, DispatchAssumption
<1>8. ASSUME RunMax[r] # NoMax
      PROVE  /\ Cardinality(T) <= RunMax[r]
             /\ T # {} => RunningCount(s, r) + Cardinality(T) <= RunMax[r]
  <2>1. RunMax[r] \in Nat
    BY <1>8, DispatchAssumption
  <2>2. RunSlots(s, r) = RunMax[r] - RunningCount(s, r)
    BY <1>8 DEF RunSlots
  <2> QED
    BY <2>1, <2>2, <1>1, <1>4, <1>5, RunSlotsType
<1>9. T \in SUBSET ItemsOf(r)
  BY <1>2, <1>3
<1> QED
  BY <1>6, <1>7, <1>8, <1>9 DEF T

-----------------------------------------------------------------------------
(* The shape of a step.                                                    *)

CreatedStays == \A r \in Run : phase'[r] = "new" => phase[r] = "new"

CoShrinks ==
    \A q \in Coro :
        /\ co'[q].todo \subseteq co[q].todo
        /\ co'[q].op \in {"submitting", "hooks"} =>
              co'[q].run \in Run /\ phase[co'[q].run] # "new"
        /\ co'[q].op = "submitting" => co'[q].todo # {}

(* A step that claims nothing: what it must satisfy.                       *)
LEMMA QuietStep ==
    ASSUME KnownInv, CreatedStays, Live' \subseteq Live, CoShrinks,
           \A i \in Item : st'[i] \in Active => st[i] \in Active \/ i \in Claimed
    PROVE  ActiveKnown' /\ CoKnown' /\ Shrinks
<1>1. \A i \in Item : RunOf[i] \in Run
  BY RunModelAssumption
<1>2. \A q \in Coro : co[q].todo \subseteq Item
  BY DEF KnownInv, TypeOK, Coroutine
<1>3. \A i \in Claimed : i \in Item /\ phase[RunOf[i]] # "new"
  BY <1>2 DEF Claimed, KnownInv, CoKnown
<1>4. ActiveKnown'
  <2> SUFFICES ASSUME NEW i \in Item, st'[i] \in Active PROVE phase'[RunOf[i]] # "new"
    BY DEF ActiveKnown, Active
  <2>1. phase[RunOf[i]] # "new"
    BY <1>3 DEF KnownInv, ActiveKnown
  <2> QED
    BY <2>1, <1>1 DEF CreatedStays
<1>5. CoKnown'
  <2> SUFFICES ASSUME NEW q \in Coro
               PROVE  /\ \A i \in co'[q].todo : phase'[RunOf[i]] # "new"
                      /\ co'[q].op \in {"submitting", "hooks"} =>
                            co'[q].run \in Run /\ phase'[co'[q].run] # "new"
                      /\ co'[q].op = "submitting" => co'[q].todo # {}
    BY DEF CoKnown
  <2>1. \A i \in co'[q].todo : i \in Item /\ phase[RunOf[i]] # "new"
    BY <1>2 DEF KnownInv, CoKnown, CoShrinks
  <2>2. \A i \in co'[q].todo : phase'[RunOf[i]] # "new"
    BY <2>1, <1>1 DEF CreatedStays
  <2> QED
    BY <2>2 DEF CreatedStays, CoShrinks
<1>6. Shrinks
  BY DEF Shrinks, CoShrinks
<1> QED
  BY <1>4, <1>5, <1>6

(* process_run up to its first await claims ToSubmit.                      *)
LEMMA ProcessRunStep ==
    ASSUME KnownInv, CreatedStays,
           NEW p \in Coro, NEW caller \in Caller,
           NEW s \in [Item -> ItemStatus],
           \A i \in Item : s[i] \in Active => st[i] \in Active,
           NEW lv, Live' = lv, \A x \in Live' : phase[x] # "deleted", NEW r \in Run, phase'[r] # "new",
           NEW fair \in BOOLEAN,
           ProcessRun(p, caller, s, lv, r, fair)
    PROVE  ActiveKnown' /\ CoKnown' /\ Chooses
<1> DEFINE T == ToSubmit(st', lv, r, fair)
<1>1. st' = Cascade(s, r)
  BY DEF ProcessRun
<1>2. co' = [co EXCEPT ![p] =
               IF T = {} THEN Returned(caller)
               ELSE Suspended(caller, "submitting", r, fair, T, FALSE)]
  BY <1>1 DEF ProcessRun
<1>3. T \in SUBSET ItemsOf(r)
  BY DEF ToSubmit, Prefix, Ready, With
<1>4. ToSubmit(st', Live', r, fair) = T
  OBVIOUS
<1> HIDE DEF T
<1>5. \A i \in Item : st'[i] \in Active => st[i] \in Active
  <2> SUFFICES ASSUME NEW i \in Item, st'[i] \in Active PROVE s[i] \in Active
    OBVIOUS
  <2>1. st'[i] # s[i] => st'[i] = "dep_failed"
    BY <1>1, CascadeType
  <2> QED
    BY <2>1 DEF Active
<1>6. /\ Returned(caller).todo = {} /\ Returned(caller).op \notin {"submitting", "hooks"}
      /\ Suspended(caller, "submitting", r, fair, T, FALSE).todo = T
      /\ Suspended(caller, "submitting", r, fair, T, FALSE).run = r
  BY DEF Returned, Idle, Suspended
<1>7. co \in [Coro -> Coroutine]
  BY DEF KnownInv, TypeOK
<1>8. /\ co'[p].todo = T
      /\ co'[p].op \in {"submitting", "hooks"} => co'[p].run = r
      /\ co'[p].op = "submitting" => T # {}
      /\ \A q \in Coro \ {p} : co'[q] = co[q]
  <2>1. CASE T = {}
    <3>1. co'[p] = Returned(caller) /\ \A q \in Coro \ {p} : co'[q] = co[q]
      BY <1>2, <1>7, <2>1
    <3> QED
      BY <3>1, <1>6, <2>1
  <2>2. CASE T # {}
    <3>1. /\ co'[p] = Suspended(caller, "submitting", r, fair, T, FALSE)
          /\ \A q \in Coro \ {p} : co'[q] = co[q]
      BY <1>2, <1>7, <2>2
    <3> QED
      BY <3>1, <2>2, <1>6
  <2> QED
    BY <2>1, <2>2
<1>9. Chooses
  BY <1>4, <1>5, <1>8 DEF Chooses, ChoosesFor
<1>10. \A i \in Item : RunOf[i] \in Run
  BY RunModelAssumption
<1>11. ActiveKnown'
  <2> SUFFICES ASSUME NEW i \in Item, st'[i] \in Active PROVE phase'[RunOf[i]] # "new"
    BY DEF ActiveKnown, Active
  <2>1. phase[RunOf[i]] # "new"
    BY <1>5 DEF KnownInv, ActiveKnown
  <2> QED
    BY <2>1, <1>10 DEF CreatedStays
<1>12. CoKnown'
  <2> SUFFICES ASSUME NEW q \in Coro
               PROVE  /\ \A i \in co'[q].todo : phase'[RunOf[i]] # "new"
                      /\ co'[q].op \in {"submitting", "hooks"} =>
                            co'[q].run \in Run /\ phase'[co'[q].run] # "new"
                      /\ co'[q].op = "submitting" => co'[q].todo # {}
    BY DEF CoKnown
  <2>1. CASE q = p
    BY <2>1, <1>3, <1>8 DEF ItemsOf
  <2>2. CASE q # p
    <3>1. co'[q] = co[q] /\ \A i \in co[q].todo : i \in Item
      BY <2>2, <1>8, <1>7 DEF Coroutine
    <3>2. /\ \A i \in co[q].todo : phase[RunOf[i]] # "new"
          /\ co[q].op \in {"submitting", "hooks"} =>
                co[q].run \in Run /\ phase[co[q].run] # "new"
          /\ co[q].op = "submitting" => co[q].todo # {}
      BY DEF KnownInv, CoKnown
    <3> QED
      BY <3>1, <3>2, <1>10 DEF CreatedStays
  <2> QED
    BY <2>1, <2>2
<1> QED
  BY <1>9, <1>11, <1>12

LEMMA CoExcept ==
    ASSUME KnownInv, NEW p \in Coro, NEW c, co' = [co EXCEPT ![p] = c],
           c.todo \subseteq co[p].todo,
           c.op \in {"submitting", "hooks"} => c.run \in Run /\ phase[c.run] # "new",
           c.op = "submitting" => c.todo # {}
    PROVE  CoShrinks
<1>1. co \in [Coro -> Coroutine]
  BY DEF KnownInv, TypeOK
<1>2. co'[p] = c /\ \A q \in Coro \ {p} : co'[q] = co[q]
  BY <1>1
<1> QED
  BY <1>2 DEF CoShrinks, KnownInv, CoKnown

LEMMA CoUnchanged ==
    ASSUME KnownInv, UNCHANGED co
    PROVE  CoShrinks
  BY DEF CoShrinks, KnownInv, CoKnown

LEMMA ContinueShrinks ==
    ASSUME KnownInv, NEW p \in Coro, NEW todo, NEW hit,
           todo \subseteq co[p].todo, co[p].op = "submitting", Continue(p, todo, hit)
    PROVE  CoShrinks
<1> DEFINE c == IF todo # {}
                THEN Suspended(co[p].caller, "submitting", co[p].run, co[p].fair, todo, hit)
                ELSE IF hit
                THEN Suspended(co[p].caller, "hooks", co[p].run, co[p].fair, {}, hit)
                ELSE Returned(co[p].caller)
<1>1. co' = [co EXCEPT ![p] = c]
  BY DEF Continue
<1>2. c.todo \subseteq co[p].todo
  BY DEF Suspended, Returned, Idle
<1>3. /\ c.op \in {"submitting", "hooks"} => c.run = co[p].run
      /\ c.op = "submitting" => c.todo # {}
  BY DEF Suspended, Returned, Idle
<1>4. co[p].run \in Run /\ phase[co[p].run] # "new"
  BY DEF KnownInv, CoKnown
<1> HIDE DEF c
<1> QED
  BY <1>1, <1>2, <1>3, <1>4, CoExcept

LEMMA QueueStep ==
    ASSUME KnownInv, CreatedStays,
           \/ poll' = poll
           \/ poll'.queue = <<>>
           \/ Advance /\ Len(poll.queue) > 0
           \/ \E pass, S : \E q \in Orders(S) : S \subseteq Live /\ BeginPass(pass, q)
    PROVE  QueueKnown'
<1>1. poll.queue \in Seq(Run)
  BY DEF KnownInv, TypeOK, Cycle
<1>2. CASE poll' = poll
  BY <1>1, <1>2 DEF QueueKnown, KnownInv, CreatedStays
<1>3. CASE poll'.queue = <<>>
  BY <1>3 DEF QueueKnown
<1>4. CASE Advance /\ Len(poll.queue) > 0
  <2>1. poll'.queue = Tail(poll.queue)
    BY <1>4 DEF Advance, KnownInv, TypeOK, Cycle
  <2>2. \A k \in DOMAIN Tail(poll.queue) :
          k + 1 \in DOMAIN poll.queue /\ Tail(poll.queue)[k] = poll.queue[k + 1]
    BY <1>1, <1>4
  <2>3. \A k \in DOMAIN poll.queue : phase'[poll.queue[k]] # "new"
    BY <1>1 DEF QueueKnown, KnownInv, CreatedStays
  <2> QED
    BY <2>1, <2>2, <2>3 DEF QueueKnown
<1>5. ASSUME NEW pass, NEW S, NEW q \in Orders(S), S \subseteq Live, BeginPass(pass, q)
      PROVE  QueueKnown'
  <2>1. poll'.queue = q
    BY <1>5 DEF BeginPass
  <2>2. \A k \in DOMAIN q : q[k] \in Live
    BY <1>5 DEF Orders
  <2>3. \A r \in Live : r \in Run /\ phase'[r] # "new"
    BY DEF Live, CreatedStays
  <2> QED
    BY <2>1, <2>2, <2>3 DEF QueueKnown
<1> QED
  BY <1>2, <1>3, <1>4, <1>5

LEMMA HeadKnown ==
    ASSUME KnownInv, NEW p, NEW pass, Visiting(p, pass)
    PROVE  Head(poll.queue) \in Run /\ phase[Head(poll.queue)] # "new"
<1>1. poll.queue \in Seq(Run) /\ Len(poll.queue) > 0
  BY DEF KnownInv, TypeOK, Cycle, Visiting
<1>2. 1 \in DOMAIN poll.queue /\ Head(poll.queue) = poll.queue[1]
  BY <1>1
<1> QED
  BY <1>1, <1>2 DEF KnownInv, QueueKnown

LEMMA KnownStep ==
    ASSUME KnownInv, [Next]_vars
    PROVE  KnownInv' /\ (Shrinks \/ Chooses)
<1> DEFINE Goal == ActiveKnown' /\ CoKnown' /\ QueueKnown' /\ (Shrinks \/ Chooses)
<1>st. st \in [Item -> ItemStatus]
  BY DEF KnownInv, TypeOK
<1>co. ASSUME NEW p \in Coro
       PROVE  /\ co[p].caller \in Caller /\ co[p].fair \in BOOLEAN
              /\ co[p].todo \in SUBSET Item /\ co[p].todo \subseteq Claimed
  BY DEF KnownInv, TypeOK, Coroutine, Claimed
<1>act. {"submitted", "running", "settling"} \subseteq Active
        /\ {"pending", "completed", "failed"} \cap Active = {}
  BY DEF Active
<1>calm. ASSUME UNCHANGED phase
         PROVE  CreatedStays /\ Live' = Live /\ \A x \in Live' : phase[x] # "deleted"
  BY <1>calm DEF CreatedStays, Live
<1>quiet. ASSUME CoShrinks, UNCHANGED phase, QueueKnown',
                 \A i \in Item : st'[i] \in Active => st[i] \in Active \/ i \in Claimed
          PROVE  Goal
  BY <1>quiet, <1>calm, QuietStep
<1>idle. /\ Idle.todo = {} /\ Idle.op = "idle"
         /\ Returned("poll").todo = {} /\ Returned("poll").op = "polling"
         /\ PollOff.queue = <<>> /\ [PollOff EXCEPT !.pass = "dead"].queue = <<>>
  BY DEF Idle, Returned, PollOff
<1>2. ASSUME NEW p \in Coro, Submitting(p),
             NEW todo, NEW hit, todo \subseteq co[p].todo, Continue(p, todo, hit),
             UNCHANGED <<phase, poll>>,
             \A i \in Item : st'[i] \in Active => st[i] \in Active \/ i \in co[p].todo
      PROVE  Goal
  <2>1. CoShrinks
    BY <1>2, ContinueShrinks DEF Submitting
  <2>2. QueueKnown'
    BY <1>2, <1>calm, QueueStep
  <2>3. \A i \in Item : st'[i] \in Active => st[i] \in Active \/ i \in Claimed
    BY <1>2, <1>co
  <2> QED
    BY <2>1, <2>2, <2>3, <1>2, <1>quiet
<1>3. ASSUME NEW p \in Coro, Submitting(p) PROVE First(co[p].todo) \in co[p].todo
  BY <1>3, <1>co, FirstIn DEF Submitting, KnownInv, CoKnown
<1>4. ASSUME NEW p \in Coro, SubmitAccepted(p) PROVE Goal
  <2> DEFINE i == First(co[p].todo)
  <2>1. /\ Submitting(p) /\ UNCHANGED <<phase, poll>>
        /\ Continue(p, co[p].todo \ {i}, co[p].hit)
        /\ st' = [st EXCEPT ![i] = "submitted"]
    BY <1>4 DEF SubmitAccepted
  <2>2. i \in co[p].todo
    BY <2>1, <1>3
  <2> HIDE DEF i
  <2>3. \A j \in Item : st'[j] \in Active => st[j] \in Active \/ j \in co[p].todo
    BY <2>1, <2>2, <1>st
  <2> QED
    BY <2>1, <2>3, <1>2
<1>5. ASSUME NEW p \in Coro, SubmitCached(p) PROVE Goal
  <2> DEFINE i == First(co[p].todo)
  <2>1. /\ Submitting(p) /\ UNCHANGED <<phase, poll>>
        /\ Continue(p, co[p].todo \ {i}, TRUE)
        /\ st' = [st EXCEPT ![i] = "completed"]
    BY <1>5 DEF SubmitCached
  <2> HIDE DEF i
  <2>2. \A j \in Item : st'[j] \in Active => st[j] \in Active \/ j \in co[p].todo
    BY <2>1, <1>st, <1>act
  <2> QED
    BY <2>1, <2>2, <1>2
<1>6. ASSUME NEW p \in Coro, SubmitRefused(p) PROVE Goal
  <2>1. /\ Submitting(p) /\ UNCHANGED <<phase, poll>> /\ Continue(p, {}, co[p].hit)
    BY <1>6 DEF SubmitRefused
  <2>2. \A j \in Item : st'[j] = st[j] \/ st'[j] = "failed"
    BY <1>6, <1>st DEF SubmitRefused
  <2>3. \A j \in Item : st'[j] \in Active => st[j] \in Active \/ j \in co[p].todo
    BY <2>2, <1>act
  <2> QED
    BY <2>1, <2>3, <1>2
<1>7. ASSUME NEW p \in Coro, NEW c, co' = [co EXCEPT ![p] = c], c.todo = {},
             c.op \notin {"submitting", "hooks"}
      PROVE  CoShrinks
  BY <1>7, CoExcept
<1>8. ASSUME NEW p \in Coro, SubmitRaises(p) PROVE Goal
  <2>1. UNCHANGED phase /\ UNCHANGED st
    BY <1>8 DEF SubmitRaises
  <2>2. CoShrinks
    <3>1. co' = [co EXCEPT ![p] = Idle] \/ co' = [co EXCEPT ![p] = Returned("poll")]
      BY <1>8 DEF SubmitRaises
    <3> QED
      BY <3>1, <1>7, <1>idle
  <2>3. QueueKnown'
    <3>1. [poll EXCEPT !.queue = <<>>, !.size = Cardinality(Live)].queue = <<>>
      BY DEF KnownInv, TypeOK, Cycle
    <3>2. poll' = poll \/ poll'.queue = <<>>
      BY <1>8, <1>idle, <3>1 DEF SubmitRaises
    <3> QED
      BY <2>1, <3>2, <1>calm, QueueStep
  <2> QED
    BY <2>1, <2>2, <2>3, <1>quiet
<1>chosen. ASSUME NEW p \in Coro, NEW caller \in Caller, NEW s \in [Item -> ItemStatus],
                  \A i \in Item : s[i] \in Active => st[i] \in Active,
                  NEW r \in Run, phase[r] # "new", NEW fair \in BOOLEAN,
                  ProcessRun(p, caller, s, Live, r, fair), UNCHANGED phase, QueueKnown'
           PROVE  Goal
  BY <1>chosen, <1>calm, ProcessRunStep
<1>9. ASSUME NEW p \in Coro, HooksReturn(p) PROVE Goal
  <2>1. /\ ProcessRun(p, co[p].caller, st, Live, co[p].run, co[p].fair)
        /\ UNCHANGED phase /\ UNCHANGED poll
    BY <1>9 DEF HooksReturn
  <2>2. co[p].run \in Run /\ phase[co[p].run] # "new"
    BY <1>9 DEF HooksReturn, KnownInv, CoKnown
  <2>3. QueueKnown'
    BY <2>1, <1>calm, QueueStep
  <2>4. ASSUME NEW caller \in Caller, NEW r \in Run, NEW fair \in BOOLEAN,
               phase[r] # "new", ProcessRun(p, caller, st, Live, r, fair)
        PROVE  Goal
    BY <2>1, <2>3, <2>4, <1>st, <1>chosen
  <2> HIDE DEF Goal
  <2> QED
    BY <2>1, <2>2, <2>4, <1>co
<1>10. ASSUME NEW p \in Coro, NEW r \in Run, Create(p, r) PROVE Goal
  <2>1. /\ phase' = [phase EXCEPT ![r] = "live"] /\ UNCHANGED poll
        /\ ProcessRun(p, "request", st, Live \cup {r}, r, TRUE)
    BY <1>10 DEF Create
  <2>2. phase \in [Run -> {"new", "live", "deleted"}]
    BY DEF KnownInv, TypeOK
  <2>3. /\ CreatedStays /\ Live' = Live \cup {r} /\ phase'[r] # "new"
        /\ \A x \in Live' : phase[x] # "deleted"
    BY <1>10, <2>1, <2>2 DEF CreatedStays, Live, Create
  <2>4. QueueKnown'
    BY <2>1, <2>3, QueueStep
  <2>5. "request" \in Caller
    BY DEF Caller
  <2> QED
    BY <2>1, <2>3, <2>4, <2>5, <1>st, ProcessRunStep
<1>11. ASSUME NEW p \in Coro, NEW r \in Run, Rerun(p, r) PROVE Goal
  <2> DEFINE s == [i \in Item |-> IF RunOf[i] = r THEN "pending" ELSE st[i]]
  <2>1. /\ ProcessRun(p, "request", s, Live, r, TRUE)
        /\ r \in Live /\ UNCHANGED phase /\ UNCHANGED poll
    BY <1>11 DEF Rerun
  <2>2. s \in [Item -> ItemStatus]
    BY <1>st DEF ItemStatus, Status
  <2>3. \A i \in Item : s[i] \in Active => st[i] \in Active
    BY <1>act
  <2>4. phase[r] # "new" /\ "request" \in Caller
    BY <2>1 DEF Live, Caller
  <2>5. QueueKnown'
    BY <2>1, <1>calm, QueueStep
  <2> HIDE DEF s
  <2> QED
    BY <2>1, <2>2, <2>3, <2>4, <2>5, <1>chosen
<1>12. ASSUME NEW p \in Coro, NEW r \in Run, Delete(p, r) PROVE Goal
  <2>1. /\ phase' = [phase EXCEPT ![r] = "deleted"]
        /\ UNCHANGED st /\ UNCHANGED co /\ UNCHANGED poll
    BY <1>12 DEF Delete
  <2>2. CreatedStays /\ Live' \subseteq Live
    <3>1. phase \in [Run -> {"new", "live", "deleted"}]
      BY DEF KnownInv, TypeOK
    <3> QED
      BY <2>1, <3>1 DEF CreatedStays, Live
  <2>3. CoShrinks
    BY <2>1, CoUnchanged
  <2>4. QueueKnown'
    BY <2>1, <2>2, QueueStep
  <2>5. \A i \in Item : st'[i] \in Active => st[i] \in Active \/ i \in Claimed
    BY <2>1
  <2> QED
    BY <2>2, <2>3, <2>4, <2>5, QuietStep
<1>13. ASSUME NEW p \in Coro, NEW s \in [Item -> ItemStatus],
              \A i \in Item : s[i] \in Active => st[i] \in Active,
              NEW r, NEW k, CancelFrom(p, s, r, k), UNCHANGED phase, UNCHANGED poll
       PROVE  Goal
  <2>1. \A i \in Item : st'[i] = s[i] \/ st'[i] = "failed"
    BY <1>13 DEF CancelFrom
  <2>2. \A i \in Item : st'[i] \in Active => st[i] \in Active \/ i \in Claimed
    BY <2>1, <1>13, <1>act
  <2>3. PICK c : co' = [co EXCEPT ![p] = c] /\ c.todo = {}
                   /\ c.op \notin {"submitting", "hooks"}
    <3>1. PICK at : \/ co' = [co EXCEPT ![p] = [Idle EXCEPT !.caller = "request",
                                                  !.op = "cancelling", !.run = r, !.at = at]]
                    \/ co' = [co EXCEPT ![p] = Idle]
      BY <1>13 DEF CancelFrom
    <3> DEFINE c == [Idle EXCEPT !.caller = "request", !.op = "cancelling",
                                 !.run = r, !.at = at]
    <3>2. c.todo = {} /\ c.op = "cancelling"
      BY DEF Idle
    <3> HIDE DEF c
    <3>3. CASE co' = [co EXCEPT ![p] = c]
      BY <3>2, <3>3
    <3>4. CASE co' = [co EXCEPT ![p] = Idle]
      BY <3>4, <1>idle
    <3> QED
      BY <3>1, <3>3, <3>4 DEF c
  <2>4. CoShrinks
    BY <2>3, <1>7
  <2>5. QueueKnown'
    BY <1>13, <1>calm, QueueStep
  <2> QED
    BY <2>2, <2>4, <2>5, <1>13, <1>quiet
<1>14. ASSUME NEW p \in Coro, NEW r \in Run, Cancel(p, r) PROVE Goal
  <2>1. CancelFrom(p, st, r, 1) /\ UNCHANGED phase /\ UNCHANGED poll
    BY <1>14 DEF Cancel
  <2> HIDE DEF Goal
  <2> QED
    BY <2>1, <1>13, <1>st
<1>15. ASSUME NEW p \in Coro, CancelReturns(p) PROVE Goal
  <2> DEFINE s == [st EXCEPT ![co[p].at] = "failed"]
  <2>1. /\ CancelFrom(p, s, co[p].run, co[p].at + 1)
        /\ UNCHANGED phase /\ UNCHANGED poll
    BY <1>15 DEF CancelReturns
  <2>2. s \in [Item -> ItemStatus] /\ \A i \in Item : s[i] \in Active => st[i] \in Active
    BY <1>st, <1>act DEF ItemStatus, Status
  <2> HIDE DEF Goal, s
  <2> QED
    BY <2>1, <2>2, <1>13
<1>16. ASSUME NEW p \in Coro, PollStart(p) PROVE Goal
  <2>1. /\ co' = [co EXCEPT ![p] = Returned("poll")] /\ UNCHANGED phase /\ UNCHANGED st
        /\ \E q \in Orders(Live) : BeginPass("resolve", q)
    BY <1>16 DEF PollStart
  <2>2. CoShrinks
    BY <2>1, <1>7, <1>idle
  <2>3. QueueKnown'
    BY <2>1, <1>calm, QueueStep
  <2> QED
    BY <2>1, <2>2, <2>3, <1>quiet
<1>17. ASSUME NEW p \in Coro, UNCHANGED phase, UNCHANGED st,
              co' = co \/ co' = [co EXCEPT ![p] = Idle],
              \/ \E pass, S : \E q \in Orders(S) : S \subseteq Live /\ BeginPass(pass, q)
              \/ poll'.queue = <<>>
       PROVE  Goal
  <2>1. CoShrinks
    BY <1>17, <1>7, <1>idle, CoUnchanged
  <2>2. QueueKnown'
    BY <1>17, <1>calm, QueueStep
  <2> QED
    BY <1>17, <2>1, <2>2, <1>quiet
<1>18. ASSUME NEW p \in Coro, PollNextPass(p) PROVE Goal
  <2>1. /\ UNCHANGED phase /\ UNCHANGED st
        /\ co' = co \/ co' = [co EXCEPT ![p] = Idle]
    BY <1>18 DEF PollNextPass
  <2>2. \/ \E q \in Orders(Live) : \E pass : BeginPass(pass, q)
        \/ \E q \in Orders(Contending(st, Live)) : \E pass : BeginPass(pass, q)
        \/ poll' = PollOff
    BY <1>18 DEF PollNextPass, NeediestFirst
  <2>3. Contending(st, Live) \subseteq Live
    BY DEF Contending
  <2>4. \/ \E pass, S : \E q \in Orders(S) : S \subseteq Live /\ BeginPass(pass, q)
        \/ poll'.queue = <<>>
    BY <2>2, <2>3, <1>idle
  <2> HIDE DEF Goal
  <2> QED
    BY <2>1, <2>4, <1>17
<1>19. ASSUME NEW p \in Coro, PollRaises(p) PROVE Goal
  <2>1. /\ UNCHANGED phase /\ UNCHANGED st
        /\ co' = co \/ co' = [co EXCEPT ![p] = Idle]
    BY <1>19 DEF PollRaises
  <2>2. \/ \E q \in Orders(Live) : BeginPass("update", q)
        \/ poll' = [PollOff EXCEPT !.pass = "dead"]
    BY <1>19 DEF PollRaises
  <2>3. \/ \E pass, S : \E q \in Orders(S) : S \subseteq Live /\ BeginPass(pass, q)
        \/ poll'.queue = <<>>
    BY <2>2, <1>idle
  <2> HIDE DEF Goal
  <2> QED
    BY <2>1, <2>3, <1>17
<1>20. ASSUME NEW p, NEW pass, Visiting(p, pass), Advance, UNCHANGED phase PROVE QueueKnown'
  <2>1. Len(poll.queue) > 0
    BY <1>20 DEF Visiting
  <2> QED
    BY <1>20, <2>1, <1>calm, QueueStep
<1>21. ASSUME NEW S, NEW status \in ItemStatus, NEW s \in [Item -> ItemStatus],
              \A i \in Item : s[i] \in Active => st[i] \in Active,
              status \in Active => \A i \in Item : i \in S => st[i] \in Active \/ s[i] \in Active
       PROVE  /\ Turned(S, status, s) \in [Item -> ItemStatus]
              /\ \A i \in Item : Turned(S, status, s)[i] \in Active => st[i] \in Active
  BY <1>21 DEF Turned
<1>22. {"running", "settling", "completed", "failed"} \subseteq ItemStatus /\ "poll" \in Caller
  BY DEF ItemStatus, Status, Caller
<1>23. ASSUME NEW p \in Coro, PollResolve(p) PROVE Goal
  <2> DEFINE r == Head(poll.queue)
  <2>1. /\ r \in Run /\ phase[r] # "new" /\ QueueKnown' /\ UNCHANGED phase
    <3>1. Visiting(p, "resolve") /\ Advance /\ UNCHANGED phase
      BY <1>23 DEF PollResolve
    <3> QED
      BY <3>1, <1>20, HeadKnown
  <2>2. PICK ok, bad :
          LET new == Turned(ok, "completed", Turned(bad, "failed", st)) IN
          \/ ProcessRun(p, "poll", new, Live, r, TRUE)
          \/ /\ st' = new
             /\ co' = [co EXCEPT ![p] = Suspended("poll", "hooks", r, TRUE, {}, TRUE)]
          \/ st' = new /\ UNCHANGED co
    BY <1>23 DEF PollResolve
  <2> DEFINE failed == Turned(bad, "failed", st)
             new == Turned(ok, "completed", failed)
             c == Suspended("poll", "hooks", r, TRUE, {}, TRUE)
  <2>3. failed \in [Item -> ItemStatus] /\ \A i \in Item : failed[i] \in Active => st[i] \in Active
    BY <1>21, <1>22, <1>st, <1>act
  <2> HIDE DEF failed
  <2>4. new \in [Item -> ItemStatus] /\ \A i \in Item : new[i] \in Active => st[i] \in Active
    BY <2>3, <1>21, <1>22, <1>act
  <2>5. /\ c.todo = {} /\ c.op = "hooks" /\ c.run = r
    BY DEF Suspended
  <2>6. \/ ProcessRun(p, "poll", new, Live, r, TRUE)
        \/ st' = new /\ co' = [co EXCEPT ![p] = c]
        \/ st' = new /\ UNCHANGED co
    BY <2>2 DEF new, failed
  <2> HIDE DEF Goal, new, r, c
  <2>7. CASE ProcessRun(p, "poll", new, Live, r, TRUE)
    BY <2>1, <2>4, <2>7, <1>22, <1>chosen
  <2>8. CASE st' = new /\ co' = [co EXCEPT ![p] = c]
    <3>1. CoShrinks
      BY <2>1, <2>5, <2>8, CoExcept
    <3> QED
      BY <2>1, <2>4, <2>8, <3>1, <1>quiet
  <2>9. CASE st' = new /\ UNCHANGED co
    BY <2>1, <2>4, <2>9, CoUnchanged, <1>quiet
  <2> QED
    BY <2>6, <2>7, <2>8, <2>9
<1>24. ASSUME NEW p \in Coro, PollUpdate(p) PROVE Goal
  <2> DEFINE r == Head(poll.queue)
  <2>1. /\ r \in Run /\ phase[r] # "new" /\ QueueKnown' /\ UNCHANGED phase
    <3>1. Visiting(p, "update") /\ Advance /\ UNCHANGED phase
      BY <1>24 DEF PollUpdate
    <3> QED
      BY <3>1, <1>20, HeadKnown
  <2>2. CASE UNCHANGED st /\ UNCHANGED co
    BY <2>1, <2>2, CoUnchanged, <1>quiet
  <2>3. CASE \E seen \in SUBSET {i \in With(st, r, {"submitted", "settling"}) : mine[i]} :
             \E settled \in SUBSET Away(r, Active) : \E bad :
               ProcessRun(p, "poll", Turned(seen, "running",
                            Turned(settled, "settling", Turned(bad, "failed", st))),
                          Live, r, TRUE)
    <3>0. PICK seen \in SUBSET {i \in With(st, r, {"submitted", "settling"}) : mine[i]} :
          \E settled \in SUBSET Away(r, Active) : \E bad :
            ProcessRun(p, "poll", Turned(seen, "running",
                         Turned(settled, "settling", Turned(bad, "failed", st))),
                       Live, r, TRUE)
      BY <2>3
    <3>1. PICK settled \in SUBSET Away(r, Active) : \E bad :
            ProcessRun(p, "poll", Turned(seen, "running",
                         Turned(settled, "settling", Turned(bad, "failed", st))),
                       Live, r, TRUE)
      BY <3>0
    <3>b. PICK bad :
            ProcessRun(p, "poll", Turned(seen, "running",
                         Turned(settled, "settling", Turned(bad, "failed", st))),
                       Live, r, TRUE)
      BY <3>1
    <3>2. \A i \in seen : st[i] \in Active
      BY <1>act DEF With
    <3>3. \A i \in settled : st[i] \in Active
      BY DEF Away, With
    <3> DEFINE s1 == Turned(bad, "failed", st)
               s2 == Turned(settled, "settling", s1)
               s3 == Turned(seen, "running", s2)
    <3>4. s1 \in [Item -> ItemStatus] /\ \A i \in Item : s1[i] \in Active => st[i] \in Active
      BY <1>21, <1>22, <1>st, <1>act
    <3> HIDE DEF s1
    <3>5. s2 \in [Item -> ItemStatus] /\ \A i \in Item : s2[i] \in Active => st[i] \in Active
      BY <3>3, <3>4, <1>21, <1>22
    <3> HIDE DEF s2
    <3>6. s3 \in [Item -> ItemStatus] /\ \A i \in Item : s3[i] \in Active => st[i] \in Active
      BY <3>2, <3>5, <1>21, <1>22
    <3>7. ProcessRun(p, "poll", s3, Live, r, TRUE)
      BY <3>b DEF s1, s2
    <3> HIDE DEF s3, r, Goal
    <3> QED
      BY <3>6, <3>7, <2>1, <1>22, <1>chosen
  <2> QED
    BY <1>24, <2>2, <2>3 DEF PollUpdate
<1>25. ASSUME NEW p \in Coro, PollServe(p) PROVE Goal
  <2> DEFINE r == Head(poll.queue)
             fair == poll.pass = "fair"
  <2>1. /\ r \in Run /\ phase[r] # "new" /\ QueueKnown' /\ UNCHANGED phase
    <3>1. /\ Visiting(p, "fair") \/ Visiting(p, "greedy")
          /\ Advance /\ UNCHANGED phase
      BY <1>25 DEF PollServe
    <3> QED
      BY <3>1, <1>20, HeadKnown
  <2>2. ProcessRun(p, "poll", st, Live, r, fair) /\ fair \in BOOLEAN
    BY <1>25 DEF PollServe
  <2> HIDE DEF Goal, r, fair
  <2> QED
    BY <2>1, <2>2, <1>22, <1>st, <1>chosen
<1>26. ASSUME UNCHANGED phase, UNCHANGED st, UNCHANGED co, UNCHANGED poll PROVE Goal
  <2>1. QueueKnown'
    BY <1>26, <1>calm, QueueStep
  <2> QED
    BY <1>26, <2>1, CoUnchanged, <1>quiet
<1>27. ASSUME NEW i \in Item, JobEnds(i) \/ LostJobEnds(i) PROVE Goal
  BY <1>27, <1>26 DEF JobEnds, LostJobEnds
<1>stutter. ASSUME UNCHANGED vars PROVE Goal
  <2>1. UNCHANGED phase /\ UNCHANGED st /\ UNCHANGED co /\ UNCHANGED poll
    BY <1>stutter DEF vars
  <2> HIDE DEF Goal
  <2> QED
    BY <2>1, <1>26
<1>28. TypeOK'
  BY TypeStep DEF KnownInv
<1>29. Goal
  <2> HIDE DEF Goal
  <2>1. ASSUME NEW p \in Coro, Resume(p) PROVE Goal
    BY <2>1, <1>4, <1>5, <1>6, <1>8, <1>9, <1>15 DEF Resume
  <2>2. ASSUME NEW p \in Coro, Request(p) PROVE Goal
    BY <2>2, <1>10, <1>11, <1>12, <1>14 DEF Request
  <2>3. ASSUME NEW p \in Coro, PollStep(p) PROVE Goal
    BY <2>3, <1>18, <1>19, <1>23, <1>24, <1>25 DEF PollStep
  <2> QED
    BY <2>1, <2>2, <2>3, <1>stutter, <1>16, <1>27 DEF Next
<1> QED
  BY <1>28, <1>29 DEF KnownInv

-----------------------------------------------------------------------------
(* The caps.                                                               *)

RunInv ==
    \A r \in Run : RunMax[r] # NoMax =>
        /\ \A p \in Coro : Cardinality(co[p].todo \cap ItemsOf(r)) <= RunMax[r]
        /\ Cardinality(With(st, r, Active) \cup (Claimed \cap ItemsOf(r)))
              <= Cardinality(Coro) * RunMax[r]

(* The arithmetic of both caps.  A is what has a slot, K what is claimed;  *)
(* p claims T on top of what the other coroutines claim already.           *)
LEMMA ClaimFits ==
    ASSUME NEW m \in Nat, NEW p \in Coro, NEW f \in [Coro -> SUBSET Item],
           \A q \in Coro : Cardinality(f[q]) <= m,
           NEW A \in SUBSET Item, NEW T \in SUBSET Item,
           Cardinality(A) + Cardinality(T) <= m
    PROVE  Cardinality(A \cup T \cup UNION {f[q] : q \in Coro \ {p}}) <= Cardinality(Coro) * m
<1> DEFINE rest == Coro \ {p}
           K == UNION {f[q] : q \in rest}
           k == Cardinality(Coro)
<1>1. /\ IsFiniteSet(rest) /\ Cardinality(rest) = k - 1 /\ k \in Nat
  BY DispatchAssumption, FS_RemoveElement, FS_CardinalityType
<1>2. Cardinality(K) <= (k - 1) * m
  <2>1. \A q \in rest : f[q] \in SUBSET Item /\ Cardinality(f[q]) <= m
    OBVIOUS
  <2>2. Cardinality(K) <= Cardinality(rest) * m
    BY <2>1, <1>1, UnionBound
  <2> QED
    BY <2>2, <1>1
<1>3. K \in SUBSET Item
  OBVIOUS
<1> HIDE DEF K, k
<1>4. /\ Cardinality((A \cup T) \cup K) <= Cardinality(A \cup T) + Cardinality(K)
      /\ Cardinality(A \cup T) <= Cardinality(A) + Cardinality(T)
      /\ Cardinality((A \cup T) \cup K) \in Nat /\ Cardinality(A \cup T) \in Nat
      /\ Cardinality(A) \in Nat /\ Cardinality(T) \in Nat /\ Cardinality(K) \in Nat
  <2>1. A \cup T \in SUBSET Item
    OBVIOUS
  <2> QED
    BY <2>1, <1>3, UnionCard
<1>5. (k - 1) * m + m = k * m /\ (k - 1) * m \in Int /\ k * m \in Int
  BY <1>1
<1>6. Cardinality((A \cup T) \cup K) <= k * m
  BY <1>2, <1>4, <1>5
<1> QED
  BY <1>6 DEF K, k

LEMMA CapStep ==
    ASSUME KnownInv, KnownInv', CapInv, Shrinks \/ Chooses
    PROVE  CapInv'
<1>1. /\ \A q \in Coro : co[q].todo \in SUBSET Item /\ co'[q].todo \in SUBSET Item
      /\ Claimed \in SUBSET Item /\ Claimed' \in SUBSET Item
      /\ OnBackend(st, Live) \in SUBSET Item /\ OnBackend(st', Live') \in SUBSET Item
  BY DEF KnownInv, TypeOK, Coroutine, Claimed, OnBackend
<1>2. Live' \in SUBSET Run
  BY DEF Live
<1> DEFINE held == OnBackend(st, Live) \cup Claimed
           held2 == OnBackend(st', Live') \cup Claimed'
           max == Cardinality(Coro) * BackendMax
<1>3. held \in SUBSET Item /\ held2 \in SUBSET Item /\ max \in Int
      /\ Cardinality(held) \in Nat /\ Cardinality(held2) \in Nat
  <2>1. Cardinality(Coro) \in Nat /\ BackendMax \in Nat
    BY DispatchAssumption, FS_CardinalityType
  <2>2. held \in SUBSET Item /\ held2 \in SUBSET Item
    BY <1>1
  <2> QED
    BY <2>1, <2>2, ItemsFinite
<1>4. SUFFICES /\ \A q \in Coro : Cardinality(co'[q].todo) <= BackendMax
               /\ Cardinality(held2) <= max
  BY DEF CapInv
<1>5. ASSUME NEW q \in Coro, co'[q].todo \subseteq co[q].todo
      PROVE  Cardinality(co'[q].todo) <= BackendMax
  <2>1. /\ Cardinality(co'[q].todo) <= Cardinality(co[q].todo)
        /\ Cardinality(co[q].todo) \in Nat /\ Cardinality(co'[q].todo) \in Nat
    BY <1>1, <1>5, UnionCard
  <2> QED
    BY <2>1, DispatchAssumption DEF CapInv
<1>6. ASSUME held2 \subseteq held PROVE Cardinality(held2) <= max
  <2>1. Cardinality(held2) <= Cardinality(held)
    BY <1>3, <1>6, UnionCard
  <2> HIDE DEF held2
  <2> QED
    BY <2>1, <1>3 DEF CapInv
<1>7. CASE Shrinks
  <2>1. Claimed' \subseteq Claimed
    BY <1>7 DEF Shrinks, Claimed
  <2>2. OnBackend(st', Live') \subseteq held
    BY <1>7 DEF Shrinks, OnBackend
  <2> QED
    BY <2>1, <2>2, <1>5, <1>6, <1>7 DEF Shrinks
<1>8. CASE Chooses
  <2>1. PICK p \in Coro, r \in Run, fair \in BOOLEAN : ChoosesFor(p, r, fair)
    BY <1>8 DEF Chooses
  <2> DEFINE T == co'[p].todo
             A == OnBackend(st', Live')
             f == [q \in Coro |-> co[q].todo]
             K == UNION {f[q] : q \in Coro \ {p}}
  <2>2. /\ Cardinality(T) <= BackendMax
        /\ T # {} => Cardinality(A) + Cardinality(T) <= BackendMax
    BY <2>1, <1>2, ToSubmitFits DEF ChoosesFor
  <2>3. \A q \in Coro : Cardinality(co'[q].todo) <= BackendMax
    BY <2>1, <2>2, <1>5 DEF ChoosesFor
  <2>4. Claimed' = T \cup K
    BY <2>1 DEF Claimed, ChoosesFor
  <2>5. CASE T # {}
    <3>1. f \in [Coro -> SUBSET Item] /\ \A q \in Coro : Cardinality(f[q]) <= BackendMax
      BY <1>1 DEF CapInv
    <3>2. A \in SUBSET Item /\ T \in SUBSET Item /\ BackendMax \in Nat
      BY <1>1, DispatchAssumption
    <3>3. held2 = A \cup T \cup K
      BY <2>4
    <3> HIDE DEF A, T, f, held2
    <3>4. Cardinality(A \cup T \cup K) <= max
      BY <2>2, <2>5, <3>1, <3>2, ClaimFits
    <3> QED
      BY <2>3, <3>3, <3>4
  <2>6. CASE T = {}
    <3>1. K \subseteq Claimed
      BY DEF Claimed
    <3>2. A \subseteq OnBackend(st, Live)
      <4> SUFFICES ASSUME NEW i \in Item, RunOf[i] \in Live', st'[i] \in Active
                   PROVE  RunOf[i] \in Live /\ st[i] \in Active
        BY DEF OnBackend
      <4>1. st[i] \in Active /\ phase[RunOf[i]] # "deleted"
        BY <2>1 DEF ChoosesFor
      <4>2. phase[RunOf[i]] # "new"
        BY <4>1 DEF KnownInv, ActiveKnown
      <4>3. RunOf[i] \in Run /\ phase[RunOf[i]] \in {"new", "live", "deleted"}
        BY RunModelAssumption DEF KnownInv, TypeOK
      <4> QED
        BY <4>1, <4>2, <4>3 DEF Live
    <3>3. held2 \subseteq held
      BY <3>1, <3>2, <2>4, <2>6
    <3> QED
      BY <2>3, <3>3, <1>6
  <2> QED
    BY <2>5, <2>6
<1> QED
  BY <1>7, <1>8

LEMMA RunStep ==
    ASSUME KnownInv, KnownInv', RunInv, Shrinks \/ Chooses
    PROVE  RunInv'
<1> SUFFICES ASSUME NEW r \in Run, RunMax[r] # NoMax
             PROVE  /\ \A q \in Coro : Cardinality(co'[q].todo \cap ItemsOf(r)) <= RunMax[r]
                    /\ Cardinality(With(st', r, Active) \cup (Claimed' \cap ItemsOf(r)))
                          <= Cardinality(Coro) * RunMax[r]
  BY DEF RunInv, Claimed
<1> DEFINE mine_(S) == S \cap ItemsOf(r)
           held == With(st, r, Active) \cup mine_(Claimed)
           held2 == With(st', r, Active) \cup mine_(Claimed')
           max == Cardinality(Coro) * RunMax[r]
<1>1. /\ \A q \in Coro : co[q].todo \in SUBSET Item /\ co'[q].todo \in SUBSET Item
      /\ With(st, r, Active) \in SUBSET ItemsOf(r) /\ With(st', r, Active) \in SUBSET ItemsOf(r)
      /\ ItemsOf(r) \in SUBSET Item
  BY DEF KnownInv, TypeOK, Coroutine, With, ItemsOf
<1>2. Live' \in SUBSET Run /\ RunMax[r] \in Nat
  BY DispatchAssumption DEF Live
<1>3. /\ held \in SUBSET Item /\ held2 \in SUBSET Item /\ max \in Int
      /\ Cardinality(held) \in Nat /\ Cardinality(held2) \in Nat
  <2>1. Cardinality(Coro) \in Nat
    BY DispatchAssumption, FS_CardinalityType
  <2>2. held \in SUBSET Item /\ held2 \in SUBSET Item
    BY <1>1
  <2> QED
    BY <2>1, <2>2, <1>2, ItemsFinite
<1>4. /\ \A q \in Coro : Cardinality(mine_(co[q].todo)) <= RunMax[r]
      /\ Cardinality(held) <= max
  BY DEF RunInv
<1>goal. SUFFICES /\ \A q \in Coro : Cardinality(mine_(co'[q].todo)) <= RunMax[r]
                  /\ Cardinality(held2) <= max
  OBVIOUS
<1>5. ASSUME NEW q \in Coro, co'[q].todo \subseteq co[q].todo
      PROVE  Cardinality(mine_(co'[q].todo)) <= RunMax[r]
  <2>1. /\ mine_(co'[q].todo) \in SUBSET Item /\ mine_(co[q].todo) \in SUBSET Item
        /\ mine_(co'[q].todo) \subseteq mine_(co[q].todo)
    BY <1>1, <1>5
  <2>2. /\ Cardinality(mine_(co'[q].todo)) <= Cardinality(mine_(co[q].todo))
        /\ Cardinality(mine_(co[q].todo)) \in Nat /\ Cardinality(mine_(co'[q].todo)) \in Nat
    BY <2>1, UnionCard
  <2> HIDE DEF mine_
  <2> QED
    BY <2>2, <1>2, <1>4
<1>6. ASSUME held2 \subseteq held PROVE Cardinality(held2) <= max
  <2>1. Cardinality(held2) <= Cardinality(held)
    BY <1>3, <1>6, UnionCard
  <2> HIDE DEF held2, held, max
  <2> QED
    BY <2>1, <1>3, <1>4
<1>7. CASE Shrinks
  <2>1. Claimed' \subseteq Claimed
    BY <1>7 DEF Shrinks, Claimed
  <2>2. With(st', r, Active) \subseteq held
    BY <1>7 DEF Shrinks, With, ItemsOf
  <2> QED
    BY <2>1, <2>2, <1>5, <1>6, <1>7 DEF Shrinks
<1>8. CASE Chooses
  <2>1. PICK p \in Coro, x \in Run, fair \in BOOLEAN : ChoosesFor(p, x, fair)
    BY <1>8 DEF Chooses
  <2> DEFINE T == mine_(co'[p].todo)
             A == With(st', r, Active)
             f == [q \in Coro |-> mine_(co[q].todo)]
             K == UNION {f[q] : q \in Coro \ {p}}
  <2>2. /\ Cardinality(T) <= RunMax[r]
        /\ T # {} => Cardinality(A) + Cardinality(T) <= RunMax[r]
    <3>1. CASE x = r
      <4> DEFINE V == ToSubmit(st', Live', r, fair)
      <4>1. co'[p].todo = V
        BY <2>1, <3>1 DEF ChoosesFor
      <4>2. /\ V \in SUBSET ItemsOf(r)
            /\ Cardinality(V) <= RunMax[r]
            /\ V # {} => RunningCount(st', r) + Cardinality(V) <= RunMax[r]
        BY <1>2, ToSubmitFits
      <4>3. RunningCount(st', r) = Cardinality(A)
        BY DEF RunningCount
      <4> HIDE DEF V
      <4>4. T = V
        BY <4>1, <4>2
      <4> HIDE DEF A, T
      <4> QED
        BY <4>2, <4>3, <4>4
    <3>2. CASE x # r
      <4>1. co'[p].todo \in SUBSET ItemsOf(x)
        <5>1. co'[p].todo = ToSubmit(st', Live', x, fair)
          BY <2>1 DEF ChoosesFor
        <5>2. ToSubmit(st', Live', x, fair) \in SUBSET ItemsOf(x)
          BY <1>2, ToSubmitFits
        <5> QED
          BY <5>1, <5>2
      <4>2. T = {}
        BY <4>1, <3>2 DEF ItemsOf
      <4> HIDE DEF T
      <4> QED
        BY <4>2, <1>2, FS_EmptySet
    <3> QED
      BY <3>1, <3>2
  <2>3. \A q \in Coro : Cardinality(mine_(co'[q].todo)) <= RunMax[r]
    BY <2>1, <2>2, <1>5 DEF ChoosesFor
  <2>4. mine_(Claimed') = T \cup K
    BY <2>1 DEF Claimed, ChoosesFor
  <2>5. CASE T # {}
    <3>1. f \in [Coro -> SUBSET Item] /\ \A q \in Coro : Cardinality(f[q]) <= RunMax[r]
      BY <1>1, <1>4
    <3>2. A \in SUBSET Item /\ T \in SUBSET Item
      BY <1>1
    <3>3. held2 = A \cup T \cup K
      BY <2>4
    <3> HIDE DEF A, T, f, held2
    <3>4. Cardinality(A \cup T \cup K) <= max
      BY <2>2, <2>5, <3>1, <3>2, <1>2, ClaimFits
    <3> QED
      BY <2>3, <3>3, <3>4
  <2>6. CASE T = {}
    <3>1. K \subseteq mine_(Claimed)
      BY DEF Claimed
    <3>2. A \subseteq With(st, r, Active)
      BY <2>1, <1>1 DEF ChoosesFor, With
    <3>3. held2 \subseteq held
      BY <3>1, <3>2, <2>4, <2>6
    <3> QED
      BY <2>3, <3>3, <1>6
  <2> QED
    BY <2>5, <2>6
<1> QED
  BY <1>7, <1>8

LEMMA InitClaimsNothing ==
    ASSUME Init
    PROVE  KnownInv /\ CapInv /\ RunInv
<1>1. TypeOK
  BY TypeInit
<1>2. \A p \in Coro : co[p].todo = {} /\ co[p].op = "idle"
  BY DEF Init, Idle
<1>3. poll.queue = <<>> /\ \A i \in Item : st[i] = "pending"
  BY DEF Init, PollOff
<1>4. KnownInv
  BY <1>1, <1>2, <1>3 DEF KnownInv, ActiveKnown, CoKnown, QueueKnown, Active
<1>5. /\ Claimed = {} /\ OnBackend(st, Live) = {}
      /\ \A r : With(st, r, Active) = {}
  BY <1>2, <1>3 DEF Claimed, OnBackend, With, ItemsOf, Active
<1>6. Cardinality({}) = 0 /\ Cardinality(Coro) \in Nat
  BY FS_EmptySet, DispatchAssumption, FS_CardinalityType
<1>7. ASSUME NEW n \in Nat PROVE 0 <= Cardinality(Coro) * n
  BY <1>6, <1>7
<1>8. CapInv
  <2>1. OnBackend(st, Live) \cup Claimed = {}
    BY <1>5
  <2>2. /\ \A p \in Coro : Cardinality(co[p].todo) = 0
        /\ Cardinality(OnBackend(st, Live) \cup Claimed) = 0
    BY <2>1, <1>2, <1>6
  <2>3. 0 <= BackendMax /\ 0 <= Cardinality(Coro) * BackendMax
    BY <1>7, DispatchAssumption
  <2> QED
    BY <2>2, <2>3 DEF CapInv
<1>9. RunInv
  <2> SUFFICES ASSUME NEW r \in Run, RunMax[r] # NoMax
               PROVE  /\ \A p \in Coro : Cardinality(co[p].todo \cap ItemsOf(r)) <= RunMax[r]
                      /\ Cardinality(With(st, r, Active) \cup (Claimed \cap ItemsOf(r)))
                            <= Cardinality(Coro) * RunMax[r]
    BY DEF RunInv
  <2>1. RunMax[r] \in Nat
    BY DispatchAssumption
  <2>2. /\ \A p \in Coro : co[p].todo \cap ItemsOf(r) = {}
        /\ With(st, r, Active) \cup (Claimed \cap ItemsOf(r)) = {}
    BY <1>2, <1>5
  <2>3. /\ \A p \in Coro : Cardinality(co[p].todo \cap ItemsOf(r)) = 0
        /\ Cardinality(With(st, r, Active) \cup (Claimed \cap ItemsOf(r))) = 0
    BY <2>2, <1>6
  <2>4. 0 <= RunMax[r] /\ 0 <= Cardinality(Coro) * RunMax[r]
    BY <2>1, <1>7
  <2> QED
    BY <2>3, <2>4
<1> QED
  BY <1>4, <1>8, <1>9

(* What is claimed and what has a slot, together, stay within one cap for  *)
(* each coroutine.                                                         *)
THEOREM ClaimsBounded == Spec => [](KnownInv /\ CapInv /\ RunInv)
<1> DEFINE Inv == KnownInv /\ CapInv /\ RunInv
<1>1. Init => Inv
  BY InitClaimsNothing
<1>2. Inv /\ [Next]_vars => Inv'
  <2> SUFFICES ASSUME KnownInv, CapInv, RunInv, [Next]_vars
               PROVE  KnownInv' /\ CapInv' /\ RunInv'
    OBVIOUS
  <2>1. KnownInv' /\ (Shrinks \/ Chooses)
    BY KnownStep
  <2>2. CapInv'
    BY <2>1, CapStep
  <2>3. RunInv'
    BY <2>1, RunStep
  <2> QED
    BY <2>1, <2>2, <2>3
<1> QED
  BY <1>1, <1>2, PTL DEF Spec

(* However many coroutines overlap, the items that hold a slot of the      *)
(* backend are at most its cap times the number of coroutines.             *)
THEOREM OvershootBounded == Spec => []BoundedOvershoot
<1>1. KnownInv /\ CapInv => BoundedOvershoot
  <2> SUFFICES ASSUME KnownInv, CapInv PROVE BoundedOvershoot
    OBVIOUS
  <2> DEFINE held == OnBackend(st, Live) \cup Claimed
             max == Cardinality(Coro) * BackendMax
  <2>1. OnBackend(st, Live) \in SUBSET Item /\ held \in SUBSET Item
    BY DEF OnBackend, Claimed, KnownInv, TypeOK, Coroutine
  <2>2. /\ Cardinality(OnBackend(st, Live)) <= Cardinality(held)
        /\ Cardinality(OnBackend(st, Live)) \in Nat /\ Cardinality(held) \in Nat
    BY <2>1, UnionCard
  <2>3. Cardinality(held) <= max
    BY DEF CapInv
  <2>4. max \in Int
    BY DispatchAssumption, FS_CardinalityType
  <2>5. Cardinality(OnBackend(st, Live)) <= max
    <3> HIDE DEF held, max
    <3> QED
      BY <2>2, <2>3, <2>4
  <2> QED
    BY <2>5 DEF BoundedOvershoot
<1> QED
  BY <1>1, ClaimsBounded, PTL

(* While requests and poll cycles follow each other, the backend's cap is  *)
(* kept ...                                                                *)
THEOREM SerialBackendCap ==
    ASSUME Cardinality(Coro) = 1
    PROVE  Spec => []BackendCap
<1>1. BoundedOvershoot => BackendCap
  BY DispatchAssumption DEF BoundedOvershoot, BackendCap
<1> QED
  BY <1>1, OvershootBounded, PTL

(* ... and so is the cap of every run.                                     *)
THEOREM SerialRunCap ==
    ASSUME Cardinality(Coro) = 1
    PROVE  Spec => []RunCap
<1>1. KnownInv /\ RunInv => RunCap
  <2> SUFFICES ASSUME KnownInv, RunInv, NEW r \in Run, RunMax[r] # NoMax
               PROVE  RunningCount(st, r) <= RunMax[r]
    BY DEF RunCap
  <2> DEFINE held == With(st, r, Active) \cup (Claimed \cap ItemsOf(r))
  <2>1. With(st, r, Active) \in SUBSET Item /\ held \in SUBSET Item
    BY DEF With, ItemsOf
  <2>2. /\ Cardinality(With(st, r, Active)) <= Cardinality(held)
        /\ Cardinality(With(st, r, Active)) \in Nat /\ Cardinality(held) \in Nat
    BY <2>1, UnionCard
  <2>3. Cardinality(held) <= Cardinality(Coro) * RunMax[r] /\ RunMax[r] \in Nat
    BY DispatchAssumption DEF RunInv
  <2>4. Cardinality(held) <= RunMax[r]
    BY <2>3
  <2> HIDE DEF held
  <2> QED
    BY <2>2, <2>3, <2>4 DEF RunningCount
<1> QED
  BY <1>1, ClaimsBounded, PTL

=============================================================================
