---------------------------- MODULE SerialProofs ----------------------------
(***************************************************************************)
(* Dispatch with one coroutine: requests and poll cycles follow each       *)
(* other, and none begins while another is suspended.                      *)
(*                                                                         *)
(* What a coroutine read before an await then still holds after it, and    *)
(* that is the inductive invariant: the items left in to_submit are still  *)
(* PENDING and their dependencies COMPLETED, the run process_run or        *)
(* cancel_run works for is still there, the runs queued in a pass too.     *)
(* From it follows that a job is submitted for a PENDING item only, which  *)
(* has none, that a rerun or a delete finds no job but one that a cancel   *)
(* has left alive, and that a verdict is not disturbed by what is still    *)
(* under way; only late rows correct what a timeout decided.  With two     *)
(* coroutines one submits what the other one has cancelled, rerun or       *)
(* submitted already.                                                      *)
(*                                                                         *)
(* That a poll cycle leaves no slot idle is about its last pass, and needs *)
(* to know at each of its steps which runs have been served (GreedyInv).   *)
(***************************************************************************)
EXTENDS DispatchProofs

(* A job an item names is tracked, unless a cancel has left it alive.      *)
OwnJobs == \A i \in Item : mine[i] => Tracked(i) \/ st[i] = "failed"

(* What the coroutine read before it was suspended still holds.            *)
Fresh(p) ==
    /\ co[p].op \in {"submitting", "hooks", "cancelling"} => co[p].run \in Live
    /\ co[p].op # "submitting" => co[p].todo = {}
    /\ \A i \in co[p].todo :
         RunOf[i] = co[p].run /\ st[i] = "pending" /\ DepsSatisfied(st, i)
    /\ co[p].op = "cancelling" =>
         /\ co[p].at \in Item /\ RunOf[co[p].at] = co[p].run
         /\ st[co[p].at] \in Active

(* The coroutine is the polling task as long as a cycle is under way.      *)
Paired(p) ==
    /\ co[p].caller = "poll" <=> poll.pass \notin {"off", "dead"}
    /\ co[p].op \in {"idle", "cancelling"} => co[p].caller # "poll"
    /\ co[p].op = "polling" => co[p].caller = "poll"
    /\ co[p].caller # "poll" => poll.queue = <<>>

QueueLive == \A k \in DOMAIN poll.queue : poll.queue[k] \in Live

SerialInv ==
    /\ KnownInv /\ OwnJobs /\ QueueLive
    /\ \A p \in Coro : Fresh(p) /\ Paired(p)

(* A late row fails an item that a timeout took for COMPLETED.             *)
Corrected(i, status) == i \in unsure /\ st[i] = "completed" /\ status = "failed"

(* How the status of an item may change ...                                *)
Moves(i) ==
    \/ st'[i] = st[i]
    \/ st[i] = "pending" /\ st'[i] \in TerminalFailure
    \/ st[i] = "pending" /\ DepsSatisfied(st, i) /\ st'[i] \in {"submitted", "completed"}
    \/ st[i] \in Active
    \/ Corrected(i, st'[i])

(* ... unless its run begins anew.                                         *)
Restarts ==
    \E r \in Run :
        /\ RunStatus(st, r) \in TerminalRun
        /\ \A i \in Item : st'[i] = IF RunOf[i] = r THEN "pending" ELSE st[i]

(* What becomes of the jobs of an item.                                    *)
Keeps(i) ==
    /\ mine'[i] => mine[i] \/ st'[i] = "submitted"
    /\ Tracked(i) =>
          \/ mine'[i] /\ st'[i] \in Active
          \/ ~mine'[i] /\ lost'[i] = lost[i]
          \/ BeingCancelled(i) /\ st'[i] = "failed"
    /\ lost'[i] > lost[i] =>
          \/ BeingSubmitted(i) /\ st'[i] # "submitted"
          \/ mine[i] /\ st[i] = "failed"

LEMMA OneCoroutine ==
    ASSUME Cardinality(Coro) = 1
    PROVE  \A p, q \in Coro : p = q
  BY DispatchAssumption, FS_Singleton

-----------------------------------------------------------------------------
(* Verdicts.                                                               *)

(* In a run that reports a verdict no item holds a slot, and none can be   *)
(* submitted any more.                                                     *)
LEMMA TerminalIsQuiet ==
    ASSUME NEW s, NEW r, RunStatus(s, r) \in TerminalRun, NEW i \in ItemsOf(r)
    PROVE  /\ s[i] \notin Active
           /\ s[i] \in TerminalItem \cup {"pending"}
           /\ s[i] = "pending" => FailedDeps(s, i) # {} /\ ~DepsSatisfied(s, i)
<1>1. \/ With(s, r, TerminalItem) = ItemsOf(r)
      \/ /\ With(s, r, TerminalItem \cup {"pending"}) = ItemsOf(r)
         /\ \A j \in With(s, r, {"pending"}) : FailedDeps(s, j) # {}
      \/ With(s, r, {"completed"}) = ItemsOf(r)
  BY DEF RunStatus, TerminalRun
<1>2. s[i] = "pending" => FailedDeps(s, i) # {}
  BY <1>1 DEF With, TerminalItem, TerminalFailure
<1>3. s[i] \in TerminalItem \cup {"pending"}
  BY <1>1 DEF With, TerminalItem, TerminalFailure
<1>4. FailedDeps(s, i) # {} => ~DepsSatisfied(s, i)
  BY DEF FailedDeps, DepsSatisfied, TerminalFailure
<1> QED
  BY <1>2, <1>3, <1>4 DEF Active, TerminalItem, TerminalFailure

(* A run whose items are all terminal is FAILED when one of them is.        *)
LEMMA FailedVerdict ==
    ASSUME NEW s, NEW r, With(s, r, TerminalFailure) # {},
           With(s, r, TerminalItem) = ItemsOf(r)
    PROVE  RunStatus(s, r) = "failed"
<1>1. ItemsOf(r) # {} /\ With(s, r, {"completed"}) # ItemsOf(r)
  BY DEF With, TerminalFailure
<1>2. With(s, r, Active) = {}
  BY DEF With, Active, TerminalItem, TerminalFailure
<1> QED
  BY <1>1, <1>2 DEF RunStatus

(* A verdict stays when items fail, unless it is COMPLETED.                *)
LEMMA VerdictKept ==
    ASSUME NEW s, NEW t, NEW r, RunStatus(s, r) \in TerminalRun,
           \A i \in ItemsOf(r) :
             \/ t[i] = s[i]
             \/ s[i] = "pending" /\ t[i] \in TerminalFailure
             \/ RunStatus(s, r) = "failed" /\ s[i] = "completed" /\ t[i] = "failed"
    PROVE  RunStatus(t, r) = RunStatus(s, r)
<1>1. CASE RunStatus(s, r) = "completed"
  <2>1. \A i \in ItemsOf(r) : s[i] = "completed"
    BY <1>1 DEF RunStatus, With
  <2>2. \A i \in ItemsOf(r) : t[i] = "completed"
    BY <1>1, <2>1
  <2>3. With(t, r, TerminalFailure) = {} /\ With(t, r, {"completed"}) = ItemsOf(r)
    BY <2>2 DEF With, TerminalFailure
  <2> QED
    BY <2>3, <1>1 DEF RunStatus
<1>2. CASE RunStatus(s, r) = "failed"
  <2>1. /\ ItemsOf(r) # {} /\ With(s, r, TerminalFailure) # {}
        /\ \/ With(s, r, TerminalItem) = ItemsOf(r)
           \/ /\ With(s, r, TerminalItem \cup {"pending"}) = ItemsOf(r)
              /\ \A j \in With(s, r, {"pending"}) : FailedDeps(s, j) # {}
    <3>1. ItemsOf(r) # {}
      <4> SUFFICES ASSUME ItemsOf(r) = {} PROVE RunStatus(s, r) = "completed"
        BY <1>2
      <4>1. \A S : With(s, r, S) = {}
        BY DEF With
      <4> QED
        BY <4>1 DEF RunStatus
    <3>2. With(s, r, TerminalFailure) # {}
      BY <1>2, <3>1 DEF RunStatus
    <3> QED
      BY <1>2, <3>1, <3>2 DEF RunStatus
  <2>2. With(t, r, TerminalFailure) # {}
    <3>1. PICK i \in ItemsOf(r) : s[i] \in TerminalFailure
      BY <2>1 DEF With
    <3>2. t[i] \in TerminalFailure
      BY <3>1 DEF TerminalFailure
    <3> QED
      BY <3>2 DEF With
  <2>3. With(t, r, TerminalItem \cup {"pending"}) = ItemsOf(r)
    BY <2>1 DEF With, TerminalItem, TerminalFailure
  <2>4. \A j \in With(t, r, {"pending"}) : FailedDeps(t, j) # {}
    <3> SUFFICES ASSUME NEW j \in ItemsOf(r), t[j] = "pending" PROVE FailedDeps(t, j) # {}
      BY DEF With
    <3>1. s[j] = "pending"
      BY DEF TerminalFailure
    <3>2. FailedDeps(s, j) # {}
      BY <3>1, TerminalIsQuiet
    <3>3. PICK d \in Deps[j] : s[d] \in TerminalFailure
      BY <3>2 DEF FailedDeps
    <3>4. d \in ItemsOf(r)
      BY <3>3, RunModelAssumption DEF ItemsOf
    <3>5. t[d] \in TerminalFailure
      BY <3>3, <3>4 DEF TerminalFailure
    <3> QED
      BY <3>3, <3>5 DEF FailedDeps
  <2> QED
    BY <1>2, <2>1, <2>2, <2>3, <2>4 DEF RunStatus
<1> QED
  BY <1>1, <1>2 DEF TerminalRun

-----------------------------------------------------------------------------
(* process_run.                                                            *)

LEMMA CascadeLocal ==
    ASSUME NEW s \in [Item -> ItemStatus], NEW r, NEW i \in Item
    PROVE  \/ Cascade(s, r)[i] = s[i]
           \/ s[i] = "pending" /\ Cascade(s, r)[i] = "dep_failed" /\ RunOf[i] = r
  BY DEF Cascade, Doomed, With, ItemsOf

(* Nothing is marked in a run in which nothing has failed.                 *)
LEMMA CascadeOfFresh ==
    ASSUME NEW s \in [Item -> ItemStatus], NEW r,
           \A i \in ItemsOf(r) : s[i] \notin TerminalFailure
    PROVE  Cascade(s, r) = s
<1>1. ASSUME NEW i \in ItemsOf(r) PROVE FailedDeps(s, i) = {}
  <2>1. \A d \in Deps[i] : d \in ItemsOf(r)
    BY RunModelAssumption DEF ItemsOf
  <2> QED
    BY <2>1 DEF FailedDeps
<1>2. ClosedUnderFailure(s, r, {})
  BY <1>1 DEF ClosedUnderFailure, With
<1>3. Doomed(s, r) = {}
  BY <1>2 DEF Doomed
<1> QED
  BY <1>3 DEF Cascade

(* process_run up to its first await: what it read is what it wrote.       *)
LEMMA ProcessRunFresh ==
    ASSUME TypeOK, NEW p \in Coro, \A q \in Coro : q = p, NEW caller \in Caller,
           NEW s \in [Item -> ItemStatus], NEW r \in Run, r \in Live', NEW lv,
           NEW fair \in BOOLEAN, ProcessRun(p, caller, s, lv, r, fair),
           \A i \in Item : mine'[i] =>
             (s[i] \in Active /\ RunOf[i] \in Live') \/ s[i] = "failed"
    PROVE  /\ OwnJobs'
           /\ \A q \in Coro : Fresh(q)'
           /\ \A i \in Item : \/ st'[i] = s[i]
                              \/ s[i] = "pending" /\ st'[i] = "dep_failed" /\ RunOf[i] = r
           /\ co'[p].caller = "poll" <=> caller = "poll"
           /\ co'[p].op \in {"submitting", "polling", "idle"}
           /\ co'[p].op = "polling" => caller = "poll"
           /\ co'[p].op = "idle" => caller # "poll"
           /\ co'[p].op = "submitting" => co'[p].run = r /\ co'[p].fair = fair
<1> DEFINE T == ToSubmit(st', lv, r, fair)
<1>1. st' = Cascade(s, r)
  BY DEF ProcessRun
<1>2. co' = [co EXCEPT ![p] =
               IF T = {} THEN Returned(caller)
               ELSE Suspended(caller, "submitting", r, fair, T, FALSE)]
  BY <1>1 DEF ProcessRun
<1>3. \A i \in T : i \in Item /\ RunOf[i] = r /\ st'[i] = "pending" /\ DepsSatisfied(st', i)
  BY DEF ToSubmit, Prefix, Ready, With, ItemsOf
<1> HIDE DEF T
<1>4. \A i \in Item : \/ st'[i] = s[i]
                      \/ s[i] = "pending" /\ st'[i] = "dep_failed" /\ RunOf[i] = r
  BY <1>1, CascadeLocal
<1>5. OwnJobs'
  BY <1>4 DEF OwnJobs, Tracked, Active
<1>6. co \in [Coro -> Coroutine]
  BY DEF TypeOK
<1>7. CASE T = {}
  <2>1. co'[p] = Returned(caller)
    BY <1>2, <1>6, <1>7
  <2>2. /\ co'[p].todo = {}
        /\ \/ caller = "poll" /\ co'[p].op = "polling" /\ co'[p].caller = "poll"
           \/ caller # "poll" /\ co'[p].op = "idle" /\ co'[p].caller = "none"
    BY <2>1 DEF Returned, Idle
  <2> QED
    BY <2>2, <1>4, <1>5 DEF Fresh
<1>8. CASE T # {}
  <2>1. co'[p] = Suspended(caller, "submitting", r, fair, T, FALSE)
    BY <1>2, <1>6, <1>8
  <2>2. /\ co'[p].todo = T /\ co'[p].run = r /\ co'[p].op = "submitting"
        /\ co'[p].caller = caller /\ co'[p].fair = fair
    BY <2>1 DEF Suspended
  <2> QED
    BY <2>2, <1>3, <1>4, <1>5 DEF Fresh
<1> QED
  BY <1>7, <1>8

-----------------------------------------------------------------------------
(* A step.                                                                 *)

LEMMA QueueLiveStep ==
    ASSUME TypeOK, QueueLive, Live \subseteq Live',
           \/ poll' = poll
           \/ poll'.queue = <<>>
           \/ Advance /\ Len(poll.queue) > 0
           \/ \E pass, S : \E q \in Orders(S) : S \subseteq Live /\ BeginPass(pass, q)
    PROVE  QueueLive'
<1>1. poll.queue \in Seq(Run)
  BY DEF TypeOK, Cycle
<1>2. CASE poll' = poll
  BY <1>2 DEF QueueLive
<1>3. CASE poll'.queue = <<>>
  BY <1>3 DEF QueueLive
<1>4. CASE Advance /\ Len(poll.queue) > 0
  <2>1. poll'.queue = Tail(poll.queue)
    BY <1>4 DEF Advance, TypeOK, Cycle
  <2>2. \A k \in DOMAIN Tail(poll.queue) :
          k + 1 \in DOMAIN poll.queue /\ Tail(poll.queue)[k] = poll.queue[k + 1]
    BY <1>1, <1>4
  <2> QED
    BY <2>1, <2>2 DEF QueueLive
<1>5. ASSUME NEW pass, NEW S, NEW q \in Orders(S), S \subseteq Live, BeginPass(pass, q)
      PROVE  QueueLive'
  <2>1. poll'.queue = q
    BY <1>5 DEF BeginPass
  <2>2. \A k \in DOMAIN q : q[k] \in Live
    BY <1>5 DEF Orders
  <2> QED
    BY <2>1, <2>2 DEF QueueLive
<1> QED
  BY <1>2, <1>3, <1>4, <1>5

LEMMA HeadLive ==
    ASSUME TypeOK, QueueLive, NEW p, NEW pass, Visiting(p, pass)
    PROVE  Head(poll.queue) \in Live /\ Head(poll.queue) \in Run
<1>1. poll.queue \in Seq(Run) /\ Len(poll.queue) > 0
  BY DEF TypeOK, Cycle, Visiting
<1>2. 1 \in DOMAIN poll.queue /\ Head(poll.queue) = poll.queue[1]
  BY <1>1
<1> QED
  BY <1>2 DEF QueueLive, Live

LEMMA ContinueFresh ==
    ASSUME SerialInv, NEW p \in Coro, \A q \in Coro : q = p, NEW todo, NEW hit,
           todo \subseteq co[p].todo, Submitting(p), Continue(p, todo, hit),
           UNCHANGED <<phase, poll>>,
           \A i \in todo : st'[i] = st[i],
           \A i \in Item : st[i] = "completed" => st'[i] = "completed"
    PROVE  \A q \in Coro : Fresh(q)' /\ Paired(q)'
<1> DEFINE c == IF todo # {}
                THEN Suspended(co[p].caller, "submitting", co[p].run, co[p].fair, todo, hit)
                ELSE IF hit
                THEN Suspended(co[p].caller, "hooks", co[p].run, co[p].fair, {}, hit)
                ELSE Returned(co[p].caller)
<1>1. co'[p] = c
  BY DEF Continue, SerialInv, KnownInv, TypeOK
<1>2. /\ c.todo = todo
      /\ c.op \in {"submitting", "hooks"} => c.run = co[p].run
      /\ c.op # "cancelling"
      /\ c.todo # {} => c.op = "submitting"
      /\ c.caller = "poll" <=> co[p].caller = "poll"
      /\ c.op = "idle" => c.caller # "poll"
      /\ c.op = "polling" => c.caller = "poll"
  BY DEF Suspended, Returned, Idle
<1>3. Fresh(p) /\ Paired(p) /\ co[p].op = "submitting" /\ Live' = Live
  BY DEF SerialInv, Submitting, Live
<1> HIDE DEF c
<1>4. ASSUME NEW i \in todo
      PROVE  RunOf[i] = c.run /\ st'[i] = "pending" /\ DepsSatisfied(st', i)
  <2>1. i \in Item /\ RunOf[i] = co[p].run /\ st[i] = "pending" /\ DepsSatisfied(st, i)
    BY <1>3 DEF Fresh, SerialInv, KnownInv, TypeOK, Coroutine
  <2>2. \A d \in Deps[i] : d \in Item
    BY <2>1, RunModelAssumption
  <2> QED
    BY <2>1, <2>2, <1>2 DEF DepsSatisfied
<1>5. Fresh(p)'
  BY <1>1, <1>2, <1>3, <1>4 DEF Fresh
<1>6. Paired(p)'
  BY <1>1, <1>2, <1>3 DEF Paired
<1> QED
  BY <1>5, <1>6

LEMMA CancelFromFresh ==
    ASSUME SerialInv, NEW p \in Coro, \A q \in Coro : q = p,
           NEW s \in [Item -> ItemStatus], NEW r \in Live, NEW k, CancelFrom(p, s, r, k),
           \A i \in Item : mine[i] =>
             (s[i] \in Active /\ RunOf[i] \in Live) \/ s[i] = "failed",
           co[p].op \in {"idle", "cancelling"}, UNCHANGED <<phase, poll>>
    PROVE  /\ OwnJobs'
           /\ \A q \in Coro : Fresh(q)' /\ Paired(q)'
           /\ \A i \in Item : st'[i] = s[i] \/ (s[i] = "pending" /\ st'[i] = "failed")
           /\ \A i \in Item : mine'[i] => mine[i]
<1> DEFINE ahead == {i \in With(s, r, Cancellable) : i >= k}
           stop == IF ahead = {} THEN NumItems + 1 ELSE First(ahead)
           waits == [Idle EXCEPT !.caller = "request", !.op = "cancelling",
                                 !.run = r, !.at = stop]
<1>1. \A i \in Item : st'[i] = s[i] \/ (s[i] = "pending" /\ st'[i] = "failed")
  <2> DEFINE passed(i) == i \in With(s, r, {"pending"}) /\ k <= i /\ i < stop
  <2>1. st' = [i \in Item |-> IF passed(i) THEN "failed" ELSE s[i]]
    BY DEF CancelFrom
  <2>2. \A i \in Item : passed(i) => s[i] = "pending"
    BY DEF With
  <2> HIDE DEF passed
  <2> QED
    BY <2>1, <2>2
<1>2. \/ /\ ahead # {} /\ co' = [co EXCEPT ![p] = waits]
         /\ mine' = [mine EXCEPT ![stop] = FALSE] \/ UNCHANGED mine
      \/ co' = [co EXCEPT ![p] = Idle] /\ UNCHANGED mine
  BY DEF CancelFrom
<1>3. ahead # {} => stop \in Item /\ RunOf[stop] = r /\ s[stop] \in Active
  <2>1. ahead \in SUBSET Item
    BY DEF With, ItemsOf
  <2>2. ahead # {} => stop \in ahead /\ stop \in Item
    BY <2>1, FirstIn
  <2> QED
    BY <2>2 DEF With, ItemsOf, Cancellable, Active
<1>4. /\ waits.todo = {} /\ waits.op = "cancelling" /\ waits.run = r /\ waits.at = stop
      /\ waits.caller = "request"
      /\ Idle.todo = {} /\ Idle.op = "idle" /\ Idle.caller = "none"
  BY DEF Idle
<1> HIDE DEF ahead, stop, waits
<1>5. co \in [Coro -> Coroutine] /\ mine \in [Item -> BOOLEAN] /\ Live' = Live
  BY DEF SerialInv, KnownInv, TypeOK, Live
<1>6. Paired(p) /\ co[p].caller # "poll"
  BY DEF SerialInv, Paired
<1>7. OwnJobs' /\ \A i \in Item : mine'[i] => mine[i]
  <2>1. \A i \in Item : mine'[i] => mine[i]
    BY <1>2, <1>5
  <2>2. \A i \in Item : s[i] \in Active \cup {"failed"} => st'[i] = s[i]
    BY <1>1 DEF Active
  <2> QED
    BY <2>1, <2>2, <1>5 DEF OwnJobs, Tracked
<1>8. CASE ahead # {} /\ co' = [co EXCEPT ![p] = waits]
  <2>1. co'[p] = waits
    BY <1>3, <1>5, <1>8
  <2>2. st'[stop] \in Active
    BY <1>1, <1>3, <1>8 DEF Active
  <2>3. Fresh(p)'
    BY <2>1, <2>2, <1>3, <1>4, <1>5, <1>8 DEF Fresh
  <2>4. Paired(p)'
    BY <2>1, <1>4, <1>6 DEF Paired
  <2> QED
    BY <2>3, <2>4, <1>1, <1>7
<1>9. CASE co' = [co EXCEPT ![p] = Idle] /\ UNCHANGED mine
  <2>1. co'[p] = Idle
    BY <1>5, <1>9
  <2>2. Fresh(p)'
    BY <2>1, <1>4 DEF Fresh
  <2>3. Paired(p)'
    BY <2>1, <1>4, <1>6 DEF Paired
  <2> QED
    BY <2>2, <2>3, <1>1, <1>7
<1> QED
  BY <1>2, <1>8, <1>9

(* A step that ends no job and submits none.                               *)
LEMMA JobsStay ==
    ASSUME SerialInv, UNCHANGED <<mine, lost>>,
           \A i \in Item : mine[i] => st'[i] \in Active \cup {st[i]}
    PROVE  \A i \in Item : Keeps(i)
<1> SUFFICES ASSUME NEW i \in Item PROVE Keeps(i)
  OBVIOUS
<1>1. lost[i] \in Int /\ lost' = lost
  BY DEF SerialInv, KnownInv, TypeOK
<1>2. ~(lost'[i] > lost[i])
  BY <1>1
<1> QED
  BY <1>2 DEF Keeps, Tracked

(* A step that calls process_run with the statuses s.                      *)
LEMMA ProcessRunSerial ==
    ASSUME SerialInv, NEW p \in Coro, \A q \in Coro : q = p, NEW caller \in Caller,
           NEW s \in [Item -> ItemStatus], NEW r \in Run, r \in Live', NEW lv,
           NEW fair \in BOOLEAN, ProcessRun(p, caller, s, lv, r, fair),
           \A i \in Item : mine[i] => s[i] \in Active \cup {st[i]},
           \A i \in Item : s[i] = st[i] \/ st[i] \in Active \/ Corrected(i, s[i]),
           UNCHANGED <<mine, lost>>, Live \subseteq Live', QueueLive',
           (caller = "poll") <=> poll'.pass \notin {"off", "dead"},
           caller = "poll" \/ poll'.queue = <<>>
    PROVE  /\ OwnJobs' /\ QueueLive'
           /\ \A q \in Coro : Fresh(q)' /\ Paired(q)'
           /\ \A i \in Item : Moves(i) /\ Keeps(i)
<1>own. \A i \in Item : mine'[i] =>
          (s[i] \in Active /\ RunOf[i] \in Live') \/ s[i] = "failed"
  BY DEF SerialInv, OwnJobs, Tracked, Corrected, Active
<1>1. /\ OwnJobs'
      /\ \A q \in Coro : Fresh(q)'
      /\ \A i \in Item : \/ st'[i] = s[i]
                         \/ s[i] = "pending" /\ st'[i] = "dep_failed" /\ RunOf[i] = r
      /\ co'[p].caller = "poll" <=> caller = "poll"
      /\ co'[p].op \in {"submitting", "polling", "idle"}
      /\ co'[p].op = "polling" => caller = "poll"
      /\ co'[p].op = "idle" => caller # "poll"
  BY <1>own, ProcessRunFresh DEF SerialInv, KnownInv
<1>2. Paired(p)'
  BY <1>1 DEF Paired
<1>3. \A i \in Item : Moves(i)
  BY <1>1 DEF Moves, Corrected, TerminalFailure
<1>4. \A i \in Item : mine[i] => st'[i] \in Active \cup {st[i]}
  BY <1>1 DEF SerialInv, OwnJobs, Tracked, Active
<1> QED
  BY <1>1, <1>2, <1>3, <1>4, JobsStay

LEMMA SerialStep ==
    ASSUME Cardinality(Coro) = 1, SerialInv, [Next]_vars
    PROVE  /\ SerialInv' /\ ((\A i \in Item : Moves(i)) \/ Restarts)
           /\ \A i \in Item : Keeps(i)
<1> DEFINE Goal == /\ OwnJobs' /\ QueueLive'
                   /\ \A q \in Coro : Fresh(q)' /\ Paired(q)'
                   /\ \A i \in Item : Keeps(i)
                   /\ (\A i \in Item : Moves(i)) \/ Restarts
<1>one. ASSUME NEW p \in Coro PROVE \A q \in Coro : q = p
  BY OneCoroutine
<1>ty. /\ TypeOK /\ co \in [Coro -> Coroutine] /\ mine \in [Item -> BOOLEAN]
       /\ st \in [Item -> ItemStatus] /\ lost \in [Item -> 0 .. MaxLost]
       /\ poll \in Cycle
  BY DEF SerialInv, KnownInv, TypeOK
<1>inv. /\ OwnJobs /\ QueueLive
        /\ \A p \in Coro : Fresh(p) /\ Paired(p)
  BY DEF SerialInv
<1>act. /\ {"submitted", "running", "settling"} \subseteq Active
        /\ {"pending", "completed", "failed", "dep_failed"} \cap Active = {}
        /\ {"failed", "dep_failed"} = TerminalFailure
  BY DEF Active, TerminalFailure
<1>items. {"pending", "submitted", "running", "settling", "completed", "failed"}
             \subseteq ItemStatus
  BY DEF ItemStatus, Status
<1>live. ASSUME UNCHANGED phase PROVE Live' = Live
  BY <1>live DEF Live
<1>sub. ASSUME NEW p \in Coro, Submitting(p)
        PROVE  /\ co[p].run \in Live
               /\ \A i \in co[p].todo : /\ i \in Item /\ RunOf[i] = co[p].run
                                        /\ st[i] = "pending" /\ DepsSatisfied(st, i)
                                        /\ ~mine[i]
               /\ First(co[p].todo) \in co[p].todo
  <2>1. co[p].op = "submitting" /\ co[p].todo \in SUBSET Item
    BY <1>sub, <1>ty DEF Submitting, Coroutine
  <2>2. co[p].todo # {}
    BY <2>1 DEF SerialInv, KnownInv, CoKnown
  <2>3. First(co[p].todo) \in co[p].todo
    BY <2>1, <2>2, FirstIn
  <2>4. Fresh(p)
    BY <1>inv
  <2> QED
    BY <2>1, <2>3, <2>4, <1>inv, <1>act DEF Fresh, OwnJobs, Tracked
<1>2. ASSUME NEW p \in Coro, SubmitAccepted(p) PROVE Goal
  <2> DEFINE i == First(co[p].todo)
  <2>1. /\ Submitting(p) /\ UNCHANGED <<phase, poll>>
        /\ Continue(p, co[p].todo \ {i}, co[p].hit)
        /\ st' = [st EXCEPT ![i] = "submitted"]
        /\ mine' = [mine EXCEPT ![i] = TRUE]
        /\ lost' = IF mine[i] THEN [lost EXCEPT ![i] = @ + 1] ELSE lost
    BY <1>2 DEF SubmitAccepted
  <2>2. /\ i \in co[p].todo /\ i \in Item /\ RunOf[i] \in Live
        /\ st[i] = "pending" /\ DepsSatisfied(st, i) /\ ~mine[i]
    BY <2>1, <1>sub
  <2> HIDE DEF i
  <2>3. Live' = Live /\ lost' = lost
    BY <2>1, <2>2, <1>live
  <2>4. OwnJobs'
    BY <2>1, <2>2, <2>3, <1>ty, <1>inv, <1>act DEF OwnJobs, Tracked
  <2>5. QueueLive' /\ \A j \in Item : Keeps(j)
    <3>1. QueueLive'
      BY <2>1, <2>3, <1>inv DEF QueueLive
    <3>2. ASSUME NEW j \in Item PROVE Keeps(j)
      <4>1. ~(lost'[j] > lost[j])
        BY <2>3, <1>ty
      <4> QED
        BY <4>1, <2>1, <2>2, <1>ty DEF Keeps, Tracked
    <3> QED
      BY <3>1, <3>2
  <2>6. \A j \in Item : Moves(j)
    BY <2>1, <2>2, <1>ty DEF Moves
  <2>7. /\ \A j \in co[p].todo \ {i} : st'[j] = st[j]
        /\ \A j \in Item : st[j] = "completed" => st'[j] = "completed"
    BY <2>1, <2>2, <1>ty
  <2>8. \A q \in Coro : Fresh(q)' /\ Paired(q)'
    BY <2>1, <2>7, <1>one, ContinueFresh
  <2> QED
    BY <2>4, <2>5, <2>6, <2>8
<1>3. ASSUME NEW p \in Coro, SubmitCached(p) PROVE Goal
  <2> DEFINE i == First(co[p].todo)
  <2>1. /\ Submitting(p) /\ UNCHANGED <<phase, mine, lost, poll>>
        /\ Continue(p, co[p].todo \ {i}, TRUE)
        /\ st' = [st EXCEPT ![i] = "completed"]
    BY <1>3 DEF SubmitCached
  <2>2. /\ i \in co[p].todo /\ i \in Item /\ st[i] = "pending" /\ DepsSatisfied(st, i)
        /\ ~mine[i]
    BY <2>1, <1>sub
  <2> HIDE DEF i
  <2>3. Live' = Live
    BY <2>1, <1>live
  <2>4. OwnJobs' /\ QueueLive'
    BY <2>1, <2>2, <2>3, <1>ty, <1>inv DEF OwnJobs, Tracked, QueueLive
  <2>5. \A j \in Item : Keeps(j)
    BY <2>1, <2>2, <1>ty, JobsStay
  <2>6. \A j \in Item : Moves(j)
    BY <2>1, <2>2, <1>ty DEF Moves
  <2>7. /\ \A j \in co[p].todo \ {i} : st'[j] = st[j]
        /\ \A j \in Item : st[j] = "completed" => st'[j] = "completed"
    BY <2>1, <2>2, <1>ty
  <2>8. \A q \in Coro : Fresh(q)' /\ Paired(q)'
    BY <2>1, <2>7, <1>one, ContinueFresh
  <2> QED
    BY <2>4, <2>5, <2>6, <2>8
<1>ack. ASSUME NEW p \in Coro, Submitting(p), MayLoseAck(First(co[p].todo)), UNCHANGED mine,
               \A i \in Item : mine[i] => st'[i] = st[i],
               st'[First(co[p].todo)] # "submitted"
        PROVE  \A i \in Item : Keeps(i)
  <2> SUFFICES ASSUME NEW i \in Item PROVE Keeps(i)
    OBVIOUS
  <2>1. First(co[p].todo) \in Item
    BY <1>ack, <1>sub
  <2>2. CASE i = First(co[p].todo)
    <3>1. BeingSubmitted(i)
      BY <2>2, <1>ack DEF BeingSubmitted, Submitting
    <3> QED
      BY <3>1, <2>2, <1>ack DEF Keeps, Tracked
  <2>3. CASE i # First(co[p].todo)
    <3>1. lost'[i] = lost[i] /\ ~(lost'[i] > lost[i])
      BY <2>1, <2>3, <1>ack, <1>ty DEF MayLoseAck
    <3> QED
      BY <3>1, <1>ack DEF Keeps, Tracked
  <2> QED
    BY <2>2, <2>3
<1>4. ASSUME NEW p \in Coro, SubmitRefused(p) PROVE Goal
  <2> DEFINE i == First(co[p].todo)
             halted == [st EXCEPT ![i] = "failed"]
  <2>1. /\ Submitting(p) /\ UNCHANGED <<phase, mine, poll>>
        /\ Continue(p, {}, co[p].hit) /\ MayLoseAck(i)
        /\ st' = [j \in Item |->
                    IF j \in With(halted, co[p].run, {"pending"}) THEN "failed" ELSE halted[j]]
    BY <1>4 DEF SubmitRefused
  <2>2. i \in Item /\ st[i] = "pending"
    BY <2>1, <1>sub
  <2>9. st'[i] = "failed"
    BY <2>1, <2>2, <1>ty DEF With
  <2>3. \A j \in Item : st'[j] = st[j] \/ (st[j] = "pending" /\ st'[j] = "failed")
    BY <2>1, <2>2, <1>ty DEF With
  <2> HIDE DEF halted
  <2>4. Live' = Live
    BY <2>1, <1>live
  <2>10. \A j \in Item : mine[j] => st'[j] = st[j]
    BY <2>3, <1>inv, <1>act DEF OwnJobs, Tracked
  <2>11. \A j \in Item : Keeps(j)
    BY <2>1, <2>9, <2>10, <1>ack
  <2> HIDE DEF i
  <2>5. OwnJobs' /\ QueueLive'
    BY <2>1, <2>4, <2>10, <1>inv DEF OwnJobs, Tracked, QueueLive
  <2>6. \A j \in Item : Moves(j)
    BY <2>3 DEF Moves, TerminalFailure
  <2>7. \A j \in Item : st[j] = "completed" => st'[j] = "completed"
    BY <2>3
  <2>8. \A q \in Coro : Fresh(q)' /\ Paired(q)'
    BY <2>1, <2>7, <1>one, ContinueFresh
  <2> QED
    BY <2>5, <2>6, <2>8, <2>11
<1>still. ASSUME UNCHANGED st PROVE \A i \in Item : Moves(i)
  BY <1>still DEF Moves
<1>same. ASSUME UNCHANGED <<phase, st, mine>> PROVE Live' = Live /\ OwnJobs'
  BY <1>same, <1>live, <1>inv DEF OwnJobs, Tracked
<1>ends. /\ Idle.todo = {} /\ Idle.op = "idle" /\ Idle.caller = "none"
         /\ Returned("poll").todo = {} /\ Returned("poll").op = "polling"
         /\ Returned("poll").caller = "poll"
         /\ PollOff.queue = <<>> /\ PollOff.pass = "off"
         /\ [PollOff EXCEPT !.pass = "dead"].queue = <<>>
         /\ [PollOff EXCEPT !.pass = "dead"].pass = "dead"
  BY DEF Idle, Returned, PollOff
<1>rest. ASSUME NEW p \in Coro,
                \/ /\ co' = [co EXCEPT ![p] = Idle]
                   /\ poll'.pass \in {"off", "dead"} /\ poll'.queue = <<>>
                \/ /\ co' = [co EXCEPT ![p] = Returned("poll")]
                   /\ poll'.pass \notin {"off", "dead"}
         PROVE  \A q \in Coro : Fresh(q)' /\ Paired(q)'
  <2>1. co'[p] = Idle \/ co'[p] = Returned("poll")
    BY <1>rest, <1>ty
  <2>2. co'[p].todo = {} /\ co'[p].op \in {"idle", "polling"}
    BY <2>1, <1>ends
  <2>3. Fresh(p)'
    BY <2>2 DEF Fresh
  <2>4. CASE co'[p] = Idle /\ poll'.pass \in {"off", "dead"} /\ poll'.queue = <<>>
    BY <2>4, <2>3, <1>ends, <1>one DEF Paired
  <2>5. CASE co'[p] = Returned("poll") /\ poll'.pass \notin {"off", "dead"}
    BY <2>5, <2>3, <1>ends, <1>one DEF Paired
  <2> QED
    BY <1>rest, <1>ty, <2>4, <2>5
<1>5. ASSUME NEW p \in Coro, SubmitRaises(p) PROVE Goal
  <2>1. UNCHANGED <<phase, st, mine>> /\ co[p].op = "submitting"
    BY <1>5 DEF SubmitRaises, Submitting
  <2>6. \A i \in Item : Keeps(i)
    <3>1. Submitting(p) /\ MayLoseAck(First(co[p].todo)) /\ st[First(co[p].todo)] = "pending"
      BY <1>5, <1>sub DEF SubmitRaises
    <3> QED
      BY <3>1, <2>1, <1>ack
  <2>2. Paired(p)
    BY <1>inv
  <2>3. CASE /\ co[p].caller = "request" /\ co' = [co EXCEPT ![p] = Idle] /\ UNCHANGED poll
    <3>1. poll'.pass \in {"off", "dead"} /\ poll'.queue = <<>>
      BY <2>2, <2>3 DEF Paired
    <3>2. QueueLive'
      BY <3>1 DEF QueueLive
    <3> QED
      BY <2>1, <2>6, <2>3, <3>1, <3>2, <1>rest, <1>still, <1>same
  <2>4. CASE /\ poll.pass = "resolve" /\ co' = [co EXCEPT ![p] = Returned("poll")]
             /\ poll' = [poll EXCEPT !.queue = <<>>, !.size = Cardinality(Live)]
    <3>1. poll'.pass = "resolve" /\ poll'.queue = <<>>
      BY <2>4, <1>ty DEF Cycle
    <3>2. QueueLive'
      BY <3>1 DEF QueueLive
    <3> QED
      BY <2>1, <2>6, <2>4, <3>1, <3>2, <1>rest, <1>still, <1>same
  <2>5. CASE co' = [co EXCEPT ![p] = Idle] /\ poll' = [PollOff EXCEPT !.pass = "dead"]
    <3>1. QueueLive'
      BY <2>5, <1>ends DEF QueueLive
    <3> QED
      BY <2>1, <2>6, <2>5, <3>1, <1>ends, <1>rest, <1>still, <1>same
  <2> QED
    BY <1>5, <2>3, <2>4, <2>5 DEF SubmitRaises
<1>6. ASSUME NEW p \in Coro, HooksReturn(p) PROVE Goal
  <2>1. /\ ProcessRun(p, co[p].caller, st, Live, co[p].run, co[p].fair)
        /\ UNCHANGED <<phase, mine, lost, poll>> /\ co[p].op = "hooks"
    BY <1>6 DEF HooksReturn
  <2>2. /\ co[p].caller \in Caller /\ co[p].fair \in BOOLEAN
        /\ co[p].run \in Live /\ co[p].run \in Run /\ Paired(p)
    BY <2>1, <1>ty, <1>inv DEF Coroutine, Fresh, Live
  <2>3. Live' = Live /\ QueueLive'
    BY <2>1, <1>live, <1>inv DEF QueueLive
  <2>4. /\ (co[p].caller = "poll") <=> poll'.pass \notin {"off", "dead"}
        /\ co[p].caller = "poll" \/ poll'.queue = <<>>
    BY <2>1, <2>2 DEF Paired
  <2>5. ASSUME NEW caller \in Caller, NEW r \in Run, NEW fair \in BOOLEAN, r \in Live,
               caller = co[p].caller, ProcessRun(p, caller, st, Live, r, fair)
        PROVE  Goal
    <3> HIDE DEF Goal
    <3>1. /\ OwnJobs' /\ QueueLive'
          /\ \A q \in Coro : Fresh(q)' /\ Paired(q)'
          /\ \A i \in Item : Moves(i) /\ Keeps(i)
      BY <2>1, <2>3, <2>4, <2>5, <1>one, <1>ty, ProcessRunSerial
    <3> QED
      BY <3>1 DEF Goal
  <2> HIDE DEF Goal
  <2> QED
    BY <2>1, <2>2, <2>5
<1>free. ASSUME NEW p \in Coro, Free(p)
         PROVE  /\ co[p].op = "idle" /\ co[p].caller # "poll"
                /\ poll.pass \in {"off", "dead"} /\ poll.queue = <<>>
  BY <1>free, <1>inv DEF Free, Paired
<1>7. ASSUME NEW p \in Coro, NEW r \in Run, Create(p, r) PROVE Goal
  <2>1. /\ phase[r] = "new" /\ phase' = [phase EXCEPT ![r] = "live"]
        /\ ProcessRun(p, "request", st, Live \cup {r}, r, TRUE)
        /\ UNCHANGED <<mine, lost, poll>> /\ Free(p)
    BY <1>7 DEF Create
  <2>2. Live' = Live \cup {r}
    <3>1. phase \in [Run -> {"new", "live", "deleted"}]
      BY DEF SerialInv, KnownInv, TypeOK
    <3> QED
      BY <2>1, <3>1 DEF Live
  <2>3. QueueLive'
    BY <2>1, <2>2, <1>inv, <1>free DEF QueueLive
  <2>4. "request" \in Caller
    BY DEF Caller
  <2> QED
    BY <2>1, <2>2, <2>3, <2>4, <1>free, <1>one, <1>ty, ProcessRunSerial
<1>8. ASSUME NEW p \in Coro, NEW r \in Run, Rerun(p, r) PROVE Goal
  <2> DEFINE s == [i \in Item |-> IF RunOf[i] = r THEN "pending" ELSE st[i]]
  <2>1. /\ r \in Live /\ RunStatus(st, r) \in TerminalRun
        /\ mine' = [i \in Item |-> mine[i] /\ RunOf[i] # r]
        /\ lost' = [i \in Item |-> IF RunOf[i] = r /\ mine[i] THEN lost[i] + 1 ELSE lost[i]]
        /\ ProcessRun(p, "request", s, Live, r, TRUE)
        /\ UNCHANGED <<phase, poll>> /\ Free(p)
    BY <1>8 DEF Rerun
  <2>2. \A i \in Item : RunOf[i] = r => st[i] \notin Active
    BY <2>1, TerminalIsQuiet DEF ItemsOf
  <2>3. s \in [Item -> ItemStatus] /\ \A i \in ItemsOf(r) : s[i] \notin TerminalFailure
    BY <1>ty, <1>items DEF ItemsOf, TerminalFailure
  <2>4. Live' = Live /\ QueueLive'
    BY <2>1, <1>live, <1>inv DEF QueueLive
  <2>5. \A i \in Item : mine'[i] =>
          (s[i] \in Active /\ RunOf[i] \in Live') \/ s[i] = "failed"
    BY <2>1, <2>4, <1>inv DEF OwnJobs, Tracked
  <2>6. /\ "request" \in Caller
        /\ \A i \in Item : s[i] = IF RunOf[i] = r THEN "pending" ELSE st[i]
    BY DEF Caller
  <2> HIDE DEF s
  <2>7. st' = s
    BY <2>1, <2>3, CascadeOfFresh DEF ProcessRun
  <2>8. Restarts
    BY <2>1, <2>6, <2>7 DEF Restarts
  <2>11. ASSUME NEW i \in Item PROVE Keeps(i)
    <3>1. lost[i] \in Int /\ ~(lost[i] > lost[i])
      BY <1>ty
    <3>2. CASE RunOf[i] = r
      <4>1. mine[i] => st[i] = "failed"
        BY <2>2, <3>2, <1>inv DEF OwnJobs, Tracked
      <4>2. lost'[i] > lost[i] => mine[i]
        BY <2>1, <3>1
      <4> QED
        BY <2>1, <2>2, <3>2, <4>1, <4>2 DEF Keeps, Tracked
    <3>3. CASE RunOf[i] # r
      <4>1. st'[i] = st[i] /\ mine'[i] = mine[i] /\ lost'[i] = lost[i]
        BY <2>1, <2>6, <2>7, <3>3, <1>ty
      <4> QED
        BY <3>1, <4>1 DEF Keeps, Tracked
    <3> QED
      BY <3>2, <3>3
  <2>9. /\ OwnJobs' /\ \A q \in Coro : Fresh(q)'
        /\ co'[p].caller # "poll" /\ co'[p].op # "polling"
    <3>1. ASSUME NEW caller \in Caller, caller = "request", NEW fair \in BOOLEAN,
                 ProcessRun(p, caller, s, Live, r, fair)
          PROVE  /\ OwnJobs' /\ \A q \in Coro : Fresh(q)'
                 /\ co'[p].caller # "poll" /\ co'[p].op # "polling"
      <4>1. caller # "poll" /\ r \in Live'
        BY <2>1, <2>4, <3>1
      <4>2. \A q \in Coro : q = p
        BY <1>one
      <4> QED
        BY <2>3, <2>5, <3>1, <4>1, <4>2, <1>ty, ProcessRunFresh
    <3> QED
      BY <3>1, <2>1, <2>6
  <2>10. Paired(p)'
    BY <2>1, <2>9, <1>free DEF Paired
  <2> QED
    BY <2>4, <2>8, <2>9, <2>10, <2>11, <1>one
<1>9. ASSUME NEW p \in Coro, NEW r \in Run, Delete(p, r) PROVE Goal
  <2>1. /\ r \in Live /\ RunStatus(st, r) \in TerminalRun /\ Free(p)
        /\ phase' = [phase EXCEPT ![r] = "deleted"]
        /\ UNCHANGED <<st, mine, lost, co, poll>>
    BY <1>9 DEF Delete
  <2>2. \A i \in Item : st[i] \in Active => RunOf[i] # r
    BY <2>1, TerminalIsQuiet DEF ItemsOf
  <2>3. Live' = Live \ {r}
    <3>1. phase \in [Run -> {"new", "live", "deleted"}]
      BY DEF SerialInv, KnownInv, TypeOK
    <3> QED
      BY <2>1, <3>1 DEF Live
  <2>4. OwnJobs' /\ \A i \in Item : Keeps(i)
    BY <2>1, <2>2, <2>3, <1>inv, JobsStay DEF OwnJobs, Tracked
  <2>5. QueueLive' /\ co[p].op = "idle"
    BY <2>1, <1>free DEF QueueLive
  <2>6. Fresh(p) /\ Paired(p)
    BY <1>inv
  <2>7. Fresh(p)'
    <3>1. \A i \in co[p].todo :
            RunOf[i] = co[p].run /\ st[i] = "pending" /\ DepsSatisfied(st, i)
      BY <2>6 DEF Fresh
    <3>2. co' = co /\ st' = st
      BY <2>1
    <3>3. \A i \in co'[p].todo :
            RunOf[i] = co'[p].run /\ st'[i] = "pending" /\ DepsSatisfied(st', i)
      BY <3>1, <3>2
    <3>4. co'[p].op = "idle" /\ co'[p].todo = {}
      BY <2>5, <2>6, <3>2 DEF Fresh
    <3> QED
      BY <3>3, <3>4 DEF Fresh
  <2>8. Paired(p)'
    BY <2>1, <2>6 DEF Paired
  <2> QED
    BY <2>1, <2>4, <2>5, <2>7, <2>8, <1>one, <1>still
<1>10. ASSUME NEW p \in Coro, NEW r \in Run, Cancel(p, r) PROVE Goal
  <2>1. /\ r \in Live /\ CancelFrom(p, st, r, 1) /\ Free(p)
        /\ UNCHANGED <<phase, lost, poll>>
    BY <1>10 DEF Cancel
  <2>2. Live' = Live /\ QueueLive'
    BY <2>1, <1>live, <1>inv DEF QueueLive
  <2>3. \A i \in Item : mine[i] =>
          (st[i] \in Active /\ RunOf[i] \in Live) \/ st[i] = "failed"
    BY <1>inv DEF OwnJobs, Tracked
  <2>4. /\ OwnJobs'
        /\ \A q \in Coro : Fresh(q)' /\ Paired(q)'
        /\ \A i \in Item : st'[i] = st[i] \/ (st[i] = "pending" /\ st'[i] = "failed")
        /\ \A i \in Item : mine'[i] => mine[i]
    BY <2>1, <2>3, <1>ty, <1>one, <1>free, CancelFromFresh
  <2>5. ASSUME NEW i \in Item PROVE Keeps(i)
    <3>1. lost' = lost /\ ~(lost'[i] > lost[i])
      BY <2>1, <1>ty
    <3> QED
      BY <2>4, <3>1, <1>act DEF Keeps, Tracked
  <2> QED
    BY <2>2, <2>4, <2>5 DEF Moves, TerminalFailure
<1>11. ASSUME NEW p \in Coro, CancelReturns(p) PROVE Goal
  <2> DEFINE s == [st EXCEPT ![co[p].at] = "failed"]
  <2>1. /\ co[p].op = "cancelling"
        /\ CancelFrom(p, s, co[p].run, co[p].at + 1)
        /\ UNCHANGED <<phase, lost, poll>>
    BY <1>11 DEF CancelReturns
  <2>2. /\ co[p].run \in Live /\ co[p].at \in Item
        /\ st[co[p].at] \in Active
    BY <2>1, <1>inv DEF Fresh
  <2>3. Live' = Live /\ QueueLive'
    BY <2>1, <1>live, <1>inv DEF QueueLive
  <2>4. \A i \in Item : mine[i] =>
          (s[i] \in Active /\ RunOf[i] \in Live) \/ s[i] = "failed"
    BY <2>2, <1>inv, <1>ty DEF OwnJobs, Tracked
  <2>5. /\ s \in [Item -> ItemStatus]
        /\ \A i \in Item : s[i] = st[i] \/ st[i] \in Active
        /\ \A i \in Item : s[i] = st[i] \/ (BeingCancelled(i) /\ s[i] = "failed")
    BY <2>1, <2>2, <1>ty, <1>items DEF BeingCancelled
  <2> HIDE DEF s
  <2>6. /\ OwnJobs'
        /\ \A q \in Coro : Fresh(q)' /\ Paired(q)'
        /\ \A i \in Item : st'[i] = s[i] \/ (s[i] = "pending" /\ st'[i] = "failed")
        /\ \A i \in Item : mine'[i] => mine[i]
    BY <2>1, <2>2, <2>4, <2>5, <1>one, CancelFromFresh
  <2>7. ASSUME NEW i \in Item PROVE Keeps(i)
    <3>1. lost' = lost /\ ~(lost'[i] > lost[i])
      BY <2>1, <1>ty
    <3> QED
      BY <2>5, <2>6, <3>1, <1>act DEF Keeps, Tracked
  <2> QED
    BY <2>3, <2>5, <2>6, <2>7 DEF Moves, TerminalFailure
<1>12. ASSUME NEW p \in Coro, PollStart(p) PROVE Goal
  <2>1. /\ co' = [co EXCEPT ![p] = Returned("poll")]
        /\ UNCHANGED <<phase, st, mine, lost>>
    BY <1>12 DEF PollStart
  <2>2. PICK q \in Orders(Live) : BeginPass("resolve", q)
    BY <1>12 DEF PollStart
  <2>3. QueueLive'
    BY <2>1, <2>2, <1>live, <1>ty, <1>inv, QueueLiveStep
  <2>4. poll'.pass = "resolve"
    BY <2>2 DEF BeginPass
  <2>5. \A i \in Item : Keeps(i)
    BY <2>1, JobsStay
  <2> QED
    BY <2>1, <2>3, <2>4, <2>5, <1>rest, <1>still, <1>same
<1>polling. ASSUME NEW p \in Coro, Polling(p)
            PROVE  /\ co[p].caller = "poll" /\ co[p].op = "polling"
                   /\ poll.pass \notin {"off", "dead"}
  BY <1>polling, <1>inv DEF Polling, Paired
<1>turn. ASSUME NEW p \in Coro, Polling(p), UNCHANGED <<phase, st, mine, lost>>,
                \/ /\ co' = [co EXCEPT ![p] = Idle]
                   /\ poll' \in {PollOff, [PollOff EXCEPT !.pass = "dead"]}
                \/ /\ UNCHANGED co
                   /\ \E pass \in {"update", "fair", "greedy"} : \E S :
                      \E q \in Orders(S) : S \subseteq Live /\ BeginPass(pass, q)
         PROVE  Goal
  <2>1. OwnJobs' /\ Live' = Live /\ \A i \in Item : Moves(i) /\ Keeps(i)
    BY <1>turn, <1>still, <1>same, JobsStay
  <2>2. CASE /\ co' = [co EXCEPT ![p] = Idle]
             /\ poll' \in {PollOff, [PollOff EXCEPT !.pass = "dead"]}
    <3>1. poll'.pass \in {"off", "dead"} /\ poll'.queue = <<>>
      BY <2>2, <1>ends
    <3>2. QueueLive'
      BY <3>1 DEF QueueLive
    <3> QED
      BY <2>1, <2>2, <3>1, <3>2, <1>rest
  <2>3. CASE /\ UNCHANGED co
             /\ \E pass \in {"update", "fair", "greedy"} : \E S :
                \E q \in Orders(S) : S \subseteq Live /\ BeginPass(pass, q)
    <3>1. QueueLive'
      BY <2>1, <2>3, <1>ty, <1>inv, QueueLiveStep
    <3>2. poll'.pass \notin {"off", "dead"}
      BY <2>3 DEF BeginPass
    <3>3. Paired(p)'
      BY <2>3, <3>2, <1>turn, <1>polling DEF Paired
    <3>4. Fresh(p)'
      <4>1. co' = co /\ st' = st /\ mine' = mine /\ Fresh(p)
        BY <2>3, <1>turn, <1>inv
      <4> QED
        BY <4>1, <2>1 DEF Fresh, DepsSatisfied
    <3> QED
      BY <2>1, <3>1, <3>3, <3>4, <1>one
  <2> QED
    BY <1>turn, <2>2, <2>3
<1>13. ASSUME NEW p \in Coro, PollNextPass(p) PROVE Goal
  <2>1. Polling(p) /\ UNCHANGED <<phase, st, mine, lost>>
    BY <1>13 DEF PollNextPass
  <2>2. Contending(st, Live) \subseteq Live
    BY DEF Contending
  <2>3. \/ /\ co' = [co EXCEPT ![p] = Idle] /\ poll' = PollOff
        \/ /\ UNCHANGED co
           /\ \E q \in Orders(Live) : BeginPass("update", q)
        \/ /\ UNCHANGED co
           /\ \E q \in Orders(Contending(st, Live)) :
                BeginPass("fair", q) \/ BeginPass("greedy", q)
    BY <1>13 DEF PollNextPass, NeediestFirst
  <2>4. CASE UNCHANGED co /\ \E q \in Orders(Live) : BeginPass("update", q)
    BY <2>1, <2>4, <1>turn
  <2>5. CASE /\ UNCHANGED co
             /\ \E q \in Orders(Contending(st, Live)) :
                  BeginPass("fair", q) \/ BeginPass("greedy", q)
    BY <2>1, <2>2, <2>5, <1>turn
  <2>6. CASE co' = [co EXCEPT ![p] = Idle] /\ poll' = PollOff
    BY <2>1, <2>6, <1>turn
  <2> HIDE DEF Goal
  <2> QED
    BY <2>3, <2>4, <2>5, <2>6
<1>14. ASSUME NEW p \in Coro, PollRaises(p) PROVE Goal
  <2>1. Polling(p) /\ UNCHANGED <<phase, st, mine, lost>>
    BY <1>14 DEF PollRaises
  <2>2. \/ UNCHANGED co /\ \E q \in Orders(Live) : BeginPass("update", q)
        \/ /\ poll' = [PollOff EXCEPT !.pass = "dead"]
           /\ co' = [co EXCEPT ![p] = Idle]
    BY <1>14 DEF PollRaises
  <2>3. CASE UNCHANGED co /\ \E q \in Orders(Live) : BeginPass("update", q)
    BY <2>1, <2>3, <1>turn
  <2>4. CASE /\ poll' = [PollOff EXCEPT !.pass = "dead"]
             /\ co' = [co EXCEPT ![p] = Idle]
    BY <2>1, <2>4, <1>turn
  <2> HIDE DEF Goal
  <2> QED
    BY <2>2, <2>3, <2>4
<1>visit. ASSUME NEW p \in Coro, NEW pass, Visiting(p, pass), Advance,
                 UNCHANGED <<phase, mine, lost>>
          PROVE  /\ Head(poll.queue) \in Live /\ Head(poll.queue) \in Run
                 /\ QueueLive' /\ Live' = Live
                 /\ poll'.pass = poll.pass /\ Polling(p)
                 /\ co[p].caller = "poll" /\ co[p].op = "polling"
                 /\ poll'.pass \notin {"off", "dead"}
  <2>1. Polling(p) /\ Len(poll.queue) > 0
    BY <1>visit DEF Visiting
  <2>2. Head(poll.queue) \in Live /\ Head(poll.queue) \in Run
    BY <1>visit, <1>ty, <1>inv, HeadLive
  <2>3. QueueLive'
    BY <1>visit, <2>1, <1>live, <1>ty, <1>inv, QueueLiveStep
  <2>4. poll'.pass = poll.pass
    BY <1>visit, <1>ty DEF Advance, Cycle
  <2> QED
    BY <2>1, <2>2, <2>3, <2>4, <1>visit, <1>live, <1>inv, <1>polling
<1>serve. ASSUME NEW p \in Coro, NEW pass, Visiting(p, pass), Advance,
                 UNCHANGED <<phase, mine, lost>>,
                 NEW s \in [Item -> ItemStatus], NEW fair \in BOOLEAN,
                 \A i \in Item : s[i] = st[i] \/ st[i] \in Active \/ Corrected(i, s[i]),
                 \A i \in Item : mine[i] => s[i] \in Active \cup {st[i]},
                 ProcessRun(p, "poll", s, Live, Head(poll.queue), fair)
          PROVE  Goal
  <2>2. /\ Head(poll.queue) \in Live /\ Head(poll.queue) \in Run
        /\ QueueLive' /\ Live' = Live
        /\ poll'.pass \notin {"off", "dead"}
    BY <1>serve, <1>visit
  <2>3. ASSUME NEW caller \in Caller, caller = "poll", NEW r \in Run, r \in Live,
               ProcessRun(p, caller, s, Live, r, fair)
        PROVE  Goal
    <3> HIDE DEF Goal
    <3>1. /\ OwnJobs' /\ QueueLive'
          /\ \A q \in Coro : Fresh(q)' /\ Paired(q)'
          /\ \A i \in Item : Moves(i) /\ Keeps(i)
      BY <1>serve, <2>2, <2>3, <1>one, <1>ty, ProcessRunSerial
    <3> QED
      BY <3>1 DEF Goal
  <2>4. "poll" \in Caller
    BY DEF Caller
  <2> HIDE DEF Goal
  <2> QED
    BY <2>2, <2>3, <2>4, <1>serve
<1>turned. ASSUME NEW S, NEW status \in ItemStatus, NEW s \in [Item -> ItemStatus],
                  \A i \in Item : s[i] = st[i] \/ st[i] \in Active \/ Corrected(i, s[i]),
                  \A i \in Item : mine[i] => s[i] \in Active \cup {st[i]},
                  \A i \in S : st[i] \in Active \/ Corrected(i, status),
                  status \in Active \/ \A i \in S : ~mine[i]
           PROVE  /\ Turned(S, status, s) \in [Item -> ItemStatus]
                  /\ \A i \in Item : \/ Turned(S, status, s)[i] = st[i] \/ st[i] \in Active
                                     \/ Corrected(i, Turned(S, status, s)[i])
                  /\ \A i \in Item : mine[i] => Turned(S, status, s)[i] \in Active \cup {st[i]}
  BY <1>turned DEF Turned
<1>away. ASSUME NEW r, NEW S \in SUBSET Active, NEW i \in Away(r, S)
         PROVE  st[i] \in Active /\ ~mine[i]
  BY <1>away DEF Away, With
<1>15. ASSUME NEW p \in Coro, PollResolve(p) PROVE Goal
  <2> DEFINE r == Head(poll.queue)
             c == Suspended("poll", "hooks", r, TRUE, {}, TRUE)
  <2>1. Visiting(p, "resolve") /\ Advance /\ UNCHANGED <<phase, mine, lost>>
    BY <1>15 DEF PollResolve
  <2>2. PICK ok \in SUBSET Away(r, {"submitted", "settling"}) :
          \E bad \in SUBSET (Away(r, {"submitted", "settling"}) \ ok) :
          \E wrong \in SUBSET (unsure \cap With(st, r, {"completed"})) :
          LET new == Turned(ok, "completed", Turned(bad \cup wrong, "failed", st)) IN
          \/ ProcessRun(p, "poll", new, Live, r, TRUE)
          \/ st' = new /\ co' = [co EXCEPT ![p] = c]
          \/ st' = new /\ UNCHANGED co
    BY <1>15 DEF PollResolve
  <2>3. PICK bad \in SUBSET (Away(r, {"submitted", "settling"}) \ ok) :
          \E wrong \in SUBSET (unsure \cap With(st, r, {"completed"})) :
          LET new == Turned(ok, "completed", Turned(bad \cup wrong, "failed", st)) IN
          \/ ProcessRun(p, "poll", new, Live, r, TRUE)
          \/ st' = new /\ co' = [co EXCEPT ![p] = c]
          \/ st' = new /\ UNCHANGED co
    BY <2>2
  <2>late. PICK wrong \in SUBSET (unsure \cap With(st, r, {"completed"})) :
          LET new == Turned(ok, "completed", Turned(bad \cup wrong, "failed", st)) IN
          \/ ProcessRun(p, "poll", new, Live, r, TRUE)
          \/ st' = new /\ co' = [co EXCEPT ![p] = c]
          \/ st' = new /\ UNCHANGED co
    BY <2>3
  <2> DEFINE failed == Turned(bad \cup wrong, "failed", st)
             new == Turned(ok, "completed", failed)
  <2>4. /\ \A i \in ok \cup bad : st[i] \in Active /\ ~mine[i]
        /\ \A i \in wrong : Corrected(i, "failed") /\ ~mine[i]
    <3>1. \A i \in wrong : i \in Item /\ i \in unsure /\ st[i] = "completed"
      BY DEF With, ItemsOf
    <3> QED
      BY <3>1, <1>away, <1>act, <1>inv DEF Corrected, OwnJobs, Tracked
  <2>5. /\ failed \in [Item -> ItemStatus]
        /\ \A i \in Item : failed[i] = st[i] \/ st[i] \in Active \/ Corrected(i, failed[i])
        /\ \A i \in Item : mine[i] => failed[i] \in Active \cup {st[i]}
    BY <2>4, <1>turned, <1>ty, <1>items
  <2> HIDE DEF failed
  <2>6. /\ new \in [Item -> ItemStatus]
        /\ \A i \in Item : new[i] = st[i] \/ st[i] \in Active \/ Corrected(i, new[i])
        /\ \A i \in Item : mine[i] => new[i] \in Active \cup {st[i]}
    BY <2>4, <2>5, <1>turned, <1>items
  <2>7. \/ ProcessRun(p, "poll", new, Live, r, TRUE)
        \/ st' = new /\ co' = [co EXCEPT ![p] = c]
        \/ st' = new /\ UNCHANGED co
    BY <2>late DEF failed
  <2>8. /\ r \in Live /\ QueueLive' /\ Live' = Live
        /\ co[p].caller = "poll" /\ co[p].op = "polling"
        /\ poll'.pass \notin {"off", "dead"}
    BY <2>1, <1>visit
  <2>9. /\ c.todo = {} /\ c.op = "hooks" /\ c.run = r /\ c.caller = "poll"
    BY DEF Suspended
  <2> HIDE DEF new, c
  <2>10. CASE ProcessRun(p, "poll", new, Live, r, TRUE)
    BY <2>1, <2>6, <2>10, <1>serve
  <2>11. ASSUME st' = new
         PROVE  OwnJobs' /\ \A i \in Item : Moves(i) /\ Keeps(i)
    <3>1. OwnJobs' /\ \A i \in Item : Moves(i)
      BY <2>1, <2>6, <2>8, <2>11, <1>inv DEF OwnJobs, Tracked, Moves, Corrected, Active
    <3> QED
      BY <3>1, <2>1, <2>6, <2>11, JobsStay
  <2>12. CASE st' = new /\ co' = [co EXCEPT ![p] = c]
    <3>1. co'[p] = c
      BY <2>12, <1>ty
    <3>2. Fresh(p)' /\ Paired(p)'
      BY <3>1, <2>8, <2>9 DEF Fresh, Paired
    <3> QED
      BY <3>2, <2>8, <2>11, <2>12, <1>one
  <2>13. CASE st' = new /\ UNCHANGED co
    <3>1. co' = co /\ co[p].todo = {}
      BY <2>8, <2>13, <1>inv DEF Fresh
    <3>3. Fresh(p)' /\ Paired(p)'
      BY <3>1, <2>8 DEF Fresh, Paired
    <3> QED
      BY <3>3, <2>8, <2>11, <2>13, <1>one
  <2> HIDE DEF Goal
  <2> QED
    BY <2>7, <2>10, <2>12, <2>13
<1>16. ASSUME NEW p \in Coro, PollUpdate(p) PROVE Goal
  <2> DEFINE r == Head(poll.queue)
  <2>1. Visiting(p, "update") /\ Advance /\ UNCHANGED <<phase, mine, lost>>
    BY <1>16 DEF PollUpdate
  <2>2. /\ QueueLive' /\ Live' = Live
        /\ co[p].caller = "poll" /\ co[p].op = "polling"
        /\ poll'.pass \notin {"off", "dead"}
    BY <2>1, <1>visit
  <2>3. CASE UNCHANGED st /\ UNCHANGED co
    <3>1. co' = co /\ st' = st /\ mine' = mine /\ Fresh(p)
      BY <2>1, <2>3, <1>inv
    <3>2. Fresh(p)'
      BY <3>1, <2>2 DEF Fresh, DepsSatisfied
    <3>3. Paired(p)'
      BY <3>1, <2>2 DEF Paired
    <3> QED
      BY <2>1, <2>2, <2>3, <3>2, <3>3, <1>one, <1>same, <1>still, JobsStay
  <2>4. CASE \E seen \in SUBSET {i \in With(st, r, {"submitted", "settling"}) : mine[i]} :
             \E settled \in SUBSET Away(r, Active) :
             \E bad \in SUBSET (Away(r, Active) \ settled) :
               ProcessRun(p, "poll", Turned(seen, "running",
                            Turned(settled, "settling", Turned(bad, "failed", st))),
                          Live, r, TRUE)
    <3>1. PICK seen \in SUBSET {i \in With(st, r, {"submitted", "settling"}) : mine[i]} :
            \E settled \in SUBSET Away(r, Active) :
            \E bad \in SUBSET (Away(r, Active) \ settled) :
              ProcessRun(p, "poll", Turned(seen, "running",
                           Turned(settled, "settling", Turned(bad, "failed", st))),
                         Live, r, TRUE)
      BY <2>4
    <3>2. PICK settled \in SUBSET Away(r, Active) :
            \E bad \in SUBSET (Away(r, Active) \ settled) :
              ProcessRun(p, "poll", Turned(seen, "running",
                           Turned(settled, "settling", Turned(bad, "failed", st))),
                         Live, r, TRUE)
      BY <3>1
    <3>3. PICK bad \in SUBSET (Away(r, Active) \ settled) :
            ProcessRun(p, "poll", Turned(seen, "running",
                         Turned(settled, "settling", Turned(bad, "failed", st))),
                       Live, r, TRUE)
      BY <3>2
    <3> DEFINE s1 == Turned(bad, "failed", st)
               s2 == Turned(settled, "settling", s1)
               s3 == Turned(seen, "running", s2)
    <3>4. /\ \A i \in bad \cup settled : st[i] \in Active /\ ~mine[i]
          /\ \A i \in seen : st[i] \in Active
      BY <1>away, <1>act DEF With
    <3>5. /\ s1 \in [Item -> ItemStatus]
          /\ \A i \in Item : s1[i] = st[i] \/ st[i] \in Active \/ Corrected(i, s1[i])
          /\ \A i \in Item : mine[i] => s1[i] \in Active \cup {st[i]}
      BY <3>4, <1>turned, <1>ty, <1>items
    <3> HIDE DEF s1
    <3>6. /\ s2 \in [Item -> ItemStatus]
          /\ \A i \in Item : s2[i] = st[i] \/ st[i] \in Active \/ Corrected(i, s2[i])
          /\ \A i \in Item : mine[i] => s2[i] \in Active \cup {st[i]}
      BY <3>4, <3>5, <1>turned, <1>items, <1>act
    <3> HIDE DEF s2
    <3>7. /\ s3 \in [Item -> ItemStatus]
          /\ \A i \in Item : s3[i] = st[i] \/ st[i] \in Active \/ Corrected(i, s3[i])
          /\ \A i \in Item : mine[i] => s3[i] \in Active \cup {st[i]}
      BY <3>4, <3>6, <1>turned, <1>items, <1>act
    <3>8. ProcessRun(p, "poll", s3, Live, r, TRUE)
      BY <3>3 DEF s1, s2
    <3> HIDE DEF s3, Goal
    <3> QED
      BY <2>1, <3>7, <3>8, <1>serve
  <2> QED
    BY <1>16, <2>3, <2>4 DEF PollUpdate
<1>17. ASSUME NEW p \in Coro, PollServe(p) PROVE Goal
  <2> DEFINE fair == poll.pass = "fair"
  <2>1. /\ Visiting(p, "fair") \/ Visiting(p, "greedy")
        /\ Advance /\ UNCHANGED <<phase, mine, lost>>
        /\ ProcessRun(p, "poll", st, Live, Head(poll.queue), fair)
        /\ fair \in BOOLEAN
    BY <1>17 DEF PollServe
  <2> HIDE DEF Goal, fair
  <2> QED
    BY <2>1, <1>ty, <1>serve
<1>18. ASSUME NEW i \in Item, JobEnds(i) \/ LostJobEnds(i) PROVE Goal
  <2>1. UNCHANGED <<phase, st, co, poll>>
    BY <1>18 DEF JobEnds, LostJobEnds
  <2>2. ASSUME NEW j \in Item PROVE (mine'[j] => mine[j]) /\ Keeps(j)
    <3>1. CASE JobEnds(i)
      <4>1. lost' = lost /\ ~(lost'[j] > lost[j])
        BY <3>1, <1>ty DEF JobEnds
      <4>2. mine'[j] = mine[j] \/ ~mine'[j]
        BY <3>1, <1>ty DEF JobEnds
      <4> QED
        BY <2>1, <4>1, <4>2 DEF Keeps, Tracked
    <3>2. CASE LostJobEnds(i)
      <4>1. mine' = mine /\ ~(lost'[j] > lost[j])
        BY <3>2, <1>ty DEF LostJobEnds
      <4> QED
        BY <2>1, <4>1 DEF Keeps, Tracked
    <3> QED
      BY <1>18, <3>1, <3>2
  <2>3. Live' = Live
    BY <2>1, <1>live
  <2>4. OwnJobs' /\ QueueLive'
    BY <2>1, <2>2, <2>3, <1>inv DEF OwnJobs, Tracked, QueueLive
  <2>5. ASSUME NEW p \in Coro PROVE Fresh(p)' /\ Paired(p)'
    <3>1. Fresh(p) /\ Paired(p) /\ co' = co /\ st' = st /\ poll' = poll
      BY <2>1, <1>inv
    <3> QED
      BY <3>1, <2>2, <2>3 DEF Fresh, Paired, DepsSatisfied
  <2> QED
    BY <2>1, <2>2, <2>4, <2>5, <1>still
<1>stutter. ASSUME UNCHANGED vars PROVE Goal
  <2>1. UNCHANGED <<phase, st, mine, lost, co, poll>>
    BY <1>stutter DEF vars
  <2>2. Live' = Live
    BY <2>1, <1>live
  <2>3. OwnJobs' /\ QueueLive'
    BY <2>1, <2>2, <1>inv DEF OwnJobs, Tracked, QueueLive
  <2>4. ASSUME NEW p \in Coro PROVE Fresh(p)' /\ Paired(p)'
    <3>1. Fresh(p) /\ Paired(p) /\ co' = co /\ st' = st /\ poll' = poll /\ mine' = mine
      BY <2>1, <1>inv
    <3> QED
      BY <3>1, <2>2 DEF Fresh, Paired, DepsSatisfied
  <2> QED
    BY <2>1, <2>3, <2>4, <1>still, JobsStay
<1>19. KnownInv'
  BY KnownStep DEF SerialInv
<1>20. Goal
  <2> HIDE DEF Goal
  <2>1. ASSUME NEW p \in Coro, Resume(p) PROVE Goal
    BY <2>1, <1>2, <1>3, <1>4, <1>5, <1>6, <1>11 DEF Resume
  <2>2. ASSUME NEW p \in Coro, Request(p) PROVE Goal
    BY <2>2, <1>7, <1>8, <1>9, <1>10 DEF Request
  <2>3. ASSUME NEW p \in Coro, PollStep(p) PROVE Goal
    BY <2>3, <1>13, <1>14, <1>15, <1>16, <1>17 DEF PollStep
  <2> QED
    BY <2>1, <2>2, <2>3, <1>stutter, <1>12, <1>18 DEF Next
<1> QED
  BY <1>19, <1>20 DEF SerialInv

LEMMA SerialInit ==
    ASSUME Init
    PROVE  SerialInv
<1>1. KnownInv
  BY InitClaimsNothing
<1>2. OwnJobs
  BY DEF Init, OwnJobs
<1>3. QueueLive
  BY DEF Init, PollOff, QueueLive
<1>4. ASSUME NEW p \in Coro PROVE Fresh(p) /\ Paired(p)
  <2>1. co[p] = Idle /\ poll = PollOff
    BY DEF Init
  <2>2. Idle.todo = {} /\ Idle.op = "idle" /\ Idle.caller = "none"
        /\ PollOff.pass = "off" /\ PollOff.queue = <<>>
    BY DEF Idle, PollOff
  <2> QED
    BY <2>1, <2>2 DEF Fresh, Paired
<1> QED
  BY <1>1, <1>2, <1>3, <1>4 DEF SerialInv

(* With a single coroutine, whatever was read before an await still holds  *)
(* after it: what is left of to_submit is PENDING with its dependencies    *)
(* COMPLETED, and the runs that are worked for or queued are there.  A job *)
(* an item names is counted by that item, unless a cancel took effect on   *)
(* the item and not on the job (process_run and cancel_run of              *)
(* runs/manager.py).                                                       *)
THEOREM NothingGoesStale ==
    ASSUME Cardinality(Coro) = 1
    PROVE  Spec => []SerialInv
<1>1. SerialInv /\ [Next]_vars => SerialInv'
  BY SerialStep
<1> QED
  BY <1>1, SerialInit, PTL DEF Spec

(* A job is forgotten in two ways only: by a cancel whose command did not  *)
(* work, and by a submission that took effect and is reported refused or   *)
(* raises.  No rerun, no delete, no verdict and no second submission of an *)
(* item loses one, whichever commands may fail unnoticed.                  *)
THEOREM SerialNoJobForgotten ==
    ASSUME Cardinality(Coro) = 1
    PROVE  Spec => NoJobForgotten
<1> DEFINE Kept(i) ==
             /\ mine'[i] /\ ~mine[i] => Tracked(i)'
             /\ Tracked(i) =>
                   \/ Tracked(i)'
                   \/ ~mine'[i] /\ lost'[i] = lost[i]
                   \/ BeingCancelled(i) /\ st'[i] = "failed"
             /\ lost'[i] > lost[i] =>
                   \/ BeingSubmitted(i) /\ st'[i] # "submitted"
                   \/ mine[i] /\ st[i] = "failed"
<1>1. ASSUME SerialInv, [Next]_vars, NEW i \in Item PROVE Kept(i)
  <2>1. Keeps(i)
    BY <1>1, SerialStep
  <2>2. mine'[i] => Tracked(i)' \/ st'[i] = "failed"
    BY <1>1, SerialStep DEF SerialInv, OwnJobs
  <2> QED
    BY <2>1, <2>2 DEF Keeps, Active
<1>2. SerialInv /\ [Next]_vars => [\A i \in Item : Kept(i)]_vars
  BY <1>1
<1> QED
  BY <1>2, NothingGoesStale, PTL DEF Spec, NoJobForgotten

(* An item takes a slot from PENDING only: a cancel, a rerun or a verdict  *)
(* never comes between the choice of an item and its submission.           *)
THEOREM SerialTakesSlotFromPending ==
    ASSUME Cardinality(Coro) = 1
    PROVE  Spec => TakesSlotFromPending
<1>1. SerialInv /\ [Next]_vars =>
        [\A i \in Item : st'[i] \in Active => st[i] \in Active \cup {"pending"}]_vars
  <2> SUFFICES ASSUME SerialInv, [Next]_vars, NEW i \in Item, st'[i] \in Active
               PROVE  st[i] \in Active \cup {"pending"}
    OBVIOUS
  <2> QED
    BY SerialStep DEF Moves, Corrected, Restarts, Active
<1> QED
  BY <1>1, NothingGoesStale, PTL DEF Spec, TakesSlotFromPending

(* The dependencies of an item are COMPLETED when it takes its slot,       *)
(* however long ago it was chosen.                                         *)
THEOREM SerialDepsFirst ==
    ASSUME Cardinality(Coro) = 1
    PROVE  Spec => DepsFirst
<1>1. SerialInv /\ [Next]_vars =>
        [\A i \in Item : st[i] \notin Active /\ st'[i] \in Active =>
           DepsSatisfied(st, i)]_vars
  <2> SUFFICES ASSUME SerialInv, [Next]_vars, NEW i \in Item,
                      st[i] \notin Active, st'[i] \in Active
               PROVE  DepsSatisfied(st, i)
    OBVIOUS
  <2> QED
    BY SerialStep DEF Moves, Corrected, Restarts, Active, TerminalFailure
<1> QED
  BY <1>1, NothingGoesStale, PTL DEF Spec, DepsFirst

(* The verdict of a run stands until the run is rerun as a whole, or, when *)
(* it is COMPLETED by virtue of a timeout, until late rows fail the items  *)
(* that accounting had not confirmed.                                      *)
THEOREM SerialVerdictStands ==
    ASSUME Cardinality(Coro) = 1
    PROVE  Spec => VerdictStands
<1> DEFINE Stands(r) ==
             \/ RunStatus(st', r) = RunStatus(st, r)
             \/ With(st', r, {"pending"}) = ItemsOf(r)
             \/ /\ RunStatus(st, r) = "completed" /\ RunStatus(st', r) = "failed"
                /\ With(st', r, {"failed"}) # {}
                /\ With(st', r, {"failed"}) \subseteq unsure
<1>1. ASSUME SerialInv, [Next]_vars, NEW r \in Live, RunStatus(st, r) \in TerminalRun
      PROVE  Stands(r)
  <2>1. CASE \A i \in Item : Moves(i)
    <3>1. \A i \in ItemsOf(r) : /\ st[i] \notin Active
                                /\ st[i] = "pending" => ~DepsSatisfied(st, i)
      BY <1>1, TerminalIsQuiet
    <3>2. \A i \in ItemsOf(r) :
            \/ st'[i] = st[i]
            \/ st[i] = "pending" /\ st'[i] \in TerminalFailure
            \/ Corrected(i, st'[i])
      BY <2>1, <3>1 DEF Moves, ItemsOf
    <3>3. CASE RunStatus(st, r) = "completed"
      <4>1. \A i \in ItemsOf(r) : st[i] = "completed"
        BY <3>3 DEF RunStatus, With
      <4>2. \A i \in ItemsOf(r) : /\ st'[i] \in {"completed", "failed"}
                                  /\ st'[i] = "failed" => i \in unsure
        BY <3>2, <4>1 DEF Corrected
      <4>3. With(st', r, {"failed"}) \subseteq unsure
        BY <4>2 DEF With
      <4>4. CASE With(st', r, {"failed"}) = {}
        <5>1. \A i \in ItemsOf(r) : st'[i] = "completed"
          BY <4>2, <4>4 DEF With
        <5>2. With(st', r, TerminalFailure) = {} /\ With(st', r, {"completed"}) = ItemsOf(r)
          BY <5>1 DEF With, TerminalFailure
        <5> QED
          BY <3>3, <5>2 DEF RunStatus
      <4>5. CASE With(st', r, {"failed"}) # {}
        <5>1. ItemsOf(r) # {} /\ With(st', r, TerminalFailure) # {}
          BY <4>5 DEF With, TerminalFailure
        <5>2. With(st', r, TerminalItem) = ItemsOf(r)
          BY <4>2 DEF With, TerminalItem, TerminalFailure
        <5>3. RunStatus(st', r) = "failed"
          BY <5>1, <5>2, FailedVerdict
        <5> QED
          BY <3>3, <4>3, <4>5, <5>3
      <4> QED
        BY <4>4, <4>5
    <3>4. CASE RunStatus(st, r) # "completed"
      <4>1. RunStatus(st, r) = "failed"
        BY <1>1, <3>4 DEF TerminalRun
      <4> QED
        BY <1>1, <3>2, <4>1, VerdictKept DEF Corrected
    <3> QED
      BY <3>3, <3>4
  <2>2. CASE Restarts
    <3>1. PICK x \in Run :
            /\ RunStatus(st, x) \in TerminalRun
            /\ \A i \in Item : st'[i] = IF RunOf[i] = x THEN "pending" ELSE st[i]
      BY <2>2 DEF Restarts
    <3>2. CASE x = r
      BY <3>1, <3>2 DEF With, ItemsOf
    <3>3. CASE x # r
      <4>1. \A i \in ItemsOf(r) : st'[i] = st[i]
        BY <3>1, <3>3 DEF ItemsOf
      <4> QED
        BY <1>1, <4>1, VerdictKept
    <3> QED
      BY <3>2, <3>3
  <2> QED
    BY <1>1, <2>1, <2>2, SerialStep
<1>2. SerialInv /\ [Next]_vars =>
        [\A r \in Live : RunStatus(st, r) \in TerminalRun => Stands(r)]_vars
  BY <1>1
<1> QED
  BY <1>2, NothingGoesStale, PTL DEF Spec, VerdictStands

-----------------------------------------------------------------------------
(* The greedy pass.                                                        *)

(* The slots of a run without the fair share.                              *)
Left(s, lv, r) == Slots(s, lv, r, FALSE)

(* A run has no work it may submit, or a cap it is under is used up.       *)
Served(r) == r \in Contending(st, Live) => Left(st, Live, r) <= 0

Busy(p, r) == co[p].op \in {"submitting", "hooks"} /\ co[p].run = r

(* Every run that is neither ahead of the pass nor the one it is at has    *)
(* been served; of that one, what is left to submit takes up the slots or  *)
(* is all there is.  Once the cache has completed an item the last part    *)
(* does not hold, but then process_run is called again.                    *)
GreedyOf(p) ==
    /\ co[p].op \in {"submitting", "hooks"} => co[p].fair = FALSE
    /\ \A r \in Live :
         (\A k \in DOMAIN poll.queue : poll.queue[k] # r) => Busy(p, r) \/ Served(r)
    /\ co[p].op = "submitting" /\ ~co[p].hit =>
         \/ Ready(st, co[p].run) \subseteq co[p].todo
         \/ Left(st, Live, co[p].run) <= Cardinality(co[p].todo)

GreedyInv == poll.pass = "greedy" => \A p \in Coro : GreedyOf(p)

(* A prefix of length n is the whole set or has n elements.                *)
LEMMA PrefixFull ==
    ASSUME NEW S \in SUBSET Item, NEW n \in Int
    PROVE  S \subseteq Prefix(S, n) \/ n <= Cardinality(Prefix(S, n))
<1> DEFINE T == Prefix(S, n)
           Below(i) == {j \in S : j < i}
<1>1. \A i \in S : i \in T <=> Cardinality(Below(i)) < n
  BY DEF Prefix
<1>2. T \subseteq S
  BY DEF Prefix
<1> HIDE DEF T
<1> SUFFICES ASSUME ~ (S \subseteq T) PROVE n <= Cardinality(T)
  BY DEF T
<1>3. S \ T # {} /\ S \ T \in SUBSET Nat
  <2>1. S \ T # {}
    OBVIOUS
  <2>2. Item \subseteq Nat
    BY RunModelAssumption DEF Item
  <2> QED
    BY <2>1, <2>2
<1>4. PICK m \in S \ T : \A k \in S \ T : m <= k
  BY <1>3, LeastExists
<1>5. Below(m) \subseteq T
  <2>1. \A j \in S : j < m => j \in T
    BY <1>3, <1>4
  <2> QED
    BY <2>1
<1>6. Cardinality(Below(m)) <= Cardinality(T)
      /\ Cardinality(Below(m)) \in Nat /\ Cardinality(T) \in Nat
  <2>1. T \in SUBSET Item /\ Below(m) \in SUBSET Item
    BY <1>2
  <2> HIDE DEF Below
  <2> QED
    BY <2>1, <1>5, UnionCard
<1>7. ~ (Cardinality(Below(m)) < n)
  BY <1>1, <1>4
<1> HIDE DEF Below
<1> QED
  BY <1>6, <1>7

(* An order lists every run.                                               *)
LEMMA OrderListsAll ==
    ASSUME NEW S \in SUBSET Run, NEW q \in Orders(S), NEW r \in S
    PROVE  \E k \in DOMAIN q : q[k] = r
<1> DEFINE n == Cardinality(S)
<1>1. IsFiniteSet(S) /\ n \in Nat
  BY DispatchAssumption, FS_Subset, FS_CardinalityType
<1>2. q \in [1 .. n -> S] /\ \A a, b \in DOMAIN q : q[a] = q[b] => a = b
  BY DEF Orders
<1> SUFFICES ASSUME \A k \in 1 .. n : q[k] # r PROVE FALSE
  BY <1>2
<1>3. q \in [1 .. n -> S \ {r}]
  BY <1>2
<1>4. /\ IsFiniteSet(S \ {r}) /\ Cardinality(S \ {r}) = n - 1
      /\ IsFiniteSet(1 .. n) /\ Cardinality(1 .. n) = n
  <2>1. IsFiniteSet(S \ {r}) /\ Cardinality(S \ {r}) = n - 1
    BY <1>1, FS_RemoveElement, FS_Subset
  <2> HIDE DEF n
  <2>2. IsFiniteSet(1 .. n) /\ Cardinality(1 .. n) = n
    BY <1>1, FS_Interval
  <2> QED
    BY <2>1, <2>2
<1> HIDE DEF n
<1>5. \E a, b \in 1 .. n : a # b /\ q[a] = q[b]
  BY <1>1, <1>3, <1>4, FS_PigeonHole
<1> QED
  BY <1>2, <1>5

(* Slots without the fair share: the smaller of two numbers.               *)
LEMMA SlotsMin ==
    ASSUME NEW s, NEW lv \in SUBSET Run, NEW r \in Run
    PROVE  /\ Left(s, lv, r) \in Int
           /\ RunSlots(s, r) \in Int /\ BackendSlots(s, lv) \in Int
           /\ Left(s, lv, r) \in {RunSlots(s, r), BackendSlots(s, lv)}
           /\ Left(s, lv, r) <= RunSlots(s, r)
           /\ Left(s, lv, r) <= BackendSlots(s, lv)
<1>1. RunSlots(s, r) \in Int /\ BackendSlots(s, lv) \in Int
  BY RunSlotsType, OnBackendCard
<1>2. Left(s, lv, r) = CHOOSE n \in {RunSlots(s, r), BackendSlots(s, lv)} :
                                 \A m \in {RunSlots(s, r), BackendSlots(s, lv)} : n <= m
  <2>1. {RunSlots(s, r), BackendSlots(s, lv)} \cup (IF FALSE THEN {FairSlots(s, lv)} ELSE {})
          = {RunSlots(s, r), BackendSlots(s, lv)}
    OBVIOUS
  <2> QED
    BY <2>1 DEF Left, Slots
<1>3. ASSUME NEW a \in Int, NEW b \in Int
      PROVE  \E n \in {a, b} : \A m \in {a, b} : n <= m
  <2>1. a <= b \/ b <= a
    OBVIOUS
  <2> QED
    BY <2>1
<1>4. \E n \in {RunSlots(s, r), BackendSlots(s, lv)} :
        \A m \in {RunSlots(s, r), BackendSlots(s, lv)} : n <= m
  BY <1>1, <1>3
<1> QED
  BY <1>1, <1>2, <1>4

(* A run none of whose items changed, on a backend that has not become     *)
(* emptier.                                                                *)
LEMMA OthersServed ==
    ASSUME NEW s, NEW t, NEW lv \in SUBSET Run, NEW r \in lv,
           \A i \in ItemsOf(r) : t[i] = s[i],
           OnBackend(s, lv) \subseteq OnBackend(t, lv),
           r \in Contending(s, lv) => Left(s, lv, r) <= 0
    PROVE  r \in Contending(t, lv) => Left(t, lv, r) <= 0
<1>1. \A S : With(t, r, S) = With(s, r, S)
  BY DEF With
<1>2. \A i \in ItemsOf(r) : \A d \in Deps[i] : d \in ItemsOf(r)
  BY RunModelAssumption DEF ItemsOf
<1>3. \A i \in ItemsOf(r) : /\ DepsSatisfied(t, i) = DepsSatisfied(s, i)
                            /\ FailedDeps(t, i) = FailedDeps(s, i)
  BY <1>2 DEF DepsSatisfied, FailedDeps
<1>4. Ready(t, r) = Ready(s, r)
  BY <1>1, <1>3 DEF Ready, With
<1>5. RunStatus(t, r) = RunStatus(s, r)
  <2>1. \A i \in With(t, r, {"pending"}) : FailedDeps(t, i) = FailedDeps(s, i)
    BY <1>3 DEF With
  <2> QED
    BY <1>1, <2>1 DEF RunStatus
<1>6. r \in Contending(t, lv) <=> r \in Contending(s, lv)
  BY <1>4, <1>5 DEF Contending
<1>7. RunSlots(t, r) = RunSlots(s, r)
  BY <1>1, <1>4 DEF RunSlots, RunningCount
<1>8. BackendSlots(t, lv) <= BackendSlots(s, lv)
  <2>1. Cardinality(OnBackend(s, lv)) <= Cardinality(OnBackend(t, lv))
        /\ Cardinality(OnBackend(s, lv)) \in Nat /\ Cardinality(OnBackend(t, lv)) \in Nat
    BY OnBackendCard, UnionCard
  <2> QED
    BY <2>1, DispatchAssumption DEF BackendSlots
<1>9. /\ Left(s, lv, r) \in {RunSlots(s, r), BackendSlots(s, lv)}
      /\ Left(t, lv, r) <= RunSlots(t, r)
      /\ Left(t, lv, r) <= BackendSlots(t, lv)
      /\ Left(t, lv, r) \in Int /\ Left(s, lv, r) \in Int
      /\ RunSlots(s, r) \in Int /\ BackendSlots(s, lv) \in Int
      /\ RunSlots(t, r) \in Int /\ BackendSlots(t, lv) \in Int
  <2>1. r \in Run
    OBVIOUS
  <2> QED
    BY <2>1, SlotsMin
<1> SUFFICES ASSUME r \in Contending(t, lv) PROVE Left(t, lv, r) <= 0
  OBVIOUS
<1>10. Left(s, lv, r) <= 0
  BY <1>6
<1>11. CASE Left(s, lv, r) = RunSlots(s, r)
  BY <1>7, <1>9, <1>10, <1>11
<1>12. CASE Left(s, lv, r) = BackendSlots(s, lv)
  BY <1>8, <1>9, <1>10, <1>12
<1> QED
  BY <1>9, <1>11, <1>12

(* A submission uses up a slot of each cap and one of the ready items.     *)
LEMMA TakesSlot ==
    ASSUME NEW s \in [Item -> ItemStatus], NEW lv \in SUBSET Run, NEW r \in lv,
           NEW i \in ItemsOf(r), s[i] = "pending", DepsSatisfied(s, i),
           NEW t, t = [s EXCEPT ![i] = "submitted"]
    PROVE  /\ Ready(t, r) \subseteq Ready(s, r) \ {i}
           /\ OnBackend(s, lv) \subseteq OnBackend(t, lv)
           /\ Left(t, lv, r) <= Left(s, lv, r) - 1
<1>1. i \in Item /\ RunOf[i] = r
  BY DEF ItemsOf
<1>2. t[i] = "submitted" /\ \A j \in Item \ {i} : t[j] = s[j]
  BY <1>1
<1>3. Ready(t, r) \subseteq Ready(s, r) \ {i} /\ i \in Ready(s, r)
  <2>1. ASSUME NEW j \in Item, DepsSatisfied(t, j) PROVE DepsSatisfied(s, j)
    <3>1. \A d \in Deps[j] : d \in Item /\ t[d] = "completed"
      BY <2>1, RunModelAssumption DEF DepsSatisfied
    <3> QED
      BY <3>1, <1>2 DEF DepsSatisfied
  <2> QED
    BY <2>1, <1>1, <1>2 DEF Ready, With, ItemsOf
<1>4. OnBackend(t, lv) = OnBackend(s, lv) \cup {i} /\ i \notin OnBackend(s, lv)
  BY <1>1, <1>2 DEF OnBackend, Active
<1>5. With(t, r, Active) = With(s, r, Active) \cup {i} /\ i \notin With(s, r, Active)
  BY <1>1, <1>2 DEF With, ItemsOf, Active
<1>6. ASSUME NEW A \in SUBSET Item, NEW B \in SUBSET Item, B = A \cup {i}, i \notin A
      PROVE  Cardinality(B) = Cardinality(A) + 1 /\ Cardinality(A) \in Nat
  BY <1>6, ItemsFinite, FS_AddElement
<1>7. /\ OnBackend(s, lv) \in SUBSET Item /\ OnBackend(t, lv) \in SUBSET Item
      /\ With(s, r, Active) \in SUBSET Item /\ With(t, r, Active) \in SUBSET Item
      /\ Ready(s, r) \in SUBSET Item /\ Ready(t, r) \in SUBSET Item
  BY DEF OnBackend, With, ItemsOf, Ready
<1>8. BackendSlots(t, lv) = BackendSlots(s, lv) - 1
  <2>1. /\ Cardinality(OnBackend(t, lv)) = Cardinality(OnBackend(s, lv)) + 1
        /\ Cardinality(OnBackend(s, lv)) \in Nat
    BY <1>4, <1>6, <1>7
  <2> QED
    BY <2>1, DispatchAssumption DEF BackendSlots
<1>9. RunSlots(t, r) <= RunSlots(s, r) - 1
  <2>1. CASE RunMax[r] = NoMax
    <3>1. /\ Cardinality(Ready(t, r)) <= Cardinality(Ready(s, r) \ {i})
          /\ Cardinality(Ready(t, r)) \in Nat /\ Cardinality(Ready(s, r) \ {i}) \in Nat
      <4>1. Ready(s, r) \ {i} \in SUBSET Item
        BY <1>7
      <4> QED
        BY <4>1, <1>3, <1>7, UnionCard
    <3>2. /\ Cardinality(Ready(s, r) \ {i}) = Cardinality(Ready(s, r)) - 1
          /\ Cardinality(Ready(s, r)) \in Nat
      BY <1>3, <1>7, ItemsFinite, FS_RemoveElement
    <3> QED
      BY <2>1, <3>1, <3>2 DEF RunSlots
  <2>2. CASE RunMax[r] # NoMax
    <3>1. /\ Cardinality(With(t, r, Active)) = Cardinality(With(s, r, Active)) + 1
          /\ Cardinality(With(s, r, Active)) \in Nat
      BY <1>5, <1>6, <1>7
    <3>2. RunMax[r] \in Nat
      BY <2>2, DispatchAssumption
    <3> QED
      BY <2>2, <3>1, <3>2 DEF RunSlots, RunningCount
  <2> QED
    BY <2>1, <2>2
<1>10. /\ Left(s, lv, r) \in {RunSlots(s, r), BackendSlots(s, lv)}
       /\ Left(t, lv, r) <= RunSlots(t, r)
       /\ Left(t, lv, r) <= BackendSlots(t, lv)
       /\ Left(t, lv, r) \in Int /\ Left(s, lv, r) \in Int
       /\ RunSlots(s, r) \in Int /\ BackendSlots(s, lv) \in Int
       /\ RunSlots(t, r) \in Int /\ BackendSlots(t, lv) \in Int
  <2>1. r \in Run
    OBVIOUS
  <2> QED
    BY <2>1, SlotsMin
<1>11. Left(t, lv, r) <= Left(s, lv, r) - 1
  <2>1. CASE Left(s, lv, r) = RunSlots(s, r)
    BY <1>9, <1>10, <2>1
  <2>2. CASE Left(s, lv, r) = BackendSlots(s, lv)
    BY <1>8, <1>10, <2>2
  <2> QED
    BY <1>10, <2>1, <2>2
<1> QED
  BY <1>3, <1>4, <1>11

(* What process_run without the fair share chooses: all there is, or as    *)
(* much as there are slots.                                                *)
LEMMA ChoosesAll ==
    ASSUME NEW s, NEW lv \in SUBSET Run, NEW r \in Run
    PROVE  LET T == ToSubmit(s, lv, r, FALSE) IN
           Ready(s, r) \subseteq T \/ Left(s, lv, r) <= Cardinality(T)
<1>1. Left(s, lv, r) \in Int /\ Ready(s, r) \in SUBSET Item
  BY SlotsMin DEF Ready, With, ItemsOf
<1>2. ToSubmit(s, lv, r, FALSE) = Prefix(Ready(s, r), Left(s, lv, r))
  BY DEF ToSubmit, Left
<1> QED
  BY <1>1, <1>2, PrefixFull

(* The call of process_run for r leaves r served or at work.               *)
LEMMA GreedyProcessRun ==
    ASSUME TypeOK, NEW p \in Coro, NEW caller \in Caller, NEW r \in Live,
           NEW fair, fair = FALSE, ProcessRun(p, caller, st, Live, r, fair), UNCHANGED phase,
           \A x \in Live : (\A k \in DOMAIN poll'.queue : poll'.queue[k] # x) /\ x # r => Served(x)
    PROVE  GreedyOf(p)'
<1> DEFINE T == ToSubmit(st', Live, r, fair)
<1>1. st' = Cascade(st, r)
  BY DEF ProcessRun
<1>2. co' = [co EXCEPT ![p] =
               IF T = {} THEN Returned(caller)
               ELSE Suspended(caller, "submitting", r, fair, T, FALSE)]
  BY <1>1 DEF ProcessRun
<1>3. /\ co \in [Coro -> Coroutine] /\ st \in [Item -> ItemStatus]
      /\ Live' = Live /\ Live \in SUBSET Run /\ r \in Run
  BY DEF TypeOK, Live
<1>4. Ready(st', r) \subseteq T \/ Left(st', Live, r) <= Cardinality(T)
  BY <1>3, ChoosesAll
<1> HIDE DEF T
<1>5. \A i \in Item : \/ st'[i] = st[i]
                      \/ st[i] = "pending" /\ st'[i] = "dep_failed" /\ RunOf[i] = r
  BY <1>1, <1>3, CascadeLocal
<1>6. OnBackend(st, Live) \subseteq OnBackend(st', Live)
  BY <1>5 DEF OnBackend, Active
<1>7. ASSUME NEW x \in Live, x # r, Served(x) PROVE Served(x)'
  <2>1. \A i \in ItemsOf(x) : st'[i] = st[i]
    BY <1>5, <1>7 DEF ItemsOf
  <2>2. x \in Contending(st', Live) => Left(st', Live, x) <= 0
    BY <2>1, <1>3, <1>6, <1>7, OthersServed DEF Served
  <2> QED
    BY <2>2, <1>3 DEF Served
<1>8. CASE T = {}
  <2>1. co'[p] = Returned(caller)
    BY <1>2, <1>3, <1>8
  <2>2. co'[p].op \notin {"submitting", "hooks"}
    BY <2>1 DEF Returned, Idle
  <2>3. Served(r)'
    <3>1. Cardinality({}) = 0
      BY FS_EmptySet
    <3>2. Ready(st', r) = {} \/ Left(st', Live, r) <= 0
      BY <1>4, <1>8, <3>1
    <3> QED
      BY <3>2, <1>3 DEF Served, Contending
  <2> QED
    BY <2>2, <2>3, <1>3, <1>7 DEF GreedyOf
<1>9. CASE T # {}
  <2>1. co'[p] = Suspended(caller, "submitting", r, fair, T, FALSE)
    BY <1>2, <1>3, <1>9
  <2>2. /\ co'[p].todo = T /\ co'[p].run = r /\ co'[p].op = "submitting"
        /\ co'[p].fair = FALSE
    BY <2>1 DEF Suspended
  <2> QED
    BY <2>2, <1>3, <1>4, <1>7 DEF GreedyOf, Busy
<1> QED
  BY <1>8, <1>9

(* The submit loop goes on with todo, or ends.                             *)
LEMMA GreedyContinue ==
    ASSUME TypeOK, NEW p \in Coro, GreedyOf(p), Submitting(p),
           NEW r \in Live, r = co[p].run, NEW todo, NEW hit, Continue(p, todo, hit), UNCHANGED <<phase, poll>>,
           \A i \in Item : st'[i] = st[i] \/ RunOf[i] = r,
           OnBackend(st, Live) \subseteq OnBackend(st', Live),
           hit \/ Ready(st', r) \subseteq todo \/ Left(st', Live, r) <= Cardinality(todo)
    PROVE  GreedyOf(p)'
<1> DEFINE c == IF todo # {}
                THEN Suspended(co[p].caller, "submitting", r, co[p].fair, todo, hit)
                ELSE IF hit
                THEN Suspended(co[p].caller, "hooks", r, co[p].fair, {}, hit)
                ELSE Returned(co[p].caller)
<1>1. co'[p] = c /\ Live' = Live /\ Live \in SUBSET Run
  BY DEF Continue, TypeOK, Live
<1>2. /\ c.op \in {"submitting", "hooks"} => c.run = r /\ c.fair = co[p].fair
      /\ c.op = "submitting" => c.todo = todo /\ c.hit = hit
      /\ c.op \notin {"submitting", "hooks"} => todo = {} /\ ~hit
  BY DEF Suspended, Returned, Idle
<1>3. co[p].fair = FALSE
  BY DEF GreedyOf, Submitting
<1>4. ASSUME NEW x \in Live, x # r, \A k \in DOMAIN poll.queue : poll.queue[k] # x
      PROVE  Served(x)'
  <2>1. Served(x)
    BY <1>4 DEF GreedyOf, Busy
  <2>2. \A i \in ItemsOf(x) : st'[i] = st[i]
    BY <1>4 DEF ItemsOf
  <2>3. x \in Contending(st', Live) => Left(st', Live, x) <= 0
    BY <2>1, <2>2, <1>1, OthersServed DEF Served
  <2> QED
    BY <2>3, <1>1 DEF Served
<1>5. ASSUME todo = {}, ~hit PROVE Served(r)'
  <2>1. Cardinality({}) = 0
    BY FS_EmptySet
  <2>2. Ready(st', r) = {} \/ Left(st', Live, r) <= 0
    BY <1>5, <2>1
  <2> QED
    BY <2>2, <1>1 DEF Served, Contending
<1> HIDE DEF c
<1>6. \A x \in Live' : (\A k \in DOMAIN poll'.queue : poll'.queue[k] # x) =>
                          Busy(p, x)' \/ Served(x)'
  <2> SUFFICES ASSUME NEW x \in Live, \A k \in DOMAIN poll.queue : poll.queue[k] # x
               PROVE  Busy(p, x)' \/ Served(x)'
    BY <1>1
  <2>1. CASE x # r
    BY <2>1, <1>4
  <2>2. CASE x = r /\ c.op \in {"submitting", "hooks"}
    BY <2>2, <1>1, <1>2 DEF Busy
  <2>3. CASE x = r /\ c.op \notin {"submitting", "hooks"}
    BY <2>3, <1>2, <1>5
  <2> QED
    BY <2>1, <2>2, <2>3
<1>7. c.op = "submitting" /\ ~c.hit =>
         \/ Ready(st', c.run) \subseteq c.todo
         \/ Left(st', Live, c.run) <= Cardinality(c.todo)
  BY <1>2
<1> QED
  BY <1>1, <1>2, <1>3, <1>6, <1>7 DEF GreedyOf

LEMMA GreedyStep ==
    ASSUME Cardinality(Coro) = 1, SerialInv, GreedyInv, [Next]_vars
    PROVE  /\ GreedyInv'
           /\ poll.pass # "off" /\ poll'.pass = "off" =>
                \A r \in Contending(st', Live) : Left(st', Live, r) <= 0
<1> DEFINE Ended == \A r \in Contending(st', Live) : Left(st', Live, r) <= 0
           Goal == GreedyInv' /\ (poll.pass # "off" /\ poll'.pass = "off" => Ended)
<1>one. ASSUME NEW p \in Coro PROVE \A q \in Coro : q = p
  BY OneCoroutine
<1>ty. /\ TypeOK /\ co \in [Coro -> Coroutine] /\ st \in [Item -> ItemStatus]
       /\ poll \in Cycle /\ Live \in SUBSET Run
  BY DEF SerialInv, KnownInv, TypeOK, Live
<1>inv. \A p \in Coro : Fresh(p) /\ Paired(p)
  BY DEF SerialInv
<1>calm. ASSUME poll'.pass \notin {"off", "greedy"} PROVE Goal
  BY <1>calm DEF GreedyInv
<1>idle. ASSUME UNCHANGED poll, poll.pass # "greedy" PROVE Goal
  BY <1>idle DEF GreedyInv
<1>busy. ASSUME NEW p \in Coro, UNCHANGED poll, poll.pass = "greedy" => GreedyOf(p)' PROVE Goal
  BY <1>busy, <1>one DEF GreedyInv
<1>free. ASSUME NEW p \in Coro, Free(p) PROVE poll.pass \in {"off", "dead"}
  BY <1>free, <1>inv DEF Free, Paired
<1>greedy. ASSUME NEW p \in Coro, poll.pass = "greedy"
           PROVE  GreedyOf(p) /\ co[p].caller = "poll"
  BY <1>greedy, <1>inv DEF GreedyInv, Paired
<1>sub. ASSUME NEW p \in Coro, Submitting(p)
        PROVE  /\ co[p].run \in Live /\ co[p].todo \in SUBSET Item
               /\ \A i \in co[p].todo : /\ i \in Item /\ RunOf[i] = co[p].run
                                        /\ st[i] = "pending" /\ DepsSatisfied(st, i)
               /\ First(co[p].todo) \in co[p].todo
  <2>1. co[p].op = "submitting" /\ co[p].todo \in SUBSET Item
    BY <1>sub, <1>ty DEF Submitting, Coroutine
  <2>2. co[p].todo # {}
    BY <2>1 DEF SerialInv, KnownInv, CoKnown
  <2>3. First(co[p].todo) \in co[p].todo
    BY <2>1, <2>2, FirstIn
  <2>4. Fresh(p)
    BY <1>inv
  <2> QED
    BY <2>1, <2>3, <2>4 DEF Fresh
<1>1. ASSUME NEW p \in Coro, SubmitAccepted(p) PROVE Goal
  <2> DEFINE i == First(co[p].todo)
  <2>0. PICK r \in Live : r = co[p].run
    BY <1>sub, <1>1 DEF SubmitAccepted
  <2>1. /\ Submitting(p) /\ UNCHANGED <<phase, poll>>
        /\ Continue(p, co[p].todo \ {i}, co[p].hit)
        /\ st' = [st EXCEPT ![i] = "submitted"]
    BY <2>0, <1>1 DEF SubmitAccepted
  <2>2. /\ i \in co[p].todo /\ i \in ItemsOf(r) /\ r \in Live
        /\ st[i] = "pending" /\ DepsSatisfied(st, i) /\ co[p].todo \in SUBSET Item
    BY <2>0, <2>1, <1>sub DEF ItemsOf
  <2> HIDE DEF i
  <2>3. /\ Ready(st', r) \subseteq Ready(st, r) \ {i}
        /\ OnBackend(st, Live) \subseteq OnBackend(st', Live)
        /\ Left(st', Live, r) <= Left(st, Live, r) - 1
    <3>1. PICK j \in ItemsOf(r) : j = i /\ st[j] = "pending" /\ DepsSatisfied(st, j)
      BY <2>2
    <3>2. st' = [st EXCEPT ![j] = "submitted"]
      BY <2>1, <3>1
    <3>3. /\ Ready(st', r) \subseteq Ready(st, r) \ {j}
          /\ OnBackend(st, Live) \subseteq OnBackend(st', Live)
          /\ Left(st', Live, r) <= Left(st, Live, r) - 1
      BY <3>1, <3>2, <1>ty, TakesSlot
    <3> QED
      BY <3>1, <3>3
  <2>4. \A j \in Item : st'[j] = st[j] \/ RunOf[j] = r
    BY <2>1, <2>2, <1>ty DEF ItemsOf
  <2>5. ASSUME poll.pass = "greedy" PROVE GreedyOf(p)'
    <3>1. GreedyOf(p)
      BY <2>5, <1>greedy
    <3>2. ASSUME ~co[p].hit
          PROVE  \/ Ready(st', r) \subseteq co[p].todo \ {i}
                 \/ Left(st', Live, r) <= Cardinality(co[p].todo \ {i})
      <4>1. \/ Ready(st, r) \subseteq co[p].todo
            \/ Left(st, Live, r) <= Cardinality(co[p].todo)
        BY <2>0, <2>1, <3>1, <3>2 DEF GreedyOf, Submitting
      <4>2. /\ Cardinality(co[p].todo \ {i}) = Cardinality(co[p].todo) - 1
            /\ Cardinality(co[p].todo) \in Nat
        BY <2>2, ItemsFinite, FS_RemoveElement
      <4>3. Left(st', Live, r) \in Int /\ Left(st, Live, r) \in Int
        BY <2>2, <1>ty, SlotsMin
      <4>4. CASE Ready(st, r) \subseteq co[p].todo
        BY <4>4, <2>3
      <4>5. CASE Left(st, Live, r) <= Cardinality(co[p].todo)
        BY <4>2, <4>3, <4>5, <2>3
      <4> QED
        BY <4>1, <4>4, <4>5
    <3> QED
      BY <2>1, <2>2, <2>3, <2>4, <3>1, <3>2, <2>0, <1>ty, GreedyContinue
  <2> QED
    BY <2>1, <2>5, <1>busy
<1>2. ASSUME NEW p \in Coro, SubmitCached(p) PROVE Goal
  <2> DEFINE i == First(co[p].todo)
  <2>0. PICK r \in Live : r = co[p].run
    BY <1>sub, <1>2 DEF SubmitCached
  <2>1. /\ Submitting(p) /\ UNCHANGED <<phase, poll>>
        /\ Continue(p, co[p].todo \ {i}, TRUE)
        /\ st' = [st EXCEPT ![i] = "completed"]
    BY <2>0, <1>2 DEF SubmitCached
  <2>2. i \in ItemsOf(r) /\ r \in Live /\ st[i] = "pending"
    BY <2>0, <2>1, <1>sub DEF ItemsOf
  <2> HIDE DEF i
  <2>3. OnBackend(st, Live) \subseteq OnBackend(st', Live)
    BY <2>1, <2>2, <1>ty DEF OnBackend, Active
  <2>4. \A j \in Item : st'[j] = st[j] \/ RunOf[j] = r
    BY <2>1, <2>2, <1>ty DEF ItemsOf
  <2>5. ASSUME poll.pass = "greedy" PROVE GreedyOf(p)'
    <3>1. GreedyOf(p)
      BY <2>5, <1>greedy
    <3> QED
      BY <2>1, <2>2, <2>3, <2>4, <3>1, <2>0, <1>ty, GreedyContinue
  <2> QED
    BY <2>1, <2>5, <1>busy
<1>3. ASSUME NEW p \in Coro, SubmitRefused(p) PROVE Goal
  <2> DEFINE i == First(co[p].todo)
             halted == [st EXCEPT ![i] = "failed"]
  <2>0. PICK r \in Live : r = co[p].run
    BY <1>sub, <1>3 DEF SubmitRefused
  <2>1. /\ Submitting(p) /\ UNCHANGED <<phase, poll>>
        /\ Continue(p, {}, co[p].hit)
        /\ st' = [j \in Item |->
                    IF j \in With(halted, r, {"pending"}) THEN "failed" ELSE halted[j]]
    BY <2>0, <1>3 DEF SubmitRefused
  <2>2. i \in ItemsOf(r) /\ r \in Live /\ st[i] = "pending"
    BY <2>0, <2>1, <1>sub DEF ItemsOf
  <2>3. /\ \A j \in Item : \/ st'[j] = st[j]
                           \/ st[j] = "pending" /\ st'[j] = "failed" /\ RunOf[j] = r
        /\ \A j \in ItemsOf(r) : st'[j] # "pending"
    BY <2>1, <2>2, <1>ty DEF With, ItemsOf
  <2> HIDE DEF i, halted
  <2>4. OnBackend(st, Live) \subseteq OnBackend(st', Live)
    BY <2>3 DEF OnBackend, Active
  <2>5. Ready(st', r) \subseteq {}
    BY <2>3 DEF Ready, With
  <2>6. ASSUME poll.pass = "greedy" PROVE GreedyOf(p)'
    <3>1. GreedyOf(p)
      BY <2>6, <1>greedy
    <3> QED
      BY <2>1, <2>2, <2>3, <2>4, <2>5, <3>1, <2>0, <1>ty, GreedyContinue
  <2> QED
    BY <2>1, <2>6, <1>busy
<1>4. ASSUME NEW p \in Coro, SubmitRaises(p) PROVE Goal
  <2>1. [PollOff EXCEPT !.pass = "dead"].pass = "dead"
    BY DEF PollOff
  <2>2. CASE co[p].caller = "request" /\ UNCHANGED poll
    BY <2>2, <1>greedy, <1>idle
  <2>3. CASE /\ poll.pass = "resolve"
             /\ poll' = [poll EXCEPT !.queue = <<>>, !.size = Cardinality(Live)]
    <3>1. poll'.pass = "resolve"
      BY <2>3, <1>ty DEF Cycle
    <3> QED
      BY <3>1, <1>calm
  <2>4. CASE poll' = [PollOff EXCEPT !.pass = "dead"]
    BY <2>1, <2>4, <1>calm
  <2> QED
    BY <1>4, <2>2, <2>3, <2>4 DEF SubmitRaises
<1>5. ASSUME NEW p \in Coro, HooksReturn(p) PROVE Goal
  <2>1. /\ ProcessRun(p, co[p].caller, st, Live, co[p].run, co[p].fair)
        /\ UNCHANGED <<phase, poll>> /\ co[p].op = "hooks"
    BY <1>5 DEF HooksReturn
  <2>2. co[p].caller \in Caller /\ co[p].run \in Live
    BY <2>1, <1>ty, <1>inv DEF Coroutine, Fresh
  <2>3. ASSUME poll.pass = "greedy" PROVE GreedyOf(p)'
    <3>1. GreedyOf(p)
      BY <2>3, <1>greedy
    <3>2. co[p].fair = FALSE
      BY <2>1, <3>1 DEF GreedyOf
    <3>3. \A x \in Live : (\A k \in DOMAIN poll'.queue : poll'.queue[k] # x) /\ x # co[p].run
            => Served(x)
      BY <2>1, <3>1 DEF GreedyOf, Busy
    <3>4. ASSUME NEW caller \in Caller, NEW r \in Live, NEW fair, fair = FALSE, r = co[p].run,
                 ProcessRun(p, caller, st, Live, r, fair)
          PROVE  GreedyOf(p)'
      BY <2>1, <3>3, <3>4, <1>ty, GreedyProcessRun
    <3> QED
      BY <2>1, <2>2, <3>2, <3>4
  <2> QED
    BY <2>1, <2>3, <1>busy
<1>6. ASSUME NEW p \in Coro, CancelReturns(p) PROVE Goal
  <2>1. co[p].op = "cancelling" /\ UNCHANGED poll
    BY <1>6 DEF CancelReturns
  <2>2. poll.pass # "greedy"
    BY <2>1, <1>inv DEF Paired
  <2> QED
    BY <2>1, <2>2, <1>idle
<1>7. ASSUME NEW p \in Coro, Request(p) PROVE Goal
  <2>1. Free(p) /\ UNCHANGED poll
    BY <1>7 DEF Request, Create, Rerun, Delete, Cancel
  <2> QED
    BY <2>1, <1>free, <1>idle
<1>8. ASSUME NEW p \in Coro, PollStart(p) PROVE Goal
  <2>1. poll'.pass = "resolve"
    BY <1>8 DEF PollStart, BeginPass
  <2> QED
    BY <2>1, <1>calm
<1>9. ASSUME NEW p \in Coro, PollNextPass(p) PROVE Goal
  <2>1. /\ Polling(p) /\ Len(poll.queue) = 0 /\ UNCHANGED <<phase, st>> /\ Live' = Live
    BY <1>9 DEF PollNextPass, Live
  <2>2. CASE \E q \in Orders(Live) : BeginPass("update", q)
    BY <2>2, <1>calm DEF BeginPass
  <2>3. CASE \E q \in Orders(Contending(st, Live)) : BeginPass("fair", q)
    BY <2>3, <1>calm DEF BeginPass
  <2>4. CASE /\ UNCHANGED co
             /\ \E q \in Orders(Contending(st, Live)) : BeginPass("greedy", q)
    <3>1. PICK q \in Orders(Contending(st, Live)) : BeginPass("greedy", q)
      BY <2>4
    <3>2. poll'.queue = q /\ poll'.pass = "greedy"
      BY <3>1 DEF BeginPass
    <3>3. Contending(st, Live) \in SUBSET Run
      BY <1>ty DEF Contending
    <3>4. \A x \in Live : (\A k \in DOMAIN poll'.queue : poll'.queue[k] # x) => Served(x)
      BY <3>2, <3>3, OrderListsAll DEF Served
    <3>5. \A x \in Live : Served(x) => Served(x)'
      BY <2>1 DEF Served
    <3>6. co'[p].op = "polling"
      BY <2>1, <2>4 DEF Polling
    <3>7. GreedyOf(p)'
      BY <2>1, <3>4, <3>5, <3>6 DEF GreedyOf
    <3> QED
      BY <3>2, <3>7, <1>one DEF GreedyInv
  <2>5. CASE poll.pass = "greedy" /\ poll' = PollOff
    <3>1. poll'.pass = "off"
      BY <2>5 DEF PollOff
    <3>2. GreedyOf(p) /\ co[p].op = "polling"
      BY <2>1, <2>5, <1>greedy DEF Polling
    <3>3. DOMAIN poll.queue = {}
      BY <2>1, <1>ty DEF Cycle
    <3>4. \A x \in Live : Served(x)
      BY <3>2, <3>3 DEF GreedyOf, Busy
    <3>5. Ended
      BY <2>1, <3>4 DEF Served, Contending
    <3> QED
      BY <3>1, <3>5 DEF GreedyInv
  <2> HIDE DEF Goal
  <2> QED
    BY <1>9, <2>2, <2>3, <2>4, <2>5 DEF PollNextPass, NeediestFirst
<1>10. ASSUME NEW p \in Coro, PollRaises(p) PROVE Goal
  <2>1. poll'.pass \in {"update", "dead"}
    BY <1>10 DEF PollRaises, BeginPass, PollOff
  <2> QED
    BY <2>1, <1>calm
<1>11. ASSUME NEW p \in Coro, PollResolve(p) \/ PollUpdate(p) PROVE Goal
  <2>1. Advance /\ poll.pass \in {"resolve", "update"}
    BY <1>11 DEF PollResolve, PollUpdate, Visiting
  <2>2. poll'.pass = poll.pass
    BY <2>1, <1>ty DEF Advance, Cycle
  <2> QED
    BY <2>1, <2>2, <1>calm
<1>12. ASSUME NEW p \in Coro, PollServe(p) PROVE Goal
  <2> DEFINE r == Head(poll.queue)
  <2>1. /\ Visiting(p, "fair") \/ Visiting(p, "greedy")
        /\ Advance /\ UNCHANGED phase
        /\ ProcessRun(p, "poll", st, Live, r, poll.pass = "fair")
    BY <1>12 DEF PollServe
  <2>2. poll'.pass = poll.pass /\ poll'.queue = Tail(poll.queue)
        /\ poll.queue \in Seq(Run) /\ Len(poll.queue) > 0
    BY <2>1, <1>ty DEF Advance, Cycle, Visiting
  <2>3. CASE Visiting(p, "fair")
    BY <2>2, <2>3, <1>calm DEF Visiting
  <2>4. CASE Visiting(p, "greedy")
    <3>1. poll.pass = "greedy" /\ co[p].op = "polling"
      BY <2>4 DEF Visiting, Polling
    <3>2. GreedyOf(p) /\ r \in Live
      BY <2>4, <3>1, <1>ty, <1>greedy, HeadLive DEF SerialInv
    <3>3. ASSUME NEW x, \A k \in DOMAIN poll'.queue : poll'.queue[k] # x, x # r
          PROVE  \A k \in DOMAIN poll.queue : poll.queue[k] # x
      <4> SUFFICES ASSUME NEW k \in DOMAIN poll.queue PROVE poll.queue[k] # x
        OBVIOUS
      <4>1. CASE k = 1
        BY <2>2, <3>3, <4>1
      <4>2. CASE k # 1
        <5>1. k - 1 \in DOMAIN Tail(poll.queue) /\ Tail(poll.queue)[k - 1] = poll.queue[k]
          BY <2>2, <4>2
        <5> QED
          BY <5>1, <2>2, <3>3
      <4> QED
        BY <4>1, <4>2
    <3>4. \A x \in Live : (\A k \in DOMAIN poll'.queue : poll'.queue[k] # x) /\ x # r
            => Served(x)
      BY <3>1, <3>2, <3>3 DEF GreedyOf, Busy
    <3>5. ASSUME NEW caller \in Caller, NEW y \in Live, NEW fair, fair = FALSE, y = r,
                 ProcessRun(p, caller, st, Live, y, fair)
          PROVE  GreedyOf(p)'
      BY <2>1, <3>4, <3>5, <1>ty, GreedyProcessRun
    <3>6. "poll" \in Caller /\ (poll.pass = "fair") = FALSE
      BY <3>1 DEF Caller
    <3>7. GreedyOf(p)'
      BY <2>1, <3>2, <3>5, <3>6
    <3> QED
      BY <2>2, <3>1, <3>7, <1>one DEF GreedyInv
  <2> QED
    BY <2>1, <2>3, <2>4
<1>13. ASSUME UNCHANGED <<phase, st, co, poll>> PROVE Goal
  <2>1. Live' = Live
    BY <1>13 DEF Live
  <2>2. ASSUME NEW p \in Coro, GreedyOf(p) PROVE GreedyOf(p)'
    <3>1. co' = co /\ st' = st /\ poll' = poll
      BY <1>13
    <3> QED
      BY <2>1, <2>2, <3>1 DEF GreedyOf, Busy, Served
  <2> QED
    BY <2>2, <1>13 DEF GreedyInv
<1> HIDE DEF Goal
<1>14. ASSUME NEW i \in Item, JobEnds(i) \/ LostJobEnds(i) PROVE Goal
  BY <1>14, <1>13 DEF JobEnds, LostJobEnds
<1>15. ASSUME UNCHANGED vars PROVE Goal
  <2>1. UNCHANGED <<phase, st, co, poll>>
    BY <1>15 DEF vars
  <2> QED
    BY <2>1, <1>13
<1>16. ASSUME NEW p \in Coro, Resume(p) \/ PollStep(p) PROVE Goal
  BY <1>16, <1>1, <1>2, <1>3, <1>4, <1>5, <1>6, <1>9, <1>10, <1>11, <1>12
     DEF Resume, PollStep
<1>17. Goal
  BY <1>7, <1>8, <1>14, <1>15, <1>16 DEF Next
<1> QED
  BY <1>17 DEF Goal

(* "Capacity is never left idle": when a poll cycle ends, a run with work  *)
(* it may submit is held back by a cap that is used up, and by nothing     *)
(* else.                                                                   *)
THEOREM SerialNoSlotLeftIdle ==
    ASSUME Cardinality(Coro) = 1
    PROVE  Spec => NoSlotLeftIdle
<1> DEFINE Inv == SerialInv /\ GreedyInv
<1>1. Init => Inv
  BY SerialInit DEF Init, PollOff, GreedyInv
<1>2. Inv /\ [Next]_vars => Inv'
  BY SerialStep, GreedyStep
<1>3. Inv /\ [Next]_vars =>
        [poll.pass # "off" /\ poll'.pass = "off" =>
           \A r \in Contending(st', Live) : Slots(st', Live, r, FALSE) <= 0]_vars
  BY GreedyStep DEF Left
<1> QED
  BY <1>1, <1>2, <1>3, PTL DEF Spec, NoSlotLeftIdle

-----------------------------------------------------------------------------
(* Items that wait for what has failed.                                    *)

(* What the cascade marks has a dependency that is FAILED or marked too:   *)
(* without it the item could be left out of the set.                       *)
LEMMA CascadeReason ==
    ASSUME NEW s \in [Item -> ItemStatus], NEW r, NEW i \in Item,
           s[i] # "dep_failed", Cascade(s, r)[i] = "dep_failed"
    PROVE  FailedDeps(Cascade(s, r), i) # {}
<1> DEFINE P == With(s, r, {"pending"})
           D == Doomed(s, r)
           X == D \ {i}
<1>1. /\ i \in D /\ D \subseteq P
      /\ \A j \in D : \A Y \in SUBSET P : ClosedUnderFailure(s, r, Y) => j \in Y
      /\ \A j \in P : (\A Y \in SUBSET P : ClosedUnderFailure(s, r, Y) => j \in Y) => j \in D
  BY DEF Doomed, Cascade
<1>2. \A d \in Item : s[d] \in TerminalFailure \/ d \in D =>
        Cascade(s, r)[d] \in TerminalFailure
  BY DEF Cascade, TerminalFailure
<1>3. P \subseteq Item
  BY DEF With, ItemsOf
<1> SUFFICES ASSUME \A d \in Deps[i] : s[d] \notin TerminalFailure /\ d \notin D
             PROVE  FALSE
  BY <1>2, RunModelAssumption DEF FailedDeps
<1> HIDE DEF P, D
<1>4. ClosedUnderFailure(s, r, X)
  <2> SUFFICES ASSUME NEW j \in P, FailedDeps(s, j) # {} \/ Deps[j] \cap X # {}
               PROVE  j \in X
    BY DEF ClosedUnderFailure, P
  <2>1. j # i
    BY DEF FailedDeps
  <2>2. ASSUME NEW Y \in SUBSET P, ClosedUnderFailure(s, r, Y) PROVE j \in Y
    <3>1. FailedDeps(s, j) # {} \/ Deps[j] \cap Y # {}
      BY <1>1, <2>2
    <3> QED
      BY <3>1, <2>2 DEF ClosedUnderFailure, P
  <2> QED
    BY <1>1, <2>1, <2>2
<1>5. X \in SUBSET P
  BY <1>1
<1> QED
  BY <1>1, <1>4, <1>5

(* An item becomes DEP_FAILED by the cascade of process_run only.          *)
LEMMA NewlyDepFailed ==
    ASSUME TypeOK, [Next]_vars, NEW i \in Item,
           st[i] # "dep_failed", st'[i] = "dep_failed"
    PROVE  FailedDeps(st', i) # {}
<1>ty. st \in [Item -> ItemStatus]
  BY DEF TypeOK
<1>st. /\ {"pending", "submitted", "running", "settling", "completed", "failed"}
             \subseteq ItemStatus
       /\ "dep_failed" \notin {"pending", "submitted", "running", "settling",
                               "completed", "failed"}
  BY DEF ItemStatus, Status
<1>run. ASSUME NEW p, NEW caller, NEW s \in [Item -> ItemStatus], NEW lv, NEW r, NEW fair,
               s[i] # "dep_failed", ProcessRun(p, caller, s, lv, r, fair)
        PROVE  FailedDeps(st', i) # {}
  <2>1. st' = Cascade(s, r)
    BY <1>run DEF ProcessRun
  <2> QED
    BY <1>run, <2>1, CascadeReason
<1>turn. ASSUME NEW S, NEW status \in ItemStatus \ {"dep_failed"}, NEW s \in [Item -> ItemStatus],
                s[i] # "dep_failed"
         PROVE  Turned(S, status, s) \in [Item -> ItemStatus] /\ Turned(S, status, s)[i] # "dep_failed"
  BY <1>turn DEF Turned
<1>1. CASE UNCHANGED st
  BY <1>1
<1>2. ASSUME NEW p \in Coro, Resume(p) PROVE FailedDeps(st', i) # {}
  <2>1. CASE SubmitAccepted(p) \/ SubmitCached(p) \/ SubmitRefused(p) \/ SubmitRaises(p)
    BY <2>1, <1>ty DEF SubmitAccepted, SubmitCached, SubmitRefused, SubmitRaises
  <2>2. CASE HooksReturn(p)
    BY <2>2, <1>run, <1>ty DEF HooksReturn
  <2>3. CASE CancelReturns(p)
    BY <2>3, <1>ty DEF CancelReturns, CancelFrom
  <2> QED
    BY <1>2, <2>1, <2>2, <2>3 DEF Resume
<1>3. ASSUME NEW p \in Coro, Request(p) PROVE FailedDeps(st', i) # {}
  <2> PICK r \in Run : Create(p, r) \/ Rerun(p, r) \/ Delete(p, r) \/ Cancel(p, r)
    BY <1>3 DEF Request
  <2>1. CASE Create(p, r)
    BY <2>1, <1>run, <1>ty DEF Create
  <2>2. CASE Rerun(p, r)
    <3> DEFINE s == [j \in Item |-> IF RunOf[j] = r THEN "pending" ELSE st[j]]
    <3>1. s \in [Item -> ItemStatus] /\ s[i] # "dep_failed"
      BY <1>ty, <1>st
    <3>2. ProcessRun(p, "request", s, Live, r, TRUE)
      BY <2>2 DEF Rerun
    <3> QED
      BY <3>1, <3>2, <1>run
  <2>3. CASE Delete(p, r)
    BY <2>3 DEF Delete
  <2>4. CASE Cancel(p, r)
    BY <2>4 DEF Cancel, CancelFrom
  <2> QED
    BY <2>1, <2>2, <2>3, <2>4
<1>4. ASSUME NEW p \in Coro, PollStep(p) PROVE FailedDeps(st', i) # {}
  <2>1. CASE PollNextPass(p) \/ PollRaises(p)
    BY <2>1 DEF PollNextPass, PollRaises
  <2>2. CASE PollResolve(p)
    <3> PICK ok, bad :
          LET r == Head(poll.queue)
              new == Turned(ok, "completed", Turned(bad, "failed", st))
          IN  \/ ProcessRun(p, "poll", new, Live, r, TRUE)
              \/ st' = new
      BY <2>2 DEF PollResolve
    <3> DEFINE new == Turned(ok, "completed", Turned(bad, "failed", st))
    <3>1. new \in [Item -> ItemStatus] /\ new[i] # "dep_failed"
      BY <1>turn, <1>ty, <1>st
    <3> HIDE DEF new
    <3>2. ProcessRun(p, "poll", new, Live, Head(poll.queue), TRUE) \/ st' = new
      BY DEF new
    <3> QED
      BY <3>1, <3>2, <1>run
  <2>3. CASE PollUpdate(p)
    <3> PICK seen, settled, bad :
          LET r == Head(poll.queue)
              new == Turned(seen, "running", Turned(settled, "settling", Turned(bad, "failed", st)))
          IN  \/ ProcessRun(p, "poll", new, Live, r, TRUE)
              \/ st' = st
      BY <2>3 DEF PollUpdate
    <3> DEFINE new == Turned(seen, "running", Turned(settled, "settling", Turned(bad, "failed", st)))
    <3>1. Turned(settled, "settling", Turned(bad, "failed", st)) \in [Item -> ItemStatus]
          /\ Turned(settled, "settling", Turned(bad, "failed", st))[i] # "dep_failed"
      BY <1>turn, <1>ty, <1>st
    <3>2. new \in [Item -> ItemStatus] /\ new[i] # "dep_failed"
      BY <3>1, <1>turn, <1>st
    <3> HIDE DEF new
    <3>3. ProcessRun(p, "poll", new, Live, Head(poll.queue), TRUE) \/ st' = st
      BY DEF new
    <3> QED
      BY <3>2, <3>3, <1>run
  <2>4. CASE PollServe(p)
    BY <2>4, <1>run, <1>ty DEF PollServe
  <2> QED
    BY <1>4, <2>1, <2>2, <2>3, <2>4 DEF PollStep
<1>5. CASE \E p \in Coro : PollStart(p)
  BY <1>5 DEF PollStart
<1>6. CASE \E j \in Item : JobEnds(j) \/ LostJobEnds(j)
  BY <1>6 DEF JobEnds, LostJobEnds
<1> QED
  BY <1>1, <1>2, <1>3, <1>4, <1>5, <1>6 DEF Next, vars

(* A DEP_FAILED item has a dependency that failed: what has failed stays   *)
(* so until the run is rerun, which puts back what waits for it too.  With *)
(* two coroutines a submission that is answered after a cancel takes the   *)
(* reason away.                                                            *)
THEOREM SerialDepFailedHasReason ==
    ASSUME Cardinality(Coro) = 1
    PROVE  Spec => []DepFailedHasReason
<1>1. Init => DepFailedHasReason
  BY DEF Init, DepFailedHasReason
<1>2. ASSUME SerialInv, DepFailedHasReason, [Next]_vars PROVE DepFailedHasReason'
  <2> SUFFICES ASSUME NEW i \in Item, st'[i] = "dep_failed" PROVE FailedDeps(st', i) # {}
    BY DEF DepFailedHasReason, FailedDeps
  <2>1. CASE st[i] # "dep_failed"
    BY <1>2, <2>1, NewlyDepFailed DEF SerialInv, KnownInv
  <2>2. CASE st[i] = "dep_failed"
    <3>1. PICK d \in Deps[i] : st[d] \in TerminalFailure
      BY <1>2, <2>2 DEF DepFailedHasReason, FailedDeps
    <3>2. d \in Item /\ RunOf[d] = RunOf[i]
      BY RunModelAssumption
    <3>3. st'[d] = st[d]
      <4>1. CASE \A j \in Item : Moves(j)
        BY <3>1, <3>2, <4>1 DEF Moves, Corrected, TerminalFailure, Active
      <4>2. CASE Restarts
        BY <3>2, <4>2 DEF Restarts
      <4> QED
        BY <1>2, <4>1, <4>2, SerialStep
    <3> QED
      BY <3>1, <3>3 DEF FailedDeps
  <2> QED
    BY <2>1, <2>2
<1> QED
  BY <1>1, <1>2, NothingGoesStale, PTL DEF Spec
=============================================================================
