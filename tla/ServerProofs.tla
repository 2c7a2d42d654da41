---------------------------- MODULE ServerProofs ----------------------------
(* Proofs about the components of the running server: announcements, the    *)
(* SSH connection, the disk service. Each has an inductive invariant of its *)
(* own; in the composition the others stand still.                          *)
EXTENDS Server, FiniteSetTheorems, WellFoundedInduction, TLAPS

-----------------------------------------------------------------------------
(* The announcements. While a run waits for its first submissions nothing   *)
(* of it has been announced; from then on its failures are counted by the   *)
(* hub's memory, and an end that was announced is what the hub remembers.   *)

TaskStates == {"absent", "waiting", "completed", "failed"}
Statuses == {"absent", "active", "completed", "failed"}

PagesTyped ==
    /\ items \in [PageRuns -> [Tasks -> TaskStates]]
    /\ creating \in [PageRuns -> {"nobody", "web", "api"}]
    /\ _run_status \in [PageRuns -> Statuses]
    /\ seen \in [PageRuns -> BOOLEAN]
    /\ done \in [PageRuns -> {0, 1}]
    /\ failed \in [PageRuns -> [Tasks -> {0, 1}]]

Untold(r) == ~seen[r] /\ done[r] = 0 /\ \A t \in Tasks : failed[r][t] = 0

Unknown(r) ==
    _run_status[r] = "absent" /\ \A t \in Tasks : <<r, t>> \notin _notified_failures

(* Before a run exists the hub knows nothing of it.                         *)
NothingBefore(r) == items[r] = V!Absent => Untold(r) /\ Unknown(r)

(* A run whose first submissions are awaited has announced nothing; one     *)
(* that was created through the API is new.                                 *)
NothingWhileCreating(r) ==
    /\ creating[r] # "nobody" => Untold(r)
    /\ creating[r] = "api" => Unknown(r)

(* Afterwards a failure has been announced when it is in the hub's memory.  *)
FailuresCounted(r) ==
    creating[r] = "nobody" =>
        \A t \in Tasks : failed[r][t] = IF <<r, t>> \in _notified_failures THEN 1 ELSE 0

(* An announced end is the present one, with all its failures.              *)
EndIsTold(r) ==
    done[r] = 1 => /\ V!Status(r) \in V!_TERMINAL /\ _run_status[r] = V!Status(r)
                   /\ \A t \in Tasks : items[r][t] = "failed" => <<r, t>> \in _notified_failures

(* A run known as active is remembered as active or was announced.          *)
SeenIsKnown(r) ==
    seen[r] => \/ _run_status[r] = "active"
               \/ _run_status[r] \in V!_TERMINAL /\ done[r] = 1

Told(r) == /\ NothingBefore(r) /\ NothingWhileCreating(r) /\ FailuresCounted(r)
           /\ EndIsTold(r) /\ SeenIsKnown(r)

PagesInv == PagesTyped /\ \A r \in PageRuns : Told(r)

(* What a run's status says of its tasks.                                   *)
LEMMA StatusMeans ==
    ASSUME PagesTyped, NEW r \in PageRuns
    PROVE  /\ V!Status(r) \in Statuses
           /\ V!Status(r) = "absent" => items[r] = V!Absent
           /\ items[r] = V!Absent => V!Status(r) = "absent"
           /\ V!Status(r) \in V!_TERMINAL => \A t \in Tasks : items[r][t] # "waiting"
           /\ items[r] = V!Absent => \A t \in Tasks : items[r][t] = "absent"
  <1>1. PICK u \in Tasks : TRUE
    BY PagesAssumption
  <1>2. items[r] = V!Absent => \A t \in Tasks : items[r][t] = "absent"
    BY DEF V!Absent
  <1>3. CASE items[r] = V!Absent
    <2>1. items[r][u] = "absent" /\ ~\E t \in Tasks : items[r][t] = "waiting"
      BY <1>1, <1>2, <1>3
    <2>2. V!Status(r) = "absent"
      BY <1>1, <1>3, <2>1 DEF V!Status
    <2> QED
      BY <1>2, <1>3, <2>2 DEF Statuses, V!_TERMINAL
  <1>4. CASE items[r] # V!Absent /\ \E t \in Tasks : items[r][t] = "waiting"
    <2>1. ~\A t \in Tasks : items[r][t] = "completed"
      BY <1>4
    <2>2. V!Status(r) = "active"
      BY <1>4, <2>1 DEF V!Status
    <2> QED
      BY <1>4, <2>2 DEF Statuses, V!_TERMINAL
  <1>5. CASE items[r] # V!Absent /\ ~\E t \in Tasks : items[r][t] = "waiting"
    <2>1. V!Status(r) \in {"completed", "failed"}
      BY <1>5 DEF V!Status
    <2> QED
      BY <1>5, <2>1 DEF Statuses, V!_TERMINAL
  <1> QED
    BY <1>3, <1>4, <1>5

(* A step that leaves a run and what the hub knows of it alone.             *)
LEMMA ToldStays ==
    ASSUME NEW r \in PageRuns, Told(r), items'[r] = items[r], creating'[r] = creating[r],
           _run_status'[r] = _run_status[r], seen'[r] = seen[r], done'[r] = done[r],
           failed'[r] = failed[r],
           \A t \in Tasks : <<r, t>> \in _notified_failures' <=> <<r, t>> \in _notified_failures
    PROVE  Told(r)'
  <1>1. V!Status(r)' = V!Status(r)
    BY DEF V!Status
  <1> QED
    BY <1>1 DEF Told, NothingBefore, NothingWhileCreating, FailuresCounted, EndIsTold,
                SeenIsKnown, Untold, Unknown

LEMMA PagesBegin == V!Init => PagesInv
  <1> SUFFICES ASSUME V!Init PROVE PagesInv
    OBVIOUS
  <1>1. PagesTyped
    BY DEF V!Init, V!Absent, PagesTyped, TaskStates, Statuses
  <1>2. ASSUME NEW r \in PageRuns PROVE Told(r)
    BY DEF V!Init, Told, NothingBefore, NothingWhileCreating, FailuresCounted, EndIsTold,
           SeenIsKnown, Untold, Unknown
  <1> QED
    BY <1>1, <1>2 DEF PagesInv

(* Every step keeps the invariant: one step per action.                     *)
LEMMA PagesStep == PagesInv /\ V!Next => PagesInv'
  <1> SUFFICES ASSUME PagesInv, V!Next PROVE PagesInv'
    OBVIOUS
  <1>0. PagesTyped /\ \A r \in PageRuns : Told(r)
    BY DEF PagesInv
  <1>1. ASSUME NEW r \in PageRuns, NEW route \in {"web", "api"}, V!Create(r, route)
        PROVE  PagesInv'
    <2>1. /\ items' = [items EXCEPT ![r] = V!Fresh]
          /\ creating' = [creating EXCEPT ![r] = route]
          /\ seen' = [seen EXCEPT ![r] = FALSE]
          /\ done' = [done EXCEPT ![r] = 0]
          /\ failed' = [failed EXCEPT ![r] = [t \in Tasks |-> 0]]
          /\ UNCHANGED <<_run_status, _notified_failures>>
          /\ V!Status(r) = "absent" \/ route = "web"
      BY <1>1 DEF V!Create
    <2>2. PagesTyped'
      BY <1>0, <2>1 DEF PagesTyped, V!Fresh, TaskStates
    <2>3. ASSUME NEW x \in PageRuns PROVE Told(x)'
      <3>1. CASE x # r
        BY <1>0, <2>1, <3>1, ToldStays DEF PagesTyped
      <3>2. CASE x = r
        <4>1. /\ items'[r] = V!Fresh /\ creating'[r] = route /\ ~seen'[r] /\ done'[r] = 0
              /\ \A t \in Tasks : failed'[r][t] = 0
          BY <1>0, <2>1 DEF PagesTyped
        <4>2. items'[r] # V!Absent
          BY <4>1, PagesAssumption DEF V!Fresh, V!Absent
        <4>3. route = "api" => Unknown(r)'
          BY <1>0, <2>1, StatusMeans DEF Told, NothingBefore, Unknown
        <4> QED
          BY <3>2, <4>1, <4>2, <4>3
             DEF Told, NothingBefore, NothingWhileCreating, FailuresCounted, EndIsTold,
                 SeenIsKnown, Untold
      <3> QED
        BY <3>1, <3>2
    <2> QED
      BY <2>2, <2>3 DEF PagesInv
  <1>2. ASSUME NEW r \in PageRuns, V!run_scheduled(r) PROVE PagesInv'
    <2>1. /\ creating[r] # "nobody" /\ UNCHANGED <<items, done, failed>>
          /\ creating' = [creating EXCEPT ![r] = "nobody"]
      BY <1>2 DEF V!run_scheduled
    <2>2. Untold(r) /\ (creating[r] = "api" => Unknown(r))
      BY <1>0, <2>1 DEF Told, NothingWhileCreating
    <2>a. V!Status(r) \in Statuses
      BY <1>0, StatusMeans
    <2>3. CASE creating[r] = "web"
      <3>1. /\ _run_status' = [_run_status EXCEPT ![r] = V!Status(r)]
            /\ _notified_failures' = {k \in _notified_failures : k[1] # r}
            /\ seen' = [seen EXCEPT ![r] = @ \/ V!Status(r) = "active"]
        BY <1>2, <2>3 DEF V!run_scheduled
      <3>2. PagesTyped'
        BY <1>0, <2>1, <2>a, <3>1 DEF PagesTyped
      <3>3. ASSUME NEW x \in PageRuns PROVE Told(x)'
        <4>1. CASE x # r
          BY <1>0, <2>1, <3>1, <4>1, ToldStays DEF PagesTyped
        <4>2. CASE x = r
          <5>1. /\ items'[r] = items[r] /\ creating'[r] = "nobody" /\ done'[r] = 0
                /\ \A t \in Tasks : failed'[r][t] = 0 /\ <<r, t>> \notin _notified_failures'
                /\ _run_status'[r] = V!Status(r) /\ (seen'[r] <=> V!Status(r) = "active")
            BY <1>0, <2>1, <2>2, <3>1 DEF PagesTyped, Untold
          <5>2. items[r] = V!Absent => V!Status(r) = "absent"
            BY <1>0, StatusMeans
          <5>3. NothingBefore(r)'
            BY <5>1, <5>2 DEF NothingBefore, Untold, Unknown
          <5>4. NothingWhileCreating(r)' /\ FailuresCounted(r)'
            BY <5>1 DEF NothingWhileCreating, FailuresCounted
          <5>5. EndIsTold(r)' /\ SeenIsKnown(r)'
            BY <5>1 DEF EndIsTold, SeenIsKnown
          <5> QED
            BY <4>2, <5>3, <5>4, <5>5 DEF Told
        <4> QED
          BY <4>1, <4>2
      <3> QED
        BY <3>2, <3>3 DEF PagesInv
    <2>4. CASE creating[r] = "api"
      <3>1. UNCHANGED <<_run_status, _notified_failures, seen>>
        BY <1>2, <2>4 DEF V!run_scheduled
      <3>2. PagesTyped'
        BY <1>0, <2>1, <3>1 DEF PagesTyped
      <3>3. ASSUME NEW x \in PageRuns PROVE Told(x)'
        <4>1. CASE x # r
          BY <1>0, <2>1, <3>1, <4>1, ToldStays DEF PagesTyped
        <4>2. CASE x = r
          BY <1>0, <2>1, <2>2, <2>4, <3>1, <4>2
             DEF PagesTyped, Told, NothingBefore, NothingWhileCreating, FailuresCounted,
                 EndIsTold, SeenIsKnown, Untold, Unknown
        <4> QED
          BY <4>1, <4>2
      <3> QED
        BY <3>2, <3>3 DEF PagesInv
    <2> QED
      BY <1>0, <2>1, <2>3, <2>4 DEF PagesTyped
  <1>3. ASSUME NEW r \in PageRuns, NEW t \in Tasks, V!Settle(r, t) PROVE PagesInv'
    <2>1. PICK s \in {"completed", "failed"} : items' = [items EXCEPT ![r][t] = s]
      BY <1>3 DEF V!Settle
    <2>2. /\ items[r][t] = "waiting"
          /\ UNCHANGED <<creating, _run_status, _notified_failures, seen, done, failed>>
      BY <1>3 DEF V!Settle
    <2>3. PagesTyped'
      BY <1>0, <2>1, <2>2 DEF PagesTyped, TaskStates
    <2>4. ASSUME NEW x \in PageRuns PROVE Told(x)'
      <3>1. CASE x # r
        BY <1>0, <2>1, <2>2, <3>1, ToldStays DEF PagesTyped
      <3>2. CASE x = r
        <4>1. V!Status(r) \notin V!_TERMINAL
          BY <1>0, <2>2, StatusMeans
        <4>2. done'[r] # 1
          BY <1>0, <2>2, <4>1 DEF Told, EndIsTold
        <4>3. items'[r] # V!Absent
          BY <1>0, <2>1 DEF PagesTyped, V!Absent
        <4> QED
          BY <1>0, <2>2, <3>2, <4>2, <4>3
             DEF Told, NothingBefore, NothingWhileCreating, FailuresCounted, EndIsTold,
                 SeenIsKnown, Untold, Unknown
      <3> QED
        BY <3>1, <3>2
    <2> QED
      BY <2>3, <2>4 DEF PagesInv
  <1>4. CASE V!Poll
    <2>1. /\ \A r \in PageRuns : creating[r] = "nobody"
          /\ UNCHANGED <<items, creating>>
          /\ _notified_failures' = _notified_failures \cup V!NewFailures
          /\ failed' = [r \in PageRuns |-> [t \in Tasks |->
                  IF <<r, t>> \in V!NewFailures THEN V!Once(failed[r][t]) ELSE failed[r][t]]]
          /\ done' = [r \in PageRuns |->
                          IF r \in V!announced THEN V!Once(done[r]) ELSE done[r]]
          /\ _run_status' = [r \in PageRuns |-> V!Status(r)]
          /\ seen' = [r \in PageRuns |-> seen[r] \/ V!Status(r) = "active"]
      BY <1>4 DEF V!Poll
    <2>2. ASSUME NEW r \in PageRuns
          PROVE  /\ done'[r] \in {0, 1}
                 /\ failed'[r] \in [Tasks -> {0, 1}]
                 /\ _run_status'[r] \in Statuses
                 /\ seen'[r] \in BOOLEAN
                 /\ Told(r)'
      <3>0. /\ NothingBefore(r) /\ FailuresCounted(r) /\ EndIsTold(r) /\ SeenIsKnown(r)
            /\ creating[r] = "nobody"
            /\ done[r] \in {0, 1} /\ seen[r] \in BOOLEAN /\ failed[r] \in [Tasks -> {0, 1}]
        BY <1>0, <2>1 DEF Told, PagesTyped
      <3>1. /\ V!Status(r)' = V!Status(r) /\ V!Status(r) \in Statuses
            /\ items[r] = V!Absent => V!Status(r) = "absent"
        BY <1>0, <2>1, StatusMeans DEF V!Status
      <3>2. \A t \in Tasks : /\ <<r, t>> \in V!NewFailures <=>
                                   items[r][t] = "failed" /\ <<r, t>> \notin _notified_failures
                             /\ items[r][t] = "failed" => <<r, t>> \in _notified_failures'
        BY <2>1 DEF V!NewFailures
      <3>3. r \in V!announced <=> V!Status(r) \in V!_TERMINAL /\ _run_status[r] = "active"
        BY DEF V!announced, V!Ended
      <3>4. /\ _run_status'[r] = V!Status(r)
            /\ seen'[r] = (seen[r] \/ V!Status(r) = "active")
            /\ done'[r] = IF r \in V!announced THEN V!Once(done[r]) ELSE done[r]
            /\ \A t \in Tasks : failed'[r][t] =
                 IF <<r, t>> \in V!NewFailures THEN V!Once(failed[r][t]) ELSE failed[r][t]
        BY <2>1
      <3>5. r \in V!announced => done[r] = 0
        BY <3>0, <3>3 DEF EndIsTold, V!_TERMINAL
      <3>6. /\ done'[r] \in {0, 1}
            /\ done'[r] = 1 <=> r \in V!announced \/ done[r] = 1
        BY <3>0, <3>4, <3>5 DEF V!Once
      <3>7. \A t \in Tasks : failed'[r][t] =
                IF <<r, t>> \in _notified_failures' THEN 1 ELSE 0
        BY <2>1, <3>0, <3>2, <3>4 DEF FailuresCounted, V!Once
      <3>8. failed'[r] \in [Tasks -> {0, 1}]
        BY <2>1, <3>7
      <3>9. EndIsTold(r)'
        BY <2>1, <3>0, <3>1, <3>2, <3>3, <3>4, <3>6 DEF EndIsTold
      <3>10. SeenIsKnown(r)'
        <4> SUFFICES ASSUME seen'[r], V!Status(r) # "active"
                     PROVE  V!Status(r) \in V!_TERMINAL /\ done'[r] = 1
          BY <3>4 DEF SeenIsKnown
        <4>1. seen[r]
          BY <3>4
        <4>2. V!Status(r) \in V!_TERMINAL
          <5>1. V!Status(r) # "absent"
            BY <1>0, <3>0, <4>1, StatusMeans DEF NothingBefore, Untold
          <5> QED
            BY <3>1, <5>1 DEF Statuses, V!_TERMINAL
        <4> QED
          BY <3>0, <3>3, <3>6, <4>1, <4>2 DEF SeenIsKnown
      <3>11. NothingBefore(r)'
        <4> SUFFICES ASSUME items[r] = V!Absent PROVE Untold(r)' /\ Unknown(r)'
          BY <2>1 DEF NothingBefore
        <4>1. Untold(r) /\ Unknown(r) /\ V!Status(r) = "absent" /\ r \notin V!announced
          BY <3>0, <3>1, <3>3 DEF NothingBefore, V!_TERMINAL
        <4>2. \A t \in Tasks : <<r, t>> \notin V!NewFailures
          BY <1>0, <3>2, StatusMeans
        <4> QED
          BY <2>1, <3>4, <3>7, <4>1, <4>2 DEF Untold, Unknown
      <3>12. NothingWhileCreating(r)' /\ FailuresCounted(r)'
        BY <2>1, <3>0, <3>7 DEF NothingWhileCreating, FailuresCounted
      <3> QED
        BY <3>1, <3>4, <3>6, <3>8, <3>9, <3>10, <3>11, <3>12 DEF Told
    <2>3. PagesTyped'
      BY <1>0, <2>1, <2>2 DEF PagesTyped
    <2> QED
      BY <2>2, <2>3 DEF PagesInv
  <1>5. ASSUME NEW p \in V!Pages, V!Show(p) PROVE PagesInv'
    <2>1. UNCHANGED <<items, creating, _run_status, _notified_failures, seen, done, failed>>
      BY <1>5 DEF V!Show
    <2> QED
      BY <1>0, <2>1, ToldStays DEF PagesInv, PagesTyped
  <1> QED
    BY <1>1, <1>2, <1>3, <1>4, <1>5 DEF V!Next

(* The end of a run that was known as active is announced exactly once, the *)
(* failure of a task at most once, over reruns under the same id and runs   *)
(* that end while they are created (scan and run_scheduled of               *)
(* notifications.py).                                                       *)
THEOREM EndsAnnouncedOnce == Spec => []AnnouncedOnce
  <1> DEFINE Inv == part = "pages" => PagesInv
  <1>1. Init => Inv
    BY PagesBegin DEF Init
  <1>2. Inv /\ [Next]_vars => Inv'
    <2> SUFFICES ASSUME Inv, [Next]_vars PROVE Inv'
      OBVIOUS
    <2>1. CASE part = "pages" /\ V!Next /\ UNCHANGED part
      BY <2>1, PagesStep
    <2>2. CASE UNCHANGED <<part, PagesVars>>
      <3> SUFFICES ASSUME PagesInv PROVE PagesInv'
        BY <2>2
      <3> QED
        BY <2>2, ToldStays DEF PagesVars, PagesInv, PagesTyped
    <2> QED
      BY <2>1, <2>2 DEF Next, vars
  <1>3. Inv => AnnouncedOnce
    <2> SUFFICES ASSUME PagesInv, NEW r \in PageRuns
                 PROVE  /\ seen[r] /\ _run_status[r] \in V!_TERMINAL
                             /\ V!Status(r) = _run_status[r] => done[r] = 1
                        /\ done[r] <= 1
                        /\ \A t \in Tasks : /\ failed[r][t] <= 1
                                            /\ done[r] = 1 /\ items[r][t] = "failed"
                                                  => failed[r][t] = 1
      BY DEF AnnouncedOnce, V!AnnouncedOnce
    <2>1. PagesTyped /\ Told(r)
      BY DEF PagesInv
    <2>2. seen[r] /\ _run_status[r] \in V!_TERMINAL => done[r] = 1
      BY <2>1 DEF Told, SeenIsKnown, V!_TERMINAL
    <2>3. done[r] <= 1 /\ \A t \in Tasks : failed[r][t] <= 1
      <3>1. done[r] \in {0, 1} /\ failed[r] \in [Tasks -> {0, 1}]
        BY <2>1 DEF PagesTyped
      <3>2. \A t \in Tasks : failed[r][t] \in {0, 1}
        BY <3>1
      <3> QED
        BY <3>1, <3>2
    <2>4. done[r] = 1 => creating[r] = "nobody"
      BY <2>1 DEF Told, NothingWhileCreating, Untold
    <2>5. \A t \in Tasks : done[r] = 1 /\ items[r][t] = "failed" => failed[r][t] = 1
      BY <2>1, <2>4 DEF Told, EndIsTold, FailuresCounted
    <2> QED
      BY <2>2, <2>3, <2>5
  <1> QED
    BY <1>1, <1>2, <1>3, PTL DEF Spec

-----------------------------------------------------------------------------
(* The SSH connection. Connections that are open but no longer current are  *)
(* the ones nobody will close; nobody dials while the current one is open.  *)

Places == {"idle", "lock", "dials", "runs"}

SshTyped ==
    /\ conn \in [Conns -> BOOLEAN]
    /\ current \in Conns \cup {0}
    /\ at \in [N!Clients -> Places]
    /\ refused \in Nat

Open == {k \in Conns : conn[k]}
Forgotten == Open \ {current}

OneDials ==
    \A c \in N!Clients : at[c] = "dials" => lock = c /\ current \notin Open

SshInv == SshTyped /\ OneDials /\ Cardinality(Forgotten) <= refused

(* What is open is a finite set of numbers.                                 *)
LEMMA OpenFinite ==
    /\ IsFiniteSet(Open) /\ IsFiniteSet(Forgotten)
    /\ Cardinality(Open) \in Nat /\ Cardinality(Forgotten) \in Nat
    /\ 0 \notin Conns
  <1>1. IsFiniteSet(Open) /\ IsFiniteSet(Forgotten)
    BY ConnectionAssumption, FS_Subset DEF Open, Forgotten
  <1> QED
    BY <1>1, ConnectionAssumption, FS_CardinalityType

(* A connection more counts for one at most.                                *)
LEMMA OneMore ==
    ASSUME NEW S, IsFiniteSet(S), NEW x
    PROVE  /\ IsFiniteSet(S \cup {x})
           /\ Cardinality(S \cup {x}) \in Nat
           /\ Cardinality(S \cup {x}) <= Cardinality(S) + 1
  <1>1. IsFiniteSet(S \cup {x})
    BY FS_AddElement
  <1>2. Cardinality(S \cup {x}) = IF x \in S THEN Cardinality(S) ELSE Cardinality(S) + 1
    BY FS_AddElement
  <1>3. Cardinality(S) \in Nat /\ Cardinality(S \cup {x}) \in Nat
    BY <1>1, FS_CardinalityType
  <1> QED
    BY <1>1, <1>2, <1>3

(* The empty lock is no client.                                             *)
LEMMA FreeIsNobody == N!Free \notin N!Clients
  BY ConnectionAssumption DEF N!Free, N!Clients, N!Poller

LEMMA SshBegin == N!Init => SshInv
  <1> SUFFICES ASSUME N!Init PROVE SshInv
    OBVIOUS
  <1>0. current \in {0, 1} /\ conn = [k \in Conns |-> k = current]
    BY DEF N!Init, N!None
  <1>3. Forgotten = {}
    BY <1>0 DEF Forgotten, Open
  <1>1. SshTyped
    BY <1>0, ConnectionAssumption DEF SshTyped, N!Init, Places, N!None
  <1>2. OneDials
    BY DEF OneDials, N!Init
  <1> QED
    BY <1>1, <1>2, <1>3, FS_EmptySet DEF SshInv, N!Init

(* A step that opens no connection and forgets none that is open.           *)
LEMMA SshQuiet ==
    ASSUME SshInv, SshTyped', Open' \subseteq Open, Forgotten' \subseteq Forgotten,
           refused <= refused',
           \A c \in N!Clients : at'[c] = "dials" =>
                lock' = c /\ (at[c] = "dials" \/ current \notin Open),
           current' \in {current, 0} 
    PROVE  SshInv'
  <1>1. OneDials'
    BY OpenFinite DEF OneDials, SshInv, Open
  <1>2. Cardinality(Forgotten') <= Cardinality(Forgotten)
    BY OpenFinite, FS_Subset
  <1>3. Cardinality(Forgotten') \in Nat /\ refused \in Nat /\ refused' \in Nat
    BY <1>2, OpenFinite, FS_Subset, FS_CardinalityType DEF SshInv, SshTyped
  <1>4. Cardinality(Forgotten)' = Cardinality(Forgotten')
    OBVIOUS
  <1> QED
    BY <1>1, <1>2, <1>3, <1>4, OpenFinite DEF SshInv

(* Every step keeps the invariant: one step per action.                     *)
LEMMA SshStep == SshInv /\ N!Next => SshInv'
  <1> SUFFICES ASSUME SshInv, N!Next PROVE SshInv'
    OBVIOUS
  <1>0. SshTyped
    BY DEF SshInv
  <1>1. ASSUME NEW c \in N!Clients, N!Call(c) PROVE SshInv'
    <2>1. UNCHANGED <<conn, current, lock, refused>>
      BY <1>1 DEF N!Call
    <2>2. at' \in [N!Clients -> Places]
          /\ \A d \in N!Clients : at'[d] = "dials" => at[d] = "dials"
      BY <1>0, <1>1 DEF N!Call, N!Runs, SshTyped, Places
    <2>3. SshTyped' /\ UNCHANGED <<Open, Forgotten>>
      BY <1>0, <2>1, <2>2 DEF SshTyped, Open, Forgotten
    <2>4. \A d \in N!Clients : at'[d] = "dials" => lock' = d
      BY <2>1, <2>2 DEF SshInv, OneDials
    <2> QED
      BY <1>0, <2>1, <2>2, <2>3, <2>4, SshQuiet DEF SshTyped
  <1>2. ASSUME NEW c \in N!Clients, N!connect(c) PROVE SshInv'
    <2>1. UNCHANGED <<conn, current, refused>>
      BY <1>2 DEF N!connect
    <2>0. UNCHANGED <<Open, Forgotten>>
      BY <2>1 DEF Open, Forgotten
    <2>5. \A d \in N!Clients : at[d] # "dials"
      BY <1>2, FreeIsNobody DEF N!connect, SshInv, OneDials
    <2>2. CASE N!already
      <3>1. at' \in [N!Clients -> Places] /\ \A d \in N!Clients : at'[d] # "dials"
        BY <1>0, <1>2, <2>2, <2>5 DEF N!connect, N!Runs, SshTyped, Places
      <3>2. SshTyped'
        BY <1>0, <2>1, <3>1 DEF SshTyped
      <3> QED
        BY <1>0, <2>0, <2>1, <3>1, <3>2, SshQuiet DEF SshTyped
    <2>3. CASE ~N!already
      <3>1. current \notin Open
        BY <2>3, OpenFinite DEF N!already, N!is_connected, N!None, Open
      <3>2. at' = [at EXCEPT ![c] = "dials"] /\ lock' = c
        BY <1>2, <2>3 DEF N!connect
      <3>3. at' \in [N!Clients -> Places] /\ \A d \in N!Clients : at'[d] = "dials" => lock' = d
        BY <1>0, <2>5, <3>2 DEF SshTyped, Places
      <3>4. SshTyped'
        BY <1>0, <2>1, <3>3 DEF SshTyped
      <3> QED
        BY <1>0, <2>0, <2>1, <3>1, <3>3, <3>4, SshQuiet DEF SshTyped
    <2> QED
      BY <2>2, <2>3
  <1>3. ASSUME NEW c \in N!Clients, N!Dialled(c) PROVE SshInv'
    <2>1. PICK k \in Conns : /\ ~conn[k]
                             /\ conn' = [conn EXCEPT ![k] = TRUE]
                             /\ current' = k
                             /\ N!Runs(c, k)
      BY <1>3 DEF N!Dialled
    <2>2. refused' = refused /\ at[c] = "dials"
      BY <1>3 DEF N!Dialled
    <2>3. current \notin Open /\ \A d \in N!Clients : d # c => at[d] # "dials"
      BY <2>2 DEF SshInv, OneDials
    <2>4. at' \in [N!Clients -> Places] /\ \A d \in N!Clients : at'[d] # "dials"
      BY <1>0, <2>1, <2>3 DEF N!Runs, SshTyped, Places
    <2>5. SshTyped'
      BY <1>0, <2>1, <2>2, <2>4 DEF SshTyped
    <2>6. Forgotten' = Forgotten
      BY <1>0, <2>1, <2>3 DEF Forgotten, Open, SshTyped
    <2> QED
      BY <2>2, <2>4, <2>5, <2>6 DEF SshInv, OneDials
  <1>4. ASSUME NEW c \in N!Clients, N!DialFails(c) PROVE SshInv'
    <2>1. UNCHANGED <<conn, current, refused>> /\ at' = [at EXCEPT ![c] = "idle"]
      BY <1>4 DEF N!DialFails, N!Ends
    <2>2. \A d \in N!Clients : d # c => at[d] # "dials"
      BY <1>4 DEF N!DialFails, SshInv, OneDials
    <2>3. SshTyped' /\ UNCHANGED <<Open, Forgotten>>
      BY <1>0, <2>1 DEF SshTyped, Open, Forgotten, Places
    <2>4. \A d \in N!Clients : at'[d] # "dials"
      BY <1>0, <2>1, <2>2 DEF SshTyped
    <2> QED
      BY <1>0, <2>1, <2>3, <2>4, SshQuiet DEF SshTyped
  <1>5. ASSUME NEW c \in N!Clients, N!Finish(c) PROVE SshInv'
    <2>1. UNCHANGED <<conn, current, refused, lock>> /\ at' = [at EXCEPT ![c] = "idle"]
      BY <1>5 DEF N!Finish, N!Ends
    <2>3. SshTyped' /\ UNCHANGED <<Open, Forgotten>>
      BY <1>0, <2>1 DEF SshTyped, Open, Forgotten, Places
    <2>4. \A d \in N!Clients : at'[d] = "dials" => at[d] = "dials" /\ lock' = d
      BY <1>0, <2>1 DEF SshTyped, SshInv, OneDials
    <2> QED
      BY <1>0, <2>1, <2>3, <2>4, SshQuiet DEF SshTyped
  <1>6. ASSUME NEW c \in N!Clients, N!ChannelRefused(c) PROVE SshInv'
    <2>1. /\ UNCHANGED <<conn, lock>> /\ at' = [at EXCEPT ![c] = "idle"]
          /\ refused' = refused + 1 /\ current' \in {current, 0}
      BY <1>6 DEF N!ChannelRefused, N!Ends, N!None
    <2>2. SshTyped' /\ UNCHANGED Open
      BY <1>0, <2>1 DEF SshTyped, Open, Places
    <2>3. OneDials'
      BY <1>0, <2>1, <2>2, OpenFinite DEF SshTyped, SshInv, OneDials, Open
    <2>4. Forgotten' \subseteq Forgotten \cup {current}
      BY <2>2 DEF Forgotten
    <2>5. Cardinality(Forgotten') <= Cardinality(Forgotten \cup {current})
          /\ Cardinality(Forgotten \cup {current}) <= Cardinality(Forgotten) + 1
          /\ Cardinality(Forgotten') \in Nat
          /\ Cardinality(Forgotten \cup {current}) \in Nat
      <3>1. IsFiniteSet(Forgotten \cup {current})
            /\ Cardinality(Forgotten \cup {current}) <= Cardinality(Forgotten) + 1
        BY OpenFinite, OneMore
      <3> QED
        BY <2>4, <3>1, FS_Subset, FS_CardinalityType
    <2>6. Cardinality(Forgotten') <= refused'
      BY <1>0, <2>1, <2>5, OpenFinite DEF SshTyped, SshInv
    <2> QED
      BY <2>2, <2>3, <2>6 DEF SshInv
  <1>7. ASSUME NEW k \in Conns, N!Lost(k) PROVE SshInv'
    <2>1. /\ conn[k] /\ conn' = [conn EXCEPT ![k] = FALSE]
          /\ current' \in {current, 0}
          /\ at' = [c \in N!Clients |-> IF on[c] = k THEN "idle" ELSE at[c]]
          /\ UNCHANGED <<lock, refused>>
      BY <1>7 DEF N!Lost, N!None
    <2>2. SshTyped'
      BY <1>0, <2>1 DEF SshTyped, Places
    <2>3. Open' = Open \ {k} /\ k \in Open
      BY <1>0, <2>1 DEF SshTyped, Open
    <2>4. OneDials'
      BY <1>0, <2>1, <2>3, OpenFinite DEF SshTyped, SshInv, OneDials, Open
    <2>5. Cardinality(Forgotten') <= Cardinality(Forgotten) /\ Cardinality(Forgotten') \in Nat
      <3>1. CASE k = current
        <4>1. Forgotten' \subseteq Forgotten
          BY <2>3, <3>1 DEF Forgotten
        <4> QED
          BY <4>1, OpenFinite, FS_Subset, FS_CardinalityType
      <3>2. CASE k # current
        <4> DEFINE rest == Forgotten \ {k}
        <4>1. k \in Forgotten /\ Forgotten' \subseteq rest \cup {current}
          BY <2>3, <3>2 DEF Forgotten
        <4>2. IsFiniteSet(rest) /\ Cardinality(rest) = Cardinality(Forgotten) - 1
          BY <4>1, OpenFinite, FS_RemoveElement
        <4>3. IsFiniteSet(rest \cup {current})
              /\ Cardinality(rest \cup {current}) <= Cardinality(rest) + 1
          BY <4>2, OpenFinite, OneMore
        <4>4. Cardinality(Forgotten') <= Cardinality(rest \cup {current})
              /\ Cardinality(Forgotten') \in Nat /\ Cardinality(rest \cup {current}) \in Nat
          BY <4>1, <4>3, FS_Subset, FS_CardinalityType
        <4> QED
          BY <4>2, <4>3, <4>4, OpenFinite
      <3> QED
        BY <3>1, <3>2
    <2> QED
      BY <1>0, <2>1, <2>2, <2>4, <2>5, OpenFinite DEF SshTyped, SshInv
  <1>8. CASE N!HostChanges \/ N!Minute
    BY <1>8 DEF N!HostChanges, N!Minute, SshInv, SshTyped, OneDials, Forgotten, Open
  <1> QED
    BY <1>1, <1>2, <1>3, <1>4, <1>5, <1>6, <1>7, <1>8 DEF N!Next, N!Client

(* However polls, submissions, downloads and terminals use the connection,  *)
(* reconnect and lose it, there is one open connection and at most one more *)
(* for every channel sshd refused (connect and run_command of               *)
(* ssh/client.py).                                                          *)
THEOREM OneConnectionPerRefusal == Spec => []OneMorePerRefusal
  <1> DEFINE Inv == part = "ssh" => SshInv
  <1>1. Init => Inv
    BY SshBegin DEF Init
  <1>2. Inv /\ [Next]_vars => Inv'
    <2> SUFFICES ASSUME Inv, [Next]_vars PROVE Inv'
      OBVIOUS
    <2>1. CASE part = "ssh" /\ N!Next /\ UNCHANGED part
      BY <2>1, SshStep
    <2>2. CASE UNCHANGED <<part, SshVars>>
      BY <2>2 DEF SshVars, SshInv, SshTyped, OneDials, Forgotten, Open
    <2> QED
      BY <2>1, <2>2 DEF Next, vars
  <1>3. Inv => OneMorePerRefusal
    <2> SUFFICES ASSUME SshInv PROVE N!OneMorePerRefusal
      BY DEF OneMorePerRefusal
    <2>1. N!Cardinality(Open) = Cardinality(Open)
      BY Zenon DEF N!Cardinality, Cardinality, N!IsFiniteSet, IsFiniteSet
    <2>2. Open \subseteq Forgotten \cup {current}
      BY DEF Forgotten
    <2>3. IsFiniteSet(Forgotten \cup {current})
          /\ Cardinality(Forgotten \cup {current}) <= Cardinality(Forgotten) + 1
      BY OpenFinite, OneMore
    <2>4. Cardinality(Open) <= Cardinality(Forgotten \cup {current})
          /\ Cardinality(Forgotten \cup {current}) \in Nat
      BY <2>2, <2>3, FS_Subset, FS_CardinalityType
    <2>5. Cardinality(Open) <= 1 + refused
      BY <2>3, <2>4, OpenFinite DEF SshInv, SshTyped
    <2> QED
      BY <2>1, <2>5 DEF N!OneMorePerRefusal, Open
  <1> QED
    BY <1>1, <1>2, <1>3, PTL DEF Spec

-----------------------------------------------------------------------------
(* Paths.                                                                   *)

Path == Seq(STRING)


(* A set of numbers that is not empty has a least one.                      *)
LEMMA LeastNat ==
    ASSUME NEW S \in SUBSET Nat, S # {}
    PROVE  \E m \in S : \A k \in S : m <= k
  <1> DEFINE R == OpToRel(<, Nat)
  <1>1. \A k, m \in Nat : <<k, m>> \in R <=> k < m
    BY DEF OpToRel
  <1>2. IsWellFoundedOn(R, Nat)
    BY NatLessThanWellFounded
  <1> HIDE DEF R
  <1>3. PICK m \in S : \A k \in S : ~ (<<k, m>> \in R)
    BY <1>2, WFMin
  <1>4. ASSUME NEW k \in S PROVE m <= k
    <2>1. k \in Nat /\ m \in Nat
      BY <1>3
    <2>2. ~ (<<k, m>> \in R)
      BY <1>3
    <2>3. ~ (k < m)
      BY <1>1, <2>1, <2>2
    <2> QED
      BY <2>1, <2>3
  <1> QED
    BY <1>4

LEMMA PrefixMeans ==
    ASSUME NEW s \in Path, NEW t \in Path
    PROVE  U!IsPrefix(s, t) <=> Len(s) <= Len(t) /\ \A i \in 1 .. Len(s) : s[i] = t[i]
  <1>1. SubSeq(s, 1, Len(s)) = s
    BY DEF Path
  <1>2. ASSUME Len(s) <= Len(t)
        PROVE  /\ SubSeq(t, 1, Len(s)) \in Seq(STRING) /\ Len(SubSeq(t, 1, Len(s))) = Len(s)
               /\ \A i \in 1 .. Len(s) : SubSeq(t, 1, Len(s))[i] = t[i]
    BY <1>2 DEF Path
  <1>3. ASSUME NEW u \in Path, Len(u) = Len(s), \A i \in 1 .. Len(s) : s[i] = u[i]
        PROVE  s = u
    BY <1>3 DEF Path
  <1> QED
    BY <1>1, <1>2, <1>3 DEF U!IsPrefix, Path

(* Of two paths above a third one is above the other.                       *)
LEMMA Comparable ==
    ASSUME NEW a \in Path, NEW b \in Path, NEW p \in Path,
           U!IsPrefix(a, p), U!IsPrefix(b, p)
    PROVE  a = b \/ U!IsStrictPrefix(a, b) \/ U!IsStrictPrefix(b, a)
  <1>1. Len(a) <= Len(b) \/ Len(b) <= Len(a)
    BY DEF Path
  <1>2. U!IsPrefix(a, b) \/ U!IsPrefix(b, a)
    BY <1>1, PrefixMeans DEF Path
  <1> QED
    BY <1>2 DEF U!IsStrictPrefix

LEMMA Transitive ==
    ASSUME NEW a \in Path, NEW b \in Path, NEW p \in Path,
           U!IsPrefix(a, b), U!IsPrefix(b, p)
    PROVE  U!IsPrefix(a, p) /\ (a # b => U!IsStrictPrefix(a, p))
  <1>1. U!IsPrefix(a, p)
    BY PrefixMeans DEF Path
  <1>2. ASSUME a = p PROVE a = b
    <2>1. Len(a) = Len(b)
      BY <1>2, PrefixMeans DEF Path
    <2>2. \A i \in 1 .. Len(a) : a[i] = b[i]
      BY PrefixMeans
    <2> QED
      BY <2>1, <2>2 DEF Path
  <1> QED
    BY <1>1, <1>2 DEF U!IsStrictPrefix

(* Some root is the first one over a path that has a root over it.          *)
LEMMA FirstExists ==
    ASSUME NEW p, NEW n \in Nat, NEW roots, DOMAIN roots = 1 .. n,
           NEW r \in U!ToSet(roots), U!IsStrictPrefix(r, p)
    PROVE  U!FirstOver(p, roots) # {}
  <1> DEFINE over == {i \in DOMAIN roots : U!IsStrictPrefix(roots[i], p)}
  <1>1. over # {} /\ over \in SUBSET Nat
    BY DEF U!ToSet
  <1>2. PICK k \in over : \A j \in over : k <= j
    BY <1>1, LeastNat
  <1> QED
    BY <1>2 DEF U!FirstOver

LEMMA FirstIsRoot ==
    ASSUME NEW p, NEW roots, NEW x \in U!FirstOver(p, roots)
    PROVE  x \in U!ToSet(roots) /\ U!IsStrictPrefix(x, p)
  BY DEF U!FirstOver, U!ToSet

Entries == [path : Dirs, kind : U!Kinds, ready : {"none", "yes", "no"}, class : U!Classes]

(* A scan that could not learn the home directory has no entries.           *)
ScanOk(scan) == scan.entries \subseteq Entries /\ (scan.home = Home \/ scan.entries = {})

LEMMA ClassifyTyped ==
    ASSUME NEW E \in SUBSET Entries, NEW refs, NEW declared
    PROVE  U!classify_entries(E, refs, declared) \subseteq Entries
  <1>1. \A e : U!StackClass(e, declared) \in U!Classes
    BY DEF U!StackClass, U!Classes
  <1>2. \A e : U!classify(e, refs, declared) \in U!Classes
    BY <1>1 DEF U!classify, U!Classes
  <1> QED
    BY <1>2 DEF U!classify_entries, Entries

LEMMA ScanTyped ==
    ASSUME files \subseteq Dirs, NEW spec, NEW ls \in SUBSET U!ScanLines(files, ready, spec, Home),
           NEW refs, NEW declared
    PROVE  U!classify_entries(U!raw_to_entries(ls), refs, declared) \subseteq Entries
  <1>1. \A l \in ls : l.path \in Dirs /\ l.ready \in {"none", "yes", "no"}
    BY DEF U!ScanLines
  <1>2. \A l : U!KindOf(l) \in U!Kinds
    BY DEF U!KindOf, U!Kinds
  <1>3. U!raw_to_entries(ls) \subseteq Entries
    BY <1>1, <1>2 DEF U!raw_to_entries, Entries, U!Classes
  <1> QED
    BY <1>3, ClassifyTyped

(* What the references know of a run that is active in memory.              *)
LEMMA ActiveIsReferred ==
    ASSUME NEW r \in DiskRuns, mem[r] = "active", NEW spec
    PROVE  LET refs == U!build_run_references(U!gather_all_runs, spec, Home)
               Norm(w) == U!normalize_remote_path(w, Home)
               Child(w) == U!CloneChild(Norm(w), spec.clone, Home)
               used == RunShape[r].wds \cup ({RunShape[r].log} \ {U!NoPath})
           IN  /\ r \in refs.active
               /\ RunShape[r].commit # "none" => <<RunShape[r].commit, r>> \in refs.clones
               /\ \A w \in used : \A d \in Child(w) :
                    /\ U!LastName(d) \in HashNames => <<U!LastName(d), r>> \in refs.clones
                    /\ U!LastName(d) \in AgentNames => <<d, r>> \in refs.agents
               /\ RunShape[r].log # U!NoPath => <<Norm(RunShape[r].log), r>> \in refs.logs
  <1> DEFINE x == [id |-> r, active |-> TRUE, commit |-> RunShape[r].commit,
                   wds |-> RunShape[r].wds, log |-> RunShape[r].log]
             rs == U!gather_all_runs
  <1>1. x \in rs
    BY DEF U!gather_all_runs
  <1>2. /\ x.id = r /\ x.active /\ x.commit = RunShape[r].commit /\ x.wds = RunShape[r].wds
        /\ x.log = RunShape[r].log
    OBVIOUS
  <1> HIDE DEF x, rs
  <1> DEFINE Touched(y) == UNION {U!CloneChild(U!normalize_remote_path(p, Home), spec.clone, Home) :
                                    p \in y.wds \cup ({y.log} \ {U!NoPath})}
             Hashes(y) == ({y.commit} \ {"none"})
                          \cup ({U!LastName(d) : d \in Touched(y)} \cap HashNames)
             Agents(y) == {d \in Touched(y) : U!LastName(d) \in AgentNames}
             Logs(y) == {U!normalize_remote_path(p, Home) : p \in {y.log} \ {U!NoPath}}
             refs == U!build_run_references(rs, spec, Home)
  <1>3. /\ refs.clones = UNION {Hashes(y) \X {y.id} : y \in rs}
        /\ refs.agents = UNION {Agents(y) \X {y.id} : y \in rs}
        /\ refs.logs = UNION {Logs(y) \X {y.id} : y \in rs}
        /\ refs.active = {y.id : y \in {z \in rs : z.active}}
    BY DEF U!build_run_references
  <1>4. r \in refs.active
    BY <1>1, <1>2, <1>3
  <1>5. \A h \in Hashes(x) : <<h, r>> \in refs.clones
    BY <1>1, <1>2, <1>3
  <1>6. \A d \in Agents(x) : <<d, r>> \in refs.agents
    BY <1>1, <1>2, <1>3
  <1>7. \A l \in Logs(x) : <<l, r>> \in refs.logs
    BY <1>1, <1>2, <1>3
  <1> HIDE DEF refs
  <1>8. ASSUME NEW w \in RunShape[r].wds \cup ({RunShape[r].log} \ {U!NoPath}),
               NEW d \in U!CloneChild(U!normalize_remote_path(w, Home), spec.clone, Home)
        PROVE  d \in Touched(x)
    BY <1>2, <1>8
  <1>9. \A d \in Touched(x) :
          /\ U!LastName(d) \in HashNames => U!LastName(d) \in Hashes(x)
          /\ U!LastName(d) \in AgentNames => d \in Agents(x)
    OBVIOUS
  <1>10. RunShape[r].commit # "none" => RunShape[r].commit \in Hashes(x)
    BY <1>2
  <1>11. RunShape[r].log # U!NoPath =>
            U!normalize_remote_path(RunShape[r].log, Home) \in Logs(x)
    BY <1>2
  <1> HIDE DEF Touched, Hashes, Agents, Logs
  <1> QED
    BY <1>4, <1>5, <1>6, <1>7, <1>8, <1>9, <1>10, <1>11 DEF refs, rs

LEMMA CloneRoots == \A c \in Configs : U!Spec4(c).clone = c.clone
  BY Zenon DEF U!Spec4, U!build_scan_spec

LEMMA NormTyped ==
    ASSUME NEW w \in Path, w # <<>>
    PROVE  U!normalize_remote_path(w, Home) \in Path
  <1>1. Tail(w) \in Path /\ Home \in Path
    BY RunsAssumption DEF Path
  <1>2. Home \o Tail(w) \in Path
    BY <1>1 DEF Path
  <1> QED
    BY <1>2 DEF U!normalize_remote_path

(* The child of the clone directories that a path lies in is the entry that *)
(* a plan would delete.                                                     *)
LEMMA ChildIsEntry ==
    ASSUME NEW c \in Configs, NEW p \in Path, NEW w \in Path, U!IsPrefix(p, w),
           NEW root \in U!FirstOver(p, U!Roots(c.clone, Home)), Len(U!Below(p, root)) = 1
    PROVE  p \in U!CloneChild(w, c.clone, Home)
  <1> DEFINE roots == U!Roots(c.clone, Home)
  <1>1. root \in U!ToSet(roots) /\ U!IsStrictPrefix(root, p)
    BY FirstIsRoot
  <1>2. root \in Path
    BY <1>1, RunsAssumption DEF Path
  <1>3. PICK n \in Nat : DOMAIN roots = 1 .. n
    BY RunsAssumption DEF U!Roots
  <1>4. U!IsPrefix(root, p) /\ root # p
    BY <1>1 DEF U!IsStrictPrefix
  <1>5. U!IsStrictPrefix(root, w)
    BY <1>2, <1>4, Transitive
  <1>6. PICK x \in U!FirstOver(w, roots) : TRUE
    BY <1>1, <1>3, <1>5, FirstExists
  <1>7. x \in U!ToSet(roots) /\ U!IsStrictPrefix(x, w)
    BY <1>6, FirstIsRoot
  <1>8. x \in Path
    BY <1>7, RunsAssumption DEF Path
  <1> HIDE DEF roots
  <1>9. x = root
    <2>1. U!IsPrefix(x, w) /\ U!IsPrefix(root, w)
      BY <1>5, <1>7 DEF U!IsStrictPrefix
    <2>2. ~U!IsStrictPrefix(x, root) /\ ~U!IsStrictPrefix(root, x)
      BY <1>1, <1>7, RunsAssumption DEF roots
    <2> QED
      BY <1>2, <1>8, <2>1, <2>2, Comparable
  <1>10. Len(p) = Len(root) + 1
    <2>1. U!Below(p, root) = SubSeq(p, Len(root) + 1, Len(p))
      BY <1>1 DEF U!Below
    <2>2. Len(root) \in Nat /\ Len(p) \in Nat /\ Len(root) <= Len(p)
      BY <1>2, <1>4, PrefixMeans DEF Path
    <2> QED
      BY <2>1, <2>2 DEF Path
  <1>11. SubSeq(w, 1, Len(root) + 1) = p
    <2>1. Len(p) <= Len(w) /\ \A i \in 1 .. Len(p) : p[i] = w[i]
      BY PrefixMeans
    <2>2. Len(root) \in Nat
      BY <1>2 DEF Path
    <2> DEFINE u == SubSeq(w, 1, Len(p))
    <2>3. u \in Path /\ Len(u) = Len(p) /\ \A i \in 1 .. Len(p) : u[i] = w[i]
      BY <2>1 DEF Path
    <2> HIDE DEF u
    <2>4. u = p
      BY <2>1, <2>3 DEF Path
    <2> QED
      BY <1>10, <2>4 DEF u
  <1> QED
    BY <1>6, <1>9, <1>11 DEF U!CloneChild, roots

(* No plan deletes what a run that is active in memory works in.            *)
LEMMA PlanSparesUsed ==
    ASSUME NEW scan, ScanOk(scan), NEW c \in Configs, NEW declared, NEW paths, NEW allow,
           NEW r \in DiskRuns, mem[r] = "active",
           NEW e \in U!to_delete(U!plan_cleanup(scan,
                        U!build_run_references(U!gather_all_runs, U!Spec4(c), scan.home),
                        declared, U!Spec4(c), paths, allow)),
           U!UsedBy(r, e.path)
    PROVE  FALSE
  <1> DEFINE spec == U!Spec4(c)
             refs == U!build_run_references(U!gather_all_runs, spec, scan.home)
             copies == U!fresh_copies(scan, refs, declared)
             Norm(w) == U!normalize_remote_path(w, Home)
  <1>1. e \in copies /\ U!Fate(e, spec, scan.home, allow) # "skip"
    BY DEF U!to_delete, U!plan_cleanup
  <1> HIDE DEF refs, spec
  <1>2. scan.home = Home /\ scan.entries \subseteq Entries
    BY <1>1 DEF ScanOk, U!fresh_copies, U!classify_entries
  <1>3. PICK e0 \in Entries : e = [e0 EXCEPT !.class = U!classify(e0, refs, declared)]
    BY <1>1, <1>2 DEF U!fresh_copies, U!classify_entries
  <1>4. /\ e.path = e0.path /\ e.kind = e0.kind /\ e.path \in Dirs
        /\ e.class = U!classify(e0, refs, declared)
    BY <1>3 DEF Entries
  <1>5. /\ U!Safe(e, spec, Home) /\ e.kind \in {"clone", "agent", "stack", "log"}
        /\ e.class # "active"
    BY <1>1, <1>2 DEF U!Fate, U!DELETABLE_KINDS
  <1>6. e.path \in Path
    BY <1>4, RunsAssumption DEF Path
  <1> DEFINE used == RunShape[r].wds \cup ({RunShape[r].log} \ {U!NoPath})
  <1>7. /\ r \in refs.active
        /\ RunShape[r].commit # "none" => <<RunShape[r].commit, r>> \in refs.clones
        /\ \A w \in used : \A d \in U!CloneChild(Norm(w), spec.clone, Home) :
              /\ U!LastName(d) \in HashNames => <<U!LastName(d), r>> \in refs.clones
              /\ U!LastName(d) \in AgentNames => <<d, r>> \in refs.agents
        /\ RunShape[r].log # U!NoPath => <<Norm(RunShape[r].log), r>> \in refs.logs
    BY <1>2, ActiveIsReferred DEF refs
  <1>8. e.kind \in {"clone", "agent", "log"} => r \notin U!RefIds(e, refs)
    <2>1. U!RefIds(e, refs) = U!RefIds(e0, refs)
      BY <1>4 DEF U!RefIds
    <2> QED
      BY <1>4, <1>5, <1>7, <2>1 DEF U!classify
  <1>9. \A w \in used : w \in Path /\ w # <<>> /\ Norm(w) \in Path
    BY NormTyped, RunsAssumption DEF Path, U!NoPath
  <1>10. \/ e.path = Append(Home \o <<"clones">>, RunShape[r].commit)
         \/ \E w \in used : U!IsPrefix(e.path, Norm(w))
    BY DEF U!UsedBy
  <1>11. e.path = Append(Home \o <<"clones">>, RunShape[r].commit) =>
            U!LastName(e.path) = RunShape[r].commit
    BY RunsAssumption DEF U!LastName
  <1>12. ASSUME e.kind \in {"clone", "agent"}
         PROVE  \A w \in used : U!IsPrefix(e.path, Norm(w)) =>
                    e.path \in U!CloneChild(Norm(w), spec.clone, Home)
    <2>1. \E root \in U!FirstOver(e.path, U!Roots(spec.clone, Home)) :
             Len(U!Below(e.path, root)) = 1
      BY <1>5, <1>12 DEF U!Safe
    <2>2. spec.clone = c.clone
      BY CloneRoots DEF spec
    <2> QED
      BY <1>6, <1>9, <2>1, <2>2, ChildIsEntry
  <1>13. CASE e.kind = "clone"
    <2>1. U!LastName(e.path) \in HashNames
      BY <1>5, <1>13 DEF U!Safe
    <2>2. <<U!LastName(e.path), r>> \in refs.clones
      BY <1>7, <1>10, <1>11, <1>12, <1>13, <2>1, RunsAssumption
    <2> QED
      BY <1>8, <1>13, <2>2 DEF U!RefIds
  <1>14. CASE e.kind = "agent"
    <2>1. U!LastName(e.path) \in AgentNames
      BY <1>5, <1>14 DEF U!Safe
    <2>2. <<e.path, r>> \in refs.agents
      BY <1>7, <1>10, <1>11, <1>12, <1>14, <2>1, RunsAssumption, NamesAssumption
    <2> QED
      BY <1>8, <1>14, <2>2 DEF U!RefIds
  <1>15. U!Safe([path |-> e.path, kind |-> e.kind], spec, Home)
    BY <1>5 DEF U!Safe
  <1>16. CASE e.kind = "stack"
    BY <1>4, <1>15, <1>16, RunsAssumption DEF spec
  <1>17. CASE e.kind = "log"
    <2>1. /\ RunShape[r].log # U!NoPath
          /\ U!IsPrefix(e.path, Norm(RunShape[r].log))
      BY <1>4, <1>15, <1>17, RunsAssumption DEF spec, U!NoPath, NoPath
    <2> QED
      BY <1>7, <1>8, <1>17, <2>1 DEF U!RefIds
  <1> QED
    BY <1>5, <1>13, <1>14, <1>16, <1>17

-----------------------------------------------------------------------------
(* The disk service. Only the task in the slot works, and none does while a *)
(* done callback is due; what a cleanup may delete holds no agent workspace *)
(* that the agent check did not find clean.                                 *)

SparesEdits(plan) == \A e \in plan.delete : e.path \notin Edits

RequestOk(r) ==
    /\ r.pc = "plan" => r.config \in Configs /\ ScanOk(r.scan)
    /\ r.pc = "launch" => SparesEdits(r.plan)
    /\ r.pc = "scan_gather" => r.config \in Configs

(* What the task of q may delete: a workspace whose check says clean, or    *)
(* one that has changed since that check.                                   *)
Spared(q) == {p \in Edits : U!SaysClean(p) \/ <<q, p>> \in late}

TaskOk(b, spared) ==
    /\ b.pc \in {"check", "delete"} => {"pc", "targets"} \subseteq DOMAIN b
    /\ b.pc = "check" => \A p \in b.targets : p \notin Edits
    /\ b.pc = "delete" => b.targets \cap Edits \subseteq spared

Works(b) == b.pc \notin {"none", "done"}

DiskTyped ==
    /\ DOMAIN bg = Reqs /\ DOMAIN req = Reqs /\ DOMAIN git = Edits
    /\ config \in Configs

DiskInv ==
    /\ DiskTyped
    /\ results # U!NoResult => ScanOk(results)
    /\ \A q \in Reqs : RequestOk(req[q])
    /\ \A q \in Reqs : TaskOk(bg[q], Spared(q))
    /\ \A q \in Reqs : Works(bg[q]) => q = task /\ callbacks = {}

(* Before the first request nothing is planned and no task exists.          *)
LEMMA DiskBegin == U!Init => DiskInv
  <1> SUFFICES ASSUME U!Init PROVE DiskInv
    OBVIOUS
  <1>1. \A q \in Reqs : req[q].pc = "none" /\ bg[q].pc = "none"
    BY DEF U!Init, U!Idle
  <1> QED
    BY <1>1 DEF U!Init, DiskInv, DiskTyped, RequestOk, TaskOk, Works

(* What is planned for deletion without a check is no agent workspace.      *)
LEMMA PlanSparesEdits ==
    ASSUME NEW scan, ScanOk(scan), NEW c \in Configs, NEW refs, NEW declared,
           NEW paths, NEW allow
    PROVE  SparesEdits(U!plan_cleanup(scan, refs, declared, U!Spec4(c), paths, allow))
  <1> DEFINE spec == U!Spec4(c)
             copies == U!fresh_copies(scan, refs, declared)
             plan == U!plan_cleanup(scan, refs, declared, spec, paths, allow)
  <1> SUFFICES ASSUME NEW e \in plan.delete, e.path \in Edits PROVE FALSE
    BY DEF SparesEdits
  <1>1. e \in copies /\ U!Fate(e, spec, scan.home, allow) = "delete"
    BY DEF U!plan_cleanup
  <1>2. scan.home = Home
    BY <1>1 DEF ScanOk, U!fresh_copies, U!classify_entries
  <1>3. /\ U!Safe(e, spec, Home) /\ e.kind # "agent"
        /\ e.kind \in {"clone", "agent", "stack", "log"}
    BY <1>1, <1>2 DEF U!Fate, U!DELETABLE_KINDS
  <1>4. e.kind # "clone"
    BY <1>3, DiskAssumption, NamesAssumption DEF U!Safe
  <1>5. e.kind \in {"stack", "log"}
    BY <1>3, <1>4
  <1> HIDE DEF spec
  <1>6. U!Safe([path |-> e.path, kind |-> e.kind], spec, Home)
    BY <1>3 DEF U!Safe
  <1> QED
    BY <1>5, <1>6, DiskAssumption DEF spec

(* A step of one handler.                                                   *)
LEMMA RequestMoves ==
    ASSUME DiskInv, NEW q \in Reqs, NEW r, RequestOk(r), req' = [req EXCEPT ![q] = r],
           UNCHANGED <<bg, task, callbacks, git, late, results, config>>
    PROVE  DiskInv'
  <1>1. DOMAIN req' = Reqs /\ \A x \in Reqs : req'[x] = IF x = q THEN r ELSE req[x]
    BY DEF DiskInv, DiskTyped
  <1> QED
    BY <1>1 DEF DiskInv, DiskTyped, Spared, U!SaysClean

(* An answer promises nothing.                                              *)
LEMMA Answers ==
    ASSUME DiskInv, NEW q \in Reqs, NEW a,
           a \in {"no_ssh", "already_running", "no_scan", "started", "invalid", "nothing_to_clean"},
           U!Answer(q, a), UNCHANGED <<bg, task, callbacks, git, late, results, config>>
    PROVE  DiskInv'
  <1>1. RequestOk([pc |-> a])
    BY DEF RequestOk
  <1> QED
    BY <1>1, RequestMoves DEF U!Answer

(* A task takes the slot only when it is free or its holder has ended.      *)
LEMMA TaskStarts ==
    ASSUME DiskInv, NEW q \in Reqs, NEW b, TaskOk(b, Spared(q)), U!StartTask(q, b), U!MayHandle,
           UNCHANGED <<callbacks, git, late, results, config>>
    PROVE  DiskInv'
  <1>1. CASE U!Busy
    BY <1>1, Answers DEF U!StartTask
  <1>2. CASE ~U!Busy
    <2>1. /\ U!Answer(q, "started") /\ task' = q
          /\ bg' = [bg EXCEPT ![q] = b]
      BY <1>2 DEF U!StartTask
    <2>2. callbacks = {}
      BY DEF U!MayHandle
    <2>3. \A x \in Reqs : ~Works(bg[x])
      BY <1>2, DiskAssumption DEF U!Busy, U!NoTask, DiskInv, Works
    <2>4. DOMAIN bg' = Reqs /\ \A x \in Reqs : bg'[x] = IF x = q THEN b ELSE bg[x]
      BY <2>1 DEF DiskInv, DiskTyped
    <2>5. DOMAIN req' = Reqs
          /\ \A x \in Reqs : req'[x] = IF x = q THEN [pc |-> "started"] ELSE req[x]
      BY <2>1 DEF U!Answer, DiskInv, DiskTyped
    <2>6. \A x \in Reqs : RequestOk(req'[x])
      BY <2>5 DEF DiskInv, RequestOk
    <2>7. \A x \in Reqs : Works(bg'[x]) => x = task' /\ callbacks' = {}
      BY <2>1, <2>2, <2>3, <2>4
    <2> QED
      BY <2>4, <2>5, <2>6, <2>7 DEF DiskInv, DiskTyped, Spared, U!SaysClean
  <1> QED
    BY <1>1, <1>2

(* A step of the task that works.                                           *)
LEMMA TaskMoves ==
    ASSUME DiskInv, NEW q \in Reqs, Works(bg[q]),
           NEW b, TaskOk(b, Spared(q)), bg' = [bg EXCEPT ![q] = b],
           UNCHANGED <<req, task, git, late, config>>,
           results' # U!NoResult => ScanOk(results'),
           \/ callbacks' = callbacks
           \/ ~Works(b)
    PROVE  DiskInv'
  <1>1. DOMAIN bg' = Reqs /\ \A x \in Reqs : bg'[x] = IF x = q THEN b ELSE bg[x]
    BY DEF DiskInv, DiskTyped
  <1>2. \A x \in Reqs : x # q => ~Works(bg[x])
    BY DEF DiskInv
  <1>3. \A x \in Reqs : Works(bg'[x]) => x = task' /\ callbacks' = {}
    BY <1>1, <1>2 DEF DiskInv
  <1> QED
    BY <1>1, <1>3 DEF DiskInv, DiskTyped, Spared, U!SaysClean

(* A task that ends leaves the result of its scan.                          *)
LEMMA TaskEnds ==
    ASSUME DiskInv, NEW q \in Reqs, Works(bg[q]), NEW result, ScanOk(result),
           U!Finish(q, result), UNCHANGED <<req, task, git, late, config>>
    PROVE  DiskInv'
  <1> DEFINE b == [pc |-> "done", kind |-> bg[q].kind]
  <1>1. TaskOk(b, Spared(q)) /\ ~Works(b)
    BY DEF TaskOk, Works
  <1>2. bg' = [bg EXCEPT ![q] = b] /\ results' = result
    BY DEF U!Finish
  <1> HIDE DEF b
  <1> QED
    BY <1>1, <1>2, TaskMoves

(* Every step keeps the invariant: one step per action.                     *)
LEMMA DiskStep == DiskInv /\ files \subseteq Dirs /\ U!Next => DiskInv'
  <1> SUFFICES ASSUME DiskInv, files \subseteq Dirs, U!Next PROVE DiskInv'
    OBVIOUS
  <1>1. ASSUME NEW q \in Reqs, U!scan_disk_v1(q) PROVE DiskInv'
    <2>1. UNCHANGED <<bg, task, callbacks, git, late, results, config>>
      BY <1>1 DEF U!scan_disk_v1, U!Others, U!remote, U!cache, U!NoSsh, U!BeginScan
    <2>2. CASE \E a \in {"no_ssh", "already_running"} : U!Answer(q, a)
      BY <2>1, <2>2, Answers
    <2>3. CASE req' = [req EXCEPT ![q] = [pc |-> "scan_gather", config |-> config]]
      <3>1. RequestOk([pc |-> "scan_gather", config |-> config])
        BY DEF RequestOk, DiskInv, DiskTyped
      <3> QED
        BY <2>1, <2>3, <3>1, RequestMoves
    <2> QED
      BY <1>1, <2>2, <2>3 DEF U!scan_disk_v1, U!NoSsh, U!BeginScan
  <1>2. ASSUME NEW q \in Reqs, U!clean_disk_v1(q) PROVE DiskInv'
    <2>1. UNCHANGED <<bg, task, callbacks, git, late, results, config>>
      BY <1>2 DEF U!clean_disk_v1, U!Others, U!remote, U!cache, U!NoSsh, U!BeginClean
    <2>2. CASE U!NoSsh(q)
      BY <2>1, <2>2, Answers DEF U!NoSsh
    <2>3. ASSUME NEW paths, NEW allow, U!BeginClean(q, paths, allow) PROVE DiskInv'
      <3>1. CASE \E a \in {"already_running", "no_scan"} : U!Answer(q, a)
        BY <2>1, <3>1, Answers
      <3>2. CASE ~U!Busy /\ results # U!NoResult
        <4> DEFINE r == [pc |-> "plan", config |-> config, scan |-> results,
                         paths |-> paths, allow |-> allow]
        <4>1. RequestOk(r)
          BY <3>2 DEF RequestOk, DiskInv, DiskTyped
        <4>2. req' = [req EXCEPT ![q] = r]
          BY <2>3, <3>2 DEF U!BeginClean
        <4> HIDE DEF r
        <4> QED
          BY <2>1, <4>1, <4>2, RequestMoves
      <3> QED
        BY <2>3, <3>1, <3>2 DEF U!BeginClean
    <2> QED
      BY <1>2, <2>2, <2>3 DEF U!clean_disk_v1
  <1>3. ASSUME NEW q \in Reqs, U!start_scan_for_backend(q) PROVE DiskInv'
    <2> DEFINE b == [pc |-> "scan", kind |-> "scan", config |-> req[q].config,
                     runs |-> U!gather_all_runs]
    <2>1. TaskOk(b, Spared(q))
      BY DEF TaskOk
    <2>2. U!StartTask(q, b) /\ U!MayHandle /\ UNCHANGED <<callbacks, git, late, results, config>>
      BY <1>3 DEF U!start_scan_for_backend, U!Others, U!remote, U!cache
    <2> HIDE DEF b
    <2> QED
      BY <2>1, <2>2, TaskStarts
  <1>4. ASSUME NEW q \in Reqs, U!plan_cleanup_for_backend(q) PROVE DiskInv'
    <2>1. UNCHANGED <<bg, task, callbacks, git, late, results, config>>
      BY <1>4 DEF U!plan_cleanup_for_backend, U!Others, U!remote, U!cache
    <2>2. req[q].config \in Configs /\ ScanOk(req[q].scan)
      BY <1>4 DEF U!plan_cleanup_for_backend, DiskInv, RequestOk
    <2> DEFINE c    == req[q].config
               spec == U!Spec4(c)
               refs == U!build_run_references(U!gather_all_runs, spec, req[q].scan.home)
               plan == U!plan_cleanup(req[q].scan, refs, U!DeclaredBy(c), spec,
                                      req[q].paths, req[q].allow)
               r == [pc |-> "launch", config |-> c, plan |-> plan]
    <2>3. SparesEdits(plan)
      BY <2>2, PlanSparesEdits
    <2>4. \/ U!Answer(q, "invalid") \/ U!Answer(q, "nothing_to_clean")
          \/ req' = [req EXCEPT ![q] = r]
      BY <1>4, Zenon DEF U!plan_cleanup_for_backend
    <2> HIDE DEF plan
    <2>5. RequestOk(r)
      BY <2>3 DEF RequestOk
    <2> HIDE DEF r
    <2> QED
      BY <2>1, <2>4, <2>5, Answers, RequestMoves
  <1>5. ASSUME NEW q \in Reqs, U!start_clean_for_backend(q) PROVE DiskInv'
    <2> DEFINE b == [pc |-> IF req[q].plan.check # {} THEN "check" ELSE "delete",
                     kind |-> "clean", config |-> req[q].config, plan |-> req[q].plan,
                     targets |-> {e.path : e \in req[q].plan.delete}]
    <2>1. SparesEdits(req[q].plan)
      BY <1>5 DEF U!start_clean_for_backend, DiskInv, RequestOk
    <2>2. TaskOk(b, Spared(q))
      BY <2>1 DEF TaskOk, SparesEdits
    <2>3. U!StartTask(q, b) /\ U!MayHandle /\ UNCHANGED <<callbacks, git, late, results, config>>
      BY <1>5 DEF U!start_clean_for_backend, U!Others, U!remote, U!cache
    <2> HIDE DEF b
    <2> QED
      BY <2>2, <2>3, TaskStarts
  <1>6. ASSUME NEW q \in Reqs, U!scan_backend(q) PROVE DiskInv'
    <2>1. bg[q].pc = "scan" /\ UNCHANGED <<git, late, config, task, req>>
      BY <1>6 DEF U!scan_backend, U!remote
    <2> DEFINE spec == U!Spec4(bg[q].config)
               lines == U!ScanLines(files, ready, spec, Home)
               refs == U!build_run_references(bg[q].runs, spec, Home)
               found(ls) == U!classify_entries(U!raw_to_entries(ls), refs,
                                               U!DeclaredBy(bg[q].config))
               Res(ls, err) == [by |-> q, home |-> Home, errors |-> err, entries |-> found(ls)]
               broken == [by |-> q, home |-> U!NoHome, errors |-> TRUE, entries |-> {}]
    <2>2. \A ls \in SUBSET lines : found(ls) \subseteq Entries
      BY ScanTyped
    <2>3. \/ U!Finish(q, Res(lines, FALSE))
          \/ \E l \in lines : U!Finish(q, Res(lines \ {l}, TRUE))
          \/ U!Finish(q, broken)
      BY <1>6, Zenon DEF U!scan_backend
    <2> HIDE DEF lines, found
    <2>4. \A ls \in SUBSET lines : \A err : ScanOk(Res(ls, err))
      BY <2>2 DEF ScanOk
    <2>5. ScanOk(broken)
      BY DEF ScanOk
    <2> HIDE DEF Res, broken
    <2>6. PICK result : ScanOk(result) /\ U!Finish(q, result)
      BY <2>3, <2>4, <2>5
    <2> QED
      BY <2>1, <2>6, TaskEnds DEF Works
  <1>7. ASSUME NEW q \in Reqs, U!agent_check(q) PROVE DiskInv'
    <2>1. /\ bg[q].pc = "check" /\ UNCHANGED <<git, late, config, results, task, callbacks, req>>
          /\ "pc" \in DOMAIN bg[q] /\ "targets" \in DOMAIN bg[q]
          /\ \A p \in bg[q].targets : p \notin Edits
          /\ results # U!NoResult => ScanOk(results)
      BY <1>7 DEF U!agent_check, U!Others, U!remote, DiskInv, TaskOk
    <2>2. PICK ok \in BOOLEAN :
            LET agents  == U!Paths(bg[q].plan.check)
                clean   == IF ok THEN {p \in agents \cap files : U!SaysClean(p)} ELSE {}
                targets == bg[q].targets \cup clean
            IN  IF targets = {}
                THEN /\ report' = U!Report(q, {}, {})
                     /\ bg' = [bg EXCEPT ![q] = [pc |-> "regather", kind |-> "clean",
                                                 config |-> bg[q].config]]
                ELSE /\ bg' = [bg EXCEPT ![q].pc = "delete", ![q].targets = targets]
                     /\ UNCHANGED report
      BY <1>7 DEF U!agent_check
    <2> DEFINE clean == IF ok THEN {p \in U!Paths(bg[q].plan.check) \cap files : U!SaysClean(p)}
                        ELSE {}
               targets == bg[q].targets \cup clean
    <2>3. CASE bg' = [bg EXCEPT ![q] = [pc |-> "regather", kind |-> "clean",
                                        config |-> bg[q].config]]
      <3>1. TaskOk([pc |-> "regather", kind |-> "clean", config |-> bg[q].config], Spared(q))
        BY DEF TaskOk
      <3> QED
        BY <2>1, <2>3, <3>1, TaskMoves DEF Works
    <2>4. CASE bg' = [bg EXCEPT ![q].pc = "delete", ![q].targets = targets]
      <3> DEFINE b == [[bg[q] EXCEPT !.pc = "delete"] EXCEPT !.targets = targets]
      <3>1. bg' = [bg EXCEPT ![q] = b]
        BY <2>4
      <3>2. targets \cap Edits \subseteq Spared(q)
        BY <2>1 DEF Spared
      <3> HIDE DEF targets
      <3>3. TaskOk(b, Spared(q))
        BY <2>1, <3>2 DEF TaskOk
      <3> HIDE DEF b
      <3> QED
        BY <2>1, <3>1, <3>3, TaskMoves DEF Works
    <2> QED
      BY <2>2, <2>3, <2>4, Zenon
  <1>8. ASSUME NEW q \in Reqs, U!execute_cleanup(q) \/ U!clean_backend(q) PROVE DiskInv'
    <2>1. /\ bg[q].pc \in {"delete", "regather"}
          /\ UNCHANGED <<git, late, config, results, task, callbacks, req>>
          /\ results # U!NoResult => ScanOk(results)
      BY <1>8 DEF U!execute_cleanup, U!clean_backend, U!Others, U!remote, U!cache, DiskInv
    <2> DEFINE again == [pc |-> "regather", kind |-> "clean", config |-> bg[q].config]
               rescan == [pc |-> "scan", kind |-> "clean", config |-> bg[q].config,
                          runs |-> U!gather_all_runs]
    <2>2. bg' = [bg EXCEPT ![q] = again] \/ bg' = [bg EXCEPT ![q] = rescan]
      BY <1>8 DEF U!execute_cleanup, U!clean_backend
    <2>3. TaskOk(again, Spared(q)) /\ TaskOk(rescan, Spared(q))
      BY DEF TaskOk
    <2> HIDE DEF again, rescan
    <2> QED
      BY <2>1, <2>2, <2>3, TaskMoves DEF Works
  <1>9. ASSUME NEW q \in Reqs, U!done(q) PROVE DiskInv'
    <2>1. /\ q \in callbacks /\ UNCHANGED <<git, late, config, results, req, bg>>
      BY <1>9 DEF U!done, U!Others, U!remote, U!cache
    <2>2. \A x \in Reqs : ~Works(bg[x])
      BY <2>1 DEF DiskInv
    <2> QED
      BY <2>1, <2>2 DEF DiskInv, DiskTyped, Spared, U!SaysClean
  <1>10. CASE U!World
    <2>1. CASE UNCHANGED <<bg, req, task, callbacks, results, git, late>> /\ config' \in Configs
      BY <2>1 DEF DiskInv, DiskTyped, Spared, U!SaysClean
    <2>2. ASSUME NEW p \in Edits, U!Edit(p) PROVE DiskInv'
      <3>1. /\ UNCHANGED <<bg, req, task, callbacks, results, config>>
            /\ \E state : git' = [git EXCEPT ![p] = state]
            /\ late' = late \cup
                 {<<q, p>> : q \in {x \in Reqs : bg[x].pc = "delete" /\ p \in bg[x].targets}}
        BY <2>2 DEF U!Edit, U!service, U!cache
      <3>2. DOMAIN git' = Edits /\ \A x \in Edits : x # p => git'[x] = git[x]
        BY <3>1 DEF DiskInv, DiskTyped
      <3>3. ASSUME NEW q \in Reqs PROVE TaskOk(bg'[q], Spared(q)')
        <4>1. TaskOk(bg[q], Spared(q)) /\ bg' = bg
          BY <3>1 DEF DiskInv
        <4>2. CASE bg[q].pc = "delete"
          <5>1. \A x \in Spared(q) : x # p => x \in Spared(q)'
            BY <3>1, <3>2 DEF Spared, U!SaysClean
          <5>2. p \in bg[q].targets => <<q, p>> \in late'
            BY <3>1, <4>2
          <5>3. p \in bg[q].targets => p \in Spared(q)'
            BY <5>2, <2>2 DEF Spared
          <5> QED
            BY <4>1, <4>2, <5>1, <5>3 DEF TaskOk
        <4>3. CASE bg[q].pc # "delete"
          BY <4>1, <4>3 DEF TaskOk
        <4> QED
          BY <4>2, <4>3
      <3> QED
        BY <3>1, <3>2, <3>3 DEF DiskInv, DiskTyped
    <2> QED
      BY <1>10, <2>1, <2>2
         DEF U!World, U!RunBegins, U!RunEnds, U!RunSaved, U!Install, U!Reload, U!service,
             U!cache, U!remote, DiskInv, DiskTyped
  <1> QED
    BY <1>1, <1>2, <1>3, <1>4, <1>5, <1>6, <1>7, <1>8, <1>9, <1>10
       DEF U!Next, U!Handler, U!TaskStep

(* The remote directories are those that may exist.                         *)
LEMMA FilesStep == files \subseteq Dirs /\ U!Next => files' \subseteq Dirs
  <1> SUFFICES ASSUME files \subseteq Dirs, U!Next PROVE files' \subseteq Dirs
    OBVIOUS
  <1>1. CASE U!World
    <2>1. \A r : U!Touches(r) \subseteq Dirs
      BY DEF U!Touches
    <2> QED
      BY <1>1, <2>1 DEF U!World, U!RunBegins, U!RunEnds, U!RunSaved, U!Edit, U!Install,
         U!Reload, U!remote
  <1>2. ASSUME NEW q \in Reqs, U!execute_cleanup(q) PROVE files' \subseteq Dirs
    BY <1>2 DEF U!execute_cleanup
  <1>3. CASE UNCHANGED U!remote
    BY <1>3 DEF U!remote
  <1> QED
    BY <1>1, <1>2, <1>3 DEF U!Next, U!Handler, U!TaskStep, U!scan_disk_v1, U!clean_disk_v1,
       U!start_scan_for_backend, U!plan_cleanup_for_backend, U!start_clean_for_backend,
       U!scan_backend, U!agent_check, U!clean_backend, U!done, U!Others

(* In the composition.                                                      *)
LEMMA DiskAlways == Spec => [](part = "disk" => DiskInv /\ files \subseteq Dirs)
  <1> DEFINE Inv == part = "disk" => DiskInv /\ files \subseteq Dirs
  <1>1. Init => Inv
    BY DiskBegin DEF Init, U!Init
  <1>2. Inv /\ [Next]_vars => Inv'
    <2> SUFFICES ASSUME Inv, [Next]_vars PROVE Inv'
      OBVIOUS
    <2>1. CASE part = "disk" /\ U!Next /\ UNCHANGED part
      BY <2>1, DiskStep, FilesStep
    <2>2. CASE UNCHANGED <<part, DiskVars>>
      BY <2>2 DEF DiskVars, DiskInv, DiskTyped, Spared, U!SaysClean
    <2> QED
      BY <2>1, <2>2 DEF Next, vars
  <1> QED
    BY <1>1, <1>2, PTL DEF Spec

(* However requests, done callbacks and scans interleave, one background    *)
(* task of a backend works at a time (_start of disk/service.py).           *)
THEOREM OneTaskAtATime == Spec => []SingleFlight
  <1>1. (part = "disk" => DiskInv) => SingleFlight
    <2> SUFFICES ASSUME DiskInv PROVE U!SingleFlight
      BY DEF SingleFlight
    <2>1. U!Cardinality(U!Working) = Cardinality(U!Working)
      BY Zenon DEF U!Cardinality, Cardinality, U!IsFiniteSet, IsFiniteSet
    <2>2. U!Working \subseteq {task}
      BY DEF DiskInv, U!Working, Works
    <2>3. IsFiniteSet({task}) /\ Cardinality({task}) = 1
      BY FS_Singleton
    <2>4. Cardinality(U!Working) <= 1
      BY <2>2, <2>3, FS_Subset
    <2> QED
      BY <2>1, <2>4 DEF U!SingleFlight
  <1> QED
    BY <1>1, DiskAlways, PTL

(* Whatever is planned, from whatever scan and while people edit, runs      *)
(* begin and configurations change, a cleanup removes an agent workspace    *)
(* only if git reported no unsaved work when the cleanup asked: work begun  *)
(* between that answer and the rm is lost, and so is a workspace in which   *)
(* git status itself fails (execute_cleanup and the agent check of          *)
(* disk/cleanup.py).                                                        *)
THEOREM UnsavedWorkSurvives == Spec => DirtyWorkSurvives
  <1> DEFINE Saved(p) ==
               U!SaysClean(p) \/ \E q \in Reqs : bg[q].pc = "delete" /\ <<q, p>> \in late
  <1>1. (part = "disk" => DiskInv) /\ [Next]_vars =>
            [\A p \in Edits : p \in files /\ p \notin files' => Saved(p)]_(U!vars)
    <2> SUFFICES ASSUME part = "disk" => DiskInv, [Next]_vars, ~UNCHANGED U!vars,
                        NEW p \in Edits, p \in files, p \notin files'
                 PROVE  Saved(p)
      OBVIOUS
    <2>1. CASE UNCHANGED DiskVars
      BY <2>1 DEF DiskVars
    <2>2. CASE DiskInv /\ U!Next
      <3>1. PICK q \in Reqs : U!execute_cleanup(q)
        BY <2>2 DEF U!Next, U!Handler, U!TaskStep, U!World, U!scan_disk_v1, U!clean_disk_v1,
             U!start_scan_for_backend, U!plan_cleanup_for_backend, U!start_clean_for_backend,
             U!scan_backend, U!agent_check, U!clean_backend, U!done, U!Others, U!remote,
             U!RunBegins, U!RunEnds, U!RunSaved, U!Edit, U!Install, U!Reload
      <3>2. bg[q].pc = "delete" /\ p \in bg[q].targets
        BY <3>1 DEF U!execute_cleanup
      <3>3. p \in Spared(q)
        BY <2>2, <3>2 DEF DiskInv, TaskOk
      <3> QED
        BY <3>2, <3>3 DEF Spared
    <2> QED
      BY <2>1, <2>2 DEF Next, vars
  <1> QED
    BY <1>1, DiskAlways, PTL DEF Spec, DirtyWorkSurvives, U!DirtyWorkSurvives

(* A request that goes on to its launch has planned from its scan and the   *)
(* runs of that moment.                                                     *)
LEMMA PlanIsOfScan ==
    ASSUME DiskInv, U!Next, NEW q \in Reqs, req[q].pc = "plan", req'[q].pc = "launch"
    PROVE  LET c == req[q].config
               scan == req[q].scan
               refs == U!build_run_references(U!gather_all_runs, U!Spec4(c), scan.home)
           IN  req'[q].plan = U!plan_cleanup(scan, refs, U!DeclaredBy(c), U!Spec4(c),
                                             req[q].paths, req[q].allow)
  <1>2. U!plan_cleanup_for_backend(q)
    <2>2. req' # req
      OBVIOUS
    <2>3. PICK x \in Reqs : U!Handler(x)
      BY <2>2 DEF U!Next, U!TaskStep, U!World, U!scan_backend, U!agent_check,
         U!execute_cleanup, U!clean_backend, U!done, U!RunBegins, U!RunEnds, U!RunSaved,
         U!Edit, U!Install, U!Reload, U!service
    <2>4. \A y \in Reqs \ {x} : req'[y] = req[y]
      BY <2>3 DEF DiskInv, DiskTyped, U!Handler, U!scan_disk_v1, U!clean_disk_v1,
         U!start_scan_for_backend, U!plan_cleanup_for_backend, U!start_clean_for_backend,
         U!NoSsh, U!BeginScan, U!BeginClean, U!StartTask, U!Answer
    <2>5. x = q
      BY <2>4
    <2> QED
      BY <2>3, <2>5 DEF U!Handler, U!scan_disk_v1, U!clean_disk_v1,
         U!start_scan_for_backend, U!start_clean_for_backend, U!Idle
  <1> QED
    BY <1>2 DEF U!plan_cleanup_for_backend, U!Answer, DiskInv, DiskTyped

(* A cleanup plans no deletion of what a run works in that is active in     *)
(* memory when the plan is made: neither an old scan, nor a run file that   *)
(* says the run has ended, nor a request that names the path and allows it  *)
(* makes it so (plan_cleanup of disk/cleanup.py, which classifies afresh).  *)
THEOREM ActiveRunsSpared == Spec => PlanSparesActive
  <1> DEFINE Inv == part = "disk" => DiskInv /\ files \subseteq Dirs
             Spares == \A q \in Reqs :
                req[q].pc = "plan" /\ req'[q].pc = "launch" =>
                   \A e \in U!to_delete(req'[q].plan) : \A r \in DiskRuns :
                      mem[r] = "active" => ~U!UsedBy(r, e.path)
  <1>1. Inv /\ [Next]_vars => [Spares]_(U!vars)
    <2> SUFFICES ASSUME Inv, [Next]_vars, ~UNCHANGED U!vars,
                        NEW q \in Reqs, req[q].pc = "plan", req'[q].pc = "launch",
                        NEW r \in DiskRuns, mem[r] = "active",
                        NEW e \in U!to_delete(req'[q].plan), U!UsedBy(r, e.path)
                 PROVE  FALSE
      OBVIOUS
    <2>1. DiskInv /\ U!Next
      BY DEF Next, vars, DiskVars
    <2> DEFINE c == req[q].config
               scan == req[q].scan
               refs == U!build_run_references(U!gather_all_runs, U!Spec4(c), scan.home)
               plan == U!plan_cleanup(scan, refs, U!DeclaredBy(c), U!Spec4(c),
                                      req[q].paths, req[q].allow)
    <2>3. c \in Configs /\ ScanOk(scan)
      BY <2>1 DEF DiskInv, RequestOk
    <2>4. req'[q].plan = plan
      BY <2>1, PlanIsOfScan
    <2>5. e \in U!to_delete(plan)
      BY <2>4
    <2> QED
      BY <2>3, <2>5, PlanSparesUsed
  <1> QED
    BY <1>1, DiskAlways, PTL DEF Spec, PlanSparesActive, U!PlanSparesActive

(* What a bulk cleanup selects from an old scan, and is still there, one    *)
(* from a scan of now selects too: place, name and runs decide, and none of *)
(* them is taken from the scan.                                             *)
LEMMA OldScanSelectsNoMore ==
    ASSUME NEW q \in Reqs, ScanOk(req[q].scan), NEW allow,
           NEW e, e \in U!to_delete(U!plan_cleanup(req[q].scan,
                     U!build_run_references(U!gather_all_runs, U!Spec4(req[q].config),
                                            req[q].scan.home),
                     U!DeclaredBy(req[q].config), U!Spec4(req[q].config), U!Bulk, allow)),
           e.path \in files, e.kind \in {"clone", "agent", "log"}
    PROVE  e.path \in U!Paths(U!to_delete(U!FreshPlan(q)))
  <1> DEFINE scan == req[q].scan
             spec == U!Spec4(req[q].config)
             decl == U!DeclaredBy(req[q].config)
             refs == U!build_run_references(U!gather_all_runs, spec, Home)
             refs0 == U!build_run_references(U!gather_all_runs, spec, scan.home)
             lines == U!ScanLines(files, ready, spec, Home)
             now == [home |-> Home,
                     entries |-> U!classify_entries(U!raw_to_entries(lines), refs, decl)]
             plan == U!plan_cleanup(now, refs, decl, spec, U!Bulk, {})
  <1>1. U!FreshPlan(q) = plan
    BY DEF U!FreshPlan
  <1>2. /\ e \in U!fresh_copies(scan, refs0, decl) /\ e.class = "orphaned"
        /\ U!Fate(e, spec, scan.home, allow) # "skip"
    BY DEF U!to_delete, U!plan_cleanup, U!Bulk
  <1>3. scan.home = Home
    BY <1>2 DEF ScanOk, U!fresh_copies, U!classify_entries
  <1> HIDE DEF spec, decl
  <1>4. U!Safe(e, spec, Home)
    BY <1>2, <1>3 DEF U!Fate
  <1>5. PICK e0 \in scan.entries : e = [e0 EXCEPT !.class = U!classify(e0, refs, decl)]
    BY <1>2, <1>3 DEF U!fresh_copies, U!classify_entries
  <1> HIDE DEF refs, refs0, scan
  <1>6. e0.path = e.path /\ e0.kind = e.kind /\ U!classify(e0, refs, decl) = "orphaned"
    BY <1>2, <1>5 DEF ScanOk, Entries, scan
  <1>7. ASSUME NEW x, x.path = e.path, x.kind = e.kind
        PROVE  U!classify(x, refs, decl) = "orphaned"
    <2>1. U!RefIds(x, refs) = U!RefIds(e0, refs)
      BY <1>6, <1>7 DEF U!RefIds
    <2> QED
      BY <1>6, <1>7, <2>1 DEF U!classify
  <1>8. \E l \in lines : l.path = e.path /\ U!KindOf(l) = e.kind
    <2>1. CASE e.kind \in {"clone", "agent"}
      <3> DEFINE l == [section |-> "clones", path |-> e.path, ready |-> "none"]
      <3>1. \E r \in U!FirstOver(e.path, U!Roots(spec.clone, Home)) :
               Len(U!Below(e.path, r)) = 1
        BY <1>4, <2>1 DEF U!Safe
      <3>2. \E r \in U!ToSet(U!Roots(spec.clone, Home)) : Len(U!Below(e.path, r)) = 1
        BY <3>1, FirstIsRoot
      <3>3. l \in lines
        BY <3>2 DEF U!ScanLines
      <3>4. /\ e.kind = "clone" => U!LastName(e.path) \in HashNames
            /\ e.kind = "agent" => U!LastName(e.path) \in AgentNames
        BY <1>4 DEF U!Safe
      <3>5. U!KindOf(l) = e.kind
        BY <2>1, <3>4, NamesAssumption DEF U!KindOf
      <3> QED
        BY <3>3, <3>5
    <2>2. CASE e.kind = "log"
      <3> DEFINE l == [section |-> "logs", path |-> e.path, ready |-> "none"]
      <3>1. \E r \in U!FirstOver(e.path, U!Roots(spec.log, Home)) :
               Len(U!Below(e.path, r)) = 1
        BY <1>4, <2>2 DEF U!Safe
      <3>2. \E r \in U!ToSet(U!Roots(spec.log, Home)) : Len(U!Below(e.path, r)) = 1
        BY <3>1, FirstIsRoot
      <3>3. l \in lines
        BY <3>2 DEF U!ScanLines
      <3>5. U!KindOf(l) = e.kind
        BY <2>2 DEF U!KindOf
      <3> QED
        BY <3>3, <3>5
    <2> QED
      BY <2>1, <2>2
  <1> HIDE DEF lines
  <1>9. PICK l \in lines : l.path = e.path /\ U!KindOf(l) = e.kind
    BY <1>8
  <1> DEFINE n0 == [path |-> l.path, kind |-> U!KindOf(l), ready |-> l.ready,
                    class |-> "unknown"]
             n1 == [n0 EXCEPT !.class = U!classify(n0, refs, decl)]
             n == [n1 EXCEPT !.class = U!classify(n1, refs, decl)]
  <1>10. n0 \in U!raw_to_entries(lines)
    BY <1>9 DEF U!raw_to_entries
  <1>11. /\ n.path = e.path /\ n.kind = e.kind /\ n.class = "orphaned"
    <2>1. n1.path = e.path /\ n1.kind = e.kind
      BY <1>9
    <2> QED
      BY <1>7, <2>1
  <1>12. n1 \in now.entries
    BY <1>10 DEF U!classify_entries
  <1>13. n \in U!fresh_copies(now, refs, decl)
    <2> HIDE DEF n1, now
    <2> QED
      BY <1>12 DEF U!fresh_copies, U!classify_entries
  <1> HIDE DEF n, n1, n0
  <1>14. U!Safe(n, spec, Home)
    BY <1>4, <1>11 DEF U!Safe
  <1>15. U!Fate(n, spec, Home, {}) \in {"delete", "check_then_delete"}
    BY <1>11, <1>14 DEF U!Fate, U!DELETABLE_KINDS
  <1>16. n \in U!to_delete(plan)
    <2>1. now.home = Home
      OBVIOUS
    <2> HIDE DEF now
    <2> QED
      BY <1>11, <1>13, <1>15, <2>1 DEF U!to_delete, U!plan_cleanup, U!Bulk, U!DELETABLE_KINDS
  <1> QED
    BY <1>1, <1>11, <1>16 DEF U!Paths

(* A bulk cleanup planned from an old scan removes no clone, workspace or   *)
(* log that one planned from a scan taken now would spare, although runs    *)
(* have begun and ended and the configuration has been reloaded since       *)
(* (disk/cleanup.py: "a stale scan can only shrink what gets deleted",      *)
(* which the ready flag of a stack belies).                                 *)
THEOREM OldScanShrinksRunFiles == Spec => U!RunFilesOnlyShrink
  <1> DEFINE Inv == part = "disk" => DiskInv /\ files \subseteq Dirs
             Shrinks == U!ShrinksFor({"clone", "agent", "log"})
  <1>1. Inv /\ [Next]_vars => [Shrinks]_(U!vars)
    <2> SUFFICES ASSUME Inv, [Next]_vars, ~UNCHANGED U!vars,
                        NEW q \in Reqs, req[q].pc = "plan", req'[q].pc = "launch",
                        req[q].paths = U!Bulk,
                        NEW p \in files, NEW e \in U!to_delete(req'[q].plan), e.path = p,
                        e.kind \in {"clone", "agent", "log"}
                 PROVE  p \in U!Paths(U!to_delete(U!FreshPlan(q)))
      BY DEF U!ShrinksFor
    <2>1. DiskInv /\ U!Next
      BY DEF Next, vars, DiskVars
    <2>2. ScanOk(req[q].scan)
      BY <2>1 DEF DiskInv, RequestOk
    <2> QED
      BY <2>1, <2>2, PlanIsOfScan, OldScanSelectsNoMore
  <1> QED
    BY <1>1, DiskAlways, PTL DEF Spec, U!RunFilesOnlyShrink

-----------------------------------------------------------------------------
(* What a cleanup removes, reports and leaves for the pages.                *)

(* Every entry of the plan passed the checks of _safety_reason under the    *)
(* configuration the request has read.                                      *)
Planned(plan, c) ==
    /\ c \in Configs
    /\ \A e \in U!to_delete(plan) :
          /\ e.path \in Dirs
          /\ \E kind \in U!Kinds : U!Safe([path |-> e.path, kind |-> kind], U!Spec4(c), Home)

RequestPlanned(r) == r.pc = "launch" => Planned(r.plan, r.config)

(* A cleanup that has not deleted yet holds all that needs no check, and    *)
(* nothing that is not in its plan.                                         *)
TaskPlanned(b) ==
    b.pc \in {"check", "delete"} =>
        /\ {"pc", "targets", "plan", "config"} \subseteq DOMAIN b
        /\ Planned(b.plan, b.config)
        /\ U!Paths(b.plan.delete) \subseteq b.targets
        /\ b.targets \subseteq U!Paths(U!to_delete(b.plan))

(* Once it has deleted, its report is the one that is shown.                *)
Reported(b) == b.pc = "regather" \/ (b.pc \in {"scan", "done"} /\ b.kind = "clean")

TaskReported(q, b) ==
    Reported(b) /\ q = last => report.by = q

(* The newest task works, or its result is the one that is shown.           *)
CleanInv ==
    /\ \A q \in Reqs : RequestPlanned(req[q])
    /\ \A q \in Reqs : TaskPlanned(bg[q]) /\ TaskReported(q, bg[q])
    /\ \A q \in Reqs : Works(bg[q]) => q = last
    /\ last # U!NoTask =>
          last \in Reqs /\ (Works(bg[last]) \/ (bg[last].pc = "done" /\ results.by = last))

(* A plan selects only what passes the checks.                              *)
LEMMA PlanIsSafe ==
    ASSUME NEW scan, ScanOk(scan), NEW c \in Configs, NEW refs, NEW declared,
           NEW paths, NEW allow
    PROVE  Planned(U!plan_cleanup(scan, refs, declared, U!Spec4(c), paths, allow), c)
  <1> DEFINE spec == U!Spec4(c)
             copies == U!fresh_copies(scan, refs, declared)
             plan == U!plan_cleanup(scan, refs, declared, spec, paths, allow)
  <1> SUFFICES ASSUME NEW e \in U!to_delete(plan)
               PROVE  /\ e.path \in Dirs
                      /\ \E kind \in U!Kinds : U!Safe([path |-> e.path, kind |-> kind], spec, Home)
    BY DEF Planned
  <1>1. e \in copies /\ U!Fate(e, spec, scan.home, allow) # "skip"
    BY DEF U!to_delete, U!plan_cleanup
  <1>2. scan.home = Home
    BY <1>1 DEF ScanOk, U!fresh_copies, U!classify_entries
  <1>3. U!Safe(e, spec, Home) /\ e.kind \in U!Kinds
    BY <1>1, <1>2 DEF U!Fate, U!DELETABLE_KINDS, U!Kinds
  <1>5. e.path \in Dirs
    BY <1>1, ClassifyTyped DEF ScanOk, U!fresh_copies, Entries
  <1> HIDE DEF spec
  <1>4. U!Safe([path |-> e.path, kind |-> e.kind], spec, Home)
    BY <1>3 DEF U!Safe
  <1> QED
    BY <1>3, <1>4, <1>5

(* Nothing is planned before the first request.                             *)
LEMMA CleanBegin == U!Init => CleanInv
  <1> SUFFICES ASSUME U!Init PROVE CleanInv
    OBVIOUS
  <1>1. \A q \in Reqs : req[q].pc = "none" /\ bg[q].pc = "none"
    BY DEF U!Init, U!Idle
  <1> QED
    BY <1>1 DEF U!Init, CleanInv, RequestPlanned, TaskPlanned, TaskReported, Reported, Works

(* A step of one handler.                                                   *)
LEMMA RequestPlans ==
    ASSUME CleanInv, DiskInv, NEW q \in Reqs, NEW r, RequestPlanned(r), req' = [req EXCEPT ![q] = r],
           UNCHANGED <<bg, last, results, report>>
    PROVE  CleanInv'
  <1>1. \A x \in Reqs : req'[x] = IF x = q THEN r ELSE req[x]
    BY DEF DiskInv, DiskTyped
  <1> QED
    BY <1>1 DEF CleanInv, TaskReported

(* An answer plans nothing.                                                 *)
LEMMA AnswersPlanNothing ==
    ASSUME CleanInv, DiskInv, NEW q \in Reqs, NEW a,
           a \in {"no_ssh", "already_running", "no_scan", "started", "invalid", "nothing_to_clean"},
           U!Answer(q, a), UNCHANGED <<bg, last, results, report>>
    PROVE  CleanInv'
  <1>1. RequestPlanned([pc |-> a])
    BY DEF RequestPlanned
  <1> QED
    BY <1>1, RequestPlans DEF U!Answer

(* The task that starts becomes the newest one.                             *)
LEMMA NewestStarts ==
    ASSUME CleanInv, DiskInv, NEW q \in Reqs, NEW b, TaskPlanned(b), U!StartTask(q, b),
           Works(b), ~Reported(b),
           UNCHANGED <<results, report>>
    PROVE  CleanInv'
  <1>1. CASE U!Busy
    BY <1>1, AnswersPlanNothing DEF U!StartTask
  <1>2. CASE ~U!Busy
    <2>1. U!Answer(q, "started") /\ last' = q /\ bg' = [bg EXCEPT ![q] = b]
      BY <1>2 DEF U!StartTask
    <2>2. \A x \in Reqs : ~Works(bg[x])
      BY <1>2, DiskAssumption DEF U!Busy, U!NoTask, DiskInv, Works
    <2>3. \A x \in Reqs : /\ bg'[x] = IF x = q THEN b ELSE bg[x]
                          /\ req'[x] = IF x = q THEN [pc |-> "started"] ELSE req[x]
      BY <2>1 DEF U!Answer, DiskInv, DiskTyped
    <2>4. \A x \in Reqs : RequestPlanned(req'[x])
      BY <2>3 DEF CleanInv, RequestPlanned
    <2>5. \A x \in Reqs : TaskPlanned(bg'[x]) /\ TaskReported(x, bg[x])' /\ (Works(bg'[x]) => x = last')
      BY <2>1, <2>2, <2>3 DEF CleanInv, TaskReported
    <2>6. bg'[q] = b /\ last' = q
      BY <2>1, <2>3
    <2> QED
      BY <2>4, <2>5, <2>6 DEF CleanInv
  <1> QED
    BY <1>1, <1>2

(* A step of the task that works, which is the newest one.                  *)
LEMMA NewestMoves ==
    ASSUME CleanInv, DiskInv, NEW q \in Reqs, Works(bg[q]),
           NEW b, TaskPlanned(b), bg' = [bg EXCEPT ![q] = b], UNCHANGED <<req, last>>,
           Reported(b) => report'.by = q,
           Works(b) \/ (b.pc = "done" /\ results'.by = q)
    PROVE  CleanInv'
  <1>1. q = last
    BY DEF CleanInv
  <1>2. \A x \in Reqs : bg'[x] = IF x = q THEN b ELSE bg[x]
    BY DEF DiskInv, DiskTyped
  <1>3. \A x \in Reqs : Works(bg'[x]) => x = last'
    BY <1>1, <1>2 DEF CleanInv
  <1>4. \A x \in Reqs : TaskPlanned(bg'[x]) /\ TaskReported(x, bg[x])'
    BY <1>1, <1>2 DEF CleanInv, TaskReported
  <1>5. Works(bg'[last]) \/ (bg'[last].pc = "done" /\ results'.by = last)
    BY <1>1, <1>2
  <1> QED
    BY <1>1, <1>3, <1>4, <1>5 DEF CleanInv

(* Every step keeps the invariant: one step per action.                     *)
LEMMA CleanStep == CleanInv /\ DiskInv /\ U!Next => CleanInv'
  <1> SUFFICES ASSUME CleanInv, DiskInv, U!Next PROVE CleanInv'
    OBVIOUS
  <1>1. ASSUME NEW q \in Reqs, U!scan_disk_v1(q) \/ U!clean_disk_v1(q) PROVE CleanInv'
    <2>1. UNCHANGED <<bg, last, results, report>>
      BY <1>1 DEF U!scan_disk_v1, U!clean_disk_v1, U!cache, U!NoSsh, U!BeginScan, U!BeginClean
    <2>2. \/ \E a \in {"no_ssh", "already_running", "no_scan"} : U!Answer(q, a)
          \/ \E r : r.pc \in {"scan_gather", "plan"} /\ req' = [req EXCEPT ![q] = r]
      <3>1. CASE U!NoSsh(q)
        BY <3>1 DEF U!NoSsh
      <3>2. CASE U!BeginScan(q)
        <4> DEFINE r == [pc |-> "scan_gather", config |-> config]
        <4>1. r.pc = "scan_gather"
          OBVIOUS
        <4>2. U!Answer(q, "already_running") \/ req' = [req EXCEPT ![q] = r]
          BY <3>2 DEF U!BeginScan
        <4> HIDE DEF r
        <4> QED
          BY <4>1, <4>2
      <3>3. ASSUME NEW paths, NEW allow, U!BeginClean(q, paths, allow)
            PROVE  \/ \E a \in {"no_ssh", "already_running", "no_scan"} : U!Answer(q, a)
                   \/ \E r : r.pc \in {"scan_gather", "plan"} /\ req' = [req EXCEPT ![q] = r]
        <4> DEFINE r == [pc |-> "plan", config |-> config, scan |-> results,
                         paths |-> paths, allow |-> allow]
        <4>1. r.pc = "plan"
          OBVIOUS
        <4>2. \/ U!Answer(q, "already_running") \/ U!Answer(q, "no_scan")
              \/ req' = [req EXCEPT ![q] = r]
          BY <3>3 DEF U!BeginClean
        <4> HIDE DEF r
        <4> QED
          BY <4>1, <4>2
      <3> QED
        BY <1>1, <3>1, <3>2, <3>3 DEF U!scan_disk_v1, U!clean_disk_v1
    <2>3. ASSUME NEW r, r.pc \in {"scan_gather", "plan"} PROVE RequestPlanned(r)
      BY <2>3 DEF RequestPlanned
    <2> QED
      BY <2>1, <2>2, <2>3, RequestPlans, AnswersPlanNothing
  <1>2. ASSUME NEW q \in Reqs, U!start_scan_for_backend(q) PROVE CleanInv'
    <2> DEFINE b == [pc |-> "scan", kind |-> "scan", config |-> req[q].config,
                     runs |-> U!gather_all_runs]
    <2>1. TaskPlanned(b) /\ Works(b) /\ b.pc = "scan" /\ b.kind # "clean"
      BY DEF TaskPlanned, Works
    <2>2. U!StartTask(q, b) /\ UNCHANGED <<results, report>>
      BY <1>2 DEF U!start_scan_for_backend, U!cache
    <2> HIDE DEF b
    <2> QED
      BY <2>1, <2>2, NewestStarts DEF Reported
  <1>3. ASSUME NEW q \in Reqs, U!plan_cleanup_for_backend(q) PROVE CleanInv'
    <2>1. UNCHANGED <<bg, last, results, report>>
      BY <1>3 DEF U!plan_cleanup_for_backend, U!cache
    <2>2. req[q].config \in Configs /\ ScanOk(req[q].scan)
      BY <1>3 DEF U!plan_cleanup_for_backend, DiskInv, RequestOk
    <2> DEFINE c    == req[q].config
               spec == U!Spec4(c)
               refs == U!build_run_references(U!gather_all_runs, spec, req[q].scan.home)
               plan == U!plan_cleanup(req[q].scan, refs, U!DeclaredBy(c), spec,
                                      req[q].paths, req[q].allow)
               r == [pc |-> "launch", config |-> c, plan |-> plan]
    <2>3. Planned(plan, c)
      BY <2>2, PlanIsSafe
    <2>4. \/ U!Answer(q, "invalid") \/ U!Answer(q, "nothing_to_clean")
          \/ req' = [req EXCEPT ![q] = r]
      BY <1>3, Zenon DEF U!plan_cleanup_for_backend
    <2> HIDE DEF plan
    <2>5. RequestPlanned(r)
      BY <2>3 DEF RequestPlanned
    <2> HIDE DEF r
    <2> QED
      BY <2>1, <2>4, <2>5, AnswersPlanNothing, RequestPlans
  <1>4. ASSUME NEW q \in Reqs, U!start_clean_for_backend(q) PROVE CleanInv'
    <2> DEFINE plan == req[q].plan
               pc == IF plan.check # {} THEN "check" ELSE "delete"
               b == [pc |-> pc, kind |-> "clean", config |-> req[q].config, plan |-> plan,
                     targets |-> U!Paths(plan.delete)]
    <2>1. Planned(plan, req[q].config)
      BY <1>4 DEF U!start_clean_for_backend, CleanInv, RequestPlanned
    <2>2. U!StartTask(q, b) /\ UNCHANGED <<results, report>>
      BY <1>4 DEF U!start_clean_for_backend, U!cache, U!Paths
    <2>3. U!Paths(plan.delete) \subseteq U!Paths(U!to_delete(plan))
      BY DEF U!Paths, U!to_delete
    <2> HIDE DEF plan
    <2>4. b.pc \in {"check", "delete"} /\ TaskPlanned(b)
      BY <2>1, <2>3 DEF TaskPlanned
    <2> HIDE DEF b
    <2> QED
      BY <2>2, <2>4, NewestStarts DEF Works, Reported
  <1>5. ASSUME NEW q \in Reqs, U!scan_backend(q) PROVE CleanInv'
    <2>1. bg[q].pc = "scan" /\ UNCHANGED <<req, last, report>>
      BY <1>5 DEF U!scan_backend
    <2> DEFINE Res(ls, err) ==
                 [by |-> q, home |-> Home, errors |-> err,
                  entries |-> U!classify_entries(U!raw_to_entries(ls),
                                  U!build_run_references(bg[q].runs, U!Spec4(bg[q].config), Home),
                                  U!DeclaredBy(bg[q].config))]
               lines == U!ScanLines(files, ready, U!Spec4(bg[q].config), Home)
               broken == [by |-> q, home |-> U!NoHome, errors |-> TRUE, entries |-> {}]
    <2>2. broken.by = q /\ \A ls, err : Res(ls, err).by = q
      OBVIOUS
    <2>3. \/ U!Finish(q, Res(lines, FALSE))
          \/ \E l \in lines : U!Finish(q, Res(lines \ {l}, TRUE))
          \/ U!Finish(q, broken)
      BY <1>5, Zenon DEF U!scan_backend
    <2> HIDE DEF Res, broken, lines
    <2>4. PICK result : result.by = q /\ U!Finish(q, result)
      BY <2>2, <2>3
    <2> DEFINE b == [pc |-> "done", kind |-> bg[q].kind]
    <2>5. results'.by = q /\ bg' = [bg EXCEPT ![q] = b]
      BY <2>4 DEF U!Finish
    <2>6. TaskPlanned(b) /\ b.pc = "done" /\ b.kind = bg[q].kind
      BY DEF TaskPlanned
    <2> HIDE DEF b
    <2>7. bg[q].kind = "clean" => report'.by = q
      BY <2>1 DEF CleanInv, TaskReported, Reported, Works
    <2> QED
      BY <2>1, <2>5, <2>6, <2>7, NewestMoves DEF Works, Reported
  <1>6. ASSUME NEW q \in Reqs, U!agent_check(q) PROVE CleanInv'
    <2>1. /\ bg[q].pc = "check" /\ UNCHANGED <<req, last>>
          /\ {"pc", "targets", "plan", "config"} \subseteq DOMAIN bg[q]
          /\ TaskPlanned(bg[q])
      BY <1>6 DEF U!agent_check, CleanInv, TaskPlanned
    <2>2. PICK ok \in BOOLEAN :
            LET agents  == U!Paths(bg[q].plan.check)
                clean   == IF ok THEN {p \in agents \cap files : U!SaysClean(p)} ELSE {}
                targets == bg[q].targets \cup clean
            IN  IF targets = {}
                THEN /\ report' = U!Report(q, {}, {})
                     /\ bg' = [bg EXCEPT ![q] = [pc |-> "regather", kind |-> "clean",
                                                 config |-> bg[q].config]]
                ELSE /\ bg' = [bg EXCEPT ![q].pc = "delete", ![q].targets = targets]
                     /\ UNCHANGED report
      BY <1>6 DEF U!agent_check
    <2> DEFINE clean == IF ok THEN {p \in U!Paths(bg[q].plan.check) \cap files : U!SaysClean(p)}
                        ELSE {}
               targets == bg[q].targets \cup clean
    <2>3. CASE /\ report' = U!Report(q, {}, {})
               /\ bg' = [bg EXCEPT ![q] = [pc |-> "regather", kind |-> "clean",
                                           config |-> bg[q].config]]
      <3> DEFINE b == [pc |-> "regather", kind |-> "clean", config |-> bg[q].config]
      <3>1. TaskPlanned(b) /\ Works(b)
        BY DEF TaskPlanned, Works
      <3>2. report'.by = q
        BY <2>3 DEF U!Report
      <3> QED
        BY <2>1, <2>3, <3>1, <3>2, NewestMoves DEF Works, Reported
    <2>4. CASE bg' = [bg EXCEPT ![q].pc = "delete", ![q].targets = targets]
      <3> DEFINE b == [[bg[q] EXCEPT !.pc = "delete"] EXCEPT !.targets = targets]
      <3>1. bg' = [bg EXCEPT ![q] = b]
        BY <2>4
      <3>2. /\ U!Paths(bg[q].plan.delete) \subseteq targets
            /\ targets \subseteq U!Paths(U!to_delete(bg[q].plan))
        <4>1. clean \subseteq U!Paths(U!to_delete(bg[q].plan))
          BY DEF U!Paths, U!to_delete
        <4> QED
          BY <2>1, <4>1 DEF TaskPlanned
      <3> HIDE DEF targets
      <3>3. /\ b.pc = "delete" /\ b.targets = targets /\ b.plan = bg[q].plan
            /\ b.config = bg[q].config /\ {"pc", "targets", "plan", "config"} \subseteq DOMAIN b
        BY <2>1
      <3> HIDE DEF b
      <3>4. TaskPlanned(b)
        BY <2>1, <3>2, <3>3 DEF TaskPlanned
      <3> QED
        BY <2>1, <3>1, <3>3, <3>4, NewestMoves DEF Works, Reported
    <2> QED
      BY <2>2, <2>3, <2>4, Zenon
  <1>7. ASSUME NEW q \in Reqs, U!execute_cleanup(q) PROVE CleanInv'
    <2>1. bg[q].pc = "delete" /\ UNCHANGED <<req, last>> /\ report'.by = q
      BY <1>7 DEF U!execute_cleanup, U!Report
    <2> DEFINE b == [pc |-> "regather", kind |-> "clean", config |-> bg[q].config]
    <2>2. TaskPlanned(b) /\ Works(b)
      BY DEF TaskPlanned, Works
    <2>3. bg' = [bg EXCEPT ![q] = b]
      BY <1>7 DEF U!execute_cleanup
    <2> QED
      BY <2>1, <2>2, <2>3, NewestMoves DEF Works, Reported
  <1>8. ASSUME NEW q \in Reqs, U!clean_backend(q) PROVE CleanInv'
    <2>1. bg[q].pc = "regather" /\ UNCHANGED <<req, last, report>>
      BY <1>8 DEF U!clean_backend, U!cache
    <2> DEFINE b == [pc |-> "scan", kind |-> "clean", config |-> bg[q].config,
                     runs |-> U!gather_all_runs]
    <2>2. TaskPlanned(b) /\ Works(b)
      BY DEF TaskPlanned, Works
    <2>3. bg' = [bg EXCEPT ![q] = b]
      BY <1>8 DEF U!clean_backend
    <2>4. report.by = q
      BY <2>1 DEF CleanInv, TaskReported, Reported, Works
    <2> QED
      BY <2>1, <2>2, <2>3, <2>4, NewestMoves DEF Works, Reported
  <1>9. CASE UNCHANGED <<req, bg, last, results, report>>
    BY <1>9 DEF CleanInv, TaskReported
  <1> QED
    BY <1>1, <1>2, <1>3, <1>4, <1>5, <1>6, <1>7, <1>8, <1>9
       DEF U!Next, U!Handler, U!TaskStep, U!done, U!World, U!RunBegins, U!RunEnds, U!RunSaved,
           U!Edit, U!Install, U!Reload, U!service, U!cache

(* In the composition.                                                      *)
LEMMA CleanAlways == Spec => [](part = "disk" => CleanInv /\ DiskInv)
  <1> DEFINE Inv == part = "disk" => CleanInv
             Disk == part = "disk" => DiskInv /\ files \subseteq Dirs
  <1>1. Init => Inv
    BY CleanBegin DEF Init, U!Init
  <1>2. Inv /\ Disk /\ [Next]_vars => Inv'
    <2> SUFFICES ASSUME Inv, Disk, [Next]_vars PROVE Inv'
      OBVIOUS
    <2>1. CASE part = "disk" /\ U!Next /\ UNCHANGED part
      BY <2>1, CleanStep
    <2>2. CASE UNCHANGED <<part, DiskVars>>
      BY <2>2 DEF DiskVars, CleanInv, TaskReported
    <2> QED
      BY <2>1, <2>2 DEF Next, vars
  <1>3. Inv /\ Disk => (part = "disk" => CleanInv /\ DiskInv)
    OBVIOUS
  <1> QED
    BY <1>1, <1>2, <1>3, DiskAlways, PTL DEF Spec

(* A page that sees no task running shows the result of the newest task,    *)
(* and after a cleanup its report: no later request, done callback or       *)
(* rescan leaves an older one there (_run_and_store and clean_backend of *)
(* disk/service.py, which cache before the task ends).                      *)
THEOREM IdlePageIsNewest == Spec => [](part = "disk" => U!IdleShowsNewest)
  <1>1. CleanInv /\ DiskInv => U!IdleShowsNewest
    <2> SUFFICES ASSUME CleanInv, DiskInv, ~U!Busy, last # U!NoTask
                 PROVE  results.by = last /\ (bg[last].kind = "clean" => report.by = last)
      BY DEF U!IdleShowsNewest
    <2>1. last \in Reqs /\ ~Works(bg[last])
      BY DEF CleanInv, DiskInv, U!Busy, Works
    <2>2. bg[last].pc = "done" /\ results.by = last
      BY <2>1 DEF CleanInv
    <2> QED
      BY <2>1, <2>2 DEF CleanInv, TaskReported, Reported
  <1> QED
    BY <1>1, CleanAlways, PTL

(* Whatever is given to rm -rf is an entry that the plan selected for       *)
(* deletion and that passed the checks for its kind under the configuration *)
(* the request has read, although the configuration, the runs and the       *)
(* directories change between the request, the plan, the agent check and    *)
(* the deletion (_safety_reason and execute_cleanup of disk/cleanup.py).    *)
THEOREM OnlySafePathsRemoved ==
    Spec => [](part = "disk" =>
        \A q \in Reqs : bg[q].pc = "delete" =>
            \A p \in bg[q].targets :
                /\ p \in U!Paths(U!to_delete(bg[q].plan))
                /\ \E kind \in U!Kinds :
                      U!Safe([path |-> p, kind |-> kind], U!Spec4(bg[q].config), Home))
  <1> DEFINE Removed(q) ==
               \A p \in bg[q].targets :
                  /\ p \in U!Paths(U!to_delete(bg[q].plan))
                  /\ \E kind \in U!Kinds :
                        U!Safe([path |-> p, kind |-> kind], U!Spec4(bg[q].config), Home)
  <1>1. ASSUME CleanInv, NEW q \in Reqs, bg[q].pc = "delete" PROVE Removed(q)
    <2>1. /\ Planned(bg[q].plan, bg[q].config)
          /\ bg[q].targets \subseteq U!Paths(U!to_delete(bg[q].plan))
      BY <1>1 DEF CleanInv, TaskPlanned
    <2> QED
      BY <2>1 DEF Planned, U!Paths
  <1>2. CleanInv /\ DiskInv => \A q \in Reqs : bg[q].pc = "delete" => Removed(q)
    BY <1>1
  <1> QED
    BY <1>2, CleanAlways, PTL

(* The roots of a part of a list are roots of the list.                     *)
LEMMA RootsOfParts ==
    ASSUME NEW x \in Seq(Path), NEW y \in Seq(Path)
    PROVE  /\ x \o y \in Seq(Path)
           /\ U!ToSet(U!Roots(x, Home)) \subseteq U!ToSet(U!Roots(x \o y, Home))
           /\ U!ToSet(U!Roots(y, Home)) \subseteq U!ToSet(U!Roots(x \o y, Home))
  <1>1. /\ x \o y \in Seq(Path) /\ Len(x \o y) = Len(x) + Len(y)
        /\ \A i \in 1 .. Len(x) : (x \o y)[i] = x[i]
        /\ \A i \in 1 .. Len(y) : (x \o y)[Len(x) + i] = y[i]
        /\ Len(x) \in Nat /\ Len(y) \in Nat
    OBVIOUS
  <1>2. /\ DOMAIN x = 1 .. Len(x) /\ DOMAIN y = 1 .. Len(y)
        /\ DOMAIN (x \o y) = 1 .. Len(x) + Len(y)
    BY <1>1
  <1>3. \A i \in 1 .. Len(x) : i \in 1 .. Len(x) + Len(y)
    BY <1>1
  <1>4. \A i \in 1 .. Len(y) : Len(x) + i \in 1 .. Len(x) + Len(y)
    BY <1>1
  <1>5. ASSUME NEW i \in 1 .. Len(x)
        PROVE  U!Roots(x, Home)[i] \in U!ToSet(U!Roots(x \o y, Home))
    <2>1. U!Roots(x, Home)[i] = U!Roots(x \o y, Home)[i] /\ i \in DOMAIN U!Roots(x \o y, Home)
      BY <1>1, <1>2, <1>3 DEF U!Roots
    <2> QED
      BY <2>1 DEF U!ToSet
  <1>6. ASSUME NEW i \in 1 .. Len(y)
        PROVE  U!Roots(y, Home)[i] \in U!ToSet(U!Roots(x \o y, Home))
    <2>1. /\ U!Roots(y, Home)[i] = U!Roots(x \o y, Home)[Len(x) + i]
          /\ Len(x) + i \in DOMAIN U!Roots(x \o y, Home)
      BY <1>1, <1>2, <1>4 DEF U!Roots
    <2> QED
      BY <2>1 DEF U!ToSet
  <1>7. DOMAIN U!Roots(x, Home) = 1 .. Len(x) /\ DOMAIN U!Roots(y, Home) = 1 .. Len(y)
    BY <1>2 DEF U!Roots
  <1> QED
    BY <1>1, <1>5, <1>6, <1>7 DEF U!ToSet

(* A path that passes the checks lies below a root that is cleaned, hence   *)
(* above no root.                                                           *)
LEMMA SafeContainsNoRoot ==
    ASSUME RootsSeparate, NEW c \in Configs, NEW p \in Path, NEW kind \in U!Kinds,
           U!Safe([path |-> p, kind |-> kind], U!Spec4(c), Home)
    PROVE  LET spec == U!Spec4(c)
               roots == U!ToSet(U!Roots(spec.clone \o spec.stack \o spec.log \o spec.cache, Home))
           IN  (\E r \in roots : U!IsStrictPrefix(r, p)) /\ ~\E r \in roots : U!IsPrefix(p, r)
  <1> DEFINE spec == U!Spec4(c)
             cleaned == spec.clone \o spec.stack \o spec.log
             RootsIn(dirs) == U!ToSet(U!Roots(dirs, Home))
             e == [path |-> p, kind |-> kind]
  <1>1. /\ spec.clone \in Seq(Path) /\ spec.stack \in Seq(Path) /\ spec.log \in Seq(Path)
        /\ spec.cache \in Seq(Path) /\ RootsIn(cleaned \o spec.cache) \subseteq Path
        /\ \A a \in RootsIn(cleaned), b \in RootsIn(cleaned \o spec.cache) :
              ~U!IsStrictPrefix(a, b)
    BY DEF RootsSeparate, Path
  <1>e. e.path = p /\ U!Safe(e, spec, Home)
    OBVIOUS
  <1> HIDE DEF spec, e
  <1>2. PICK dirs \in {spec.clone, spec.stack, spec.log} :
          U!FirstOver(p, U!Roots(dirs, Home)) # {}
    <2>1. CASE e.kind \in {"clone", "agent"}
      <3>1. \E r \in U!FirstOver(e.path, U!Roots(spec.clone, Home)) : TRUE
        BY <1>e, <2>1 DEF U!Safe
      <3> QED
        BY <1>e, <3>1
    <2>2. CASE e.kind = "stack"
      <3>1. \E r \in U!FirstOver(e.path, U!Roots(spec.stack, Home)) : TRUE
        BY <1>e, <2>2 DEF U!Safe
      <3> QED
        BY <1>e, <3>1
    <2>3. CASE e.kind \notin {"clone", "agent", "stack"}
      <3>1. \E r \in U!FirstOver(e.path, U!Roots(spec.log, Home)) : TRUE
        BY <1>e, <2>3 DEF U!Safe
      <3> QED
        BY <1>e, <3>1
    <2> QED
      BY <2>1, <2>2, <2>3
  <1>3. PICK a \in RootsIn(dirs) : U!IsStrictPrefix(a, p)
    BY <1>2, FirstIsRoot
  <1>4. /\ spec.clone \o spec.stack \in Seq(Path) /\ cleaned \in Seq(Path)
        /\ RootsIn(dirs) \subseteq RootsIn(cleaned)
    <2>1. /\ spec.clone \o spec.stack \in Seq(Path)
          /\ RootsIn(spec.clone) \subseteq RootsIn(spec.clone \o spec.stack)
          /\ RootsIn(spec.stack) \subseteq RootsIn(spec.clone \o spec.stack)
      BY <1>1, RootsOfParts
    <2>2. /\ cleaned \in Seq(Path)
          /\ RootsIn(spec.clone \o spec.stack) \subseteq RootsIn(cleaned)
          /\ RootsIn(spec.log) \subseteq RootsIn(cleaned)
      BY <1>1, <2>1, RootsOfParts
    <2> QED
      BY <1>2, <2>1, <2>2
  <1>5. RootsIn(cleaned) \subseteq RootsIn(cleaned \o spec.cache)
    BY <1>1, <1>4, RootsOfParts
  <1>6. ASSUME NEW b \in RootsIn(cleaned \o spec.cache), U!IsPrefix(p, b) PROVE FALSE
    <2>1. a \in Path /\ b \in Path /\ U!IsPrefix(a, p) /\ a # p
      BY <1>1, <1>3, <1>4, <1>5 DEF U!IsStrictPrefix
    <2>2. U!IsPrefix(a, b)
      BY <1>6, <2>1, Transitive
    <2>3. a # b
      <3> SUFFICES ASSUME a = b PROVE FALSE
        OBVIOUS
      <3>1. Len(a) = Len(p) /\ \A i \in 1 .. Len(a) : a[i] = p[i]
        BY <1>6, <2>1, PrefixMeans DEF Path
      <3> QED
        BY <2>1, <3>1 DEF Path
    <2> QED
      BY <1>1, <1>3, <1>4, <2>2, <2>3 DEF U!IsStrictPrefix
  <1>7. \E r \in RootsIn(cleaned \o spec.cache) : U!IsStrictPrefix(r, p)
    BY <1>3, <1>4, <1>5
  <1> QED
    BY <1>6, <1>7 DEF spec

(* What rm -rf is given lies below a root of the configuration the request  *)
(* has read and contains none, if no root lies inside one whose entries are *)
(* deleted: _safety_reason looks at the place of a path, not at what lies   *)
(* below it (disk/cleanup.py).                                              *)
THEOREM RootsSurvive ==
    ASSUME RootsSeparate
    PROVE  Spec => [](part = "disk" => U!OnlyBelowRoots)
  <1>1. CleanInv => U!OnlyBelowRoots
    <2> SUFFICES ASSUME CleanInv, NEW q \in Reqs, bg[q].pc = "delete", NEW p \in bg[q].targets
                 PROVE  LET spec  == U!Spec4(bg[q].config)
                            roots == U!ToSet(U!Roots(spec.clone \o spec.stack \o spec.log \o spec.cache, Home))
                        IN  /\ p \in U!Paths(U!to_delete(bg[q].plan))
                            /\ \E r \in roots : U!IsStrictPrefix(r, p)
                            /\ ~\E r \in roots : U!IsPrefix(p, r)
      BY DEF U!OnlyBelowRoots
    <2>1. /\ Planned(bg[q].plan, bg[q].config)
          /\ bg[q].targets \subseteq U!Paths(U!to_delete(bg[q].plan))
      BY DEF CleanInv, TaskPlanned
    <2>2. /\ bg[q].config \in Configs /\ p \in Dirs /\ p \in U!Paths(U!to_delete(bg[q].plan))
          /\ \E kind \in U!Kinds :
                U!Safe([path |-> p, kind |-> kind], U!Spec4(bg[q].config), Home)
      BY <2>1 DEF Planned, U!Paths
    <2>3. p \in Path
      BY <2>2, RunsAssumption DEF Path
    <2> QED
      BY <2>2, <2>3, SafeContainsNoRoot
  <1>2. CleanInv /\ DiskInv => U!OnlyBelowRoots
    BY <1>1
  <1> QED
    BY <1>2, CleanAlways, PTL

(* The report of a cleanup accounts for every entry of its plan and says    *)
(* deleted only of what is gone, whichever of its commands fails, goes      *)
(* unanswered or removes only some of the paths (execute_cleanup of         *)
(* disk/cleanup.py).                                                        *)
THEOREM ReportsAreHonest == Spec => U!ReportIsHonest
  <1> DEFINE Inv == part = "disk" => CleanInv /\ DiskInv
             Honest == \A q \in Reqs :
                report # report' /\ report'.by = q =>
                    /\ report'.deleted \cap files' = {}
                    /\ report'.deleted \cup report'.failed \cup report'.skipped
                          = U!Paths(U!to_delete(bg[q].plan) \cup bg[q].plan.skip)
  <1>1. Inv /\ [Next]_vars => [Honest]_(U!vars)
    <2> SUFFICES ASSUME Inv, [Next]_vars, ~UNCHANGED U!vars,
                        NEW q \in Reqs, report # report', report'.by = q
                 PROVE  /\ report'.deleted \cap files' = {}
                        /\ report'.deleted \cup report'.failed \cup report'.skipped
                              = U!Paths(U!to_delete(bg[q].plan) \cup bg[q].plan.skip)
      OBVIOUS
    <2>1. CleanInv /\ U!Next
      BY DEF Next, vars, DiskVars
    <2> DEFINE p == bg[q].plan
    <2>2. ASSUME NEW gone, NEW rest, U!Paths(p.delete) \subseteq gone \cup rest,
                 gone \cup rest \subseteq U!Paths(U!to_delete(p)),
                 report' = U!Report(q, gone, rest)
          PROVE  /\ report'.deleted = gone
                 /\ report'.deleted \cup report'.failed \cup report'.skipped
                        = U!Paths(U!to_delete(p) \cup p.skip)
      <3>1. U!Paths(U!to_delete(p) \cup p.skip)
              = U!Paths(p.delete) \cup U!Paths(p.check) \cup U!Paths(p.skip)
        BY DEF U!Paths, U!to_delete
      <3>2. U!Paths(U!to_delete(p)) = U!Paths(p.delete) \cup U!Paths(p.check)
        BY DEF U!Paths, U!to_delete
      <3>3. /\ report'.deleted = gone /\ report'.failed = rest
            /\ report'.skipped = U!Paths(p.skip) \cup (U!Paths(p.check) \ (gone \cup rest))
        BY <2>2 DEF U!Report
      <3> QED
        BY <2>2, <3>1, <3>2, <3>3
    <2>3. ASSUME NEW x \in Reqs, U!agent_check(x)
          PROVE  x = q /\ report'.deleted \cap files' = {}
                 /\ report'.deleted \cup report'.failed \cup report'.skipped
                        = U!Paths(U!to_delete(p) \cup p.skip)
      <3>1. report' = U!Report(x, {}, {}) /\ \E s : bg[x].targets \cup s = {}
        BY <2>3, Zenon DEF U!agent_check
      <3>2. x = q /\ bg[x].targets = {}
        BY <3>1 DEF U!Report
      <3>3. U!Paths(p.delete) \subseteq {}
        BY <2>1, <2>3, <3>2 DEF CleanInv, TaskPlanned, U!agent_check
      <3>4. U!Paths(p.delete) \subseteq {} \cup {} /\ {} \cup {} \subseteq U!Paths(U!to_delete(p))
        BY <3>3
      <3> HIDE DEF p
      <3> QED
        BY <2>2, <3>1, <3>2, <3>4
    <2>4. ASSUME NEW x \in Reqs, U!execute_cleanup(x)
          PROVE  x = q /\ report'.deleted \cap files' = {}
                 /\ report'.deleted \cup report'.failed \cup report'.skipped
                        = U!Paths(U!to_delete(p) \cup p.skip)
      <3>1. PICK gone \in SUBSET bg[x].targets, ok \in SUBSET bg[x].targets :
              ok \subseteq gone /\ files' = files \ gone /\ report' = U!Report(x, ok, bg[x].targets \ ok)
        BY <2>4 DEF U!execute_cleanup
      <3>2. x = q
        BY <3>1 DEF U!Report
      <3> DEFINE rest == bg[q].targets \ ok
      <3>3. ok \cup rest = bg[q].targets
        BY <3>1, <3>2
      <3>4. /\ U!Paths(p.delete) \subseteq ok \cup rest
            /\ ok \cup rest \subseteq U!Paths(U!to_delete(p))
        BY <2>1, <2>4, <3>2, <3>3 DEF CleanInv, TaskPlanned, U!execute_cleanup
      <3>5. report' = U!Report(q, ok, rest)
        BY <3>1, <3>2
      <3> HIDE DEF p, rest
      <3>6. /\ report'.deleted = ok
            /\ report'.deleted \cup report'.failed \cup report'.skipped
                  = U!Paths(U!to_delete(p) \cup p.skip)
        BY <2>2, <3>4, <3>5
      <3> QED
        BY <3>1, <3>2, <3>6
    <2>5. PICK x \in Reqs : U!agent_check(x) \/ U!execute_cleanup(x)
      BY <2>1
         DEF U!Next, U!Handler, U!TaskStep, U!scan_disk_v1, U!clean_disk_v1,
             U!start_scan_for_backend, U!plan_cleanup_for_backend, U!start_clean_for_backend,
             U!scan_backend, U!clean_backend, U!done, U!cache, U!World, U!RunBegins,
             U!RunEnds, U!RunSaved, U!Edit, U!Install, U!Reload, U!service
    <2> QED
      BY <2>3, <2>4, <2>5
  <1> QED
    BY <1>1, CleanAlways, PTL DEF Spec, U!ReportIsHonest

-----------------------------------------------------------------------------
(* The bins of external jobs.                                               *)

BinsInv == DOMAIN cache = Weeks /\ DOMAIN store = Weeks /\ X!CacheIsSaved

(* What a save leaves on disk.                                              *)
LEMMA SavedBins ==
    ASSUME BinsInv, NEW c, NEW changed,
           \A w \in Weeks : w \in changed \/ c[w] = cache[w],
           cache' = c, DOMAIN c = Weeks, store' = X!Flushed(c, dirty \cup changed), dirty' = {}
    PROVE  BinsInv'
  BY DEF BinsInv, X!CacheIsSaved, X!Flushed

(* Every step keeps the copies equal: one step per action that writes one.  *)
LEMMA BinsStep == BinsInv /\ X!Next => BinsInv'
  <1> SUFFICES ASSUME BinsInv, X!Next PROVE BinsInv'
    OBVIOUS
  <1>1. CASE UNCHANGED X!Storages
    BY <1>1 DEF X!Storages, BinsInv, X!CacheIsSaved
  <1>2. CASE X!PollRecords
    <2> DEFINE js     == {j \in Jobs : poll.jobs[j] # "gone"}
               others == js \ owned
               status == [j \in others |-> X!RunStatusOf[view[j]]]
               added  == X!Added(others, status)
               cache2 == X!Reconciled(added, js)
    <2>1. /\ cache' = cache2 /\ store' = store
          /\ dirty' = dirty \cup {X!BinOf(j) : j \in others} \cup {w \in Weeks : cache2[w] # added[w]}
      BY <1>2 DEF X!PollRecords
    <2>2. \A w \in Weeks : w \notin {X!BinOf(j) : j \in others} => added[w] = cache[w]
      BY DEF X!Added
    <2>3. DOMAIN cache2 = Weeks
      BY DEF X!Reconciled
    <2> HIDE DEF added, cache2, others
    <2> QED
      BY <2>1, <2>2, <2>3 DEF BinsInv, X!CacheIsSaved
  <1>3. CASE X!PollSaves
    <2>1. cache' = cache /\ store' = X!Flushed(cache, dirty \cup {}) /\ dirty' = {}
      BY <1>3 DEF X!PollSaves
    <2> QED
      BY <2>1, SavedBins DEF BinsInv
  <1>4. ASSUME NEW j \in Jobs, X!cancel_external_job(j) PROVE BinsInv'
    <2> DEFINE c == X!Added({j}, [x \in {j} |-> "failed"])
    <2>1. cache' = c /\ store' = X!Flushed(c, dirty \cup {X!BinOf(j)}) /\ dirty' = {}
      BY <1>4 DEF X!cancel_external_job
    <2>2. DOMAIN c = Weeks /\ \A w \in Weeks : w \in {X!BinOf(j)} \/ c[w] = cache[w]
      BY DEF X!Added
    <2> HIDE DEF c
    <2> QED
      BY <2>1, <2>2, SavedBins
  <1>5. CASE X!clear_stale_external_jobs
    <2>1. /\ dirty' = dirty /\ DOMAIN store' = Weeks /\ DOMAIN cache' = Weeks
          /\ \A w \in Weeks : cache'[w] = IF /\ store'[w] # store[w]
                                             /\ \E v \in Weeks : cache[v] # X!Uncached
                                          THEN store'[w] ELSE cache[w]
      BY <1>5 DEF X!clear_stale_external_jobs
    <2> QED
      BY <2>1 DEF BinsInv, X!CacheIsSaved
  <1>6. ASSUME NEW j \in Jobs, X!delete_external_job(j) PROVE BinsInv'
    <2>1. CASE \E w \in Weeks : /\ cache' = [cache EXCEPT ![w] = X!Without(cache[w], j)]
                                /\ dirty' = dirty \cup {w} /\ store' = store
      BY <2>1 DEF BinsInv, X!CacheIsSaved
    <2>2. CASE /\ \A w \in Weeks : cache[w] = X!Uncached \/ cache[w][j] = "none"
               /\ \E w \in Weeks : /\ store[w][j] # "none"
                                   /\ store' = [store EXCEPT ![w] = X!Without(store[w], j)]
               /\ UNCHANGED <<cache, dirty>>
      BY <2>2 DEF BinsInv, X!CacheIsSaved
    <2> QED
      BY <1>6, <2>1, <2>2 DEF X!delete_external_job
  <1>7. CASE X!Crash
    BY <1>7 DEF X!Crash, BinsInv, X!CacheIsSaved
  <1> QED
    BY <1>1, <1>2, <1>3, <1>4, <1>5, <1>6, <1>7
       DEF X!Next, X!World, X!Poll, X!Requests, X!NextWeek, X!toggle_filter, X!JobComes, X!JobRuns,
           X!JobGoes, X!SubmitAnswered, X!PollReads, X!PollPublishes, X!PollFails, X!CancelAsked,
           X!CancelRaises, X!Storages

(* A bin in the cache that no save is due for is the one on disk: what is   *)
(* cleared, deleted or cancelled between two steps of a poll is in both     *)
(* copies or marked, so that no later save brings it back                   *)
(* (clear_completed_external_jobs, remove_external_job, add_external_job,   *)
(* reconcile_external_jobs and save_if_dirty of runs/storage.py).           *)
THEOREM BinsAreSaved == Spec => [](part = "external" => X!CacheIsSaved)
  <1> DEFINE Inv == part = "external" => BinsInv
  <1>1. Init => Inv
    BY DEF Init, X!Init, BinsInv, X!CacheIsSaved
  <1>2. Inv /\ [Next]_vars => Inv'
    <2> SUFFICES ASSUME Inv, [Next]_vars PROVE Inv'
      OBVIOUS
    <2>1. CASE part = "external" /\ X!Next /\ UNCHANGED part
      BY <2>1, BinsStep
    <2>2. CASE UNCHANGED <<part, ExternalVars>>
      BY <2>2 DEF ExternalVars, BinsInv, X!CacheIsSaved
    <2> QED
      BY <2>1, <2>2 DEF Next, vars
  <1>3. Inv => (part = "external" => X!CacheIsSaved)
    BY DEF BinsInv
  <1> QED
    BY <1>1, <1>2, <1>3, PTL DEF Spec
=============================================================================
