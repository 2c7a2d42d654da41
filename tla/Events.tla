------------------------------- MODULE Events -------------------------------
(***************************************************************************)
(* What an open browser is told.  Pages wait on asyncio events that a poll *)
(* (AppState.notify_poll) or a change of a run (RunManager.notify_run)     *)
(* sets and replaces; the NotificationHub compares the runs with what it   *)
(* saw before, once per poll, and announces ends of runs and failures of   *)
(* tasks.                                                                  *)
(***************************************************************************)
EXTENDS Naturals

CONSTANTS Runs, Tasks,
          ListPages,   \* overview, job list and run list: wait for polls
          RunPages,    \* pages of one run: wait for its changes
          Interleaved, \* may a poll fall between a run's creation and its
                       \* announcement, which a submission's awaits separate?
          ApiReruns    \* are runs rerun through the API as well?

VARIABLES items,       \* what the tasks of each run have come to
          creating,    \* who waits for the run's first submissions
          _run_status, _notified_failures,   \* the hub's memory
          seen,        \* the hub has known this incarnation as active
          done, failed,\* announcements of this incarnation, counted up to 2
          page, fresh  \* the pages, and whether they show the present state

vars == <<items, creating, _run_status, _notified_failures, seen, done, failed, page, fresh>>

Pages == ListPages \cup RunPages

Absent == [t \in Tasks |-> "absent"]
Fresh == [t \in Tasks |-> "waiting"]

(* Run.status, as far as it matters here.                                  *)
Status(r) == CASE items[r] = Absent -> "absent"
               [] \E t \in Tasks : items[r][t] = "waiting" -> "active"
               [] \A t \in Tasks : items[r][t] = "completed" -> "completed"
               [] OTHER -> "failed"

_TERMINAL == {"completed", "failed"}

Init == /\ items = [r \in Runs |-> Absent]
        /\ creating = [r \in Runs |-> "nobody"]
        /\ _run_status = [r \in Runs |-> "absent"]
        /\ _notified_failures = {}
        /\ seen = [r \in Runs |-> FALSE]
        /\ done = [r \in Runs |-> 0]
        /\ failed = [r \in Runs |-> [t \in Tasks |-> 0]]
        /\ page = [p \in Pages |-> "loaded"]
        /\ fresh = [p \in Pages |-> TRUE]

Once(n) == IF n < 2 THEN n + 1 ELSE n

(* Every page is out of date now; those in wake get an event.              *)
Stale == fresh' = [p \in Pages |-> FALSE]

Wake(wake) == page' = [p \in Pages |-> IF p \in wake /\ page[p] = "waits" THEN "woken" ELSE page[p]]

-----------------------------------------------------------------------------
(* Runs.                                                                   *)

(* A run is created, or rerun under its id, and its first tasks are being  *)
(* submitted; the route that asked for it announces it when it returns.    *)
Create(r, route) ==
  /\ creating[r] = "nobody"
  /\ Status(r) = "absent" \/ (Status(r) \in _TERMINAL /\ (route = "web" \/ ApiReruns))
  /\ items' = [items EXCEPT ![r] = Fresh]
  /\ creating' = [creating EXCEPT ![r] = route]
  /\ seen' = [seen EXCEPT ![r] = FALSE]
  /\ done' = [done EXCEPT ![r] = 0]
  /\ failed' = [failed EXCEPT ![r] = [t \in Tasks |-> 0]]
  /\ Stale
  /\ Wake(RunPages)
  /\ UNCHANGED <<_run_status, _notified_failures>>

(* Only the routes of the web pages tell the hub.                          *)
run_scheduled(r) ==
  /\ creating[r] # "nobody"
  /\ creating' = [creating EXCEPT ![r] = "nobody"]
  /\ IF creating[r] = "web"
     THEN /\ _run_status' = [_run_status EXCEPT ![r] = Status(r)]
          /\ _notified_failures' = {k \in _notified_failures : k[1] # r}
          /\ seen' = [seen EXCEPT ![r] = @ \/ Status(r) = "active"]
     ELSE UNCHANGED <<_run_status, _notified_failures, seen>>
  /\ Wake(ListPages)
  /\ UNCHANGED <<items, done, failed, fresh>>

(* A submission or an update of the run's status settles a task.           *)
Settle(r, t) ==
  /\ items[r][t] = "waiting"
  /\ \E s \in {"completed", "failed"} : items' = [items EXCEPT ![r][t] = s]
  /\ Stale
  /\ Wake(RunPages)
  /\ UNCHANGED <<creating, _run_status, _notified_failures, seen, done, failed>>

-----------------------------------------------------------------------------
(* The end of a poll: scan, update_stats and notify_poll without an await. *)

NewFailures == {k \in Runs \X Tasks : items[k[1]][k[2]] = "failed"} \ _notified_failures

Ended == {r \in Runs : Status(r) \in _TERMINAL /\ _run_status[r] = "active"}

(* (Ends taken from the present status alone.)                             *)
announced_again == {r \in Runs : Status(r) \in _TERMINAL}

announced == Ended

(* (A poll that wakes the pages only when the hub saw a change.)           *)
notified_on_change == IF NewFailures = {} /\ Ended = {} THEN {} ELSE ListPages

notified == ListPages

Poll ==
  /\ Interleaved \/ \A r \in Runs : creating[r] = "nobody"
  /\ failed' = [r \in Runs |-> [t \in Tasks |->
                  IF <<r, t>> \in NewFailures THEN Once(failed[r][t]) ELSE failed[r][t]]]
  /\ _notified_failures' = _notified_failures \cup NewFailures
  /\ done' = [r \in Runs |-> IF r \in announced THEN Once(done[r]) ELSE done[r]]
  /\ _run_status' = [r \in Runs |-> Status(r)]
  /\ seen' = [r \in Runs |-> seen[r] \/ Status(r) = "active"]
  /\ Wake(notified)
  /\ UNCHANGED <<items, creating, fresh>>

-----------------------------------------------------------------------------
(* Pages.                                                                  *)

Load(p) ==
  /\ page' = [page EXCEPT ![p] = "loaded"]
  /\ fresh' = [fresh EXCEPT ![p] = TRUE]

(* The stream takes the event that is current when it begins to wait.      *)
Listen(p) ==
  /\ page[p] \in {"loaded", "sends"}
  /\ page' = [page EXCEPT ![p] = "waits"]
  /\ UNCHANGED fresh

(* The fragments are rendered from the state at that moment.               *)
Render(p) ==
  /\ page[p] = "woken"
  /\ page' = [page EXCEPT ![p] = "sends"]
  /\ fresh' = [fresh EXCEPT ![p] = TRUE]

Show(p) == /\ Load(p) \/ Listen(p) \/ Render(p)
           /\ UNCHANGED <<items, creating, _run_status, _notified_failures, seen, done, failed>>

Next == \/ \E r \in Runs, route \in {"web", "api"} : Create(r, route)
        \/ \E r \in Runs : run_scheduled(r)
        \/ \E r \in Runs, t \in Tasks : Settle(r, t)
        \/ Poll
        \/ \E p \in Pages : Show(p)

Spec == Init /\ [][Next]_vars

(* The poll loop comes round, submissions end, streams are served.         *)
Serve(p) == /\ Listen(p) \/ Render(p)
            /\ UNCHANGED <<items, creating, _run_status, _notified_failures, seen, done, failed>>

Fairness == /\ SF_vars(Poll)
            /\ \A r \in Runs : WF_vars(run_scheduled(r))
            /\ \A p \in Pages : WF_vars(Serve(p))

FairSpec == Spec /\ Fairness

-----------------------------------------------------------------------------
(* A user who was told, or could see, that a run had begun is told once    *)
(* that it ended, and a task's failure is announced at most once, and once *)
(* by the time the end is: over reruns under the same id, runs that fail   *)
(* in their first submissions, and runs nobody announced.                  *)
AnnouncedOnce ==
  \A r \in Runs : /\ seen[r] /\ _run_status[r] \in _TERMINAL /\ Status(r) = _run_status[r]
                       => done[r] = 1
                  /\ done[r] <= 1
                  /\ \A t \in Tasks : /\ failed[r][t] <= 1
                                      /\ done[r] = 1 /\ items[r][t] = "failed" => failed[r][t] = 1

(* A page of a list shows the present state again and again, however its   *)
(* stream's waits fall between the polls.                                  *)
ListCatchesUp == \A p \in ListPages : []<>fresh[p]

(* "SSE stream for real-time run updates": a run's page does, too.         *)
RunPageCatchesUp == \A p \in RunPages : []<>fresh[p]
=============================================================================
