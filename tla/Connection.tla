----------------------------- MODULE Connection -----------------------------
(***************************************************************************)
(* The persistent SSH connection of one backend (ssh/client.py): polls,    *)
(* submissions, downloads and terminals share it as concurrent coroutines, *)
(* and whoever finds it closed opens it again under a lock.  The polling   *)
(* task (main.poll_backend) does not try while it backs off from a server  *)
(* that refused its key.  Time is counted in minutes.                      *)
(***************************************************************************)
EXTENDS Naturals, FiniteSets

CONSTANTS Callers,     \* coroutines that call run_command
          Terminals,   \* coroutines that open an interactive session
          Conns,       \* positive integers: TCP connections open at a time
          MaxSessions, \* channels sshd grants on one connection
          MaxRefusals  \* refused channels that are followed

VARIABLES conn,        \* which connections are open
          current,     \* self._connection, or None
          lock,        \* who holds self._lock, or Free
          at, on,      \* the coroutines: where they are, over which connection
          host,        \* what the server does with a new connection
          wait, delay, \* the back-off of the polling task
          refused      \* how many channels have been refused so far

vars == <<conn, current, lock, at, on, host, wait, delay, refused>>

Poller == "poller"
Free == "free"
None == 0
MaxDelay == 10

Clients == Callers \cup Terminals \cup {Poller}

is_connected == current # None /\ conn[current]

(* After init_backend: connected, unreachable, or refused and backed off.  *)
Init == /\ current \in {None, 1}
        /\ conn = [k \in Conns |-> k = current]
        /\ lock = Free
        /\ at = [c \in Clients |-> "idle"]
        /\ on = [c \in Clients |-> None]
        /\ host \in {"up", "down", "refuses"}
        /\ (current = 1) = (host = "up")
        /\ delay = IF host = "refuses" THEN 1 ELSE 0
        /\ wait = delay
        /\ refused = 0

Runs(c, k) == /\ at' = [at EXCEPT ![c] = "runs"]
              /\ on' = [on EXCEPT ![c] = k]

Ends(c) == /\ at' = [at EXCEPT ![c] = "idle"]
           /\ on' = [on EXCEPT ![c] = None]

(* A call goes out over an open connection, or first asks for one; a poll  *)
(* that backs off is skipped.                                              *)
Call(c) ==
  /\ at[c] = "idle"
  /\ IF is_connected
     THEN Runs(c, current)
     ELSE /\ c = Poller => wait = 0
          /\ at' = [at EXCEPT ![c] = "lock"]
          /\ UNCHANGED on
  /\ UNCHANGED <<conn, current, lock, host, wait, delay, refused>>

(* (Without the second look, under the lock.)                              *)
already_unchecked == FALSE

(* Whoever waited for the lock may find the connection made.               *)
already == is_connected

(* poll_backend forgets its back-off when connect returns.                 *)
BackOffEnds(c) == IF c = Poller THEN wait' = 0 /\ delay' = 0 ELSE UNCHANGED <<wait, delay>>

connect(c) ==
  /\ at[c] = "lock"
  /\ lock = Free
  /\ IF already
     THEN /\ Runs(c, current) /\ BackOffEnds(c)
          /\ UNCHANGED lock
     ELSE /\ at' = [at EXCEPT ![c] = "dials"]
          /\ lock' = c
          /\ UNCHANGED <<on, wait, delay>>
  /\ UNCHANGED <<conn, current, host, refused>>

(* The async with block ends however the attempt does.                     *)
released_on_success(ok) == IF ok THEN Free ELSE lock

released(ok) == Free

Dialled(c) ==
  /\ at[c] = "dials"
  /\ host = "up"
  /\ \E k \in Conns : /\ ~conn[k]
                      /\ conn' = [conn EXCEPT ![k] = TRUE]
                      /\ current' = k
                      /\ Runs(c, k)
  /\ lock' = released(TRUE)
  /\ BackOffEnds(c)
  /\ UNCHANGED <<host, refused>>

Larger(a, b) == IF a > b THEN a ELSE b
Smaller(a, b) == IF a < b THEN a ELSE b

(* Only a refused key makes the polling task back off, and only the        *)
(* polling task.                                                           *)
DialFails(c) ==
  /\ at[c] = "dials"
  /\ host # "up"
  /\ Ends(c)
  /\ lock' = released(FALSE)
  /\ IF c = Poller /\ host = "refuses"
     THEN /\ delay' = Smaller(Larger(2 * delay, 1), MaxDelay)
          /\ wait' = delay'
     ELSE UNCHANGED <<wait, delay>>
  /\ UNCHANGED <<conn, current, host, refused>>

Sessions(k) == Cardinality({c \in Clients : on[c] = k})

(* The command or session is over, or the command took too long.           *)
Finish(c) ==
  /\ at[c] = "runs"
  /\ Ends(c)
  /\ UNCHANGED <<conn, current, lock, host, wait, delay, refused>>

(* sshd refuses the channel: an asyncssh.Error, which makes run_command    *)
(* forget the connection, but not create_interactive_session.              *)
ChannelRefused(c) ==
  /\ at[c] = "runs"
  /\ Sessions(on[c]) > MaxSessions
  /\ refused < MaxRefusals
  /\ refused' = refused + 1
  /\ Ends(c)
  /\ current' = IF c \in Terminals THEN current ELSE None
  /\ UNCHANGED <<conn, lock, host, wait, delay>>

(* The link breaks: every command on it ends with an asyncssh.Error in one *)
(* round of the event loop, and each forgets whatever is current.          *)
Lost(k) ==
  /\ conn[k]
  /\ conn' = [conn EXCEPT ![k] = FALSE]
  /\ current' = IF \E c \in Clients \ Terminals : on[c] = k THEN None ELSE current
  /\ at' = [c \in Clients |-> IF on[c] = k THEN "idle" ELSE at[c]]
  /\ on' = [c \in Clients |-> IF on[c] = k THEN None ELSE on[c]]
  /\ UNCHANGED <<lock, host, wait, delay, refused>>

HostChanges ==
  /\ host' \in {"up", "down", "refuses"} \ {host}
  /\ UNCHANGED <<conn, current, lock, at, on, wait, delay, refused>>

Minute ==
  /\ wait > 0
  /\ wait' = wait - 1
  /\ UNCHANGED <<conn, current, lock, at, on, host, delay, refused>>

Client(c) == Call(c) \/ connect(c) \/ Dialled(c) \/ DialFails(c) \/ Finish(c) \/ ChannelRefused(c)

Next == \/ \E c \in Clients : Client(c)
        \/ \E k \in Conns : Lost(k)
        \/ HostChanges
        \/ Minute

Spec == Init /\ [][Next]_vars

(* Attempts and polls end (15 and 30 s), the poll loop comes round,        *)
(* asyncio.Lock is first come, first served, and the clock runs.           *)
Fairness == /\ WF_vars(Minute)
            /\ WF_vars(Finish(Poller))
            /\ WF_vars(Call(Poller)) /\ SF_vars(connect(Poller))
            /\ \A c \in Clients : WF_vars(Dialled(c) \/ DialFails(c))

FairSpec == Spec /\ Fairness

-----------------------------------------------------------------------------
(* A connection that is forgotten while it is open is never closed.  With  *)
(* every interleaving of calls, connects and losses there is one open      *)
(* connection, and at most one more for every channel the server refused.  *)
OneMorePerRefusal == Cardinality({k \in Conns : conn[k]}) <= 1 + refused

(* A backend whose server stays up is connected again and again: neither   *)
(* the lock nor the back-off keeps the polling task from it for ever.      *)
Reconnects == <>[](host = "up") => []<>is_connected
=============================================================================
