------------------------------- MODULE Daemon -------------------------------
(***************************************************************************)
(* The local daemon (daemon.py and the commands of cli.py that use it):    *)
(* several command lines start and stop one background server, and all     *)
(* they share is a port, the process table and a pidfile.  A pid is a      *)
(* slot of the process table, so a freed one may come back as somebody     *)
(* else's process.                                                         *)
(***************************************************************************)
EXTENDS Integers, FiniteSets

CONSTANTS Pids,        \* positive integers: the slots of the process table
          Starters,    \* commands that run start_daemon
          Stoppers,    \* commands that run stop_daemon
          Overlap,     \* may a stop or a crash fall into another command?
          MaxAccidents \* crashes, recycled pids and foreign servers, in all

VARIABLES proc,        \* what runs under each pid
          port,        \* the pid that holds the port, or one of:
          pidfile,     \* the pid daemon.json holds, or Nobody
          cmd,         \* the commands' local state
          told,        \* live servers some start has reported as its result
          accidents

vars == <<proc, port, pidfile, cmd, told, accidents>>

Nobody == 0
Foreign == 0 - 1       \* a program that is not scripthut answers on the port

Reaped == 0 - 2        \* for a child that has been seen to end

Commands == Starters \cup Stoppers

Over == {"idle", "done", "failed"}

Quiet == \A c \in Commands : cmd[c].at \in Over

Init == /\ proc = [p \in Pids |-> "free"]
        /\ port = Nobody
        /\ pidfile = Nobody
        /\ cmd = [c \in Commands |-> [at |-> "idle", child |-> Nobody, seen |-> Nobody]]
        /\ told = {}
        /\ accidents = 0

(* ps finds "scripthut" on the command line of a server in any state, and  *)
(* on that of an editor or a tail that merely names it ("hut").            *)
_looks_like_scripthut(p) == proc[p] \in {"boot", "bound", "ready", "stopping", "hut"}

pid_alive(p) == proc[p] # "free"

(* The process leaves the table; as a child nobody has waited for yet, it  *)
(* stays behind as a zombie, which os.kill(pid, 0) still finds.            *)
Gone(p) == IF \E c \in Starters : cmd[c].child = p /\ cmd[c].at \notin Over
           THEN "zombie" ELSE "free"

Dies(p) == /\ proc' = [proc EXCEPT ![p] = Gone(p)]
           /\ port' = IF port = p THEN Nobody ELSE port
           /\ told' = told \ {p}

At(c, s) == cmd[c].at = s

Go(c, s) == cmd' = [cmd EXCEPT ![c].at = s]

(* A command that ends gives up its child: init reaps a dead one.          *)
Ends(c, s) == /\ Go(c, s)
              /\ proc' = [p \in Pids |-> IF p = cmd[c].child /\ proc[p] = "zombie"
                                         THEN "free" ELSE proc[p]]

-----------------------------------------------------------------------------
(* The server process.                                                     *)

Bind(p) ==
  /\ proc[p] = "boot"
  /\ IF port = Nobody
     THEN /\ port' = p
          /\ proc' = [proc EXCEPT ![p] = "bound"]
          /\ UNCHANGED told
     ELSE Dies(p)                        \* address in use: uvicorn exits
  /\ UNCHANGED <<pidfile, cmd, accidents>>

FinishStartup(p) ==
  /\ proc[p] = "bound"
  /\ proc' = [proc EXCEPT ![p] = "ready"]
  /\ UNCHANGED <<port, pidfile, cmd, told, accidents>>

(* The lifespan's shutdown, after the socket has been closed.              *)
Exit(p) ==
  /\ proc[p] = "stopping"
  /\ Dies(p)
  /\ UNCHANGED <<pidfile, cmd, accidents>>

Accident ==
  /\ accidents < MaxAccidents
  /\ Overlap \/ Quiet
  /\ accidents' = accidents + 1
  /\ \/ \E p \in Pids : /\ proc[p] \in {"bound", "ready", "hut", "alien"}
                        /\ Dies(p)
     \/ \E p \in Pids : /\ proc[p] = "free"
                        /\ \E what \in {"hut", "alien"} : proc' = [proc EXCEPT ![p] = what]
                        /\ UNCHANGED <<port, told>>
     \/ /\ port = Nobody
        /\ port' = Foreign
        /\ UNCHANGED <<proc, told>>
  /\ UNCHANGED <<pidfile, cmd>>

-----------------------------------------------------------------------------
(* start_daemon.                                                           *)

(* The first ping.  A server answers as soon as it is bound.               *)
Start(c) ==
  /\ At(c, "idle")
  /\ Overlap \/ \A d \in Stoppers : cmd[d].at \in Over
  /\ cmd' = [cmd EXCEPT ![c].at = CASE port = Foreign -> "failed"
                                    [] port = Nobody -> "spawn"
                                    [] OTHER -> "write",
                        ![c].seen = port]
  /\ UNCHANGED <<proc, port, pidfile, told, accidents>>

spawn_daemon(c) ==
  /\ At(c, "spawn")
  /\ \E p \in Pids : /\ proc[p] = "free"
                     /\ proc' = [proc EXCEPT ![p] = "boot"]
                     /\ cmd' = [cmd EXCEPT ![c].at = "ping", ![c].child = p]
  /\ UNCHANGED <<port, pidfile, told, accidents>>

(* wait_ready's loop: ping, then the health of the API, then the child.    *)
ping(c) ==
  /\ At(c, "ping")
  /\ IF port = Foreign
     THEN Ends(c, "failed")
     ELSE /\ cmd' = [cmd EXCEPT ![c].at = IF port = Nobody THEN "poll" ELSE "api",
                                ![c].seen = port]
          /\ UNCHANGED proc
  /\ UNCHANGED <<port, pidfile, told, accidents>>

_api_ready(c) ==
  /\ At(c, "api")
  /\ Go(c, IF port \in Pids /\ proc[port] = "ready" THEN "write" ELSE "poll")
  /\ UNCHANGED <<proc, port, pidfile, told, accidents>>

(* A dead child counts only when the ping found nobody; poll() reaps it in *)
(* either case.  The deadline may pass in any round.                       *)
wait_ready(c) ==
  /\ At(c, "poll")
  /\ LET child == cmd[c].child
         dead == child = Reaped \/ proc[child] = "zombie"
     IN  IF dead /\ cmd[c].seen = Nobody
         THEN Ends(c, "failed")
         ELSE \/ /\ cmd' = [cmd EXCEPT ![c].at = "ping",
                                       ![c].child = IF dead THEN Reaped ELSE child]
                 /\ proc' = [p \in Pids |-> IF dead /\ p = child THEN "free" ELSE proc[p]]
              \/ Ends(c, "failed")
  /\ UNCHANGED <<port, pidfile, told, accidents>>

(* (What start_daemon must not record.)                                    *)
recorded_pid_of_child(c) ==
  IF cmd[c].child = Nobody THEN cmd[c].seen ELSE cmd[c].child

(* The pid recorded is the one the server reports, not that of the child,  *)
(* which may have lost the race for the port.                              *)
recorded_pid(c) == cmd[c].seen

start_daemon(c) ==
  /\ At(c, "write")
  /\ pidfile' = recorded_pid(c)
  /\ told' = IF port = cmd[c].seen THEN told \cup {port} ELSE told
  /\ Ends(c, "done")
  /\ UNCHANGED <<port, accidents>>

-----------------------------------------------------------------------------
(* stop_daemon.                                                            *)

Stop(c) ==
  /\ At(c, "idle")
  /\ Overlap \/ Quiet
  /\ cmd' = [cmd EXCEPT ![c].seen = pidfile,
                        ![c].at = CASE pidfile = Nobody -> "done"
                                    [] pidfile # Nobody /\ ~pid_alive(pidfile) -> "remove"
                                    [] OTHER -> "confirm"]
  /\ UNCHANGED <<proc, port, pidfile, told, accidents>>

(* Either the server on the port or the command line vouches for the pid.  *)
Confirm(c) ==
  /\ At(c, "confirm")
  /\ Go(c, IF port = cmd[c].seen \/ _looks_like_scripthut(cmd[c].seen)
           THEN "term" ELSE "failed")
  /\ UNCHANGED <<proc, port, pidfile, told, accidents>>

(* uvicorn closes its socket at once and goes on with the shutdown; every  *)
(* other process dies of the signal.  os.kill raises when nobody is left.  *)
Terminate(c) ==
  /\ At(c, "term")
  /\ LET p == cmd[c].seen
     IN  CASE proc[p] = "free" -> /\ Go(c, "failed")
                                  /\ UNCHANGED <<proc, port, told>>
           [] proc[p] \in {"bound", "ready"} ->
                /\ proc' = [proc EXCEPT ![p] = "stopping"]
                /\ port' = Nobody
                /\ told' = told \ {p}
                /\ Go(c, "await")
           [] proc[p] \in {"boot", "hut", "alien"} -> Dies(p) /\ Go(c, "await")
           [] OTHER -> Go(c, "await") /\ UNCHANGED <<proc, port, told>>
  /\ UNCHANGED <<pidfile, accidents>>

(* The wait ends when the pid is gone, or after ten seconds with SIGKILL   *)
(* for whatever runs under the pid by then.                                *)
Await(c) ==
  /\ At(c, "await")
  /\ Go(c, "remove")
  /\ LET p == cmd[c].seen
     IN  IF pid_alive(p) THEN Dies(p) ELSE UNCHANGED <<proc, port, told>>
  /\ UNCHANGED <<pidfile, accidents>>

remove_pidfile(c) ==
  /\ At(c, "remove")
  /\ pidfile' = Nobody
  /\ Go(c, "done")
  /\ UNCHANGED <<proc, port, told, accidents>>

Starting(c) == \/ Start(c) \/ spawn_daemon(c) \/ ping(c) \/ _api_ready(c)
               \/ wait_ready(c) \/ start_daemon(c)

Stopping(c) == Stop(c) \/ Confirm(c) \/ Terminate(c) \/ Await(c) \/ remove_pidfile(c)

Server(p) == Bind(p) \/ FinishStartup(p) \/ Exit(p)

Next == \/ \E c \in Starters : Starting(c)
        \/ \E c \in Stoppers : Stopping(c)
        \/ \E p \in Pids : Server(p)
        \/ Accident

Spec == Init /\ [][Next]_vars

-----------------------------------------------------------------------------
(* Once all commands have ended, a running server that some start has      *)
(* reported is the one the pidfile names: "daemon stop" finds it.  Two     *)
(* starts may race for the port, a stale pidfile may name a pid that       *)
(* somebody else has been given, a start may give up on a slow server.     *)
PidfileNamesServer == Quiet /\ port \in told => pidfile = port

(* "Identity check before killing: never SIGTERM a recycled pid": no stop  *)
(* ends a process that is not a scripthut server.                          *)
KillsOnlyServers ==
  [][\A p \in Pids : (\E c \in Stoppers : cmd[c] # cmd'[c]) /\ proc[p] \in {"hut", "alien"}
                       => proc'[p] = proc[p]]_vars
=============================================================================
