---------------------------- MODULE VLLMServers ----------------------------
(***************************************************************************)
(* The vLLM processes of a node and the adapter that starts, awaits and    *)
(* stops them (infrastructure/adapters/vllm_server_manager.py).  The       *)
(* processes live in the operating system: they survive the Python process *)
(* that started them, and the adapter only knows those it tracks.  The     *)
(* adapter's methods are operators here; the specification of a client of  *)
(* the adapter makes actions of them.                                      *)
(***************************************************************************)
EXTENDS Naturals, Sequences, FiniteSets

CONSTANTS
  Models,    \* the models of the registry, generators and judge
  PortOf,    \* the port of each model: 8000 + gpu_index
  Pids,      \* process ids, a bound on the processes alive at once
  NoModel,   \* no model
  NoPid      \* no process

Ports == {PortOf[m] : m \in Models}

ASSUME ServersAssumption ==
  /\ DOMAIN PortOf = Models
  /\ NoModel \notin Models
  /\ NoPid \notin Pids

VARIABLES
  proc,      \* [Pids -> Process]: the processes of the node
  tracked,   \* pids the adapter keeps a handle of
  lingering  \* ports nobody listens on but that cannot be bound yet (TIME_WAIT)

serverVars == <<proc, tracked, lingering>>

\* A process loads its model, then listens; "exited" is a dead process whose
\* handle is still tracked.  killed: SIGKILL was sent and did not work yet.
Process == [state : {"none", "loading", "serving", "exited"},
            model : Models \cup {NoModel},
            killed : BOOLEAN]
NoProcess == [state |-> "none", model |-> NoModel, killed |-> FALSE]

ServersTypeOK ==
  /\ proc \in [Pids -> Process]
  /\ tracked \in SUBSET Pids
  /\ lingering \in SUBSET Ports

ServersInit ==
  /\ proc = [p \in Pids |-> NoProcess]
  /\ tracked = {}
  /\ lingering = {}

Alive(p) == proc[p].state \in {"loading", "serving"}
Holds(p, port) == proc[p].state = "serving" /\ PortOf[proc[p].model] = port

\* GET /health on a port answers 200, whichever process listens there.
HealthyPort(port) == \E p \in Pids : Holds(p, port) /\ ~proc[p].killed

-----------------------------------------------------------------------------
(* The operating system.                                                   *)

\* A process that held its port leaves it in TIME_WAIT.
Leave(p) == lingering' = lingering \cup {port \in Ports : Holds(p, port)}

Exit(p) ==
  /\ Alive(p)
  /\ proc' = [proc EXCEPT ![p] = IF p \in tracked THEN [@ EXCEPT !.state = "exited"]
                                                 ELSE NoProcess]
  /\ Leave(p)
  /\ UNCHANGED tracked

\* The model is loaded and the port was free.  (If it is taken the process
\* exits, one of the exits of Exit.)
Bind(p) ==
  /\ proc[p].state = "loading" /\ ~proc[p].killed
  /\ \A q \in Pids : ~Holds(q, PortOf[proc[p].model])
  /\ proc' = [proc EXCEPT ![p].state = "serving"]
  /\ UNCHANGED <<tracked, lingering>>

Expire(port) ==
  /\ port \in lingering
  /\ lingering' = lingering \ {port}
  /\ UNCHANGED <<proc, tracked>>

-----------------------------------------------------------------------------
(* The adapter.                                                            *)

\* _assert_port_available: no live handle of the adapter has the port, and
\* the port can be bound.
PortAvailable(port) ==
  /\ \A p \in tracked : ~(Alive(p) /\ PortOf[proc[p].model] = port)
  /\ \A p \in Pids : ~Holds(p, port)
  /\ port \notin lingering

\* start: handles of dead processes on the port are forgotten and a process
\* is created, which will bind the port only once it is up.
Start(m, p) ==
  /\ PortAvailable(PortOf[m])
  /\ proc[p].state = "none"
  /\ LET stale == {q \in tracked : proc[q].state = "exited" /\ PortOf[proc[q].model] = PortOf[m]}
     IN  /\ proc' = [q \in Pids |->
                       IF q = p THEN [state |-> "loading", model |-> m, killed |-> FALSE]
                       ELSE IF q \in stale THEN NoProcess ELSE proc[q]]
         /\ tracked' = (tracked \ stale) \cup {p}
  /\ UNCHANGED lingering

\* stop, and the end of a wait_healthy that failed: the process is signalled,
\* SIGKILL at the latest, waited for a bounded time, and its handle forgotten
\* even if it is not gone by then.
End(p, gone) ==
  /\ gone \/ Alive(p)
  /\ proc' = [proc EXCEPT ![p] = IF gone THEN NoProcess ELSE [@ EXCEPT !.killed = TRUE]]
  /\ IF gone THEN Leave(p) ELSE UNCHANGED lingering
  /\ tracked' = tracked \ {p}

=============================================================================
