--------------------------- MODULE WorkerStartup ---------------------------
(***************************************************************************)
(* Which process of a deployment starts the TCP and UDP servers, whose     *)
(* ports only one process can bind: a worker of gunicorn, which a master   *)
(* forks again whenever it dies (wsgi_gunicorn.py); the process of         *)
(* server.py under Werkzeug's reloader, a parent that watches the files    *)
(* and a child that serves; or a single process.  One port stands for the  *)
(* two.  Bounds: MaxCrashes deaths of workers that serve, or edits.        *)
(***************************************************************************)
EXTENDS Naturals, FiniteSets

CONSTANTS
    Worker,        \* the worker slots of the gunicorn master
    WorkerNums,    \* what WORKER_NUM may say, as far as it is a number
    MaxCrashes

Single == CHOOSE w \in Worker : TRUE
Parent == "parent"
Program == Worker \cup {Parent}
Launcher == {"gunicorn", "reloader", "plain"}
None == "none"
Other == "other program"

VARIABLES
    launcher,   \* how the deployment was started
    wanted,     \* WORKER_NUM
    port,       \* who listens on the port
    state,      \* per process: "off", "starting", "serving", "dead"
    crashes

vars == <<launcher, wanted, port, state, crashes>>

\* _parse_worker_num(): a number that is no number of workers is the default.
Default == Cardinality(Worker)
WorkerNum == IF wanted = 0 THEN Default ELSE wanted

Init ==
    /\ launcher \in Launcher
    /\ wanted \in WorkerNums
    /\ port \in {None, Other}
    /\ state = [p \in Program |-> "off"]
    /\ crashes = 0

\* The processes a launcher runs: workers in slots it fills in any order.
Live(p) == state[p] \in {"starting", "serving"}
Slots == IF launcher = "gunicorn" THEN WorkerNum ELSE 1
MayFork(p) ==
    CASE launcher = "gunicorn" ->
            /\ p \in Worker
            /\ Cardinality({w \in Worker : Live(w)}) < WorkerNum
      [] launcher = "reloader" -> p = Parent \/ (p = Single /\ state[Parent] = "serving")
      [] launcher = "plain" -> p = Single
\* Only gunicorn's master starts a dead process again.
Fork(p) ==
    /\ MayFork(p)
    /\ state[p] = "off" \/ (launcher = "gunicorn" /\ state[p] = "dead")
    /\ state' = [state EXCEPT ![p] = "starting"]
    /\ UNCHANGED <<launcher, wanted, port, crashes>>

\* should_start_protocol_servers() of server.py and the check of
\* _post_worker_init() in gunicorn.
MayStartAlways(p) == TRUE
MayStart(p) ==
    /\ launcher = "gunicorn" => WorkerNum = 1
    /\ launcher = "reloader" => p # Parent

\* start_protocol_servers() binds the port or raises OSError, which only the
\* gunicorn hook catches.
Die(p) ==
    /\ state' = [q \in Program |->
                    IF q = p \/ (launcher = "reloader" /\ q = Parent) THEN "dead"
                    ELSE state[q]]
    /\ port' = IF port = p THEN None ELSE port
Start(p) ==
    /\ state[p] = "starting"
    /\ IF MayStart(p) /\ port # None /\ launcher # "gunicorn"
       THEN Die(p)
       ELSE /\ state' = [state EXCEPT ![p] = "serving"]
            /\ port' = IF MayStart(p) /\ port = None THEN p ELSE port
    /\ UNCHANGED <<launcher, wanted, crashes>>

\* A worker of gunicorn dies while it serves; an edit of a source file makes
\* the reloader's child exit, and its parent runs it again.
Crash(p) ==
    /\ launcher = "gunicorn" /\ state[p] = "serving" /\ crashes < MaxCrashes
    /\ crashes' = crashes + 1
    /\ Die(p)
    /\ UNCHANGED <<launcher, wanted>>

Edit ==
    /\ launcher = "reloader" /\ state[Single] = "serving" /\ crashes < MaxCrashes
    /\ crashes' = crashes + 1
    /\ state' = [state EXCEPT ![Single] = "off"]
    /\ port' = IF port = Single THEN None ELSE port
    /\ UNCHANGED <<launcher, wanted>>

Next == Edit \/ \E p \in Program : Fork(p) \/ Start(p) \/ Crash(p)

\* The launchers fork what is missing, and a process that starts gets on.
Fairness == \A p \in Program : WF_vars(Fork(p)) /\ WF_vars(Start(p))

FairSpec == Init /\ [][Next]_vars /\ Fairness

----------------------------------------------------------------------------
\* The processes of the deployment end up serving HTTP and stay: none is
\* caught in a loop of restarts by a port it cannot bind, even one that
\* another program holds under gunicorn.  (Elsewhere a port that another
\* program holds ends the program, with the error.)
AllServe ==
    (port # Other \/ launcher = "gunicorn") ~>
        [](Cardinality({w \in Worker : state[w] = "serving"}) = Slots)
============================================================================
