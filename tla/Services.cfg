SPECIFICATION SpecOfOne
CONSTANTS
  west = west
  east = east
  k1 = k1
  k2 = k2
  k3 = k3
  Process = {west, east}
  Thread = {k1, k2, k3}
  Home <- HomeOf
  Configured <- Derived
  Seed <- SeedOf
  Machines = 2
  SequenceSize = 2
  MaxClock = 1
  MaxBacks = 1
  MaxCalls = 4
\* A function, a command and a command that leaves a child, with one thread.
  Task = {"f", "c", "d"}
  Command = {"c", "d"}
  Keeper = {"d"}
  MaxWorkers = 1
  MaxPending = 1
  MaxFailures = 1
  Outsider = {"user"}
\* One of four writes fails a constraint, one does not parse; a reader is in the way.
  Connection = {"s", "t"}
  Write = {"v", "w", "x", "y"}
  Violating = {"x"}
  Malformed = {"y"}
  Retries = 1
  MaxReads = 1
  UserCall = {"a", "b", "d"}
  LoginCall = {"d"}
  Name = {"n"}
  NameOf <- OneName
  MaxFaults = 1
\* Four requests for one path by a client that is allowed two in two ticks.
  Requests = 4
  Path = {"a"}
  Forged <- ForgedHops
  Quota = 2
  Window = 2
  MaxTime = 3
  MaxFlips = 1
\* Two threads, and enough logins for a lock that is set again after it ended.
  Guesser = {1, 2}
  MaxFails = 2
  MaxLogins = 6
  MaxExpiries = 2
  MaxChanges = 1
\* A signal handler on top of main(), one on top of that, and the watchdog.
  MaxSignals = 2
  MaxConns = 1
\* Two worker slots, for one worker, two, or a number that is none.
  Worker = {"w1", "w2"}
  WorkerNums = {0, 1, 2}
  MaxCrashes = 2
\* More datagrams than slots, a restart, and a thread that sends.
  Datagram = {"d1", "d2"}
  Sender = {"k"}
  MaxConcurrency = 1
  MaxStarts = 2
INVARIANTS
  IdsUnique PermitsConserved WrittenOnce LockLeftForCause OneOwner AdmittedBounded
  GuessesBounded EntryStopsFirst DatagramSlots
PROPERTIES PermitsReturn FailureEndsBoth SignalEnds AllServe
CHECK_DEADLOCK FALSE
