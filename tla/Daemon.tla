-------------------------------- MODULE Daemon --------------------------------
(***************************************************************************)
(* The threads of the daemon around the one mutex of Shared: the scan loop *)
(* (main.rs, the main thread), the accept loop and a worker per connection *)
(* (server.rs), and the DNS thread (dns_capture.rs), with the clients at   *)
(* the socket and procd, which starts the process again when it dies.      *)
(*                                                                         *)
(* What Shared holds is reduced to how many scans the recorder is ahead of *)
(* the list of clients; ScanLoop and DnsCapture model it in full.          *)
(*                                                                         *)
(* A panic unwinds its own thread only, and poisons the mutex if the       *)
(* thread holds it; when the main thread unwinds, main returns and the     *)
(* process exits.                                                          *)
(*                                                                         *)
(* The descriptors a connection takes are counted: a client that does not  *)
(* read its answer keeps a worker and two of them for as long as it likes. *)
(***************************************************************************)
EXTENDS Naturals, FiniteSets

CONSTANTS Conn,       \* the connections open at one time; a closed one is used again
          Limits,     \* how many descriptors the system may leave for connections
          MaxPanics   \* bound: panics in a behaviour, of any thread

ASSUME DaemonAssumption ==
    /\ MaxPanics \in Nat
    /\ IsFiniteSet(Conn) /\ Limits \subseteq Nat \ {0}
    /\ "main" \notin Conn /\ "dns" \notin Conn /\ "none" \notin Conn

VARIABLES main,       \* the scan loop; "down" while no process runs
          dns,        \* the DNS thread
          listener,   \* the accept loop
          sockfile,   \* whether the path of the socket exists
          conn,       \* where each connection is
          mood,       \* what the client at its other end does
          holder,     \* who holds the mutex
          poisoned,
          ahead,      \* scans the recorder and the store have and Shared.clients has not
          fds,        \* the descriptors there are for connections
          panics

mainVars == <<main, ahead>>
connVars == <<conn, mood>>
listenVars == <<listener, sockfile>>
vars == <<mainVars, dns, listenVars, connVars, holder, poisoned, fds, panics>>

Nobody == "none"

Init ==
    /\ main = "sleeping" /\ dns = "starting" /\ listener = "starting"
    /\ sockfile = FALSE
    /\ conn = [c \in Conn |-> "none"]
    /\ mood = [c \in Conn |-> "gone"]
    /\ holder = Nobody /\ poisoned = FALSE
    /\ ahead = 0
    /\ fds \in Limits
    /\ panics = 0

-------------------------------------------------------------------------------
(* The mutex.  lock().unwrap_or_else(|e| e.into_inner()) takes it poisoned *)
(* or not; a panic of the holder lets go of it too.                        *)
CanLockUnlessPoisoned == holder = Nobody /\ ~poisoned

CanLock == holder = Nobody

Lock(thread) == CanLock /\ holder' = thread /\ UNCHANGED <<poisoned, fds, panics>>

Unlock == holder' = Nobody /\ UNCHANGED <<poisoned, fds, panics>>

LockApart == UNCHANGED <<holder, poisoned, fds, panics>>

Panic(held) ==
    /\ panics < MaxPanics
    /\ panics' = panics + 1
    /\ holder' = IF held THEN Nobody ELSE holder
    /\ poisoned' = (poisoned \/ held)
    /\ UNCHANGED fds

-------------------------------------------------------------------------------
(* The scan loop. *)

MainGoes(from, to) ==
    /\ main = from
    /\ main' = to
    /\ UNCHANGED <<dns, listenVars, connVars>>

Wake == MainGoes("sleeping", "reading") /\ LockApart /\ UNCHANGED ahead

(* conntrack, leases and ARP are read without the mutex.                   *)
Collect == MainGoes("reading", "locking") /\ LockApart /\ UNCHANGED ahead

ReadFails == MainGoes("reading", "sleeping") /\ LockApart /\ UNCHANGED ahead

LockMain == MainGoes("locking", "recording") /\ Lock("main") /\ UNCHANGED ahead

RecordUnguarded == MainGoes("recording", "publishing") /\ Unlock /\ ahead' = ahead + 1

(* record, inserts, upserts and maintenance.                               *)
Record == MainGoes("recording", "publishing") /\ LockApart /\ ahead' = ahead + 1

(* g.clients = snap, and the end of the guard's block.                     *)
Publish == MainGoes("publishing", "sleeping") /\ Unlock /\ ahead' = 0

(* The process is gone with all its threads; the path of the socket stays. *)
Die ==
    /\ main # "down"
    /\ main' = "down" /\ dns' = "down" /\ listener' = "down"
    /\ holder' = Nobody /\ poisoned' = FALSE
    /\ conn' = [c \in Conn |-> "none"]
    /\ mood' = [c \in Conn |-> "gone"]
    /\ ahead' = 0
    /\ UNCHANGED <<sockfile, fds>>

MainPanics == panics < MaxPanics /\ panics' = panics + 1 /\ Die

(* A signal: the service is stopped or restarted, or memory ran out.       *)
Killed == Die /\ UNCHANGED panics

Restart ==
    /\ main = "down"
    /\ main' = "sleeping" /\ dns' = "starting" /\ listener' = "starting"
    /\ UNCHANGED <<ahead, sockfile, connVars, holder, poisoned, fds, panics>>

-------------------------------------------------------------------------------
(* The DNS thread. *)

DnsGoes(from, to) ==
    /\ dns = from
    /\ dns' = to
    /\ UNCHANGED <<mainVars, listenVars, connVars>>

(* It ends at once when it cannot open the IPv4 socket, and is not started *)
(* at all when the option is off.                                          *)
DnsStarts == LockApart /\ (DnsGoes("starting", "polling") \/ DnsGoes("starting", "off"))

FlushDue == DnsGoes("polling", "locking") /\ LockApart

LockDns == DnsGoes("locking", "storing") /\ Lock("dns")

StoreCounts == DnsGoes("storing", "polling") /\ Unlock

DnsPanics ==
    \/ DnsGoes("polling", "off") /\ Panic(FALSE)
    \/ DnsGoes("storing", "off") /\ Panic(TRUE)

-------------------------------------------------------------------------------
(* The accept loop.  A connection that is over is at "none" again. *)

RemoveNothing ==
    /\ listener = "starting"
    /\ listener' = "binding"
    /\ LockApart
    /\ UNCHANGED <<mainVars, dns, sockfile, connVars>>

(* remove_file(path) *)
RemoveSocket ==
    /\ listener = "starting"
    /\ listener' = "binding"
    /\ sockfile' = FALSE
    /\ LockApart
    /\ UNCHANGED <<mainVars, dns, connVars>>

(* bind refuses a path that exists, and then the thread returns.           *)
Bind ==
    /\ listener = "binding"
    /\ listener' = IF sockfile THEN "gone" ELSE "accepting"
    /\ sockfile' = TRUE
    /\ LockApart
    /\ UNCHANGED <<mainVars, dns, connVars>>

ConnGoes(c, from, to) ==
    /\ conn[c] = from
    /\ conn' = [conn EXCEPT ![c] = to]
    /\ mood' = [mood EXCEPT ![c] = IF to = "none" THEN "gone" ELSE mood[c]]
    /\ UNCHANGED <<mainVars, dns, listenVars>>

(* A stream is one descriptor, and a second once its worker has cloned it. *)
Descriptors ==
    Cardinality({c \in Conn : conn[c] \notin {"none", "queued"}})
        + Cardinality({c \in Conn : conn[c] \notin {"none", "queued", "accepted"}})

Free == Descriptors < fds

Accept(c) ==
    /\ listener = "accepting"
    /\ Free
    /\ ConnGoes(c, "queued", "accepted")
    /\ LockApart

(* With no descriptor left accept returns an error, which is printed; the  *)
(* connection is queued as before, and accept is tried again at once.      *)
AcceptFails(c) ==
    /\ listener = "accepting"
    /\ conn[c] = "queued"
    /\ ~Free
    /\ UNCHANGED vars

(* thread::spawn panics when the system gives it no thread: the accept     *)
(* loop unwinds and drops the listener with the connections it has queued. *)
SpawnPanics(c) ==
    /\ listener = "accepting"
    /\ conn[c] = "queued"
    /\ Free
    /\ listener' = "gone"
    /\ conn' = [d \in Conn |-> IF conn[d] = "queued" THEN "none" ELSE conn[d]]
    /\ mood' = [d \in Conn |-> IF conn[d] = "queued" THEN "gone" ELSE mood[d]]
    /\ Panic(FALSE)
    /\ UNCHANGED <<mainVars, dns, sockfile>>

-------------------------------------------------------------------------------
(* handle_conn, on the worker of connection c. *)

(* set_read_timeout and try_clone *)
Begin(c) ==
    /\ Free
    /\ ConnGoes(c, "accepted", "reading")
    /\ LockApart

(* One of the two failed, for want of a descriptor or otherwise: the       *)
(* worker ends, and the client reads the end of the stream.                *)
BeginFails(c) ==
    /\ ConnGoes(c, "accepted", "none")
    /\ LockApart

(* A line came; a client that hung up half way through one has it read too. *)
ReadLine(c) ==
    /\ mood[c] # "silent"
    /\ ConnGoes(c, "reading", "locking")
    /\ LockApart

ReadNeverTimesOut(c) ==
    /\ mood[c] = "gone"
    /\ ConnGoes(c, "reading", "none")
    /\ LockApart

(* The read timed out, or the client closed and 0 bytes came.              *)
ReadEnds(c) ==
    /\ mood[c] \in {"silent", "gone"}
    /\ ConnGoes(c, "reading", "none")
    /\ LockApart

(* The read failed, or the line is not UTF-8. *)
ReadErrs(c) ==
    /\ ConnGoes(c, "reading", "none")
    /\ LockApart

LockShared(c) ==
    /\ ConnGoes(c, "locking", "dispatching")
    /\ Lock(c)

DispatchKeepsGuard(c) ==
    /\ ConnGoes(c, "dispatching", "writing")
    /\ LockApart

(* dispatch reads the shared state; the guard ends with the block.         *)
Dispatch(c) ==
    /\ ConnGoes(c, "dispatching", "writing")
    /\ Unlock

WorkerPanics(c) ==
    /\ ConnGoes(c, "dispatching", "none")
    /\ Panic(TRUE)

(* write_all has no timeout; on a closed socket it returns an error.       *)
Write(c) ==
    /\ ConnGoes(c, "writing", "none")
    /\ LockApart

-------------------------------------------------------------------------------
(* The clients.  A prompt one sends its line and reads the answer, a       *)
(* silent one sends no full line, a deaf one does not read: an answer      *)
(* longer than the socket's buffer is then never written.  All may hang up. *)
Moods == {"prompt", "silent", "deaf"}

Connect(c, m) ==
    /\ listener = "accepting"
    /\ conn[c] = "none"
    /\ conn' = [conn EXCEPT ![c] = "queued"]
    /\ mood' = [mood EXCEPT ![c] = m]
    /\ LockApart
    /\ UNCHANGED <<mainVars, dns, listenVars>>

HangUp(c) ==
    /\ conn[c] # "none"
    /\ mood[c] # "gone"
    /\ mood' = [mood EXCEPT ![c] = "gone"]
    /\ LockApart
    /\ UNCHANGED <<mainVars, dns, listenVars, conn>>

-------------------------------------------------------------------------------
Scanning == Wake \/ Collect \/ ReadFails \/ Record \/ Publish

Serving(c) == Accept(c) \/ SpawnPanics(c)

Beginning(c) == Begin(c) \/ BeginFails(c)

Reading(c) == ReadLine(c) \/ ReadEnds(c)

Dispatching(c) == Dispatch(c) \/ WorkerPanics(c)

Next ==
    \/ Scanning \/ LockMain \/ MainPanics \/ Killed \/ Restart
    \/ DnsStarts \/ FlushDue \/ LockDns \/ StoreCounts \/ DnsPanics
    \/ RemoveSocket \/ Bind
    \/ \E c \in Conn :
          \/ Serving(c) \/ AcceptFails(c) \/ Beginning(c) \/ Reading(c) \/ ReadErrs(c)
          \/ LockShared(c) \/ Dispatching(c) \/ Write(c)
          \/ HangUp(c)
          \/ \E m \in Moods : Connect(c, m)

(* The daemon's threads run and procd restarts it; no client does anything *)
(* it need not.  A thread that finds the mutex free again and again gets   *)
(* it: the critical sections are short, and the scan loop, the one thread  *)
(* that always comes back, sleeps at least a second outside (main.rs:121). *)
(* Connections are accepted in the order they were queued, so one that is  *)
(* queued is accepted if accept succeeds again and again, though a worker  *)
(* may clone its stream in between and take the descriptor.  Nothing is    *)
(* owed to an error other than a time-out.                                 *)
Fairness ==
    /\ WF_vars(Scanning) /\ SF_vars(LockMain) /\ WF_vars(Restart)
    /\ SF_vars(LockDns) /\ WF_vars(StoreCounts)
    /\ WF_vars(RemoveSocket) /\ WF_vars(Bind)
    /\ \A c \in Conn :
          /\ SF_vars(Serving(c)) /\ WF_vars(Beginning(c)) /\ WF_vars(Reading(c))
          /\ SF_vars(LockShared(c)) /\ WF_vars(Dispatching(c))
          /\ WF_vars(mood[c] # "deaf" /\ Write(c))

Spec == Init /\ [][Next]_vars

FairSpec == Spec /\ Fairness

-------------------------------------------------------------------------------
(* Properties. *)

TypeOK ==
    /\ main \in {"down", "sleeping", "reading", "locking", "recording", "publishing"}
    /\ dns \in {"down", "starting", "polling", "locking", "storing", "off"}
    /\ listener \in {"down", "starting", "binding", "accepting", "gone"}
    /\ sockfile \in BOOLEAN
    /\ conn \in [Conn -> {"none", "queued", "accepted", "reading", "locking", "dispatching",
                          "writing"}]
    /\ mood \in [Conn -> Moods \cup {"gone"}]
    /\ holder \in {Nobody, "main", "dns"} \cup Conn
    /\ poisoned \in BOOLEAN
    /\ ahead \in {0, 1}
    /\ fds \in Limits
    /\ panics \in 0 .. MaxPanics

(* The mutex is held by the one thread that is inside its critical         *)
(* section, and by nobody otherwise: no panic leaves it taken, and no      *)
(* worker keeps it while it waits for its client (server.rs:57-61).        *)
HolderIsInside ==
    /\ holder = "main" <=> main \in {"recording", "publishing"}
    /\ holder = "dns" <=> dns = "storing"
    /\ \A c \in Conn : holder = c <=> conn[c] = "dispatching"

(* An answer is of one scan: the history a worker reads and the clients it *)
(* lists belong together, whatever panicked or was restarted before.       *)
AnswersAreWhole == \A c \in Conn : conn[c] = "dispatching" => ahead = 0

(* Whoever does not hold the mutex would find recorder and list of one     *)
(* scan if it took it.                                                     *)
WholeOutside == main # "publishing" => ahead = 0

(* No thread outlives the process. *)
DeadIsDead ==
    main = "down" => dns = "down" /\ listener = "down" /\ \A c \in Conn : conn[c] = "none"

SafetyInv == TypeOK /\ HolderIsInside /\ WholeOutside /\ DeadIsDead

(* Deaf clients have every descriptor. *)
Hoarded ==
    ~Free /\ \A c \in Conn : conn[c] \in {"none", "queued"} \/ mood[c] = "deaf"

(* A stalled client blocks only its own worker (server.rs:10 and 32): the  *)
(* request of a client that is not deaf comes to an end, since silent      *)
(* clients are timed out, a poisoned mutex is taken over, and a death of   *)
(* the process closes the connection.  With one exception: writes have no  *)
(* time-out, and once clients that do not read have every descriptor,      *)
(* accept fails, and the queue waits, for as long as they stay.            *)
RequestsEnd ==
    \A c \in Conn :
        conn[c] = "queued" ~> (conn[c] = "none" \/ mood[c] = "deaf" \/ []Hoarded)

(* No client, stalled or not, and no panic stops the monitoring: the loop  *)
(* comes to its sleep again and again.                                     *)
ScanLoopRuns == []<>(main = "sleeping")

(* A flush of the DNS thread gets its turn.                                *)
FlushesGetTheMutex == dns = "locking" ~> dns # "locking"

(* A new process serves its socket although the dead one left the path     *)
(* behind, unless it dies itself first.                                    *)
ListenerComesUp == listener = "starting" ~> listener = "accepting" \/ main = "down"

-------------------------------------------------------------------------------
(* server.rs:58: "a panic in the scan loop must not kill the control       *)
(* plane".  The scan loop is the main thread.                              *)
PanicIsContained ==
    [][panics' # panics /\ main' = "down" /\ listener = "accepting"
          => listener' = "accepting"]_vars
===============================================================================
