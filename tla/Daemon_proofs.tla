---------------------------- MODULE Daemon_proofs ----------------------------
(***************************************************************************)
(* Safety of the mutex and of what is read under it, for any number of     *)
(* connections, descriptors and panics.  Every action either leaves the    *)
(* mutex alone, takes it on the way into a critical section or gives it up *)
(* on the way out; SafetyInv adds to the properties what they need of the  *)
(* scan loop outside its critical section.                                 *)
(***************************************************************************)
EXTENDS Daemon, TLAPS

USE DEF Nobody

LEMMA PanicsBounded ==
    ASSUME panics \in 0 .. MaxPanics, panics < MaxPanics
    PROVE  panics + 1 \in 0 .. MaxPanics
BY DaemonAssumption

LEMMA InitSafe == Init => SafetyInv
<1>. SUFFICES ASSUME Init PROVE SafetyInv
    OBVIOUS
<1>1. TypeOK
  <2>1. panics \in 0 .. MaxPanics
      BY DaemonAssumption DEF Init
  <2>. QED BY <2>1 DEF Init, TypeOK, Moods
<1>2. HolderIsInside /\ WholeOutside /\ DeadIsDead
    BY DaemonAssumption DEF Init, HolderIsInside, WholeOutside, DeadIsDead
<1>. QED BY <1>1, <1>2 DEF SafetyInv

(* The steps of the scan loop and the deaths of the process. *)
LEMMA MainSafe ==
    ASSUME SafetyInv, Scanning \/ LockMain \/ MainPanics \/ Killed \/ Restart
    PROVE  SafetyInv'
<1>1. CASE Wake \/ Collect \/ ReadFails
    BY <1>1, DaemonAssumption DEF Wake, Collect, ReadFails, MainGoes, LockApart, SafetyInv, TypeOK,
       HolderIsInside, WholeOutside, DeadIsDead, listenVars, connVars
<1>2. CASE Record \/ Publish
    BY <1>2, DaemonAssumption DEF Record, Publish, MainGoes, LockApart, Unlock, SafetyInv, TypeOK,
       HolderIsInside, WholeOutside, DeadIsDead, listenVars, connVars
<1>3. CASE LockMain
    BY <1>3, DaemonAssumption DEF LockMain, MainGoes, Lock, CanLock, SafetyInv, TypeOK,
       HolderIsInside, WholeOutside, DeadIsDead, listenVars, connVars
<1>4. CASE MainPanics \/ Killed
  <2>1. panics' \in 0 .. MaxPanics
      BY <1>4, PanicsBounded DEF MainPanics, Killed, SafetyInv, TypeOK
  <2>2. Die
      BY <1>4 DEF MainPanics, Killed
  <2>3. TypeOK'
      BY <2>1, <2>2 DEF Die, SafetyInv, TypeOK
  <2>. QED BY <2>2, <2>3, DaemonAssumption DEF Die, SafetyInv, HolderIsInside, WholeOutside,
       DeadIsDead
<1>5. CASE Restart
    BY <1>5, DaemonAssumption DEF Restart, SafetyInv, TypeOK,
       HolderIsInside, WholeOutside, DeadIsDead, connVars
<1>. QED BY <1>1, <1>2, <1>3, <1>4, <1>5 DEF Scanning

(* The steps of the DNS thread and of the accept loop. *)
LEMMA DnsSafe ==
    ASSUME SafetyInv, DnsStarts \/ FlushDue \/ LockDns \/ StoreCounts \/ DnsPanics
    PROVE  SafetyInv'
<1>1. CASE DnsStarts \/ FlushDue \/ StoreCounts
    BY <1>1, DaemonAssumption DEF DnsStarts, FlushDue, StoreCounts, DnsGoes, LockApart, Unlock,
       SafetyInv, TypeOK, HolderIsInside, WholeOutside, DeadIsDead, mainVars, listenVars, connVars
<1>2. CASE LockDns
    BY <1>2, DaemonAssumption DEF LockDns, DnsGoes, Lock, CanLock, SafetyInv, TypeOK,
       HolderIsInside, WholeOutside, DeadIsDead, mainVars, listenVars, connVars
<1>3. CASE DnsPanics
  <2>1. panics' \in 0 .. MaxPanics
      BY <1>3, PanicsBounded DEF DnsPanics, Panic, SafetyInv, TypeOK
  <2>2. poisoned' \in BOOLEAN /\ fds' = fds
      BY <1>3 DEF DnsPanics, Panic
  <2>3. HolderIsInside'
      BY <1>3, DaemonAssumption DEF DnsPanics, DnsGoes, Panic, SafetyInv, TypeOK,
         HolderIsInside, mainVars, connVars
  <2>. QED BY <1>3, <2>1, <2>2, <2>3, DaemonAssumption DEF DnsPanics, DnsGoes, Panic, SafetyInv,
       TypeOK, WholeOutside, DeadIsDead, mainVars, listenVars, connVars
<1>. QED BY <1>1, <1>2, <1>3

LEMMA ListenerSafe ==
    ASSUME SafetyInv, RemoveSocket \/ Bind \/ \E c \in Conn : SpawnPanics(c)
    PROVE  SafetyInv'
<1>1. CASE RemoveSocket
    BY <1>1 DEF RemoveSocket, LockApart, SafetyInv, TypeOK,
       HolderIsInside, WholeOutside, DeadIsDead, mainVars, connVars
<1>2. CASE Bind
    BY <1>2 DEF Bind, LockApart, SafetyInv, TypeOK,
       HolderIsInside, WholeOutside, DeadIsDead, mainVars, connVars
<1>3. ASSUME NEW c \in Conn, SpawnPanics(c)
      PROVE  SafetyInv'
    BY <1>3, DaemonAssumption, PanicsBounded DEF SpawnPanics, Panic, SafetyInv, TypeOK,
       HolderIsInside, WholeOutside, DeadIsDead, mainVars
<1>. QED BY <1>1, <1>2, <1>3

(* The steps of one connection: its worker and its client. *)
LEMMA ConnSafe ==
    ASSUME SafetyInv, NEW c \in Conn,
           \/ Accept(c) \/ Beginning(c) \/ Reading(c) \/ ReadErrs(c) \/ Write(c)
           \/ LockShared(c) \/ Dispatching(c) \/ HangUp(c)
           \/ \E m \in Moods : Connect(c, m)
    PROVE  SafetyInv'
<1>1. CASE Accept(c) \/ Beginning(c) \/ Reading(c) \/ ReadErrs(c) \/ Write(c)
    BY <1>1, DaemonAssumption DEF Accept, Beginning, Begin, BeginFails, Reading, ReadLine,
       ReadEnds, ReadErrs, Write, ConnGoes, LockApart,
       SafetyInv, TypeOK, HolderIsInside, WholeOutside, DeadIsDead, Moods, mainVars, listenVars
<1>2. CASE LockShared(c)
    BY <1>2, DaemonAssumption DEF LockShared, ConnGoes, Lock, CanLock,
       SafetyInv, TypeOK, HolderIsInside, WholeOutside, DeadIsDead, Moods, mainVars, listenVars
<1>3. CASE Dispatch(c)
    BY <1>3, DaemonAssumption DEF Dispatch, ConnGoes, Unlock, SafetyInv, TypeOK, HolderIsInside,
       WholeOutside, DeadIsDead, Moods, mainVars, listenVars
<1>5. CASE WorkerPanics(c)
  <2>1. panics' \in 0 .. MaxPanics /\ holder' = Nobody
      BY <1>5, PanicsBounded DEF WorkerPanics, Panic, SafetyInv, TypeOK
  <2>2. poisoned' \in BOOLEAN /\ fds' = fds
      BY <1>5 DEF WorkerPanics, Panic
  <2>. QED BY <1>5, <2>1, <2>2, DaemonAssumption DEF WorkerPanics, ConnGoes, SafetyInv, TypeOK,
       HolderIsInside, WholeOutside, DeadIsDead, Moods, mainVars, listenVars
<1>4. CASE HangUp(c) \/ \E m \in Moods : Connect(c, m)
    BY <1>4, DaemonAssumption DEF HangUp, Connect, LockApart,
       SafetyInv, TypeOK, HolderIsInside, WholeOutside, DeadIsDead, Moods, mainVars, listenVars
<1>. QED BY <1>1, <1>2, <1>3, <1>4, <1>5 DEF Dispatching

LEMMA NextSafe == SafetyInv /\ [Next]_vars => SafetyInv'
<1>. SUFFICES ASSUME SafetyInv, [Next]_vars PROVE SafetyInv'
    OBVIOUS
<1>1. CASE UNCHANGED vars \/ \E c \in Conn : AcceptFails(c)
    BY <1>1 DEF AcceptFails, vars, mainVars, listenVars, connVars, SafetyInv, TypeOK, HolderIsInside,
       WholeOutside, DeadIsDead
<1>2. ASSUME NEW c \in Conn,
             \/ Serving(c) \/ Beginning(c) \/ Reading(c) \/ ReadErrs(c) \/ Write(c)
             \/ LockShared(c) \/ Dispatching(c) \/ HangUp(c)
             \/ \E m \in Moods : Connect(c, m)
      PROVE  SafetyInv'
    BY <1>2, ListenerSafe, ConnSafe DEF Serving
<1>3. CASE Next
    BY <1>1, <1>2, <1>3, MainSafe, DnsSafe, ListenerSafe DEF Next
<1>. QED BY <1>1, <1>3

LEMMA Safe == Spec => []SafetyInv
BY InitSafe, NextSafe, PTL DEF Spec

(* Type correctness, for every number of connections and panics.           *)
THEOREM TypeCorrect == Spec => []TypeOK
<1>1. SafetyInv => TypeOK
    BY DEF SafetyInv
<1>. QED BY <1>1, Safe, PTL

(* One thread at a time is in a critical section, the one that holds the   *)
(* mutex, whatever panics, stalls or is killed.                            *)
THEOREM MutualExclusion == Spec => []HolderIsInside
<1>1. SafetyInv => HolderIsInside
    BY DEF SafetyInv
<1>. QED BY <1>1, Safe, PTL

(* A worker never reads a scan half recorded: while it dispatches it holds *)
(* the mutex, so the scan loop is outside its critical section.            *)
THEOREM ReadersSeeWholeScans == Spec => []AnswersAreWhole
<1>1. SafetyInv => AnswersAreWhole
    BY DaemonAssumption DEF SafetyInv, TypeOK, HolderIsInside, WholeOutside, DeadIsDead, AnswersAreWhole
<1>. QED BY <1>1, Safe, PTL
===============================================================================
